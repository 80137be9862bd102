---------------------------- MODULE MCSkillPages ----------------------------
(***************************************************************************)
(* An instance of SkillPages: p2's manifest has another name than p2 was   *)
(* installed by, the name of p1.                                           *)
(***************************************************************************)
EXTENDS SkillPages, TLC

CONSTANTS p1, p2, f1, f2

ThePlugins == {p1, p2}
TheFiles == {f1, f2}
TheLinks == (p1 :> f1) @@ (p2 :> f2)
ThePages == [p \in ThePlugins |-> f1]
TheCatalogs == {ThePlugins}
=============================================================================
