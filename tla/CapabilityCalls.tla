--------------------------- MODULE CapabilityCalls ---------------------------
(***************************************************************************)
(* What CallHost promises the plugin code that calls it                    *)
(* (protocol/pluginmain.go), with no frames, ids, pipes or processes: the  *)
(* host runs the capability at most once, an answer comes only after it    *)
(* ran, a call returns once, and a call that could not be sent is never    *)
(* run.  A call that lost its session may have been run, and may be yet.   *)
(***************************************************************************)
CONSTANT Calls

VARIABLES served,     \* the calls whose capability the host has started
          answered,   \* the calls that returned the capability's result
          refused,    \* the calls that returned an error of the host
          lost,       \* the calls that returned the end of the session
          withdrawn   \* the calls that failed before they were sent

vars == <<served, answered, refused, lost, withdrawn>>
-----------------------------------------------------------------------------
Open(c) == c \notin answered \cup refused \cup lost \cup withdrawn

Init == served = {} /\ answered = {} /\ refused = {} /\ lost = {} /\ withdrawn = {}

Serve(c) ==
    /\ Open(c) \/ c \in lost
    /\ c \notin served
    /\ served' = served \cup {c}
    /\ UNCHANGED <<answered, refused, lost, withdrawn>>

Answer(c) ==
    /\ Open(c) /\ c \in served
    /\ answered' = answered \cup {c}
    /\ UNCHANGED <<served, refused, lost, withdrawn>>

Refuse(c) ==
    /\ Open(c)
    /\ refused' = refused \cup {c}
    /\ UNCHANGED <<served, answered, lost, withdrawn>>

Lose(c) ==
    /\ Open(c)
    /\ lost' = lost \cup {c}
    /\ UNCHANGED <<served, answered, refused, withdrawn>>

Withdraw(c) ==
    /\ Open(c) /\ c \notin served
    /\ withdrawn' = withdrawn \cup {c}
    /\ UNCHANGED <<served, answered, refused, lost>>

Next == \E c \in Calls : Serve(c) \/ Answer(c) \/ Refuse(c) \/ Lose(c) \/ Withdraw(c)

Spec == Init /\ [][Next]_vars
=============================================================================
