------------------------- MODULE MCManagedProcesses -------------------------
(* ManagedProcesses on sets of model values. *)
EXTENDS ManagedProcesses, TLC

\* Actors, ids and pids are alike.
Symmetry == Permutations(Actors) \cup Permutations(Ids) \cup Permutations(Pids)

\* Where requests got in each other's way the properties promise nothing: the search
\* goes no further there.
Orderly == orderly
=============================================================================
