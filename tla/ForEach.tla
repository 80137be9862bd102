------------------------------ MODULE ForEach -------------------------------
(***************************************************************************)
(* What a caller of runConcurrent (cli/parallel.go) may rely on, without   *)
(* goroutines, channels or wait groups: every index is called once, at     *)
(* most width of them at a time, and the return comes after the last one.  *)
(***************************************************************************)
EXTENDS Naturals, FiniteSets

VARIABLES total,     \* the number of indices
          width,     \* how many calls may run at once
          call,      \* call[i]: whether fn(i) is to do, running or done
          returned   \* runConcurrent has returned

vars == <<total, width, call, returned>>
-----------------------------------------------------------------------------
Items == 0 .. (total - 1)
Busy == {i \in Items : call[i] = "running"}

Init ==
    /\ total \in Nat
    /\ width \in Nat
    /\ call = [i \in Items |-> "todo"]
    /\ returned = (total = 0)

Start(i) ==
    /\ call[i] = "todo"
    /\ Cardinality(Busy) < width
    /\ call' = [call EXCEPT ![i] = "running"]
    /\ UNCHANGED <<total, width, returned>>

Finish(i) ==
    /\ call[i] = "running"
    /\ call' = [call EXCEPT ![i] = "done"]
    /\ UNCHANGED <<total, width, returned>>

Return ==
    /\ \A i \in Items : call[i] = "done"
    /\ returned' = TRUE
    /\ UNCHANGED <<total, width, call>>

Next == Return \/ \E i \in Items : Start(i) \/ Finish(i)

Steps == Init /\ [][Next]_vars

Spec == Steps /\ WF_vars(Next)
=============================================================================
