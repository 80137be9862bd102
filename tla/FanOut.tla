------------------------------- MODULE FanOut -------------------------------
(***************************************************************************)
(* runConcurrent (cli/parallel.go): the bounded fan-out every discovery    *)
(* and health command of the CLI uses to call many plugins at once.  The   *)
(* caller's loop acquires a slot of the channel sem, spawns a worker for   *)
(* the index, and waits on the group wg; a worker runs fn(i) and then its  *)
(* two deferred calls, last deferred first: it frees the slot, then tells  *)
(* the group.                                                              *)
(***************************************************************************)
EXTENDS Naturals, FiniteSets

CONSTANTS MaxNumber,   \* bound on the number of indices asked for
          MaxLimit,    \* bound on the limit asked for
          NumCPU       \* runtime.NumCPU()

ASSUME FanOutAssumption ==
    MaxNumber \in Nat /\ MaxLimit \in Nat /\ NumCPU \in Nat \ {0}

VARIABLES n, limit,    \* the arguments; limit 0 stands for every value <= 0
          caller,      \* where the caller is
          next,        \* the loop variable i
          worker,      \* worker[i]: how far fn(i) and its deferred calls are
          sem,         \* elements in the channel sem
          wg,          \* counter of the wait group
          slot         \* slot[i]: how often fn(i) has written its result

args == <<n, limit>>
fanVars == <<n, limit, caller, next, worker, sem, wg, slot>>
-----------------------------------------------------------------------------
Index == 0 .. (n - 1)

fanoutLimit == IF NumCPU < 4 THEN 4 ELSE IF NumCPU > 12 THEN 12 ELSE NumCPU

\* The requested limit after the default.
asked == IF limit = 0 THEN fanoutLimit ELSE limit

\* The loop runs fn itself, without workers.
sequential == n = 1 \/ asked = 1

\* The capacity of the channel sem.
capacity == IF asked > n THEN n ELSE asked

\* How many fn may run at once.
Bound == IF sequential THEN 1 ELSE capacity

FanInit ==
    /\ n \in 0 .. MaxNumber
    /\ limit \in 0 .. MaxLimit
    /\ caller = IF n = 0 THEN "returned" ELSE IF sequential THEN "serial" ELSE "add"
    /\ next = 0
    /\ worker = [i \in Index |-> "unborn"]
    /\ sem = 0
    /\ wg = 0
    /\ slot = [i \in Index |-> 0]

\* for i := 0; i < n; i++ { fn(i) }: fn starts, and the next index waits for it.
SerialCall ==
    /\ caller = "serial"
    /\ next < n
    /\ worker' = [worker EXCEPT ![next] = "calling"]
    /\ caller' = "inCall"
    /\ UNCHANGED <<args, next, sem, wg, slot>>

SerialReturn ==
    /\ caller = "inCall"
    /\ worker' = [worker EXCEPT ![next] = "finished"]
    /\ slot' = [slot EXCEPT ![next] = @ + 1]
    /\ next' = next + 1
    /\ caller' = "serial"
    /\ UNCHANGED <<args, sem, wg>>

SerialExit ==
    /\ caller = "serial"
    /\ next = n
    /\ caller' = "returned"
    /\ UNCHANGED <<args, next, worker, sem, wg, slot>>

\* wg.Add(1), before the worker exists.
Add ==
    /\ caller = "add"
    /\ next < n
    /\ wg' = wg + 1
    /\ caller' = "acquire"
    /\ UNCHANGED <<args, next, worker, sem, slot>>

\* sem <- struct{}{}: blocks while every slot is taken.
Acquire_NoBlock ==
    /\ caller = "acquire"
    /\ sem' = sem + 1
    /\ caller' = "spawn"
    /\ UNCHANGED <<args, next, worker, wg, slot>>
Acquire ==
    /\ caller = "acquire"
    /\ sem < capacity
    /\ sem' = sem + 1
    /\ caller' = "spawn"
    /\ UNCHANGED <<args, next, worker, wg, slot>>

\* go func(i int) {...}(i): the worker starts fn(i).
Spawn ==
    /\ caller = "spawn"
    /\ worker' = [worker EXCEPT ![next] = "calling"]
    /\ next' = next + 1
    /\ caller' = IF next + 1 = n THEN "wait" ELSE "add"
    /\ UNCHANGED <<args, sem, wg, slot>>

\* fn(i) writes its own slot and returns.
Return(i) ==
    /\ ~sequential
    /\ worker[i] = "calling"
    /\ worker' = [worker EXCEPT ![i] = "called"]
    /\ slot' = [slot EXCEPT ![i] = @ + 1]
    /\ UNCHANGED <<args, caller, next, sem, wg>>

\* The deferred <-sem.
Release(i) ==
    /\ worker[i] = "called"
    /\ worker' = [worker EXCEPT ![i] = "released"]
    /\ sem' = sem - 1
    /\ UNCHANGED <<args, caller, next, wg, slot>>

\* The deferred wg.Done().
Done(i) ==
    /\ worker[i] = "released"
    /\ worker' = [worker EXCEPT ![i] = "finished"]
    /\ wg' = wg - 1
    /\ UNCHANGED <<args, caller, next, sem, slot>>

\* wg.Wait() and the return.
Wait ==
    /\ caller = "wait"
    /\ wg = 0
    /\ caller' = "returned"
    /\ UNCHANGED <<args, next, worker, sem, wg, slot>>

Worker(i) == Return(i) \/ Release(i) \/ Done(i)
Caller == SerialCall \/ SerialReturn \/ SerialExit \/ Add \/ Acquire \/ Spawn \/ Wait

FanNext == Caller \/ \E i \in Index : Worker(i)

\* The Go scheduler runs the caller and every worker; a worker's fn returns
\* because invokePlugin gives every plugin call a deadline.
FanFairness ==
    /\ WF_fanVars(Caller)
    /\ \A i \in 0 .. (MaxNumber - 1) : WF_fanVars(i \in Index /\ Worker(i))

FanSpec == FanInit /\ [][FanNext]_fanVars /\ FanFairness
-----------------------------------------------------------------------------
FanTypeOK ==
    /\ n \in 0 .. MaxNumber
    /\ limit \in 0 .. MaxLimit
    /\ caller \in {"serial", "inCall", "add", "acquire", "spawn", "wait", "returned"}
    /\ next \in 0 .. n
    /\ worker \in [Index -> {"unborn", "calling", "called", "released", "finished"}]
    /\ sem \in 0 .. capacity
    /\ wg \in 0 .. n
    /\ slot \in [Index -> Nat]

(***************************************************************************)
(* The refinement: an index is done, for the caller, as soon as fn has     *)
(* written its slot; the deferred calls are stuttering steps.              *)
(***************************************************************************)
Abs == INSTANCE ForEach WITH
    total <- n, width <- Bound, returned <- caller = "returned",
    call <- [i \in Index |->
        CASE worker[i] = "unborn" -> "todo"
          [] worker[i] = "calling" -> "running"
          [] OTHER -> "done"]

\* runConcurrent implements the plain "for each index" its callers read it as.
ImplementsForEach == Abs!Spec
=============================================================================
