----------------------------- MODULE FanOutProofs -----------------------------
(***************************************************************************)
(* What a fan-out of the CLI guarantees, for any number of calls, limit,   *)
(* plugins and builds.  First runConcurrent itself: it keeps account of    *)
(* its slots and workers (FanSound), and every step of it is a start or an *)
(* end of one call, the return, or nothing (FanOutImplements).  Then the   *)
(* state file under such a fan-out: a search and a command about one       *)
(* plugin leave it whole (StateSurvives) with every cached list that was   *)
(* stored (CachesKept), and no use ever stores a list of another build     *)
(* under the time of the present one (CacheFresh).                         *)
(***************************************************************************)
EXTENDS FanOut, StateFile, FiniteSetTheorems, TLAPS

(***************************************************************************)
(* runConcurrent.                                                          *)
(***************************************************************************)
\* The indices whose call holds a slot of sem, and those the group still waits for.
Holding == {i \in Index : worker[i] \in {"calling", "called"}}
Awaited == {i \in Index : worker[i] \in {"calling", "called", "released"}}

\* Where the caller can be; without workers sem and wg are never used.
CallerSound ==
    /\ sequential =>
          /\ caller \in {"serial", "inCall", "returned"}
          /\ sem = 0 /\ wg = 0
          /\ \A i \in Index :
                worker[i] = IF i < next THEN "finished"
                            ELSE IF i = next /\ caller = "inCall" THEN "calling" ELSE "unborn"
    /\ ~sequential => caller \in {"add", "acquire", "spawn", "wait", "returned"}
    /\ caller \in {"add", "inCall", "acquire", "spawn"} => next < n
    /\ caller \in {"wait", "returned"} => next = n
    /\ caller = "returned" => \A i \in Index : worker[i] = "finished"

\* Every index below next, and no other, was handed to a call; its slot was written
\* once if fn has returned.
CallsSound ==
    \A i \in Index :
       /\ worker[i] = "unborn" <=> i >= next /\ ~(caller = "inCall" /\ i = next)
       /\ slot[i] = IF worker[i] \in {"unborn", "calling"} THEN 0 ELSE 1

\* The channel holds what the workers that run fn put there, and the caller's next
\* element; the group counts the workers that are not finished, and the caller's next.
Accounted ==
    ~sequential =>
       /\ sem = Cardinality(Holding) + (IF caller = "spawn" THEN 1 ELSE 0)
       /\ wg = Cardinality(Awaited) + (IF caller \in {"acquire", "spawn"} THEN 1 ELSE 0)

FanSound == FanTypeOK /\ CallerSound /\ CallsSound /\ Accounted
-----------------------------------------------------------------------------
LEMMA FanNumbers ==
    ASSUME FanTypeOK
    PROVE  /\ n \in Nat /\ limit \in Nat /\ next \in Nat /\ sem \in Nat /\ wg \in Nat
           /\ fanoutLimit \in Nat /\ asked \in Nat /\ capacity \in Nat /\ Bound \in Nat
           /\ Index \subseteq Nat
BY FanOutAssumption DEF FanTypeOK, fanoutLimit, asked, capacity, Bound, Index

\* Sets of indices are finite and at most as large as the interval they are of.
LEMMA FewIndices ==
    ASSUME NEW m \in Nat, NEW S \in SUBSET (0 .. (m - 1))
    PROVE  IsFiniteSet(S) /\ Cardinality(S) \in Nat /\ Cardinality(S) <= m
<1>0. 0 \in Int /\ m - 1 \in Int
  OBVIOUS
<1>1. PICK a \in Int : a = 0
  OBVIOUS
<1>2. PICK b \in Int : b = m - 1
  BY <1>0
<1>3. IsFiniteSet(a .. b) /\ Cardinality(a .. b) = IF a > b THEN 0 ELSE b - a + 1
  BY FS_Interval
<1>4. IsFiniteSet(0 .. (m - 1)) /\ Cardinality(0 .. (m - 1)) = m
  BY <1>1, <1>2, <1>3
<1> QED
  BY <1>4, FS_Subset, FS_CardinalityType

\* Types and accounting hold at the start: no call has begun.
LEMMA FanInitSound == FanInit => FanSound
<1> SUFFICES ASSUME FanInit PROVE FanSound
  OBVIOUS
<1>1. FanTypeOK
  BY FanOutAssumption DEF FanInit, FanTypeOK, Index, capacity, asked, fanoutLimit
<1>2. CallerSound
  BY <1>1, FanNumbers DEF FanInit, CallerSound, Index
<1>3. CallsSound
  BY <1>1, FanNumbers DEF FanInit, CallsSound, Index
<1>4. Accounted
  <2>1. Holding = {} /\ Awaited = {}
    BY DEF FanInit, Holding, Awaited
  <2> QED
    BY <2>1, FS_EmptySet DEF FanInit, Accounted
<1> QED
  BY <1>1, <1>2, <1>3, <1>4 DEF FanSound

-----------------------------------------------------------------------------
LEMMA SerialSound ==
    ASSUME FanSound, SerialCall \/ SerialReturn \/ SerialExit
    PROVE  FanSound'
<1>1. /\ sequential /\ sequential' /\ n' = n /\ Index' = Index /\ capacity' = capacity
      /\ sem = 0 /\ wg = 0 /\ sem' = 0 /\ wg' = 0
  BY DEF FanSound, CallerSound, sequential, asked, fanoutLimit, Index, capacity,
         SerialCall, SerialReturn, SerialExit, args
<1>2. n \in Nat /\ next \in 0 .. n /\ capacity \in Nat /\ Index = 0 .. (n - 1)
  BY FanNumbers DEF FanSound, FanTypeOK, Index
<1>3. FanTypeOK /\ CallerSound /\ CallsSound
  BY DEF FanSound
<1>4. CASE SerialCall
  <2>1. next \in Index
    BY <1>2, <1>4 DEF SerialCall
  <2>2. FanTypeOK'
    BY <1>1, <1>2, <1>3, <1>4, <2>1 DEF SerialCall, args, FanTypeOK
  <2>3. CallerSound'
    BY <1>1, <1>2, <1>3, <1>4, <2>1 DEF SerialCall, args, FanTypeOK, CallerSound
  <2>4. CallsSound'
    BY <1>1, <1>2, <1>3, <1>4, <2>1 DEF SerialCall, args, FanTypeOK, CallsSound
  <2> QED
    BY <1>1, <2>2, <2>3, <2>4 DEF FanSound, Accounted
<1>5. CASE SerialReturn
  <2>1. next \in Index /\ next < n
    BY <1>2, <1>3, <1>5 DEF SerialReturn, CallerSound
  <2>2. FanTypeOK'
    BY <1>1, <1>2, <1>3, <1>5, <2>1 DEF SerialReturn, args, FanTypeOK
  <2>3. CallerSound'
    BY <1>1, <1>2, <1>3, <1>5, <2>1 DEF SerialReturn, args, FanTypeOK, CallerSound
  <2>4. CallsSound'
    <3>1. worker[next] = "calling" /\ slot[next] = 0
      BY <1>1, <1>2, <1>3, <1>5, <2>1 DEF SerialReturn, CallerSound, CallsSound
    <3> QED
      BY <1>1, <1>2, <1>3, <1>5, <2>1, <3>1 DEF SerialReturn, args, FanTypeOK, CallsSound
  <2> QED
    BY <1>1, <2>2, <2>3, <2>4 DEF FanSound, Accounted
<1>6. CASE SerialExit
  <2>1. FanTypeOK'
    BY <1>1, <1>2, <1>3, <1>6 DEF SerialExit, args, FanTypeOK
  <2>2. CallerSound'
    BY <1>1, <1>2, <1>3, <1>6 DEF SerialExit, args, FanTypeOK, CallerSound
  <2>3. CallsSound'
    BY <1>1, <1>2, <1>3, <1>6 DEF SerialExit, args, FanTypeOK, CallsSound
  <2> QED
    BY <1>1, <2>1, <2>2, <2>3 DEF FanSound, Accounted
<1> QED
  BY <1>4, <1>5, <1>6

LEMMA LoopSound ==
    ASSUME FanSound, Add \/ Acquire \/ Spawn \/ Wait
    PROVE  FanSound'
<1> USE DEF args
<1>1. ~sequential /\ ~sequential' /\ Index' = Index /\ capacity' = capacity
  BY DEF FanSound, CallerSound, sequential, asked, fanoutLimit, Index, capacity,
         Add, Acquire, Spawn, Wait
<1>2. CASE Add
  <2>1. Holding' = Holding /\ Awaited' = Awaited
    BY <1>1, <1>2 DEF Add, Holding, Awaited
  <2>2. Awaited \in SUBSET (0 .. (next - 1))
    BY <1>2, FanNumbers DEF Add, Awaited, FanSound, CallsSound, Index
  <2>3. wg <= next /\ next < n
    BY <1>1, <1>2, <2>2, FewIndices, FanNumbers DEF Add, FanSound, Accounted
  <2>4. FanTypeOK'
    BY <1>1, <1>2, <2>3, FanNumbers DEF Add, FanSound, FanTypeOK
  <2>5. CallerSound' /\ CallsSound'
    BY <1>1, <1>2 DEF Add, FanSound, CallerSound, CallsSound
  <2>6. Accounted'
    <3>1. Cardinality(Awaited) \in Nat
      BY <2>2, FewIndices, FanNumbers DEF FanSound
    <3> QED
      BY <1>1, <1>2, <2>1, <3>1 DEF Add, FanSound, Accounted
  <2> QED
    BY <2>4, <2>5, <2>6 DEF FanSound
<1>3. CASE Acquire
  <2>1. Holding' = Holding /\ Awaited' = Awaited
    BY <1>1, <1>3 DEF Acquire, Holding, Awaited
  <2>2. FanTypeOK'
    BY <1>1, <1>3, FanNumbers DEF Acquire, FanSound, FanTypeOK
  <2>3. CallerSound' /\ CallsSound'
    BY <1>1, <1>3 DEF Acquire, FanSound, CallerSound, CallsSound
  <2>4. Accounted'
    <3>1. Cardinality(Holding) \in Nat
      BY FewIndices, FanNumbers DEF FanSound, Holding, Index
    <3> QED
      BY <1>1, <1>3, <2>1, <3>1 DEF Acquire, FanSound, Accounted
  <2> QED
    BY <2>2, <2>3, <2>4 DEF FanSound
<1>4. CASE Spawn
  <2>1. next \in Index /\ next < n
    BY <1>4, FanNumbers DEF Spawn, FanSound, CallerSound, Index
  <2>2. worker[next] = "unborn"
    BY <1>4, <2>1, FanNumbers DEF Spawn, FanSound, CallsSound
  <2>3. next \notin Holding /\ next \notin Awaited
    BY <2>2 DEF Holding, Awaited
  <2>4. Holding' = Holding \cup {next} /\ Awaited' = Awaited \cup {next}
    BY <1>1, <1>4, <2>1 DEF Spawn, Holding, Awaited, FanSound, FanTypeOK
  <2>5. FanTypeOK'
    BY <1>1, <1>4, <2>1, FanNumbers DEF Spawn, FanSound, FanTypeOK
  <2>6. CallerSound'
    BY <1>1, <1>4, <2>1, FanNumbers DEF Spawn, FanSound, CallerSound
  <2>7. CallsSound'
    BY <1>1, <1>4, <2>1, <2>2, FanNumbers DEF Spawn, FanSound, FanTypeOK, CallsSound
  <2>8. Accounted'
    <3>1. /\ IsFiniteSet(Holding) /\ Cardinality(Holding) \in Nat
          /\ IsFiniteSet(Awaited) /\ Cardinality(Awaited) \in Nat
      BY FewIndices, FanNumbers DEF FanSound, Holding, Awaited, Index
    <3>2. /\ Cardinality(Holding') = Cardinality(Holding) + 1
          /\ Cardinality(Awaited') = Cardinality(Awaited) + 1
      BY <2>3, <2>4, <3>1, FS_AddElement
    <3> QED
      BY <1>1, <1>4, <3>1, <3>2 DEF Spawn, FanSound, Accounted
  <2> QED
    BY <2>5, <2>6, <2>7, <2>8 DEF FanSound
<1>5. CASE Wait
  <2>1. Holding' = Holding /\ Awaited' = Awaited
    BY <1>1, <1>5 DEF Wait, Holding, Awaited
  <2>2. FanTypeOK'
    BY <1>1, <1>5, FanNumbers DEF Wait, FanSound, FanTypeOK
  <2>3. \A i \in Index : worker[i] = "finished"
    <3>1. IsFiniteSet(Awaited) /\ Cardinality(Awaited) \in Nat
      BY FewIndices, FanNumbers DEF FanSound, Awaited, Index
    <3>2. Awaited = {}
      BY <1>1, <1>5, <3>1, FS_EmptySet DEF Wait, FanSound, Accounted
    <3>3. \A i \in Index : worker[i] # "unborn"
      BY <1>5, FanNumbers DEF Wait, FanSound, CallerSound, CallsSound, Index
    <3> QED
      BY <3>2, <3>3 DEF Awaited, FanSound, FanTypeOK
  <2>4. CallerSound' /\ CallsSound'
    BY <1>1, <1>5, <2>3 DEF Wait, FanSound, CallerSound, CallsSound
  <2>5. Accounted'
    BY <1>1, <1>5, <2>1 DEF Wait, FanSound, Accounted
  <2> QED
    BY <2>2, <2>4, <2>5 DEF FanSound
<1> QED
  BY <1>2, <1>3, <1>4, <1>5

\* A worker's step touches its own slot, and takes at most itself out of the counts.
LEMMA WorkerSound ==
    ASSUME FanSound, NEW i \in Index, Worker(i)
    PROVE  FanSound'
<1> USE DEF args
<1>0. ~sequential /\ ~sequential' /\ Index' = Index /\ capacity' = capacity
  BY DEF FanSound, CallerSound, sequential, asked, fanoutLimit, Index, capacity,
         Worker, Return, Release, Done
<1>1. /\ IsFiniteSet(Holding) /\ Cardinality(Holding) \in Nat
      /\ IsFiniteSet(Awaited) /\ Cardinality(Awaited) \in Nat
  BY FewIndices, FanNumbers DEF FanSound, Holding, Awaited, Index
<1>2. CASE Return(i)
  <2>1. Holding' = Holding /\ Awaited' = Awaited
    BY <1>0, <1>2 DEF Return, Holding, Awaited, FanSound, FanTypeOK
  <2>2. FanTypeOK'
    BY <1>0, <1>2, FanNumbers DEF Return, FanSound, FanTypeOK
  <2>3. CallerSound'
    BY <1>0, <1>2 DEF Return, FanSound, FanTypeOK, CallerSound
  <2>4. CallsSound'
    BY <1>0, <1>2 DEF Return, FanSound, FanTypeOK, CallsSound
  <2>5. Accounted'
    BY <1>0, <1>2, <2>1 DEF Return, FanSound, Accounted
  <2> QED
    BY <2>2, <2>3, <2>4, <2>5 DEF FanSound
<1>3. CASE Release(i)
  <2>1. i \in Holding /\ Holding' = Holding \ {i} /\ Awaited' = Awaited
    BY <1>0, <1>3 DEF Release, Holding, Awaited, FanSound, FanTypeOK
  <2>2. Cardinality(Holding') = Cardinality(Holding) - 1
    BY <1>1, <2>1, FS_RemoveElement
  <2>3. Cardinality(Holding') \in Nat
    BY <1>1, <2>1, FS_RemoveElement, FS_CardinalityType
  <2>4. Accounted' /\ sem' \in Nat
    BY <1>0, <1>1, <1>3, <2>1, <2>2, <2>3 DEF Release, FanSound, Accounted
  <2>5. FanTypeOK'
    BY <1>0, <1>3, <2>4, FanNumbers DEF Release, FanSound, FanTypeOK
  <2>6. CallerSound'
    BY <1>0, <1>3 DEF Release, FanSound, FanTypeOK, CallerSound
  <2>7. CallsSound'
    BY <1>0, <1>3 DEF Release, FanSound, FanTypeOK, CallsSound
  <2> QED
    BY <2>4, <2>5, <2>6, <2>7 DEF FanSound
<1>4. CASE Done(i)
  <2>1. i \in Awaited /\ Awaited' = Awaited \ {i} /\ Holding' = Holding
    BY <1>0, <1>4 DEF Done, Holding, Awaited, FanSound, FanTypeOK
  <2>2. Cardinality(Awaited') = Cardinality(Awaited) - 1
    BY <1>1, <2>1, FS_RemoveElement
  <2>3. Cardinality(Awaited') \in Nat
    BY <1>1, <2>1, FS_RemoveElement, FS_CardinalityType
  <2>4. Accounted' /\ wg' \in Nat
    BY <1>0, <1>1, <1>4, <2>1, <2>2, <2>3 DEF Done, FanSound, Accounted
  <2>5. FanTypeOK'
    BY <1>0, <1>4, <2>4, FanNumbers DEF Done, FanSound, FanTypeOK
  <2>6. CallerSound'
    BY <1>0, <1>4 DEF Done, FanSound, FanTypeOK, CallerSound
  <2>7. CallsSound'
    BY <1>0, <1>4 DEF Done, FanSound, FanTypeOK, CallsSound
  <2> QED
    BY <2>4, <2>5, <2>6, <2>7 DEF FanSound
<1> QED
  BY <1>2, <1>3, <1>4 DEF Worker

LEMMA FanNextSound == FanSound /\ [FanNext]_fanVars => FanSound'
<1> SUFFICES ASSUME FanSound, [FanNext]_fanVars PROVE FanSound'
  OBVIOUS
<1>1. CASE UNCHANGED fanVars
  BY <1>1 DEF fanVars, FanSound, FanTypeOK, CallerSound, CallsSound, Accounted, Holding, Awaited,
     Index, sequential, capacity, asked, fanoutLimit
<1>2. CASE Caller
  BY <1>2, SerialSound, LoopSound DEF Caller
<1>3. CASE \E i \in Index : Worker(i)
  BY <1>3, WorkerSound
<1> QED
  BY <1>1, <1>2, <1>3 DEF FanNext

\* Types and accounting of runConcurrent, for every n, limit and number of CPUs.
THEOREM FanSoundTheorem == FanSpec => []FanSound
<1> QED
  BY FanInitSound, FanNextSound, PTL DEF FanSpec
-----------------------------------------------------------------------------
\* ForEach counts as this module does.
LEMMA SameCardinality ==
    ASSUME NEW S
    PROVE  Abs!Cardinality(S) = Cardinality(S)
BY DEF Cardinality, Abs!Cardinality

\* At most Bound calls of fn run, and one fewer while the caller holds a slot for the
\* next.
LEMMA BusyBounded ==
    ASSUME FanSound, caller = "spawn" \/ (caller = "serial" /\ next < n)
    PROVE  Cardinality(Abs!Busy) < Bound
<1>1. Abs!Busy \in SUBSET Index
  BY DEF Abs!Busy, Abs!Items, Index
<1>2. \A i \in Abs!Busy : worker[i] = "calling"
  BY DEF Abs!Busy, Abs!Items, Index, FanSound, FanTypeOK
<1>3. CASE caller = "serial" /\ next < n
  <2>1. sequential /\ Abs!Busy = {}
    BY <1>1, <1>2, <1>3, FanNumbers DEF FanSound, CallerSound
  <2> QED
    BY <2>1, FS_EmptySet DEF Bound
<1>4. CASE caller = "spawn"
  <2>1. Abs!Busy \in SUBSET Holding
    BY <1>1, <1>2 DEF Holding
  <2>2. IsFiniteSet(Holding) /\ Cardinality(Holding) \in Nat
    BY FewIndices, FanNumbers DEF FanSound, Holding, Index
  <2>3. Cardinality(Abs!Busy) <= Cardinality(Holding) /\ Cardinality(Abs!Busy) \in Nat
    BY <2>1, <2>2, FS_Subset, FS_CardinalityType
  <2>4. ~sequential /\ sem <= capacity /\ sem = Cardinality(Holding) + 1
    BY <1>4 DEF FanSound, FanTypeOK, CallerSound, Accounted
  <2> QED
    BY <2>2, <2>3, <2>4, FanNumbers DEF Bound, FanSound
<1> QED
  BY <1>3, <1>4

\* runConcurrent starts as its callers read it.
LEMMA FanInitMaps == FanInit => Abs!Init
<1> SUFFICES ASSUME FanInit PROVE Abs!Init
  OBVIOUS
<1>1. FanTypeOK
  BY FanInitSound DEF FanSound
<1>2. n \in Nat /\ Bound \in Nat
  BY <1>1, FanNumbers
<1>3. (caller = "returned") = (n = 0)
  BY <1>2 DEF FanInit
<1> QED
  BY <1>2, <1>3 DEF FanInit, Abs!Init, Abs!Items, Index

\* How far a call is, as a caller sees it.
Seen == [i \in Index |->
            CASE worker[i] = "unborn" -> "todo"
              [] worker[i] = "calling" -> "running"
              [] OTHER -> "done"]

\* A step of runConcurrent is the start or the end of one call, the return, or nothing.
LEMMA FanStepMaps == FanSound /\ [FanNext]_fanVars => [Abs!Next]_(Abs!vars)
<1> SUFFICES ASSUME FanSound, [FanNext]_fanVars PROVE [Abs!Next]_(Abs!vars)
  OBVIOUS
<1>1. n' = n /\ Index' = Index /\ Bound' = Bound
  BY DEF FanNext, fanVars, Caller, SerialCall, SerialReturn, SerialExit, Add, Acquire, Spawn,
         Wait, Worker, Return, Release, Done, args, Index, Bound, sequential, capacity, asked,
         fanoutLimit
<1>2. n \in Nat /\ next \in Nat /\ Index = 0 .. (n - 1)
  BY FanNumbers DEF FanSound, Index
<1>3. ASSUME NEW i \in Index, worker[i] = "unborn", Cardinality(Abs!Busy) < Bound,
             worker' = [worker EXCEPT ![i] = "calling"],
             (caller' = "returned") = (caller = "returned")
      PROVE  Abs!Next
  <2>1. Seen[i] = "todo" /\ Seen' = [Seen EXCEPT ![i] = "running"]
    BY <1>1, <1>3 DEF Seen, FanSound, FanTypeOK
  <2>2. UNCHANGED <<n, Bound, caller = "returned">>
    BY <1>1, <1>3
  <2>3. Abs!Start(i)
    BY <1>3, <2>1, <2>2, SameCardinality DEF Abs!Start, Seen
  <2> QED
    BY <1>2, <2>3 DEF Abs!Next, Abs!Items
<1>4. ASSUME NEW i \in Index, worker[i] = "calling", NEW after \in {"called", "finished"},
             worker' = [worker EXCEPT ![i] = after],
             (caller' = "returned") = (caller = "returned")
      PROVE  Abs!Next
  <2>1. Seen[i] = "running" /\ Seen' = [Seen EXCEPT ![i] = "done"]
    BY <1>1, <1>4 DEF Seen, FanSound, FanTypeOK
  <2>2. Abs!Finish(i)
    BY <1>1, <1>4, <2>1 DEF Abs!Finish, Seen
  <2> QED
    BY <1>2, <2>2 DEF Abs!Next, Abs!Items
<1>5. ASSUME \A i \in Index : worker[i] = "finished", worker' = worker, caller' = "returned"
      PROVE  Abs!Next
  <2>1. Seen' = Seen /\ \A i \in Index : Seen[i] = "done"
    BY <1>1, <1>5 DEF Seen
  <2>2. Abs!Return
    BY <1>1, <1>2, <1>5, <2>1 DEF Abs!Return, Abs!Items, Seen
  <2> QED
    BY <2>2 DEF Abs!Next
<1>6. ASSUME Seen' = Seen, (caller' = "returned") = (caller = "returned")
      PROVE  UNCHANGED Abs!vars
  BY <1>1, <1>6 DEF Abs!vars, Seen
<1>7. CASE UNCHANGED fanVars
  BY <1>1, <1>6, <1>7 DEF fanVars, Seen
<1>8. CASE SerialCall
  <2>1. next \in Index /\ worker[next] = "unborn"
    BY <1>2, <1>8 DEF SerialCall, FanSound, CallsSound
  <2>2. (caller' = "returned") = (caller = "returned")
    BY <1>8 DEF SerialCall
  <2> QED
    BY <1>3, <1>8, <2>1, <2>2, BusyBounded DEF SerialCall
<1>9. CASE SerialReturn
  <2>1. next \in Index /\ worker[next] = "calling"
    BY <1>2, <1>9 DEF SerialReturn, FanSound, CallerSound
  <2>2. (caller' = "returned") = (caller = "returned")
    BY <1>9 DEF SerialReturn
  <2> QED
    BY <1>4, <1>9, <2>1, <2>2 DEF SerialReturn
<1>10. CASE SerialExit
  <2>1. \A i \in Index : worker[i] = "finished"
    BY <1>2, <1>10 DEF SerialExit, FanSound, CallerSound
  <2> QED
    BY <1>5, <1>10, <2>1 DEF SerialExit
<1>11. CASE Add \/ Acquire
  <2>1. Seen' = Seen /\ (caller' = "returned") = (caller = "returned")
    BY <1>1, <1>11 DEF Add, Acquire, Seen
  <2> QED
    BY <1>6, <2>1
<1>12. CASE Spawn
  <2>1. next \in Index /\ worker[next] = "unborn"
    BY <1>2, <1>12 DEF Spawn, FanSound, CallerSound, CallsSound
  <2>2. (caller' = "returned") = (caller = "returned")
    BY <1>12 DEF Spawn
  <2> QED
    BY <1>3, <1>12, <2>1, <2>2, BusyBounded DEF Spawn
<1>13. CASE Wait
  <2>1. \A i \in Index : worker[i] = "finished"
    <3>1. FanSound'
      BY FanNextSound
    <3> QED
      BY <1>1, <1>13, <3>1 DEF Wait, FanSound, CallerSound
  <2> QED
    BY <1>5, <1>13, <2>1 DEF Wait
<1>14. ASSUME NEW i \in Index, Worker(i)
       PROVE  [Abs!Next]_(Abs!vars)
  <2>1. caller' = caller
    BY <1>14 DEF Worker, Return, Release, Done
  <2>2. CASE Return(i)
    BY <1>4, <2>1, <2>2 DEF Return
  <2>3. CASE Release(i) \/ Done(i)
    <3>1. Seen' = Seen
      BY <1>1, <2>3 DEF Release, Done, Seen, FanSound, FanTypeOK
    <3> QED
      BY <1>6, <2>1, <3>1
  <2> QED
    BY <1>14, <2>2, <2>3 DEF Worker
<1> QED
  BY <1>7, <1>8, <1>9, <1>10, <1>11, <1>12, <1>13, <1>14 DEF FanNext, Caller

\* The safety part of ImplementsForEach.
THEOREM FanOutImplements == FanSpec => Abs!Steps
<1> QED
  BY FanInitMaps, FanStepMaps, FanSoundTheorem, PTL DEF FanSpec, Abs!Steps

\* When runConcurrent returns, fn has written every slot once, and no worker is left.
ResultsComplete == caller = "returned" => (\A i \in Index : slot[i] = 1) /\ sem = 0 /\ wg = 0

\* The return of runConcurrent is safe to read after: for every n, limit and NumCPU.
THEOREM ResultsCompleteTheorem == FanSpec => []ResultsComplete
<1>1. FanSound => ResultsComplete
  <2> SUFFICES ASSUME FanSound, caller = "returned"
               PROVE  (\A i \in Index : slot[i] = 1) /\ sem = 0 /\ wg = 0
    BY DEF ResultsComplete
  <2>1. \A i \in Index : worker[i] = "finished"
    BY DEF FanSound, CallerSound
  <2>2. Holding = {} /\ Awaited = {}
    BY <2>1 DEF Holding, Awaited
  <2>3. Cardinality(Holding) = 0 /\ Cardinality(Awaited) = 0
    BY <2>2, FS_EmptySet
  <2>4. sem = 0 /\ wg = 0
    BY <2>3 DEF FanSound, CallerSound, Accounted
  <2>5. \A i \in Index : slot[i] = 1
    BY <2>1 DEF FanSound, CallsSound
  <2> QED
    BY <2>4, <2>5
<1> QED
  BY <1>1, FanSoundTheorem, PTL
-----------------------------------------------------------------------------
(***************************************************************************)
(* The state file: the parts of the invariant.                             *)
(***************************************************************************)
Writers == {"truncate", "put"}
Listing == {"lookup", "stat", "list", "lock", "reread"}
Probing == {"probeLookup", "probe", "storeProcess"}
Testing == {"testRead", "test"}

\* What a goroutine does follows from the command; a goroutine that writes in a search
\* or rereads in any command holds cacheMu; no goroutine runs for other plugins.
PcSound ==
    \A p \in Plugins :
          /\ pc[p] \in (CASE task = "search" -> Listing \cup Writers \cup {"done"}
                          [] task = "selftest" -> Listing \cup Probing \cup Writers \cup {"done"}
                          [] task = "doctor" -> Testing \cup Writers \cup {"done"})
          /\ p \notin eligible => pc[p] = "done"
          /\ pc[p] = "reread" => cacheMu = p
          /\ task = "search" /\ pc[p] \in Writers => cacheMu = p
          /\ result[p] = "cached" => task # "doctor" /\ pc[p] \notin Listing

\* A cached list is not newer than the binary, and is the binary's if its time is.
FreshIn(st) ==
    \A q \in Plugins :
       /\ binary[q] # 0 => st.cache[q].mtime <= binary[q]
       /\ st.cache[q].mtime = binary[q] => st.cache[q].ops = binary[q]

\* The time is taken before the list, so a list that will be stored is not older.
FreshSound ==
    /\ FreshIn(file.st)
    /\ \A p \in Plugins :
          /\ FreshIn(snap[p])
          /\ mtime[p] <= binary[p]
          /\ pc[p] \in {"lock", "reread"} =>
                mtime[p] # 0 /\ mtime[p] <= ops[p] /\ ops[p] <= binary[p]

\* Under safe use a writer has all that the file had before it truncated it.
Stored(q) == [ops |-> ops[q], mtime |-> mtime[q]]
Kept ==
    /\ Intact
    /\ Writing = {} =>
          \A q \in Plugins : result[q] = "cached" /\ pc[q] \notin Writers =>
             file.st.cache[q] = Stored(q)
    /\ \A p \in Plugins :
          /\ pc[p] = "put" => file = Truncated
          /\ pc[p] \in Writers \cup {"test"} => snap[p].installed = Plugins
          /\ pc[p] \in Writers =>
                \A q \in Plugins : result[q] = "cached" => snap[p].cache[q] = Stored(q)
-----------------------------------------------------------------------------
(***************************************************************************)
(* Types, and the positions of the goroutines.                             *)
(***************************************************************************)
LEMMA EmptyType == EmptyState \in States
BY StateFileAssumption DEF EmptyState, States, Caches, NoCache, Builds

\* The file at the start is whole, has every plugin, and lists of the first build only.
LEMMA InitFile ==
  ASSUME Init
  PROVE  /\ file.kind = "whole" /\ file.st.installed = Plugins
         /\ file \in [kind : {"whole", "empty", "torn"}, st : States]
         /\ \A q \in Plugins : file.st.cache[q] \in {NoCache, [ops |-> 1, mtime |-> 1]}
<1>1. PICK cached, dead \in SUBSET Plugins :
         file = Whole([EmptyState EXCEPT
                    !.installed = Plugins,
                    !.cache = [p \in Plugins |->
                        IF p \in cached THEN [ops |-> 1, mtime |-> 1] ELSE NoCache],
                    !.process = [p \in Plugins |-> IF p \in dead THEN "dead" ELSE "none"]])
  BY DEF Init
<1> DEFINE cache == [p \in Plugins |->
                       IF p \in cached THEN [ops |-> 1, mtime |-> 1] ELSE NoCache]
           process == [p \in Plugins |-> IF p \in dead THEN "dead" ELSE "none"]
<1>2. cache \in [Plugins -> Caches] /\ process \in [Plugins -> {"none", "dead", "alive"}]
  BY StateFileAssumption DEF Caches, NoCache, Builds
<1>3. \A q \in Plugins : cache[q] \in {NoCache, [ops |-> 1, mtime |-> 1]}
  OBVIOUS
<1>4. file = Whole([EmptyState EXCEPT !.installed = Plugins, !.cache = cache,
                                      !.process = process])
  BY <1>1, Zenon
<1> HIDE DEF cache, process
<1>5. file = Whole([installed |-> Plugins, cache |-> cache,
                    auth |-> [p \in Plugins |-> "untested"], process |-> process])
  BY <1>4 DEF EmptyState, Whole
<1> QED
  BY <1>2, <1>3, <1>5 DEF Whole, States

LEMMA InitType == Init => TypeOK
<1> SUFFICES ASSUME Init PROVE TypeOK
  OBVIOUS
<1>1. file.kind = "whole" /\ file \in [kind : {"whole", "empty", "torn"}, st : States]
  BY InitFile
<1> QED
  BY <1>1, EmptyType, StateFileAssumption DEF Init, TypeOK, Builds

LEMMA NextType == TypeOK /\ [Next]_vars => TypeOK'
<1> SUFFICES ASSUME TypeOK, [Next]_vars PROVE TypeOK'
  OBVIOUS
<1>1. CASE UNCHANGED vars
  BY <1>1 DEF TypeOK, vars, command, job
<1>2. ASSUME NEW p \in Plugins, Rebuild(p) PROVE TypeOK'
  BY <1>2, StateFileAssumption DEF Rebuild, TypeOK, command, job, Builds
<1>3. ASSUME NEW p \in Plugins, Job(p) PROVE TypeOK'
  <2>1. CASE Lookup(p) \/ TestRead(p)
    BY <1>3, <2>1 DEF Lookup, TestRead, Fail, Go, Report, TypeOK, command
  <2>2. CASE Stat(p)
    BY <1>3, <2>2 DEF Stat, Go, Report, AfterList, TypeOK, command
  <2>3. CASE List(p)
    BY <1>3, <2>3 DEF List, Fail, Go, Report, AfterAnswer, AfterList, TypeOK, command
  <2>4. CASE Lock(p)
    BY <1>3, <2>4 DEF Lock, Go, TypeOK, command, job
  <2>5. CASE Reread(p)
    <3>1. CacheIn(file.st, p) \in States
      BY DEF CacheIn, States, Caches, TypeOK
    <3> QED
      BY <1>3, <2>5, <3>1 DEF Reread, Store, GiveUp, Go, Report, AfterList, TypeOK, command, job
  <2>6. CASE ProbeLookup(p) \/ Probe(p)
    BY <1>3, <2>6 DEF ProbeLookup, Probe, Fail, Go, Report, TypeOK, command, job
  <2>7. CASE StoreProcess(p)
    <3>1. [file.st EXCEPT !.process[p] = "alive"] \in States
      BY DEF States, TypeOK
    <3> QED
      BY <1>3, <2>7, <3>1 DEF StoreProcess, Go, TypeOK, command
  <2>8. CASE Test(p)
    <3>1. ASSUME NEW r \in {"passed", "failed"}
          PROVE  [snap[p] EXCEPT !.auth[p] = r] \in States
      <4>1. snap[p] \in States
        BY <1>3 DEF TypeOK
      <4> QED
        BY <4>1 DEF States
    <3> QED
      BY <1>3, <2>8, <3>1 DEF Test, Go, Report, TypeOK, command
  <2>9. CASE Truncate(p)
    BY <1>3, <2>9, EmptyType DEF Truncate, Truncated, Go, TypeOK, command, job
  <2>10. CASE Put(p)
    <3>1. file' \in [kind : {"whole", "empty", "torn"}, st : States]
          /\ (file'.kind # "whole" => file'.st = EmptyState)
      BY <1>3, <2>10, EmptyType DEF Put, Whole, Torn, TypeOK
    <3> QED
      BY <1>3, <2>10, <3>1 DEF Put, AfterWrite, Go, TypeOK, command, job
  <2> QED
    BY <1>3, <2>1, <2>2, <2>3, <2>4, <2>5, <2>6, <2>7, <2>8, <2>9, <2>10 DEF Job
<1> QED
  BY <1>1, <1>2, <1>3 DEF Next

\* Every variable keeps its type, and only a goroutine on its way through cacheOperations
\* holds cacheMu.
THEOREM TypeCorrect == Spec => []TypeOK
BY InitType, NextType, PTL DEF Spec

LEMMA InitPc == Init => PcSound
BY StateFileAssumption DEF Init, PcSound, Listing, Writers, Probing, Testing

LEMMA NextPc == TypeOK /\ PcSound /\ [Next]_vars => PcSound'
<1> SUFFICES ASSUME TypeOK, PcSound, [Next]_vars PROVE PcSound'
  OBVIOUS
<1> USE DEF PcSound, Listing, Writers, Probing, Testing
<1>0. task \in {"search", "selftest", "doctor"}
  BY StateFileAssumption DEF TypeOK
<1>1. CASE UNCHANGED vars
  BY <1>1 DEF vars, command, job
<1>2. ASSUME NEW p \in Plugins, Rebuild(p) PROVE PcSound'
  BY <1>2 DEF Rebuild, command, job
<1>3. ASSUME NEW p \in Plugins, Job(p) PROVE PcSound'
  <2> USE DEF TypeOK, command, job, Go, Report, Fail
  <2>0. None \notin Plugins
    BY StateFileAssumption
  <2>1. CASE Lookup(p) \/ TestRead(p)
    BY <1>0, <1>3, <2>1 DEF Lookup, TestRead
  <2>2. CASE Stat(p)
    BY <1>0, <1>3, <2>2 DEF Stat, AfterList
  <2>3. CASE List(p)
    BY <1>0, <1>3, <2>3 DEF List, AfterAnswer, AfterList
  <2>4. CASE Lock(p)
    BY <1>0, <1>3, <2>0, <2>4 DEF Lock
  <2>5. CASE Reread(p)
    BY <1>0, <1>3, <2>5 DEF Reread, Store, GiveUp, AfterList
  <2>6. CASE ProbeLookup(p) \/ Probe(p)
    BY <1>0, <1>3, <2>6 DEF ProbeLookup, Probe
  <2>7. CASE StoreProcess(p)
    BY <1>0, <1>3, <2>7 DEF StoreProcess
  <2>8. CASE Test(p)
    BY <1>0, <1>3, <2>8 DEF Test
  <2>9. CASE Truncate(p)
    BY <1>0, <1>3, <2>9 DEF Truncate
  <2>10. CASE Put(p)
    BY <1>0, <1>3, <2>10 DEF Put, AfterWrite
  <2> QED
    BY <1>3, <2>1, <2>2, <2>3, <2>4, <2>5, <2>6, <2>7, <2>8, <2>9, <2>10 DEF Job
<1> QED
  BY <1>1, <1>2, <1>3 DEF Next
-----------------------------------------------------------------------------
(***************************************************************************)
(* The cached lists and the binaries.                                      *)
(***************************************************************************)
LEMMA InitFresh == Init => FreshSound
<1> SUFFICES ASSUME Init PROVE FreshSound
  OBVIOUS
<1>1. binary \in [Plugins -> {0, 1}] /\ FreshIn(EmptyState)
  BY DEF Init, FreshIn, EmptyState, NoCache
<1>2. FreshIn(file.st)
  BY <1>1, InitFile DEF FreshIn, NoCache
<1>3. snap = [p \in Plugins |-> EmptyState] /\ mtime = [p \in Plugins |-> 0]
      /\ \A p \in Plugins : pc[p] \notin {"lock", "reread"}
  BY DEF Init
<1> QED
  BY <1>1, <1>2, <1>3 DEF FreshSound

LEMMA NextFresh == TypeOK /\ TypeOK' /\ FreshSound /\ [Next]_vars => FreshSound'
<1> SUFFICES ASSUME TypeOK, TypeOK', FreshSound, [Next]_vars PROVE FreshSound'
  OBVIOUS
<1>1. CASE UNCHANGED vars
  BY <1>1 DEF FreshSound, FreshIn, vars, command, job
<1>2. ASSUME NEW p \in Plugins, Rebuild(p) PROVE FreshSound'
  <2>1. \A q \in Plugins : binary[q] \in Nat /\ binary'[q] \in Nat /\ binary[q] <= binary'[q]
                           /\ (binary'[q] # binary[q] => binary[q] # 0 /\ binary'[q] > binary[q])
    BY <1>2, StateFileAssumption DEF Rebuild, TypeOK, Builds
  <2>2. ASSUME NEW st \in States, FreshIn(st) PROVE FreshIn(st)'
    BY <2>1, <2>2 DEF FreshIn, States, Caches, Builds
  <2>3. FreshIn(file.st)' /\ \A q \in Plugins : FreshIn(snap[q])'
    <3>1. file' = file /\ snap' = snap /\ file.st \in States /\ snap \in [Plugins -> States]
      BY <1>2 DEF Rebuild, job, TypeOK
    <3> QED
      BY <2>2, <3>1 DEF FreshSound, FreshIn
  <2>4. mtime' = mtime /\ ops' = ops /\ pc' = pc
    BY <1>2 DEF Rebuild, job
  <2> QED
    BY <2>1, <2>3, <2>4 DEF FreshSound, TypeOK, Builds
<1>3. ASSUME NEW p \in Plugins, Job(p) PROVE FreshSound'
  <2>1. binary' = binary
    BY <1>3 DEF Job, Lookup, Stat, List, Lock, Reread, Store, GiveUp, ProbeLookup, Probe,
                StoreProcess, TestRead, Test, Truncate, Put, Fail
  <2>2. FreshIn(EmptyState)
    BY DEF FreshIn, EmptyState, NoCache, TypeOK, Builds
  <2>3. FreshIn(file'.st)
    <3>1. file' = file \/ file' = Truncated \/ file' = Torn \/ file' = Whole(snap[p])
      BY <1>3 DEF Job, Lookup, Stat, List, Lock, Reread, Store, GiveUp, ProbeLookup, Probe,
                  StoreProcess, TestRead, Test, Truncate, Put, Fail
    <3> QED
      BY <2>2, <3>1 DEF FreshSound, Truncated, Torn, Whole
  <2>4. \A q \in Plugins : FreshIn(snap'[q])
    <3>1. CASE Reread(p) /\ snap' = [snap EXCEPT ![p] = CacheIn(file.st, p)]
      <4>1. mtime[p] \in Nat /\ ops[p] \in Nat /\ binary[p] \in Nat
        BY DEF TypeOK, Builds
      <4>2. mtime[p] # 0 /\ mtime[p] <= ops[p] /\ ops[p] <= binary[p]
        BY <3>1 DEF Reread, FreshSound
      <4>3. \A q \in Plugins : CacheIn(file.st, p).cache[q] =
                 IF q = p THEN [ops |-> ops[p], mtime |-> mtime[p]] ELSE file.st.cache[q]
        BY DEF CacheIn, TypeOK, States
      <4>4. FreshIn(CacheIn(file.st, p))
        BY <4>1, <4>2, <4>3 DEF FreshIn, FreshSound
      <4> QED
        BY <3>1, <4>4 DEF FreshSound, TypeOK
    <3>2. ASSUME NEW st \in States, st.cache = file.st.cache \/ st.cache = snap[p].cache,
                 snap' = [snap EXCEPT ![p] = st]
          PROVE  \A q \in Plugins : FreshIn(snap'[q])
      BY <3>2 DEF FreshSound, FreshIn, TypeOK
    <3>3. CASE snap' = snap
      BY <3>3 DEF FreshSound
    <3>4. CASE Test(p)
      <4>1. PICK r \in {"passed", "failed"} : snap' = [snap EXCEPT ![p].auth[p] = r]
        BY <3>4 DEF Test
      <4>2. snap' = [snap EXCEPT ![p] = [snap[p] EXCEPT !.auth[p] = r]]
        BY <4>1
      <4>3. [snap[p] EXCEPT !.auth[p] = r] \in States
             /\ [snap[p] EXCEPT !.auth[p] = r].cache = snap[p].cache
        <5>1. snap[p] \in States
          BY <1>3 DEF TypeOK
        <5> QED
          BY <5>1 DEF States
      <4> QED
        BY <3>2, <4>2, <4>3
    <3>5. CASE StoreProcess(p)
      <4>1. [file.st EXCEPT !.process[p] = "alive"] \in States
             /\ [file.st EXCEPT !.process[p] = "alive"].cache = file.st.cache
        BY DEF States, TypeOK
      <4> QED
        BY <3>2, <3>3, <3>5, <4>1 DEF StoreProcess
    <3>6. CASE Lookup(p) \/ TestRead(p)
      BY <3>2, <3>3, <3>6 DEF Lookup, TestRead, Fail, TypeOK
    <3> QED
      BY <1>3, <3>1, <3>3, <3>4, <3>5, <3>6
         DEF Job, Stat, List, Lock, Reread, Store, GiveUp, ProbeLookup, Probe, Truncate, Put,
             Fail, job
  <2>5. \A q \in Plugins :
          /\ mtime'[q] <= binary[q]
          /\ pc'[q] \in {"lock", "reread"} =>
                mtime'[q] # 0 /\ mtime'[q] <= ops'[q] /\ ops'[q] <= binary[q]
    <3> USE DEF FreshSound, TypeOK, Builds, Go
    <3>1. CASE Stat(p)
      BY <1>3, <3>1 DEF Stat, AfterList
    <3>2. CASE List(p)
      BY <1>3, <3>2 DEF List, AfterAnswer, AfterList, Fail
    <3>3. CASE Lock(p)
      BY <1>3, <3>3 DEF Lock, job
    <3>4. CASE Lookup(p) \/ Reread(p) \/ ProbeLookup(p) \/ Probe(p) \/ StoreProcess(p)
      BY <1>3, <3>4 DEF Lookup, Reread, Store, GiveUp, ProbeLookup, Probe, StoreProcess, Fail,
                        AfterList, job
    <3>5. CASE TestRead(p) \/ Test(p) \/ Truncate(p) \/ Put(p)
      BY <1>3, <3>5 DEF TestRead, Test, Truncate, Put, Fail, AfterWrite, job
    <3> QED
      BY <1>3, <3>1, <3>2, <3>3, <3>4, <3>5 DEF Job
  <2> QED
    BY <2>1, <2>3, <2>4, <2>5 DEF FreshSound, FreshIn
<1> QED
  BY <1>1, <1>2, <1>3 DEF Next

LEMMA Always == Spec => [](TypeOK /\ PcSound /\ FreshSound)
BY InitType, NextType, InitPc, NextPc, InitFresh, NextFresh, PTL DEF Spec

\* A cached list whose time matches the binary came from that binary, however builds of
\* it fall between the steps that take, time and store the list.
THEOREM FreshTheorem == Spec => []CacheFresh
<1>1. FreshSound => CacheFresh
  BY DEF FreshSound, FreshIn, CacheFresh
<1> QED
  BY Always, <1>1, PTL
-----------------------------------------------------------------------------
(***************************************************************************)
(* The file under safe use.                                                *)
(***************************************************************************)
\* At most one goroutine is about to change the file or relies on what it read of it.
Touching == Writers \cup {"reread", "storeProcess"} \cup Testing
LEMMA OneTouches ==
  ASSUME TypeOK, PcSound, SafeUse,
         NEW p \in Plugins, NEW q \in Plugins, pc[p] \in Touching, pc[q] \in Touching
  PROVE  p = q
<1>1. CASE task = "search"
  BY <1>1 DEF PcSound, Touching, Writers, Testing, Listing
<1>2. CASE Cardinality(eligible) <= 1
  <2>1. p \in eligible /\ q \in eligible
    BY DEF PcSound, Touching, Writers, Testing
  <2>2. IsFiniteSet(eligible) /\ IsFiniteSet({p}) /\ Cardinality({p}) = 1
    BY FS_Subset, FS_Singleton, StateFileAssumption DEF TypeOK
  <2>3. {p} \subseteq eligible /\ Cardinality(eligible) \in Nat
    BY <2>1, <2>2, FS_CardinalityType
  <2>4. /\ Cardinality({p}) <= Cardinality(eligible)
        /\ Cardinality({p}) = Cardinality(eligible) => {p} = eligible
    BY <2>2, <2>3, FS_Subset
  <2>5. {p} = eligible
    BY <1>2, <2>2, <2>3, <2>4
  <2> QED
    BY <2>1, <2>5
<1> QED
  BY <1>1, <1>2 DEF SafeUse

LEMMA InitKept == Init => Kept
<1> SUFFICES ASSUME Init PROVE Kept
  OBVIOUS
<1>1. \A p \in Plugins : pc[p] \in {"done", "testRead", "lookup"} /\ result[p] = "none"
  BY DEF Init
<1> QED
  BY <1>1, InitFile DEF Kept, Intact, Writers

\* A step that leaves the file alone and starts no write.
LEMMA ReadKept ==
  ASSUME TypeOK, TypeOK', Kept,
         file' = file, Writing' = Writing,
         \A q \in Plugins : pc'[q] \in Writers \cup {"test"} => pc[q] = pc'[q] /\ snap'[q] = snap[q],
         \A q \in Plugins : pc[q] \in Writers => pc'[q] = pc[q],
         \A q \in Plugins : result'[q] = "cached" =>
             result[q] = "cached" /\ ops'[q] = ops[q] /\ mtime'[q] = mtime[q]
  PROVE  Kept'
<1>1. Intact'
  BY DEF Kept, Intact
<1>2. Writing' = {} =>
          \A q \in Plugins : result'[q] = "cached" /\ pc'[q] \notin Writers =>
             file'.st.cache[q] = Stored(q)'
  BY DEF Kept, Stored
<1>3. \A q \in Plugins :
          /\ pc'[q] = "put" => file' = Truncated
          /\ pc'[q] \in Writers \cup {"test"} => snap'[q].installed = Plugins
  BY DEF Kept, Writers
<1>4. \A q \in Plugins : pc'[q] \in Writers =>
          \A r \in Plugins : result'[r] = "cached" => snap'[q].cache[r] = Stored(r)'
  BY DEF Kept, Stored
<1> QED
  BY <1>1, <1>2, <1>3, <1>4 DEF Kept, Truncated, EmptyState, NoCache

\* A goroutine that will write has the file as it is, with its own change.
LEMMA TakeKept ==
  ASSUME TypeOK, TypeOK', PcSound, PcSound', SafeUse, SafeUse', Kept, NEW p \in Plugins,
         pc[p] \in Touching, pc[p] \notin Writers, pc'[p] \in {"truncate", "test"},
         file' = file,
         \A q \in Plugins \ {p} : /\ pc'[q] = pc[q] /\ snap'[q] = snap[q] /\ ops'[q] = ops[q]
                                  /\ mtime'[q] = mtime[q] /\ result'[q] = result[q],
         ops'[p] = ops[p], mtime'[p] = mtime[p],
         snap'[p].installed = Plugins,
         pc'[p] = "truncate" =>
             \A q \in Plugins : result'[q] = "cached" => snap'[p].cache[q] = Stored(q)
  PROVE  Kept'
<1>1. \A q \in Plugins : pc[q] \in Touching <=> q = p
  BY OneTouches
<1>2. \A q \in Plugins : pc'[q] \in Writers \cup {"test"} => q = p
  BY <1>1 DEF Touching, Testing
<1>3. Writing = {} /\ Writing' = {}
  BY <1>1, <1>2 DEF Writing, Writers, Touching
<1>4. Intact'
  BY <1>3 DEF Kept, Intact
<1>5. \A q \in Plugins : result'[q] = "cached" /\ pc'[q] \notin Writers => file'.st.cache[q] = Stored(q)'
  <2>1. CASE pc'[p] = "truncate"
    BY <1>3, <2>1 DEF Kept, Stored, Writers
  <2>2. CASE pc'[p] = "test"
    <3>1. task' = "doctor"
      BY <2>2, StateFileAssumption DEF TypeOK, PcSound, Listing, Probing, Writers
    <3> QED
      BY <3>1 DEF PcSound
  <2> QED
    BY <2>1, <2>2
<1> QED
  BY <1>2, <1>3, <1>4, <1>5 DEF Kept, Stored, Writers

\* A writer may truncate the file: it has all that the file had.
LEMMA TruncateKept ==
  ASSUME TypeOK, TypeOK', Kept, NEW p \in Plugins, Truncate(p)
  PROVE  Kept'
<1>1. /\ file' = Truncated /\ pc' = [pc EXCEPT ![p] = "put"] /\ pc[p] = "truncate"
      /\ snap' = snap /\ ops' = ops /\ mtime' = mtime /\ result' = result
  BY DEF Truncate, Go, job
<1>2. p \in Writing'
  BY <1>1 DEF Writing, TypeOK
<1>3. \A q \in Plugins : pc'[q] = "put" => file' = Truncated'
  BY <1>1 DEF Truncated, EmptyState, NoCache
<1>4. \A q \in Plugins :
          /\ pc'[q] \in Writers \cup {"test"} => pc[q] \in Writers \cup {"test"}
          /\ pc'[q] \in Writers => pc[q] \in Writers
  BY <1>1 DEF Writers, TypeOK
<1> QED
  BY <1>1, <1>2, <1>3, <1>4 DEF Kept, Intact, Stored

\* The writer puts it back.
LEMMA PutKept ==
  ASSUME TypeOK, TypeOK', PcSound, SafeUse, Kept, NEW p \in Plugins, Put(p)
  PROVE  Kept'
<1>1. /\ pc[p] = "put" /\ pc' = [pc EXCEPT ![p] = AfterWrite(p)]
      /\ snap' = snap /\ ops' = ops /\ mtime' = mtime /\ result' = result
  BY DEF Put, Go, job
<1>2. AfterWrite(p) \in {"probeLookup", "done"}
  BY DEF AfterWrite
<1>3. \A q \in Plugins : pc[q] \in Touching <=> q = p
  BY <1>1, OneTouches DEF Touching, Writers
<1>4. file' = Whole(snap[p]) /\ snap[p].installed = Plugins
  BY <1>1 DEF Kept, Put, Truncated, Writers
<1>5. \A q \in Plugins : pc'[q] \notin Writers \cup {"test"}
  BY <1>1, <1>2, <1>3 DEF Writers, Touching, Testing, TypeOK
<1>6. \A q \in Plugins : result'[q] = "cached" => file'.st.cache[q] = Stored(q)'
  BY <1>1, <1>4 DEF Kept, Stored, Whole, Writers
<1>7. Intact'
  BY <1>4 DEF Intact, Whole
<1> QED
  BY <1>5, <1>6, <1>7 DEF Kept, Writers

LEMMA NextKept ==
  ASSUME TypeOK, TypeOK', PcSound, PcSound', SafeUse, Kept, [Next]_vars
  PROVE  Kept'
<1>0. task' = task /\ eligible' = eligible
  BY DEF Next, Rebuild, Job, Lookup, Stat, List, Lock, Reread, Store, GiveUp, ProbeLookup, Probe,
         StoreProcess, TestRead, Test, Truncate, Put, Fail, command, vars
<1>1. SafeUse'
  BY <1>0 DEF SafeUse
<1>2. CASE UNCHANGED vars
  BY <1>2 DEF Kept, Intact, Writing, Stored, Truncated, EmptyState, NoCache, vars, job
<1>3. ASSUME NEW p \in Plugins, Rebuild(p) PROVE Kept'
  BY <1>3 DEF Kept, Intact, Writing, Stored, Truncated, EmptyState, NoCache, Rebuild, job
<1>4. ASSUME NEW p \in Plugins, Job(p) PROVE Kept'
  <2>1. CASE Truncate(p)
    BY <2>1, TruncateKept
  <2>2. CASE Put(p)
    BY <2>2, PutKept
  <2>3. CASE Lookup(p) \/ Stat(p) \/ List(p)
    <3>1. /\ file' = file /\ pc[p] \in Listing /\ pc'[p] \notin Writers \cup {"test"}
          /\ result'[p] # "cached"
          /\ \A q \in Plugins \ {p} : /\ pc'[q] = pc[q] /\ snap'[q] = snap[q] /\ ops'[q] = ops[q]
                                      /\ mtime'[q] = mtime[q] /\ result'[q] = result[q]
      BY <1>4, <2>3 DEF Lookup, Stat, List, Fail, Go, Report, AfterAnswer, AfterList, TypeOK,
                        Writers, Listing, PcSound
    <3> QED
      BY <1>4, <3>1, ReadKept DEF Writers, Listing, Writing
  <2>4. CASE Lock(p) \/ ProbeLookup(p) \/ Probe(p)
    <3>1. /\ file' = file /\ pc[p] \notin Writers /\ pc'[p] \notin Writers \cup {"test"}
          /\ result'[p] \in {result[p], "error"}
          /\ snap' = snap /\ ops' = ops /\ mtime' = mtime
          /\ \A q \in Plugins \ {p} : pc'[q] = pc[q] /\ result'[q] = result[q]
      BY <1>4, <2>4 DEF Lock, ProbeLookup, Probe, Fail, Go, Report, TypeOK, Writers, job
    <3> QED
      BY <1>4, <3>1, ReadKept DEF Writers, Writing
  <2>5. CASE Reread(p)
    <3>1. CASE GiveUp(p)
      <4>1. /\ file' = file /\ pc[p] \notin Writers /\ pc'[p] \notin Writers \cup {"test"}
            /\ snap' = snap /\ ops' = ops /\ mtime' = mtime /\ result' = result
            /\ \A q \in Plugins \ {p} : pc'[q] = pc[q]
        BY <1>4, <2>5, <3>1 DEF Reread, GiveUp, Store, Go, AfterList, TypeOK, Writers, job
      <4> QED
        BY <1>4, <4>1, ReadKept DEF Writers, Writing
    <3>2. CASE Store(p, CacheIn(file.st, p)) /\ p \in file.st.installed
      <4>1. /\ file' = file /\ pc[p] = "reread" /\ pc'[p] = "truncate" /\ ops' = ops /\ mtime' = mtime
            /\ snap'[p] = CacheIn(file.st, p)
            /\ \A q \in Plugins \ {p} : /\ pc'[q] = pc[q] /\ snap'[q] = snap[q]
                                        /\ result'[q] = result[q]
        BY <1>4, <2>5, <3>2 DEF Reread, Store, Go, Report, TypeOK
      <4>2. \A q \in Plugins : pc[q] \in Touching <=> q = p
        BY <1>4, <4>1, OneTouches DEF Touching
      <4>3. Writing = {}
        BY <4>1, <4>2 DEF Writing, Touching, Writers
      <4>4. CacheIn(file.st, p).installed = Plugins
        BY <4>3 DEF CacheIn, Kept, Intact, TypeOK, States
      <4>5. \A q \in Plugins : CacheIn(file.st, p).cache[q] =
                                 IF q = p THEN Stored(p) ELSE file.st.cache[q]
        BY DEF CacheIn, TypeOK, States, Stored
      <4>6. \A q \in Plugins : result'[q] = "cached" => snap'[p].cache[q] = Stored(q)
        BY <4>1, <4>2, <4>3, <4>5 DEF Kept, Touching
      <4> QED
        BY <1>1, <1>4, <4>1, <4>4, <4>6, TakeKept DEF Touching, Writers
    <3> QED
      BY <2>5, <3>1, <3>2 DEF Reread
  <2>6. CASE StoreProcess(p)
    <3>1. CASE snap' = snap /\ pc' = [pc EXCEPT ![p] = "done"]
      <4>1. /\ file' = file /\ pc[p] \notin Writers /\ pc'[p] \notin Writers \cup {"test"}
            /\ ops' = ops /\ mtime' = mtime /\ result' = result
            /\ \A q \in Plugins \ {p} : pc'[q] = pc[q]
        BY <1>4, <2>6, <3>1 DEF StoreProcess, TypeOK, Writers
      <4> QED
        BY <1>4, <3>1, <4>1, ReadKept DEF Writers, Writing
    <3>2. CASE /\ snap' = [snap EXCEPT ![p] = [file.st EXCEPT !.process[p] = "alive"]]
               /\ pc' = [pc EXCEPT ![p] = "truncate"]
      <4>1. /\ file' = file /\ pc[p] = "storeProcess" /\ pc'[p] = "truncate"
            /\ ops' = ops /\ mtime' = mtime /\ result' = result
            /\ snap'[p] = [file.st EXCEPT !.process[p] = "alive"]
            /\ \A q \in Plugins \ {p} : pc'[q] = pc[q] /\ snap'[q] = snap[q]
        BY <1>4, <2>6, <3>2 DEF StoreProcess, TypeOK
      <4>2. \A q \in Plugins : pc[q] \in Touching <=> q = p
        BY <1>4, <4>1, OneTouches DEF Touching
      <4>3. Writing = {}
        BY <4>1, <4>2 DEF Writing, Touching, Writers
      <4>4. snap'[p].installed = Plugins /\ snap'[p].cache = file.st.cache
        BY <4>1, <4>3 DEF Kept, Intact, TypeOK, States
      <4>5. \A q \in Plugins : result'[q] = "cached" => snap'[p].cache[q] = Stored(q)
        BY <4>1, <4>2, <4>3, <4>4 DEF Kept, Touching, Writers
      <4>6. pc[p] \in Touching /\ pc[p] \notin Writers /\ snap'[p].installed = Plugins
        BY <4>1, <4>4 DEF Touching, Writers
      <4>7. \A q \in Plugins \ {p} : /\ pc'[q] = pc[q] /\ snap'[q] = snap[q] /\ ops'[q] = ops[q]
                                      /\ mtime'[q] = mtime[q] /\ result'[q] = result[q]
        BY <4>1
      <4> QED
        BY <1>1, <1>4, <4>1, <4>5, <4>6, <4>7, TakeKept
    <3> QED
      BY <2>6, <3>1, <3>2 DEF StoreProcess, Go
  <2>7. CASE TestRead(p)
    <3>1. CASE Fail(p)
      <4>1. /\ file' = file /\ pc[p] \notin Writers /\ pc'[p] \notin Writers \cup {"test"}
            /\ snap' = snap /\ ops' = ops /\ mtime' = mtime /\ result'[p] = "error"
            /\ \A q \in Plugins \ {p} : pc'[q] = pc[q] /\ result'[q] = result[q]
        BY <1>4, <2>7, <3>1 DEF TestRead, Fail, Go, Report, TypeOK, Writers
      <4> QED
        BY <1>4, <4>1, ReadKept DEF Writers, Writing
    <3>2. CASE ~Fail(p)
      <4>1. /\ file' = file /\ pc[p] = "testRead" /\ pc'[p] = "test"
            /\ ops' = ops /\ mtime' = mtime /\ result' = result /\ snap'[p] = file.st
            /\ \A q \in Plugins \ {p} : pc'[q] = pc[q] /\ snap'[q] = snap[q]
        BY <1>4, <2>7, <3>2 DEF TestRead, Go, TypeOK
      <4>2. \A q \in Plugins : pc[q] \in Touching <=> q = p
        BY <1>4, <4>1, OneTouches DEF Touching, Testing
      <4>3. Writing = {}
        BY <4>1, <4>2 DEF Writing, Touching, Writers
      <4> QED
        BY <1>1, <1>4, <4>1, <4>3, TakeKept DEF Touching, Testing, Writers, Kept, Intact
    <3> QED
      BY <3>1, <3>2
  <2>8. CASE Test(p)
    <3>1. PICK r \in {"passed", "failed"} :
             snap' = [snap EXCEPT ![p].auth[p] = r] /\ Report(p, r)
      BY <2>8 DEF Test
    <3>2. /\ file' = file /\ pc[p] = "test" /\ pc'[p] = "truncate" /\ ops' = ops /\ mtime' = mtime
          /\ \A q \in Plugins \ {p} : /\ pc'[q] = pc[q] /\ snap'[q] = snap[q]
                                      /\ result'[q] = result[q]
      BY <1>4, <2>8, <3>1 DEF Test, Go, Report, TypeOK
    <3>3. snap'[p].installed = Plugins
      <4>1. snap[p].installed = Plugins /\ snap[p] \in States
        BY <1>4, <3>2 DEF Kept, TypeOK
      <4> QED
        BY <1>4, <3>1, <4>1 DEF TypeOK, States
    <3>4. task' = "doctor"
      BY <1>0, <1>4, <3>2, StateFileAssumption DEF PcSound, TypeOK, Listing, Probing, Writers
    <3>5. \A q \in Plugins : result'[q] # "cached"
      BY <3>4 DEF PcSound
    <3> QED
      BY <1>1, <1>4, <3>2, <3>3, <3>5, TakeKept DEF Touching, Testing, Writers
  <2> QED
    BY <1>4, <2>1, <2>2, <2>3, <2>4, <2>5, <2>6, <2>7, <2>8 DEF Job
<1> QED
  BY <1>2, <1>3, <1>4 DEF Next

LEMMA KeptAlways == Spec => [](SafeUse => Kept)
<1>1. TypeOK /\ TypeOK' /\ PcSound /\ PcSound' /\ (SafeUse => Kept) /\ [Next]_vars
        => (SafeUse => Kept)'
  <2> SUFFICES ASSUME TypeOK, TypeOK', PcSound, PcSound', SafeUse => Kept, [Next]_vars, SafeUse'
               PROVE  Kept'
    OBVIOUS
  <2>1. task' = task /\ eligible' = eligible
    BY DEF Next, Rebuild, Job, Lookup, Stat, List, Lock, Reread, Store, GiveUp, ProbeLookup, Probe,
           StoreProcess, TestRead, Test, Truncate, Put, Fail, command, vars
  <2>2. SafeUse
    BY <2>1 DEF SafeUse
  <2> QED
    BY <2>2, NextKept
<1> QED
  BY <1>1, InitKept, Always, PTL DEF Spec

\* A search, and a command about one plugin, leave a file that parses and has every
\* plugin whenever nobody is in the middle of a write, for any number of plugins.
THEOREM StateSurvivesTheorem == Spec => []StateSurvives
<1>1. (SafeUse => Kept) => StateSurvives
  BY DEF Kept, StateSurvives
<1> QED
  BY KeptAlways, <1>1, PTL

\* In the same uses a list that a goroutine stored stays in the file, whatever the other
\* goroutines write after it.
THEOREM CachesKeptTheorem == Spec => []CachesKept
<1>1. (SafeUse => Kept) => CachesKept
  BY DEF Kept, CachesKept, Stored, Writers
<1> QED
  BY KeptAlways, <1>1, PTL
=============================================================================
