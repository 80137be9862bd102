----------------------- MODULE ManagedProcessesProofs -----------------------
(***************************************************************************)
(* Theorems about ManagedProcesses, for any number of requests at once,    *)
(* ids and pids.                                                           *)
(***************************************************************************)
EXTENDS ManagedProcesses, TLAPS

Phases == {"idle", "called", "revive", "probe", "launch", "read", "write", "fill", "abort",
           "marker", "look", "kill"}
Jobs == [name : Names, id : Ids \cup {None}, pid : Pids \cup {None}, marker : BOOLEAN,
         snap : Tables]
Processes == {Free, Other} \cup {Managed(id) : id \in Ids}
Reports == [name : Names, id : Ids \cup {None}, ok : BOOLEAN]

\* What holds of the job of an actor at each phase.
JobOK(j, where) ==
    /\ j \in Jobs
    /\ where = "idle" <=> j.name = "none"
    /\ where = "called" => j.id = None
    /\ where \notin {"idle", "called", "write", "fill"} => j.id \in Ids
    /\ where \in {"revive", "probe", "launch"} \/ j.pid # None =>
           j.id \in Ids /\ j.name \in {"start", "request"}
    /\ where \in {"called", "revive", "probe", "launch", "kill"} => j.pid = None
    /\ where \in {"read", "abort", "marker"} => j.pid # None
    /\ where \in {"probe", "kill"} => j.snap[j.id] # None

\* An actor whose process may run without a record.
Unrecorded == {"read", "write", "fill", "abort"}

\* A phase and a job account for process p of id: its start is at work, or its record is
\* about to be written again.
Accounts(where, j, p, id) ==
    \/ where \in Unrecorded /\ j.pid = p /\ j.id = id
    \/ where = "fill" /\ j.snap[id] = p

\* Visible, of orderly requests.
Seen ==
    \A p \in Pids, id \in Ids : os[p] = Managed(id) =>
        table[id] = p \/ \E a \in Actors : Accounts(pc[a], job[a], p, id)

\* One actor at a time is between reading and writing the file, and one about an id.
Apart ==
    \A a, b \in Actors :
        \/ a = b
        \/ /\ ~(pc[a] \in InFile /\ pc[b] \in InFile)
           /\ ~(pc[a] \in OnId /\ pc[b] \in OnId /\ job[a].id = job[b].id)

\* What an actor is going to write back is what it read, and that is still in the file.
Fresh ==
    \A a \in Actors :
        /\ pc[a] \in {"called", "kill", "write"} => job[a].snap = table
        /\ pc[a] = "fill" => table = EmptyTable

\* Of the processes in o, only pid runs for id.
Only(o, id, pid) == \A p \in Pids : o[p] = Managed(id) => p = pid

\* Nothing runs for the id of an actor but what it has read of it or launched.
Knows(o, where, j) ==
    /\ where \in {"probe", "kill"} => Only(o, j.id, j.snap[j.id])
    /\ where \in OnId \ {"probe", "kill"} => Only(o, j.id, j.pid)

Alone == \A a \in Actors : Knows(os, pc[a], job[a])

\* After a stop nothing runs for the id and nobody is about it.
Settled ==
    last.name = "stop" /\ last.ok =>
        /\ \A p \in Pids : os[p] # Managed(last.id)
        /\ \A a \in Actors : pc[a] \in OnId /\ job[a].id = last.id => last.id = None

Sound == Seen /\ Apart /\ Fresh /\ Alone /\ Settled

Ind == TypeOK /\ (orderly => Sound)

\* Actor a goes on to another phase with another job, or back to none.
Moves(a, where, j) == pc' = [pc EXCEPT ![a] = where] /\ job' = [job EXCEPT ![a] = j]

(***************************************************************************)
(* Types.                                                                  *)
(***************************************************************************)
\* TypeOK, actor by actor.
LEMMA TypeIff ==
    TypeOK <=>
        /\ os \in [Pids -> Processes] /\ table \in Tables
        /\ pc \in [Actors -> Phases] /\ job \in [Actors -> Jobs]
        /\ \A a \in Actors : JobOK(job[a], pc[a])
        /\ last \in Reports /\ orderly \in BOOLEAN
  BY DEF TypeOK, Jobs, Processes, Phases, JobOK, Reports

\* The same of the next state.
LEMMA TypeIffNext ==
    TypeOK' <=>
        /\ os' \in [Pids -> Processes] /\ table' \in Tables
        /\ pc' \in [Actors -> Phases] /\ job' \in [Actors -> Jobs]
        /\ \A a \in Actors : JobOK(job'[a], pc'[a])
        /\ last' \in Reports /\ orderly' \in BOOLEAN
  BY DEF TypeOK, Jobs, Processes, Phases, JobOK, Reports, Free, Other, Managed, Tables

\* What a step leaves in the variables of each actor.
LEMMA Moved ==
    ASSUME TypeOK, NEW a \in Actors, NEW where, NEW j, Moves(a, where, j)
    PROVE  \A b \in Actors : /\ pc'[b] = IF b = a THEN where ELSE pc[b]
                             /\ job'[b] = IF b = a THEN j ELSE job[b]
  BY TypeIff DEF Moves

\* A step keeps the types if the actor's new job fits its new phase.
LEMMA MoveType ==
    ASSUME TypeOK, NEW a \in Actors, NEW where \in Phases, NEW j, Moves(a, where, j),
           JobOK(j, where), os' \in [Pids -> Processes], table' \in Tables,
           last' \in Reports, orderly' \in BOOLEAN
    PROVE  TypeOK'
  <1>1. /\ pc \in [Actors -> Phases] /\ job \in [Actors -> Jobs]
        /\ \A b \in Actors : JobOK(job[b], pc[b])
    BY TypeIff
  <1>2. j \in Jobs
    BY DEF JobOK
  <1>3. pc' \in [Actors -> Phases] /\ job' \in [Actors -> Jobs]
    BY <1>1, <1>2 DEF Moves
  <1>4. \A b \in Actors : JobOK(job'[b], pc'[b])
    <2> TAKE b \in Actors
    <2>1. CASE b = a
      BY <2>1, Moved
    <2>2. CASE b # a
      BY <1>1, <2>2, Moved
    <2>3. QED
      BY <2>1, <2>2
  <1>5. QED
    BY <1>3, <1>4, TypeIffNext

\* An idle actor's job, an empty report and an empty table have their types.
LEMMA Blank == JobOK(NoJob, "idle") /\ Nothing \in Reports /\ EmptyTable \in Tables
  BY DEF JobOK, NoJob, Jobs, Names, Tables, EmptyTable, Nothing, Reports

\* The types in which the steps below find an actor, its job and the rest.
LEMMA At ==
    ASSUME TypeOK, NEW a \in Actors
    PROVE  /\ job \in [Actors -> Jobs] /\ job[a] \in Jobs /\ JobOK(job[a], pc[a])
           /\ job = [job EXCEPT ![a] = job[a]]
           /\ pc[a] \in Phases /\ table \in Tables /\ os \in [Pids -> Processes]
           /\ last \in Reports /\ orderly \in BOOLEAN
  BY TypeIff

\* A report is one.
LEMMA ReportTyped ==
    ASSUME TypeOK, NEW a \in Actors, NEW ok \in BOOLEAN, Report(a, ok)
    PROVE  Moves(a, "idle", NoJob) /\ last' \in Reports
  BY At DEF Report, Moves, Reports, Jobs

\* What the operating system runs is of the host for one of the ids, or not at all.
LEMMA ManagedIds ==
    ASSUME TypeOK, NEW p \in Pids, NEW id, os[p] = Managed(id)
    PROVE  id \in Ids
  BY TypeIff DEF Processes, Free, Other, Managed

(***************************************************************************)
(* What a step has to do for each part of the invariant.                   *)
(***************************************************************************)
\* Whoever starts to use the file or an id finds it unused.
LEMMA ApartKept ==
    ASSUME TypeOK, Apart, NEW a \in Actors, NEW where, NEW j, Moves(a, where, j),
           where \in InFile => pc[a] \in InFile \/ FileIsMine(a),
           where \in OnId => (pc[a] \in OnId /\ j.id = job[a].id) \/ IdIsMine(a, j.id)
    PROVE  Apart'
  <1> HIDE DEF InFile, OnId
  <1> SUFFICES ASSUME NEW x \in Actors, NEW y \in Actors, x # y
               PROVE  /\ ~(pc'[x] \in InFile /\ pc'[y] \in InFile)
                      /\ ~(pc'[x] \in OnId /\ pc'[y] \in OnId /\ job'[x].id = job'[y].id)
    BY DEF Apart, InFile, OnId
  <1>1. ASSUME NEW b \in Actors, b # a
        PROVE  /\ ~(where \in InFile /\ pc[b] \in InFile)
               /\ ~(where \in OnId /\ pc[b] \in OnId /\ j.id = job[b].id)
    BY <1>1 DEF Apart, FileIsMine, IdIsMine
  <1>2. CASE x = a
    BY <1>1, <1>2, Moved
  <1>3. CASE y = a
    BY <1>1, <1>3, Moved
  <1>4. CASE x # a /\ y # a
    BY <1>4, Moved DEF Apart
  <1>5. QED
    BY <1>2, <1>3, <1>4

\* The file is changed by one who has read it, while nobody else has.
LEMMA FreshKept ==
    ASSUME TypeOK, Apart, Fresh, NEW a \in Actors, NEW where, NEW j, Moves(a, where, j),
           table' = table \/ pc[a] \in InFile,
           where \in {"called", "kill", "write"} => j.snap = table',
           where = "fill" => table' = EmptyTable
    PROVE  Fresh'
  <1> SUFFICES ASSUME NEW b \in Actors
               PROVE  /\ pc'[b] \in {"called", "kill", "write"} => job'[b].snap = table'
                      /\ pc'[b] = "fill" => table' = EmptyTable
    BY DEF Fresh, EmptyTable
  <1>1. CASE b = a
    BY <1>1, Moved
  <1>2. CASE b # a
    <2>1. pc'[b] = pc[b] /\ job'[b] = job[b]
      BY <1>2, Moved
    <2>2. pc[b] \in InFile => table' = table
      BY <1>2 DEF Apart
    <2>3. QED
      BY <2>1, <2>2 DEF Fresh, InFile
  <1>3. QED
    BY <1>1, <1>2

\* Nothing new runs but for the id of an actor that is about it.
Quiet(a) ==
    \A p \in Pids : \A id \in Ids : os'[p] = Managed(id) =>
        os[p] = Managed(id) \/ (pc[a] \in OnId /\ job[a].id = id)

LEMMA AloneKept ==
    ASSUME TypeOK, TypeOK', Apart, Alone, NEW a \in Actors, NEW where, NEW j,
           Moves(a, where, j), Quiet(a), Knows(os', where, j)
    PROVE  Alone'
  <1> SUFFICES ASSUME NEW b \in Actors PROVE Knows(os', pc'[b], job'[b])
    BY DEF Alone, Knows, Only
  <1>1. CASE b = a
    BY <1>1, Moved
  <1>2. CASE b # a
    <2>1. pc'[b] = pc[b] /\ job'[b] = job[b]
      BY <1>2, Moved
    <2>2. Knows(os, pc[b], job[b])
      BY DEF Alone
    <2>3. ASSUME pc[b] \in OnId, NEW q, Only(os, job[b].id, q) PROVE Only(os', job[b].id, q)
      <3> SUFFICES ASSUME NEW p \in Pids, os'[p] = Managed(job[b].id) PROVE p = q
        BY DEF Only
      <3>1. job[b].id \in Ids
        <4>1. PICK id \in Ids : os'[p] = Managed(id)
          BY TypeIffNext, ProcessAssumption DEF Processes, Free, Other, Managed
        <4>2. QED
          BY <4>1 DEF Managed
      <3>2. ~(pc[a] \in OnId /\ job[a].id = job[b].id)
        BY <1>2, <2>3 DEF Apart
      <3>3. QED
        BY <2>3, <3>1, <3>2 DEF Quiet, Only
    <2>4. QED
      BY <2>1, <2>2, <2>3 DEF Knows, OnId
  <1>3. QED
    BY <1>1, <1>2

\* A report of a stop is of one that was about its id, and left nothing.
LEMMA SettledKept ==
    ASSUME TypeOK, TypeOK', Apart, Settled, NEW a \in Actors, NEW where, NEW j,
           Moves(a, where, j), Quiet(a), last \in Reports, last' \in Reports,
           \/ /\ last' = last
              /\ where \in OnId => (pc[a] \in OnId /\ j.id = job[a].id) \/ j.id = None
           \/ ~(last'.name = "stop" /\ last'.ok)
           \/ /\ last'.id = job[a].id /\ pc[a] \in OnId /\ where \notin OnId
              /\ \A p \in Pids : os'[p] # Managed(job[a].id)
    PROVE  Settled'
  <1> SUFFICES ASSUME last'.name = "stop", last'.ok
               PROVE  /\ \A p \in Pids : os'[p] # Managed(last'.id)
                      /\ \A b \in Actors :
                             pc'[b] \in OnId /\ job'[b].id = last'.id => last'.id = None
    BY DEF Settled, OnId, Managed
  <1>1. CASE /\ last' = last
             /\ where \in OnId => (pc[a] \in OnId /\ j.id = job[a].id) \/ j.id = None
    <2>1. /\ \A p \in Pids : os[p] # Managed(last.id)
          /\ \A b \in Actors : pc[b] \in OnId /\ job[b].id = last.id => last.id = None
      BY <1>1 DEF Settled
    <2>2. \A b \in Actors : pc'[b] \in OnId /\ job'[b].id = last.id => last.id = None
      BY <1>1, <2>1, Moved
    <2>3. QED
      <3>1. CASE last.id \in Ids
        BY <1>1, <2>1, <2>2, <3>1, ProcessAssumption DEF Quiet
      <3>2. CASE last.id = None
        <4>1. \A p \in Pids : os'[p] # Managed(None)
          BY TypeIffNext, ProcessAssumption DEF Processes, Free, Other, Managed
        <4>2. QED
          BY <1>1, <2>2, <3>2, <4>1
      <3>3. QED
        BY <3>1, <3>2 DEF Reports
  <1>2. CASE /\ last'.id = job[a].id /\ pc[a] \in OnId /\ where \notin OnId
             /\ \A p \in Pids : os'[p] # Managed(job[a].id)
    <2>1. \A b \in Actors : pc'[b] \in OnId => job'[b].id # job[a].id
      <3> TAKE b \in Actors
      <3>1. CASE b = a
        BY <1>2, <3>1, Moved
      <3>2. CASE b # a
        BY <1>2, <3>2, Moved DEF Apart
      <3>3. QED
        BY <3>1, <3>2
    <2>2. QED
      BY <1>2, <2>1
  <1>3. QED
    BY <1>1, <1>2

\* A step that changes no record goes on accounting for what its actor accounts for.
LEMMA SeenKept ==
    ASSUME TypeOK, Seen, NEW a \in Actors, NEW where, NEW j, Moves(a, where, j),
           table' = table,
           \A p \in Pids, id \in Ids : os'[p] = Managed(id) =>
               \/ Accounts(where, j, p, id)
               \/ os[p] = Managed(id) /\ ~Accounts(pc[a], job[a], p, id)
    PROVE  Seen'
  <1> SUFFICES ASSUME NEW p \in Pids, NEW id \in Ids, os'[p] = Managed(id)
               PROVE  table[id] = p \/ \E b \in Actors : Accounts(pc'[b], job'[b], p, id)
    BY DEF Seen, Accounts, Managed
  <1>1. CASE Accounts(where, j, p, id)
    BY <1>1, Moved
  <1>2. CASE os[p] = Managed(id) /\ ~Accounts(pc[a], job[a], p, id)
    <2>1. table[id] = p \/ \E b \in Actors : b # a /\ Accounts(pc[b], job[b], p, id)
      BY <1>2 DEF Seen
    <2>2. QED
      BY <2>1, Moved
  <1>3. QED
    BY <1>1, <1>2

(***************************************************************************)
(* Steps.                                                                  *)
(***************************************************************************)
\* The parts together, once it is clear what records are left.
LEMMA StepSound ==
    ASSUME TypeOK, TypeOK', Sound, Seen', NEW a \in Actors, NEW where, NEW j,
           Moves(a, where, j),
           where \in InFile => pc[a] \in InFile \/ FileIsMine(a),
           where \in OnId => (pc[a] \in OnId /\ j.id = job[a].id) \/ IdIsMine(a, j.id),
           table' = table \/ pc[a] \in InFile,
           where \in {"called", "kill", "write"} => j.snap = table',
           where = "fill" => table' = EmptyTable,
           Quiet(a), Knows(os', where, j),
           \/ /\ last' = last
              /\ where \in OnId => (pc[a] \in OnId /\ j.id = job[a].id) \/ j.id = None
           \/ ~(last'.name = "stop" /\ last'.ok)
           \/ /\ last'.id = job[a].id /\ pc[a] \in OnId /\ where \notin OnId
              /\ \A p \in Pids : os'[p] # Managed(job[a].id)
    PROVE  Sound'
  <1>1. Apart'
    BY ApartKept DEF Sound
  <1>2. Fresh'
    BY FreshKept DEF Sound
  <1>3. Alone'
    BY AloneKept DEF Sound
  <1>4. Settled'
    BY SettledKept, TypeIff, TypeIffNext DEF Sound
  <1>5. QED
    BY <1>1, <1>2, <1>3, <1>4 DEF Sound

\* A step that touches no process and no record.
LEMMA MoveSound ==
    ASSUME TypeOK, TypeOK', Sound, NEW a \in Actors, NEW where, NEW j, Moves(a, where, j),
           UNCHANGED <<os, table>>,
           pc[a] \in Unrecorded => where \in Unrecorded /\ j.pid = job[a].pid /\ j.id = job[a].id,
           pc[a] # "fill",
           where \in InFile => pc[a] \in InFile \/ FileIsMine(a),
           where \in OnId => (pc[a] \in OnId /\ j.id = job[a].id) \/ IdIsMine(a, j.id),
           where \in {"called", "kill", "write"} => j.snap = table,
           where # "fill", Knows(os, where, j),
           \/ /\ last' = last
              /\ where \in OnId => (pc[a] \in OnId /\ j.id = job[a].id) \/ j.id = None
           \/ ~(last'.name = "stop" /\ last'.ok)
           \/ /\ last'.id = job[a].id /\ pc[a] \in OnId /\ where \notin OnId
              /\ \A p \in Pids : os[p] # Managed(job[a].id)
    PROVE  Sound'
  <1>1. Quiet(a)
    BY DEF Quiet
  <1>2. Seen'
    BY SeenKept DEF Sound, Accounts
  <1>3. QED
    BY <1>1, <1>2, StepSound

\* A request that begins; a start finds nothing running for its id.
LEMMA BeginInd ==
    ASSUME Ind, NEW a \in Actors, NEW name \in Names \ {"none"}, NEW id \in Ids \cup {None},
           NEW marker \in BOOLEAN, NEW snap \in Tables,
           NEW where \in {"launch", "look", "revive", "called"},
           where = "called" <=> id = None,
           where \in {"revive", "launch"} => name \in {"start", "request"},
           Begin(a, name, id, marker, snap, where), orderly' \in BOOLEAN,
           orderly' => orderly,
           where = "called" => snap = table /\ (orderly' => FileIsMine(a)),
           where = "launch" => (orderly' => IdIsMine(a, id) /\ Only(os, id, None))
    PROVE  Ind'
  <1> DEFINE j == [name |-> name, id |-> id, pid |-> None, marker |-> marker, snap |-> snap]
  <1>1. /\ Moves(a, where, j) /\ last' = Nothing /\ UNCHANGED <<os, table>> /\ pc[a] = "idle"
    BY DEF Begin, Moves
  <1>2. JobOK(j, where)
    BY DEF JobOK, Jobs
  <1>3. j.id = id /\ j.pid = None /\ j.snap = snap
    OBVIOUS
  <1> HIDE DEF j
  <1>4. TypeOK'
    BY <1>1, <1>2, MoveType, TypeIff, Blank DEF Ind, Phases
  <1>5. ASSUME orderly' PROVE Sound'
    <2>1. Sound /\ TypeOK
      BY <1>5 DEF Ind
    <2>2. ~(last'.name = "stop" /\ last'.ok)
      BY <1>1 DEF Nothing
    <2>3. Knows(os, where, j)
      BY <1>3, <1>5 DEF Knows, OnId
    <2>4. /\ where \in InFile => FileIsMine(a)
          /\ where \in OnId => IdIsMine(a, j.id)
          /\ where \in {"called", "kill", "write"} => j.snap = table
          /\ pc[a] \notin Unrecorded /\ pc[a] # "fill" /\ where # "fill"
      BY <1>1, <1>3, <1>5 DEF InFile, OnId, Unrecorded
    <2>5. QED
      BY <1>1, <1>4, <2>1, <2>2, <2>3, <2>4, MoveSound
  <1>6. QED
    BY <1>4, <1>5 DEF Ind

\* A request that goes on or ends, and touches no process and no record.
LEMMA GoInd ==
    ASSUME Ind, NEW a \in Actors, NEW where \in Phases, NEW j, Moves(a, where, j),
           UNCHANGED <<os, table>>, JobOK(j, where), last' \in Reports,
           orderly' \in BOOLEAN, orderly' => orderly,
           pc[a] \in Unrecorded => where \in Unrecorded /\ j.pid = job[a].pid /\ j.id = job[a].id,
           pc[a] # "fill", where # "fill",
           orderly' /\ where \in InFile => pc[a] \in InFile \/ FileIsMine(a),
           orderly' /\ where \in OnId =>
               (pc[a] \in OnId /\ j.id = job[a].id) \/ IdIsMine(a, j.id),
           orderly' /\ where \in {"called", "kill", "write"} => j.snap = table,
           orderly' => Knows(os, where, j),
           \/ /\ last' = last
              /\ where \in OnId => (pc[a] \in OnId /\ j.id = job[a].id) \/ j.id = None
           \/ ~(last'.name = "stop" /\ last'.ok)
    PROVE  Ind'
  <1>1. TypeOK'
    BY MoveType, TypeIff DEF Ind
  <1>2. orderly' => Sound'
    BY <1>1, MoveSound DEF Ind
  <1>3. QED
    BY <1>1, <1>2 DEF Ind

\* A request ends, with no stop to report and no process to record.
LEMMA ReportInd ==
    ASSUME Ind, NEW a \in Actors, NEW ok \in BOOLEAN, Report(a, ok),
           pc[a] \notin Unrecorded, job[a].name = "stop" => ~ok,
           UNCHANGED <<os, table, orderly>>
    PROVE  Ind'
  <1>1. Moves(a, "idle", NoJob) /\ last' \in Reports
    BY ReportTyped DEF Ind
  <1>2. ~(last'.name = "stop" /\ last'.ok)
    BY DEF Report
  <1>3. Knows(os, "idle", NoJob)
    BY DEF Knows, OnId
  <1>4. orderly' \in BOOLEAN
    BY At DEF Ind
  <1> HIDE DEF NoJob
  <1>5. QED
    BY <1>1, <1>2, <1>3, <1>4, GoInd, Blank DEF Phases, Unrecorded, InFile, OnId

\* The plugin has answered, and the state read before is about to be written.
LEMMA AuthAnsweredInd == ASSUME Ind, NEW a \in Actors, AuthAnswered(a) PROVE Ind'
  <1>1. pc[a] = "called" /\ UNCHANGED <<os, table, orderly>>
    BY DEF AuthAnswered
  <1>2. JobOK(job[a], pc[a]) /\ job[a].id = None /\ job[a].pid = None
    BY <1>1, At DEF Ind, JobOK
  <1>3. CASE Report(a, FALSE)
    BY <1>1, <1>3, ReportInd DEF Unrecorded
  <1>4. CASE Goto(a, "write") /\ UNCHANGED job
    <2>1. Moves(a, "write", job[a]) /\ last' = last /\ last' \in Reports /\ orderly' \in BOOLEAN
      BY <1>1, <1>4, At DEF Goto, Moves, Ind
    <2>2. JobOK(job[a], "write")
      BY <1>1, <1>2 DEF JobOK
    <2>3. Knows(os, "write", job[a])
      BY <1>2, ManagedIds, ProcessAssumption DEF Knows, Only, Ind
    <2>4. orderly => IdIsMine(a, job[a].id)
      <3> SUFFICES ASSUME orderly, NEW b \in Actors \ {a}, pc[b] \in OnId, job[b].id = None
                   PROVE  FALSE
        BY <1>2 DEF IdIsMine
      <3>1. JobOK(job[b], pc[b]) /\ None \notin Ids
        BY At, ProcessAssumption DEF Ind
      <3>2. pc[b] \in InFile
        BY <3>1 DEF JobOK, OnId, InFile
      <3>3. QED
        BY <1>1, <3>2 DEF Ind, Sound, Apart, InFile
    <2>5. orderly => job[a].snap = table
      BY <1>1 DEF Ind, Sound, Fresh
    <2>6. QED
      BY <1>1, <1>2, <2>1, <2>2, <2>3, <2>4, <2>5, GoInd DEF Phases, Unrecorded, InFile
  <1>5. QED
    BY <1>3, <1>4 DEF AuthAnswered

\* Of an id that nobody else is about and that has a record, only the recorded process
\* may run.
LEMMA Recorded ==
    ASSUME Ind, orderly, NEW a \in Actors, pc[a] \notin Unrecorded, NEW id \in Ids,
           IdIsMine(a, id), table[id] # None
    PROVE  Only(os, id, table[id])
  <1> SUFFICES ASSUME NEW p \in Pids, os[p] = Managed(id) PROVE p = table[id]
    BY DEF Only
  <1> SUFFICES ASSUME NEW b \in Actors, Accounts(pc[b], job[b], p, id) PROVE FALSE
    BY DEF Ind, Sound, Seen
  <1>1. CASE pc[b] \in Unrecorded /\ job[b].pid = p /\ job[b].id = id
    BY <1>1 DEF IdIsMine, Unrecorded, OnId
  <1>2. CASE pc[b] = "fill"
    BY <1>2 DEF Ind, Sound, Fresh, EmptyTable
  <1>3. QED
    BY <1>1, <1>2 DEF Accounts

\* The record of a forward is looked up.
LEMMA ReviveInd == ASSUME Ind, NEW a \in Actors, Revive(a) PROVE Ind'
  <1>1. pc[a] = "revive" /\ UNCHANGED <<os, table>>
    BY DEF Revive
  <1>2. CASE Report(a, FALSE) /\ UNCHANGED orderly
    BY <1>1, <1>2, ReportInd DEF Unrecorded
  <1>3. CASE /\ table[job[a].id] # None /\ pc' = [pc EXCEPT ![a] = "probe"]
             /\ job' = [job EXCEPT ![a].snap = table] /\ last' = Nothing
             /\ orderly' = (orderly /\ IdIsMine(a, job[a].id))
    <2>1. PICK j : j = [job[a] EXCEPT !.snap = table]
      OBVIOUS
    <2>2. Moves(a, "probe", j)
      BY <1>3, <2>1 DEF Moves
    <2>3. /\ JobOK(job[a], pc[a]) /\ job[a] \in Jobs /\ table \in Tables /\ orderly \in BOOLEAN
          /\ job[a].id \in Ids
      BY <1>1, At DEF Ind, JobOK
    <2>4. j.id = job[a].id /\ j.snap = table /\ j.pid = job[a].pid
      BY <2>1, <2>3 DEF Jobs
    <2>5. JobOK(j, "probe")
      BY <1>1, <1>3, <2>1, <2>3 DEF JobOK, Jobs
    <2>6. orderly' => Knows(os, "probe", j)
      BY <1>1, <1>3, <2>3, <2>4, Recorded DEF Knows, Unrecorded
    <2>7. QED
      BY <1>1, <1>3, <2>2, <2>3, <2>4, <2>5, <2>6, GoInd, Blank
      DEF Phases, Unrecorded, InFile, Nothing
  <1>4. QED
    BY <1>2, <1>3 DEF Revive

\* A dead forward is about to be launched again.
LEMMA ProbeInd == ASSUME Ind, NEW a \in Actors, Probe(a) PROVE Ind'
  <1>1. pc[a] = "probe" /\ UNCHANGED <<os, table, orderly>>
    BY DEF Probe
  <1>2. CASE Report(a, FALSE)
    BY <1>1, <1>2, ReportInd DEF Unrecorded
  <1>3. CASE os[job[a].snap[job[a].id]].kind # "managed" /\ Goto(a, "launch") /\ UNCHANGED job
    <2>1. Moves(a, "launch", job[a]) /\ last' = last /\ last' \in Reports /\ orderly' \in BOOLEAN
      BY <1>1, <1>3, At DEF Goto, Moves, Ind
    <2>2. JobOK(job[a], pc[a])
      BY At DEF Ind
    <2>3. JobOK(job[a], "launch")
      BY <1>1, <2>2 DEF JobOK
    <2>4. orderly => Knows(os, "launch", job[a])
      <3> SUFFICES ASSUME orderly, NEW p \in Pids, os[p] = Managed(job[a].id) PROVE FALSE
        BY DEF Knows, Only
      <3>1. p = job[a].snap[job[a].id]
        BY <1>1 DEF Ind, Sound, Alone, Knows, Only
      <3>2. QED
        BY <1>3, <3>1 DEF Managed
    <2>5. QED
      BY <1>1, <2>1, <2>3, <2>4, GoInd DEF Phases, Unrecorded, InFile, OnId
  <1>4. QED
    BY <1>2, <1>3 DEF Probe

\* The file is read to record the process, or cannot be.
LEMMA StoreReadInd == ASSUME Ind, NEW a \in Actors, StoreRead(a) PROVE Ind'
  <1>1. pc[a] = "read" /\ UNCHANGED <<os, table>> /\ last' = last
    BY DEF StoreRead, Goto
  <1>2. /\ JobOK(job[a], pc[a]) /\ job[a] \in Jobs /\ table \in Tables /\ orderly \in BOOLEAN
        /\ last \in Reports
    BY At DEF Ind
  <1>3. orderly => Only(os, job[a].id, job[a].pid)
    BY <1>1 DEF Ind, Sound, Alone, Knows, OnId
  <1>4. CASE /\ job' = [job EXCEPT ![a].snap = table] /\ Goto(a, "write")
             /\ orderly' = (orderly /\ FileIsMine(a))
    <2>1. PICK j : j = [job[a] EXCEPT !.snap = table]
      OBVIOUS
    <2>2. Moves(a, "write", j)
      BY <1>4, <2>1 DEF Moves, Goto
    <2>3. j.id = job[a].id /\ j.pid = job[a].pid /\ j.snap = table
      BY <1>2, <2>1 DEF Jobs
    <2>4. JobOK(j, "write")
      BY <1>1, <1>2, <2>1 DEF JobOK, Jobs
    <2>5. QED
      BY <1>1, <1>2, <1>3, <1>4, <2>2, <2>3, <2>4, GoInd
      DEF Phases, Unrecorded, InFile, OnId, Knows
  <1>5. CASE Goto(a, "abort") /\ UNCHANGED <<job, orderly>>
    <2>1. Moves(a, "abort", job[a])
      BY <1>5, At DEF Goto, Moves, Ind
    <2>2. JobOK(job[a], "abort")
      BY <1>1, <1>2 DEF JobOK
    <2>3. QED
      BY <1>1, <1>2, <1>3, <1>5, <2>1, <2>2, GoInd
      DEF Phases, Unrecorded, InFile, OnId, Knows
  <1>6. QED
    BY <1>4, <1>5 DEF StoreRead

\* The marker is there, or the time is over.
LEMMA MarkerInd == ASSUME Ind, NEW a \in Actors, Marker(a) PROVE Ind'
  <1>1. pc[a] = "marker" /\ UNCHANGED <<os, table, orderly>>
    BY DEF Marker
  <1>2. JobOK(job[a], pc[a])
    BY At DEF Ind
  <1>3. CASE Report(a, TRUE)
    BY <1>1, <1>2, <1>3, ReportInd DEF JobOK, Unrecorded
  <1>4. CASE Goto(a, "look") /\ UNCHANGED job
    <2>1. Moves(a, "look", job[a]) /\ last' = last /\ last' \in Reports /\ orderly' \in BOOLEAN
      BY <1>1, <1>4, At DEF Goto, Moves, Ind
    <2>2. JobOK(job[a], "look") /\ Knows(os, "look", job[a])
      BY <1>1, <1>2 DEF JobOK, Knows, OnId
    <2>3. QED
      BY <1>1, <2>1, <2>2, GoInd DEF Phases, Unrecorded, InFile, OnId
  <1>5. QED
    BY <1>3, <1>4 DEF Marker

\* A record is found and its process about to be signalled.
LEMMA LookInd == ASSUME Ind, NEW a \in Actors, Look(a) PROVE Ind'
  <1>1. pc[a] = "look" /\ UNCHANGED <<os, table>>
    BY DEF Look
  <1>2. CASE Report(a, FALSE) /\ UNCHANGED orderly
    BY <1>1, <1>2, ReportInd DEF Unrecorded
  <1>3. CASE /\ table[job[a].id] # None /\ pc' = [pc EXCEPT ![a] = "kill"]
             /\ job' = [job EXCEPT ![a].snap = table, ![a].pid = None] /\ last' = Nothing
             /\ orderly' = (orderly /\ FileIsMine(a) /\ IdIsMine(a, job[a].id))
    <2>1. PICK j : j = [job[a] EXCEPT !.snap = table, !.pid = None]
      OBVIOUS
    <2>2. Moves(a, "kill", j)
      BY <1>3, <2>1, At DEF Moves, Ind
    <2>3. /\ JobOK(job[a], pc[a]) /\ job[a] \in Jobs /\ table \in Tables /\ orderly \in BOOLEAN
          /\ job[a].id \in Ids
      BY <1>1, At DEF Ind, JobOK
    <2>4. j.id = job[a].id /\ j.snap = table
      BY <2>1, <2>3 DEF Jobs
    <2>5. JobOK(j, "kill")
      BY <1>1, <1>3, <2>1, <2>3 DEF JobOK, Jobs
    <2>6. orderly' => Knows(os, "kill", j)
      BY <1>1, <1>3, <2>3, <2>4, Recorded DEF Knows, Unrecorded
    <2>7. QED
      BY <1>1, <1>3, <2>2, <2>3, <2>4, <2>5, <2>6, GoInd, Blank
      DEF Phases, Unrecorded, Nothing
  <1>4. QED
    BY <1>2, <1>3 DEF Look

\* A process runs that is not recorded yet.
LEMMA LaunchInd == ASSUME Ind, NEW a \in Actors, Launch(a) PROVE Ind'
  <1>1. pc[a] = "launch" /\ UNCHANGED <<table, orderly>>
    BY DEF Launch
  <1>2. /\ JobOK(job[a], pc[a]) /\ job[a] \in Jobs /\ os \in [Pids -> Processes]
        /\ last \in Reports /\ table \in Tables /\ orderly \in BOOLEAN
    BY At DEF Ind
  <1>3. CASE Report(a, FALSE) /\ UNCHANGED os
    BY <1>1, <1>3, ReportInd DEF Unrecorded
  <1>4. ASSUME NEW pid \in Pids, os[pid].kind = "free",
               os' = [os EXCEPT ![pid] = Managed(job[a].id)],
               job' = [job EXCEPT ![a].pid = pid], Goto(a, "read")
        PROVE  Ind'
    <2>1. PICK j : j = [job[a] EXCEPT !.pid = pid]
      OBVIOUS
    <2>2. PICK id : id = job[a].id
      OBVIOUS
    <2>3. /\ Moves(a, "read", j) /\ last' = last
          /\ j.id = id /\ j.pid = pid /\ id \in Ids
      BY <1>1, <1>2, <1>4, <2>1, <2>2 DEF Moves, Goto, Jobs, JobOK
    <2>4. JobOK(j, "read")
      BY <1>1, <1>2, <2>1, ProcessAssumption DEF JobOK, Jobs
    <2>5. /\ os' \in [Pids -> Processes]
          /\ \A q \in Pids : os'[q] = IF q = pid THEN Managed(id) ELSE os[q]
      BY <1>2, <1>4, <2>2, <2>3 DEF Processes
    <2>6. TypeOK'
      BY <1>1, <1>2, <2>3, <2>4, <2>5, MoveType DEF Ind, Phases
    <2>7. ASSUME orderly PROVE Sound'
      <3>1. Only(os, id, None)
        BY <1>1, <1>2, <2>2, <2>7 DEF Ind, Sound, Alone, Knows, OnId, JobOK
      <3>2. \A p \in Pids, i \in Ids : os'[p] = Managed(i) =>
                os[p] = Managed(i) \/ (p = pid /\ i = id)
        BY <2>5 DEF Managed
      <3>3. Quiet(a)
        BY <1>1, <2>2, <3>2 DEF Quiet, OnId
      <3>4. Knows(os', "read", j)
        BY <2>3, <2>5, <3>1, ProcessAssumption DEF Knows, Only
      <3>5. Seen'
        <4>1. \A p \in Pids, i \in Ids : os'[p] = Managed(i) =>
                  Accounts("read", j, p, i) \/ (os[p] = Managed(i) /\ ~Accounts(pc[a], job[a], p, i))
          BY <1>1, <2>3, <3>2 DEF Accounts, Unrecorded
        <4>2. QED
          BY <1>1, <2>3, <2>7, <4>1, SeenKept DEF Ind, Sound
      <3>6. QED
        BY <1>1, <2>2, <2>3, <2>6, <2>7, <3>3, <3>4, <3>5, StepSound DEF Ind, InFile, OnId
    <2>8. QED
      BY <1>1, <2>6, <2>7 DEF Ind
  <1>5. QED
    BY <1>3, <1>4 DEF Launch

\* A group is signalled; nothing else changes but the phase.
LEMMA SignalInd ==
    ASSUME Ind, NEW a \in Actors, pc[a] \in {"abort", "kill"}, NEW pid \in Pids, NEW where, NEW j,
           Moves(a, where, j), where \in {"idle", "write"}, JobOK(j, where),
           pc[a] = "abort" => pid = job[a].pid /\ where = "idle",
           pc[a] = "kill" => pid = job[a].snap[job[a].id],
           where = "write" => j = job[a] /\ last' = last /\ pc[a] = "kill",
           where = "idle" => ~(last'.name = "stop" /\ last'.ok),
           os' = Signalled(pid), UNCHANGED <<table, orderly>>, last' \in Reports
    PROVE  Ind'
  <1>1. /\ JobOK(job[a], pc[a]) /\ os \in [Pids -> Processes] /\ table \in Tables
        /\ orderly \in BOOLEAN
    BY At DEF Ind
  <1>2. /\ os' \in [Pids -> Processes]
        /\ \A p \in Pids, i \in Ids : os'[p] = Managed(i) => os[p] = Managed(i) /\ p # pid
    BY <1>1 DEF Signalled, Processes, Managed, Other
  <1>3. TypeOK'
    BY <1>1, <1>2, MoveType DEF Ind, Phases
  <1>4. ASSUME orderly PROVE Sound'
    <2>1. Quiet(a)
      BY <1>2 DEF Quiet
    <2>2. Knows(os', where, j)
      <3>1. CASE where = "idle"
        BY <3>1 DEF Knows, OnId
      <3>2. CASE where = "write"
        <4>1. Only(os, job[a].id, pid) /\ job[a].id \in Ids
          BY <1>1, <1>4, <3>2 DEF Ind, Sound, Alone, Knows, JobOK
        <4>2. QED
          BY <1>2, <3>2, <4>1 DEF Knows, Only
      <3>3. QED
        BY <3>1, <3>2
    <2>3. Seen'
      <3>1. \A p \in Pids, i \in Ids : os'[p] = Managed(i) =>
                os[p] = Managed(i) /\ ~Accounts(pc[a], job[a], p, i)
        BY <1>2 DEF Accounts, Unrecorded
      <3>2. QED
        BY <1>4, <3>1, SeenKept DEF Ind, Sound
    <2>4. where = "write" => j.snap = table /\ pc[a] \in InFile /\ pc[a] \in OnId
      BY <1>4 DEF Ind, Sound, Fresh, InFile, OnId
    <2>5. QED
      BY <1>3, <1>4, <2>1, <2>2, <2>3, <2>4, StepSound DEF Ind, InFile, OnId
  <1>5. QED
    BY <1>3, <1>4 DEF Ind

LEMMA AbortInd == ASSUME Ind, NEW a \in Actors, Abort(a) PROVE Ind'
  <1>1. pc[a] = "abort" /\ Report(a, FALSE) /\ os' = Signalled(job[a].pid) /\ UNCHANGED <<table, orderly>>
    BY DEF Abort
  <1>2. JobOK(job[a], pc[a]) /\ Moves(a, "idle", NoJob) /\ last' \in Reports
    BY <1>1, At, ReportTyped DEF Ind
  <1>3. PICK pid \in Pids : pid = job[a].pid
    BY <1>1, <1>2 DEF JobOK, Jobs
  <1>4. ~(last'.name = "stop" /\ last'.ok)
    BY <1>1 DEF Report
  <1> HIDE DEF NoJob
  <1>5. QED
    BY <1>1, <1>2, <1>3, <1>4, SignalInd, Blank

LEMMA KillInd == ASSUME Ind, NEW a \in Actors, Kill(a) PROVE Ind'
  <1>1. pc[a] = "kill" /\ UNCHANGED <<table, orderly>>
    BY DEF Kill
  <1>2. CASE Report(a, FALSE) /\ UNCHANGED os
    BY <1>1, <1>2, ReportInd DEF Unrecorded
  <1>3. CASE os' = Signalled(job[a].snap[job[a].id]) /\ Goto(a, "write") /\ UNCHANGED job
    <2>1. Moves(a, "write", job[a]) /\ last' = last /\ last' \in Reports /\ JobOK(job[a], pc[a])
      BY <1>3, At DEF Goto, Moves, Ind
    <2>2. JobOK(job[a], "write")
      BY <1>1, <2>1 DEF JobOK
    <2>3. PICK pid \in Pids : pid = job[a].snap[job[a].id]
      BY <1>1, <2>1 DEF JobOK, Jobs, Tables
    <2>4. QED
      BY <1>1, <1>3, <2>1, <2>2, <2>3, SignalInd
  <1>4. QED
    BY <1>2, <1>3 DEF Kill

\* Where a write has failed, its actor goes on to signal its process or reports; what is
\* still recorded may have been lost meanwhile.
LEMMA UnwrittenInd ==
    ASSUME Ind, NEW a \in Actors, pc[a] \in {"write", "fill"}, Unwritten(a),
           UNCHANGED <<table, orderly>>,
           os' = os \/ os' = Lost(a), pc[a] = "fill" => os' = Lost(a)
    PROVE  Ind'
  <1>1. /\ JobOK(job[a], pc[a]) /\ job[a] \in Jobs /\ os \in [Pids -> Processes]
        /\ table \in Tables /\ last \in Reports /\ orderly \in BOOLEAN
    BY At DEF Ind
  <1>2. /\ os' \in [Pids -> Processes]
        /\ \A p \in Pids, i \in Ids : os'[p] = Managed(i) =>
               os[p] = Managed(i) /\ (pc[a] = "fill" => job[a].snap[i] # p)
    BY <1>1 DEF Lost, Runs, Processes, Managed, Other
  <1>3. Quiet(a)
    BY <1>2 DEF Quiet
  <1>4. orderly => Only(os, job[a].id, job[a].pid)
    BY DEF Ind, Sound, Alone, Knows, OnId
  <1>5. CASE job[a].pid # None /\ Goto(a, "abort") /\ UNCHANGED job
    <2>1. Moves(a, "abort", job[a]) /\ last' = last
      BY <1>5, At DEF Goto, Moves, Ind
    <2>2. JobOK(job[a], "abort")
      BY <1>1, <1>5 DEF JobOK
    <2>3. TypeOK'
      BY <1>1, <1>2, <2>1, <2>2, MoveType DEF Ind, Phases
    <2>4. ASSUME orderly PROVE Sound'
      <3>1. Knows(os', "abort", job[a])
        BY <1>1, <1>2, <1>4, <1>5, <2>4 DEF Knows, Only, JobOK
      <3>2. Seen'
        <4>1. \A p \in Pids, i \in Ids : os'[p] = Managed(i) =>
                  Accounts("abort", job[a], p, i) \/ (os[p] = Managed(i) /\ ~Accounts(pc[a], job[a], p, i))
          BY <1>2 DEF Accounts, Unrecorded
        <4>2. QED
          BY <2>1, <2>4, <4>1, SeenKept DEF Ind, Sound
      <3>3. QED
        BY <1>3, <2>1, <2>3, <2>4, <3>1, <3>2, StepSound DEF Ind, InFile, OnId
    <2>5. QED
      BY <2>3, <2>4 DEF Ind
  <1>6. CASE job[a].pid = None /\ Report(a, job[a].name = "stop")
    <2>1. Moves(a, "idle", NoJob) /\ last' \in Reports
      BY <1>6, ReportTyped DEF Ind
    <2>2. last'.id = job[a].id
      BY <1>6 DEF Report
    <2>3. TypeOK'
      BY <1>1, <1>2, <2>1, MoveType, Blank DEF Ind, Phases
    <2>4. ASSUME orderly PROVE Sound'
      <3>1. Knows(os', "idle", NoJob)
        BY DEF Knows, OnId
      <3>2. Seen'
        <4>1. \A p \in Pids, i \in Ids : os'[p] = Managed(i) =>
                  os[p] = Managed(i) /\ ~Accounts(pc[a], job[a], p, i)
          BY <1>2, <1>6, ProcessAssumption DEF Accounts
        <4>2. QED
          BY <2>1, <2>4, <4>1, SeenKept DEF Ind, Sound
      <3>3. \A p \in Pids : os'[p] # Managed(job[a].id)
        <4>1. \A p \in Pids : os[p] # Managed(job[a].id)
          BY <1>4, <1>6, <2>4, ProcessAssumption DEF Only
        <4>2. CASE job[a].id \in Ids
          BY <1>2, <4>1, <4>2
        <4>3. CASE job[a].id = None
          BY <2>3, <4>3, TypeIffNext, ProcessAssumption DEF Processes, Free, Other, Managed
        <4>4. QED
          BY <1>1, <4>2, <4>3 DEF Jobs
      <3> HIDE DEF NoJob
      <3>4. QED
        BY <1>3, <2>1, <2>2, <2>3, <2>4, <3>1, <3>2, <3>3, StepSound DEF Ind, InFile, OnId
    <2>5. QED
      BY <2>3, <2>4 DEF Ind
  <1>7. QED
    BY <1>5, <1>6 DEF Unwritten

\* The file is empty: what was in it is what the actor is going to write.
LEMMA TruncateInd == ASSUME Ind, NEW a \in Actors, Truncate(a) PROVE Ind'
  <1>1. pc[a] = "write" /\ UNCHANGED <<os, orderly>>
    BY DEF Truncate
  <1>2. CASE Unwritten(a) /\ UNCHANGED table
    BY <1>1, <1>2, UnwrittenInd
  <1>3. CASE table' = EmptyTable /\ Goto(a, "fill") /\ UNCHANGED job
    <2>1. /\ JobOK(job[a], pc[a]) /\ job[a] \in Jobs /\ os' \in [Pids -> Processes]
          /\ last' = last /\ last' \in Reports /\ orderly \in BOOLEAN /\ table' \in Tables
          /\ Moves(a, "fill", job[a])
      BY <1>1, <1>3, At, Blank DEF Ind, Goto, Moves
    <2>2. JobOK(job[a], "fill")
      BY <1>1, <2>1 DEF JobOK
    <2>3. TypeOK'
      BY <1>1, <2>1, <2>2, MoveType DEF Ind, Phases
    <2>4. ASSUME orderly PROVE Sound'
      <3>1. job[a].snap = table
        BY <1>1, <2>4 DEF Ind, Sound, Fresh
      <3>2. Seen'
        <4> SUFFICES ASSUME NEW p \in Pids, NEW id \in Ids, os[p] = Managed(id)
                     PROVE  \E b \in Actors : Accounts(pc'[b], job'[b], p, id)
          BY <1>1 DEF Seen, Accounts, Managed
        <4>1. CASE table[id] = p
          BY <2>1, <3>1, <4>1, Moved DEF Accounts, Ind
        <4>2. ASSUME NEW b \in Actors, Accounts(pc[b], job[b], p, id)
              PROVE  Accounts(pc'[b], job'[b], p, id)
          BY <1>1, <2>1, <4>2, Moved DEF Accounts, Unrecorded, Ind
        <4>3. QED
          BY <2>4, <4>1, <4>2 DEF Ind, Sound, Seen
      <3>3. Quiet(a)
        BY <1>1 DEF Quiet
      <3>4. Knows(os', "fill", job[a])
        BY <1>1, <2>4 DEF Ind, Sound, Alone, Knows, OnId
      <3>5. QED
        BY <1>1, <1>3, <2>1, <2>3, <2>4, <3>2, <3>3, <3>4, StepSound DEF Ind, InFile, OnId
    <2>5. QED
      BY <1>1, <2>3, <2>4 DEF Ind
  <1>4. QED
    BY <1>2, <1>3 DEF Truncate

\* The records are written, as they were read but for the actor's own.
LEMMA WrittenInd ==
    ASSUME Ind, NEW a \in Actors, pc[a] = "fill", table' = Content(a), Written(a),
           UNCHANGED <<os, orderly>>
    PROVE  Ind'
  <1>1. /\ JobOK(job[a], pc[a]) /\ job[a] \in Jobs /\ os \in [Pids -> Processes]
        /\ table \in Tables /\ last \in Reports /\ orderly \in BOOLEAN
    BY At DEF Ind
  <1>2. table' \in Tables
    BY <1>1 DEF Content, Jobs, Tables
  <1>3. Quiet(a)
    BY DEF Quiet
  <1>4. orderly => Only(os, job[a].id, job[a].pid)
    BY DEF Ind, Sound, Alone, Knows, OnId
  <1>5. ASSUME orderly, NEW where, NEW j, Moves(a, where, j) PROVE Seen'
    <2> SUFFICES ASSUME NEW p \in Pids, NEW id \in Ids, os[p] = Managed(id)
                 PROVE  table'[id] = p \/ \E b \in Actors : Accounts(pc'[b], job'[b], p, id)
      BY DEF Seen, Accounts, Managed
    <2>1. CASE id = job[a].id
      <3>1. p = job[a].pid
        BY <1>4, <1>5, <2>1 DEF Only
      <3>2. QED
        BY <1>1, <2>1, <3>1 DEF Content, Jobs, Tables
    <2>2. CASE id # job[a].id
      <3>1. table'[id] = job[a].snap[id]
        BY <1>1, <2>2 DEF Content, Jobs, Tables
      <3>2. table[id] # p
        BY <1>5, ProcessAssumption DEF Ind, Sound, Fresh, EmptyTable
      <3>3. PICK b \in Actors : Accounts(pc[b], job[b], p, id)
        BY <1>5, <3>2 DEF Ind, Sound, Seen
      <3>4. CASE b = a
        BY <2>2, <3>1, <3>3, <3>4 DEF Accounts
      <3>5. CASE b # a
        BY <1>5, <3>3, <3>5, Moved DEF Ind
      <3>6. QED
        BY <3>4, <3>5
    <2>3. QED
      BY <2>1, <2>2
  <1>6. CASE job[a].pid # None /\ job[a].marker /\ Goto(a, "marker") /\ UNCHANGED job
    <2>1. Moves(a, "marker", job[a]) /\ last' = last
      BY <1>6, At DEF Goto, Moves, Ind
    <2>2. JobOK(job[a], "marker") /\ Knows(os', "marker", job[a])
      BY <1>1, <1>6 DEF JobOK, Knows, OnId
    <2>3. TypeOK'
      BY <1>1, <1>2, <2>1, <2>2, MoveType DEF Ind, Phases
    <2>4. ASSUME orderly PROVE Sound'
      <3>1. Seen'
        BY <1>5, <2>1, <2>4
      <3>2. QED
        BY <1>3, <2>1, <2>2, <2>3, <2>4, <3>1, StepSound DEF Ind, InFile, OnId
    <2>5. QED
      BY <2>3, <2>4 DEF Ind
  <1>7. CASE Report(a, job[a].pid # None \/ job[a].name \in {"stop", "auth"})
    <2>1. Moves(a, "idle", NoJob) /\ last' \in Reports
      BY <1>7, ReportTyped DEF Ind
    <2>2. last'.id = job[a].id /\ last'.name = job[a].name
      BY <1>7 DEF Report
    <2>3. TypeOK'
      BY <1>1, <1>2, <2>1, MoveType, Blank DEF Ind, Phases
    <2>4. ASSUME orderly PROVE Sound'
      <3>1. Knows(os', "idle", NoJob)
        BY DEF Knows, OnId
      <3>2. Seen'
        BY <1>5, <2>1, <2>4
      <3>3. job[a].name = "stop" => \A p \in Pids : os'[p] # Managed(job[a].id)
        BY <1>1, <1>4, <2>4, ProcessAssumption DEF Only, JobOK
      <3> HIDE DEF NoJob
      <3>4. QED
        BY <1>3, <2>1, <2>2, <2>3, <2>4, <3>1, <3>2, <3>3, StepSound DEF Ind, InFile, OnId
    <2>5. QED
      BY <2>3, <2>4 DEF Ind
  <1>8. QED
    BY <1>6, <1>7 DEF Written

LEMMA FillInd == ASSUME Ind, NEW a \in Actors, Fill(a) PROVE Ind'
  <1>1. pc[a] = "fill" /\ UNCHANGED orderly
    BY DEF Fill
  <1>2. CASE table' = Content(a) /\ Written(a) /\ UNCHANGED os
    BY <1>1, <1>2, WrittenInd
  <1>3. CASE os' = Lost(a) /\ Unwritten(a) /\ UNCHANGED table
    BY <1>1, <1>3, UnwrittenInd
  <1>4. QED
    BY <1>2, <1>3 DEF Fill

\* What a killed CLI has not recorded, or has just truncated, is lost.
LEMMA KilledInd == ASSUME Ind, NEW a \in Actors, CliKilled(a) PROVE Ind'
  <1>1. /\ Moves(a, "idle", NoJob) /\ last' = Nothing /\ UNCHANGED <<table, orderly>>
    BY DEF CliKilled, Moves
  <1>2. /\ job[a] \in Jobs /\ os \in [Pids -> Processes] /\ table \in Tables
        /\ orderly \in BOOLEAN
    BY At DEF Ind
  <1>3. /\ os' \in [Pids -> Processes]
        /\ \A p \in Pids, i \in Ids : os'[p] = Managed(i) =>
               /\ os[p] = Managed(i)
               /\ ~(pc[a] \in Unrecorded /\ p = job[a].pid /\ i = job[a].id)
               /\ ~(pc[a] = "fill" /\ job[a].snap[i] = p)
    <2>1. \A p \in Pids : os'[p] \in {Other, os[p]}
      BY DEF CliKilled, Lost
    <2>2. os' \in [Pids -> Processes]
      <3>1. DOMAIN os' = Pids /\ os' = [p \in Pids |-> os'[p]]
        BY DEF CliKilled
      <3>2. QED
        BY <1>2, <2>1, <3>1 DEF Processes
    <2>3. ASSUME NEW p \in Pids, NEW i \in Ids, os'[p] = Managed(i)
          PROVE  /\ os[p] = Managed(i)
                 /\ ~(pc[a] \in Unrecorded /\ p = job[a].pid /\ i = job[a].id)
                 /\ ~(pc[a] = "fill" /\ job[a].snap[i] = p)
      BY <2>3 DEF CliKilled, Lost, Runs, Managed, Other, Unrecorded
    <2>4. QED
      BY <2>2, <2>3
  <1>4. TypeOK'
    BY <1>1, <1>2, <1>3, MoveType, Blank DEF Ind, Phases
  <1>5. ASSUME orderly PROVE Sound'
    <2>1. Seen'
      <3>1. \A p \in Pids, i \in Ids : os'[p] = Managed(i) =>
                os[p] = Managed(i) /\ ~Accounts(pc[a], job[a], p, i)
        BY <1>3 DEF Accounts
      <3>2. QED
        BY <1>1, <1>5, <3>1, SeenKept DEF Ind, Sound
    <2>2. Quiet(a) /\ Knows(os', "idle", NoJob) /\ ~(last'.name = "stop" /\ last'.ok)
      BY <1>1, <1>3 DEF Quiet, Knows, OnId, Nothing
    <2> HIDE DEF NoJob
    <2>3. QED
      BY <1>1, <1>4, <1>5, <2>1, <2>2, StepSound DEF Ind, InFile, OnId
  <1>6. QED
    BY <1>1, <1>4, <1>5 DEF Ind

\* A process ends, or a pid goes to another program.
LEMMA OsInd == ASSUME Ind, NEW pid \in Pids, Dies(pid) \/ Taken(pid) PROVE Ind'
  <1>1. UNCHANGED <<table, pc, job, last, orderly>>
    BY DEF Dies, Taken
  <1>2. /\ os' \in [Pids -> Processes]
        /\ \A p \in Pids : \A i : os'[p] = Managed(i) => os[p] = Managed(i)
    <2>1. os \in [Pids -> Processes]
      BY TypeIff DEF Ind
    <2>2. QED
      BY <2>1 DEF Dies, Taken, Processes, Free, Other, Managed
  <1>3. TypeOK'
    BY <1>1, <1>2, TypeIff, TypeIffNext DEF Ind
  <1>4. ASSUME orderly PROVE Sound'
    <2>1. Seen'
      BY <1>1, <1>2, <1>4 DEF Ind, Sound, Seen, Accounts
    <2>2. Apart' /\ Fresh'
      BY <1>1, <1>4 DEF Ind, Sound, Apart, Fresh, EmptyTable
    <2>3. Alone'
      BY <1>1, <1>2, <1>4 DEF Ind, Sound, Alone, Knows, Only
    <2>4. Settled'
      BY <1>1, <1>2, <1>4 DEF Ind, Sound, Settled
    <2>5. QED
      BY <2>1, <2>2, <2>3, <2>4 DEF Sound
  <1>5. QED
    BY <1>1, <1>3, <1>4 DEF Ind

\* Nothing runs, and nobody asks.
LEMMA InitInd == Init => Ind
  <1> SUFFICES ASSUME Init PROVE Ind
    OBVIOUS
  <1>1. TypeOK
    BY Blank, TypeIff DEF Init, Phases, Processes, Tables, JobOK
  <1>2. Seen
    BY DEF Init, Seen, Free, Managed
  <1>3. Apart /\ Fresh /\ Alone /\ Settled
    BY DEF Init, Apart, Fresh, Alone, Knows, Settled, InFile, OnId, Nothing
  <1>4. QED
    BY <1>1, <1>2, <1>3 DEF Ind, Sound

\* A request begins.
LEMMA RequestInd ==
    ASSUME Ind, NEW a \in Actors, NEW id \in Ids, Start(a, id) \/ Stop(a, id) \/ Refused(a, id)
    PROVE  Ind'
  <1>1. EmptyTable \in Tables /\ orderly \in BOOLEAN /\ id # None
    BY Blank, At, ProcessAssumption DEF Ind
  <1> HIDE DEF EmptyTable
  <1>2. CASE Start(a, id)
    <2>1. PICK marker \in BOOLEAN : Begin(a, "start", id, marker, EmptyTable, "launch")
      BY <1>2 DEF Start
    <2>2. orderly' => orderly /\ IdIsMine(a, id) /\ Only(os, id, None)
      BY <1>2 DEF Start, Only, Runs
    <2>3. orderly' \in BOOLEAN
      BY <1>2 DEF Start
    <2>4. QED
      BY <1>1, <2>1, <2>2, <2>3, BeginInd DEF Names
  <1>3. CASE Stop(a, id)
    BY <1>1, <1>3, BeginInd DEF Stop, Names
  <1>4. CASE Refused(a, id)
    BY <1>1, <1>4, BeginInd DEF Refused, Names
  <1>5. QED
    BY <1>2, <1>3, <1>4

LEMMA AuthTestInd == ASSUME Ind, NEW a \in Actors, AuthTest(a) PROVE Ind'
  <1>1. Begin(a, "auth", None, FALSE, table, "called") /\ orderly' = (orderly /\ FileIsMine(a))
    BY DEF AuthTest
  <1>2. PICK snap \in Tables : snap = table
    BY At DEF Ind
  <1>3. QED
    BY <1>1, <1>2, BeginInd DEF Names

\* Ind is an invariant.
LEMMA Invariance == Spec => []Ind
  <1>1. Ind /\ [Next]_vars => Ind'
    <2> SUFFICES ASSUME Ind, [Next]_vars PROVE Ind'
      OBVIOUS
    <2>1. ASSUME NEW a \in Actors, Step(a) PROVE Ind'
      BY <2>1, AuthAnsweredInd, ReviveInd, ProbeInd, LaunchInd, StoreReadInd, AbortInd,
         MarkerInd, LookInd, KillInd, TruncateInd, FillInd DEF Step
    <2>2. CASE UNCHANGED vars
      <3>1. TypeOK'
        BY <2>2, TypeIff, TypeIffNext DEF vars, Ind
      <3>2. orderly => Sound'
        BY <2>2 DEF vars, Ind, Sound, Seen, Accounts, Apart, Fresh, EmptyTable, Alone, Knows,
                    Only, Settled
      <3>3. QED
        BY <2>2, <3>1, <3>2 DEF Ind, vars
    <2>3. QED
      BY <2>1, <2>2, RequestInd, AuthTestInd, KilledInd, OsInd DEF Next
  <1>2. QED
    BY <1>1, InitInd, PTL DEF Spec

(***************************************************************************)
(* Theorems.                                                               *)
(***************************************************************************)
\* Every state has the types the model declares, however many actors there are; one
\* that is to stop a process has read a record of it, and one that is to record or to
\* signal a process has launched it.
THEOREM TypeCorrect == Spec => []TypeOK
  <1>1. Ind => TypeOK
    BY DEF Ind
  <1>2. QED
    BY <1>1, Invariance, PTL

\* A process the host started and did not signal or lose is on record, whatever fails
\* between its launch and its record, and while the file is being written.
THEOREM VisibleTheorem == Spec => []Visible
  <1>1. Ind => Visible
    BY DEF Ind, Sound, Seen, Visible, Runs, Accounts, Unrecorded
  <1>2. QED
    BY <1>1, Invariance, PTL

\* No forward is revived while its process runs: two processes of one id would each be
\* the recorded one, or the one being recorded.
THEOREM OneProcessTheorem == Spec => []OneProcess
  <1>1. Ind => OneProcess
    <2> SUFFICES ASSUME Ind, orderly, NEW id \in Ids, NEW p \in Pids, NEW q \in Pids,
                        os[p] = Managed(id), os[q] = Managed(id)
                 PROVE  p = q
      BY DEF OneProcess, Runs
    <2>1. CASE \E a \in Actors : pc[a] \in Unrecorded /\ job[a].id = id
      <3>1. PICK a \in Actors : pc[a] \in Unrecorded /\ job[a].id = id
        BY <2>1
      <3>2. QED
        BY <3>1 DEF Ind, Sound, Alone, Knows, Only, OnId, Unrecorded
    <2>2. CASE ~\E a \in Actors : pc[a] \in Unrecorded /\ job[a].id = id
      <3>1. CASE \E a \in Actors : pc[a] = "fill"
        <4>1. PICK a \in Actors : pc[a] = "fill"
          BY <3>1
        <4>2. table[id] = None /\ \A b \in Actors : pc[b] = "fill" => b = a
          BY <4>1 DEF Ind, Sound, Fresh, EmptyTable, Apart, InFile
        <4>3. job[a].snap[id] = p /\ job[a].snap[id] = q
          BY <2>2, <4>2, ProcessAssumption DEF Ind, Sound, Seen, Accounts
        <4>4. QED
          BY <4>3
      <3>2. CASE ~\E a \in Actors : pc[a] = "fill"
        BY <2>2, <3>2 DEF Ind, Sound, Seen, Accounts
      <3>3. QED
        BY <3>1, <3>2
    <2>3. QED
      BY <2>1, <2>2
  <1>2. QED
    BY <1>1, Invariance, PTL

\* A stop that reports success leaves nothing running for its id.
THEOREM StoppedTheorem == Spec => []StoppedIsStopped
  <1>1. Ind => StoppedIsStopped
    BY DEF Ind, Sound, Settled, StoppedIsStopped, Runs
  <1>2. QED
    BY <1>1, Invariance, PTL
=============================================================================
