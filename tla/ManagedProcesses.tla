--------------------------- MODULE ManagedProcesses ---------------------------
(***************************************************************************)
(* Background processes the host starts for plugins, such as port-forwards *)
(* (management/local/local.go): processStart, processStop and the revival  *)
(* of a dead forward by httpDo, beside AuthTest and AuthConnect, which     *)
(* write back the whole state they read before they called a plugin.  Each *)
(* process runs in a group of its own and outlives the CLI; its record in  *)
(* the state file, by id, is all later commands know of it.  A write       *)
(* truncates the file first.  Reads and writes can fail, processes die by  *)
(* themselves, their pids go to others, and the CLI can be killed at any   *)
(* step.                                                                   *)
(*                                                                         *)
(* An actor is a command or a capability request; any number of them run   *)
(* at once (pluginruntime/runtime.go), and nothing keeps them apart.       *)
(***************************************************************************)
EXTENDS Naturals

CONSTANTS Actors,  \* the requests that may run at once
          Ids,     \* process ids: names of records
          Pids,    \* process ids of the operating system, which is each a group, too
          None     \* no pid, no id

ASSUME ProcessAssumption == None \notin Pids \cup Ids

VARIABLES
    os,      \* os[pid]: what runs under a pid
    table,   \* table[id]: the pid in the record of id, or None; empty while the file is truncated
    pc,      \* pc[a]: how far actor a is
    job,     \* job[a]: what actor a does
    last,    \* what the last request reported, until another one looks at a process
    orderly  \* for the properties: requests have kept out of each other's way so far

vars == <<os, table, pc, job, last, orderly>>
-----------------------------------------------------------------------------
Free == [kind |-> "free", id |-> None]

\* A process of somebody else; or one of the host that it has signalled, or whose record
\* a kill or a torn write has lost.
Other == [kind |-> "other", id |-> None]

\* A process that was started for id.
Managed(id) == [kind |-> "managed", id |-> id]
Runs(pid, id) == os[pid] = Managed(id)

Signalled(pid) == [os EXCEPT ![pid] = IF @.kind = "managed" THEN Other ELSE @]

EmptyTable == [id \in Ids |-> None]
NoJob == [name |-> "none", id |-> None, pid |-> None, marker |-> FALSE, snap |-> EmptyTable]
Nothing == [name |-> "none", id |-> None, ok |-> FALSE]

Init ==
    /\ os = [pid \in Pids |-> Free]
    /\ table = EmptyTable
    /\ pc = [a \in Actors |-> "idle"]
    /\ job = [a \in Actors |-> NoJob]
    /\ last = Nothing
    /\ orderly = TRUE
-----------------------------------------------------------------------------
(* What requests do to each other.                                         *)

\* Phases in which an actor has read the file and is going to write it back, and those
\* in which it is about the process of its id.
InFile == {"called", "kill", "write", "fill"}
OnId == {"probe", "launch", "read", "write", "fill", "abort", "kill"}

\* Actor a reads the file to write it back, or turns to the process of id, while no
\* other actor is doing so.
FileIsMine(a) == \A b \in Actors \ {a} : pc[b] \notin InFile
IdIsMine(a, id) == \A b \in Actors \ {a} : ~(pc[b] \in OnId /\ job[b].id = id)
-----------------------------------------------------------------------------
(* Requests.                                                               *)

Begin(a, name, id, marker, snap, where) ==
    /\ pc[a] = "idle"
    /\ pc' = [pc EXCEPT ![a] = where]
    /\ job' = [job EXCEPT ![a] = [name |-> name, id |-> id, pid |-> None, marker |-> marker,
                                  snap |-> snap]]
    /\ last' = Nothing
    /\ UNCHANGED <<os, table>>

\* Actor a reports and is done.
Report(a, ok) ==
    /\ pc' = [pc EXCEPT ![a] = "idle"]
    /\ job' = [job EXCEPT ![a] = NoJob]
    /\ last' = [name |-> job[a].name, id |-> job[a].id, ok |-> ok]

Goto(a, where) == pc' = [pc EXCEPT ![a] = where] /\ UNCHANGED last

\* process.start; marker says whether the caller waits for a line in the log.  Nothing
\* keeps a plugin that names the id itself from naming one whose process runs.
Start(a, id) ==
    /\ \E marker \in BOOLEAN : Begin(a, "start", id, marker, EmptyTable, "launch")
    /\ orderly' = (orderly /\ IdIsMine(a, id) /\ \A pid \in Pids : ~Runs(pid, id))

\* process.stop, and process stop ID.
Stop(a, id) == Begin(a, "stop", id, FALSE, EmptyTable, "look") /\ UNCHANGED orderly

\* An HTTP request to a loopback port that is refused; id is the forward on record
\* for that port.
Refused(a, id) ==
    Begin(a, "request", id, FALSE, EmptyTable, "revive") /\ UNCHANGED orderly

\* AuthTest and AuthConnect read the state and call the plugin, whose requests are
\* actors of their own meanwhile.
AuthTest(a) ==
    /\ Begin(a, "auth", None, FALSE, table, "called")
    /\ orderly' = (orderly /\ FileIsMine(a))

\* The plugin has answered; an AuthConnect that it refuses writes nothing.
AuthAnswered(a) ==
    /\ pc[a] = "called"
    /\ \/ Goto(a, "write") /\ UNCHANGED job
       \/ Report(a, FALSE)
    /\ UNCHANGED <<os, table, orderly>>
-----------------------------------------------------------------------------
(* httpDo: reviveLoopbackForward.                                          *)

\* The record is looked up.
Revive(a) ==
    /\ pc[a] = "revive"
    /\ \/ /\ table[job[a].id] # None
          /\ pc' = [pc EXCEPT ![a] = "probe"]
          /\ job' = [job EXCEPT ![a].snap = table]
          /\ last' = Nothing
          /\ orderly' = (orderly /\ IdIsMine(a, job[a].id))
       \/ Report(a, FALSE) /\ UNCHANGED orderly
    /\ UNCHANGED <<os, table>>

\* Its process is probed with signal 0: whatever has the pid counts as alive, unless
\* it belongs to another user.
Probe_Never(a) ==
    /\ pc[a] = "probe"
    /\ \/ Goto(a, "launch") /\ UNCHANGED job
       \/ Report(a, FALSE)
    /\ UNCHANGED <<os, table, orderly>>
Probe(a) ==
    /\ pc[a] = "probe"
    /\ LET kind == os[job[a].snap[job[a].id]].kind
       IN  \/ kind # "managed" /\ Goto(a, "launch") /\ UNCHANGED job
           \/ kind # "free" /\ Report(a, FALSE)
    /\ UNCHANGED <<os, table, orderly>>
-----------------------------------------------------------------------------
(* readState and writeState around a change of the records.                *)

\* What a writes: the state it read, with the record of its process put in (storeProcess)
\* or taken out (stopStoredProcess), if it is about a process at all.
Content(a) ==
    IF job[a].id \in Ids THEN [job[a].snap EXCEPT ![job[a].id] = job[a].pid] ELSE job[a].snap

\* The write is done.  A request that revived the forward now retries; a start may wait
\* for its marker, and one that has timed out reports that.
Written(a) ==
    IF job[a].pid # None /\ job[a].marker
    THEN Goto(a, "marker") /\ UNCHANGED job
    ELSE Report(a, job[a].pid # None \/ job[a].name \in {"stop", "auth"})

\* The write failed: a new process is told to end; a stop does not mind.
Unwritten_Kept(a) == Report(a, job[a].name = "stop")
Unwritten(a) ==
    IF job[a].pid # None THEN Goto(a, "abort") /\ UNCHANGED job
    ELSE Report(a, job[a].name = "stop")

\* The file stays truncated: the processes recorded in it are lost.
Lost(a) ==
    [pid \in Pids |-> IF \E id \in Ids : job[a].snap[id] = pid /\ Runs(pid, id)
                      THEN Other ELSE os[pid]]

\* os.WriteFile truncates the file, or fails to open it.
Truncate(a) ==
    /\ pc[a] = "write"
    /\ \/ table' = EmptyTable /\ Goto(a, "fill") /\ UNCHANGED job
       \/ Unwritten(a) /\ UNCHANGED table
    /\ UNCHANGED <<os, orderly>>

\* It writes what a made of the state it read, or fails.
Fill(a) ==
    /\ pc[a] = "fill"
    /\ \/ table' = Content(a) /\ Written(a) /\ UNCHANGED os
       \/ os' = Lost(a) /\ Unwritten(a) /\ UNCHANGED table
    /\ UNCHANGED orderly
-----------------------------------------------------------------------------
(* processStart and storeProcess.                                          *)

Launch(a) ==
    /\ pc[a] = "launch"
    /\ \/ \E pid \in Pids :
             /\ os[pid].kind = "free"
             /\ os' = [os EXCEPT ![pid] = Managed(job[a].id)]
             /\ job' = [job EXCEPT ![a].pid = pid]
             /\ Goto(a, "read")
       \/ Report(a, FALSE) /\ UNCHANGED os
    /\ UNCHANGED <<table, orderly>>

StoreRead(a) ==
    /\ pc[a] = "read"
    /\ \/ /\ job' = [job EXCEPT ![a].snap = table]
          /\ Goto(a, "write")
          /\ orderly' = (orderly /\ FileIsMine(a))
       \/ Goto(a, "abort") /\ UNCHANGED <<job, orderly>>
    /\ UNCHANGED <<os, table>>

\* The record could not be stored: the group is told to end.
Abort(a) ==
    /\ pc[a] = "abort"
    /\ os' = Signalled(job[a].pid)
    /\ Report(a, FALSE)
    /\ UNCHANGED <<table, orderly>>

\* waitForLogMarker: the line is there, or the time is over and the process is
\* stopped by its id.
Marker(a) ==
    /\ pc[a] = "marker"
    /\ \/ Report(a, TRUE)
       \/ Goto(a, "look") /\ UNCHANGED job
    /\ UNCHANGED <<os, table, orderly>>
-----------------------------------------------------------------------------
(* stopStoredProcess.                                                      *)

\* The state is read; without a record there is nothing to signal.
Look(a) ==
    /\ pc[a] = "look"
    /\ \/ /\ table[job[a].id] # None
          /\ pc' = [pc EXCEPT ![a] = "kill"]
          /\ job' = [job EXCEPT ![a].snap = table, ![a].pid = None]
          /\ last' = Nothing
          /\ orderly' = (orderly /\ FileIsMine(a) /\ IdIsMine(a, job[a].id))
       \/ Report(a, FALSE) /\ UNCHANGED orderly
    /\ UNCHANGED <<os, table>>

\* kill of the group: one that is gone counts as stopped, and one of another user
\* is an error.
Kill_Skipped(a) ==
    pc[a] = "kill" /\ Goto(a, "write") /\ UNCHANGED <<os, table, job, orderly>>
Kill(a) ==
    /\ pc[a] = "kill"
    /\ LET pid == job[a].snap[job[a].id]
       IN  \/ os' = Signalled(pid) /\ Goto(a, "write") /\ UNCHANGED job
           \/ os[pid].kind = "other" /\ Report(a, FALSE) /\ UNCHANGED os
    /\ UNCHANGED <<table, orderly>>
-----------------------------------------------------------------------------
(* The operating system.                                                   *)

\* A process ends, signalled or not; its pid is free again.
Dies(pid) ==
    /\ os[pid].kind # "free"
    /\ os' = [os EXCEPT ![pid] = Free]
    /\ UNCHANGED <<table, pc, job, last, orderly>>

\* Some other program gets the pid.
Taken(pid) ==
    /\ os[pid].kind = "free"
    /\ os' = [os EXCEPT ![pid] = Other]
    /\ UNCHANGED <<table, pc, job, last, orderly>>

\* The CLI is killed: nobody remembers a process it had not recorded, nor, if the file
\* was just truncated, the ones on record.
CliKilled(a) ==
    /\ pc[a] # "idle"
    /\ os' = [pid \in Pids |->
                 IF \/ pc[a] \in {"read", "write", "fill", "abort"} /\ pid = job[a].pid
                       /\ Runs(pid, job[a].id)
                 THEN Other
                 ELSE IF pc[a] = "fill" THEN Lost(a)[pid] ELSE os[pid]]
    /\ pc' = [pc EXCEPT ![a] = "idle"]
    /\ job' = [job EXCEPT ![a] = NoJob]
    /\ last' = Nothing
    /\ UNCHANGED <<table, orderly>>

Step(a) ==
    \/ AuthAnswered(a) \/ Revive(a) \/ Probe(a) \/ Launch(a) \/ StoreRead(a) \/ Abort(a)
    \/ Marker(a) \/ Look(a) \/ Kill(a) \/ Truncate(a) \/ Fill(a)

Next ==
    \/ \E a \in Actors : \/ \E id \in Ids : Start(a, id) \/ Stop(a, id) \/ Refused(a, id)
                         \/ AuthTest(a)
                         \/ Step(a)
                         \/ CliKilled(a)
    \/ \E pid \in Pids : Dies(pid) \/ Taken(pid)

Spec == Init /\ [][Next]_vars
-----------------------------------------------------------------------------
Names == {"none", "start", "stop", "request", "auth"}
Tables == [Ids -> Pids \cup {None}]

TypeOK ==
    /\ os \in [Pids -> {Free, Other} \cup {Managed(id) : id \in Ids}]
    /\ table \in Tables
    /\ pc \in [Actors -> {"idle", "called", "revive", "probe", "launch", "read", "write", "fill",
                          "abort", "marker", "look", "kill"}]
    /\ job \in [Actors -> [name : Names, id : Ids \cup {None}, pid : Pids \cup {None},
                           marker : BOOLEAN, snap : Tables]]
    /\ \A a \in Actors :
           /\ pc[a] = "idle" <=> job[a].name = "none"
           /\ pc[a] = "called" => job[a].id = None
           /\ pc[a] \notin {"idle", "called", "write", "fill"} => job[a].id \in Ids
           /\ pc[a] \in {"revive", "probe", "launch"} \/ job[a].pid # None =>
                  job[a].id \in Ids /\ job[a].name \in {"start", "request"}
           /\ pc[a] \in {"called", "revive", "probe", "launch", "kill"} => job[a].pid = None
           /\ pc[a] \in {"read", "abort", "marker"} => job[a].pid # None
           /\ pc[a] \in {"probe", "kill"} => job[a].snap[job[a].id] # None
    /\ last \in [name : Names, id : Ids \cup {None}, ok : BOOLEAN]
    /\ orderly \in BOOLEAN

\* README.md: "Long-lived background processes ... persist as records and are also
\* visible from the CLI".  As long as requests keep out of each other's way, a process
\* of the host that runs, that nobody signalled and that no kill or torn write lost, has
\* its record, or its start is still about it, or the file is just being written.
Visible ==
    orderly => \A pid \in Pids, id \in Ids : Runs(pid, id) =>
        \/ table[id] = pid
        \/ \E a \in Actors :
              \/ pc[a] \in {"read", "write", "fill", "abort"} /\ job[a].pid = pid /\ job[a].id = id
              \/ pc[a] = "fill" /\ job[a].snap[id] = pid

\* As long as requests keep out of each other's way, a forward is revived only when its
\* process is dead: no two processes run for the same id.
OneProcess ==
    orderly => \A id \in Ids, p, q \in Pids : Runs(p, id) /\ Runs(q, id) => p = q

\* As long as requests keep out of each other's way, nothing runs unsignalled for an id
\* whose stop has reported success, until another request looks at a process.
StoppedIsStopped ==
    orderly /\ last.name = "stop" /\ last.ok => \A pid \in Pids : ~Runs(pid, last.id)
=============================================================================
