------------------------------ MODULE StateFile ------------------------------
(***************************************************************************)
(* The JSON state file of the local backend (management/local/local.go)    *)
(* under a fan-out of the CLI: one goroutine of runConcurrent (FanOut) per *)
(* eligible plugin runs the command's job against one Backend.             *)
(*                                                                         *)
(*   search    ListOperations                  (cli/operation_search.go)   *)
(*   selftest  ListOperations, BatchOperations (cli/selftest.go)           *)
(*   doctor    AuthTest, with --check-auth     (cli/doctor.go)             *)
(*                                                                         *)
(* Every operation reads the whole file and writes the whole file back.    *)
(* os.WriteFile truncates before it writes, and a reader takes a truncated *)
(* file for an empty state.  Only cacheOperations holds a lock.            *)
(***************************************************************************)
EXTENDS Naturals, FiniteSets

CONSTANTS Plugins,     \* the installed plugins; a goroutine has its plugin's name
          Tasks,       \* the commands one of which runs
          MaxBuilds,   \* bound on the builds of a plugin binary
          None         \* no plugin

ASSUME StateFileAssumption ==
    /\ Tasks \subseteq {"search", "selftest", "doctor"}
    /\ MaxBuilds \in Nat \ {0}
    /\ None \notin Plugins /\ IsFiniteSet(Plugins)

VARIABLES
    task,      \* the command
    eligible,  \* the plugins it asks, all or those named in its arguments
    file,      \* the state file: whole, empty (truncated) or torn
    binary,    \* binary[p]: the build of p's binary and its mtime; 0 without a path
    cacheMu,   \* who holds cacheMu
    pc,        \* pc[p]: how far the goroutine is
    snap,      \* snap[p]: the state it read last, with its changes
    mtime,     \* mtime[p]: the modification time binaryMtime saw
    ops,       \* ops[p]: the build whose operations the plugin listed
    result     \* result[p]: what the job has to report so far

command == <<task, eligible>>
vars == <<command, file, binary, cacheMu, pc, snap, mtime, ops, result>>
job == <<snap, mtime, ops, result>>
-----------------------------------------------------------------------------
Builds == 0 .. MaxBuilds
NoCache == [ops |-> 0, mtime |-> 0]

\* What of the state the properties tell apart: Plugins, their OperationsCache
\* and OperationsMtime, the AuthState of their instances, and Processes.
EmptyState ==
    [installed |-> {},
     cache |-> [p \in Plugins |-> NoCache],
     auth |-> [p \in Plugins |-> "untested"],
     process |-> [p \in Plugins |-> "none"]]

Whole(st) == [kind |-> "whole", st |-> st]
Truncated == [kind |-> "empty", st |-> EmptyState]
Torn == [kind |-> "torn", st |-> EmptyState]

\* The forwards some plugins depend on were started earlier and have died.
Init ==
    /\ task \in Tasks
    /\ eligible \in SUBSET Plugins
    /\ \E cached, dead \in SUBSET Plugins :
          file = Whole([EmptyState EXCEPT
                    !.installed = Plugins,
                    !.cache = [p \in Plugins |->
                        IF p \in cached THEN [ops |-> 1, mtime |-> 1] ELSE NoCache],
                    !.process = [p \in Plugins |-> IF p \in dead THEN "dead" ELSE "none"]])
    /\ binary \in [Plugins -> {0, 1}]
    /\ cacheMu = None
    /\ pc = [p \in Plugins |->
           IF p \notin eligible THEN "done" ELSE IF task = "doctor" THEN "testRead" ELSE "lookup"]
    /\ snap = [p \in Plugins |-> EmptyState]
    /\ mtime = [p \in Plugins |-> 0]
    /\ ops = [p \in Plugins |-> 0]
    /\ result = [p \in Plugins |-> "none"]
-----------------------------------------------------------------------------
(* readState and writeState.                                               *)

\* readState fails on a torn file, and takes a truncated one for EmptyState;
\* both leave the caller without the plugin it looks for.
Readable == file.kind # "torn"

Go(p, at) == pc' = [pc EXCEPT ![p] = at]
Report(p, r) == result' = [result EXCEPT ![p] = r]

\* The job of p ends with an error.
Fail(p) ==
    /\ Go(p, "done") /\ Report(p, "error")
    /\ UNCHANGED <<command, file, binary, cacheMu, snap, mtime, ops>>

\* writeState: os.WriteFile opens the file with O_TRUNC ...
Truncate(p) ==
    /\ pc[p] = "truncate"
    /\ file' = Truncated
    /\ Go(p, "put")
    /\ UNCHANGED <<command, binary, cacheMu, job>>

\* What follows writeState in the job.
AfterWrite(p) ==
    IF task = "selftest" /\ cacheMu = p THEN "probeLookup" ELSE "done"

\* ... and then writes from the start of it.  When another writer has written
\* since, a longer remainder of it stays behind and the file no longer parses.
Put(p) ==
    /\ pc[p] = "put"
    /\ \/ file' = Whole(snap[p])
       \/ file.kind # "empty" /\ file # Whole(snap[p]) /\ file' = Torn
    /\ cacheMu' = IF cacheMu = p THEN None ELSE cacheMu
    /\ Go(p, AfterWrite(p))
    /\ UNCHANGED <<command, binary, job>>
-----------------------------------------------------------------------------
(* ListOperations and cacheOperations.                                     *)

\* installedPlugin; a plugin missing from what was read is "not installed".
Lookup(p) ==
    /\ pc[p] = "lookup"
    /\ \/ /\ p \in file.st.installed
          /\ snap' = [snap EXCEPT ![p] = file.st]
          /\ Go(p, "stat")
          /\ UNCHANGED <<command, file, binary, cacheMu, mtime, ops, result>>
       \/ p \notin file.st.installed /\ Fail(p)

\* What follows ListOperations in the job.
AfterList == IF task = "selftest" THEN "probeLookup" ELSE "done"

\* binaryMtime; the cached list is served when it was taken at that time.
Stat(p) ==
    /\ pc[p] = "stat"
    /\ mtime' = [mtime EXCEPT ![p] = binary[p]]
    /\ LET hit == binary[p] # 0 /\ snap[p].cache[p].mtime = binary[p]
       IN  /\ Go(p, IF hit THEN AfterList ELSE "list")
           /\ Report(p, IF hit THEN "hit" ELSE "none")
    /\ UNCHANGED <<command, file, binary, cacheMu, snap, ops>>

\* invokePlugin(operations.list) runs the binary of that moment; without an
\* mtime its answer is not cached.
AfterAnswer(p) == IF mtime[p] = 0 THEN AfterList ELSE "lock"
List_LateStat(p) ==
    /\ pc[p] = "list"
    /\ \E seen \in binary[p] .. MaxBuilds : mtime' = [mtime EXCEPT ![p] = seen]
    /\ ops' = [ops EXCEPT ![p] = binary[p]]
    /\ Go(p, AfterAnswer(p))
    /\ UNCHANGED <<command, file, binary, cacheMu, snap, result>>
List(p) ==
    /\ pc[p] = "list"
    /\ \/ /\ ops' = [ops EXCEPT ![p] = binary[p]]
          /\ Go(p, AfterAnswer(p))
          /\ UNCHANGED <<command, file, binary, cacheMu, snap, mtime, result>>
       \/ Fail(p)

\* cacheMu.Lock()
Lock_Missing(p) ==
    /\ pc[p] = "lock"
    /\ Go(p, "reread")
    /\ UNCHANGED <<command, file, binary, cacheMu, job>>
Lock(p) ==
    /\ pc[p] = "lock" /\ cacheMu = None
    /\ cacheMu' = p
    /\ Go(p, "reread")
    /\ UNCHANGED <<command, file, binary, job>>

\* The state is read again under the lock; when it cannot be read or the plugin
\* is gone from it the deferred Unlock is all that is left to do.
CacheIn(st, p) == [st EXCEPT !.cache[p] = [ops |-> ops[p], mtime |-> mtime[p]]]
Store(p, st) ==
    /\ snap' = [snap EXCEPT ![p] = st]
    /\ Go(p, "truncate")
    /\ Report(p, "cached")
    /\ UNCHANGED <<command, file, binary, cacheMu, mtime, ops>>
GiveUp(p) ==
    /\ cacheMu' = None
    /\ Go(p, AfterList)
    /\ UNCHANGED <<command, file, binary, job>>
Reread_Stale(p) ==
    /\ pc[p] = "reread"
    /\ Store(p, CacheIn(snap[p], p))
Reread_KeepsLock(p) ==
    /\ pc[p] = "reread"
    /\ Go(p, AfterList)
    /\ UNCHANGED <<command, file, binary, cacheMu, job>>
Reread(p) ==
    /\ pc[p] = "reread"
    /\ \/ p \in file.st.installed /\ Store(p, CacheIn(file.st, p))
       \/ p \notin file.st.installed /\ GiveUp(p)
-----------------------------------------------------------------------------
(* BatchOperations, and reviveLoopbackForward in the probes' HTTP calls.   *)

\* installedPlugin again, unless no operation of the list is safe to probe.
ProbeLookup(p) ==
    /\ pc[p] = "probeLookup"
    /\ \/ /\ \/ Go(p, "done")
             \/ p \in file.st.installed /\ Go(p, "probe")
          /\ UNCHANGED <<command, file, binary, cacheMu, job>>
       \/ p \notin file.st.installed /\ Fail(p)

\* The probes end; or one is refused by a loopback forward, whose record is
\* found dead, and processStart starts the process again.
Probe(p) ==
    /\ pc[p] = "probe"
    /\ \/ Go(p, "done")
       \/ file.st.process[p] = "dead" /\ Go(p, "storeProcess")
    /\ UNCHANGED <<command, file, binary, cacheMu, job>>

\* storeProcess; processStart kills the process when its record is not stored.
StoreProcess(p) ==
    /\ pc[p] = "storeProcess"
    /\ \/ /\ Readable
          /\ snap' = [snap EXCEPT ![p] = [file.st EXCEPT !.process[p] = "alive"]]
          /\ Go(p, "truncate")
       \/ ~Readable /\ Go(p, "done") /\ UNCHANGED snap
    /\ UNCHANGED <<command, file, binary, cacheMu, mtime, ops, result>>
-----------------------------------------------------------------------------
(* AuthTest.                                                               *)

TestRead(p) ==
    /\ pc[p] = "testRead"
    /\ \/ /\ p \in file.st.installed
          /\ snap' = [snap EXCEPT ![p] = file.st]
          /\ Go(p, "test")
          /\ UNCHANGED <<command, file, binary, cacheMu, mtime, ops, result>>
       \/ p \notin file.st.installed /\ Fail(p)

\* invokePlugin(auth.test); its result is entered into the state read before.
Test(p) ==
    /\ pc[p] = "test"
    /\ \E r \in {"passed", "failed"} :
          /\ snap' = [snap EXCEPT ![p].auth[p] = r]
          /\ Report(p, r)
    /\ Go(p, "truncate")
    /\ UNCHANGED <<command, file, binary, cacheMu, mtime, ops>>
-----------------------------------------------------------------------------
\* A developer, or another command, builds the binary of p again.
Rebuild(p) ==
    /\ binary[p] \in 1 .. (MaxBuilds - 1)
    /\ binary' = [binary EXCEPT ![p] = @ + 1]
    /\ UNCHANGED <<command, file, cacheMu, pc, job>>

Job(p) ==
    \/ Lookup(p) \/ Stat(p) \/ List(p) \/ Lock(p) \/ Reread(p)
    \/ ProbeLookup(p) \/ Probe(p) \/ StoreProcess(p)
    \/ TestRead(p) \/ Test(p)
    \/ Truncate(p) \/ Put(p)

Next == \E p \in Plugins : Job(p) \/ Rebuild(p)

\* Goroutines are scheduled and plugin calls return (FramedSession).  A waiter
\* of cacheMu is not starved: sync.Mutex hands the lock over after 1 ms.
Fairness == \A p \in Plugins : WF_vars(Job(p)) /\ SF_vars(Lock(p))

Spec == Init /\ [][Next]_vars /\ Fairness
-----------------------------------------------------------------------------
Caches == [ops : Builds, mtime : Builds]
States == [installed : SUBSET Plugins,
           cache : [Plugins -> Caches],
           auth : [Plugins -> {"untested", "passed", "failed"}],
           process : [Plugins -> {"none", "dead", "alive"}]]

TypeOK ==
    /\ task \in Tasks /\ eligible \subseteq Plugins
    /\ file \in [kind : {"whole", "empty", "torn"}, st : States]
    /\ file.kind # "whole" => file.st = EmptyState
    /\ binary \in [Plugins -> Builds]
    /\ cacheMu \in {None} \cup {p \in Plugins : pc[p] \in {"reread", "truncate", "put"}}
    /\ pc \in [Plugins -> {"lookup", "stat", "list", "lock", "reread", "truncate", "put",
                           "probeLookup", "probe", "storeProcess", "testRead", "test", "done"}]
    /\ snap \in [Plugins -> States]
    /\ mtime \in [Plugins -> Builds]
    /\ ops \in [Plugins -> Builds]
    /\ result \in [Plugins -> {"none", "error", "hit", "cached", "passed", "failed"}]

Writing == {p \in Plugins : pc[p] = "put"}

\* Whenever nobody is in the middle of a write the file parses and every
\* installed plugin is still in it.
Intact == Writing = {} => file.kind = "whole" /\ file.st.installed = Plugins

\* Each plugin's file entry says what its auth test reported, once all have ended.
Recorded ==
    (\A p \in Plugins : pc[p] = "done") =>
        \A p \in eligible : result[p] \in {"passed", "failed"} => file.st.auth[p] = result[p]

\* The uses of one backend that the code makes safe: fan-outs that write from
\* cacheOperations alone, and commands about a single plugin.
SafeUse == task = "search" \/ Cardinality(eligible) <= 1

\* Under safe use no interleaving of the goroutines' reads, truncations and
\* writes loses a plugin or leaves a file that does not parse.
StateSurvives == SafeUse => Intact

\* Under safe use no cache entry is lost: what a goroutine stored is in the file
\* from then on, whatever the other goroutines write.
CachesKept ==
    SafeUse => \A p \in Plugins :
        result[p] = "cached" /\ pc[p] = "done" /\ Writing = {} =>
            file.st.cache[p] = [ops |-> ops[p], mtime |-> mtime[p]]

\* CHANGELOG.md: "a rebuild/upgrade invalidates it automatically".  A cached list
\* whose time matches the binary came from that binary, also when the binary was
\* built again while the list was taken or stored, and in every use.
CacheFresh ==
    \A p \in Plugins :
        file.st.cache[p].mtime = binary[p] => file.st.cache[p].ops = binary[p]

\* Every job of the fan-out ends: cacheMu is released on every path.
JobsEnd == \A p \in Plugins : <>(pc[p] = "done")

\* local.go: the lock makes that "concurrent read-path callers never corrupt the
\* state file"; so in every use.
NeverCorrupted == Intact

\* local.go: AuthTest "records the latest test state"; so for every plugin that
\* doctor --check-auth tests.  Checked as an invariant it is refuted: concurrent
\* tests write back the states they read before.
TestsRecorded == Recorded
=============================================================================
