------------------------ MODULE PluginVersionsProofs ------------------------
(***************************************************************************)
(* Theorems about PluginVersions, for any catalog of plugins and any       *)
(* number of published versions.                                           *)
(***************************************************************************)
EXTENDS PluginVersions, TLAPS

(***************************************************************************)
(* What is known of a command between its steps: the strengthening that    *)
(* makes the invariants inductive.                                         *)
(***************************************************************************)
Touched == cmd.todo \cup cmd.built

\* How the phase, the command and the last report go together.
Phases ==
    /\ at = "idle" => cmd = Idle
    /\ at = "build" /\ cmd.name # "sync" => cmd.built = {}
    /\ at = "pin" => cmd.name = "pin"
    /\ at # "idle" /\ cmd.name # "rollback" => last.name = "none"
    /\ at # "idle" => last.name # "pin"
    /\ cmd.todo \cap cmd.built = {}
    /\ cmd.name = "pin" => \E q \in Plugins : Touched \subseteq {q}
    /\ cmd.name = "pin" /\ at = "save" => cmd.todo = {}
    /\ cmd.name = "pin" /\ (at # "pin" \/ cmd.built # {}) => cmd.version # Unknown
    /\ cmd.name = "rollback" => cmd.version \in Versions

\* A binary that was made is there, is the version that was asked for, and what was
\* read off it is its version.
Made ==
    /\ cmd.name \in {"sync", "remove"} => cmd.told = Unknown
    /\ \A p \in cmd.built :
          /\ cmd.name # "remove" => disk[p] # Unknown
          /\ cmd.told \in {Unknown, disk[p]}
          /\ cmd.name \in {"pin", "rollback"} /\ cmd.version # Query => disk[p] = cmd.version

\* What the command read of the records before it started is still so.
Foreseen ==
    \A p \in Touched :
        /\ cmd.name = "rollback" => rec[p].previous = cmd.version
        /\ cmd.name \in {"upgrade", "rollback"} => rec[p].pinned = Unknown
        /\ at = "pin" =>
               /\ rec[p].installed
               /\ cmd.version \in {Unknown, Query, rec[p].version} \/ (p \in cmd.built /\ unread[p])

\* The last rollback reported is what the record says.
Reported ==
    last.name = "rollback" => \A p \in last.plugins :
        rec[p].version = last.to /\ rec[p].previous = last.from

Ind ==
    /\ TypeOK /\ VersionTruth /\ HistorySound /\ PinAgrees
    /\ Phases /\ Made /\ Foreseen /\ Reported

\* No plugin is installed and no command runs.
LEMMA InitInd == Init => Ind
  <1> SUFFICES ASSUME Init PROVE Ind
    OBVIOUS
  <1>1. 1 \in Versions
    BY VersionsAssumption DEF Versions
  <1>2. TypeOK
    BY <1>1 DEF Init, TypeOK, Records, NoRecords, NoRecord, Idle, Quiet, Commands, Reports, Requests
  <1>3. VersionTruth /\ HistorySound /\ PinAgrees
    BY DEF Init, VersionTruth, HistorySound, PinAgrees, NoRecords, NoRecord, Quiet
  <1>4. Phases /\ Made /\ Foreseen /\ Reported
    BY DEF Init, Phases, Made, Foreseen, Reported, Touched, Idle, Quiet
  <1>5. QED
    BY <1>2, <1>3, <1>4 DEF Ind

(***************************************************************************)
(* A command starts.                                                       *)
(***************************************************************************)
Names == {"install", "update", "upgrade", "upgrade_blind", "pin", "rollback", "sync", "remove"}

\* What a command has to have read of the records to start this way.
MayBegin(name, ps, v, where) ==
    /\ name \in Names /\ where \in {"build", "pin"}
    /\ where = "pin" => name = "pin"
    /\ name = "pin" => \E q \in Plugins : ps \subseteq {q}
    /\ name = "pin" /\ where = "build" => v # Unknown
    /\ name = "rollback" => v \in Versions
    /\ \A p \in ps :
          /\ name = "rollback" => rec[p].previous = v
          /\ name \in {"upgrade", "rollback"} => rec[p].pinned = Unknown
          /\ where = "pin" => rec[p].installed /\ v \in {Unknown, rec[p].version}

\* Begin, for whatever a command read before it began.
LEMMA BeginInd ==
    ASSUME Ind, NEW name, NEW ps \in SUBSET Plugins, NEW v \in Requests,
           NEW where, MayBegin(name, ps, v, where), Begin(name, ps, v, where)
    PROVE  Ind'
  <1>1. /\ cmd' = [name |-> name, todo |-> ps, built |-> {}, version |-> v, told |-> Unknown]
        /\ at' = where
        /\ last' = IF name = "rollback" /\ last.name = "rollback" THEN last ELSE Quiet
        /\ UNCHANGED <<published, rec, disk, behind, unread>>
    BY DEF Begin, Idle
  <1>2. TypeOK'
    BY <1>1 DEF Ind, TypeOK, Commands, Reports, Requests, MayBegin, Names, Quiet
  <1>3. VersionTruth' /\ HistorySound'
    BY <1>1 DEF Ind, VersionTruth, HistorySound
  <1>4. PinAgrees' /\ Reported'
    BY <1>1 DEF Ind, PinAgrees, Reported, Quiet
  <1>5. Phases'
    BY <1>1 DEF MayBegin, Names, Phases, Touched, Quiet
  <1>6. Made' /\ Foreseen'
    BY <1>1 DEF MayBegin, Made, Foreseen, Touched
  <1>7. QED
    BY <1>2, <1>3, <1>4, <1>5, <1>6 DEF Ind

\* install needs nothing of the records.
LEMMA InstallInd == ASSUME Ind, NEW p \in Plugins, NEW v \in Requests, Install(p, v) PROVE Ind'
  <1>1. MayBegin("install", {p}, v, "build")
    BY DEF MayBegin, Names
  <1>2. QED
    BY <1>1, BeginInd DEF Install

\* update ignores pins.
LEMMA UpdateInd == ASSUME Ind, NEW p \in Plugins, Update(p) PROVE Ind'
  <1>1. MayBegin("update", {p}, Unknown, "build") /\ Unknown \in Requests
    BY DEF MayBegin, Names, Requests
  <1>2. QED
    BY <1>1, BeginInd DEF Update

\* upgrade starts on the plugins that were not pinned when it looked, if it could.
LEMMA UpgradeInd == ASSUME Ind, Upgrade PROVE Ind'
  <1> DEFINE free == {p \in Plugins : rec[p].pinned = Unknown}
  <1>1. \/ Begin("upgrade", free, Unknown, "build")
        \/ Begin("upgrade_blind", Plugins, Unknown, "build")
    BY DEF Upgrade
  <1>2. /\ MayBegin("upgrade", free, Unknown, "build")
        /\ MayBegin("upgrade_blind", Plugins, Unknown, "build") /\ Unknown \in Requests
    BY DEF MayBegin, Names, Requests
  <1> HIDE DEF free
  <1>3. free \in SUBSET Plugins
    BY DEF free
  <1>4. QED
    BY <1>1, <1>2, <1>3, BeginInd

\* A record that has a version is the record of an installed plugin.
LEMMA VersionedInstalled ==
    ASSUME TypeOK, NEW p \in Plugins, rec[p].version # Unknown
    PROVE  rec[p].installed
  BY DEF TypeOK, NoRecord

\* pin installs a version that is not the recorded one before it holds it.
LEMMA PinInd == ASSUME Ind, NEW p \in Plugins, NEW v \in Requests, Pin(p, v) PROVE Ind'
  <1>1. CASE v \in {Unknown, rec[p].version} /\ Begin("pin", {p}, v, "pin")
    <2>1. rec[p].version # Unknown
      BY <1>1 DEF Pin
    <2>2. MayBegin("pin", {p}, v, "pin")
      BY <1>1, <2>1, VersionedInstalled DEF MayBegin, Names, Ind
    <2>3. QED
      BY <1>1, <2>2, BeginInd
  <1>2. CASE v # Unknown /\ Begin("pin", {p}, v, "build")
    <2>1. MayBegin("pin", {p}, v, "build")
      BY <1>2 DEF MayBegin, Names
    <2>2. QED
      BY <1>2, <2>1, BeginInd
  <1>3. QED
    BY <1>1, <1>2 DEF Pin

\* rollback asks for the previous version it read.
LEMMA RollbackInd == ASSUME Ind, NEW p \in Plugins, Rollback(p) PROVE Ind'
  <1>1. rec[p].previous \in Versions \cup {Unknown}
    BY DEF Ind, TypeOK, Records
  <1>2. MayBegin("rollback", {p}, rec[p].previous, "build") /\ rec[p].previous \in Requests
    BY <1>1 DEF MayBegin, Names, Rollback, Requests
  <1>3. QED
    BY <1>1, <1>2, BeginInd DEF Rollback

\* dev sync ignores pins.
LEMMA SyncInd == ASSUME Ind, NEW ps \in SUBSET Plugins, Sync(ps) PROVE Ind'
  <1>1. MayBegin("sync", ps, Unknown, "build") /\ Unknown \in Requests
    BY DEF MayBegin, Names, Requests
  <1>2. QED
    BY <1>1, BeginInd DEF Sync

\* remove takes any installed plugin.
LEMMA RemoveInd == ASSUME Ind, NEW p \in Plugins, Remove(p) PROVE Ind'
  <1>1. MayBegin("remove", {p}, Unknown, "build") /\ Unknown \in Requests
    BY DEF MayBegin, Names, Requests
  <1>2. QED
    BY <1>1, BeginInd DEF Remove

\* unpin changes one field of a record nothing else rests on.
LEMMA UnpinInd == ASSUME Ind, NEW p \in Plugins, Unpin(p) PROVE Ind'
  <1> DEFINE r == [rec[p] EXCEPT !.pinned = Unknown]
  <1>1. rec' = [rec EXCEPT ![p] = r]
    BY DEF Unpin
  <1>2. /\ r \in Records /\ r.installed
        /\ r.version = rec[p].version /\ r.previous = rec[p].previous /\ r.kind = rec[p].kind
    <2>1. rec[p] \in Records /\ rec[p].installed /\ Unknown \in Requests
      BY DEF Unpin, Ind, TypeOK, Requests
    <2>2. QED
      BY <2>1 DEF Records
  <1> HIDE DEF r
  <1>3. /\ \A q \in Plugins : rec'[q] = IF q = p THEN r ELSE rec[q]
        /\ last' = Quiet /\ cmd' = cmd /\ at' = "idle" /\ at = "idle"
        /\ UNCHANGED <<published, disk, behind, unread>>
    BY <1>1 DEF Unpin, Ind, TypeOK
  <1>4. TypeOK'
    BY <1>1, <1>2, <1>3 DEF Ind, TypeOK, Reports, Requests, Quiet
  <1>5. VersionTruth' /\ HistorySound'
    BY <1>2, <1>3 DEF Ind, VersionTruth, HistorySound, Unpin
  <1>6. PinAgrees' /\ Reported' /\ Phases'
    BY <1>3 DEF Ind, PinAgrees, Reported, Phases, Touched, Quiet
  <1>7. Made' /\ Foreseen'
    BY <1>3 DEF Ind, Made, Foreseen, Touched, Phases, Idle
  <1>8. QED
    BY <1>4, <1>5, <1>6, <1>7 DEF Ind

(***************************************************************************)
(* The binary is made, or not.                                             *)
(***************************************************************************)
\* What can be made, and that a version that was asked for is what is made.
LEMMA ArtifactsType ==
    ASSUME TypeOK, NEW p \in Plugins, NEW v \in Artifacts(p)
    PROVE  /\ v \in Versions \cup {Unknown, Local}
           /\ cmd.name # "remove" => v # Unknown
           /\ cmd.name = "remove" => v = Unknown
           /\ cmd.name = "sync" => v = Local
           /\ cmd.name \in {"pin", "rollback"} /\ cmd.version \notin {Unknown, Query} =>
                  v = cmd.version
  <1>1. /\ MaxVersion \in Nat \ {0} /\ published[p] \in Versions
        /\ cmd.version \in Requests
    BY VersionsAssumption DEF TypeOK, Commands
  <1>2. CASE cmd.name = "remove"
    BY <1>2 DEF Artifacts
  <1>3. CASE cmd.name = "sync"
    BY <1>1, <1>3 DEF Artifacts, Versions, Local, Unknown
  <1>4. CASE cmd.name \notin {"remove", "sync"} /\ cmd.version \notin {Unknown, Query}
    <2>1. v \in {cmd.version} \cap (1 .. published[p])
      BY <1>4 DEF Artifacts
    <2>2. QED
      BY <1>1, <1>4, <2>1 DEF Requests
  <1>5. CASE cmd.name \notin {"remove", "sync"} /\ cmd.version \in {Unknown, Query}
    <2>1. v \in {published[p], Local}
      BY <1>5 DEF Artifacts
    <2>2. QED
      BY <1>1, <1>5, <2>1 DEF Versions, Local, Unknown
  <1>6. QED
    BY <1>2, <1>3, <1>4, <1>5

\* A binary is replaced: its record is behind from here on.
LEMMA BuildInd == ASSUME Ind, NEW p \in Plugins, Build(p) PROVE Ind'
  <1>1. PICK v \in Artifacts(p) :
              /\ disk' = [disk EXCEPT ![p] = v]
              /\ \E told \in Told(v) : cmd' = [cmd EXCEPT !.todo = @ \ {p}, !.built = @ \cup {p},
                                                         !.told = told]
    BY DEF Build
  <1>0. PICK told \in Told(v) : cmd' = [cmd EXCEPT !.todo = @ \ {p}, !.built = @ \cup {p},
                                                  !.told = told]
    BY <1>1
  <1>2. /\ at = "build" /\ p \in cmd.todo
        /\ behind' = [behind EXCEPT ![p] = TRUE] /\ unread' = [unread EXCEPT ![p] = FALSE]
        /\ at' \in {"build", "save"} /\ (at' = "build" => cmd.name = "sync")
        /\ UNCHANGED <<published, rec, last>>
    BY DEF Build, AfterBuild, Together
  <1>3. TypeOK
    BY DEF Ind
  <1>4. /\ v \in Versions \cup {Unknown, Local}
        /\ cmd.name # "remove" => v # Unknown
        /\ cmd.name = "remove" => v = Unknown
        /\ cmd.name = "sync" => v = Local
        /\ cmd.name \in {"pin", "rollback"} /\ cmd.version # Query => v = cmd.version
    <2>1. cmd.name \in {"pin", "rollback"} => cmd.version # Unknown
      BY <1>2, VersionsAssumption DEF Ind, Phases, Versions, Unknown
    <2>2. QED
      BY <1>3, <2>1, ArtifactsType
  <1>5. /\ cmd'.name = cmd.name /\ cmd'.version = cmd.version /\ cmd'.told = told
        /\ cmd'.todo = cmd.todo \ {p} /\ cmd'.built = cmd.built \cup {p}
        /\ told \in Versions \cup {Unknown} /\ told \in {v, Unknown}
        /\ cmd.name \in {"sync", "remove"} => told = Unknown
    <2>1. told \in Versions \cup {Unknown} /\ told \in {v, Unknown}
      BY DEF Told
    <2>2. Local \notin Versions /\ Unknown \notin Versions
      BY VersionsAssumption DEF Local, Versions, Unknown
    <2>3. cmd.name \in {"sync", "remove"} => told = Unknown
      BY <1>4, <2>1, <2>2
    <2>4. QED
      BY <1>0, <1>3, <2>1, <2>3 DEF TypeOK, Commands
  <1>6. /\ \A q \in Plugins : disk'[q] = IF q = p THEN v ELSE disk[q]
        /\ \A q \in Plugins : behind'[q] = IF q = p THEN TRUE ELSE behind[q]
        /\ \A q \in Plugins : unread'[q] = IF q = p THEN FALSE ELSE unread[q]
    BY <1>1, <1>2, <1>3 DEF TypeOK
  <1>7. TypeOK'
    <2>1. disk' \in [Plugins -> Versions \cup {Unknown, Local}]
      BY <1>1, <1>3, <1>4 DEF TypeOK
    <2>2. behind' \in [Plugins -> BOOLEAN] /\ unread' \in [Plugins -> BOOLEAN]
      BY <1>2, <1>3 DEF TypeOK
    <2>3. cmd' \in Commands
      BY <1>0, <1>3, <1>5 DEF TypeOK, Commands
    <2>4. QED
      BY <1>2, <1>3, <2>1, <2>2, <2>3 DEF TypeOK
  <1>8. VersionTruth'
    <2> SUFFICES ASSUME NEW q \in Plugins, rec'[q].installed /\ ~behind'[q]
                 PROVE  /\ rec'[q].kind = Kind(disk'[q])
                        /\ rec'[q].kind = "go_install" /\ ~unread'[q] => rec'[q].version = disk'[q]
      BY DEF VersionTruth, Kind
    <2>1. q # p
      BY <1>6, Zenon
    <2>2. disk'[q] = disk[q] /\ behind'[q] = behind[q] /\ rec'[q] = rec[q] /\ unread'[q] = unread[q]
      BY <1>2, <1>6, <2>1
    <2>3. rec[q].installed /\ ~behind[q]
      BY <2>2, Zenon
    <2>4. QED
      BY <2>2, <2>3 DEF Ind, VersionTruth
  <1>9. HistorySound' /\ PinAgrees' /\ Reported'
    BY <1>2 DEF Ind, HistorySound, PinAgrees, Reported, Phases
  <1>10. Touched' = Touched
    BY <1>2, <1>5 DEF Touched
  <1>11. Phases'
    <2>1. cmd'.todo \cap cmd'.built = {}
      BY <1>5 DEF Ind, Phases
    <2>2. cmd.name = "pin" => cmd'.todo = {}
      BY <1>2, <1>5 DEF Ind, Phases, Touched
    <2>3. cmd.name = "pin" => cmd.version # Unknown
      BY <1>2 DEF Ind, Phases
    <2>4. QED
      BY <1>2, <1>5, <1>10, <2>1, <2>2, <2>3 DEF Ind, Phases
  <1>12. Made'
    <2> SUFFICES ASSUME NEW q \in cmd.built \cup {p}
                 PROVE  /\ cmd.name # "remove" => disk'[q] # Unknown
                        /\ told \in {Unknown, disk'[q]}
                        /\ cmd.name \in {"pin", "rollback"} /\ cmd.version # Query =>
                               disk'[q] = cmd.version
      BY <1>5 DEF Made
    <2>1. CASE q = p
      BY <1>3, <1>4, <1>5, <1>6, <2>1 DEF TypeOK
    <2>2. CASE q # p
      <3>1. q \in Plugins /\ q \in cmd.built
        BY <1>3, <2>2 DEF TypeOK, Commands
      <3>2. disk'[q] = disk[q]
        BY <1>6, <2>2, <3>1
      <3>3. told = Unknown
        BY <1>2, <1>5, <3>1 DEF Ind, Phases
      <3>4. QED
        BY <3>1, <3>2, <3>3 DEF Ind, Made
    <2>3. QED
      BY <2>1, <2>2
  <1>13. Foreseen'
    BY <1>2, <1>5, <1>10 DEF Ind, Foreseen
  <1>14. QED
    BY <1>7, <1>8, <1>9, <1>11, <1>12, <1>13 DEF Ind

\* A command that ends without another word.
LEMMA EndInd ==
    ASSUME Ind, cmd' = Idle, at' = "idle", last' \in {last, Quiet},
           UNCHANGED <<published, rec, disk, behind, unread>>
    PROVE  Ind'
  <1>1. TypeOK'
    <2>1. Idle \in Commands /\ Quiet \in Reports
      BY DEF Idle, Quiet, Commands, Reports, Requests
    <2>2. QED
      BY <2>1 DEF Ind, TypeOK
  <1>2. VersionTruth' /\ HistorySound' /\ PinAgrees' /\ Reported'
    BY DEF Ind, VersionTruth, HistorySound, PinAgrees, Reported, Quiet
  <1>3. Phases' /\ Made' /\ Foreseen'
    BY DEF Phases, Made, Foreseen, Touched, Idle
  <1>4. QED
    BY <1>1, <1>2, <1>3 DEF Ind

\* A build that fails leaves its plugin out, and perhaps ends the command.
LEMMA BuildFailsInd == ASSUME Ind, NEW p \in Plugins, BuildFails(p) PROVE Ind'
  <1>1. CASE cmd' = Idle /\ at' = "idle"
    BY <1>1, EndInd DEF BuildFails
  <1>2. CASE cmd' = [cmd EXCEPT !.todo = cmd.todo \ {p}] /\ at' \in {"build", "save"}
    <2>1. /\ cmd'.name = cmd.name /\ cmd'.version = cmd.version /\ cmd'.told = cmd.told
          /\ cmd'.todo = cmd.todo \ {p} /\ cmd'.built = cmd.built /\ cmd' \in Commands
      BY <1>2 DEF Ind, TypeOK, Commands
    <2>2. at = "build" /\ p \in cmd.todo /\ UNCHANGED <<published, rec, disk, behind, unread, last>>
      BY DEF BuildFails
    <2>3. TypeOK'
      BY <1>2, <2>1, <2>2 DEF Ind, TypeOK
    <2>4. VersionTruth' /\ HistorySound' /\ PinAgrees' /\ Reported'
      BY <2>2 DEF Ind, VersionTruth, HistorySound, PinAgrees, Reported
    <2>5. Touched' \subseteq Touched
      BY <2>1 DEF Touched
    <2>6. cmd.name = "pin" => cmd'.todo = {}
      BY <2>1, <2>2 DEF Ind, Phases, Touched
    <2>7. Phases'
      BY <1>2, <2>1, <2>2, <2>5, <2>6 DEF Ind, Phases
    <2>8. Made' /\ Foreseen'
      BY <1>2, <2>1, <2>2, <2>5 DEF Ind, Made, Foreseen
    <2>9. QED
      BY <2>3, <2>4, <2>7, <2>8 DEF Ind
  <1>3. QED
    BY <1>1, <1>2 DEF BuildFails

\* A release touches the marketplace only.
LEMMA PublishInd == ASSUME Ind, NEW p \in Plugins, Publish(p) PROVE Ind'
  <1>1. published[p] + 1 \in Versions
    BY VersionsAssumption DEF Publish, Ind, TypeOK, Versions
  <1>2. published' \in [Plugins -> Versions] /\ UNCHANGED <<rec, disk, behind, unread, cmd, at, last>>
    BY <1>1 DEF Publish, Ind, TypeOK
  <1>3. TypeOK'
    BY <1>2 DEF Ind, TypeOK
  <1>4. VersionTruth' /\ HistorySound' /\ PinAgrees' /\ Reported'
    BY <1>2 DEF Ind, VersionTruth, HistorySound, PinAgrees, Reported
  <1>5. Phases' /\ Made' /\ Foreseen'
    BY <1>2 DEF Ind, Phases, Made, Foreseen, Touched
  <1>6. QED
    BY <1>3, <1>4, <1>5 DEF Ind

\* A killed command leaves records and binaries as they are.
LEMMA CrashInd == ASSUME Ind, Crash PROVE Ind'
  BY EndInd DEF Crash

\* After a torn write there are no records for the properties to be about.
LEMMA TornInd == ASSUME Ind, Torn PROVE Ind'
  <1>1. /\ \A p \in Plugins : rec'[p] = NoRecord
        /\ rec' \in [Plugins -> Records] /\ cmd' = Idle /\ at' = "idle" /\ last' = Quiet
        /\ UNCHANGED <<published, disk>>
        /\ behind' \in [Plugins -> BOOLEAN] /\ unread' \in [Plugins -> BOOLEAN]
    BY DEF Torn, NoRecords, NoRecord, Records, Requests
  <1>2. TypeOK'
    BY <1>1 DEF Ind, TypeOK, Idle, Quiet, Commands, Reports, Requests
  <1>3. VersionTruth' /\ HistorySound' /\ PinAgrees' /\ Reported'
    BY <1>1 DEF VersionTruth, HistorySound, PinAgrees, Reported, Quiet, NoRecord
  <1>4. Phases' /\ Made' /\ Foreseen'
    BY <1>1 DEF Phases, Made, Foreseen, Touched, Idle
  <1>5. QED
    BY <1>2, <1>3, <1>4 DEF Ind

(***************************************************************************)
(* The record is written.                                                  *)
(***************************************************************************)
\* The fields of a record the versions are written to.
LEMMA VersionedFields ==
    ASSUME NEW r \in Records, NEW v \in Versions \cup {Unknown}
    PROVE  /\ Versioned(r, v) \in Records
           /\ Versioned(r, v).pinned = r.pinned
           /\ Versioned(r, v).version = IF v = Unknown THEN r.version ELSE v
           /\ Versioned(r, v).previous =
                 IF v = Unknown \/ r.version \in {Unknown, v} THEN r.previous ELSE r.version
  <1>1. CASE v = Unknown
    BY <1>1 DEF Versioned
  <1>2. CASE v # Unknown
    <2> DEFINE prev == IF r.version \in {Unknown, v} THEN r.previous ELSE r.version
    <2>1. Versioned(r, v) = [r EXCEPT !.version = v, !.previous = prev]
      BY <1>2 DEF Versioned
    <2>2. prev \in Versions \cup {Unknown} /\ v \in Versions
      BY <1>2 DEF Records
    <2> HIDE DEF prev
    <2>3. [r EXCEPT !.version = v, !.previous = prev] \in Records
      BY <2>2 DEF Records
    <2>4. /\ [r EXCEPT !.version = v, !.previous = prev].version = v
          /\ [r EXCEPT !.version = v, !.previous = prev].previous = prev
          /\ [r EXCEPT !.version = v, !.previous = prev].pinned = r.pinned
      BY DEF Records
    <2>5. QED
      BY <1>2, <2>1, <2>3, <2>4 DEF prev
  <1>3. QED
    BY <1>1, <1>2

\* The version written is that of the binary, or none; a rollback always writes one.
LEMMA VersionMadeIs ==
    ASSUME Ind
    PROVE  /\ VersionMade \in Versions \cup {Unknown}
           /\ \A p \in cmd.built : cmd.name # "remove" => VersionMade \in {Unknown, disk[p]}
           /\ \A p \in cmd.built :
                 cmd.name = "rollback" => VersionMade = cmd.version /\ disk[p] = cmd.version
           /\ cmd.name = "rollback" => VersionMade \in Versions
  <1>1. cmd.told \in Versions \cup {Unknown} /\ (cmd.name = "rollback" => cmd.version \in Versions)
    BY DEF Ind, TypeOK, Commands, Phases
  <1>2. Query \notin Versions /\ Unknown \notin Versions
    BY VersionsAssumption DEF Query, Versions, Unknown
  <1>3. ASSUME NEW p \in cmd.built
        PROVE  /\ cmd.told \in {Unknown, disk[p]}
               /\ cmd.name = "rollback" => disk[p] = cmd.version
    BY <1>1, <1>2 DEF Ind, Made
  <1>4. QED
    BY <1>1, <1>2, <1>3 DEF VersionMade, Ind, Made

\* What writeState leaves of a plugin whose binary was made.
LEMMA RecordedFields ==
    ASSUME TypeOK, NEW p \in Plugins, cmd.name # "remove", VersionMade \in Versions \cup {Unknown}
    PROVE  /\ Recorded(p) \in Records /\ Recorded(p).installed
           /\ Recorded(p).kind = Kind(disk[p])
           /\ Recorded(p).pinned = rec[p].pinned
           /\ Recorded(p).version = IF VersionMade = Unknown THEN rec[p].version ELSE VersionMade
           /\ Recorded(p).previous =
                 IF cmd.name = "rollback" THEN rec[p].version
                 ELSE IF VersionMade = Unknown \/ rec[p].version \in {Unknown, VersionMade}
                      THEN rec[p].previous ELSE rec[p].version
  <1> DEFINE r == Versioned(rec[p], VersionMade)
             prev == IF cmd.name = "rollback" THEN rec[p].version ELSE r.previous
             kind == Kind(disk[p])
             new == [r EXCEPT !.installed = TRUE, !.kind = kind, !.previous = prev]
  <1>1. rec[p] \in Records
    BY DEF TypeOK
  <1>2. /\ r \in Records /\ r.pinned = rec[p].pinned
        /\ r.version = IF VersionMade = Unknown THEN rec[p].version ELSE VersionMade
        /\ r.previous = IF VersionMade = Unknown \/ rec[p].version \in {Unknown, VersionMade}
                        THEN rec[p].previous ELSE rec[p].version
    BY <1>1, VersionedFields
  <1>3. Recorded(p) = new
    BY DEF Recorded
  <1>4. kind \in {"local_build", "go_install"}
    BY DEF Kind
  <1>5. prev \in Versions \cup {Unknown}
    BY <1>1, <1>2 DEF Records
  <1>6. prev = IF cmd.name = "rollback" THEN rec[p].version
               ELSE IF VersionMade = Unknown \/ rec[p].version \in {Unknown, VersionMade}
                    THEN rec[p].previous ELSE rec[p].version
    BY <1>2
  <1>7. kind = Kind(disk[p])
    OBVIOUS
  <1> HIDE DEF r, prev, kind
  <1>8. /\ new \in Records /\ new.installed /\ new.kind = kind /\ new.previous = prev
        /\ new.pinned = r.pinned /\ new.version = r.version
    BY <1>2, <1>4, <1>5 DEF Records
  <1> HIDE DEF new
  <1>9. QED
    BY <1>2, <1>3, <1>6, <1>7, <1>8

\* The same for any plugin, as Save leaves it.
LEMMA SavedFields ==
    ASSUME Ind, Save, NEW p \in Plugins
    PROVE  /\ p \notin cmd.built => rec'[p] = rec[p]
           /\ p \in cmd.built /\ cmd.name = "remove" => rec'[p] = NoRecord
           /\ p \in cmd.built /\ cmd.name # "remove" =>
                /\ rec'[p] \in Records /\ rec'[p].installed
                /\ rec'[p].kind = Kind(disk[p])
                /\ rec'[p].pinned = rec[p].pinned
                /\ rec'[p].version = IF VersionMade = Unknown THEN rec[p].version
                                                              ELSE VersionMade
                /\ rec'[p].previous =
                     IF cmd.name = "rollback" THEN rec[p].version
                     ELSE IF VersionMade = Unknown \/ rec[p].version \in {Unknown, VersionMade}
                          THEN rec[p].previous ELSE rec[p].version
  <1>1. rec' = [q \in Plugins |-> IF q \in cmd.built THEN Recorded(q) ELSE rec[q]]
    BY DEF Save
  <1>2. rec'[p] = IF p \in cmd.built THEN Recorded(p) ELSE rec[p]
    BY <1>1
  <1>3. cmd.name = "remove" => Recorded(p) = NoRecord
    BY DEF Recorded
  <1>4. VersionMade \in Versions \cup {Unknown}
    BY VersionMadeIs
  <1>5. QED
    BY <1>2, <1>3, <1>4, RecordedFields DEF Ind

\* Records catch up with the binaries that were made.
LEMMA SaveInd == ASSUME Ind, Save PROVE Ind'
  <1>1. /\ at = "save"
        /\ behind' = [p \in Plugins |-> behind[p] /\ p \notin cmd.built]
        /\ unread' = [p \in Plugins |-> IF p \in cmd.built THEN Unread(p) ELSE unread[p]]
        /\ \/ cmd.name = "pin" /\ cmd' = cmd /\ at' = "pin"
           \/ /\ cmd.name # "pin" /\ at' = "build"
              /\ cmd' = [cmd EXCEPT !.built = {}, !.told = Unknown]
           \/ cmd.name # "pin" /\ cmd' = Idle /\ at' = "idle"
        /\ UNCHANGED <<published, disk>>
    BY DEF Save
  <1>2. \/ cmd.name # "rollback" /\ last' = last
        \/ /\ cmd.name = "rollback"
           /\ \E p \in cmd.built :
                 last' = [name |-> "rollback", plugins |-> {p}, from |-> rec[p].version,
                          to |-> VersionMade, made |-> TRUE]
    BY DEF Save
  <1>3. /\ cmd.todo \subseteq Plugins /\ cmd.built \subseteq Plugins
        /\ cmd.todo \cap cmd.built = {} /\ rec \in [Plugins -> Records]
        /\ cmd.version \in Requests /\ Local \notin Versions /\ Unknown \notin Versions
        /\ Query \notin Versions /\ Query # Unknown
    BY VersionsAssumption DEF Ind, TypeOK, Phases, Local, Versions, Unknown, Query, Commands
  <1>4. ASSUME NEW p \in cmd.built, cmd.name = "rollback"
        PROVE  /\ VersionMade = disk[p] /\ disk[p] \in Versions /\ p \in Plugins
               /\ rec[p].previous = disk[p]
               /\ rec[p].version \notin {Unknown, disk[p]}
    <2>1. VersionMade = disk[p] /\ disk[p] \in Versions /\ rec[p].previous = cmd.version
          /\ disk[p] = cmd.version
      BY <1>1, <1>4, VersionMadeIs DEF Ind, Foreseen, Touched
    <2>2. QED
      BY <1>3, <2>1 DEF Ind, HistorySound
  <1>5. \/ cmd'.todo = {} /\ cmd'.built = {} /\ cmd'.name = "none" /\ at' = "idle" /\ cmd' = Idle
        \/ /\ cmd'.todo = cmd.todo /\ cmd'.built \in {{}, cmd.built} /\ cmd'.name = cmd.name
           /\ cmd'.version = cmd.version /\ at' \in {"build", "pin"}
           /\ cmd.name = "pin" <=> at' = "pin"
           /\ cmd.name # "pin" => cmd'.built = {} /\ cmd'.told = Unknown
           /\ cmd.name = "pin" => cmd'.told = cmd.told /\ cmd'.built = cmd.built
    <2>1. cmd \in Commands
      BY DEF Ind, TypeOK
    <2>2. CASE cmd.name # "pin" /\ at' = "build" /\ cmd' = [cmd EXCEPT !.built = {}, !.told = Unknown]
      BY <2>1, <2>2 DEF Commands
    <2>3. CASE cmd' = Idle /\ at' = "idle"
      BY <2>3 DEF Idle
    <2>4. CASE cmd.name = "pin" /\ cmd' = cmd /\ at' = "pin"
      BY <2>4
    <2>5. QED
      BY <1>1, <2>2, <2>3, <2>4
  <1>6. TypeOK'
    <2>1. rec' \in [Plugins -> Records]
      <3>1. \A p \in Plugins : rec'[p] \in Records
        <4> TAKE p \in Plugins
        <4>1. NoRecord \in Records
          BY DEF Records, NoRecord, Requests
        <4>2. rec[p] \in Records
          BY <1>3
        <4>3. QED
          BY <4>1, <4>2, SavedFields
      <3>2. rec' = [p \in Plugins |-> IF p \in cmd.built THEN Recorded(p) ELSE rec[p]]
        BY DEF Save
      <3>3. QED
        BY <3>1, <3>2
    <2>2. \A p \in Plugins : ~rec'[p].installed => rec'[p] = NoRecord
      BY SavedFields DEF Ind, TypeOK
    <2>3. behind' \in [Plugins -> BOOLEAN]
      BY <1>1 DEF Ind, TypeOK
    <2>4. unread' \in [Plugins -> BOOLEAN]
      <3>1. \A p \in Plugins : Unread(p) \in BOOLEAN
        BY DEF Unread
      <3>2. QED
        BY <1>1, <3>1 DEF Ind, TypeOK
    <2>5. cmd' \in Commands
      <3>1. CASE cmd' = cmd
        BY <3>1 DEF Ind, TypeOK
      <3>2. CASE cmd' = [cmd EXCEPT !.built = {}, !.told = Unknown]
        BY <3>2 DEF Ind, TypeOK, Commands
      <3>3. CASE cmd' = Idle
        BY <3>3 DEF Idle, Commands, Requests
      <3>4. QED
        BY <1>1, <3>1, <3>2, <3>3
    <2>6. last' \in Reports
      <3>1. CASE last' = last
        BY <3>1 DEF Ind, TypeOK
      <3>2. ASSUME NEW p \in cmd.built, cmd.name = "rollback",
                   last' = [name |-> "rollback", plugins |-> {p}, from |-> rec[p].version,
                            to |-> VersionMade, made |-> TRUE]
            PROVE  last' \in Reports
        <4>1. p \in Plugins /\ rec[p].version \in Requests /\ VersionMade \in Requests
          BY <1>3, <1>4, <3>2 DEF Records, Requests
        <4>2. QED
          BY <3>2, <4>1 DEF Reports
      <3>3. QED
        BY <1>2, <3>1, <3>2
    <2>7. QED
      BY <1>1, <2>1, <2>2, <2>3, <2>4, <2>5, <2>6 DEF Ind, TypeOK
  <1>7. VersionTruth'
    <2> SUFFICES ASSUME NEW p \in Plugins, rec'[p].installed /\ ~behind'[p]
                 PROVE  /\ rec'[p].kind = Kind(disk[p])
                        /\ rec'[p].kind = "go_install" /\ ~unread'[p] => rec'[p].version = disk[p]
      BY <1>1 DEF VersionTruth, Kind
    <2>1. CASE p \in cmd.built
      <3>1. cmd.name # "remove"
        BY <2>1, SavedFields DEF NoRecord
      <3>2. rec'[p].kind = Kind(disk[p])
        BY <2>1, <3>1, SavedFields
      <3>3. ASSUME rec'[p].kind = "go_install", ~unread'[p] PROVE rec'[p].version = disk[p]
        <4>1. unread'[p] = Unread(p)
          BY <1>1, <2>1, Zenon
        <4>2. disk[p] \in Versions
          BY <1>3, <2>1, <3>1, <3>2, <3>3 DEF Kind, Ind, Made, TypeOK
        <4>3. VersionMade # Unknown
          BY <3>3, <4>1, <4>2 DEF Unread
        <4>4. VersionMade = disk[p]
          BY <2>1, <3>1, <4>3, VersionMadeIs
        <4>5. QED
          BY <2>1, <3>1, <4>3, <4>4, SavedFields
      <3>4. QED
        BY <3>2, <3>3
    <2>2. CASE p \notin cmd.built
      <3>1. ~behind[p] /\ unread'[p] = unread[p]
        BY <1>1, <2>2, Zenon
      <3>2. rec'[p] = rec[p]
        BY <2>2, SavedFields
      <3>3. QED
        BY <3>1, <3>2 DEF Ind, VersionTruth
    <2>3. QED
      BY <2>1, <2>2
  <1>8. HistorySound'
    <2> SUFFICES ASSUME NEW p \in Plugins, rec'[p].previous # Unknown
                 PROVE  rec'[p].version \notin {Unknown, rec'[p].previous}
      BY DEF HistorySound
    <2>1. rec[p].previous # Unknown => rec[p].version \notin {Unknown, rec[p].previous}
      BY DEF Ind, HistorySound
    <2>2. CASE p \notin cmd.built
      BY <2>1, <2>2, SavedFields
    <2>3. CASE p \in cmd.built /\ cmd.name = "remove"
      BY <2>3, SavedFields DEF NoRecord
    <2>4. CASE p \in cmd.built /\ cmd.name = "rollback"
      <3>1. /\ VersionMade = disk[p] /\ disk[p] \in Versions
            /\ rec[p].version \notin {Unknown, disk[p]}
        BY <1>4, <2>4
      <3>2. VersionMade # Unknown
        BY <1>3, <3>1
      <3>3. rec'[p].version = disk[p] /\ rec'[p].previous = rec[p].version
        BY <2>4, <3>1, <3>2, SavedFields
      <3>4. QED
        BY <3>1, <3>2, <3>3
    <2>5. CASE p \in cmd.built /\ cmd.name \notin {"remove", "rollback"}
      BY <2>1, <2>5, SavedFields
    <2>6. QED
      BY <2>2, <2>3, <2>4, <2>5
  <1>9. PinAgrees'
    BY <1>1, <1>2 DEF Ind, PinAgrees, Phases
  <1>10. Reported'
    <2>1. CASE cmd.name # "rollback"
      BY <1>1, <1>2, <2>1 DEF Ind, Reported, Phases
    <2>2. CASE cmd.name = "rollback"
      <3>1. PICK p \in cmd.built :
                    last' = [name |-> "rollback", plugins |-> {p}, from |-> rec[p].version,
                             to |-> VersionMade, made |-> TRUE]
        BY <1>2, <2>2
      <3>2. VersionMade # Unknown /\ p \in Plugins
        BY <1>3, <1>4, <2>2
      <3>3. rec'[p].version = VersionMade /\ rec'[p].previous = rec[p].version
        BY <2>2, <3>2, SavedFields
      <3>4. QED
        BY <3>1, <3>3 DEF Reported
    <2>3. QED
      BY <2>1, <2>2
  <1>11. Phases'
    <2>1. at # "idle" /\ cmd.name # "rollback" => last.name = "none"
      BY DEF Ind, Phases
    <2>2. /\ at' # "idle" /\ cmd'.name # "rollback" => last'.name = "none"
          /\ last'.name # "pin"
      BY <1>1, <1>2, <1>5, <2>1 DEF Ind, Phases
    <2>3. cmd'.todo \cap cmd'.built = {}
      BY <1>3, <1>5
    <2>4. cmd'.name = "rollback" => cmd'.version \in Versions
      BY <1>5 DEF Ind, Phases
    <2>5. QED
      BY <1>1, <1>5, <2>2, <2>3, <2>4 DEF Ind, Phases, Touched
  <1>12. Made'
    BY <1>1, <1>5 DEF Ind, Made, Idle
  <1>13. Foreseen'
    <2> SUFFICES ASSUME NEW p \in Touched'
                 PROVE  /\ cmd'.name = "rollback" => rec'[p].previous = cmd'.version
                        /\ cmd'.name \in {"upgrade", "rollback"} => rec'[p].pinned = Unknown
                        /\ at' = "pin" =>
                              /\ rec'[p].installed
                              /\ \/ cmd'.version \in {Unknown, Query, rec'[p].version}
                                 \/ p \in cmd'.built /\ unread'[p]
      BY DEF Foreseen
    <2>1. CASE at' = "idle"
      BY <1>5, <2>1 DEF Touched
    <2>2. CASE at' = "build"
      <3>1. p \in cmd.todo /\ p \in Plugins /\ rec'[p] = rec[p]
        BY <1>3, <1>5, <2>2, SavedFields DEF Touched
      <3>2. QED
        BY <1>5, <2>2, <3>1 DEF Ind, Foreseen, Touched
    <2>3. CASE at' = "pin"
      <3>1. cmd.name = "pin" /\ cmd.todo = {} /\ cmd.version # Unknown
        BY <1>1, <1>5, <2>3 DEF Ind, Phases
      <3>2. p \in cmd.built /\ p \in Plugins /\ (cmd.version # Query => disk[p] = cmd.version)
        BY <1>3, <1>5, <2>3, <3>1 DEF Ind, Made, Touched
      <3>3. rec'[p].installed
        BY <1>3, <3>1, <3>2, SavedFields
      <3>4. unread'[p] = Unread(p)
        BY <1>1, <3>2, Zenon
      <3>5. ASSUME cmd.version # Query, ~unread'[p] PROVE rec'[p].version = cmd.version
        <4>1. disk[p] = cmd.version /\ disk[p] \in Versions
          BY <1>3, <3>1, <3>2, <3>5 DEF Requests
        <4>2. VersionMade # Unknown
          BY <3>4, <3>5, <4>1 DEF Unread
        <4>3. VersionMade = disk[p]
          BY <3>1, <3>2, <4>2, VersionMadeIs
        <4>4. QED
          BY <3>1, <3>2, <4>1, <4>2, <4>3, SavedFields
      <3>6. QED
        BY <1>5, <2>3, <3>1, <3>2, <3>3, <3>5
    <2>4. QED
      BY <1>5, <2>1, <2>2, <2>3
  <1>14. QED
    BY <1>6, <1>7, <1>8, <1>9, <1>10, <1>11, <1>12, <1>13 DEF Ind

\* The hold is recorded after the version it names.
LEMMA PinPluginInd == ASSUME Ind, NEW p \in Plugins, PinPlugin(p) PROVE Ind'
  <1> DEFINE held == IF cmd.version # Unknown THEN cmd.version ELSE rec[p].version
             made == p \in cmd.built
  <1>1. /\ at = "pin" /\ p \in Touched
        /\ rec' = [rec EXCEPT ![p].pinned = held]
        /\ last' = [name |-> "pin", plugins |-> {p}, from |-> cmd.version, to |-> held,
                    made |-> made]
        /\ cmd' = Idle /\ at' = "idle"
        /\ UNCHANGED <<published, disk, behind, unread>>
    BY DEF PinPlugin, Touched
  <1>2. rec[p] \in Records /\ rec[p].installed /\ cmd.version \in Requests
    BY <1>1 DEF Ind, TypeOK, Commands, Foreseen
  <1>3. held \in Requests /\ made \in BOOLEAN
    BY <1>2 DEF Records, Requests
  <1>4. held # Query =>
           /\ made => disk[p] = held
           /\ (made /\ unread[p]) \/ rec[p].version = held
    <2>1. made => cmd.version # Unknown /\ cmd.name = "pin"
      BY <1>1 DEF Ind, Phases
    <2>2. \/ cmd.version \in {Unknown, Query, rec[p].version}
          \/ made /\ unread[p]
      BY <1>1 DEF Ind, Foreseen
    <2>3. made /\ cmd.version # Query => disk[p] = cmd.version
      BY <2>1 DEF Ind, Made
    <2>4. QED
      BY <2>1, <2>2, <2>3
  <1> DEFINE r == [rec[p] EXCEPT !.pinned = held]
  <1>5. rec' = [rec EXCEPT ![p] = r]
    BY <1>1
  <1> HIDE DEF held, made
  <1>6. /\ r \in Records /\ r.installed /\ r.version = rec[p].version
        /\ r.previous = rec[p].previous /\ r.kind = rec[p].kind
    BY <1>2, <1>3 DEF Records
  <1> HIDE DEF r
  <1>7. \A q \in Plugins : rec'[q] = IF q = p THEN r ELSE rec[q]
    BY <1>5 DEF Ind, TypeOK
  <1>8. TypeOK'
    <2>1. rec' \in [Plugins -> Records]
      BY <1>5, <1>6 DEF Ind, TypeOK
    <2>2. \A q \in Plugins : ~rec'[q].installed => rec'[q] = NoRecord
      BY <1>6, <1>7 DEF Ind, TypeOK
    <2>3. cmd' \in Commands
      BY <1>1 DEF Idle, Commands, Requests
    <2>4. last' \in Reports
      BY <1>1, <1>2, <1>3 DEF Reports
    <2>5. QED
      BY <1>1, <2>1, <2>2, <2>3, <2>4 DEF Ind, TypeOK
  <1>9. VersionTruth' /\ HistorySound'
    BY <1>1, <1>2, <1>6, <1>7 DEF Ind, VersionTruth, HistorySound
  <1>10. PinAgrees' /\ Reported'
    BY <1>1, <1>4, <1>6, <1>7 DEF PinAgrees, Reported
  <1>11. Phases' /\ Made' /\ Foreseen'
    BY <1>1 DEF Phases, Made, Foreseen, Touched, Idle
  <1>12. QED
    BY <1>8, <1>9, <1>10, <1>11 DEF Ind

(***************************************************************************)
(* The invariant, and the action properties that follow from it.           *)
(***************************************************************************)
\* Every step keeps the invariant.
LEMMA NextInd == ASSUME Ind, Next PROVE Ind'
  <1>1. ASSUME NEW p \in Plugins, Command(p) PROVE Ind'
    BY <1>1, InstallInd, PinInd, UpdateInd, RollbackInd, RemoveInd, UnpinInd DEF Command
  <1>2. ASSUME NEW p \in Plugins,
               Build(p) \/ BuildFails(p) \/ PinPlugin(p) \/ Publish(p)
        PROVE  Ind'
    BY <1>2, BuildInd, BuildFailsInd, PinPluginInd, PublishInd
  <1>3. ASSUME NEW ps \in SUBSET Plugins \ {{}}, Sync(ps) PROVE Ind'
    BY <1>3, SyncInd
  <1>4. QED
    BY <1>1, <1>2, <1>3, UpgradeInd, SaveInd, CrashInd, TornInd DEF Next

\* So does a step of somebody else.
LEMMA StutterInd == ASSUME Ind, UNCHANGED vars PROVE Ind'
  <1>1. TypeOK' /\ VersionTruth' /\ HistorySound' /\ PinAgrees'
    BY DEF Ind, vars, TypeOK, VersionTruth, HistorySound, PinAgrees
  <1>2. Phases' /\ Made' /\ Foreseen' /\ Reported'
    BY DEF Ind, vars, Phases, Made, Foreseen, Reported, Touched
  <1>3. QED
    BY <1>1, <1>2 DEF Ind

\* The invariant the properties below follow from: types, the three properties of
\* the records, and what a command knows between its steps.
THEOREM Invariance == Spec => []Ind
  <1>1. Ind /\ [Next]_vars => Ind'
    BY NextInd, StutterInd
  <1>2. QED
    BY <1>1, InitInd, PTL DEF Spec

\* Records, binaries and commands have their types; the record of a plugin that
\* is not installed is blank.
THEOREM TypeCorrect == Spec => []TypeOK
  <1>1. Ind => TypeOK
    BY DEF Ind
  <1>2. QED
    BY <1>1, Invariance, PTL

\* The record of a plugin tells what binary there is: its kind, unless a command was
\* killed before it wrote, and its version, unless it could not be read off the binary
\* (InstallPlugin, UpdatePlugin, RollbackPlugin, SyncLocalPlugins), however many plugins
\* and versions there are.
THEOREM VersionTruthTheorem == Spec => []VersionTruth
  <1>1. Ind => VersionTruth
    BY DEF Ind
  <1>2. QED
    BY <1>1, Invariance, PTL

\* The previous version in a record is one a rollback can go back to, and is not
\* the installed one (InstallPlugin, UpdatePlugin, RollbackPlugin).
THEOREM HistoryTheorem == Spec => []HistorySound
  <1>1. Ind => HistorySound
    BY DEF Ind
  <1>2. QED
    BY <1>1, Invariance, PTL

\* A pin to a version leaves that version if it installed, and on record unless it could
\* not be read off the binary (cli/pin.go, PinPlugin).
THEOREM PinTheorem == Spec => []PinAgrees
  <1>1. Ind => PinAgrees
    BY DEF Ind
  <1>2. QED
    BY <1>1, Invariance, PTL

\* A step of an upgrade or a rollback leaves pinned plugins alone, but for a torn write:
\* the pins it read when it started are still there when it builds and when it writes.
THEOREM PinHoldsTheorem == Spec => PinHolds
  <1>1. ASSUME Ind, Next, NEW p \in Plugins, rec[p].pinned # Unknown,
               cmd.name \in {"upgrade", "rollback"}
        PROVE  disk'[p] = disk[p] /\ (rec'[p] = rec[p] \/ rec' = NoRecords)
    <2>1. p \notin cmd.todo /\ p \notin cmd.built /\ at # "idle" /\ at # "pin"
      BY <1>1 DEF Ind, Foreseen, Touched, Phases, Idle
    <2>2. CASE Save
      BY <1>1, <2>1, <2>2, SavedFields DEF Save
    <2>3. ASSUME NEW q \in Plugins, Build(q) PROVE disk'[p] = disk[p] /\ rec' = rec
      <3>1. q # p
        BY <2>1, <2>3 DEF Build
      <3>2. QED
        BY <1>1, <2>3, <3>1 DEF Build, Ind, TypeOK
    <2>4. ASSUME NEW q \in Plugins, BuildFails(q) \/ Publish(q)
          PROVE  disk' = disk /\ rec' = rec
      BY <2>4 DEF BuildFails, Publish
    <2>5. CASE Crash \/ Torn
      BY <2>5 DEF Crash, Torn
    <2>6. ASSUME NEW q \in Plugins PROVE ~PinPlugin(q) /\ ~Command(q)
      BY <2>1 DEF PinPlugin, Command, Install, Pin, Update, Rollback, Remove, Unpin, Begin
    <2>7. ~Upgrade /\ \A ps \in SUBSET Plugins \ {{}} : ~Sync(ps)
      BY <2>1 DEF Upgrade, Sync, Begin
    <2>8. QED
      BY <1>1, <2>2, <2>3, <2>4, <2>5, <2>6, <2>7 DEF Next
  <1>2. Ind /\ [Next]_vars =>
           [\A p \in Plugins :
               rec[p].pinned # Unknown /\ cmd.name \in {"upgrade", "rollback"} =>
                   disk'[p] = disk[p] /\ (rec'[p] = rec[p] \/ rec' = NoRecords)]_vars
    BY <1>1
  <1>3. QED
    BY <1>2, Invariance, PTL DEF Spec, PinHolds

\* Rolling back twice installs the version on record before the first and restores the
\* history, whatever is published between the two (RollbackPlugin).
THEOREM RoundTripTheorem == Spec => RollbackRoundTrips
  <1>1. ASSUME Ind, Next, NEW p \in Plugins, last.name = "rollback", last' # last,
               last'.name = "rollback", last.plugins = {p}, last'.plugins = {p}
        PROVE  /\ last'.to = last.from
               /\ disk'[p] = last.from
               /\ rec'[p].version = last.from /\ rec'[p].previous = last.to
    <2>1. Save
      <3>1. ASSUME NEW q \in Plugins PROVE ~(Build(q) \/ BuildFails(q) \/ Publish(q))
        BY <1>1 DEF Build, BuildFails, Publish
      <3>2. ASSUME NEW q \in Plugins PROVE ~PinPlugin(q) /\ ~Unpin(q)
        BY <1>1 DEF PinPlugin, Unpin, Quiet
      <3>3. ASSUME NEW name, NEW ps, NEW v, NEW where PROVE ~Begin(name, ps, v, where)
        BY <1>1 DEF Begin, Quiet
      <3>4. ASSUME NEW q \in Plugins
            PROVE  /\ ~Update(q) /\ ~Rollback(q) /\ ~Remove(q)
                   /\ \A v \in Requests : ~Install(q, v) /\ ~Pin(q, v)
        BY <3>3 DEF Update, Rollback, Remove, Install, Pin
      <3>5. ~Upgrade /\ \A ps \in SUBSET Plugins \ {{}} : ~Sync(ps)
        BY <3>3 DEF Upgrade, Sync
      <3>6. ~Crash /\ ~Torn
        BY <1>1 DEF Crash, Torn, Quiet
      <3>7. QED
        BY <3>1, <3>2, <3>4, <3>5, <3>6, <1>1 DEF Next, Command
    <2>2. PICK q \in cmd.built :
                  last' = [name |-> "rollback", plugins |-> {q}, from |-> rec[q].version,
                           to |-> VersionMade, made |-> TRUE]
      BY <1>1, <2>1 DEF Save
    <2>3. q = p /\ cmd.name = "rollback"
      BY <1>1, <2>1, <2>2 DEF Save
    <2>4. /\ rec[p].version = last.to /\ rec[p].previous = last.from
          /\ VersionMade = cmd.version /\ disk[p] = cmd.version /\ rec[p].previous = cmd.version
      BY <1>1, <2>2, <2>3, VersionMadeIs DEF Ind, Reported, Foreseen, Touched
    <2>5. VersionMade # Unknown
      BY <1>1, <2>3, VersionMadeIs, VersionsAssumption DEF Versions, Unknown
    <2>6. rec'[p].version = VersionMade /\ rec'[p].previous = rec[p].version
      BY <1>1, <2>1, <2>2, <2>3, <2>5, SavedFields
    <2>7. QED
      BY <2>1, <2>2, <2>3, <2>4, <2>6 DEF Save
  <1>2. Ind /\ [Next]_vars =>
           [\A p \in Plugins :
               last.name = "rollback" /\ last' # last /\ last'.name = "rollback"
               /\ last.plugins = {p} /\ last'.plugins = {p} =>
                   /\ last'.to = last.from
                   /\ disk'[p] = last.from
                   /\ rec'[p].version = last.from /\ rec'[p].previous = last.to]_vars
    BY <1>1
  <1>3. QED
    BY <1>2, Invariance, PTL DEF Spec, RollbackRoundTrips

=============================================================================
