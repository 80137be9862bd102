---------------------------- MODULE PluginVersions ----------------------------
(***************************************************************************)
(* Versions of marketplace plugins: install, update, upgrade, pin,         *)
(* rollback, dev sync, enable and remove, as the commands of cli/pin.go,   *)
(* cli/lifecycle.go and cli/cli.go compose them from the operations of     *)
(* management/local/local.go.  A command first replaces or removes the     *)
(* binary of a plugin and then writes its record; it can fail before, be   *)
(* killed between the two or in the midst of the write, and a batch goes   *)
(* on after a failure.  The version of an installed binary is read off it, *)
(* which may fail, too.                                                    *)
(*                                                                         *)
(* One command runs at a time.  Every plugin is published in the           *)
(* marketplace (go_install) and its binary has one path; a workspace with  *)
(* its source may be there or not, at every build.  Of a record, labels,   *)
(* configuration and enable and disable are left out.                      *)
(***************************************************************************)
EXTENDS Naturals

CONSTANTS Plugins,     \* the marketplace catalog
          MaxVersion   \* bound on the versions a plugin publishes

ASSUME VersionsAssumption == MaxVersion \in Nat \ {0}

VARIABLES
    published,  \* published[p]: its newest published version
    rec,        \* rec[p]: its record in the state file
    disk,       \* disk[p]: the version of its binary
    behind,     \* behind[p]: the binary changed and the record does not say so yet
    unread,     \* unread[p]: it was recorded without its version, which could not be read
    cmd,        \* the command that runs
    at,         \* how far it is
    last        \* what the last pin or rollback reported

vars == <<published, rec, disk, behind, unread, cmd, at, last>>
-----------------------------------------------------------------------------
Versions == 1 .. MaxVersion
Unknown == 0                  \* no version, or the empty string
Local == MaxVersion + 1       \* a build of the workspace, without a version
Query == MaxVersion + 2       \* latest, or a branch: it stands for the newest version
Requests == Versions \cup {Unknown, Query}

NoRecord == [installed |-> FALSE, version |-> Unknown, previous |-> Unknown,
             pinned |-> Unknown, kind |-> "none"]
NoRecords == [p \in Plugins |-> NoRecord]

Idle == [name |-> "none", todo |-> {}, built |-> {}, version |-> Unknown, told |-> Unknown]
Quiet == [name |-> "none", plugins |-> {}, from |-> Unknown, to |-> Unknown, made |-> FALSE]

Init ==
    /\ published = [p \in Plugins |-> 1]
    /\ rec = NoRecords
    /\ disk = [p \in Plugins |-> Unknown]
    /\ behind = [p \in Plugins |-> FALSE]
    /\ unread = [p \in Plugins |-> FALSE]
    /\ cmd = Idle
    /\ at = "idle"
    /\ last = Quiet
-----------------------------------------------------------------------------
(* The commands.                                                           *)

\* A command starts on the plugins ps; it may ask for version v.
Begin(name, ps, v, where) ==
    /\ at = "idle"
    /\ cmd' = [Idle EXCEPT !.name = name, !.todo = ps, !.version = v]
    /\ at' = where
    /\ last' = IF name = "rollback" /\ last.name = "rollback" THEN last ELSE Quiet
    /\ UNCHANGED <<published, rec, disk, behind, unread>>

\* install PLUGIN[@VERSION], with --force if it is installed.
Install(p, v) == Begin("install", {p}, v, "build")

\* update PLUGIN.
Update(p) == rec[p].installed /\ Begin("update", {p}, Unknown, "build")

\* upgrade and install --all, over the catalog; pins are read before the first
\* plugin is installed, and when that fails nothing counts as pinned.
Upgrade_All == Begin("upgrade", Plugins, Unknown, "build")
Upgrade ==
    \/ LET free == {p \in Plugins : rec[p].pinned = Unknown}
       IN  free # {} /\ Begin("upgrade", free, Unknown, "build")
    \/ Begin("upgrade_blind", Plugins, Unknown, "build")

\* pin PLUGIN[@VERSION]: a version other than the recorded one is installed
\* first, from the published source; so is one when the record cannot be read.
Pin_NoInstall(p, v) ==
    /\ v # Unknown \/ rec[p].version # Unknown
    /\ Begin("pin", {p}, v, "pin")
Pin(p, v) ==
    /\ v # Unknown \/ rec[p].version # Unknown
    /\ \/ v \in {Unknown, rec[p].version} /\ Begin("pin", {p}, v, "pin")
       \/ v # Unknown /\ Begin("pin", {p}, v, "build")

\* rollback PLUGIN, refused while the plugin is pinned.
Rollback(p) ==
    /\ rec[p].pinned = Unknown /\ rec[p].previous # Unknown
    /\ Begin("rollback", {p}, rec[p].previous, "build")

\* dev sync [PLUGIN...], whatever is pinned.
Sync(ps) ==
    /\ \A p \in ps : rec[p].installed
    /\ Begin("sync", ps, Unknown, "build")

\* remove PLUGIN.
Remove(p) == rec[p].installed /\ Begin("remove", {p}, Unknown, "build")

\* unpin PLUGIN writes the record at once.
Unpin(p) ==
    /\ at = "idle" /\ rec[p].installed
    /\ rec' = [rec EXCEPT ![p].pinned = Unknown]
    /\ last' = Quiet
    /\ UNCHANGED <<published, disk, behind, unread, cmd, at>>
-----------------------------------------------------------------------------
(* The binary: prepareMarketplaceRuntime, SyncLocalPlugins and             *)
(* removeOwnedArtifact.                                                    *)

Kind(v) == IF v = Local THEN "local_build" ELSE "go_install"

\* What may be made of p: nothing to remove it, the workspace's build for dev
\* sync, else the version asked for (which has to be published), a build of the
\* workspace if there is one, or the newest version (--remote rules the
\* former out).
Artifacts(p) ==
    IF cmd.name = "remove" THEN {Unknown}
    ELSE IF cmd.name = "sync" THEN {Local}
    ELSE IF cmd.version = Query THEN {published[p]}
    ELSE IF cmd.version # Unknown THEN {cmd.version} \cap (1 .. published[p])
    ELSE {published[p], Local}

\* What inspectInstalledModuleVersion tells of a binary: nothing of a local build, and
\* of an installed one its version if it can be read.
Told(v) == IF v \in Versions THEN {v, Unknown} ELSE {Unknown}

\* dev sync writes the records of all plugins together, after the last build.
Together == cmd.name = "sync"
AfterBuild(todo) == IF Together /\ todo # {} THEN "build" ELSE "save"

Build(p) ==
    /\ at = "build" /\ p \in cmd.todo
    /\ \E v \in Artifacts(p) :
          /\ disk' = [disk EXCEPT ![p] = v]
          /\ \E told \in Told(v) :
                cmd' = [cmd EXCEPT !.todo = @ \ {p}, !.built = @ \cup {p}, !.told = told]
    /\ behind' = [behind EXCEPT ![p] = TRUE]
    /\ unread' = [unread EXCEPT ![p] = FALSE]
    /\ at' = AfterBuild(cmd.todo \ {p})
    /\ UNCHANGED <<published, rec, last>>

\* The build fails and leaves the binary alone, or dev sync finds no workspace
\* for p; the plugins after p still have their turn.
BuildFails(p) ==
    /\ at = "build" /\ p \in cmd.todo
    /\ LET todo == cmd.todo \ {p}
       IN  IF todo # {} THEN cmd' = [cmd EXCEPT !.todo = todo] /\ at' = "build"
           ELSE IF cmd.built # {} THEN cmd' = [cmd EXCEPT !.todo = todo] /\ at' = "save"
           ELSE cmd' = Idle /\ at' = "idle"
    /\ UNCHANGED <<published, rec, disk, behind, unread, last>>
-----------------------------------------------------------------------------
(* The record: what each operation writes of the binary it made.           *)

\* Without a version the recorded one stays.  Another one replaces it, and becomes the
\* previous one.
Versioned_Always(r, v) ==
    IF v = Unknown THEN r ELSE [r EXCEPT !.version = v, !.previous = r.version]
Versioned(r, v) ==
    IF v = Unknown THEN r
    ELSE [r EXCEPT !.version = v,
                   !.previous = IF r.version \in {Unknown, v} THEN @ ELSE r.version]

\* What was read off the binary; RollbackPlugin makes up for it by what it asked for.
VersionMade == IF cmd.name = "rollback" /\ cmd.told = Unknown THEN cmd.version ELSE cmd.told
Unread(p) == disk[p] \in Versions /\ VersionMade = Unknown

\* RollbackPlugin swaps the two versions.
Recorded_KeepPrevious(p) ==
    IF cmd.name = "remove" THEN NoRecord
    ELSE [Versioned(rec[p], VersionMade) EXCEPT
             !.installed = TRUE,
             !.kind = Kind(disk[p]),
             !.previous = IF cmd.name = "rollback" THEN rec[p].previous ELSE @]
Recorded_KeepKind(p) ==
    IF cmd.name = "remove" THEN NoRecord
    ELSE [Versioned(rec[p], VersionMade) EXCEPT
             !.installed = TRUE,
             !.kind = IF rec[p].installed THEN @ ELSE Kind(disk[p]),
             !.previous = IF cmd.name = "rollback" THEN rec[p].version ELSE @]
Recorded(p) ==
    IF cmd.name = "remove" THEN NoRecord
    ELSE [Versioned(rec[p], VersionMade) EXCEPT
             !.installed = TRUE,
             !.kind = Kind(disk[p]),
             !.previous = IF cmd.name = "rollback" THEN rec[p].version ELSE @]

\* writeState; then a batch goes on, pin records the hold, and a rollback
\* reports where it came from.
Save ==
    /\ at = "save"
    /\ rec' = [p \in Plugins |-> IF p \in cmd.built THEN Recorded(p) ELSE rec[p]]
    /\ behind' = [p \in Plugins |-> behind[p] /\ p \notin cmd.built]
    /\ unread' = [p \in Plugins |-> IF p \in cmd.built THEN Unread(p) ELSE unread[p]]
    /\ IF cmd.name = "pin" THEN cmd' = cmd /\ at' = "pin"
       ELSE IF cmd.todo # {} THEN cmd' = [cmd EXCEPT !.built = {}, !.told = Unknown] /\ at' = "build"
       ELSE cmd' = Idle /\ at' = "idle"
    /\ \/ cmd.name # "rollback" /\ UNCHANGED last
       \/ /\ cmd.name = "rollback"
          /\ \E p \in cmd.built :
                last' = [name |-> "rollback", plugins |-> {p},
                         from |-> rec[p].version, to |-> VersionMade, made |-> TRUE]
    /\ UNCHANGED <<published, disk>>

\* PinPlugin holds the version asked for, or else the recorded one.
PinPlugin(p) ==
    /\ at = "pin" /\ p \in cmd.todo \cup cmd.built
    /\ LET held == IF cmd.version # Unknown THEN cmd.version ELSE rec[p].version
       IN  /\ rec' = [rec EXCEPT ![p].pinned = held]
           /\ last' = [name |-> "pin", plugins |-> {p}, from |-> cmd.version, to |-> held,
                       made |-> p \in cmd.built]
    /\ cmd' = Idle /\ at' = "idle"
    /\ UNCHANGED <<published, disk, behind, unread>>
-----------------------------------------------------------------------------
\* A release of p.
Publish(p) ==
    /\ published[p] < MaxVersion
    /\ published' = [published EXCEPT ![p] = @ + 1]
    /\ UNCHANGED <<rec, disk, behind, unread, cmd, at, last>>

\* The command is killed, or its write fails.
Crash ==
    /\ at # "idle"
    /\ cmd' = Idle /\ at' = "idle"
    /\ last' = Quiet
    /\ UNCHANGED <<published, rec, disk, behind, unread>>

\* A command is killed in the midst of writeState: the file was truncated first, and an
\* empty one is read as a state without plugins.
Torn ==
    /\ at # "build" /\ \E p \in Plugins : rec[p].installed
    /\ rec' = NoRecords
    /\ behind' = [p \in Plugins |-> FALSE] /\ unread' = [p \in Plugins |-> FALSE]
    /\ cmd' = Idle /\ at' = "idle"
    /\ last' = Quiet
    /\ UNCHANGED <<published, disk>>

Command(p) ==
    \/ \E v \in Requests : Install(p, v) \/ Pin(p, v)
    \/ Update(p) \/ Rollback(p) \/ Remove(p) \/ Unpin(p)

Next ==
    \/ \E p \in Plugins : Command(p) \/ Build(p) \/ BuildFails(p) \/ PinPlugin(p) \/ Publish(p)
    \/ Upgrade \/ \E ps \in SUBSET Plugins \ {{}} : Sync(ps)
    \/ Save
    \/ Crash \/ Torn

Spec == Init /\ [][Next]_vars
-----------------------------------------------------------------------------
Records == [installed : BOOLEAN, version : Versions \cup {Unknown},
            previous : Versions \cup {Unknown}, pinned : Requests,
            kind : {"none", "local_build", "go_install"}]
Commands == [name : {"none", "install", "update", "upgrade", "upgrade_blind", "pin", "rollback",
                     "sync", "remove"},
             todo : SUBSET Plugins, built : SUBSET Plugins, version : Requests,
             told : Versions \cup {Unknown}]
Reports == [name : {"none", "pin", "rollback"}, plugins : SUBSET Plugins,
            from : Requests, to : Requests, made : BOOLEAN]

TypeOK ==
    /\ published \in [Plugins -> Versions]
    /\ rec \in [Plugins -> Records]
    /\ \A p \in Plugins : ~rec[p].installed => rec[p] = NoRecord
    /\ disk \in [Plugins -> Versions \cup {Unknown, Local}]
    /\ behind \in [Plugins -> BOOLEAN]
    /\ unread \in [Plugins -> BOOLEAN]
    /\ cmd \in Commands
    /\ at \in {"idle", "build", "save", "pin"}
    /\ last \in Reports

\* management.go: InstalledVersion is "the resolved module version of the current
\* binary".  The record tells the kind of binary there is, unless the last command that
\* replaced it was killed before it wrote; and the version of a published one, unless
\* that could not be read off the binary when it was recorded.
VersionTruth ==
    \A p \in Plugins : rec[p].installed /\ ~behind[p] =>
        /\ rec[p].kind = Kind(disk[p])
        /\ rec[p].kind = "go_install" /\ ~unread[p] => rec[p].version = disk[p]

\* A recorded previous version is another than the installed one, and there is
\* an installed one to come back to: a rollback always changes the version.
HistorySound ==
    \A p \in Plugins : rec[p].previous # Unknown =>
        rec[p].version \notin {Unknown, rec[p].previous}

\* README.md: "rolling back twice round-trips", whatever is published meanwhile and
\* whether or not versions can be read: the second rollback installs the version that
\* was on record before the first, and restores the history.
RollbackRoundTrips ==
    [][\A p \in Plugins :
          last.name = "rollback" /\ last' # last /\ last'.name = "rollback"
          /\ last.plugins = {p} /\ last'.plugins = {p} =>
              /\ last'.to = last.from
              /\ disk'[p] = last.from
              /\ rec'[p].version = last.from /\ rec'[p].previous = last.to]_vars

\* While a plugin is pinned no step of an upgrade that could read the pins, or of a
\* rollback, of it or of the other plugins, touches its binary or its record; but a
\* write that is torn loses all records.
PinHolds ==
    [][\A p \in Plugins :
          rec[p].pinned # Unknown /\ cmd.name \in {"upgrade", "rollback"} =>
              disk'[p] = disk[p] /\ (rec'[p] = rec[p] \/ rec' = NoRecords)]_vars

\* A pin to a version, not to latest or a branch, that is reported: if it had to be
\* installed first, the binary is that very version, whatever came out meanwhile; and the
\* record names it, unless it was installed and could not be read off the binary.
PinAgrees ==
    last.name = "pin" /\ last.to # Query => \A p \in last.plugins :
        /\ last.made => disk[p] = last.to
        /\ (last.made /\ unread[p]) \/ rec[p].version = last.to

\* README.md: "pin jira@v0.3.2 reinstalls that exact version and holds it"; so
\* after such a pin the binary is that version.
PinInstalls ==
    last.name = "pin" /\ last.from \in Versions =>
        \A p \in last.plugins : ~behind[p] => disk[p] = last.from
=============================================================================
