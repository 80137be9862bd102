----------------------------- MODULE SkillPages -----------------------------
(***************************************************************************)
(* Installed skills: the pages the CLI generates about the installed       *)
(* plugins (cli/skill.go) and regenerates after the commands that change   *)
(* what they show, with the catalog of plugins that every start of the CLI *)
(* loads and may cache (management/local/local.go).  One command runs at a *)
(* time.  It may fail, and it may be killed at any step; every file is     *)
(* truncated before it is written.  What cannot be read of a plugin, or of *)
(* the catalog, is left out of the pages, and the command succeeds.  The   *)
(* skills are those of the default instance.                               *)
(***************************************************************************)
EXTENDS Naturals, FiniteSets

CONSTANTS Plugins,    \* plugins that may be installed
          Looks,      \* what a page can show of a plugin: its version, whether it is enabled
          Skills,     \* names of skills
          Files,      \* names of reference pages
          LinkFile,   \* LinkFile[p]: the page SKILL.md links to, by the installed name
          PageFile,   \* PageFile[p]: the page by the name in the plugin's manifest
          Catalogs,   \* the catalogs that may be published: sets of plugins
          Bare,       \* what a page shows of a plugin that has no manifest to give
          Absent,     \* no such file or plugin
          Torn        \* a file that was truncated and not written

\* What is recorded of a plugin: also whether its auth is connected.
Records == [look : Looks, connected : BOOLEAN]

\* What is shown of it.  Auth that is "unread" is shown as not connected though it is.
Shows == [look : Looks, auth : {"connected", "not connected", "unread"}] \cup {Bare}

\* What is written to a page of a plugin, and to SKILL.md; known is what the command
\* that wrote it had of the catalog, and is not in the file.
Page == [of : Plugins, shows : Shows]
Lists == UNION {[shown -> Shows] : shown \in SUBSET Plugins}
Main == [shows : Lists, offers : SUBSET Plugins, known : SUBSET Plugins]

ASSUME SkillPagesAssumption ==
    /\ LinkFile \in [Plugins -> Files] /\ PageFile \in [Plugins -> Files]
    /\ \A c \in Catalogs : c # {} /\ c \subseteq Plugins
    /\ Absent # Torn /\ Absent \notin Plugins /\ Absent \notin Skills /\ Absent \notin Records
    /\ \A mark \in {Absent, Torn} : mark \notin Catalogs /\ mark \notin Page /\ mark \notin Main

VARIABLES
    record,   \* what is recorded of each plugin
    catalog,  \* the cached catalog file
    main,     \* main[d]: SKILL.md of skill d
    pages,    \* pages[d][f]: the reference page f of skill d
    excused,  \* for the properties: what of a skill need not be up to date
    proc      \* the running command

vars == <<record, catalog, main, pages, excused, proc>>

Installed == {p \in Plugins : record[p] # Absent}
-----------------------------------------------------------------------------
(***************************************************************************)
(* The command that runs.                                                  *)
(***************************************************************************)
\* The commands after which refreshSkillsAfterStateChange does its work.
Listed == {"install", "update", "remove", "enable", "disable", "auth connect",
           "auth connect auto", "auth test", "auth disconnect", "dev sync", "pin",
           "unpin", "rollback"}
\* Those that change what a page shows and refresh nothing.
Unlisted == {"monitor connect", "doctor"}
Commands == Listed \cup Unlisted \cup {"upgrade", "skill install", "skill refresh"}

\* Commands that change what is recorded of a plugin, and of its auth.
OfPlugins == {"update", "enable", "disable", "dev sync", "pin", "rollback"}
OfAuth == {"auth connect", "auth connect auto", "auth test", "auth disconnect"} \cup Unlisted

\* Commands that may change several plugins.
Many == {"install", "upgrade", "dev sync", "auth connect auto"} \cup Unlisted

NoCommand ==
    [at |-> "idle", cmd |-> "none", dry |-> FALSE, changed |-> FALSE, fails |-> FALSE,
     offers |-> {}, skill |-> Absent, references |-> TRUE, todo |-> {},
     shows |-> [p \in {} |-> Bare], known |-> {}, left |-> {}, page |-> Absent]

Goto(where) == proc' = [proc EXCEPT !.at = where]

\* Both parts of the skills in set are excused.
Excuse(set) == [d \in Skills |-> IF d \in set THEN {"main", "pages"} ELSE excused[d]]

Init ==
    /\ record = [p \in Plugins |-> Absent]
    /\ catalog = Absent
    /\ main = [d \in Skills |-> Absent]
    /\ pages = [d \in Skills |-> [f \in Files |-> Absent]]
    /\ excused = [d \in Skills |-> {"main", "pages"}]
    /\ proc = NoCommand
-----------------------------------------------------------------------------
(***************************************************************************)
(* Start: the catalog.                                                     *)
(***************************************************************************)
\* Where a command goes on once New has the catalog.
AfterNew(cmd, dry) == IF cmd = "upgrade" /\ ~dry THEN "refresh catalog" ELSE "running"

\* New: a catalog that does not parse ends every command.
Begin(cmd, dry, d, references) ==
    /\ proc.at = "idle" /\ catalog # Torn
    /\ dry => cmd \notin Unlisted \cup {"skill refresh", "skill install", "unpin"}
    /\ IF cmd = "skill install" THEN d \in Skills ELSE d = Absent /\ references
    /\ proc' = [NoCommand EXCEPT
                  !.at = IF catalog = Absent THEN "fetch" ELSE AfterNew(cmd, dry),
                  !.cmd = cmd, !.dry = dry, !.references = references, !.skill = d,
                  !.offers = IF catalog = Absent THEN {} ELSE catalog]
    /\ UNCHANGED <<record, catalog, main, pages, excused>>

AfterFetch == IF proc.at = "fetch" THEN AfterNew(proc.cmd, proc.dry) ELSE "running"

\* fetchRemoteMarketplace: offline, or published is fetched, and cached where the
\* state directory can be written.
Fetch ==
    /\ proc.at \in {"fetch", "refresh catalog"}
    /\ \/ Goto(AfterFetch) /\ UNCHANGED catalog
       \/ \E published \in Catalogs :
             \/ /\ proc' = [proc EXCEPT !.at = AfterFetch, !.offers = published]
                /\ UNCHANGED catalog
             \/ /\ proc' = [proc EXCEPT !.at = IF proc.at = "fetch" THEN "cache"
                                               ELSE "cache again",
                                        !.offers = published]
                /\ catalog' = Torn
    /\ UNCHANGED <<record, main, pages, excused>>

\* The write of the cache ends, or fails and leaves it truncated.
Cache ==
    /\ proc.at \in {"cache", "cache again"}
    /\ Goto(IF proc.at = "cache" THEN AfterNew(proc.cmd, proc.dry) ELSE "running")
    /\ catalog' \in {proc.offers, Torn}
    /\ UNCHANGED <<record, main, pages, excused>>

\* The user deletes a catalog that no command can read.
DeleteCatalog ==
    /\ proc.at = "idle" /\ catalog = Torn
    /\ catalog' = Absent
    /\ UNCHANGED <<record, main, pages, excused, proc>>
-----------------------------------------------------------------------------
(***************************************************************************)
(* What a command does to a plugin, as far as a page shows it.             *)
(***************************************************************************)
Effects(cmd, p) ==
    {new \in Records \cup {Absent} :
       \/ new # Absent /\ (cmd = "install" \/ (cmd = "upgrade" /\ p \in Installed \cup proc.offers))
       \/ new = Absent /\ p \in Installed /\ cmd = "remove"
       \/ /\ new # Absent /\ p \in Installed
          /\ \/ cmd \in OfPlugins /\ new.connected = record[p].connected
             \/ cmd \in OfAuth /\ new.look = record[p].look}

\* AuthTest records a test that fails, and fails; doctor goes on.
Change(p) ==
    /\ proc.at = "running" /\ ~proc.dry
    /\ ~proc.changed \/ proc.cmd \in Many
    /\ \E new \in Effects(proc.cmd, p) :
          /\ record' = [record EXCEPT ![p] = new]
          /\ \E fails \in {FALSE, proc.cmd = "auth test"} :
                proc' = [proc EXCEPT !.changed = TRUE, !.fails = fails]
    /\ UNCHANGED <<catalog, main, pages, excused>>

\* What the running command changed and no refresh will show.
Unshown == IF proc.changed THEN Excuse(Skills) ELSE excused

\* The command returns an error, perhaps because its result cannot be printed.
Fail ==
    /\ proc.at = "running"
    /\ excused' = Unshown /\ proc' = NoCommand
    /\ UNCHANGED <<record, catalog, main, pages>>

\* Mutant: auth disconnect is missing in the list.
Refreshes_NoDisconnect(cmd) ==
    cmd \in (Listed \ {"auth disconnect"}) \cup {"upgrade", "skill refresh"}
\* refreshSkillsAfterStateChange, upgrade and skill refresh.
Refreshes(cmd) == cmd \in Listed \cup {"upgrade", "skill refresh"}

\* The command succeeds.  refreshInstalledSkills takes every skill with a SKILL.md.
Succeed ==
    /\ proc.at = "running" /\ ~proc.fails
    /\ UNCHANGED <<record, catalog, main, pages>>
    /\ IF proc.cmd = "skill install" \/ (Refreshes(proc.cmd) /\ ~proc.dry)
       THEN /\ proc' = [NoCommand EXCEPT
                          !.at = "skills", !.offers = proc.offers, !.references = proc.references,
                          !.todo = IF proc.cmd = "skill install" THEN {proc.skill}
                                   ELSE {d \in Skills : main[d] # Absent}]
            /\ UNCHANGED excused
       ELSE proc' = NoCommand /\ excused' = IF proc.cmd \in Unlisted THEN Unshown ELSE excused
-----------------------------------------------------------------------------
(***************************************************************************)
(* writeSkillInstall, for each skill.                                      *)
(***************************************************************************)
\* What buildSkillPlugin shows of p, whose auth is not read when AuthStatus fails, and
\* the page that it goes to.
Shown(p, hasManifest, readsAuth) ==
    IF hasManifest
    THEN [look |-> record[p].look,
          auth |-> IF ~record[p].connected THEN "not connected"
                   ELSE IF readsAuth THEN "connected" ELSE "unread"]
    ELSE Bare

FileOf(p, shown) == IF shown = Bare THEN LinkFile[p] ELSE PageFile[p]

\* The skill is done or has failed; a refresh goes on with the next one.
NextSkill ==
    proc' = [proc EXCEPT !.at = "skills", !.shows = NoCommand.shows, !.known = {},
                         !.skill = Absent]

SkillFails(d) == NextSkill /\ excused' = Excuse({d}) /\ UNCHANGED <<record, catalog>>

\* buildSkillData, and the truncation of SKILL.md; either may fail.  Where SearchPlugins
\* fails nothing is known of the catalog.
BeginSkill(d) ==
    /\ proc.at = "skills" /\ d \in proc.todo
    /\ \/ /\ proc' = [proc EXCEPT !.todo = @ \ {d}]
          /\ excused' = Excuse({d})
          /\ UNCHANGED main
       \/ /\ \E known \in {proc.offers, {}}, readable, auths \in SUBSET Installed :
                proc' = [proc EXCEPT
                           !.at = "main", !.todo = @ \ {d}, !.skill = d, !.known = known,
                           !.shows = [p \in Installed |-> Shown(p, p \in readable, p \in auths)]]
          /\ main' = [main EXCEPT ![d] = Torn]
          /\ UNCHANGED excused
    /\ UNCHANGED <<record, catalog, pages>>

WriteMain ==
    LET d == proc.skill
    IN /\ proc.at = "main"
       /\ \/ /\ main' = [main EXCEPT ![d] = [shows |-> proc.shows,
                                             offers |-> proc.known \ Installed,
                                             known |-> proc.known]]
             /\ excused' = [excused EXCEPT ![d] = @ \ {"main"}]
             /\ IF proc.references
                THEN proc' = [proc EXCEPT !.at = "pages", !.left = DOMAIN proc.shows]
                ELSE NextSkill
             /\ UNCHANGED <<record, catalog>>
          \/ SkillFails(d) /\ UNCHANGED main
       /\ UNCHANGED pages

\* A page is truncated, which may be an earlier one of the same name.
BeginPage(p) ==
    /\ proc.at = "pages" /\ p \in proc.left
    /\ pages' = [pages EXCEPT ![proc.skill][FileOf(p, proc.shows[p])] = Torn]
    /\ proc' = [proc EXCEPT !.at = "page", !.left = @ \ {p}, !.page = p]
    /\ UNCHANGED <<record, catalog, main, excused>>

WritePage ==
    LET p == proc.page
    IN /\ proc.at = "page"
       /\ \/ /\ pages' = [pages EXCEPT ![proc.skill][FileOf(p, proc.shows[p])] =
                                          [of |-> p, shows |-> proc.shows[p]]]
             /\ proc' = [proc EXCEPT !.at = "pages", !.page = Absent]
             /\ UNCHANGED <<record, catalog, excused>>
          \/ SkillFails(proc.skill) /\ UNCHANGED pages
       /\ UNCHANGED main

Written == {FileOf(p, proc.shows[p]) : p \in DOMAIN proc.shows}

\* Mutant: the pages of plugins that are gone stay.
Prune_Nothing ==
    /\ proc.at = "pages" /\ proc.left = {}
    /\ excused' = [excused EXCEPT ![proc.skill] = @ \ {"pages"}]
    /\ NextSkill
    /\ UNCHANGED <<record, catalog, main, pages>>
\* pruneStaleReferences: best effort, a page that cannot be removed stays.
Prune ==
    /\ proc.at = "pages" /\ proc.left = {}
    /\ LET d == proc.skill
           stale == {f \in Files \ Written : pages[d][f] # Absent}
       IN \E kept \in SUBSET stale :
             /\ pages' = [pages EXCEPT ![d] =
                             [f \in Files |-> IF f \in stale \ kept THEN Absent ELSE @[f]]]
             /\ excused' = [excused EXCEPT ![d] =
                               IF kept = {} THEN @ \ {"pages"} ELSE @ \cup {"pages"}]
    /\ NextSkill
    /\ UNCHANGED <<record, catalog, main>>

EndSkills ==
    /\ proc.at = "skills" /\ proc.todo = {}
    /\ proc' = NoCommand
    /\ UNCHANGED <<record, catalog, main, pages, excused>>

\* The command is killed.
Kill ==
    /\ proc.at # "idle"
    /\ proc' = NoCommand
    /\ excused' = IF proc.at = "running" THEN Unshown
                  ELSE Excuse(proc.todo \cup ({proc.skill} \cap Skills))
    /\ UNCHANGED <<record, catalog, main, pages>>

Next ==
    \/ \E cmd \in Commands, dry \in BOOLEAN, d \in Skills \cup {Absent}, references \in BOOLEAN :
          Begin(cmd, dry, d, references)
    \/ Fetch \/ Cache \/ DeleteCatalog
    \/ \E p \in Plugins : Change(p)
    \/ Fail \/ Succeed
    \/ \E d \in Skills : BeginSkill(d)
    \/ WriteMain \/ Prune \/ EndSkills \/ WritePage
    \/ \E p \in Plugins : BeginPage(p)
    \/ Kill

Spec == Init /\ [][Next]_vars
-----------------------------------------------------------------------------
(***************************************************************************)
(* Properties.                                                             *)
(***************************************************************************)
\* Shown of p is what is recorded of it now, as far as it could be read.
Current(p, shown) ==
    /\ p \in Installed
    /\ shown # Bare => /\ shown.look = record[p].look
                       /\ (shown.auth # "not connected") <=> record[p].connected

MainCurrent(d) ==
    /\ main[d] # Torn
    /\ DOMAIN main[d].shows = Installed
    /\ \A p \in Installed : Current(p, main[d].shows[p])
    /\ main[d].offers = main[d].known \ Installed

\* A page of some plugin, under the name of that plugin.
PageCurrent(page, f) ==
    /\ page # Torn
    /\ Current(page.of, page.shows)
    /\ f = FileOf(page.of, page.shows)

PagesCurrent(d) ==
    /\ \A f \in Files : pages[d][f] # Absent => PageCurrent(pages[d][f], f)
    /\ \A p \in Installed : \E f \in {LinkFile[p], PageFile[p]} : pages[d][f] # Absent

\* What a command may be in the midst of.
Process ==
    [at : {"idle", "fetch", "cache", "refresh catalog", "cache again", "running", "skills",
           "main", "pages", "page"},
     cmd : Commands \cup {"none"}, dry : BOOLEAN, changed : BOOLEAN, fails : BOOLEAN,
     offers : SUBSET Plugins, skill : Skills \cup {Absent}, references : BOOLEAN,
     todo : SUBSET Skills, shows : Lists, known : SUBSET Plugins,
     left : SUBSET Plugins, page : Plugins \cup {Absent}]

TypeOK ==
    /\ record \in [Plugins -> Records \cup {Absent}]
    /\ catalog \in Catalogs \cup {Absent, Torn}
    /\ main \in [Skills -> Main \cup {Absent, Torn}]
    /\ pages \in [Skills -> [Files -> Page \cup {Absent, Torn}]]
    /\ excused \in [Skills -> SUBSET {"main", "pages"}]
    /\ proc \in Process

\* Between commands, the SKILL.md of every skill shows each installed plugin as it is
\* recorded now and no plugin that is gone, and offers, of what the command that wrote
\* it knew of the catalog, just what is not installed now.  What that command could not
\* read is not there, though it succeeded: a plugin whose manifest could not be read is
\* said to have none, one whose auth status could not be read is said to be not
\* connected, and nothing is offered where the catalog could not be searched; and a
\* catalog that was cached since is not shown.  Excused is a skill that is behind
\* because, since its SKILL.md was written, a command changed a plugin and then failed,
\* was killed or is one of the Unlisted, or a command that was to write the skill again
\* failed to, or was killed before it had (refreshSkillsAfterStateChange).
MainFollows ==
    proc.at = "idle" =>
       \A d \in Skills : main[d] # Absent /\ "main" \notin excused[d] => MainCurrent(d)

\* Between commands, every reference page of a skill shows an installed plugin as it is
\* recorded now, as far as it could be read, and is named after that plugin: the page of
\* a plugin that is gone, or that has another name by now, is pruned.  And under a name
\* of every installed plugin there is a page, its own or that of another plugin with
\* that name.  Excused is a skill for the same reasons as its SKILL.md, and one of which
\* a page could not be removed.
PagesFollow ==
    proc.at = "idle" =>
       \A d \in Skills : main[d] # Absent /\ "pages" \notin excused[d] => PagesCurrent(d)
=============================================================================
