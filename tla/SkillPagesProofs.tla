-------------------------- MODULE SkillPagesProofs --------------------------
(***************************************************************************)
(* Proofs about SkillPages, for any plugins, skills, pages and catalogs:   *)
(* types, that SKILL.md follows the state (MainFollows), and that its      *)
(* reference pages do (PagesFollow).                                       *)
(***************************************************************************)
EXTENDS SkillPages, TLAPS

\* The command is in the midst of a skill.
Writing == {"main", "pages", "page"}

\* A command has its name until it succeeds; one that changed something may change
\* something, and what it caches is a catalog.
CommandSound ==
    /\ proc.at \in {"cache", "cache again"} => proc.offers \in Catalogs
    /\ proc.at \notin {"idle", "skills"} \cup Writing => proc.cmd \in Commands
    /\ proc.at \in {"skills"} \cup Writing => proc.cmd = "none"
    /\ proc.at \notin {"skills"} \cup Writing => proc.todo = {}
    /\ proc.changed =>
          proc.at = "running" /\ ~proc.dry
          /\ proc.cmd \notin {"unpin", "skill install", "skill refresh"}
    /\ proc.cmd = "skill install" => proc.skill \in Skills
    /\ ~proc.references => proc.at \notin {"idle", "pages", "page"}
    /\ ~proc.references /\ proc.at \notin {"skills"} \cup Writing => proc.cmd = "skill install"

\* What the running command shows of the plugins is what is recorded of them.
ShowsSound ==
    proc.at \in Writing =>
       /\ proc.skill \in Skills \ proc.todo
       /\ main[proc.skill] # Absent
       /\ DOMAIN proc.shows = Installed
       /\ \A p \in Installed : Current(p, proc.shows[p])

\* The page that p is shown on is written, and shows an installed plugin as it is.
Name(p) == FileOf(p, proc.shows[p])
Done(d, f) ==
    /\ pages[d][f] # Absent
    /\ PageCurrent(pages[d][f], f)

\* The pages of the skill that is written, but the one in the works, are done.
WrittenSound ==
    /\ proc.at = "pages" =>
          /\ proc.left \subseteq Installed
          /\ \A p \in Installed \ proc.left : Done(proc.skill, Name(p))
    /\ proc.at = "page" =>
          /\ proc.left \subseteq Installed
          /\ proc.page \in Installed \ proc.left
          /\ \A p \in Installed \ proc.left :
                Name(p) = Name(proc.page) \/ Done(proc.skill, Name(p))

\* What the command still has to write of skill d, or to excuse.
Changed == proc.at = "running" /\ proc.changed
MainDue(d) == Changed \/ d \in proc.todo \/ (proc.at = "main" /\ proc.skill = d)
PagesDue(d) ==
    Changed \/ (proc.references /\ (d \in proc.todo \/ (proc.at \in Writing /\ proc.skill = d)))

SkillsSound ==
    \A d \in Skills :
       /\ main[d] = Absent => excused[d] = {"main", "pages"}
       /\ MainDue(d) \/ "main" \in excused[d] \/ MainCurrent(d)
       /\ PagesDue(d) \/ "pages" \in excused[d] \/ PagesCurrent(d)

Ind == TypeOK /\ CommandSound /\ ShowsSound /\ WrittenSound /\ SkillsSound
-----------------------------------------------------------------------------
(***************************************************************************)
(* What stays true while the files stay.                                   *)
(***************************************************************************)
\* What is shown of a plugin is current as long as its record stays.
LEMMA CurrentStays ==
  ASSUME record' = record, NEW p, NEW shown
  PROVE  Installed' = Installed /\ (Current(p, shown)' <=> Current(p, shown))
  BY DEF Current, Installed

\* A SKILL.md is as current as it was when neither it nor the records changed.
LEMMA MainStays ==
  ASSUME NEW d \in Skills, record' = record, main'[d] = main[d], MainCurrent(d)
  PROVE  MainCurrent(d)'
  BY DEF MainCurrent, Current, Installed

\* So are its reference pages.
LEMMA PagesStay ==
  ASSUME NEW d \in Skills, record' = record, pages'[d] = pages[d], PagesCurrent(d)
  PROVE  PagesCurrent(d)'
  BY DEF PagesCurrent, PageCurrent, Current, Installed

\* What a command without work left is.
LEMMA NoCommandType ==
  /\ NoCommand \in Process
  /\ NoCommand.at = "idle" /\ NoCommand.todo = {} /\ ~NoCommand.changed
  /\ NoCommand.references /\ NoCommand.cmd = "none" /\ ~NoCommand.dry
<1>1. [p \in {} |-> Bare] \in Lists
  <2>1. [p \in {} |-> Bare] \in [{} -> Shows]
    OBVIOUS
  <2> QED
    BY <2>1 DEF Lists
<1> QED
  BY <1>1 DEF NoCommand, Process

\* A command ends: what it leaves undone is excused.
LEMMA EndInd ==
  ASSUME Ind, proc' = NoCommand, UNCHANGED <<record, catalog, main, pages>>,
         excused' \in [Skills -> SUBSET {"main", "pages"}],
         \A d \in Skills :
            \/ excused'[d] = {"main", "pages"}
            \/ excused'[d] = excused[d] /\ ~MainDue(d) /\ ~PagesDue(d)
  PROVE  Ind'
<1>1. TypeOK'
  BY NoCommandType DEF Ind, TypeOK
<1>2. CommandSound'
  BY NoCommandType DEF CommandSound, Writing
<1>3. ShowsSound' /\ WrittenSound'
  BY NoCommandType DEF ShowsSound, WrittenSound, Writing
<1>4. SkillsSound'
  <2> SUFFICES ASSUME NEW d \in Skills
               PROVE  /\ main'[d] = Absent => excused'[d] = {"main", "pages"}
                      /\ "main" \in excused'[d] \/ MainCurrent(d)'
                      /\ "pages" \in excused'[d] \/ PagesCurrent(d)'
    BY DEF SkillsSound
  <2>1. CASE excused'[d] = {"main", "pages"}
    BY <2>1
  <2>2. CASE excused'[d] = excused[d] /\ ~MainDue(d) /\ ~PagesDue(d)
    <3>1. /\ main[d] = Absent => excused[d] = {"main", "pages"}
          /\ "main" \in excused[d] \/ MainCurrent(d)
          /\ "pages" \in excused[d] \/ PagesCurrent(d)
      BY <2>2 DEF Ind, SkillsSound
    <3> QED
      BY <2>2, <3>1, MainStays, PagesStay
  <2> QED
    BY <2>1, <2>2
<1> QED
  BY <1>1, <1>2, <1>3, <1>4 DEF Ind

\* In the initial state there is no skill.
LEMMA InitInd == Init => Ind
<1> SUFFICES ASSUME Init PROVE Ind
  OBVIOUS
<1>1. TypeOK
  BY NoCommandType DEF Init, TypeOK
<1>2. CommandSound /\ ShowsSound /\ WrittenSound
  BY NoCommandType DEF Init, CommandSound, ShowsSound, WrittenSound, Writing
<1>3. SkillsSound
  BY DEF Init, SkillsSound
<1> QED
  BY <1>1, <1>2, <1>3 DEF Ind
-----------------------------------------------------------------------------
(***************************************************************************)
(* The start of a command, and its work on the state.                      *)
(***************************************************************************)
\* Nothing is changed or due before a command is under way.
LEMMA BeforeInd ==
  ASSUME Ind, UNCHANGED <<record, main, pages>>, proc.at \notin {"skills"} \cup Writing,
         ~proc.changed, proc' \in Process, ~proc'.changed, proc'.todo = {},
         proc'.at \notin {"skills"} \cup Writing,
         proc'.at # "idle" => proc'.cmd \in Commands,
         proc'.at \in {"cache", "cache again"} => proc'.offers \in Catalogs,
         proc'.cmd = "skill install" => proc'.skill \in Skills,
         ~proc'.references => proc'.at # "idle" /\ proc'.cmd = "skill install",
         catalog' \in {catalog, Absent, Torn} \cup Catalogs, excused' = excused
  PROVE  Ind'
<1>1. TypeOK'
  BY DEF Ind, TypeOK
<1>2. CommandSound'
  BY DEF CommandSound, Writing
<1>3. ShowsSound' /\ WrittenSound'
  BY DEF ShowsSound, WrittenSound, Writing
<1>4. SkillsSound'
  <2> SUFFICES ASSUME NEW d \in Skills
               PROVE  /\ main'[d] = Absent => excused'[d] = {"main", "pages"}
                      /\ "main" \in excused'[d] \/ MainCurrent(d)'
                      /\ "pages" \in excused'[d] \/ PagesCurrent(d)'
    BY DEF SkillsSound
  <2>1. ~MainDue(d) /\ ~PagesDue(d)
    BY DEF Ind, CommandSound, MainDue, PagesDue, Changed, Writing
  <2>2. /\ main[d] = Absent => excused[d] = {"main", "pages"}
        /\ "main" \in excused[d] \/ MainCurrent(d)
        /\ "pages" \in excused[d] \/ PagesCurrent(d)
    BY <2>1 DEF Ind, SkillsSound
  <2>3. PagesCurrent(d) => PagesCurrent(d)'
    BY PagesStay
  <2> QED
    BY <2>2, <2>3, MainStays
<1> QED
  BY <1>1, <1>2, <1>3, <1>4 DEF Ind

\* New starts a command.
LEMMA BeginInd ==
  ASSUME Ind, NEW cmd \in Commands, NEW dry \in BOOLEAN, NEW d \in Skills \cup {Absent},
         NEW references \in BOOLEAN, Begin(cmd, dry, d, references)
  PROVE  Ind'
<1>1. ~proc.changed /\ proc.at \notin {"skills"} \cup Writing
  BY DEF Begin, Ind, CommandSound, Writing
<1>2. NoCommand \in Process /\ AfterNew(cmd, dry) \in {"refresh catalog", "running"}
  BY NoCommandType DEF AfterNew
<1>3. (IF catalog = Absent THEN {} ELSE catalog) \in SUBSET Plugins
  BY SkillPagesAssumption DEF Ind, TypeOK, Begin
<1>4. proc' \in Process
  <2> DEFINE where == IF catalog = Absent THEN "fetch" ELSE AfterNew(cmd, dry)
             offered == IF catalog = Absent THEN {} ELSE catalog
  <2>1. where \in {"fetch", "refresh catalog", "running"} /\ offered \in SUBSET Plugins
    BY <1>2, <1>3
  <2>2. proc' = [NoCommand EXCEPT !.at = where, !.cmd = cmd, !.dry = dry,
                                  !.references = references, !.skill = d, !.offers = offered]
    BY DEF Begin
  <2> HIDE DEF where, offered
  <2> QED
    BY <1>2, <2>1, <2>2 DEF Process
<1>5. /\ ~proc'.changed /\ proc'.todo = {} /\ proc'.cmd = cmd
      /\ proc'.at \in {"fetch", "refresh catalog", "running"}
      /\ ~proc'.references => cmd = "skill install"
      /\ cmd = "skill install" => proc'.skill \in Skills
  BY <1>2 DEF Begin, NoCommand
<1> QED
  BY <1>1, <1>4, <1>5, BeforeInd DEF Begin, Writing

\* The catalog is fetched.
LEMMA FetchInd ==
  ASSUME Ind, Fetch
  PROVE  Ind'
<1>1. /\ ~proc.changed /\ proc.at \notin {"skills"} \cup Writing /\ proc.todo = {}
      /\ proc.cmd \in Commands /\ (~proc.references => proc.cmd = "skill install")
      /\ (proc.cmd = "skill install" => proc.skill \in Skills)
  BY DEF Fetch, Ind, CommandSound, Writing
<1>2. AfterFetch \in {"refresh catalog", "running"}
  BY DEF AfterFetch, AfterNew
<1>3. \A published \in Catalogs : published \in SUBSET Plugins
  BY SkillPagesAssumption
<1>4. proc \in Process
  BY DEF Ind, TypeOK
<1>5. proc' \in Process
  <2>1. CASE proc' = [proc EXCEPT !.at = AfterFetch]
    BY <1>2, <1>4, <2>1 DEF Process
  <2>2. CASE \E published \in Catalogs, at \in {"running", "refresh catalog", "cache", "cache again"} :
                proc' = [proc EXCEPT !.at = at, !.offers = published]
    <3>1. PICK published \in Catalogs,
               at \in {"running", "refresh catalog", "cache", "cache again"} :
                  proc' = [proc EXCEPT !.at = at, !.offers = published]
      BY <2>2
    <3>2. published \in SUBSET Plugins
      BY <1>3
    <3> QED
      BY <1>4, <3>1, <3>2 DEF Process
  <2> QED
    BY <1>2, <2>1, <2>2 DEF Fetch, Goto
<1>6. /\ proc'.changed = proc.changed /\ proc'.todo = proc.todo /\ proc'.cmd = proc.cmd
      /\ proc'.references = proc.references /\ proc'.skill = proc.skill
      /\ proc'.at \in {"refresh catalog", "running", "cache", "cache again"}
      /\ proc'.at \in {"cache", "cache again"} => proc'.offers \in Catalogs
  BY <1>2, <1>4 DEF Fetch, Process, Goto
<1> QED
  BY <1>1, <1>5, <1>6, BeforeInd DEF Fetch, Writing

\* The catalog is cached, or the write of the cache fails.
LEMMA CacheInd ==
  ASSUME Ind, Cache
  PROVE  Ind'
<1>1. /\ ~proc.changed /\ proc.at \notin {"skills"} \cup Writing /\ proc.todo = {}
      /\ proc.cmd \in Commands /\ (~proc.references => proc.cmd = "skill install")
      /\ (proc.cmd = "skill install" => proc.skill \in Skills)
      /\ proc.offers \in Catalogs
  BY DEF Cache, Ind, CommandSound, Writing
<1>4. proc \in Process
  BY DEF Ind, TypeOK
<1>5. proc' \in Process
  BY <1>4 DEF Cache, Process, Goto, AfterNew
<1>6. /\ proc'.changed = proc.changed /\ proc'.todo = proc.todo /\ proc'.cmd = proc.cmd
      /\ proc'.references = proc.references /\ proc'.skill = proc.skill
      /\ proc'.at \in {"refresh catalog", "running"}
  BY <1>4 DEF Cache, Process, Goto, AfterNew
<1> QED
  BY <1>1, <1>5, <1>6, BeforeInd DEF Cache, Writing

\* A catalog that does not parse is deleted.
LEMMA DeleteInd ==
  ASSUME Ind, DeleteCatalog
  PROVE  Ind'
<1>1. proc \in Process /\ proc.at = "idle" /\ ~proc.changed /\ proc.todo = {}
      /\ proc.references /\ (proc.cmd = "skill install" => proc.skill \in Skills)
  BY DEF DeleteCatalog, Ind, TypeOK, CommandSound, Writing
<1> QED
  BY <1>1, BeforeInd DEF DeleteCatalog, Writing

\* The command changes a plugin: every skill is due.
LEMMA ChangeInd ==
  ASSUME Ind, NEW p \in Plugins, Change(p)
  PROVE  Ind'
<1>1. PICK new \in Effects(proc.cmd, p), fails \in BOOLEAN :
         /\ record' = [record EXCEPT ![p] = new]
         /\ proc' = [proc EXCEPT !.changed = TRUE, !.fails = fails]
  BY DEF Change
<1>2. proc \in Process /\ proc.at = "running" /\ ~proc.dry
  BY DEF Ind, TypeOK, Change
<1>3. new \in Records \cup {Absent} /\ proc.cmd \notin {"unpin", "skill install", "skill refresh"}
  BY <1>1 DEF Effects, OfPlugins, OfAuth, Unlisted
<1>4. /\ proc' \in Process /\ proc'.at = "running" /\ proc'.changed /\ ~proc'.dry
      /\ proc'.cmd = proc.cmd /\ proc'.todo = proc.todo /\ proc'.references = proc.references
      /\ proc'.offers = proc.offers
  BY <1>1, <1>2 DEF Process
<1>5. TypeOK'
  BY <1>1, <1>3, <1>4 DEF Change, Ind, TypeOK
<1>6. CommandSound'
  BY <1>2, <1>3, <1>4 DEF Ind, CommandSound, Writing
<1>7. ShowsSound' /\ WrittenSound'
  BY <1>4 DEF ShowsSound, WrittenSound, Writing
<1>8. SkillsSound'
  BY <1>4 DEF Change, Ind, SkillsSound, MainDue, PagesDue, Changed
<1> QED
  BY <1>5, <1>6, <1>7, <1>8 DEF Ind

\* A running command that ends excuses what it changed, or changed nothing.
LEMMA UnshownSound ==
  ASSUME Ind, proc.at = "running"
  PROVE  /\ Unshown \in [Skills -> SUBSET {"main", "pages"}]
         /\ \A d \in Skills :
               \/ Unshown[d] = {"main", "pages"}
               \/ Unshown[d] = excused[d] /\ ~MainDue(d) /\ ~PagesDue(d)
         /\ ~proc.changed => \A d \in Skills : ~MainDue(d) /\ ~PagesDue(d)
<1>1. ~proc.changed => \A d \in Skills : ~MainDue(d) /\ ~PagesDue(d)
  BY DEF Ind, CommandSound, MainDue, PagesDue, Changed, Writing
<1>2. excused \in [Skills -> SUBSET {"main", "pages"}]
  BY DEF Ind, TypeOK
<1>3. Excuse(Skills) = [d \in Skills |-> {"main", "pages"}]
  BY DEF Excuse
<1>4. CASE proc.changed
  BY <1>3, <1>4 DEF Unshown
<1>5. CASE ~proc.changed
  BY <1>1, <1>2, <1>5 DEF Unshown
<1> QED
  BY <1>1, <1>4, <1>5

\* The command fails.
LEMMA FailInd ==
  ASSUME Ind, Fail
  PROVE  Ind'
  BY UnshownSound, EndInd DEF Fail

\* The command is killed.
LEMMA KillInd ==
  ASSUME Ind, Kill
  PROVE  Ind'
<1>1. CASE proc.at = "running"
  BY <1>1, UnshownSound, EndInd DEF Kill
<1>2. CASE proc.at # "running"
  <2> DEFINE cut == proc.todo \cup ({proc.skill} \cap Skills)
  <2>1. excused \in [Skills -> SUBSET {"main", "pages"}]
    BY DEF Ind, TypeOK
  <2>2. excused' = [d \in Skills |-> IF d \in cut THEN {"main", "pages"} ELSE excused[d]]
    BY <1>2 DEF Kill, Excuse
  <2>3. \A d \in Skills : d \in cut \/ (~MainDue(d) /\ ~PagesDue(d))
    BY <1>2 DEF MainDue, PagesDue, Changed
  <2> HIDE DEF cut
  <2>4. excused' \in [Skills -> SUBSET {"main", "pages"}]
    BY <2>1, <2>2
  <2> QED
    BY <2>2, <2>3, <2>4, EndInd DEF Kill
<1> QED
  BY <1>1, <1>2

\* The last skill is done.
LEMMA EndSkillsInd ==
  ASSUME Ind, EndSkills
  PROVE  Ind'
<1>1. \A d \in Skills : ~MainDue(d) /\ ~PagesDue(d)
  BY DEF EndSkills, MainDue, PagesDue, Changed, Writing
<1>2. excused' = excused /\ excused \in [Skills -> SUBSET {"main", "pages"}]
  BY DEF EndSkills, Ind, TypeOK
<1> QED
  BY <1>1, <1>2, EndInd DEF EndSkills

\* The command succeeds, and refreshes or installs skills, or has nothing to show.
LEMMA SucceedInd ==
  ASSUME Ind, Succeed
  PROVE  Ind'
<1>1. proc \in Process /\ proc.at = "running" /\ proc.todo = {} /\ proc.cmd \in Commands
  BY DEF Ind, TypeOK, Succeed, CommandSound, Writing
<1>2. CASE ~(proc.cmd = "skill install" \/ (Refreshes(proc.cmd) /\ ~proc.dry))
  <2>1. proc' = NoCommand /\ excused' = IF proc.cmd \in Unlisted THEN Unshown ELSE excused
    BY <1>2 DEF Succeed
  <2>2. proc.cmd \in Unlisted \/ ~proc.changed
    BY <1>1, <1>2 DEF Ind, CommandSound, Commands, Refreshes
  <2>3. excused \in [Skills -> SUBSET {"main", "pages"}]
    BY DEF Ind, TypeOK
  <2> QED
    BY <1>1, <2>1, <2>2, <2>3, UnshownSound, EndInd DEF Succeed
<1>3. CASE proc.cmd = "skill install" \/ (Refreshes(proc.cmd) /\ ~proc.dry)
  <2> DEFINE due == IF proc.cmd = "skill install" THEN {proc.skill}
                    ELSE {d \in Skills : main[d] # Absent}
  <2>1. proc' = [NoCommand EXCEPT !.at = "skills", !.offers = proc.offers,
                                  !.references = proc.references, !.todo = due]
        /\ UNCHANGED <<record, catalog, main, pages, excused>>
    BY <1>3 DEF Succeed
  <2>2. due \in SUBSET Skills
    BY DEF Ind, CommandSound
  <2>3. \A d \in Skills :
           /\ d \notin due => ~proc.changed \/ main[d] = Absent
           /\ ~proc.references => ~proc.changed
    BY <1>1 DEF Ind, CommandSound, Writing
  <2> HIDE DEF due
  <2>4. /\ proc' \in Process /\ proc'.at = "skills" /\ proc'.todo = due /\ proc'.cmd = "none"
        /\ ~proc'.changed /\ proc'.references = proc.references
    BY <1>1, <2>1, <2>2, NoCommandType DEF Process
  <2>5. TypeOK'
    BY <2>1, <2>4 DEF Ind, TypeOK
  <2>6. CommandSound' /\ ShowsSound' /\ WrittenSound'
    BY <2>4 DEF CommandSound, ShowsSound, WrittenSound, Writing
  <2>7. SkillsSound'
    <3> SUFFICES ASSUME NEW d \in Skills
                 PROVE  /\ main'[d] = Absent => excused'[d] = {"main", "pages"}
                        /\ d \in due \/ "main" \in excused'[d] \/ MainCurrent(d)'
                        /\ \/ proc.references /\ d \in due
                           \/ "pages" \in excused'[d] \/ PagesCurrent(d)'
      BY <2>4 DEF SkillsSound, MainDue, PagesDue
    <3>1. main[d] = Absent => excused[d] = {"main", "pages"}
      BY DEF Ind, SkillsSound
    <3>2. ~proc.changed => /\ "main" \in excused[d] \/ MainCurrent(d)
                           /\ "pages" \in excused[d] \/ PagesCurrent(d)
      BY <1>1, UnshownSound DEF Ind, SkillsSound
    <3>3. (MainCurrent(d) => MainCurrent(d)') /\ (PagesCurrent(d) => PagesCurrent(d)')
      BY <2>1, MainStays, PagesStay
    <3> QED
      BY <2>1, <2>3, <3>1, <3>2, <3>3
  <2> QED
    BY <2>5, <2>6, <2>7 DEF Ind
<1> QED
  BY <1>2, <1>3
-----------------------------------------------------------------------------
(***************************************************************************)
(* The skills, one after the other.                                        *)
(***************************************************************************)
\* The files of other skills stay, and so does what is due of them.
LEMMA OthersSound ==
  ASSUME Ind, NEW d \in Skills, UNCHANGED <<record, catalog>>,
         proc.at \in {"skills"} \cup Writing, proc.at \in Writing => proc.skill = d,
         proc'.at \in {"skills"} \cup Writing, proc'.at \in Writing => proc'.skill = d,
         proc'.todo \in {proc.todo, proc.todo \ {d}}, proc'.references = proc.references,
         NEW c \in Skills, c # d,
         main'[c] = main[c], pages'[c] = pages[c], excused'[c] = excused[c]
  PROVE  /\ main'[c] = Absent => excused'[c] = {"main", "pages"}
         /\ MainDue(c)' \/ "main" \in excused'[c] \/ MainCurrent(c)'
         /\ PagesDue(c)' \/ "pages" \in excused'[c] \/ PagesCurrent(c)'
<1>1. /\ main[c] = Absent => excused[c] = {"main", "pages"}
      /\ MainDue(c) \/ "main" \in excused[c] \/ MainCurrent(c)
      /\ PagesDue(c) \/ "pages" \in excused[c] \/ PagesCurrent(c)
  BY DEF Ind, SkillsSound
<1>2. (MainDue(c) => MainDue(c)') /\ (PagesDue(c) => PagesDue(c)')
  BY DEF MainDue, PagesDue, Changed, Writing
<1>3. (MainCurrent(c) => MainCurrent(c)') /\ (PagesCurrent(c) => PagesCurrent(c)')
  BY MainStays, PagesStay
<1> QED
  BY <1>1, <1>2, <1>3

\* The command leaves a skill that is current or excused.
LEMMA LeaveInd ==
  ASSUME Ind, proc.at \in Writing, NextSkill, UNCHANGED <<record, catalog>>,
         NEW d \in Skills, d = proc.skill,
         main' \in [Skills -> Main \cup {Absent, Torn}],
         pages' \in [Skills -> [Files -> Page \cup {Absent, Torn}]],
         excused' \in [Skills -> SUBSET {"main", "pages"}],
         \A c \in Skills \ {d} :
            main'[c] = main[c] /\ pages'[c] = pages[c] /\ excused'[c] = excused[c],
         main'[d] = Absent => excused'[d] = {"main", "pages"},
         "main" \in excused'[d] \/ MainCurrent(d)',
         "pages" \in excused'[d] \/ PagesCurrent(d)'
  PROVE  Ind'
<1>1. proc \in Process /\ ~proc.changed
  BY DEF Ind, TypeOK, CommandSound, Writing
<1>2. /\ proc' \in Process /\ proc'.at = "skills" /\ proc'.todo = proc.todo
      /\ proc'.cmd = proc.cmd /\ proc'.references = proc.references /\ ~proc'.changed
  <2>1. NoCommand.shows \in Lists
    BY NoCommandType DEF Process
  <2> QED
    BY <1>1, <2>1 DEF NextSkill, Process
<1>3. TypeOK'
  BY <1>2 DEF Ind, TypeOK
<1>4. CommandSound' /\ ShowsSound' /\ WrittenSound'
  BY <1>2 DEF Ind, CommandSound, ShowsSound, WrittenSound, Writing
<1>5. SkillsSound'
  <2> SUFFICES ASSUME NEW c \in Skills
               PROVE  /\ main'[c] = Absent => excused'[c] = {"main", "pages"}
                      /\ MainDue(c)' \/ "main" \in excused'[c] \/ MainCurrent(c)'
                      /\ PagesDue(c)' \/ "pages" \in excused'[c] \/ PagesCurrent(c)'
    BY DEF SkillsSound
  <2>1. CASE c = d
    BY <2>1
  <2>2. CASE c # d
    BY <1>2, <2>2, OthersSound DEF Writing
  <2> QED
    BY <2>1, <2>2
<1> QED
  BY <1>3, <1>4, <1>5 DEF Ind

\* What Excuse does to one skill.
LEMMA ExcuseOne ==
  ASSUME TypeOK, NEW d \in Skills
  PROVE  /\ Excuse({d}) \in [Skills -> SUBSET {"main", "pages"}]
         /\ Excuse({d})[d] = {"main", "pages"}
         /\ \A c \in Skills \ {d} : Excuse({d})[c] = excused[c]
<1>1. excused \in [Skills -> SUBSET {"main", "pages"}]
  BY DEF TypeOK
<1>2. \A c \in Skills :
         (IF c \in {d} THEN {"main", "pages"} ELSE excused[c]) \in SUBSET {"main", "pages"}
  BY <1>1
<1> QED
  BY <1>1, <1>2 DEF Excuse

\* A skill fails.
LEMMA SkillFailsInd ==
  ASSUME Ind, proc.at \in Writing, SkillFails(proc.skill), UNCHANGED <<main, pages>>
  PROVE  Ind'
<1>1. proc.skill \in Skills /\ TypeOK
  BY DEF Ind, ShowsSound
<1>2. excused' = Excuse({proc.skill}) /\ NextSkill /\ UNCHANGED <<record, catalog>>
  BY DEF SkillFails
<1>3. main \in [Skills -> Main \cup {Absent, Torn}]
      /\ pages \in [Skills -> [Files -> Page \cup {Absent, Torn}]]
  BY <1>1 DEF TypeOK
<1> QED
  BY <1>1, <1>2, <1>3, ExcuseOne, LeaveInd

\* A skill begins, or its data cannot be built.
LEMMA BeginSkillInd ==
  ASSUME Ind, NEW d \in Skills, BeginSkill(d)
  PROVE  Ind'
<1>1. proc \in Process /\ proc.at = "skills" /\ d \in proc.todo /\ ~proc.changed
  BY DEF Ind, TypeOK, BeginSkill, CommandSound
<1>2. CASE proc' = [proc EXCEPT !.todo = @ \ {d}] /\ excused' = Excuse({d}) /\ UNCHANGED main
  <2>1. /\ proc' \in Process /\ proc'.at = "skills" /\ proc'.todo = proc.todo \ {d}
        /\ proc'.cmd = proc.cmd /\ proc'.references = proc.references /\ ~proc'.changed
        /\ proc'.skill = proc.skill
    BY <1>1, <1>2 DEF Process
  <2>2. UNCHANGED <<record, catalog, pages, main>> /\ TypeOK
    BY <1>2 DEF BeginSkill, Ind
  <2>3. TypeOK'
    BY <1>2, <2>1, <2>2, ExcuseOne DEF TypeOK
  <2>4. CommandSound' /\ ShowsSound' /\ WrittenSound'
    BY <1>1, <2>1 DEF Ind, CommandSound, ShowsSound, WrittenSound, Writing
  <2>5. SkillsSound'
    <3> SUFFICES ASSUME NEW c \in Skills
                 PROVE  /\ main'[c] = Absent => excused'[c] = {"main", "pages"}
                        /\ MainDue(c)' \/ "main" \in excused'[c] \/ MainCurrent(c)'
                        /\ PagesDue(c)' \/ "pages" \in excused'[c] \/ PagesCurrent(c)'
      BY DEF SkillsSound
    <3>1. CASE c = d
      BY <1>2, <2>2, <3>1, ExcuseOne
    <3>2. CASE c # d
      BY <1>1, <1>2, <2>1, <2>2, <3>2, ExcuseOne, OthersSound DEF Writing
    <3> QED
      BY <3>1, <3>2
  <2> QED
    BY <2>3, <2>4, <2>5 DEF Ind
<1>3. ASSUME NEW known \in {proc.offers, {}}, NEW readable \in SUBSET Installed,
             NEW auths \in SUBSET Installed,
             proc' = [proc EXCEPT !.at = "main", !.todo = @ \ {d}, !.skill = d, !.known = known,
                                  !.shows = [p \in Installed |->
                                                Shown(p, p \in readable, p \in auths)]],
             main' = [main EXCEPT ![d] = Torn], UNCHANGED <<excused, record, catalog, pages>>
      PROVE  Ind'
  <2> DEFINE shows == [p \in Installed |-> Shown(p, p \in readable, p \in auths)]
  <2>1. DOMAIN shows = Installed /\ \A p \in Installed : Current(p, shows[p])
    <3> SUFFICES ASSUME NEW p \in Installed
                 PROVE  Current(p, Shown(p, p \in readable, p \in auths))
      OBVIOUS
    <3> QED
      BY DEF Shown, Current
  <2>2. shows \in Lists
    <3>1. Installed \in SUBSET Plugins
      BY DEF Installed
    <3>2. ASSUME NEW p \in Installed
          PROVE  Shown(p, p \in readable, p \in auths) \in Shows
      <4>1. record[p] \in Records
        BY DEF Ind, TypeOK, Installed
      <4>2. record[p].look \in Looks
        BY <4>1 DEF Records
      <4> QED
        BY <4>2 DEF Shown, Shows
    <3>3. shows \in [Installed -> Shows]
      BY <3>2
    <3> QED
      BY <3>1, <3>3 DEF Lists
  <2>3. proc' = [proc EXCEPT !.at = "main", !.todo = @ \ {d}, !.skill = d, !.known = known,
                             !.shows = shows]
    BY <1>3
  <2> HIDE DEF shows
  <2>4. /\ proc' \in Process /\ proc'.at = "main" /\ proc'.todo = proc.todo \ {d}
        /\ proc'.cmd = proc.cmd /\ proc'.references = proc.references /\ ~proc'.changed
        /\ proc'.skill = d /\ proc'.shows = shows
    <3>1. known \in SUBSET Plugins
      BY <1>1 DEF Process
    <3> QED
      BY <1>1, <2>2, <2>3, <3>1 DEF Process
  <2>5. main' \in [Skills -> Main \cup {Absent, Torn}] /\ main'[d] = Torn
        /\ \A c \in Skills \ {d} : main'[c] = main[c]
    BY <1>3 DEF Ind, TypeOK
  <2>6. TypeOK'
    BY <1>3, <2>4, <2>5 DEF Ind, TypeOK
  <2>7. CommandSound'
    BY <1>1, <2>4 DEF Ind, CommandSound, Writing
  <2>8. ShowsSound'
    BY <1>3, <2>1, <2>4, <2>5, SkillPagesAssumption DEF ShowsSound, Current, Installed
  <2>9. WrittenSound'
    BY <2>4 DEF WrittenSound
  <2>10. SkillsSound'
    <3> SUFFICES ASSUME NEW c \in Skills
                 PROVE  /\ main'[c] = Absent => excused'[c] = {"main", "pages"}
                        /\ MainDue(c)' \/ "main" \in excused'[c] \/ MainCurrent(c)'
                        /\ PagesDue(c)' \/ "pages" \in excused'[c] \/ PagesCurrent(c)'
      BY DEF SkillsSound
    <3>1. CASE c = d
      <4>1. main'[c] # Absent /\ MainDue(c)'
        BY <2>4, <2>5, <3>1, SkillPagesAssumption DEF MainDue
      <4>2. CASE proc.references
        BY <2>4, <3>1, <4>1, <4>2 DEF PagesDue, Writing
      <4>3. CASE ~proc.references
        <5>1. ~PagesDue(d)
          BY <1>1, <4>3 DEF PagesDue, Changed
        <5>2. "pages" \in excused[d] \/ PagesCurrent(d)
          BY <5>1 DEF Ind, SkillsSound
        <5> QED
          BY <1>3, <3>1, <4>1, <5>2, PagesStay
      <4> QED
        BY <4>2, <4>3
    <3>2. CASE c # d
      BY <1>1, <1>3, <2>4, <2>5, <3>2, OthersSound DEF Writing
    <3> QED
      BY <3>1, <3>2
  <2> QED
    BY <2>6, <2>7, <2>8, <2>9, <2>10 DEF Ind
<1> QED
  BY <1>2, <1>3 DEF BeginSkill

\* SKILL.md is written, of what is recorded now.
LEMMA WriteMainInd ==
  ASSUME Ind, WriteMain
  PROVE  Ind'
<1>1. /\ proc \in Process /\ proc.at = "main" /\ ~proc.changed /\ proc.skill \in Skills
      /\ TypeOK
  BY DEF Ind, TypeOK, WriteMain, CommandSound, ShowsSound, Writing
<1>2. CASE SkillFails(proc.skill) /\ UNCHANGED main
  BY <1>1, <1>2, SkillFailsInd DEF WriteMain, Writing
<1>3. CASE /\ main' = [main EXCEPT ![proc.skill] =
                          [shows |-> proc.shows, offers |-> proc.known \ Installed,
                           known |-> proc.known]]
           /\ excused' = [excused EXCEPT ![proc.skill] = @ \ {"main"}]
           /\ IF proc.references
              THEN proc' = [proc EXCEPT !.at = "pages", !.left = DOMAIN proc.shows]
              ELSE NextSkill
           /\ UNCHANGED <<record, catalog>>
  <2> PICK d \in Skills : d = proc.skill
    BY <1>1
  <2> DEFINE page == [shows |-> proc.shows, offers |-> proc.known \ Installed,
                      known |-> proc.known]
  <2>1. UNCHANGED <<record, catalog, pages>>
    BY <1>3 DEF WriteMain
  <2>2. /\ DOMAIN proc.shows = Installed
        /\ \A p \in Installed : Current(p, proc.shows[p])
    BY <1>1 DEF Ind, ShowsSound, Writing
  <2>3. page \in Main /\ page # Absent /\ page # Torn
    <3>1. page \in Main
      BY <1>1 DEF Main, Process
    <3> QED
      BY <3>1, SkillPagesAssumption
  <2>4. /\ main' \in [Skills -> Main \cup {Absent, Torn}] /\ main'[d] = page
        /\ \A c \in Skills \ {d} : main'[c] = main[c]
    BY <1>1, <1>3, <2>3 DEF TypeOK
  <2>5. /\ excused' \in [Skills -> SUBSET {"main", "pages"}]
        /\ excused'[d] = excused[d] \ {"main"}
        /\ \A c \in Skills \ {d} : excused'[c] = excused[c]
    <3>1. excused \in [Skills -> SUBSET {"main", "pages"}]
      BY <1>1 DEF TypeOK
    <3> QED
      BY <1>1, <1>3, <3>1
  <2>6. MainCurrent(d)'
    <3>1. /\ main'[d].shows = proc.shows /\ main'[d].known = proc.known
          /\ main'[d].offers = proc.known \ Installed
      BY <2>4
    <3>2. \A p \in Installed' : Current(p, main[d].shows[p])'
      <4> PICK shows : shows = proc.shows
        OBVIOUS
      <4>1. \A p \in Installed' : Current(p, shows[p])'
        BY <2>1, <2>2, CurrentStays DEF Installed
      <4>2. shows = main'[d].shows
        BY <3>1
      <4> QED
        BY <4>1, <4>2 DEF Current
    <3>3. DOMAIN main'[d].shows = Installed' /\ main'[d].offers = main'[d].known \ Installed'
      BY <2>1, <2>2, <3>1 DEF Installed
    <3> QED
      BY <2>3, <2>4, <3>2, <3>3 DEF MainCurrent
  <2>7. pages \in [Skills -> [Files -> Page \cup {Absent, Torn}]] /\ pages' = pages
    BY <1>1, <2>1 DEF TypeOK
  <2> HIDE DEF page
  <2>8. CASE proc.references
    <3>1. proc' = [proc EXCEPT !.at = "pages", !.left = Installed]
      BY <1>3, <2>2, <2>8
    <3>2. Installed \in SUBSET Plugins
      BY DEF Installed
    <3>3. /\ proc' \in Process /\ proc'.at = "pages" /\ proc'.todo = proc.todo
          /\ proc'.cmd = proc.cmd /\ proc'.references = proc.references /\ ~proc'.changed
          /\ proc'.skill = d /\ proc'.shows = proc.shows /\ proc'.left = Installed
      BY <1>1, <3>1, <3>2 DEF Process
    <3>4. TypeOK'
      BY <1>1, <2>1, <2>4, <2>5, <3>3 DEF TypeOK
    <3>5. CommandSound'
      BY <1>1, <2>8, <3>3 DEF Ind, CommandSound, Writing
    <3>6. ShowsSound' /\ WrittenSound'
      <4> PICK shows : shows = proc.shows
        OBVIOUS
      <4>1. Installed' = Installed /\ \A p \in Installed : Current(p, shows[p])'
        BY <2>1, <2>2, CurrentStays
      <4> QED
        BY <1>1, <2>2, <2>3, <2>4, <3>3, <4>1 DEF Ind, ShowsSound, WrittenSound, Writing
    <3>7. SkillsSound'
      <4> SUFFICES ASSUME NEW c \in Skills
                   PROVE  /\ main'[c] = Absent => excused'[c] = {"main", "pages"}
                          /\ MainDue(c)' \/ "main" \in excused'[c] \/ MainCurrent(c)'
                          /\ PagesDue(c)' \/ "pages" \in excused'[c] \/ PagesCurrent(c)'
        BY DEF SkillsSound
      <4>1. CASE c = d
        BY <2>3, <2>4, <2>6, <2>8, <3>3, <4>1 DEF PagesDue, Writing
      <4>2. CASE c # d
        BY <1>1, <2>1, <2>4, <2>5, <2>7, <3>3, <4>2, OthersSound DEF Writing
      <4> QED
        BY <4>1, <4>2
    <3> QED
      BY <3>4, <3>5, <3>6, <3>7 DEF Ind
  <2>9. CASE ~proc.references
    <3>1. NextSkill
      BY <1>3, <2>9
    <3>2. ~PagesDue(d)
      BY <1>1, <2>9 DEF PagesDue, Changed
    <3>3. "pages" \in excused'[d] \/ PagesCurrent(d)'
      <4>1. "pages" \in excused[d] \/ PagesCurrent(d)
        BY <1>1, <3>2 DEF Ind, SkillsSound
      <4> QED
        BY <1>1, <2>1, <2>5, <4>1, PagesStay
    <3>4. main'[d] # Absent
      BY <2>3, <2>4
    <3> QED
      BY <1>1, <2>1, <2>4, <2>5, <2>6, <2>7, <3>1, <3>3, <3>4, LeaveInd DEF Writing
  <2> QED
    BY <2>8, <2>9
<1> QED
  BY <1>2, <1>3 DEF WriteMain

\* The page that a plugin is shown on is one of the two it may have.
LEMMA NameType ==
  ASSUME NEW p \in Plugins, NEW shown
  PROVE  FileOf(p, shown) \in Files /\ FileOf(p, shown) \in {LinkFile[p], PageFile[p]}
  BY SkillPagesAssumption DEF FileOf

\* A page of the skill is written.
LEMMA PageWritten ==
  ASSUME Ind, proc.at \in {"pages", "page"}, NEW f \in Files,
         NEW content \in Page \cup {Absent, Torn},
         pages' = [pages EXCEPT ![proc.skill][f] = content]
  PROVE  /\ proc.skill \in Skills
         /\ pages' \in [Skills -> [Files -> Page \cup {Absent, Torn}]]
         /\ pages'[proc.skill][f] = content
         /\ \A g \in Files \ {f} : pages'[proc.skill][g] = pages[proc.skill][g]
         /\ \A c \in Skills \ {proc.skill} : pages'[c] = pages[c]
<1>1. proc.skill \in Skills /\ TypeOK
  BY DEF Ind, ShowsSound, Writing
<1>2. pages[proc.skill] \in [Files -> Page \cup {Absent, Torn}]
  BY <1>1 DEF TypeOK
<1>3. pages' = [pages EXCEPT ![proc.skill] = [@ EXCEPT ![f] = content]]
  OBVIOUS
<1>4. [pages[proc.skill] EXCEPT ![f] = content] \in [Files -> Page \cup {Absent, Torn}]
  BY <1>2
<1> QED
  BY <1>1, <1>2, <1>3, <1>4 DEF TypeOK

\* A step within the pages of a skill leaves all but its pages alone.
LEMMA WithinInd ==
  ASSUME Ind, proc.at \in {"pages", "page"}, proc' \in Process,
         proc'.at \in {"pages", "page"}, UNCHANGED <<record, catalog, main, excused>>,
         proc'.todo = proc.todo, proc'.cmd = proc.cmd, proc'.references = proc.references,
         proc'.changed = proc.changed, proc'.skill = proc.skill, proc'.shows = proc.shows,
         pages' \in [Skills -> [Files -> Page \cup {Absent, Torn}]],
         \A c \in Skills \ {proc.skill} : pages'[c] = pages[c],
         WrittenSound'
  PROVE  Ind'
<1>1. proc.skill \in Skills /\ TypeOK /\ proc.references /\ ~proc.changed
  BY DEF Ind, ShowsSound, CommandSound, Writing
<1>2. TypeOK'
  BY <1>1 DEF TypeOK
<1>3. CommandSound' /\ ShowsSound'
  BY <1>1 DEF Ind, CommandSound, ShowsSound, Current, Installed, Writing
<1>4. SkillsSound'
  <2> SUFFICES ASSUME NEW c \in Skills
               PROVE  /\ main'[c] = Absent => excused'[c] = {"main", "pages"}
                      /\ MainDue(c)' \/ "main" \in excused'[c] \/ MainCurrent(c)'
                      /\ PagesDue(c)' \/ "pages" \in excused'[c] \/ PagesCurrent(c)'
    BY DEF SkillsSound
  <2>1. CASE c = proc.skill
    <3>1. PagesDue(c)'
      BY <1>1, <2>1 DEF PagesDue, Writing
    <3>2. /\ main[c] = Absent => excused[c] = {"main", "pages"}
          /\ MainDue(c) \/ "main" \in excused[c] \/ MainCurrent(c)
      BY DEF Ind, SkillsSound
    <3>3. (MainDue(c) => MainDue(c)') /\ (MainCurrent(c) => MainCurrent(c)')
      BY <1>1, MainStays DEF MainDue, Changed
    <3> QED
      BY <3>1, <3>2, <3>3
  <2>2. CASE c # proc.skill
    BY <1>1, <2>2, OthersSound DEF Writing
  <2> QED
    BY <2>1, <2>2
<1> QED
  BY <1>2, <1>3, <1>4 DEF Ind

\* A page is truncated; it is the one that p has to be shown on.
LEMMA BeginPageInd ==
  ASSUME Ind, NEW p \in Plugins, BeginPage(p)
  PROVE  Ind'
<1>1. /\ proc \in Process /\ proc.at = "pages" /\ p \in proc.left
      /\ UNCHANGED <<record, catalog, main, excused>>
  BY DEF Ind, TypeOK, BeginPage
<1>2. PICK f \in Files : f = Name(p)
  BY NameType DEF Name
<1>3. pages' = [pages EXCEPT ![proc.skill][f] = Torn]
  BY <1>2 DEF BeginPage, Name
<1>4. /\ proc.skill \in Skills
      /\ pages' \in [Skills -> [Files -> Page \cup {Absent, Torn}]]
      /\ \A g \in Files \ {f} : pages'[proc.skill][g] = pages[proc.skill][g]
      /\ \A c \in Skills \ {proc.skill} : pages'[c] = pages[c]
  BY <1>1, <1>3, PageWritten
<1>5. proc' = [proc EXCEPT !.at = "page", !.left = @ \ {p}, !.page = p]
  BY DEF BeginPage
<1>6. /\ proc' \in Process /\ proc'.at = "page" /\ proc'.left = proc.left \ {p}
      /\ proc'.page = p /\ proc'.todo = proc.todo /\ proc'.cmd = proc.cmd
      /\ proc'.references = proc.references /\ proc'.changed = proc.changed
      /\ proc'.skill = proc.skill /\ proc'.shows = proc.shows
  BY <1>1, <1>5 DEF Process
<1>7. WrittenSound'
  <2>1. /\ Installed' = Installed /\ proc.left \subseteq Installed
        /\ \A q \in Installed \ proc.left : Done(proc.skill, Name(q))
    BY <1>1 DEF Ind, WrittenSound, Installed
  <2>2. ASSUME NEW q \in Installed \ proc'.left
        PROVE  Name(q)' = Name(p)' \/ Done(proc.skill, Name(q))'
    <3>1. /\ Name(q)' = Name(q) /\ Name(p)' = Name(p)
          /\ Name(q) \in Files
      BY <1>6, <2>2, NameType DEF Name, FileOf, Installed
    <3>2. CASE q = p \/ Name(q) = f
      BY <1>2, <3>1, <3>2
    <3>3. CASE q # p /\ Name(q) # f
      <4>1. Done(proc.skill, Name(q))
        BY <1>6, <2>1, <2>2, <3>3
      <4>2. pages'[proc.skill][Name(q)] = pages[proc.skill][Name(q)]
        BY <1>4, <3>1, <3>3
      <4> QED
        BY <1>1, <1>6, <2>1, <3>1, <4>1, <4>2 DEF Done, PageCurrent, Current
    <3> QED
      BY <3>2, <3>3
  <2> QED
    BY <1>1, <1>6, <2>1, <2>2 DEF WrittenSound
<1> QED
  BY <1>1, <1>4, <1>6, <1>7, WithinInd

\* A page is written, of what is recorded now.
LEMMA WritePageInd ==
  ASSUME Ind, WritePage
  PROVE  Ind'
<1>1. proc \in Process /\ proc.at = "page"
  BY DEF Ind, TypeOK, WritePage
<1>2. CASE SkillFails(proc.skill) /\ UNCHANGED pages
  BY <1>1, <1>2, SkillFailsInd DEF WritePage, Writing
<1>3. CASE /\ pages' = [pages EXCEPT ![proc.skill][Name(proc.page)] =
                           [of |-> proc.page, shows |-> proc.shows[proc.page]]]
           /\ proc' = [proc EXCEPT !.at = "pages", !.page = Absent]
           /\ UNCHANGED <<record, catalog, excused>>
  <2>1. /\ proc.page \in Installed \ proc.left /\ proc.left \subseteq Installed
        /\ \A q \in Installed \ proc.left :
              Name(q) = Name(proc.page) \/ Done(proc.skill, Name(q))
    BY <1>1 DEF Ind, WrittenSound
  <2>2. Current(proc.page, proc.shows[proc.page])
    BY <1>1, <2>1 DEF Ind, ShowsSound, Writing
  <2>10. proc.shows[proc.page] \in Shows
    <3>1. proc.shows \in Lists /\ DOMAIN proc.shows = Installed
      BY <1>1 DEF Ind, TypeOK, Process, ShowsSound, Writing
    <3> QED
      BY <2>1, <3>1 DEF Lists
  <2> PICK p \in Plugins, f \in Files, shown \in Shows :
         p = proc.page /\ f = Name(p) /\ shown = proc.shows[p]
    BY <2>1, <2>10, NameType DEF Installed, Name
  <2> DEFINE content == [of |-> p, shows |-> shown]
  <2>3. content \in Page /\ content # Absent /\ content # Torn
    <3>1. content \in Page
      BY DEF Page
    <3> QED
      BY <3>1, SkillPagesAssumption
  <2>4. content.of = p /\ content.shows = shown /\ content = [of |-> p, shows |-> proc.shows[p]]
    OBVIOUS
  <2>5. pages' = [pages EXCEPT ![proc.skill][f] = content]
    BY <1>3, <2>4
  <2> HIDE DEF content
  <2>6. /\ pages' \in [Skills -> [Files -> Page \cup {Absent, Torn}]]
        /\ pages'[proc.skill][f] = content
        /\ \A g \in Files \ {f} : pages'[proc.skill][g] = pages[proc.skill][g]
        /\ \A c \in Skills \ {proc.skill} : pages'[c] = pages[c]
    BY <1>1, <2>3, <2>5, PageWritten
  <2>7. /\ proc' \in Process /\ proc'.at = "pages" /\ proc'.left = proc.left
        /\ proc'.todo = proc.todo /\ proc'.cmd = proc.cmd
        /\ proc'.references = proc.references /\ proc'.changed = proc.changed
        /\ proc'.skill = proc.skill /\ proc'.shows = proc.shows
    BY <1>1, <1>3 DEF Process
  <2>8. UNCHANGED <<record, catalog, excused, main>> /\ Installed' = Installed
    BY <1>3 DEF WritePage, Installed
  <2>9. WrittenSound'
    <3>1. ASSUME NEW q \in Installed \ proc.left
          PROVE  Done(proc.skill, Name(q))'
      <4>1. Name(q)' = Name(q) /\ Name(q) \in Files
        BY <2>7, NameType DEF Name, FileOf, Installed
      <4>2. CASE Name(q) = f
        <5>1. pages'[proc'.skill][Name(q)'] = content
          BY <2>6, <2>7, <4>1, <4>2
        <5>2. Current(content.of, content.shows)'
          BY <2>2, <2>4, <2>8, CurrentStays
        <5>3. Name(q)' = FileOf(content.of, content.shows)
          BY <2>4, <4>1, <4>2 DEF Name
        <5> QED
          BY <2>3, <5>1, <5>2, <5>3 DEF Done, PageCurrent
      <4>3. CASE Name(q) # f
        <5>1. Done(proc.skill, Name(q))
          BY <2>1, <3>1, <4>3
        <5>2. pages'[proc'.skill][Name(q)'] = pages[proc.skill][Name(q)]
          BY <2>6, <2>7, <4>1, <4>3
        <5> QED
          BY <2>7, <2>8, <4>1, <5>1, <5>2 DEF Done, PageCurrent, Current
      <4> QED
        BY <4>2, <4>3
    <3> QED
      BY <2>1, <2>7, <2>8, <3>1 DEF WrittenSound
  <2> QED
    BY <1>1, <2>6, <2>7, <2>8, <2>9, WithinInd
<1> QED
  BY <1>2, <1>3 DEF WritePage, Name

\* The pages that were not written are removed: those left show what is installed.
LEMMA PruneInd ==
  ASSUME Ind, Prune
  PROVE  Ind'
<1>1. /\ proc \in Process /\ proc.at = "pages" /\ proc.left = {} /\ TypeOK
      /\ UNCHANGED <<record, catalog, main>> /\ NextSkill /\ Installed' = Installed
  BY DEF Ind, TypeOK, Prune, Installed
<1>2. PICK d \in Skills : d = proc.skill
  BY <1>1 DEF Ind, ShowsSound, Writing
<1>3. PICK kept \in SUBSET {f \in Files \ Written : pages[d][f] # Absent} :
         /\ pages' = [pages EXCEPT ![d] =
               [f \in Files |-> IF f \in {g \in Files \ Written : pages[d][g] # Absent} \ kept
                                THEN Absent ELSE @[f]]]
         /\ excused' = [excused EXCEPT ![d] =
               IF kept = {} THEN @ \ {"pages"} ELSE @ \cup {"pages"}]
  BY <1>2 DEF Prune
<1>4. /\ pages[d] \in [Files -> Page \cup {Absent, Torn}]
      /\ pages \in [Skills -> [Files -> Page \cup {Absent, Torn}]]
      /\ excused \in [Skills -> SUBSET {"main", "pages"}]
      /\ main \in [Skills -> Main \cup {Absent, Torn}]
  BY <1>1 DEF TypeOK
<1>5. /\ pages' \in [Skills -> [Files -> Page \cup {Absent, Torn}]]
      /\ \A f \in Files : f \in Written \/ f \in kept => pages'[d][f] = pages[d][f]
      /\ \A f \in Files : f \in Written \/ f \in kept \/ pages'[d][f] = Absent
      /\ \A c \in Skills \ {d} : pages'[c] = pages[c]
  <2> DEFINE new == [f \in Files |->
                       IF f \in {g \in Files \ Written : pages[d][g] # Absent} \ kept
                       THEN Absent ELSE pages[d][f]]
  <2>1. new \in [Files -> Page \cup {Absent, Torn}]
    BY <1>4
  <2>2. pages' = [pages EXCEPT ![d] = new]
    BY <1>3, <1>4
  <2>3. /\ \A f \in Files : f \in Written \/ f \in kept => new[f] = pages[d][f]
        /\ \A f \in Files : f \in Written \/ f \in kept \/ new[f] = Absent
    OBVIOUS
  <2> HIDE DEF new
  <2> QED
    BY <1>4, <2>1, <2>2, <2>3
<1>6. /\ excused' \in [Skills -> SUBSET {"main", "pages"}]
      /\ excused'[d] = IF kept = {} THEN excused[d] \ {"pages"} ELSE excused[d] \cup {"pages"}
      /\ \A c \in Skills \ {d} : excused'[c] = excused[c]
  <2>1. (IF kept = {} THEN excused[d] \ {"pages"} ELSE excused[d] \cup {"pages"})
           \in SUBSET {"main", "pages"}
    BY <1>4
  <2> QED
    BY <1>3, <1>4, <2>1
<1>7. /\ main[d] # Absent
      /\ "main" \in excused[d] \/ MainCurrent(d)
  <2>1. main[d] # Absent /\ ~MainDue(d)
    BY <1>1, <1>2 DEF Ind, ShowsSound, MainDue, Changed, Writing
  <2> QED
    BY <2>1 DEF Ind, SkillsSound
<1>8. "main" \in excused'[d] \/ MainCurrent(d)'
  BY <1>1, <1>6, <1>7, MainStays
<1>9. "pages" \in excused'[d] \/ PagesCurrent(d)'
  <2>1. CASE kept # {}
    BY <1>6, <2>1
  <2>2. CASE kept = {}
    <3>1. /\ DOMAIN proc.shows = Installed
          /\ \A p \in Installed : Done(d, Name(p))
      BY <1>1, <1>2 DEF Ind, ShowsSound, WrittenSound, Writing
    <3>2. Written = {Name(p) : p \in Installed}
      BY <3>1 DEF Written, Name
    <3>3. \A f \in Files : f \in Written => Done(d, f) /\ pages'[d][f] = pages[d][f]
      BY <1>5, <3>1, <3>2
    <3>4. \A f \in Files : pages'[d][f] # Absent =>
             PageCurrent(pages[d][f], f)'
      BY <1>1, <1>5, <2>2, <3>3 DEF Done, PageCurrent, Current
    <3>5. \A p \in Installed : \E f \in {LinkFile[p], PageFile[p]} : pages'[d][f] # Absent
      <4> SUFFICES ASSUME NEW p \in Installed
                   PROVE  \E f \in {LinkFile[p], PageFile[p]} : pages'[d][f] # Absent
        OBVIOUS
      <4>1. Name(p) \in Files /\ Name(p) \in {LinkFile[p], PageFile[p]}
        BY NameType DEF Name, Installed
      <4>2. pages'[d][Name(p)] # Absent
        BY <3>2, <3>3, <4>1 DEF Done
      <4> QED
        BY <4>1, <4>2
    <3> QED
      BY <1>1, <3>4, <3>5 DEF PagesCurrent
  <2> QED
    BY <2>1, <2>2
<1>10. main'[d] # Absent
  BY <1>1, <1>7
<1> QED
  BY <1>1, <1>2, <1>4, <1>5, <1>6, <1>8, <1>9, <1>10, LeaveInd DEF Writing
-----------------------------------------------------------------------------
(***************************************************************************)
(* The theorems.                                                           *)
(***************************************************************************)
\* Every step keeps the invariant.
LEMMA NextInd ==
  ASSUME Ind, [Next]_vars
  PROVE  Ind'
<1>1. CASE UNCHANGED vars
  <2>1. UNCHANGED <<record, catalog, main, pages, excused, proc>>
    BY <1>1 DEF vars
  <2>2. TypeOK' /\ CommandSound'
    BY <2>1 DEF Ind, TypeOK, CommandSound
  <2>3. ShowsSound'
    BY <2>1 DEF Ind, ShowsSound, Installed, Current
  <2>5. WrittenSound'
    BY <2>1 DEF Ind, WrittenSound, Installed, Done, PageCurrent, Current, Name
  <2>4. SkillsSound'
    <3>1. \A d \in Skills :
             /\ MainDue(d)' = MainDue(d) /\ PagesDue(d)' = PagesDue(d)
             /\ (MainCurrent(d) => MainCurrent(d)') /\ (PagesCurrent(d) => PagesCurrent(d)')
      BY <2>1, MainStays, PagesStay DEF MainDue, PagesDue, Changed
    <3> QED
      BY <2>1, <3>1 DEF Ind, SkillsSound
  <2> QED
    BY <2>2, <2>3, <2>4, <2>5 DEF Ind
<1>2. CASE Next
  BY <1>2, BeginInd, FetchInd, CacheInd, DeleteInd, ChangeInd, FailInd, SucceedInd,
     BeginSkillInd, WriteMainInd, PruneInd, EndSkillsInd, WritePageInd, BeginPageInd, KillInd
     DEF Next
<1> QED
  BY <1>1, <1>2

\* The invariant holds.
LEMMA Invariance == Spec => []Ind
  BY InitInd, NextInd, PTL DEF Spec

\* Every variable keeps its type.
THEOREM TypeCorrect == Spec => []TypeOK
<1>1. Ind => TypeOK
  BY DEF Ind
<1> QED
  BY <1>1, Invariance, PTL

\* Between commands every SKILL.md that is not excused is current: no sequence of
\* commands, failures and kills leaves one behind.
THEOREM MainTheorem == Spec => []MainFollows
<1>1. Ind => MainFollows
  BY DEF Ind, CommandSound, SkillsSound, MainFollows, MainDue, Changed, Writing
<1> QED
  BY <1>1, Invariance, PTL

\* So are its reference pages, whatever pages plugins share.
THEOREM PagesTheorem == Spec => []PagesFollow
<1>1. Ind => PagesFollow
  BY DEF Ind, CommandSound, SkillsSound, PagesFollow, PagesDue, Changed, Writing
<1> QED
  BY <1>1, Invariance, PTL
=============================================================================
