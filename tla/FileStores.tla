----------------------------- MODULE FileStores -----------------------------
(***************************************************************************)
(* The two stores of plain files beside the state file: the snapshots of   *)
(* the datasource index (management/local/index.go, built by the jobs of   *)
(* pluginbinding/index.go) and the blob store of one plugin instance       *)
(* (blobWrite, blobRead, blob put).  Both write in place with os.WriteFile,*)
(* which truncates a file before it fills it, without a rename or a lock,  *)
(* so that writers in several processes, a failure or a kill between two   *)
(* steps are visible to readers.  An index build writes one snapshot per   *)
(* index, a blob write its content and then its info file.                 *)
(***************************************************************************)
EXTENDS Naturals, Sequences, FiniteSets, SequencesExt, FiniteSetsExt, Orders

CONSTANTS Writers,      \* processes that write: index builds, blob writes
          Jobs,         \* the indexes of the plugin's jobs, in order; names are
                        \* numbers, in the order of the names
          Selectors,    \* the sets of indexes a build may select; {} is all
          IndexPath,    \* IndexPath[i]: pathSegment(i).json
          Versions,     \* states of the plugin's data
          Contents,     \* what a blob may hold
          Decoded,      \* Decoded[v], for a content v that is JSON: the ref and the
                        \* path that it names
          Blank,        \* no ref or path is named
          Data,         \* Data[v][i]: records job i finds in version v
          Refs,         \* blob refs
          ContentPath,  \* ContentPath[r]: the file that holds r's content
          InfoPath,     \* InfoPath[r]: the file that describes r
          Stopwords,    \* words a search ignores
          URLs,         \* words that look like a URL
          Asks          \* the searches a reader makes

\* What a field scores when it equals, begins with or contains the query.
Weight == [id |-> <<1000, 850, 650>>, title |-> <<950, 800, 600>>,
           entity |-> <<500, 400, 300>>, links |-> <<450, 350, 250>>,
           record |-> <<900, 750, 550>>, other |-> <<100, 100, 100>>]

\* A record has an id, an entity and texts: pairs of a kind of field and the words in
\* it.  Ids, entities and words are numbers, in their order.
Texted == SUBSET ((DOMAIN Weight) \X Seq(Nat))
Records == [id : Nat, entity : Nat, texts : Texted]

Nobody == "nobody"   \* whoever wrote last to a file is gone

Indexes == Range(Jobs)
Paths == Range(IndexPath) \cup Range(ContentPath) \cup Range(InfoPath)

ASSUME FileStoresAssumption ==
    /\ Nobody \notin Writers
    /\ Jobs \in Seq(Nat \ {0}) /\ IsInjective(Jobs)
    /\ Selectors \subseteq SUBSET Indexes
    /\ DOMAIN IndexPath = Indexes
    /\ DOMAIN ContentPath = Refs /\ DOMAIN InfoPath = Refs
    /\ DOMAIN Decoded \subseteq Contents /\ Blank \notin Refs \cup Paths
    /\ Range(Decoded) \subseteq [ref : Refs \cup {Blank}, path : Paths \cup {Blank}]
    /\ \A r \in Refs : ContentPath[r] # InfoPath[r]
    /\ Range(IndexPath) \cap (Range(ContentPath) \cup Range(InfoPath)) = {}
    /\ \A v \in Versions, i \in Indexes : Data[v][i] \in Seq(Records)
    /\ Asks \subseteq [index : Nat, entity : Nat, query : Seq(Nat), limit : Nat]

VARIABLES
    files,   \* files[p]: what file p holds and, of those at work, who wrote to
             \* it last (a history of the writes, for ReportTrue)
    writer   \* writer[w]: what w has still to write, and has written

storeVars == <<files, writer>>

Absent == [kind |-> "absent"]
Empty == [kind |-> "empty"]
\* What is left when two processes fill one file: longer than either meant it.
Mixed == [kind |-> "mixed"]
Snapshot(i, records) == [kind |-> "snapshot", index |-> i, records |-> records]
Content(v) == [kind |-> "content", value |-> v]
Info(r) == [kind |-> "info", ref |-> r]

AtRest == [at |-> "idle", todo |-> <<>>, done |-> <<>>]

StoresInit ==
    /\ files = [p \in Paths |-> [holds |-> Absent, by |-> Nobody]]
    /\ writer = [w \in Writers |-> AtRest]
-----------------------------------------------------------------------------
(***************************************************************************)
(* Writing.                                                                *)
(***************************************************************************)
Write(p, c) == [path |-> p, content |-> c]

\* NewIndexSelector: no selector stands for every job.
Includes(selector, i) == selector = {} \/ i \in selector

\* RunIndexJobs: the selected jobs, all of them or none; a failing job fails the
\* build before anything is stored.
IndexWrites(selector, v) ==
    LET selected == Kept(Jobs, {n \in DOMAIN Jobs : Includes(selector, Jobs[n])})
    IN [n \in DOMAIN selected |->
           Write(IndexPath[selected[n]], Snapshot(selected[n], Data[v][selected[n]]))]

BuildIndex(w) ==
    /\ writer[w].at = "idle"
    /\ \E selector \in Selectors, v \in Versions :
          writer' = [writer EXCEPT ![w] =
                       [at |-> "truncate", todo |-> IndexWrites(selector, v),
                        done |-> <<>>]]
    /\ UNCHANGED files

\* Mutant: the description is written before what it describes.
BlobWrites_InfoFirst(r, v) == <<Write(InfoPath[r], Info(r)),
                                Write(ContentPath[r], Content(v))>>
BlobWrites(r, v) == <<Write(ContentPath[r], Content(v)), Write(InfoPath[r], Info(r))>>

\* Without overwrite an existing content file is an error.
BlobWrite(w) ==
    /\ writer[w].at = "idle"
    /\ \E r \in Refs, v \in Contents, overwrite \in BOOLEAN :
          /\ overwrite \/ files[ContentPath[r]].holds = Absent
          /\ writer' = [writer EXCEPT ![w] =
                          [at |-> "truncate", todo |-> BlobWrites(r, v),
                           done |-> <<>>]]
    /\ UNCHANGED files

\* os.WriteFile opens the file with O_TRUNC ...
Truncate(w) ==
    /\ writer[w].at = "truncate" /\ writer[w].todo # <<>>
    /\ files' = [files EXCEPT ![Head(writer[w].todo).path] =
                    [holds |-> Empty, by |-> w]]
    /\ writer' = [writer EXCEPT ![w].at = "fill"]

\* ... and fills it from the start, whatever others did to it meanwhile.
Fill(w) ==
    LET next == Head(writer[w].todo)
    IN /\ writer[w].at = "fill"
       /\ \E outcome \in {next.content}
                         \cup (IF files[next.path].holds = Empty THEN {} ELSE {Mixed}) :
             files' = [files EXCEPT ![next.path] = [holds |-> outcome, by |-> w]]
       /\ writer' = [writer EXCEPT ![w] =
                       [at |-> "truncate", todo |-> Tail(@.todo),
                        done |-> Append(@.done, next)]]

\* The writer is through, and forgotten as the last one at its files.
Leave(w) ==
    /\ writer' = [writer EXCEPT ![w] = AtRest]
    /\ files' = [p \in Paths |->
                   IF files[p].by = w THEN [files[p] EXCEPT !.by = Nobody] ELSE files[p]]

\* Mutant: an error of one file does not stop the build.
Stop_Continue(w) ==
    /\ writer[w].todo # <<>>
    /\ writer' = [writer EXCEPT ![w] =
                    [at |-> "truncate", todo |-> Tail(@.todo),
                     done |-> Append(@.done, Head(@.todo))]]
    /\ UNCHANGED files
\* An error, reported, or a kill: what was written so far stays.
Stop(w) == writer[w].todo # <<>> /\ Leave(w)

\* Success is reported once everything is written.
Finish(w) ==
    /\ writer[w].at = "truncate" /\ writer[w].todo = <<>>
    /\ Leave(w)

StoresNext ==
    \E w \in Writers :
       BuildIndex(w) \/ BlobWrite(w) \/ Truncate(w) \/ Fill(w) \/ Stop(w) \/ Finish(w)

StoresSpec == StoresInit /\ [][StoresNext]_storeVars
-----------------------------------------------------------------------------
(***************************************************************************)
(* Reading the index.                                                      *)
(***************************************************************************)
IndexFiles == {p \in Range(IndexPath) : files[p].holds # Absent}

\* loadIndexSnapshots fails at the first file that does not decode.
Readable == \A p \in IndexFiles : files[p].holds.kind = "snapshot"

Snapshots ==
    LET held == {files[p].holds : p \in IndexFiles}
    IN InOrder(held, {p \in held \X held : p[1].index < p[2].index})

RecordsOf(snapshots) == FlattenSeq([n \in DOMAIN snapshots |-> snapshots[n].records])

OfEntity(r, entity) == entity = 0 \/ r.entity = entity

\* selectedIndexSnapshots: a named index, else all if they have the entity at all.
Selected(snapshots, ask) ==
    IF ask.index # 0 THEN Kept(snapshots, {n \in DOMAIN snapshots : snapshots[n].index = ask.index})
    ELSE IF \E r \in Range(RecordsOf(snapshots)) : OfEntity(r, ask.entity)
         THEN snapshots ELSE <<>>

\* CallDatasource: the index answers if it has records and the selection does;
\* every other call goes on to the plugin.
Handled(snapshots, ask) ==
    RecordsOf(snapshots) # <<>> /\ Selected(snapshots, ask) # <<>>

Texts(r) == r.texts \cup {<<"id", <<r.id>>>>, <<"entity", <<r.entity>>>>}

Occurs(query, text) ==
    \E n \in 1 .. Len(text) : IsPrefix(query, SubSeq(text, n, Len(text)))

FieldScore(text, query) ==
    CASE text[2] = query -> Weight[text[1]][1]
      [] text[2] # query /\ IsPrefix(query, text[2]) -> Weight[text[1]][2]
      [] ~IsPrefix(query, text[2]) /\ Occurs(query, text[2]) -> Weight[text[1]][3]
      [] OTHER -> 0

DirectScore(r, query) == Max({FieldScore(text, query) : text \in Texts(r)})

SearchTerms(query) == Range(query) \ Stopwords

\* indexRecordTokenScore: the average of the terms, if all of them score.
TokenScore(r, query) ==
    LET terms == SearchTerms(query)
        score == [word \in terms |-> DirectScore(r, <<word>>)]
    IN IF Cardinality(terms) < 2 \/ (\E word \in terms : score[word] = 0) THEN 0
       ELSE MapThenSumSet(LAMBDA word : score[word], terms) \div Cardinality(terms)

Score(r, query) ==
    IF query = <<>> THEN 1
    ELSE IF DirectScore(r, query) # 0 \/ Range(query) \cap URLs # {}
         THEN DirectScore(r, query)
         ELSE TokenScore(r, query)

\* A record that a search found: its place among all of them, and its score.
Match(n, r, query) == [at |-> n, record |-> r, score |-> Score(r, query)]

\* searchIndexRecords: those of the entity that score.
Matches(snapshots, ask) ==
    LET all == RecordsOf(snapshots)
    IN {m \in {Match(n, all[n], ask.query) : n \in DOMAIN all} :
           OfEntity(m.record, ask.entity) /\ m.score > 0}

\* sortIndexRecords is stable.
Before(m, o) ==
    \/ m.score > o.score
    \/ /\ m.score = o.score
       /\ \/ m.record.entity < o.record.entity
          \/ /\ m.record.entity = o.record.entity
             /\ m.record.id < o.record.id \/ (m.record.id = o.record.id /\ m.at < o.at)

Sorted(matches) ==
    InOrder(matches, {p \in matches \X matches : Before(p[1], p[2])})

\* Mutant: the list is cut before it is sorted.
Ranked_CutFirst(matches, limit) ==
    Sorted({m \in matches : Cardinality({o \in matches : o.at < m.at}) < limit})
\* The limit is applied to what was sorted.
Ranked(matches, limit) ==
    SubSeq(Sorted(matches), 1, Min({limit, Cardinality(matches)}))

\* A search without a limit returns 20 records.
SearchLimit(ask) == IF ask.limit = 0 THEN 20 ELSE ask.limit

Search(snapshots, ask) ==
    LET top == Ranked(Matches(snapshots, ask), SearchLimit(ask))
    IN [n \in DOMAIN top |-> top[n].record]

\* The records of the entity, in the order of the files.
OfAll(snapshots, entity) ==
    LET all == RecordsOf(snapshots)
    IN Kept(all, {n \in DOMAIN all : OfEntity(all[n], entity)})

\* listIndexRecords: with a query a search, without one the first in file order, or
\* all of them.
List(snapshots, ask) ==
    LET all == OfAll(snapshots, ask.entity)
    IN IF ask.query # <<>> THEN Search(snapshots, ask)
       ELSE IF ask.limit = 0 THEN all ELSE SubSeq(all, 1, Min({ask.limit, Len(all)}))

\* Mutant: the first record with the id, of whatever entity.
Get_AnyEntity(snapshots, id, entity) ==
    LET at == SelectInSeq(RecordsOf(snapshots), LAMBDA r : r.id = id)
    IN IF at = 0 THEN {} ELSE {RecordsOf(snapshots)[at]}
\* getIndexRecord: the first record with the id and the entity.
Get(snapshots, id, entity) ==
    LET at == SelectInSeq(RecordsOf(snapshots), LAMBDA r :
                  r.id = id /\ OfEntity(r, entity))
    IN IF at = 0 THEN {} ELSE {RecordsOf(snapshots)[at]}

\* batchGetIndexRecords: a later record of one id replaces the earlier.
BatchGet(snapshots, id, entity) ==
    LET at == SelectLastInSeq(RecordsOf(snapshots), LAMBDA r :
                  r.id = id /\ OfEntity(r, entity))
    IN IF at = 0 THEN {} ELSE {RecordsOf(snapshots)[at]}

(***************************************************************************)
(* Reading a blob: its info file, then the content file named there.       *)
(***************************************************************************)
\* The description of a blob: its ref, and the path of its content.
Naming(ref, path) == [ref |-> ref, path |-> path]
OrDefault(name, default) == IF name = Blank THEN default ELSE name

\* blobInfoForRef: whatever JSON lies in the info file of r is its description; what
\* it does not name is filled in.
BlobInfo(r) ==
    LET held == files[InfoPath[r]].holds
    IN CASE held.kind = "info" -> {Naming(held.ref, ContentPath[held.ref])}
         [] held.kind = "content" /\ held.value \in DOMAIN Decoded ->
               LET blob == Decoded[held.value]
               IN {Naming(OrDefault(blob.ref, r), OrDefault(blob.path, ContentPath[r]))}
         [] OTHER -> {}

BlobRead(r) == {files[blob.path].holds : blob \in BlobInfo(r)} \ {Absent}
-----------------------------------------------------------------------------
(***************************************************************************)
(* Properties.                                                             *)
(***************************************************************************)
\* Whoever reports success, of an index build or of a blob write, left every
\* file he wrote as he meant it, unless another writer touched it since or both
\* filled it at once; of two indexes that share a file the later one holds.
ReportTrue ==
    [][\A w \in Writers :
          writer[w].at # "idle" /\ writer'[w] = AtRest /\ writer[w].todo = <<>> =>
             LET done == writer[w].done
             IN \A n \in DOMAIN done :
                   \/ \E later \in n + 1 .. Len(done) : done[later].path = done[n].path
                   \/ files[done[n].path].by # w
                   \/ files[done[n].path].holds \in {done[n].content, Mixed}]_storeVars

\* A blob that is described has content: at no moment, and after no kill, does a
\* reader find the description of a blob that was never written.  The exception is
\* JSON stored as 'r.json', whose content lies in the info file of 'r': it is taken
\* for the description of 'r', which may never have been written.
InfoHasContent ==
    \A r \in Refs : \A blob \in BlobInfo(r) :
       \/ BlobRead(r) # {}
       \/ \E q \in Refs : /\ ContentPath[q] = InfoPath[r]
                         /\ files[InfoPath[r]].holds \in {Content(v) : v \in Contents}

\* get and batch_get agree on every id that is unique within the entity asked
\* for, although one takes the first match and the other the last.
GetAgreesWithBatch ==
    Readable =>
       \A ask \in Asks :
          LET chosen == Selected(Snapshots, ask)
              all == RecordsOf(chosen)
              unique(id) == Cardinality({n \in DOMAIN all :
                               all[n].id = id /\ OfEntity(all[n], ask.entity)}) = 1
          IN \A r \in Range(all) :
                unique(r.id) =>
                   Get(chosen, r.id, ask.entity) = BatchGet(chosen, r.id, ask.entity)

\* Whatever the limit cuts off a search, no record left out scores better than one
\* returned, across all snapshots of the plugin.
TopMatches ==
    Readable =>
       \A ask \in Asks :
          Handled(Snapshots, ask) =>
             LET chosen == Selected(Snapshots, ask)
                 top == Range(List(chosen, ask))
             IN ask.query # <<>> =>
                   \A r \in Range(RecordsOf(chosen)) \ top, s \in top :
                      OfEntity(r, ask.entity) =>
                         Score(r, ask.query) <= Score(s, ask.query)
=============================================================================
