---------------------------- MODULE MCFileStores ----------------------------
(* Three indexes of which the first two share a file, a ref whose content is  *)
(* the info file of another, two versions of the data.                        *)
EXTENDS FileStores, TLC

Rec(id, entity, texts) == [id |-> id, entity |-> entity, texts |-> texts]

MCJobs == <<1, 2, 3>>
MCSelectors == {{}, {3}}
MCIndexPath == <<"ab.json", "ab.json", "c.json">>

\* Words 1 and 2 are ids, 11 and 12 entities, 21 .. 23 words, 20 a stopword, 29 a URL.
MCData ==
    "v1" :> << <<Rec(1, 11, {<<"title", <<21, 22>>>>})>>,
               <<Rec(2, 11, {<<"record", <<22>>>>, <<"other", <<23>>>>})>>,
               <<Rec(1, 12, {<<"links", <<29, 22>>>>}), Rec(2, 12, {<<"title", <<22>>>>})>> >>
 @@ "v2" :> << <<>>,
               <<Rec(2, 11, {<<"title", <<22, 21>>>>}), Rec(2, 11, {<<"other", <<22>>>>})>>,
               <<Rec(1, 11, {<<"record", <<21>>>>}), Rec(2, 12, {})>> >>

MCContentPath == "r" :> "r.bin" @@ "r.json" :> "r.json"
MCInfoPath == "r" :> "r.json" @@ "r.json" :> "r.json.json"

Ask(index, entity, query, limit) ==
    [index |-> index, entity |-> entity, query |-> query, limit |-> limit]
MCAsks ==
    {Ask(0, 0, <<22>>, 1), Ask(0, 11, <<20, 22, 21>>, 1), Ask(3, 12, <<22>>, 1),
     Ask(0, 12, <<>>, 1), Ask(0, 0, <<29, 22>>, 20), Ask(0, 11, <<22>>, 1), Ask(0, 0, <<22>>, 0),
     Ask(0, 0, <<>>, 0)}
\* One content is no JSON, one names no ref, one is what the description of another ref
\* looks like.
MCDecoded == "{}" :> [ref |-> "", path |-> ""]
          @@ "{ref}" :> [ref |-> "r.json", path |-> "r.json"]

\* The two stores have no file in common: at a time, only one of them has files.
OneStore ==
    \E paths \in {Range(IndexPath), Range(ContentPath) \cup Range(InfoPath)} :
       \A p \in paths : files[p].holds = Absent
WriterSymmetry == Permutations(Writers)
=============================================================================
