---------------------------- MODULE MCOperations ----------------------------
(* A plugin with operations that a flat schema describes well, badly or not   *)
(* at all, two datasources of one entity, two context providers, an observer  *)
(* and an auth test, and a plugin with commands of its own only.              *)
EXTENDS Operations

Field(types, enum, properties) == [types |-> types, enum |-> enum, properties |-> properties]
Text == Field({"string"}, {}, <<>>)
Number == Field({"integer"}, {}, <<>>)

Schema(required, properties, closed, example) ==
    [declared |-> TRUE, required |-> required, properties |-> properties,
     closed |-> closed, example |-> example]

Op(name, schema, readOnly, purposes) ==
    [name |-> name, schema |-> schema, readOnly |-> readOnly, purposes |-> purposes,
     effects |-> {}, access |-> {}]

Get == Op("get",
          Schema(<<"key">>,
                 "key" :> Text
                 @@ "fields" :> Field({"object"}, {},
                                      "level" :> Field({"string", "null"}, {}, <<>>)
                                      @@ "n" :> Number)
                 @@ "mode" :> Field({"string"}, {Str("a"), Num(4)}, <<>>),
                 TRUE, FALSE),
          TRUE, {"api"})
Move == Op("move",
           Schema(<<"key", "name">>, "key" :> Text @@ "name" :> Text, FALSE, TRUE),
           FALSE, {})
Ping == Op("ping", Schema(<<"endpoint_ref">>, <<>>, FALSE, FALSE), TRUE, {})
Bare(name) == Op(name, NoSchema, FALSE, {})

Option(spec) == [kind |-> "operation", spec |-> spec]
Source(name, entity) ==
    [kind |-> "datasource", capability |-> "get",
     spec |-> [name |-> name, entity |-> entity, capabilities |-> {}]]

MCEarlier ==
    [manifest |-> [operations |-> <<Get>>, datasources |-> <<>>, authFields |-> {}],
     options |-> <<Option(Get)>>]

MCDefinitions ==
    {[manifest |-> [operations |-> <<Bare("ghost"), Bare("get")>>, datasources |-> <<>>,
                   authFields |-> {}],
      options |-> <<Option([Get EXCEPT !.schema = NoSchema]), Option(Move), Option(Ping),
                    Option(Bare("x.auth.test")),
                    Source("s", "issue"), Source("t", "issue"), Source("t", "user"),
                    [kind |-> "provider", spec |-> "p1"], [kind |-> "provider", spec |-> "p2"],
                    [kind |-> "observer", spec |-> [phase |-> "start"]],
                    [kind |-> "observer", spec |-> [phase |-> NoName]],
                    [kind |-> "command", command |-> "auth.test", operation |-> "x.auth.test"]>>],
     MCEarlier,
     [manifest |-> [operations |-> <<>>, datasources |-> <<>>, authFields |-> {"token"}],
      options |-> <<>>]}

MCPreferences == {<<"api">>, <<"user", "api">>}
MCOutputs == {Arr(<<Obj("name" :> Str("a")), Obj("ok" :> <<"bool", FALSE>>)>>),
              Obj("ok" :> <<"bool", FALSE>>)}

Block(id, kind, priority) == [id |-> id, kind |-> kind, priority |-> priority]
MCFound == {<<>>, <<Block(1, "text", 1), Block(3, "code", 3)>>, <<Block(2, "text", 2)>>}

Inv(name, base, args, listing, dryRun, noValidate, fields, strict) ==
    [name |-> name, base |-> base, args |-> args, listing |-> listing, dryRun |-> dryRun,
     noValidate |-> noValidate, fields |-> fields, strict |-> strict]

\* 4 is the double next to 5, and 9 is too large for any.
MCDoubles == [n \in 1 .. 5 |-> IF n = 5 THEN 4 ELSE n]

KeyOnly == <<"key">> :> Str("k")
Deep == KeyOnly @@ <<"fields", "level">> :> Str("hi") @@ <<"fields", "n">> :> Num(5)
Arg(path, text, json) == [path |-> path, text |-> text, json |-> json]

MCArgs ==
    {<<Arg(<<"key">>, "1", Leaf(Num(1)))>>,
     <<Arg(<<"key">>, "quoted", Leaf(Str("1"))), Arg(<<"endpoint_ref">>, "", Nothing)>>,
     <<Arg(<<"fields", "level">>, "1", Leaf(Num(1))), Arg(<<"fields", "n">>, "5", Leaf(Num(5)))>>,
     <<Arg(<<"key">>, "k", Nothing), Arg(<<"key", "a">>, "9", Leaf(Num(9)))>>,
     <<Arg(<<"fields">>, "object", <<"n">> :> Num(5)), Arg(<<>>, "=1", Nothing)>>,
     <<Arg(<<"fields">>, "object", <<"n">> :> Num(5) @@ <<"level">> :> Str("lo"))>>,
     <<Arg(<<"endpoint_ref", "x">>, "1", Leaf(Num(1)))>>}

Bases ==
    {Nothing, Null, Leaf(Arr(<<>>)), NoFields, KeyOnly, <<"key">> :> Num(9),
     <<"mode">> :> Str("b") @@ <<"key">> :> Num(1),
     <<"mode">> :> Num(5) @@ <<"key">> :> Num(1),
     <<"other">> :> Num(5) @@ <<"key">> :> Str("k")}

MCInvocations ==
    {Inv(name, base, <<>>, "listed", FALSE, FALSE, <<>>, FALSE) :
        name \in {"get", "move", "ping", "ghost", "nope"}, base \in Bases}
    \cup {Inv(name, KeyOnly, <<>>, listing, dryRun, noValidate, <<>>, FALSE) :
            name \in {"get", "ghost", "nope"}, listing \in {"listed", "older", "error"},
            dryRun \in BOOLEAN, noValidate \in BOOLEAN}
    \cup {Inv("get", base, args, listing, FALSE, noValidate, <<>>, FALSE) :
            base \in {Nothing, Null, Leaf(Arr(<<>>)), Deep, <<"fields">> :> Num(5),
                      <<"key">> :> Num(9)},
            args \in MCArgs, listing \in {"listed", "older", "error"}, noValidate \in BOOLEAN}
    \cup {Inv("move", KeyOnly, <<>>, "listed", FALSE, FALSE, fields, TRUE) :
            fields \in {<<<<"*", "name">>>>, <<<<"1", "ok">>, <<"0", "ok">>>>, <<<<"ok">>>>}}

Batched(id, name) == [id |-> id, name |-> name, input |-> Nothing]
MCBatches ==
    {<<>>, <<Batched(NoName, NoName)>>,
     <<Batched(NoName, "get"), Batched("1", "nope"), Batched(NoName, "move")>>,
     <<[Batched("a", "move") EXCEPT !.input = Null]>>}

MCDatasourceCalls ==
    {[capability |-> "get", datasource |-> d, entity |-> e] :
        d \in {NoName, "s", "t"}, e \in {NoName, "issue", "user"}}
    \cup {[capability |-> "search", datasource |-> NoName, entity |-> NoName]}

MCContextBuilds ==
    {[kinds |-> kinds, limit |-> limit] : kinds \in {{}, {"text"}}, limit \in {0, 1, 2}}

MCGrants == {[command |-> c, grant |-> g] :
               c \in {"auth.test", "auth.connect"}, g \in BOOLEAN}

\* Secrets are read, and replaced, where the calls of a batch follow one another and fail,
\* and only one of them is replaced.
SecretsInBatches ==
    request.at = "serving" =>
       \/ /\ request.reads = <<>> /\ secrets = request.since
          /\ \A g \in Readers : request.readers[g] = Resting
       \/ /\ call.command = "batch" /\ secrets["user"] = request.since["user"]
          /\ \A n \in DOMAIN request.answers :
                request.answers[n].outcome \in {Failed("denied"), Failed("unknown_operation")}

ReaderSymmetry == Permutations(Readers)
=============================================================================
