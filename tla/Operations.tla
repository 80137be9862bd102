----------------------------- MODULE Operations -----------------------------
(***************************************************************************)
(* The host's side of a call: how the commands of the CLI put its input    *)
(* together and check it (cli/cli.go, opinput.go, opvalidate.go,           *)
(* oppath.go, selftest.go), how the local backend completes it             *)
(* (management/local/local.go), and what becomes of the plugin's answer.   *)
(* The plugin is Dispatch.  An invocation runs one plugin process, which   *)
(* serves one request; a call that times out leaves without its answer.    *)
(*                                                                         *)
(* An input is a function: from the paths of its leaves, sequences of      *)
(* keys, to the leaves, which are strings, numbers, booleans, null, arrays *)
(* and objects without a field.  A result keeps its shape.                 *)
(***************************************************************************)
EXTENDS Dispatch, TLC

CONSTANTS Invocations,     \* [name, base, args, listing, dryRun, noValidate, fields, strict]
          Earlier,         \* the build that a listing which is out of date comes from
          Doubles,         \* Doubles[n]: the double next to the number n, if there is one
          Batches,         \* sequences of [id, name, input]
          DatasourceCalls, \* [capability, datasource, entity]
          ContextBuilds,   \* [kinds, limit]
          Phases,          \* phases of evidence that are asked for
          Grants,          \* [command, grant]: the commands of a plugin's own
          AuthTests,       \* the names that end in .auth.test
          Endpoints,       \* the refs a call's endpoint may default to, "" for none
          MaxCalls         \* bound on the calls of one batch

Nothing == <<>>         \* no input at all
IsInput(input) == DOMAIN input \subseteq Seq(STRING) /\ input = [p \in DOMAIN input |-> input[p]]

ASSUME OperationsAssumption ==
    /\ \A inv \in Invocations :
          /\ inv.listing \in {"listed", "older", "error"}
          /\ IsInput(inv.base)
          /\ inv.args \in Seq(Range(inv.args))
          /\ \A n \in DOMAIN inv.args :
                inv.args[n].path \in Seq(STRING) /\ IsInput(inv.args[n].json)
    /\ Earlier \in Definitions
    /\ \A n \in DOMAIN Doubles : Doubles[n] \in DOMAIN Doubles
    /\ \A calls \in Batches :
          /\ Len(calls) \in Nat /\ DOMAIN calls = 1 .. Len(calls)
          /\ \A n \in DOMAIN calls : DOMAIN calls[n] = {"id", "name", "input"}
    /\ DatasourceCalls \subseteq [capability : Capabilities, datasource : STRING,
                                  entity : STRING]
    /\ ContextBuilds \subseteq [kinds : SUBSET STRING, limit : Nat]
    /\ \A asked \in Grants : asked.command \notin Served \cup {"selftest"}
    /\ MaxCalls \in Nat
    /\ \A n \in 1 .. MaxCalls : ToString(n) # NoName

VARIABLES
    call,   \* the command of the CLI that runs
    wired   \* the endpoint_ref of an operation that is given none

vars == <<dispatchVars, call, wired>>
-----------------------------------------------------------------------------
(***************************************************************************)
(* JSON: leaves and inputs, and the values of results.                     *)
(***************************************************************************)
Str(text) == <<"str", text>>
Num(n) == <<"num", n>>
Obj(fields) == <<"obj", fields>>
Arr(items) == <<"arr", items>>

Leaf(x) == [path \in {<<>>} |-> x]
Null == Leaf(<<"null">>)
NoFields == Leaf(Obj(<<>>))

IsObject(input) == input = NoFields \/ (input # Nothing /\ <<>> \notin DOMAIN input)
KeysOf(input) == {path[1] : path \in DOMAIN input \ {<<>>}}

\* A number that is too large for a double; decoding it into any is an error.
Overflows(input) ==
    \E path \in DOMAIN input : input[path][1] = "num" /\ input[path][2] \notin DOMAIN Doubles

\* What a number that goes through any, and so through a double, comes out as.
AsDouble(x) == IF x[1] = "num" THEN Num(Doubles[x[2]]) ELSE x
AsDoubles(input) == [path \in DOMAIN input |-> AsDouble(input[path])]

Touches(p, q) == IsPrefix(p, q) \/ IsPrefix(q, p)

\* The leaves of a value that is put at a path.
Below(path, value) == {path \o p : p \in DOMAIN value}
Beneath(path, value) ==
    [p \in Below(path, value) |-> value[SubSeq(p, Len(path) + 1, Len(p))]]

\* Mutant: every arg starts its own nested object.
Put_Fresh(input, path, value) ==
    LET others == {p \in DOMAIN input : p # <<>> /\ p[1] # path[1]}
    IN [p \in others \cup Below(path, value) |->
           IF p \in Below(path, value) THEN Beneath(path, value)[p] ELSE input[p]]
\* setNestedValue: what is not an object on the way is replaced by one.
Put(input, path, value) ==
    LET others == {p \in DOMAIN input : ~Touches(p, path)}
    IN [p \in others \cup Below(path, value) |->
           IF p \in Below(path, value) THEN Beneath(path, value)[p] ELSE input[p]]

IsObj(v) == v[1] = "obj"
Has(v, key) == IsObj(v) /\ key \in DOMAIN v[2]

Positions == [segment \in {"0", "1"} |-> IF segment = "0" THEN 1 ELSE 2]

\* What * gathers from an array: something, whatever the rest of the path finds in it,
\* and callers ask no more than that.
Gathered == <<"gathered">>

\* A step of extractSegments: a key of an object, an index of an array or *.
Under(v, segment) ==
    CASE IsObj(v) -> {v[2][key] : key \in DOMAIN v[2] \cap {segment}}
      [] v[1] = "arr" /\ segment = "*" -> {Gathered}
      [] v[1] = "arr" /\ segment # "*" ->
            {v[2][Positions[s]] : s \in {s \in DOMAIN Positions \cap {segment} :
                                           Positions[s] \in DOMAIN v[2]}}
      [] v = Gathered -> {Gathered}
      [] OTHER -> {}

\* extractSegments: the value a path leads to, {} if it misses.
Extracted(v, path) ==
    LET at[n \in 0 .. Len(path)] ==
           IF n = 0 THEN {v} ELSE UNION {Under(x, path[n]) : x \in at[n - 1]}
    IN at[Len(path)]
-----------------------------------------------------------------------------
(***************************************************************************)
(* The input of an operation: --input, then one --arg after the other.  An *)
(* arg is [path, text, json]: json is the value its text parses as, or     *)
(* Nothing, and the path of one without a key is empty.                    *)
(***************************************************************************)
\* fieldForPath: what a schema declares at a path, {} if it does not.
FieldAt(properties, path) ==
    LET at[n \in 0 .. Len(path)] ==
           IF n = 0 THEN {[properties |-> properties]}
           ELSE {f.properties[path[n]] :
                    f \in {f \in at[n - 1] : path[n] \in DOMAIN f.properties}}
    IN at[Len(path)]

\* declaredScalarType.
DeclaredString(field) == field.types \ {"null"} = {"string"}

\* coerceArgValue: where a string is declared, text stays text unless it is quoted.
Quoted(arg) == arg.json # Nothing /\ <<>> \in DOMAIN arg.json /\ arg.json[<<>>][1] = "str"
Coerced(arg, schemas) ==
    LET fields == UNION {FieldAt(schema.properties, arg.path) : schema \in schemas}
    IN IF \/ arg.json = Nothing \/ Overflows(arg.json)
          \/ (\E f \in fields : DeclaredString(f)) /\ ~Quoted(arg)
       THEN Leaf(Str(arg.text)) ELSE AsDoubles(arg.json)

\* buildInvokeInput fails when args have to go into something else than an object, or
\* into one that cannot be decoded, and when an arg has no key.  null decodes into a map
\* that cannot be assigned to: the first arg ends the process.
Malformed(arg) == arg.path = <<>>
Panics(inv) == inv.args # <<>> /\ inv.base = Null /\ ~Malformed(inv.args[1])
Unassembled(inv) ==
    /\ inv.args # <<>>
    /\ \/ ~IsObject(inv.base) /\ inv.base \notin {Nothing, Null}
       \/ Overflows(inv.base)
       \/ \E n \in DOMAIN inv.args : Malformed(inv.args[n])

Assembled(inv, schemas) ==
    LET args == inv.args
        built[n \in 0 .. Len(args)] ==
           IF n = 0 THEN AsDoubles(inv.base)
           ELSE Put(built[n - 1], args[n].path, Coerced(args[n], schemas))
    IN IF args = <<>> THEN inv.base ELSE built[Len(args)]
-----------------------------------------------------------------------------
(***************************************************************************)
(* What the CLI knows of the operation: the listing is fetched when it is  *)
(* needed, and may fail, or come from the cache and tell of another build. *)
(***************************************************************************)
Consulted(inv) == ~inv.noValidate \/ inv.args # <<>>

Listing(listing) ==
    CASE listing = "listed" -> Manifest(plugin)
      [] listing = "older" -> Manifest(Defined(Earlier))
      [] OTHER -> <<>>

\* operationSchema.
Advertised(inv) == IF Consulted(inv) THEN Range(Listing(inv.listing)) ELSE {}
SpecOf(inv) ==
    LET list == Listing(inv.listing)
        named == {n \in DOMAIN list : list[n].name = inv.name}
    IN IF Advertised(inv) = {} \/ named = {} THEN {} ELSE {list[Min(named)]}
Schemas(inv) == {op.schema : op \in SpecOf(inv)}

\* With an example, what else an operation can do with is not in the flat list.
MissingFields(schema, input) ==
    IF schema.example THEN {} ELSE Range(schema.required) \ KeysOf(input)

\* Numbers compare as doubles, what is no scalar compares with nothing.
OffEnum(schema, input, key) ==
    /\ key \in DOMAIN schema.properties /\ schema.properties[key].enum # {}
    /\ <<key>> \in DOMAIN input /\ input[<<key>>][1] \in {"str", "num", "bool"}
    /\ AsDouble(input[<<key>>]) \notin schema.properties[key].enum

\* validateOperationInput: the fields that are missing, out of their enum or unknown.
Problems(schema, input) ==
    IF \/ ~IsObject(input) /\ input # Null
       \/ Overflows(input)
       \/ DOMAIN schema.properties = {} /\ schema.required = <<>>
    THEN {}
    ELSE MissingFields(schema, input)
         \cup {k \in KeysOf(input) : OffEnum(schema, input, k)}
         \cup (IF schema.closed THEN KeysOf(input) \ DOMAIN schema.properties ELSE {})

ProblemsOf(inv) ==
    UNION {Problems(schema, Assembled(inv, {schema})) : schema \in Schemas(inv)}

\* The unknown-operation fail-fast: a listing without the operation, but not empty.
Unadvertised(inv) == ~inv.noValidate /\ Advertised(inv) # {} /\ Schemas(inv) = {}

ListingFails(inv) == ~inv.noValidate /\ inv.listing = "error"

Invalid(inv) == ~inv.noValidate /\ ProblemsOf(inv) # {}

\* newOperationInvokeCommand, up to the call of the backend: how a call ends here.
Verdict(inv) ==
    IF Panics(inv) THEN "panic"
    ELSE IF Unassembled(inv) THEN "error"
    ELSE IF ListingFails(inv) /\ inv.dryRun THEN "error"
    ELSE IF Unadvertised(inv) THEN "unadvertised"
    ELSE IF inv.dryRun THEN IF Invalid(inv) THEN "reported_invalid" ELSE "reported_valid"
    ELSE IF Invalid(inv) THEN "invalid" ELSE "sent"
-----------------------------------------------------------------------------
(***************************************************************************)
(* The backend: the endpoint an operation is not given is the wired one.   *)
(***************************************************************************)
EndpointRef == <<"endpoint_ref">>

\* endpointRefFromInput.
EndpointRefOf(input) ==
    IF EndpointRef \in DOMAIN input /\ input[EndpointRef][1] = "str"
    THEN input[EndpointRef][2] ELSE ""

Defaulted(input) == EndpointRefOf(input) = "" /\ wired # ""

\* injectEndpointRef: the other fields stay as they are written.
Injected(input) ==
    IF Defaulted(input) /\ (IsObject(input) \/ input = Nothing)
    THEN Put(input, EndpointRef, Leaf(Str(wired)))
    ELSE input

\* null decodes into a map here, too.
InjectionPanics(input) == Defaulted(input) /\ input = Null

Idle == [at |-> "idle"]
Ready == call.at = "idle"

NoPayload == [calls |-> <<>>, grant |-> FALSE, datasource |-> NoName, entity |-> NoName,
              phase |-> NoName, kinds |-> {}, limit |-> 0]

\* A command that does not get as far as the plugin.
EndWith(command, asked, outcome) ==
    /\ call' = [at |-> "ended", command |-> command, asked |-> asked, outcome |-> outcome]
    /\ request' = NoRequest

\* invokePlugin.
Send(command, asked, payload) ==
    /\ call' = [at |-> "sent", command |-> command, asked |-> asked]
    /\ request' = Received(command, payload)

\* InvokeOperation and BatchOperations.
SendCalls(command, asked, calls) ==
    IF \E n \in DOMAIN calls : InjectionPanics(calls[n].input)
    THEN EndWith(command, asked, "panic")
    ELSE Send(command, asked,
              [NoPayload EXCEPT
                 !.calls = [n \in DOMAIN calls |->
                               [calls[n] EXCEPT !.input = Injected(@)]]])

Invoke(inv) ==
    /\ Ready
    /\ IF Verdict(inv) = "sent"
       THEN SendCalls("operation", inv,
                      <<[id |-> NoName, name |-> inv.name,
                         input |-> Assembled(inv, Schemas(inv))]>>)
       ELSE EndWith("operation", inv, Verdict(inv))
    /\ UNCHANGED <<plugin, secrets, wired>>

\* newOperationBatchCommand, normalizeOperationBatchCalls: a call without an id is
\* numbered, from 1.
Numbered(calls) ==
    [n \in DOMAIN calls |->
        IF calls[n].id = NoName THEN [calls[n] EXCEPT !.id = ToString(n)] ELSE calls[n]]

Batch(calls) ==
    /\ Ready /\ Len(calls) <= MaxCalls
    /\ IF calls = <<>> \/ \E n \in DOMAIN calls : calls[n].name = NoName
       THEN EndWith("batch", calls, "error")
       ELSE SendCalls("batch", calls, Numbered(calls))
    /\ UNCHANGED <<plugin, secrets, wired>>

\* safeProbeOperations: auth tests, and what only reads and needs no more than an
\* endpoint_ref.
ProbeOf(op, authOnly) ==
    \/ op.name \in AuthTests
    \/ ~authOnly /\ op.readOnly /\ Range(op.schema.required) \subseteq {"endpoint_ref"}

Probes(listing, authOnly) ==
    {op.name : op \in {o \in Range(Listing(listing)) : ProbeOf(o, authOnly)}}

\* selftestPlugin: one batch with all probes.
Selftest(listing, authOnly) ==
    LET names == SetToSeq(Probes(listing, authOnly))
        calls == [n \in DOMAIN names |-> [id |-> NoName, name |-> names[n],
                                          input |-> NoFields]]
    IN /\ Ready /\ Len(calls) <= MaxCalls
       /\ IF listing = "error" THEN EndWith("selftest", calls, "failed")
          ELSE IF calls = <<>> THEN EndWith("selftest", calls, "ok")
          ELSE /\ call' = [at |-> "sent", command |-> "selftest", asked |-> calls]
               /\ request' = Received("batch",
                     [NoPayload EXCEPT
                        !.calls = [n \in DOMAIN calls |->
                                      [Numbered(calls)[n] EXCEPT !.input = Injected(@)]]])
       /\ UNCHANGED <<plugin, secrets, wired>>

\* CallDatasource, where no index of the host answers.
CallDatasource(asked) ==
    /\ Ready
    /\ Send(asked.capability, asked,
            [NoPayload EXCEPT !.datasource = asked.datasource, !.entity = asked.entity])
    /\ UNCHANGED <<plugin, secrets, wired>>

BuildContext(asked) ==
    /\ Ready
    /\ Send("context", asked, [NoPayload EXCEPT !.kinds = asked.kinds, !.limit = asked.limit])
    /\ UNCHANGED <<plugin, secrets, wired>>

ObserveEvidence(phase) ==
    /\ Ready
    /\ Send("evidence", phase, [NoPayload EXCEPT !.phase = phase])
    /\ UNCHANGED <<plugin, secrets, wired>>

\* A command that a plugin may have a handler of its own for, with or without a grant.
OwnCommand(asked) ==
    /\ Ready
    /\ Send(asked.command, asked, [NoPayload EXCEPT !.grant = asked.grant])
    /\ UNCHANGED <<plugin, secrets, wired>>

\* printOperationResultStrict: the paths of --field that miss.
MissingPaths(inv, value) == {path \in Range(inv.fields) : Extracted(value, path) = {}}

\* resultReportsFailure.
ReportsFailure(value) == Has(value, "ok") /\ value[2]["ok"] = <<"bool", FALSE>>

\* What a command makes of the plugin's answers.
Outcome ==
    LET first == request.answers[1].outcome
    IN CASE call.command = "selftest" ->
              IF \E n \in DOMAIN request.answers :
                    n \in Failing \/ ReportsFailure(request.answers[n].outcome[2])
              THEN "failed" ELSE "ok"
         [] call.command = "operation" /\ Failing = {} ->
              IF call.asked.strict /\ MissingPaths(call.asked, first[2]) # {}
              THEN "missing" ELSE "ok"
         [] call.command = "batch" -> "ok"
         [] call.command \notin {"selftest", "batch"} /\ Failing # {} -> "failed"
         [] OTHER -> "ok"

Report ==
    /\ call.at = "sent" /\ request.at = "answered"
    /\ call' = [at |-> "ended", command |-> call.command, asked |-> call.asked,
                outcome |-> Outcome]
    /\ request' = NoRequest
    /\ UNCHANGED <<plugin, secrets, wired>>

\* The deadline of invokePlugin, or a plugin that crashes: what its handlers did, and
\* what they had answered, is lost.
Abort ==
    /\ call.at = "sent"
    /\ EndWith(call.command, call.asked, "failed")
    /\ UNCHANGED <<plugin, secrets, wired>>

\* The process of the CLI ends, and the next one begins.
Exit ==
    /\ call.at = "ended"
    /\ call' = Idle
    /\ UNCHANGED <<dispatchVars, wired>>

Init == DispatchInit /\ call = Idle /\ wired \in Endpoints

Next ==
    \/ \E inv \in Invocations : Invoke(inv)
    \/ \E calls \in Batches : Batch(calls)
    \/ \E listing \in {"listed", "older", "error"}, authOnly \in BOOLEAN :
          Selftest(listing, authOnly)
    \/ \E asked \in DatasourceCalls : CallDatasource(asked)
    \/ \E asked \in ContextBuilds : BuildContext(asked)
    \/ \E phase \in Phases : ObserveEvidence(phase)
    \/ \E asked \in Grants : OwnCommand(asked)
    \/ Serve /\ UNCHANGED <<call, wired>>
    \/ Report
    \/ Abort
    \/ Exit

Spec == Init /\ [][Next]_vars
-----------------------------------------------------------------------------
(***************************************************************************)
(* Properties.                                                             *)
(***************************************************************************)
\* Whatever is stored meanwhile, what the handlers of one request read of a purpose
\* through their Context is one version of its secret, present or missing, and one the
\* host held while it served the request; what the host signs a request with is no
\* older than what was read before.  The exceptions: handlers that ask for a purpose at
\* the same time may cache one version and work with another, and a signed request may
\* have a newer version than the handler.
SecretsStable ==
    request.at # "none" =>
       LET reads == request.reads
       IN \A n \in DOMAIN reads :
             LET p == reads[n].purpose
             IN /\ reads[n].version \in request.since[p] .. secrets[p]
                /\ \A m \in {m \in 1 .. n - 1 : reads[m].purpose = p} :
                      /\ reads[n].by = "plugin" /\ reads[m].by = "plugin"
                         /\ p \notin request.mixed => reads[m].version = reads[n].version
                      /\ reads[n].by = "host" => reads[m].version <= reads[n].version

\* The answers to a batch are those of its calls, in their order and under the ids
\* that the caller gave or would expect, whether calls before them fail or not; and a
\* call of a datasource is served by one that exposes what was asked for, where it
\* was clear which one that is.
IdOf(calls, n) == IF calls[n].id = NoName THEN ToString(n) ELSE calls[n].id

AnsweredAsAsked ==
    request.at = "answered" /\ call.at # "idle" =>
       /\ call.command \in {"batch", "selftest"} =>
             /\ Len(request.answers) = Len(call.asked)
             /\ \A n \in DOMAIN call.asked :
                   /\ request.answers[n].id = IdOf(call.asked, n)
                   /\ request.answers[n].name = call.asked[n].name
       /\ call.command \in Capabilities /\ request.calls # <<>> =>
             \A h \in request.calls[1].handler :
                /\ call.asked.datasource \in {NoName, h.name}
                /\ call.asked.entity \in {NoName, h.entity}
                /\ call.asked.datasource = NoName /\ call.asked.entity # NoName =>
                      \A g \in Range(plugin.handlers[call.command]) :
                         g.entity = h.entity => g = h

\* Of the blocks that all providers found, those of the kinds asked for are kept, and
\* where the limit is exceeded the ones of the highest priority.
ContextBest ==
    [][request.at = "serving" /\ request'.at = "answered" /\ request.command = "context"
       /\ ~CutShort =>
          LET kept == request'.answers[1].outcome[2]
              fitting == {b \in Range(AllBlocks) :
                             request.payload.kinds = {} \/ b.kind \in request.payload.kinds}
              limit == request.payload.limit
          IN /\ Range(kept) \subseteq fitting
             /\ limit # 0 => Len(kept) <= limit
             /\ \A dropped \in fitting \ Range(kept) :
                   /\ limit # 0 /\ Len(kept) = limit
                   /\ \A b \in Range(kept) : b.priority >= dropped.priority]_vars

\* Every arg that a later one does not touch is found at its path, and nothing else
\* there: its text, or the value its text is, as a double; a string where the plugin
\* declares one.  Every leaf of the base input that no arg touches is still there, as a
\* double if there are args and as it was written otherwise, and there is nothing else.
\* All this but for the endpoint_ref, where the wired one takes the place of none.
Rounded(inv, x) == IF inv.args = <<>> THEN x ELSE AsDouble(x)

Applied(inv, input) ==
    LET args == inv.args
        filled == /\ Defaulted(Assembled(inv, Schemas(inv)))
                  /\ EndpointRef \in DOMAIN input /\ input[EndpointRef] = Str(wired)
        near(path) == [p \in {p \in DOMAIN input : Touches(p, path)} |-> input[p]]
    IN /\ \A n \in DOMAIN args :
             LET arg == args[n]
             IN (\A m \in n + 1 .. Len(args) : ~Touches(arg.path, args[m].path)) =>
                   \/ filled /\ Touches(arg.path, EndpointRef)
                   \/ /\ \/ near(arg.path) = Beneath(arg.path, Leaf(Str(arg.text)))
                         \/ /\ arg.json # Nothing
                            /\ near(arg.path) = Beneath(arg.path, AsDoubles(arg.json))
                      /\ \A schema \in Schemas(inv) :
                            \A f \in FieldAt(schema.properties, arg.path) :
                               DeclaredString(f) => near(arg.path)[arg.path][1] = "str"
       /\ \A path \in DOMAIN inv.base :
             (\A n \in DOMAIN args : ~Touches(path, args[n].path)) =>
                \/ filled /\ IsObject(inv.base) /\ Touches(path, EndpointRef)
                \/ path \in DOMAIN input /\ input[path] = Rounded(inv, inv.base[path])
       /\ \A path \in DOMAIN input :
             \/ path \in DOMAIN inv.base
             \/ \E n \in DOMAIN args : IsPrefix(args[n].path, path)
             \/ filled /\ path = EndpointRef

\* What the plugin is given is what the caller wrote.
ArgsApplied ==
    call.at = "sent" /\ call.command = "operation" =>
       Applied(call.asked, request.payload.calls[1].input)

\* An input that keeps to a schema, its endpoint_ref aside.
Allows(schema, input) ==
    /\ ~schema.example => Range(schema.required) \subseteq KeysOf(input)
    /\ schema.closed => KeysOf(input) \subseteq DOMAIN schema.properties
    /\ \A key \in KeysOf(input) \ {"endpoint_ref"} : ~OffEnum(schema, input, key)

\* An object that is sent without --no-validate keeps to the schema that the listing
\* gave, also after the backend has added the wired endpoint to it.  The exception: one
\* with a number that is too large for a double is not checked.
SentAsListed ==
    call.at = "sent" /\ call.command = "operation" /\ ~call.asked.noValidate =>
       LET input == request.payload.calls[1].input
       IN \A schema \in Schemas(call.asked) :
             LET assembled == Assembled(call.asked, Schemas(call.asked))
             IN IsObject(assembled) /\ ~Overflows(assembled) => Allows(schema, input)
=============================================================================
