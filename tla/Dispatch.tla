------------------------------ MODULE Dispatch ------------------------------
(***************************************************************************)
(* The plugin's side of a call: how a plugin is put together out of its    *)
(* manifest and its registered handlers, and how it serves one request     *)
(* (pluginbinding/plugin.go, definition.go, secrets.go).  A handler is     *)
(* code of the plugin: it reads secrets through its Context as often as it *)
(* likes, in several goroutines if it likes, lets the host sign HTTP       *)
(* requests with them, and then returns, in whatever way.  The host's      *)
(* secrets can be replaced while it runs.                                  *)
(***************************************************************************)
EXTENDS Integers, Sequences, FiniteSets, SequencesExt, FiniteSetsExt, Orders

CONSTANTS Purposes,      \* purposes of secrets
          Preferences,   \* the purposes a handler tries, in order, until one serves
          Readers,       \* the goroutines of handlers that read secrets
          Definitions,   \* [manifest, options]: the plugins
          Outputs,       \* what a handler may return
          Failures,      \* the codes of errors a handler returns
          Found,         \* sequences of [id, kind, priority]: the blocks a provider may find
          MaxRotations,  \* bound on how often a secret is replaced
          MaxReads       \* bound on the secrets read in one request

NoName == ""             \* a datasource, an entity or an id left out

Capabilities == {"list", "search", "get", "batch_get", "lookup"}
\* The commands that the runtime serves; a plugin's own have other names.
Served == {"operation", "batch", "context", "evidence"} \cup Capabilities

Blocks == [id : Nat, kind : STRING, priority : Int]
Datasources == [name : STRING, entity : STRING, capabilities : SUBSET Capabilities]

IsOperation(spec) ==
    /\ DOMAIN spec = {"name", "schema", "readOnly", "purposes", "effects", "access"}
    /\ DOMAIN spec.schema = {"declared", "required", "properties", "closed", "example"}

AreOperations(list) ==
    list \in Seq(Range(list)) /\ \A spec \in Range(list) : IsOperation(spec)

IsOption(option) ==
    \/ option.kind = "operation" /\ IsOperation(option.spec)
    \/ option.kind = "datasource" /\ option.capability \in Capabilities
       /\ option.spec \in Datasources
    \/ option.kind \in {"provider", "observer"}
    \/ option.kind = "command" /\ option.command \notin Served

ASSUME DispatchAssumption ==
    /\ Preferences \subseteq Seq(Purposes) \ {<<>>}
    /\ Found \subseteq Seq(Blocks)
    /\ MaxRotations \in Nat /\ MaxReads \in Nat
    /\ \A definition \in Definitions :
          /\ definition.manifest \in [operations : {definition.manifest.operations},
                                      datasources : Seq(Datasources),
                                      authFields : SUBSET STRING]
          /\ AreOperations(definition.manifest.operations)
          /\ Len(definition.options) \in Nat
          /\ DOMAIN definition.options = 1 .. Len(definition.options)
          /\ \A n \in DOMAIN definition.options : IsOption(definition.options[n])

VARIABLES
    plugin,   \* the plugin: its handlers and what its manifest lists
    request,  \* the request it serves
    secrets   \* secrets[p]: the version the host holds; 0 is none

dispatchVars == <<plugin, request, secrets>>
-----------------------------------------------------------------------------
(***************************************************************************)
(* The definition of a plugin.                                             *)
(***************************************************************************)
Updated(f, k, v) == [x \in DOMAIN f \cup {k} |-> IF x = k THEN v ELSE f[x]]

EndpointField == [types |-> {"string"}, enum |-> {}, properties |-> <<>>]

\* A spec without an input schema.
NoSchema == [declared |-> FALSE, required |-> <<>>, properties |-> <<>>, closed |-> FALSE,
             example |-> FALSE]

\* Mutant: a schema is left as it is given.
NormalSchema_AsGiven(schema) == [schema EXCEPT !.declared = TRUE]
\* normalizeOperationInputSchema: every operation takes an endpoint_ref.
NormalSchema(schema) ==
    [schema EXCEPT
       !.declared = TRUE,
       !.properties = IF "endpoint_ref" \in DOMAIN @ THEN @
                      ELSE Updated(@, "endpoint_ref", EndpointField)]

Reach == {"network", "process", "browser", "filesystem", "local_system"}

\* NormalizeOperationSpec: defaults that follow from read_only, and the access that
\* follows from effects and secrets.
NormalOperation(spec) ==
    LET effects == IF spec.effects # {} THEN spec.effects
                   ELSE IF spec.readOnly THEN {"read"} ELSE {"write"}
        access == spec.access \cup (effects \cap Reach)
                  \cup (IF spec.purposes = {} THEN {} ELSE {"secret", "auth"})
    IN [spec EXCEPT
          !.schema = NormalSchema(@),
          !.effects = effects,
          !.access = IF access = {} THEN {"none"}
                     ELSE IF access = {"none"} THEN access ELSE access \ {"none"}]

\* mergeOperationSpec: what the manifest says goes before what was registered.
MergedOperation(base, generated) ==
    NormalOperation(
       [base EXCEPT
          !.schema = IF @.declared THEN @ ELSE generated.schema,
          !.readOnly = @ \/ generated.readOnly,
          !.purposes = IF @ = {} THEN generated.purposes ELSE @,
          !.effects = IF @ = {} THEN generated.effects ELSE @,
          !.access = IF @ = {} THEN generated.access ELSE @])

MergedDatasource(base, generated) ==
    [base EXCEPT !.entity = IF @ = NoName THEN generated.entity ELSE @,
                 !.capabilities = @ \cup generated.capabilities]

\* upsertOperation and its siblings: the entry of that name becomes what merging it
\* gives, or the spec is appended.
Upserted(list, spec, merged) ==
    LET named == {n \in DOMAIN list : list[n].name = spec.name}
    IN IF named = {} THEN Append(list, spec)
       ELSE [list EXCEPT ![Min(named)] = merged[Min(named)]]

\* New: the manifest lists what it was written with, and nothing has a handler.
New(manifest) ==
    [listed |-> manifest.operations,
     datasources |-> manifest.datasources,
     operations |-> {},
     handlers |-> [c \in Capabilities |-> <<>>],
     providers |-> <<>>,
     observers |-> <<>>,
     commands |-> <<>>]

\* Operation: a later registration of a name replaces the handler of an earlier one.
AddOperation(p, spec) ==
    LET normal == NormalOperation(spec)
    IN [p EXCEPT !.operations = @ \cup {spec.name},
                 !.listed = Upserted(@, normal, [n \in DOMAIN @ |->
                                        MergedOperation(@[n], normal)])]

\* DatasourceHandlerFor: handlers of one capability line up.
AddDatasource(p, spec, capability) ==
    LET listed == [name |-> spec.name, entity |-> spec.entity,
                   capabilities |-> spec.capabilities \cup {capability}]
    IN [p EXCEPT !.handlers[capability] = Append(@, spec),
                 !.datasources = Upserted(@, listed, [n \in DOMAIN @ |->
                                             MergedDatasource(@[n], listed)])]

\* An option of Define.  A command's handler
\* answers by itself or, with a grant, by one operation (AuthTestOperation,
\* IndexBuildOperation).
Registered(p, option) ==
    CASE option.kind = "operation" -> AddOperation(p, option.spec)
      [] option.kind = "datasource" -> AddDatasource(p, option.spec, option.capability)
      [] option.kind = "provider" -> [p EXCEPT !.providers = Append(@, option.spec)]
      [] option.kind = "observer" -> [p EXCEPT !.observers = Append(@, option.spec)]
      [] option.kind = "command" ->
            [p EXCEPT !.commands = Updated(@, option.command, option.operation)]

Normalized(operations) == [n \in DOMAIN operations |-> NormalOperation(operations[n])]

\* authConnectText: fields of the auth methods that must be given make a text that
\* auth.connect answers with.
WithConnectText(p, manifest) ==
    IF manifest.authFields = {} THEN p
    ELSE [p EXCEPT !.commands = Updated(@, "auth.connect", NoName)]

\* Define: the manifest is normalized before the first registration merges with it,
\* so that an operation it lists without a schema keeps the empty one.
Defined(definition) ==
    LET manifest == [definition.manifest EXCEPT !.operations = Normalized(@)]
        built[n \in 0 .. Len(definition.options)] ==
           IF n = 0 THEN WithConnectText(New(manifest), manifest)
           ELSE Registered(built[n - 1], definition.options[n])
    IN built[Len(definition.options)]

\* Manifest: what the manifest lists is normalized again when it is asked for.
Manifest(p) == Normalized(p.listed)
-----------------------------------------------------------------------------
(***************************************************************************)
(* A request: the calls it makes of handlers, one after the other, the     *)
(* answers so far, and the cache its handlers share.                       *)
(***************************************************************************)
NoRequest == [at |-> "none"]

\* What a goroutine does: ask the host for the first purpose of order, store in the cache
\* the version that the host gave, or try with it.
Reader(at, order, version) == [at |-> at, order |-> order, version |-> version]
Resting == Reader("resting", <<>>, 0)

Serving(command, payload, calls) ==
    [at |-> "serving", command |-> command, payload |-> payload, calls |-> calls,
     answers |-> <<>>, cache |-> <<>>,
     readers |-> [g \in Readers |-> Resting],
     since |-> secrets,  \* history: the secrets when the request came in
     reads |-> <<>>,     \* history: every read of a secret
     mixed |-> {}]       \* history: purposes of which two reads went on at once

Answered(command, payload, answer) ==
    [Serving(command, payload, <<>>) EXCEPT !.at = "answered", !.answers = <<answer>>]

\* The id of a call left without one is its name.
Named(c) == IF c.id = NoName THEN [c EXCEPT !.id = c.name] ELSE c

Answer(c, outcome) == [id |-> c.id, name |-> c.name, outcome |-> outcome]
Reply(outcome) == Answer([id |-> NoName, name |-> NoName], outcome)
Failed(code) == <<"error", code>>
Succeeded(value) == <<"ok", value>>

\* Mutant: a handler of the datasource will do, whatever the entity.
Matching_NameOnly(handlers, payload) ==
    Kept(handlers, {n \in DOMAIN handlers :
                      payload.datasource \in {NoName, handlers[n].name}})
Matching(handlers, payload) ==
    Kept(handlers, {n \in DOMAIN handlers :
                      /\ payload.datasource \in {NoName, handlers[n].name}
                      /\ payload.entity \in {NoName, handlers[n].entity}})

\* selectDatasourceHandler: the first one that matches, unless only an entity was
\* given and several datasources expose it.
Selection(handlers, payload) ==
    LET matching == Matching(handlers, payload)
        vague == payload.datasource = NoName /\ payload.entity # NoName
    IN IF matching = <<>> \/ (vague /\ Len(matching) > 1) THEN {} ELSE {matching[1]}

Call(id, name, handler) == [id |-> id, name |-> name, handler |-> handler]

OperationCalls(calls) == [n \in DOMAIN calls |-> Named(Call(calls[n].id, calls[n].name, {}))]

\* runEvidence passes over observers of another phase.
InPhase(observer, phase) ==
    observer.phase = NoName \/ phase = NoName \/ observer.phase = phase

\* HandleWithContextHostAndEvents: a command's own handler goes first.
Received(command, payload) ==
    CASE command \in DOMAIN plugin.commands ->
            IF plugin.commands[command] = NoName \/ ~payload.grant
            THEN Answered(command, payload, Reply(Succeeded("text")))
            ELSE Serving(command, payload,
                         <<Named(Call(NoName, plugin.commands[command], {}))>>)
      [] command \notin DOMAIN plugin.commands /\ command \in {"operation", "batch"} ->
            Serving(command, payload, OperationCalls(payload.calls))
      [] command \notin DOMAIN plugin.commands /\ command \in Capabilities ->
            IF Selection(plugin.handlers[command], payload) = {}
            THEN Answered(command, payload,
                          Reply(Failed(IF plugin.handlers[command] = <<>>
                                       THEN "not_implemented" ELSE "bad_payload")))
            ELSE Serving(command, payload,
                         <<Call(NoName, NoName, Selection(plugin.handlers[command], payload))>>)
      [] command \notin DOMAIN plugin.commands /\ command = "context" ->
            Serving(command, payload,
                    [n \in DOMAIN plugin.providers |->
                        Call(NoName, NoName, {plugin.providers[n]})])
      [] command \notin DOMAIN plugin.commands /\ command = "evidence" ->
            LET all == plugin.observers
                observers == Kept(all, {n \in DOMAIN all : InPhase(all[n], payload.phase)})
            IN Serving(command, payload,
                       [n \in DOMAIN observers |-> Call(NoName, NoName, {observers[n]})])
      [] OTHER -> Answered(command, payload, Reply(Failed("unknown_command")))

Failing == {n \in DOMAIN request.answers : request.answers[n].outcome[1] = "error"}

\* runContext and runEvidence end with the first failure; a batch goes on.
CutShort == request.command \in {"context", "evidence"} /\ Failing # {}

Busy == /\ request.at = "serving"
        /\ Len(request.answers) < Len(request.calls) /\ ~CutShort
Current == request.calls[Len(request.answers) + 1]

\* runOperation: what has no handler is answered without one.
Unknown(c) == request.command \in {"operation", "batch"} \cup DOMAIN plugin.commands
              /\ c.name \notin plugin.operations

AnswerUnknown ==
    /\ Busy /\ Unknown(Current)
    /\ request' = [request EXCEPT
                     !.answers = Append(@, Answer(Current, Failed("unknown_operation")))]
    /\ UNCHANGED <<plugin, secrets>>

Handling == Busy /\ ~Unknown(Current)

(***************************************************************************)
(* Context.Secret: a lookup in the cache of the request, a call of the     *)
(* host, a store in the cache.  No lock is held over the three.  A purpose *)
(* without a secret is read as the empty value, and that is cached, too;   *)
(* only an error is not.  ReadWithPreferredSecrets reads one purpose after *)
(* the other until one serves.                                             *)
(***************************************************************************)
Entry(p, version, by) == [purpose |-> p, version |-> version, by |-> by]

\* A goroutine got a version, and is through unless it may prefer another purpose.
Got(r, g, order, version) ==
    [r EXCEPT !.reads = Append(@, Entry(order[1], version, "plugin")),
              !.readers[g] = IF Len(order) = 1 THEN Resting
                             ELSE Reader("trying", order, version)]

\* Readers that missed the cache and have not stored yet.
Reading(r, p) == {g \in Readers : /\ r.readers[g].at \in {"asking", "storing"}
                                  /\ r.readers[g].order[1] = p}

Looked(r, g, order) ==
    LET p == order[1]
    IN IF p \in DOMAIN r.cache THEN Got(r, g, order, r.cache[p])
       ELSE [r EXCEPT !.readers[g] = Reader("asking", order, 0),
                      !.mixed = @ \cup {q \in {p} : Reading(r, q) # {}}]

ReadSecret(g, order) ==
    /\ Handling /\ request.readers[g] = Resting /\ Len(request.reads) < MaxReads
    /\ request' = Looked(request, g, order)
    /\ UNCHANGED <<plugin, secrets>>

\* cliHost.resolveSecret, or an error of the call, which leaves the cache alone.
HostAnswers(g) ==
    LET reader == request.readers[g]
        order == reader.order
    IN /\ request.at = "serving" /\ reader.at = "asking"
       /\ \/ request' = [request EXCEPT
                            !.readers[g] = Reader("storing", order, secrets[order[1]])]
          \/ request' = [request EXCEPT
                            !.readers[g] = IF Len(order) = 1 THEN Resting
                                           ELSE Reader("trying", order, 0)]
       /\ UNCHANGED <<plugin, secrets>>

\* Mutant: nothing is cached.
Cached_Not(cache, p, version) == cache
Cached(cache, p, version) == Updated(cache, p, version)

StoreSecret(g) ==
    LET reader == request.readers[g]
        stored == [request EXCEPT !.cache = Cached(@, reader.order[1], reader.version)]
    IN /\ request.at = "serving" /\ reader.at = "storing"
       /\ request' = Got(stored, g, reader.order, reader.version)
       /\ UNCHANGED <<plugin, secrets>>

\* A purpose without a secret is passed over, and one that cannot be opened or whose
\* error allows it; the others serve, or fail for good.
TryPreferred(g) ==
    LET reader == request.readers[g]
    IN /\ request.at = "serving" /\ reader.at = "trying" /\ Len(request.reads) < MaxReads
       /\ \/ request' = Looked(request, g, Tail(reader.order))
          \/ reader.version # 0 /\ request' = [request EXCEPT !.readers[g] = Resting]
       /\ UNCHANGED <<plugin, secrets>>

\* resolveHTTPAuth: for an HTTP request the host takes what it has stored.
SignRequest(p) ==
    /\ Handling /\ Len(request.reads) < MaxReads
    /\ request' = [request EXCEPT !.reads = Append(@, Entry(p, secrets[p], "host"))]
    /\ UNCHANGED <<plugin, secrets>>

Finished(outcome) ==
    [request EXCEPT !.answers = Append(@, Answer(Current, outcome))]

Results == IF request.command = "context" THEN Found ELSE Outputs

\* What a handler's success is turned into.  A provider's blocks are taken as they
\* are, an observer's observations only of the kinds it declares.
Outcomes ==
    {Failed(c) : c \in Failures \cup {"bad_input", "plugin_error"}}
    \cup {Succeeded(v) : v \in Results}

\* typedOperation.Run, typedDatasource.Run, ...: the handler returns.
Return ==
    /\ Handling
    /\ \E outcome \in Outcomes : request' = Finished(outcome)
    /\ UNCHANGED <<plugin, secrets>>

(***************************************************************************)
(* The response.                                                           *)
(***************************************************************************)
\* filterContextBlocks: by kind, then by priority and id, then up to the limit.
Fitting(blocks, payload) ==
    Kept(blocks, {n \in DOMAIN blocks :
                    payload.kinds = {} \/ blocks[n].kind \in payload.kinds})

Limited(blocks, limit) ==
    IF limit = 0 THEN blocks ELSE SubSeq(blocks, 1, Min({limit, Len(blocks)}))

\* The sort is stable.
Precedes(blocks, i, j) ==
    \/ blocks[i].priority > blocks[j].priority
    \/ /\ blocks[i].priority = blocks[j].priority
       /\ blocks[i].id < blocks[j].id \/ (blocks[i].id = blocks[j].id /\ i < j)

Ordered(blocks) ==
    LET places == DOMAIN blocks
        at == InOrder(places, {p \in places \X places : Precedes(blocks, p[1], p[2])})
    IN [n \in DOMAIN at |-> blocks[at[n]]]

\* Mutant: the limit is applied to what came first.
Filtered_CutFirst(blocks, payload) == Ordered(Limited(Fitting(blocks, payload), payload.limit))
Filtered(blocks, payload) == Limited(Ordered(Fitting(blocks, payload)), payload.limit)

AllBlocks == FlattenSeq([n \in DOMAIN request.answers |-> request.answers[n].outcome[2]])

\* A batch answers a failure in its place; another failure is the response's.
Respond ==
    /\ request.at = "serving" /\ ~Busy
    /\ request' = [request EXCEPT
         !.at = "answered",
         !.answers =
            IF CutShort THEN <<Last(@)>>
            ELSE IF request.command = "context"
            THEN <<Reply(Succeeded(Filtered(AllBlocks, request.payload)))>>
            ELSE @]
    /\ UNCHANGED <<plugin, secrets>>

\* The host stores another secret: auth connect, from another process.  It makes a
\* difference while a request is served.
Rotate(p) ==
    /\ request.at = "serving" /\ secrets[p] < MaxRotations
    /\ secrets' = [secrets EXCEPT ![p] = @ + 1]
    /\ UNCHANGED <<plugin, request>>

DispatchInit ==
    /\ \E definition \in Definitions : plugin = Defined(definition)
    /\ request = NoRequest
    /\ secrets \in [Purposes -> {0, 1}]

Serve ==
    \/ AnswerUnknown
    \/ \E p \in Purposes : SignRequest(p) \/ Rotate(p)
    \/ \E g \in Readers :
          \/ \E order \in Preferences : ReadSecret(g, order)
          \/ HostAnswers(g) \/ StoreSecret(g) \/ TryPreferred(g)
    \/ Return
    \/ Respond
=============================================================================
