--------------------------- MODULE AuthEndpoints ---------------------------
(***************************************************************************)
(* Auth and endpoints of the plugins' default instances: the part of the   *)
(* local backend (management/local/local.go) that relates three stores,    *)
(* the auth states and wiring of an instance, the endpoint records, and    *)
(* the secret store, under the commands of the CLI that change them, one   *)
(* after the other.  A command may make several backend calls (auth        *)
(* --auto, endpoint test, endpoint doctor, monitor connect): `queue` holds *)
(* those it has still to make.  A call may fail between its steps, and the *)
(* command may be killed while it writes the state file, which os.WriteFile*)
(* has then already truncated.                                             *)
(***************************************************************************)
EXTENDS Naturals, Sequences, FiniteSets, SequencesExt

CONSTANTS Plugins,    \* plugins that may be installed
          Names,      \* what the manifests of plugins call themselves
          Products,   \* products an endpoint may serve; a plugin serves its name
          Probed,     \* products endpoint test probes through a plugin, not TCP
          Ids,        \* normalized endpoint ids
          OldKeys,    \* map keys of endpoint records that are not their ids
          Normal,     \* Normal[k]: the id of the record under old key k
          Blankable,  \* the fields given a blank value in some commands
          Methods,    \* auth methods the manifests declare
          Fields,     \* auth fields, each a secret
          Manifest,   \* Manifest[p]: the methods p declares, in order
          Declares,   \* Declares[m]: the fields of method m
          None        \* nothing

Default == "default"

ASSUME AuthEndpointsAssumption ==
    /\ Plugins \subseteq Products /\ Probed \subseteq Products
    /\ Plugins \subseteq Names
    /\ Ids \cap OldKeys = {} /\ None \notin Ids
    /\ Normal \in [OldKeys -> Ids] /\ Blankable \subseteq Fields
    /\ Manifest \in [Plugins -> Seq(Methods)]
    /\ Declares \in [Methods -> SUBSET Fields]

VARIABLES
    named,    \* named[p]: the name in the manifest of p; it never changes
    file,     \* the state file: plugins, auth states, wiring, endpoint records
    secrets,  \* the secret store: the <<name, field>> that have a value
    queue,    \* backend calls the running command has still to make
    last      \* what the last call did

vars == <<named, file, secrets, queue, last>>
-----------------------------------------------------------------------------
EmptyState ==
    [plugins |-> [p \in Plugins |-> "absent"],
     auth |-> [p \in Plugins |-> [m \in Methods \cup {Default} |-> None]],
     wired |-> [p \in Plugins |-> None],
     endpoints |-> <<>>]

\* refs: the fields recorded as a reference to a stored secret;
\* hollow: those recorded for a blank value, which is not stored.
AuthState(connected, refs, hollow) ==
    [connected |-> connected, refs |-> refs, hollow |-> hollow]

\* health stands for what a record carries over from before: LastHealth, CreatedAt.
Record(id, product, health) == [id |-> id, product |-> product, health |-> health]

\* What the last call reported, as far as the properties tell it apart.
Quiet == [op |-> "quiet", id |-> None]
Said(op, id) == [op |-> op, id |-> id]

\* An older version may have left a record under a key that is not its id.
Init ==
    /\ \E stale \in SUBSET OldKeys : \E product \in Products :
          file = [EmptyState EXCEPT
                    !.plugins = [p \in Plugins |-> "enabled"],
                    !.endpoints = [k \in stale |-> Record(Normal[k], product, TRUE)]]
    /\ named \in [Plugins -> Names]
    /\ secrets = {}
    /\ queue = <<>>
    /\ last = Quiet
-----------------------------------------------------------------------------
Installed(p) == file.plugins[p] # "absent"
Enabled(p) == file.plugins[p] = "enabled"

Listed(st) == {st.endpoints[k].id : k \in DOMAIN st.endpoints}

\* The method AuthConnect records: the requested one; without one the manifest's
\* "default", else its first.
AuthMethodName(p, requested) ==
    IF requested # Default \/ Manifest[p] = <<>> \/ Default \in Range(Manifest[p])
    THEN requested
    ELSE Head(Manifest[p])

\* The first method of the manifest that declares a field owns it.
OwnedBy(p, m) ==
    LET at == SelectInSeq(Manifest[p], LAMBDA x : x = m)
    IN IF at = 0 THEN {}
       ELSE Declares[m] \ UNION {Declares[Manifest[p][i]] : i \in 1 .. at - 1}

\* A record saved under an id keeps the history of the one stored under that key.
SavedRecord(st, id, product) ==
    [k \in DOMAIN st.endpoints \cup {id} |->
        IF k # id THEN st.endpoints[k]
        ELSE Record(id, product,
                    id \in DOMAIN st.endpoints /\ st.endpoints[id].health)]

\* Mutant: the record that moves loses its history.
Rekeyed_Reset(st, key, id) ==
    [k \in (DOMAIN st.endpoints \ {key}) \cup {id} |->
        IF k = id THEN [st.endpoints[key] EXCEPT !.health = FALSE] ELSE st.endpoints[k]]
\* Mutant: the record is deleted, not moved.
Rekeyed_Deleted(st, key, id) ==
    [k \in DOMAIN st.endpoints \ {key, id} |-> st.endpoints[k]]
\* The record found under another key moves to its id.
Rekeyed(st, key, id) ==
    [k \in (DOMAIN st.endpoints \ {key}) \cup {id} |->
        IF k = id THEN st.endpoints[key] ELSE st.endpoints[k]]

\* Mutant: the instance is wired to an endpoint that is not stored.
Applied_WireOnly(st, p, id) ==
    IF id = None THEN st ELSE [st EXCEPT !.wired[p] = id]
\* applyAuthEndpoints: the endpoint is stored and the instance wired to it.
Applied(st, p, id) ==
    IF id = None THEN st
    ELSE [st EXCEPT !.endpoints = SavedRecord(st, id, p), !.wired[p] = id]

\* upsertAuth
Recorded(st, p, m, auth) == [st EXCEPT !.auth[p][m] = auth]

\* The endpoint of an operation that names none: the wired one, else the only
\* one of the plugin's product.
DefaultEndpoint(p) ==
    LET ids == {file.endpoints[k].id : k \in
                  {x \in DOMAIN file.endpoints : file.endpoints[x].product = p}}
    IN IF file.wired[p] # None THEN file.wired[p]
       ELSE IF Cardinality(ids) = 1 THEN CHOOSE id \in ids : TRUE ELSE None

\* What resolveSecret finds for the plugin, under the name it is installed by, and
\* what auth status says of a field.
Resolves(p, f) == <<p, f>> \in secrets
Configured(p, f) ==
    \/ \E m \in Methods \cup {Default} :
          /\ file.auth[p][m] # None
          /\ f \in file.auth[p][m].refs \cup file.auth[p][m].hollow
    \/ Resolves(p, f)
Connected(p) ==
    \E m \in Methods \cup {Default} :
       file.auth[p][m] # None /\ file.auth[p][m].connected
-----------------------------------------------------------------------------
(***************************************************************************)
(* Backend calls.  writeState leaves the new state, fails before it        *)
(* touches the file, or is killed after the truncation.  A call that does  *)
(* not succeed ends the command.                                           *)
(***************************************************************************)
Pending == IF queue = <<>> THEN <<>> ELSE Tail(queue)
Proceed == queue' = Pending
Abandon == queue' = <<>>

WriteState(st, said) ==
    \/ file' = st /\ Proceed /\ last' = said
    \/ file' = file /\ Abandon /\ last' = Quiet
    \/ file' = EmptyState /\ Abandon /\ last' = Quiet

Fails == Abandon /\ last' = Quiet /\ UNCHANGED file

\* Mutant: the failure of a secret to be stored goes unnoticed.
Connect_Unsaved(p, method, given, blank, id) ==
    LET m == AuthMethodName(p, method)
        st == Recorded(Applied(file, p, id), p, m,
                       AuthState(TRUE, given \ blank, blank))
    IN /\ Installed(p)
       /\ \E saved \in SUBSET (given \ blank) :
             secrets' = secrets \cup {<<named[p], f>> : f \in saved}
       /\ WriteState(st, Quiet)
\* saveAuthSecrets: the secret store after the fields in saved were written, under
\* the name in the plugin's manifest.
Stored(p, saved) == secrets \cup {<<named[p], f>> : f \in saved}

\* AuthConnect: the plugin accepts, every non-blank value is stored, and then
\* the state is written; a failure leaves what was stored so far.
Connect(p, method, given, blank, id) ==
    LET m == AuthMethodName(p, method)
        st == Recorded(Applied(file, p, id), p, m,
                       AuthState(TRUE, given \ blank, blank))
    IN \/ UNCHANGED secrets /\ Fails
       \/ /\ Installed(p)
          /\ \E saved \in SUBSET (given \ blank) :
                /\ secrets' = Stored(p, saved)
                /\ \/ Fails
                   \/ saved = given \ blank /\ WriteState(st, Quiet)

\* AuthTest records the outcome, of a method never connected too.
Test(p, m) ==
    /\ UNCHANGED secrets
    /\ IF ~Installed(p) THEN Fails
       ELSE LET old == file.auth[p][m]
                auth == IF old = None THEN AuthState(TRUE, {}, {}) ELSE old
            IN \E ok \in BOOLEAN :
                  WriteState(Recorded(file, p, m, [auth EXCEPT !.connected = ok]), Quiet)

Disconnect(p, m) ==
    /\ UNCHANGED secrets
    /\ file.auth[p][m] # None
    /\ WriteState(Recorded(file, p, m, None), Quiet)

SaveEndpoint(id, product) ==
    /\ UNCHANGED secrets
    /\ WriteState([file EXCEPT !.endpoints = SavedRecord(file, id, product)], Quiet)

\* Health and remove look the key up, not the id of a record, and say so when
\* there is none: an error, and for remove an answer.
SaveEndpointHealth(id) ==
    /\ UNCHANGED secrets
    /\ \/ /\ id \in DOMAIN file.endpoints
          /\ WriteState([file EXCEPT !.endpoints[id].health = TRUE], Quiet)
       \/ /\ id \notin DOMAIN file.endpoints
          /\ UNCHANGED file /\ Abandon /\ last' = Said("unkeyed", id)

RemoveEndpoint(id) ==
    /\ UNCHANGED secrets
    /\ \/ /\ id \in DOMAIN file.endpoints
          /\ WriteState([file EXCEPT !.endpoints =
                            [k \in DOMAIN file.endpoints \ {id} |-> file.endpoints[k]]],
                        Said("remove", id))
       \/ /\ id \notin DOMAIN file.endpoints
          /\ UNCHANGED file /\ Proceed /\ last' = Said("unkeyed", id)

\* Mutant: the record is looked up by its key alone.
GetEndpoint_KeyOnly(id) ==
    /\ UNCHANGED <<secrets, file>>
    /\ IF id \in DOMAIN file.endpoints
       THEN Proceed /\ last' = Quiet
       ELSE Abandon /\ last' = Said("not stored", id)
\* GetEndpoint: a record found by its own id under another key is moved first.
GetEndpoint(id) ==
    /\ UNCHANGED secrets
    /\ LET keys == {k \in DOMAIN file.endpoints : file.endpoints[k].id = id}
       IN \/ id \in keys /\ UNCHANGED file /\ Proceed /\ last' = Quiet
          \/ /\ id \notin keys
             /\ \E k \in keys :
                   WriteState([file EXCEPT !.endpoints = Rekeyed(file, k, id)],
                              Quiet)
          \/ keys = {} /\ UNCHANGED file /\ Abandon /\ last' = Said("not stored", id)

Do(call) ==
    CASE call.op = "connect" -> Connect(call.plugin, call.method, call.given, {}, call.id)
      [] call.op = "save"    -> SaveEndpoint(call.id, call.product)
      [] call.op = "health"  -> SaveEndpointHealth(call.id)
      [] call.op = "get"     -> GetEndpoint(call.id)
-----------------------------------------------------------------------------
(***************************************************************************)
(* Commands.                                                               *)
(***************************************************************************)
ConnectCall(p, method, given, id) ==
    [op |-> "connect", plugin |-> p, method |-> method, given |-> given, id |-> id]
HealthCall(id) == [op |-> "health", id |-> id]
GetCall(id) == [op |-> "get", id |-> id]
SaveCall(id, product) == [op |-> "save", id |-> id, product |-> product]

Calls ==
    {ConnectCall(p, m, given, id) : p \in Plugins, m \in Methods \cup {Default},
                                    given \in SUBSET Fields, id \in Ids \cup {None}}
    \cup {HealthCall(id) : id \in Ids} \cup {GetCall(id) : id \in Ids}
    \cup {SaveCall(id, product) : id \in Ids, product \in Products}

Idle == queue = <<>>
Begin(calls) == queue' = calls /\ last' = Quiet /\ UNCHANGED <<file, secrets>>

InstallPlugin(p) ==
    /\ Idle /\ ~Installed(p)
    /\ UNCHANGED secrets
    /\ WriteState([file EXCEPT !.plugins[p] = "enabled"], Quiet)

SetPluginEnabled(p, to) ==
    /\ Idle /\ Installed(p)
    /\ UNCHANGED secrets
    /\ WriteState([file EXCEPT !.plugins[p] = to], Quiet)

\* The plugin's instances go with it; its endpoints and secrets stay.
RemovePlugin(p) ==
    /\ Idle /\ Installed(p)
    /\ UNCHANGED secrets
    /\ WriteState([file EXCEPT !.plugins[p] = "absent",
                               !.auth[p] = EmptyState.auth[p],
                               !.wired[p] = None], Quiet)

\* promptAuthConnect and the --field flags: the fields that may get a value.
Asked(p, m) ==
    IF AuthMethodName(p, m) \in Methods THEN Declares[AuthMethodName(p, m)] ELSE Fields

AuthConnect(p) ==
    /\ Idle
    /\ \E m \in Methods \cup {Default}, id \in Ids \cup {None} :
          \E given \in SUBSET Asked(p, m) : \E blank \in SUBSET (given \cap Blankable) :
             Connect(p, m, given, blank, id)

\* AuthAuto: one AuthConnect per method that owns a field set in the
\* environment, in the order of a map; or one for the endpoints alone.
AuthAuto(p) ==
    /\ Idle /\ Enabled(p)
    /\ \E env \in SUBSET Fields, id \in Ids \cup {None} :
       LET set == {m \in Methods : OwnedBy(p, m) \cap env # {}}
           call(m) == ConnectCall(p, m, OwnedBy(p, m) \cap env, id)
       IN /\ set # {} \/ id # None
          /\ IF set = {} THEN Begin(<<ConnectCall(p, Default, {}, id)>>)
             ELSE \E order \in SetToSeqs(set) :
                     Begin([i \in DOMAIN order |-> call(order[i])])

AuthTest(p, m) == Idle /\ Test(p, m)
AuthDisconnect(p, m) == Idle /\ Disconnect(p, m)

\* endpoint save and endpoint import
EndpointSave(id, product) == Idle /\ SaveEndpoint(id, product)
EndpointHealth(id) == Idle /\ SaveEndpointHealth(id)
EndpointRemove(id) == Idle /\ RemoveEndpoint(id)
EndpointGet(id) == Idle /\ GetEndpoint(id)

\* An endpoint of some products is probed by an operation of a plugin, which
\* asks the host for the endpoint.
ProbeCalls(key, asks) ==
    (IF asks /\ file.endpoints[key].product \in Probed
     THEN <<GetCall(file.endpoints[key].id)>> ELSE <<>>)
    \o <<HealthCall(file.endpoints[key].id)>>

EndpointTest(id) ==
    /\ Idle /\ id \in Listed(file)
    /\ Begin(<<GetCall(id), HealthCall(id)>>)

\* doctorEndpoints: every listed record, sorted; the first that cannot be
\* recorded ends the command.
EndpointDoctor ==
    /\ Idle /\ DOMAIN file.endpoints # {}
    /\ \E order \in SetToSeqs(DOMAIN file.endpoints), asks \in BOOLEAN :
          Begin(FlattenSeq([i \in DOMAIN order |-> ProbeCalls(order[i], asks)]))

\* connectDiscoveredAuth: the credentials found in the cluster, unless the auth
\* of the product is connected and no refresh is asked for.
CredentialCalls(p, given, refresh) ==
    IF given = {} \/ (Connected(p) /\ ~refresh) THEN <<>>
    ELSE <<ConnectCall(p, Default, given, None)>>

\* monitor connect for one product: the endpoint, then its credentials.
MonitorConnect(p, id) ==
    /\ Idle
    /\ \E given \in SUBSET Fields, refresh \in BOOLEAN :
          Begin(<<SaveCall(id, p)>> \o CredentialCalls(p, given, refresh))

\* InvokeOperation: endpoint_ref from the caller or DefaultEndpoint; the plugin
\* may ask the host for the endpoint it was given.
InvokeOperation(p, explicit) ==
    /\ Idle /\ Enabled(p)
    /\ LET ref == IF explicit # None THEN explicit ELSE DefaultEndpoint(p)
       IN ref # None /\ GetEndpoint(ref)

Continue == ~Idle /\ \E call \in Calls : Head(queue) = call /\ Do(call)

Command ==
    \/ \E p \in Plugins :
          \/ InstallPlugin(p) \/ RemovePlugin(p)
          \/ \E to \in {"enabled", "disabled"} : SetPluginEnabled(p, to)
          \/ AuthConnect(p) \/ AuthAuto(p)
          \/ \E m \in Methods \cup {Default} : AuthTest(p, m) \/ AuthDisconnect(p, m)
          \/ \E id \in Ids : MonitorConnect(p, id)
          \/ \E ref \in Ids \cup {None} : InvokeOperation(p, ref)
    \/ \E id \in Ids :
          \/ \E product \in Products : EndpointSave(id, product)
          \/ EndpointHealth(id) \/ EndpointRemove(id) \/ EndpointGet(id)
          \/ EndpointTest(id)
    \/ EndpointDoctor
    \/ Continue

Next == Command /\ UNCHANGED named

Spec == Init /\ [][Next]_vars
-----------------------------------------------------------------------------
(***************************************************************************)
(* Properties.                                                             *)
(***************************************************************************)
AuthStates == [connected : BOOLEAN, refs : SUBSET Fields, hollow : SUBSET Fields]
Records == [id : Ids, product : Products, health : BOOLEAN]
States ==
    [plugins : [Plugins -> {"absent", "enabled", "disabled"}],
     auth : [Plugins -> [Methods \cup {Default} -> AuthStates \cup {None}]],
     wired : [Plugins -> Ids \cup {None}],
     endpoints : UNION {[keys -> Records] : keys \in SUBSET (Ids \cup OldKeys)}]

TypeOK ==
    /\ file \in States
    /\ named \in [Plugins -> Names]
    /\ secrets \subseteq Names \X Fields
    /\ last \in [op : {"quiet", "remove", "not stored", "unkeyed"}, id : Ids \cup {None}]

\* A record is under its own id, or under a key that older versions used for it.
KeysSound(st) ==
    \A k \in DOMAIN st.endpoints :
       st.endpoints[k].id = IF k \in OldKeys THEN Normal[k] ELSE k

\* Every reference recorded in st is to a secret of the store.
RefsHeld(st, store) ==
    \A p \in Plugins, m \in Methods \cup {Default} :
       st.auth[p][m] # None =>
          \A f \in st.auth[p][m].refs : <<named[p], f>> \in store

Lost == file' = EmptyState

\* A field auth status calls configured has a value in the secret store, and it
\* is the one the host resolves for the plugin, with two exceptions.  A value given
\* as blanks is recorded and not stored.  And a plugin installed by another name
\* than its manifest has is connected under the manifest's name: its fields are
\* called configured, stored, and yet not resolved.  However a connect failed
\* between the secret store and the state file, no recorded reference dangles.
StatusTruth ==
    \A p \in Plugins, f \in Fields :
       Configured(p, f) =>
          \/ Resolves(p, f)
          \/ named[p] # p /\ <<named[p], f>> \in secrets
          \/ \E m \in Methods \cup {Default} :
                file.auth[p][m] # None /\ f \in file.auth[p][m].hollow

\* An endpoint listed once stays listed until it is removed by its id: neither
\* the move of a record to its own key nor a save drops another.
EndpointsKept ==
    [][\A id \in Listed(file) :
          \/ id \in Listed(file')
          \/ Lost
          \/ last'.op = "remove" /\ last'.id = id]_vars

\* A history once recorded is kept until its endpoint is removed: every save, of
\* endpoint save, auth connect and monitor connect, leaves it under its key, and a
\* move takes it along to the new one.  (A save of an id whose record is still
\* under an old key starts a fresh record beside it: the history stays where it
\* was, and get finds the fresh record.)
HistoryKept ==
    [][\A k \in DOMAIN file.endpoints :
          file.endpoints[k].health =>
             \/ \E j \in DOMAIN file'.endpoints :
                   /\ j = k \/ (k \notin DOMAIN file'.endpoints /\ j \notin DOMAIN file.endpoints)
                   /\ file'.endpoints[j].id = file.endpoints[k].id
                   /\ file'.endpoints[j].health
             \/ Lost
             \/ last'.op = "remove" /\ last'.id = k]_vars

\* The endpoint an instance is wired to exists; only endpoint remove makes the
\* wiring dangle.
WiringHolds ==
    [][\A p \in Plugins :
          \/ file'.wired[p] \in Listed(file') \cup {None}
          \/ last'.op = "remove" /\ last'.id = file'.wired[p]
          \/ file'.wired[p] = file.wired[p] /\ file.wired[p] \notin Listed(file)]_vars

\* The lookup of endpoint get, of endpoint test and of the plugin of an operation
\* never says of a listed endpoint that it is not stored.  Health and remove, which
\* look up the key alone, say it of a listed endpoint only while its records are
\* all under old keys.
ListedIsFound ==
    /\ last.op = "not stored" => last.id \notin Listed(file)
    /\ last.op = "unkeyed" =>
          \A k \in DOMAIN file.endpoints : file.endpoints[k].id = last.id => k \in OldKeys
=============================================================================
