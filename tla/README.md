# fluxplane-plugin: TLA+ models, TLC runs and TLAPS proofs

fluxplane-plugin is a Go library and CLI that runs *plugins* as separate
processes. The CLI (`cli/`) drives a local backend (`management/local`) that
keeps installed plugins, auth, endpoints, processes, blobs and index snapshots in
files, starts one plugin process per call (`pluginruntime`), speaks framed JSON
over its stdin and stdout with it (`protocol`), and serves the plugin's own
requests (HTTP, connections, processes, secrets, blobs, index) on its behalf.
Plugins are written against `pluginbinding`.

This directory models the parts of it where interleavings, failures and long
sequences of commands matter, and the algorithms whose results many of them rely
on. It holds TLA+ modules, TLC configurations, proofs, and `PROJECT.json`, which
maps every definition to the source lines it stands for and lists the runs, the
hazards, the mutants (one bug of the code per property, which the property must
catch) and the theorems.

## 1. The system

| Part | State | Operations | Talks to | What is hard |
|---|---|---|---|---|
| fan-out helper, `cli/parallel.go` | semaphore, wait group | `runConcurrent` | every multi-plugin command | the limit, waiting for the last job, no deadlock |
| session, plugin side, `protocol/pluginmain.go` | id counter, `waiters` map, `readErr`, one reader goroutine | `Serve`, `CallHost`, `EmitHostEvent`, `readLoop` | the host over two pipes | concurrent callers, answers out of order, end of stdin against registration |
| session, host side, `pluginruntime/runtime.go` | the child process, output budget, handler goroutines | `invokeFramed`, `callHost` | plugin process; `cliHost` for capabilities | full pipes, a plugin that never exits, deadline, when is a success a success |
| host connections, `management/local/conn.go`, `pluginbinding/conn.go` | `connRegistry` per invocation, `hostConn.closed` | dial, read, write, close, `closeAll` | sockets | close against read, against dial, against the end of the invocation |
| state file, `management/local/local.go` | one JSON file, `cacheMu` | about 25 backend operations that read all and write all | fan-out, probes | non-atomic writes, lost updates, stale caches |
| versions and lifecycle, same file, `cli/pin.go`, `cli/lifecycle.go` | plugin records, binaries in the bin dir | install, update, upgrade, pin, rollback, sync, remove | `go build`, `go install`, marketplace | records against binaries over long command sequences and kills |
| managed processes, same file | process records, PIDs, logs | start, stop, list, revive a port-forward | HTTP capability | start before record, PID reuse, double revival |
| auth, endpoints and secrets, same file, `cli/monitor.go` | auth states and wiring of instances, endpoint records with health, secret store | connect, auto, test, disconnect; save, get, health, remove, test, doctor; monitor connect | plugin calls, environment | three stores written one after the other, records under old keys, dangling references |
| blobs, same file, `cli/blob.go` | content and info file per blob | read, write, info, put | plugins | two files, overwrite check, colliding names |
| index, `management/local/index.go`, `pluginbinding/index.go` | snapshot files | build, status, lookup, search, list, get, batch get | datasource calls | partial builds, torn files, ranking across snapshots |
| plugin definitions, `pluginbinding/` | handlers and manifest, a cache per request | define, merge, dispatch, batch, secrets | `Serve`, host | partial failure, routing, secrets that change |
| operation commands, `cli/op*.go`, `cli/selftest.go` | none | assemble, coerce, validate, send, extract fields | backend, plugin | schemas that say less or more than the plugin takes, numbers that go through doubles |
| generated skills and catalog, `cli/skill.go`, `cli/lifecycle.go`, `local.go` | `SKILL.md` and pages per skill, cached catalog | skill install, refresh, the hook after state-changing commands; fetch, refresh | state file, plugin manifests | pages that contradict the state, names that collide, files cut short |
| rendering, types, name suggestions | none | parse, print | | |

Interactions: a command calls the backend once, or once per plugin from
`runConcurrent`. `invokePlugin` makes a `connRegistry`, calls `invokeFramed` and
closes the registry when it returns. The plugin process serves one request with
`Plugin.Handle...`, whose handlers ask the host. Each capability request runs
`cliHost.CallHost` on a goroutine of its own, which may touch the registry, the
state file or a managed process. Nothing waits for those goroutines.

What makes the parts correct: every job of a fan-out has ended when it returns;
a capability call gets its own answer or an error, and ends; sockets do not leak;
an operation's write does not erase another's; a plugin's record says what its
binary is; a pin holds; what auth status says the host can resolve; an endpoint
that is listed is found; a reader of a store never takes half a write for a
whole; an operation gets the input its caller wrote and answers that call.

## 2. Modules

| Module | Models | Composed with |
|---|---|---|
| `ForEach` | abstract: independent calls, at most `width` at once, then return | implemented by `FanOut` |
| `FanOut` | `runConcurrent`, every statement that synchronises | refines `ForEach` |
| `CapabilityCalls` | abstract: a capability runs at most once for a call and before its answer, a call returns once, and a call that was never sent is not run; one that lost its session may be run yet | implemented by `FramedSession` |
| `FramedSession` | both ends of one invocation, the pipes and the process | refines `CapabilityCalls` |
| `FramedSessionProofs` | proofs about `FramedSession`: who releases a call, what a call and the invocation return, and the refinement of `CapabilityCalls` | |
| `HostConns` | connections of one invocation, plugin and host side | assumes `FramedSession`'s `InvocationEnds` |
| `HostConnsProofs` | proofs about `HostConns` | |
| `StateFile` | the state file under `search`, `selftest`, `doctor` | jobs of a `FanOut` |
| `FanOutProofs` | proofs about `FanOut`, its refinement of `ForEach`, and `StateFile` | |
| `PluginVersions` | plugin records and binaries under the lifecycle commands | |
| `PluginVersionsProofs` | proofs about `PluginVersions` | |
| `ManagedProcesses` | processes the host starts for plugins, and their records | |
| `ManagedProcessesProofs` | proofs about `ManagedProcesses` | |
| `AuthEndpoints` | auth states, wiring, endpoint records and secrets under the CLI's commands | |
| `AuthEndpointsProofs` | proofs about `AuthEndpoints` | |
| `FileStores` | index snapshots and blobs on disk, their writers, and the searches over them | |
| `Orders` | sorting and filtering of lists | used by `FileStores` and `Dispatch` |
| `SkillPages` | the skills generated on disk, the commands that refresh them, and the cached catalog | |
| `SkillPagesProofs` | proofs about `SkillPages` | |
| `Dispatch` | a plugin: how it is put together and serves one request | the plugin of `Operations` |
| `Operations` | the host's side of a request: CLI, backend, and the outcome | extends `Dispatch` |
| `AnswersProofs` | proofs about `FileStores` and `Operations`: what a caller is answered | |

How state and steps correspond to the code:

* **FanOut.** `sem` and `wg` are the channel's length and the wait group's
  counter; `worker[i]` is the position of goroutine i between its creation and its
  two deferred calls, which are separate steps (`Release`, then `Done`).
* **FramedSession.** A section under a mutex, or a decode with the locked section
  after it, is one step. A frame is one element of a pipe of `PipeCap` frames; a
  write to a full pipe is a disabled step. `pc[c]` follows one `CallHost`,
  `waiters`, `reader`, `hand` and `closing` follow `readLoop`. The host's
  `invokeFramed` is `host` with `budget` for `limitedReadCloser`, `stderrFull` for
  the `limitedBuffer`, and `handlers` for the goroutines of `callHost`: spawned,
  running the capability, or holding its answer. A call is served when its capability
  runs, which may be long after the goroutine was spawned, and after its caller was
  told that stdin is closed. The root request may be larger than the pipe: then the
  host is `writing` until the plugin has read it. A frame
  carries its caller besides its id (`from`), so that a wrong delivery shows.
  Payloads are dropped. `Crash`, `PrintNoise` and `FloodStderr` are what plugin
  code may do that the protocol cannot prevent. When the host leaves its read loop it
  closes stdin and waits; `Wait` classifies the result.
* **HostConns.** One dial makes one connection and names it. `dial[d]`,
  `close[d]` and `read[r]` follow the request through plugin and host goroutine;
  blocking network calls take two steps. `conns` is the registry's map from ids to
  connections; a request knows its id only, and remembers what the registry held under
  it (`read[r].from`, `close[d].conn`). A `Write` takes the same path as a `Read`.
* **StateFile.** `pc[p]` is the goroutine of plugin p; reading the file is one
  step, writing it is two (`O_TRUNC`, then the bytes), so another goroutine may read an
  empty file or write into it. What is kept of the state is what the three commands
  touch: installed plugins, operation caches, the last auth result, process records.
  `snap[p]` is the state the goroutine read and will write back.
* **PluginVersions.** A command builds (or removes) a binary and then writes the
  record; `BuildFails` may come before, `Crash` between, and `Torn` in the write, which
  leaves an empty file: no records. `cmd.told` is the version read off the installed
  binary, or nothing where `inspectInstalledModuleVersion` fails, and then the record
  keeps the version it had (a rollback writes the one it asked for). A version may be
  asked for as `Query`, which is `latest` or a branch: a pin records that text.
  `behind[p]` remembers that a binary changed and no record was written since,
  `unread[p]` that it was recorded without a version. `last` is what the last `pin`
  or `rollback` reported. Every plugin has a go_install source and one path; a
  workspace may or may not be there at each build, which covers `--remote`. An upgrade
  that cannot read the pins (`upgrade_blind`) takes all plugins.
* **ManagedProcesses.** `table` is the map of records in the state file, `os` what
  the operating system runs under each pid: nothing, a process of the host for some
  id, or another one (foreign, signalled, or lost to a kill or a torn write). A
  process leads a group of its own, so the pid names the group, too. `pc[a]` follows a
  request through `processStart` (`launch`, `read`, `write` and `fill` of
  `storeProcess`, `abort`, `marker`), `stopStoredProcess` (`look`, `kill`, `write`,
  `fill`), `reviveLoopbackForward` (`revive`, `probe`, then a start) or `AuthTest` and
  `AuthConnect`, which read the state, call the plugin (`called`) and write back what
  they read. Every read may fail; a write truncates the file and may fail before or
  after that. `orderly` is for the properties: it becomes false once two windows
  between a read of the file and its write back overlap, two requests are about the
  process of one id at once, or a plugin starts an id of its own choice whose process
  runs. In each of these the code does lose records or double processes, so the
  properties promise nothing then.
* **AuthEndpoints.** `file` is the state file, `secrets` the secret store. A backend
  call is one step; `queue` holds the calls that the running command has still to
  make, so a failure leaves what the earlier ones did. `WriteState` writes, fails, or
  is killed after the truncation, which leaves the state the code reads from an
  empty file. `Connect` writes the secrets before the state and may stop after any of
  them. An endpoint record may start under a key that is not its id, as an older
  version left it; `health` stands for everything a save carries over. A blank value is
  recorded as a reference and not stored, which `hollow` keeps apart. `named[p]` is
  the name in p's manifest, under which secrets are stored; p is the name it is installed
  by, under which they are resolved. (A new version that renames itself is left out.)
  A plugin that asks for an endpoint while `auth test` calls it may move a record, and
  the test's write moves it back: no state between commands that other steps do not
  reach, so it is no step here. What a plugin
  answers, what the environment holds and what a prompt is given are chosen by `\E`.
* **FileStores.** `files[p]` is what path p holds; each write truncates and fills in
  two steps, and two writers of one file may leave a mixture. `writer[w].todo` are the
  writes an index build or a blob write has still to do. An error and a kill are the
  same step, `Stop`: both leave what was written. `Search`, `List`, `Get` and
  `BatchGet` are functions of the snapshots on disk; a record has words in fields of
  three weights, and the scores are those of the code. A torn file makes every load
  fail (`Readable`). `BlobInfo(r)` decodes what lies in the info file of r, a description
  or the JSON content of another blob (`Decoded`), and `BlobRead` follows its path. `Orders` has the sort by a strict order and the filter of a list that
  the search and the context of a plugin are written with.
* **SkillPages.** `record[p]` is what is recorded of p: its look (what a page shows of it
  but for its auth) and whether its auth is connected. `proc` follows one command: `New`
  with the catalog it reads, fetches or caches, the changes it makes, and the refresh,
  page by page; each file is truncated (`Torn`) and then written, and the command may
  fail or be killed at any step. `Shown` is `buildSkillPlugin`: `Bare` when p's manifest
  cannot be read, and "unread", which the page calls not connected, when `AuthStatus`
  fails; a `SearchPlugins` that fails leaves nothing `known` of the catalog. All three
  succeed. A page's name is what the plugin's manifest calls it (`PageFile`), or the name
  it was installed by (`LinkFile`) when there is no manifest; two plugins may share
  one. `excused[d]` is for the properties: the parts of skill d that a command which
  failed, was killed or refreshes nothing has left behind.
* **Dispatch.** `plugin` is what `Define` makes of a manifest and options: the listed
  operations are normalized and merged, the handlers line up. `request` is one
  request: the calls it is made of, the cache of secrets, the answers so far. A handler
  is the plugin author's code: it returns anything, and its goroutines (`readers`) read
  secrets as they like. `Context.Secret` is three steps, as in the code: a lookup in the
  cache, a question to the host, a store in the cache, with no lock over them; a purpose
  without a secret is version 0, which is cached like any other. `SignRequest` is an HTTP
  request that the host signs with what it has stored. `since`, `reads` and `mixed` are
  history: the secrets when the request came in, every read, and the purposes that two
  goroutines asked for at once. `Rotate` is another process that stores a new secret.
* **Operations.** `call` is the command that runs. An input is a function from the paths
  of its leaves to the leaves. `Put` is `setNestedValue`; `Assembled` is `--input` with
  one `--arg` after the other, where everything goes through `map[string]any` as soon as
  there is an arg: `Doubles` gives the double that a number becomes, and a number that has
  none makes the input fail and an arg a string. `Listing` is what `ListOperations`
  returns: what the plugin has, what an `Earlier` build had (the cached list), or an
  error. `Verdict` is everything that can end a call before it is sent, `Injected` what
  the backend adds. A JSON `null` where an object is expected ends the process, in
  `buildInvokeInput` as in `injectEndpointRef`: the outcome `panic`.

## 3. Runs

| Run | Checks | Bounds |
|---|---|---|
| `fan_out` | refinement of `ForEach` (which has the width, the return after the last call, and the return itself) | n up to 5, limits 0 to 4, 2 CPUs: n below, at and above the limit, serial path, default limit |
| `framed_session` | `OwnAnswer`, `OneOwner`, `NobodyStranded`, `SuccessIsReal`, refinement of `CapabilityCalls`, `CallsEnd`, `InvocationEnds` | 2 callers, pipes of 1 frame, 3 frames of output, one event or noise frame (`MaxExtra`): two callers are what routing can confuse, one frame makes every write block, and both requests and an event reach the output limit |
| `host_conns` | `OwnConn`, `OpenIsHeld`, `UsedEndClosed`, `ReadsEnd` | 2 dials, 2 reads: the reads may share a connection or not |
| `state_file` | `StateSurvives`, `CachesKept`, `CacheFresh`, `JobsEnd` | 2 plugins, 2 builds of each, the three commands on every subset of the plugins |
| `state_file_selftest` | expected violation of `NeverCorrupted` | same, selftest only |
| `plugin_versions` | `VersionTruth`, `HistorySound`, `PinAgrees`, `RollbackRoundTrips`, `PinHolds` | 2 plugins, alike by symmetry, 2 versions, a query and the local build, any number of commands |
| `plugin_versions_pin` | expected violation of `PinInstalls` | 1 plugin, 2 versions |
| `managed_processes` | `Visible`, `OneProcess`, `StoppedIsStopped` | 2 requests at once, 2 ids, 3 pids: two processes of one id and a foreign one, or a pid that passes from one id to the other; the search stops where `orderly` is false, where the properties are true |
| `auth_endpoints` | `StatusTruth`, `ListedIsFound`, `EndpointsKept`, `HistoryKept`, `WiringHolds` | 1 plugin with 2 methods of one field each, installed by the name in its manifest or by another one, 2 recorded auth states at a time (one in the second case), 2 endpoint ids, 1 old key of the first: two connects of one command, two endpoints of one product, a record that has to move onto a free or a taken id; any number of commands |
| `file_stores` | `InfoHasContent`, `GetAgreesWithBatch`, `TopMatches`, `ReportTrue` | 2 writers, 3 indexes of which two share a file name, 2 versions of the data with records that share ids and entities, 2 refs of which one is the info file of the other, 3 contents: no JSON, JSON that names nothing, JSON that names the other blob; 8 searches with limits 1, 20 and none; files of one store at a time, for the two share none |
| `operations` | `SecretsStable`, `AnsweredAsAsked`, `ArgsApplied`, `SentAsListed`, `ContextBest` | 3 plugins: one with strict, loose and missing schemas, two datasources with a shared entity, two context providers and two observers; one of an earlier build; one with commands only. 5 operation names, 9 inputs, 7 argument lists, numbers of which one is rounded and one is too large, listings that are current, older or failed, 4 batches of up to 3 calls (`MaxCalls`); 2 goroutines that read secrets, 2 rotations, 2 reads: one reads before and one after, or both at once |
| `skills` | `MainFollows`, `PagesFollow` | 2 plugins of which one calls itself by the other's name, connected or not and of one look, 1 skill, 1 catalog that can be fetched or not: a page overwritten by another plugin's, a page to prune, commands that install, remove, connect and disconnect, and any other that refreshes |

Deadlock checking is off where the modelled thing ends (a fan-out, an invocation, a
command); the others have no end and check it. `FanOut`, `FramedSession`,
`HostConns`, `StateFile`, `PluginVersions`, `ManagedProcesses`, `AuthEndpoints` and
`SkillPages` state a `TypeOK`, too; the runs spend their time on the properties, and their
proof modules prove it (`FanOut`'s is `FanTypeOK`).
`MCFileStores` uses symmetry of the writers and `MCOperations` of the readers, which the
properties treat alike. In `operations`, the constraint `SecretsInBatches` looks at secrets
only while a batch is served whose calls fail, and replaces those of one purpose only: a
handler reads secrets in the same way under every command, and what it returns then has no
bearing on them. The theorem has neither limit.

What the expected violations show:

* `NeverCorrupted`: `cacheMu` protects `cacheOperations` from itself only.
  `storeProcess`, reached from a probe's HTTP call, may read the file just
  truncated and write back an empty state.
* `PinInstalls`: after a local build the record keeps the old version, and `pin`
  at that version does not reinstall it.

`StateSurvives` and `CachesKept` are stated for the uses the code makes safe: fan-outs
that write from `cacheOperations` alone, and commands about one plugin. `CacheFresh`
holds in every use.

What the models show besides, and no run lists:

* A dial still connecting when the invocation returns adds its socket after
  `closeAll`; nobody closes it (`NoSocketOutlives` of `HostConns` is refuted as an
  invariant). Connections the plugin was told of are closed (`UsedEndClosed`).
* Concurrent `AuthTest`s of `doctor` overwrite each other's results (`TestsRecorded` of
  `StateFile` is refuted).
* `Visible`, `OneProcess` and `StoppedIsStopped` of `ManagedProcesses` are refuted without
  `orderly`. Of two starts at once, the later writer erases the other's record, and that
  process runs on where neither `process list` nor `process stop` finds it. A forward
  that is revived while an `auth test` calls its plugin, by a request of that very plugin,
  loses its record when the test writes back what it had read; the next refused request
  starts a second process, and a stop of the old record reports success.
* A `process stop` whose pid has gone to a foreign process of the same user signals that.
* When `go version -m` cannot read an installed binary, the record keeps the version of
  the one before, so `installed_version` is wrong and a pin without a version holds that;
  `pin p@latest` holds the text `latest`, which is no version on record.
* An `upgrade` whose `ListPlugins` fails once reinstalls pinned plugins
  (`cli/lifecycle.go:47`).
* `AuthConnect` without a method records the manifest's first method, `AuthTest` and
  `AuthDisconnect` without one look for `default`: the test adds a second entry, the
  disconnect finds nothing.
* A value given as blanks is recorded as a reference and not stored (`hollow`), so auth
  status calls the field configured.
* A plugin installed by another name than its manifest has is connected under the
  manifest's name (`local.go:1052`), so that its fields are called configured and the host
  resolves none of them; a plugin installed by that name gets its secrets.
* `endpoint remove` leaves the instance wired to the removed endpoint.
* The blob `r.json` is stored where the description of the blob `r` belongs: its content,
  if it is JSON, is taken for the description of `r`, which need not exist, and a later
  write of `r` replaces the content of `r.json` by its description.
* `endpoint health` says that an endpoint "is not stored" and `endpoint remove` that it
  "was not stored" when its record is under an old key, though `endpoint list` shows it;
  `endpoint get` and `endpoint test` move it first and find it. `endpoint save` puts a
  fresh record beside it, and the old one stays in the list.
* The CLI's local validation rejects inputs that the plugin would serve, though
  `cli/opvalidate.go:28-31` says that it catches mistakes "without risking false rejects".
  A plugin decodes its input with `json.Unmarshal` (`plugin.go:543-546`, `631-640`), which
  takes unknown fields, values out of an enum and missing fields, while the schema that
  is reflected from its type is closed and requires every field without `omitempty`
  (`155-157`, `751-758`). An operation that requires `endpoint_ref` is rejected when its
  input omits it, although the backend would have filled it in. And the listing may be
  the cached one of an earlier build. So `SentAsListed` promises only that what is sent
  keeps to the schema that was listed, not that the rest was wrong. Batch and selftest do
  not validate.
* With `--arg`, numbers of `--input` and of args go through a double: 9007199254740993
  reaches the plugin as 9007199254740992, an arg `1e400` as text, and an `--input` with
  `1e400` is refused; without `--arg` all of them are sent as they are written. An input
  with such a number is not validated.
* A page says "not connected" of a plugin whose auth status could not be read, and a
  `SKILL.md` offers nothing when the catalog could not be searched (`skill.go:378`, `277`);
  the command reports success.
* A skill does go stale (`cli/cli.go:51-52` says it never does) after an `auth test` that
  fails, which records the failure and returns an error, so that the hook does not run;
  after `monitor connect` and `doctor --check-auth`, which are not in the list; and after
  any command that fails once it has changed the state. A catalog that is cached later
  is shown by the next refresh only.
* `SKILL.md` links a plugin's page by the name it was installed by, the page is written
  under the name in its manifest: where they differ the link leads nowhere or to the
  page of another plugin.
* A cached catalog that was cut short makes every command fail at its start, until it is
  deleted.
* A refresh rewrites a skill for the default instance, from the built-in templates, with
  pages, whatever it was installed with.
* The host sets no grant on its calls, so `auth test` of a plugin with
  `AuthTestOperation` answers `host_managed` and does not run the operation.
* When the manifest lists an operation without a schema that says so, a registered
  schema is taken; the merged entry may be read-only and have effects at once.
* A secret that is missing when it is first asked for is cached as the empty value, and
  stays so for the request even if it is stored meanwhile (`local.go:1875-1879` drops
  the flag). Two concurrent `Context.Secret` calls of one handler may both miss the cache
  and work with two versions, of which the older one may be cached; an HTTP request is
  signed with the version stored then, whatever the handler has read.
* The answers of a batch that times out are lost, also of the calls that succeeded.

## 4. Fairness

* `FanOut`: weak fairness of each goroutine and of the caller; calls of fn return
  because plugin calls have a deadline.
* `FramedSession`: weak fairness of goroutines past the start of their call, of
  `readLoop`, of the host's loop, and of handlers but for the capability itself:
  `connRead` without a timeout waits for its peer, so nothing obliges a capability to
  return. `CallsEnd` says of a call what holds if its own capability does not run for
  ever; those of the other calls may. The plugin
  is not obliged to respond, start calls or exit. Blocked pipe writes are disabled
  steps, so weak fairness does not force them. `InvocationEnds` assumes, in the
  property, that the context fires: `invokePlugin` gives every call a deadline.
* `HostConns`: weak fairness of host goroutines and of the end of the invocation.
  The peer and the plugin are not obliged to do anything.
* `StateFile`: weak fairness of each job and strong fairness of acquiring
  `cacheMu`, because Go's mutex hands itself to a waiter that starved for 1 ms.
* The other modules have no liveness property and assume no fairness: what they model
  is a sequence of calls, each of which returns, and a kill or an error may end any
  of them early.

## 5. Proofs

| Module | Assumes | Proves |
|---|---|---|
| `FramedSessionProofs` | `SessionAssumption`: `None` is no caller, bounds are natural numbers, a pipe holds at least one frame | types, `OneOwner`, `NobodyStranded`, `OwnAnswer`, `SuccessIsReal`, `ImplementsCalls`: the refinement of `CapabilityCalls` |
| `FanOutProofs`, fan-out | `FanOutAssumption`: the bounds are numbers and there is a CPU | types and accounting (`FanSound`), the safety part of `ImplementsForEach` (`FanOutImplements`), `ResultsComplete` |
| `FanOutProofs`, state file | `StateFileAssumption`: finitely many plugins, `None` is none of them, known commands | types, `StateSurvives`, `CachesKept`, `CacheFresh` |
| `PluginVersionsProofs` | `VersionsAssumption`: there is at least one version | types, `VersionTruth`, `HistorySound`, `PinAgrees`, `PinHolds`, `RollbackRoundTrips` |
| `ManagedProcessesProofs` | `ProcessAssumption`: `None` is neither a pid nor an id | types, `Visible`, `OneProcess`, `StoppedIsStopped` |
| `HostConnsProofs` | none | types, `OwnConn`, `OpenIsHeld` |
| `SkillPagesProofs` | `SkillPagesAssumption`: pages have names, a catalog is a set of plugins with at least one, marks of missing and torn files are no contents | types, `MainFollows`, `PagesFollow` |
| `AuthEndpointsProofs` | `AuthEndpointsAssumption`: old keys are not ids, the manifests name declared methods and fields, an installed name is a name | types, `StatusTruth`, `ListedIsFound`, `EndpointsKept`, `HistoryKept`, `WiringHolds` |
| `AnswersProofs`, stores | `FileStoresAssumption`: indexes, records, requests and the data are of their types, a ref's content and info file differ, no index is stored where a blob is, and a content that is JSON names refs and paths or none | types, `InfoHasContent`, `ReportTrue`, `GetAgreesWithBatch`, `TopMatches` |
| `AnswersProofs`, operations | `DispatchAssumption`, `OperationsAssumption`: what is defined and asked for is of its type, the earlier build among the definitions; own commands do not have the name of a served one; a handler prefers at least one purpose; a double stays itself when it is rounded; the number of a call is no empty string | `OperationsSound`, `SecretsStable`, `AnsweredAsAsked`, `ArgsApplied`, `SentAsListed`, `ContextBest` |

**FramedSessionProofs.** `OneOwner` says that the channel of a call in flight is owned by
exactly one of: the waiters map, the reader that is about to send, the reader that is
about to close, or nobody because it has been filled or closed. `NobodyStranded`
follows from the same invariant: when the reader is gone, the map is empty, nothing is
in hand and nothing is left to close, so the one owner left is "settled". `OneOwner` is
not inductive. The invariant conjoins `IdsUnique` (an answer matches one call only),
`WaitersSound` (the map holds calls in flight under their own ids), `Private` (nobody
knows a call that has not registered) and `ReaderSound` (`readErr`, the swapped map and
the reader's phase move together). `ReadEnd` needs `ReaderSound`; `Register` needs
`Private` and the check of `readErr`; `ReadAnswer` needs `IdsUnique`. There is one lemma
per action that touches a channel, the map or the reader, and one for all steps that
leave them alone.

An answer reaches its caller by its id alone, so the invariant
`Ans` follows the id around the loop: a request in the pipe (`RequestsSound`), the
handler that works on it (`HandlersSound`), the answer on its way back and the one in the
reader's hand (`AnswersSound`) and what is in a channel (`CallsSound`) all carry the id of
the call they are for. Ids are unique (`IdsUnique`) and 0, the id of the root
request, is nobody's. A capability runs once because a request in the pipe, or a handler
that has not started, is the only one of its call (`Asked`), and none is left when the
answer is on its way (`Over`). A call that returns before it is sent was never in the pipe
(`Sent`), so nothing can serve it. A call that returns `readErr` was sent and may be
served yet: the abstract `Serve` allows it for the lost. In the refinement
`HandlerStarts` is `Serve`, the return of `CallHost` is `Answer`, `Refuse`, `Lose` or
`Withdraw`, and every other step stutters.
`SuccessIsReal` has an invariant of its own, `SuccessSound`: a success on its way to the
host, or accepted by it, was sent by the plugin's handler.

**FanOutProofs, fan-out.** That at most `Bound` calls run is not inductive: the caller
puts an element into `sem` before the call starts, and the call ends before its worker takes
one out. `Accounted` says what is in the channel (`Holding`: the workers between the
start of fn and their first deferred call, and the caller's element while it is about to
spawn) and what the group counts (`Awaited`). `CallsSound` says that just the
indices below the loop variable were handed over, so that none is called twice and `Wait`
has seen all of them once the group is at 0. `BusyBounded` compares the running calls with
`Holding`; `FanStepMaps` maps `SerialCall` and `Spawn` to `Start`, `SerialReturn` and
`Return` to `Finish`, `SerialExit` and `Wait` to `ForEach`'s `Return`, and the others to
stutters. `MaxNumber` and `MaxLimit` are any numbers, so the bounds of the run are none here.

**FanOutProofs, state file.** `PcSound` says which goroutine may be where under which command,
and that a writer of a search holds `cacheMu`. From it follows `OneTouches`: under safe
use at most one goroutine writes the file or relies on what it has read of it; for a
search by the mutex, for one plugin because a set with at most one element has no two
different ones. `Kept` says that what such a goroutine is about to write has all plugins
and every list stored so far, which survives the moments in which the file is truncated
and others read an empty state from it. `CacheFresh` holds in every use and needs
neither: `FreshSound` says that a cached list, in the file or in any snapshot, is not
newer than the binary, because the time is taken before the list.

**PluginVersionsProofs.** The properties of the records are not inductive, because
between its steps a command relies on what it read before it started. `Ind` conjoins
them with `Phases` (which command can be where, that a pin and a rollback have a version
to ask for, that what is still to build and what is built are apart), `Made` (a binary
that was made is there, is the version asked for, and what was read off it is its
version), `Foreseen` (what the command read
of pins and previous versions is still so) and `Reported` (the last rollback reported is
what the record says). `BeginInd` is proved once for all commands, from what each of
them read; `SavedFields` states what `writeState` leaves of any plugin and is what the
steps of `SaveInd` cite, with `VersionMadeIs`: what is written is the version of the
binary or none, and a rollback always writes one. `HistorySound` needs `Made` and `Foreseen` at a rollback's save;
`PinAgrees` needs `Foreseen` at `PinPlugin`; the two action properties follow from the
invariant before the step.

**ManagedProcessesProofs.** For any number of actors. `Ind` conjoins the types with, as
long as `orderly` holds, `Seen` (every process of the host has its record, or an actor
accounts for it), `Apart` (two actors are never both between a read and a write of the
file, nor both about one id), `Fresh` (what such an actor read of the file is what is in
it, or the file is truncated by it), `Alone` (nothing runs for the id about to be launched,
and only the process the actor knows of for the one about to be probed, recorded or
stopped) and `Settled`, which is `StoppedIsStopped`. `OneProcess` follows from `Seen` and
`Alone`: a table has one pid per id. `StepSound` is the lemma behind every step of one
actor: it says which facts about the new position, job and file keep `Ind`, so that the
lemma of an action only has to show those. `ProbeInd` needs `Alone`, because the code
probes the recorded pid only; `KillInd` needs it to know that the group it signals is all
there is. `OsInd` serves both steps of the operating system.

**HostConnsProofs.** That a socket is closed once at most needs to be said of who may
close it: `OwnersSound` says that a dial, the registry, a request that removed it and
`closeAll` own a socket one at a time, and that an owned one was not closed yet.
`IdsSound` says that an id is larger than all ids before it and so names one connection
for good, and that the registry and the connection agree on it; `RequestsSound`, that
only a connection with an id is asked for. `AddInd` needs the type (ids are at most
`seq`), `RemoveInd` needs `IdsSound` to know that what it took out was its own, and
`CloseAllInd` that every connection leaves the registry for `left`. There is one lemma
per action of a dial and of a close, and one for all steps of a read.

**SkillPagesProofs.** The properties speak of the time between commands; `SkillsSound`
says of every moment that a skill is current, excused, or `MainDue` or `PagesDue`: the
running command changed something, or the skill is still to be written or being
written. A command that ends has to excuse what is due (`EndInd`, used for a command
that fails, is killed, refreshes nothing or is done), and a skill that the command
leaves has to be current or excused (`LeaveInd`). `ShowsSound` (what is written is made
of the records as they are, which holds because one command runs at a time) makes the
written SKILL.md current: what could not be read of a record is marked as such, so that
`Current` holds of it whatever failed; `WrittenSound` says that every page of a plugin
already passed is current and has the name of the plugin it is about, unless the page in the works has its name: two plugins may share a
page, and the later one overwrites a current page with a current page. With
`WrittenSound`, `Prune` leaves nothing but current pages. `CommandSound` shows that a
skill written without references cannot be behind, as its command changes nothing.

**AuthEndpointsProofs.** Every change of the state file is one `WriteState`, so the
argument is about the state that a call writes. `Sound(st, store)` says what holds of
each such state: its types; `KeysSound`, that a record under an id has that id and one
under an old key the id the key normalizes to; and `RefsHeld`, that every reference is to
a field the secret store has under the manifest's name (`named` never changes), or a blank
one. `Follows(st, gone)` says what the state
keeps of the one in the file: the listed endpoints but those in `gone`, the histories
(`Carries`: where they were, or moved along), the wiring of instances unless it was dangling. Per backend
call there is a lemma that its state is sound and follows (`AppliedSound`,
`RekeyedSound` and so on), and one that its action is then `Good`, whether the write
succeeds, fails or is torn. `KeysSound` is what makes the move of a record onto its own
id safe: the record it may meet there has the same id, so that nothing is lost from the
list. `RefsHeld` needs that `saveAuthSecrets` comes before the state. The commands with
several calls add nothing: a call in the queue is one of `Calls`, and each is good in
whatever state it finds. The three action properties and `StatusTruth` are read off
`Good` and the invariant.

**AnswersProofs, stores.** `StoresType` says what a file can hold at all: nothing, a torn
write, or something that is meant for its path; and that a writer has only such writes to
do. `InfoHasContent` is not inductive, because an info file is written a step after it was
decided: `InfoSound` says of every info file, and of every write of one that is still to
be done, that the content it describes is or was written before it (`FilesDescribe`,
`WritesDescribe`). It needs that the info of a ref names that ref (`InfoOf`), since one
ref's info may be another one's content. `ReportSound` follows each write a writer has
done: its file is as it was meant, unless another writer touched it since; the report at
the end promises just that of all of them. `GetAgreesWithBatch` and `TopMatches` are about
what is read and hold in every state with typed files; they need what the operators return:
`Enumerated` (sorting a finite set by a strict order lists each member once, in order),
`KeptElements`, `Flattened` and `Summed` for the folds, and the types of scores. A search
sorts its matches by score and cuts them off (`SearchSorted`), so that whatever is left out
comes after all that is kept (`SearchBest`).

**AnswersProofs, operations.** `OperationsSound` says of the plugin that it is what
definitions can make (`IsPlugin`: its own commands are none of the served ones), which is
`DefinedType`, by induction over the options; of a request that it has the fields, calls and
answers of one (`IsRequest`), that answers belong to calls in order (`AnswersKept`) and what
holds of its secrets (`SecretsKept`); and that it is what the running command asked for
(`Asking`). Every command either ends or sends a `Fresh` request that is what was asked for
(one lemma per command, as `InvokeStarts`); every step of the plugin gets on with the same
request (`ServeProgresses`).

`SecretsKept` follows a version on its way. `VersionsKept` says of the cache, of a goroutine
about to store and of every read that the version is one the host held since the request
came in. `OneReader` says that of a purpose that was never asked for by two at once, the one
goroutine that asks has found nothing in the cache and nobody else asks, so its store
replaces nothing (`StoredKept`); then all reads agree with the cache (`CachedRead`).
`LatestRead` is for signed requests, and holds because versions only grow (`SecretsStay`).
`SecretsStable` and `AnsweredAsAsked` are read off the invariant; `SelectionClear` shows that
an entity alone picks a handler only if no other one exposes it. `ContextBest` is the sort
and the cut again.

`ArgsApplied` is about paths. Two paths either touch, one being a prefix of the other, or
part, and then so do all paths below them (`PrefixMeans`, `Crossing`). `PutLeaves` and
`PutNear` say what `Put` leaves of a function of leaves: at the path, the leaves of the
value and none besides; elsewhere, those that do not touch it. `LaterArgs` adds up the args
by induction (`NearStays` for one of them), `CoercedSound` says what an arg's value is and
that a declared string is one, `InjectedLeaves` what the endpoint adds, and `InputKept` that
the input on its way is still the one that was put together, and was let through by
`Verdict`. `SentAsListed` follows: an input that was let through has no problem with the
schema listed, and the endpoint that is added to it is a field that every normalized
schema declares (`InjectedAllowed`, which needs `ListingSound`).

What these modules define by recursion are recursive functions over an interval of numbers,
and what they are equal to is proved by induction (`Induction`, from `Least`: of the numbers
that a statement fails for, take the least one, which the finite subsets of an interval
have).

The invariants of all these modules were checked with TLC on the bounds of the runs
before they were proved.

Only model-checked: liveness under fairness (of `FanOut`, `FramedSession`, `HostConns`
and `StateFile`), which the prover does not do, and with it `UsedEndClosed` and `ReadsEnd`,
`CallsEnd` and `InvocationEnds`, `JobsEnd`, and that a fan-out returns (the fairness in
`ImplementsForEach`; its steps are proved). `NeverCorrupted`
and the other expected violations are refuted by TLC.

## 6. Not modelled

* The v1 request protocol and `DirectPlugin`, which serve one request without
  capability calls; typed wrappers of capabilities and of HTTP request building,
  progress events and `verify` helpers, which keep no state.
* Read and write deadlines of connections as times; grandchildren of a plugin that keep
  its stderr open: both need a notion of time.
* Two CLI processes at once, but for managed processes (whose actors may be requests of
  different ones): the state file has no lock,
  and the lost updates that follow are those `StateFile` shows between goroutines.
* Explicit installs, PATH binaries, legacy `name@version` records with
  `migrateVersionedKeys`; a stop by explicit pid, and process logs.
* `endpoint discover`, how `endpoint import` chooses what it saves (the save is that of
  `endpoint save`), and redaction.
* Instances other than the default one, and the encryption of the secret store.
* `patternProperties` and formats in schemas, and the plugin's own decoder of an input; the weights of a search, which are
  constants of the model.
* Flag parsing, tables, texts, `incident`, `completion` and name suggestions: they read
  backend results and print; parts of them share the calls that are modelled. Of skills,
  the templates and the link into `~/.claude`.

## 7. Plan

What is left, in order of importance:

1. Named instances in `AuthEndpoints`, and `endpoint discover`.
2. `migrateVersionedKeys` over every iteration order, with legacy records.
3. A torn `writeState` in `StateFile`, as `AuthEndpoints` has it.
4. `monitor connect` as a fan-out over `ManagedProcesses`.
