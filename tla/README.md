# A verification development of cz-micro

cz-micro is a set of services around go-micro: a runtime that runs services, a
config service, accounts and rules, a store, a registry and a router reached over
RPC, collectors of logs, statistics and traces, and the front ends (API gateway,
web dashboard, bot, proxy, command line). This directory holds TLA+ modules that
model it, the TLC configurations that check them, and proofs checked by TLAPS.

go-micro itself (the store, registry, router, broker and runtime implementations)
is a library. It is modelled only from how `src/` uses it, and such definitions are
marked external in `PROJECT.json`.

## 1. Inventory

### Runtime service (`service/runtime`)

* **Manager, event pipeline** (`manager/manager.go`, `manager/events.go`).
  State: service records and event records in the global store, shared by all
  managers; `running`; the `cache`, a store in memory with the consumed markers and
  the statuses; the managed runtime. `Create` and `Delete` write the service record
  and then an event record, `Update` only an event record; each then starts a
  goroutine that processes the event. `watchEvents` polls the store and processes
  what it finds. Hard: the marker is checked and written in different steps by
  several goroutines; events are processed in no particular order; the cache dies
  with the process; events and markers expire; the writes of a call can fail one by
  one. Correct when: an event is executed once per manager, in an order that leaves
  the runtime in agreement with the store, and never missed.
* **Manager, statuses** (`manager/status.go`, `manager/services.go`). `watchStatus`
  copies statuses from the runtime into the same cache. Hard: it writes what it has
  read a while before; an error in the middle of a round ends it. Correct when: the
  status of a running service is reported, and an error is not hidden.
* **Service keys** (`manager/services.go`). Pure: `namespace:name:version` keys and
  reads by prefix.
* **Handler** (`handler`). RPC to manager calls, in the namespace of the caller, plus
  an event to the broker; streams of logs, which must be stopped with their client.
* **Scheduler, platform** (`scheduler`, `internal/platform`). A goroutine that turns
  file system events into notifications through channels of 32 entries, dropping
  what does not fit. Hard: `Close` against a running loop; dropped notifications.

### Auth service (`service/auth`)

* **Accounts** (`handler/auth`). State: account records and refresh-token records in
  a store shared by all replicas, and a per-process set of namespaces known to have
  a user account. Operations: `Generate`, `Inspect`, `Token`, `List`. Hard:
  `Generate` checks and writes in separate steps, and writes twice; the first call
  in a namespace creates a default account under a mutex that other replicas do not
  share. Correct when: an account has one secret and a refresh token that leads back
  to it; the default account only exists where no user account did.
* **Rules** (`handler/rules`). State: rule records, and a per-process set of
  namespaces that have had their default rule. Same hazards.

### Config service (`service/config`)

* **Values** (`handler/handler.go`). State: one JSON record per key. `Update` and
  `Delete` of a path read, change and write the record without a lock, then publish
  it for the watchers. Hard: two calls overlap; events that overtake each other.
  Correct when: a call changes the paths it names, loses no more than what changes
  while it is under way, and the last event is the record.
* **Watchers** (`handler/handler.go`, `handler/watcher.go`). State: the watchers of
  each key, their channels, a lock. Hard: `Stop` from two goroutines; a slow watcher
  against the broker's delivery. Correct when: nobody sends on a closed channel,
  closes twice or waits for ever, and a change reaches every watcher.

### Store service (`service/store`)

* **Handler** (`handler/handler.go`, `store.go`). State: which database and table have
  been noted, per process; the notes, in the internal table, which callers of the
  default namespace share. Hard: the note fails or the process restarts between two
  steps; namespaces and names that lead to the same database. Correct when: everything
  with records in it is listed.
* **Snapshot** (`snapshot`, `cli/snapshot.go`, `cli/restore.go`). A goroutine that
  encodes the records that the command sends it into a file; another that decodes
  them. Hard: the goroutine and `Wait`; what gob does with zero fields. Correct when:
  a snapshot that succeeds is complete, and a record is restored as it was.
* **Command line** (`cli`). Single calls, and `sync`, which copies key by key.

### Registry, router, broker (`service/registry`, `service/router`, `service/broker`)

Handlers over the go-micro registry, router and broker, which know services and topics
by names that namespace and name make. Registrations are of nodes, expire, and are
published as events by goroutines (the `subscriber` type of `registry.go` that would process
them is not registered by `Run`). Hard: events overtake each other; streams and their
watchers; names of different namespaces that are the same; `Run` of the router, which
waits for one of two goroutines. Correct when: a caller is sent what its namespace may
see, once and in order; nothing blocks on a stream that is over.

### Debug service (`service/debug`) and `internal/stats`

Scrapers that poll services, keep ring buffers and answer reads from them; counters of
requests that are rolled every five seconds. Hard: partial answers; a registry that
changes in the middle of a scan; nodes that tell of a span again; the order of maps.
Correct when: the cache misses no service that was there; a span is kept once and a read
finds all spans of a trace; every response is counted once.

### Front ends

* **API gateway** (`client/api`, `client/api/auth`), **web dashboard** (`client/web`),
  with the resolvers (`internal/resolver`, `internal/namespace`): a request is
  resolved, verified, and answered or handed on. Hard: the registry changes between
  these steps. Correct when: a request goes where it was verified to go.
* **Bot** (`client/bot`): goroutines that share a map of services that one of them
  changes without the lock, and that a result about one node of a service adds to or
  takes from. Correct when: the map says what the registry does.
* **Settings file** (`internal/config`, `client/cli/util`): read as a whole by each
  command and written as a whole. Hard: commands side by side, and interrupted ones.
* **Command line** (`client/cli`, `internal/command`, `cmd`): commands and an
  interactive session. Correct when: the exit status tells the outcome.
* **Start and end of every process** (`Run` of each service and client): what a
  process starts - services, servers, loops - must be stopped when it ends.

## 2. Plan

In the order in which the modules were written. A module `X_proofs` holds the theorems
about `X` (`Handlers_proofs` those about the four handlers of row 4, `AuthService_proofs`
also those about `AuthRules`), a module `MCX` its instances for TLC.

| Order | Module | What it models | State |
|---|---|---|---|
| 1 | `EventDelivery` | abstract: what the runtime's event log promises | done |
| 1 | `RuntimeEvents` | the event pipeline of the managers; refines `EventDelivery` | done, proved |
| 1 | `RuntimeManager` | the pipeline composed with the status goroutine | done, proved |
| 2 | `AuthAccounts` | accounts, refresh tokens, the default account | done, proved |
| 2 | `AuthRules` | rules and the default rule | done, proved |
| 2 | `AuthService` | both handlers in the same processes | done, proved |
| 3 | `ConfigMap` | abstract: a map whose calls look at it, then take effect | done |
| 3 | `ConfigValues` | `Create`, `Update`, `Delete` and their events; refines `ConfigMap` | done, proved |
| 3 | `ConfigFeed` | abstract: what `Watch` promises of the events of a key | done |
| 3 | `ConfigWatchers` | `Watch` streams, `Stop`, the subscriber and the lock; refines `ConfigFeed` | done, proved |
| 4 | `RegistryHandler`, `RuntimeHandler`, `StoreHandler`, `StoreSnapshot` | the handlers of the services, and the snapshots of a store | done, proved |
| 4 | `DebugCollectors`, `RequestStats` | caches, scrapes, rings and reads; the counters | done, proved |
| 4 | `WebGateway`, `SettingsFile`, `CommandLine` | resolvers, wrapper and proxies; the settings; the commands | done, proved |
| 4 | `Services` | these nine, one at a time | done, proved |
| 5 | `BrokerHandler`, `RouterService`, `RuntimeScheduler`, `BotCommands` | the parts whose goroutines wait for one another | done, proved |
| 5 | `ServiceStartup` | the `Run` functions of all services and clients | done, proved |
| 5 | `Processes` | these five, one at a time | done, proved |

Every invariant, action property and refinement that a run checks is a theorem as well
(section 8); liveness stays with TLC. A next step would be an abstract log that
`RegistryHandler` implements for its watchers; `RegistryStreamsFaithful` says today, of
each state, what it would say of the steps.

Where the code does what a reader might not expect - it loses an update, an event or a
service - and nothing in the repository says otherwise, the property names exactly that
case (a history variable: `raced`, `unsure`, `crossed`, `blurred`, `unnoted`,
`doubtful`, `partly`, `lost`) and holds of all others; where a comment or a test says
otherwise, a run shows the violation.

## 3. The runtime manager

`RuntimeEvents` has one action for each access to a store or to the runtime, since
nothing locks between them. A *thread* is a goroutine: the one `publishEvent` starts
for an event (named by the event's id), or one that runs `watchEvents` (a *watcher*).

| Model | Code |
|---|---|
| `services`, `ev`, `born` | service and event records in the global store; an event can be read while `now < born + TTL` |
| `marker`, `status` | the consumed markers and statuses in `manager.cache`, forgotten when the process dies |
| `rt` | what the managed runtime runs |
| `Create`, `Update`, `Delete`, `PublishEvent`, `PublishFails` | `manager.go:17-124`, `events.go:26-51` |
| `CheckConsumed` .. `MarkConsumed` | `processEvent`, `events.go:76-134` |
| `LookupPanics` | the event that does not unmarshal, `events.go:91-102`: the error is logged, the nil event used, and the process ends |
| `PollEvents`, `NextEvent`, `WaitTicker`, `PollFails` | `watchEvents`, `events.go:53-74` |
| `Start`, `Stop`, `Crash` | `manager.go:127-157`; the end of the process |
| `SyncList`, `SyncRead`, `SyncWrite`, `SyncAborts`, `SyncBare` (`RuntimeManager`) | `syncStatus`, `status.go:26-79` |

An event's service is one of `Services` with one of `Images`; names, versions and
metadata are not looked into (except that an update may come without metadata, in
which case `cacheStatus` writes nothing). Ids are random, so a watcher takes the
events of a poll in any order. `applied` is a history variable: how often each thread
has handed each event to the runtime since its process began.

What is checked: `runtime_pipeline` has two managers with a watcher each, one event,
one fault (a store error or a crash) and two ticks of the clock with `TTL = 1`. That
is enough for the call's goroutine and both watchers to be anywhere in
`processEvent` at a time, for the event to expire under a thread, and for a manager
to come back after a crash and meet the event again; the theorems cover any number of
events, managers, faults and ticks. `runtime_status` starts on a store and runtimes that
hold any services (`RebootInit`), in two namespaces, which is what makes the order of
a round matter. A third service, `bare`, is one that the runtime returns without
metadata: `SyncBare` ends every round that comes to it, however many there are, and
`RunningEventuallyReported` excepts the runtimes that run one, since the code may then
report nothing else, ever. The same run has the whole life of an event: with `TTL = 2`
and five ticks an event is read for two ticks and its marker is kept for four, so both
expire in the run, the event first; `MarkBriefly` (a marker that lives as long as the
event only) breaks `MarkerOutlivesEvent` and `ConsumedUntilExpiry`.
`MCRuntimeManager!Bounded` keeps it small: the clock goes on only while nothing is
stored or runs, and the event is then a deletion.

Fairness (`RuntimeEvents!Fairness`): weak fairness of every goroutine's next step,
which the Go scheduler gives; store calls are assumed to return. Calls need not be
made, faults need not happen and time need not pass. `StatusSpec` is only fair to the
status goroutine: what it promises does not need the pipeline.

Observations that are not properties of the code:

* `runtime_executed_once` (a finding): the marker is read and written in different
  steps, so two goroutines of a manager can execute an event twice.
* `runtime_overlap` (a finding): nothing orders the goroutines of two calls, so a create
  and a delete can be applied in the wrong order, after which the service runs for good
  although the store no longer has it. `HealthySpec`, under which it is shown, takes
  every failure away and no overlap.
* A service without metadata keeps the statuses of the others from being refreshed, and
  an event that does not unmarshal ends every manager that reads it while it lives.
* `syncStatus` can write a status it has read over the error that `processEvent` has
  cached since; nothing corrects it when the runtime no longer lists the service.

## 4. The auth service

`AuthAccounts` and `AuthRules` have one action for each access to the store. `pc` is
where a call is; `setupDefaultAccount` and `setupDefaultRules` run inside `Token` and
`List` with the replica's mutex (`holder`, `ruleHolder`), and run `Generate` and
`Create` for the default record, so those are the same actions with another target and
another return (`GenerateEnds`, `CreateEnds`). One namespace is modelled: namespaces
write no records of another's, and the mutex is held for longer, never for shorter, if
they are more. `Token` however looks a refresh token up under a prefix that ends with
the namespace and no separator (`auth.go:298`), so it finds the tokens of every
namespace whose name begins with this one's: `Neighbours` has them, and `FindAccount`
goes on with the id it finds, in this namespace. A secret and a refresh token are named
by the call that made them. `AuthService` puts both handlers into the same processes: a
crash ends the calls of both.

| Model | Code |
|---|---|
| `account`, `refresh`, `rule` | records in the store of all replicas |
| `verified`, `ruleVerified`; `holder`, `ruleHolder` | the `namespaces` maps and the mutexes of a replica |
| `EnterSetup`, `ScanAccounts`, `LeaveSetup` | `auth.go:68-123` |
| `GenerateReads`, `GenerateWrites`, `setRefreshToken` | `auth.go:126-188, 272-275` |
| `FindAccount`, `CheckAccount`, `refreshTokenForAccount`, `IssueToken` | `auth.go:204-315` |
| `EnterRuleSetup`, `ScanRules`, `LeaveRuleSetup` | `rules.go:57-101` |
| `CreateReads`, `CreateReadFails`, `CreateWrites`, `Delete`, `ServeRuleList` | `rules.go:104-184` |
| `StoreFails`, `RuleStoreFails` | the error returns |

Three histories say when the code cannot keep its word, and keep the properties exact
rather than vacuous: `raced` has the ids for which two calls were between the read and
the write of `Generate` at a time (`Contested`); `unsure` has the ids that a `Create`
was to write without knowing that there is no rule, because another one was about to
or because its read had failed with an error that `rules.go:122` does not look at;
`deleted` says that a rule has been deleted. `AccountsNeverReplaced`,
`OneGenerateSucceeds` (proved, and not a property of the run: `AccountsNeverReplaced`
and `GeneratedCanLogIn` are what is left of it there) and `RulesNeverReplaced` are about
all other ids. `VerifiedHasUser` asks of a namespace that a replica has cached for an
account of a user, through any fault, and, until there is one, for the refresh token
that `Token` needs, or a call that is about to write it (`LoginComes`); only the type of
an account that two calls raced for is excepted. So the code
does lose accounts (the later of two overlapping calls of `Generate` replaces the
secret that the earlier one was told) and rules, and these are the only ways.

What is checked: `auth_service` has two replicas, two ids of accounts and two of
rules (the default one and another), two calls at a time out of four
(`MaxCalls = 2`: both of accounts, both of rules, or one each), one store error in
each handler and one crash of a replica that hits both. Two calls are what every
property here takes to break: two setups, a setup and a `Generate`, two creations of
an id, or a call and what it left behind. A token of a namespace whose name begins with
this one's is there for one of the ids. The proofs hold for any numbers.
`rules_ignored` is a finding: `setupDefaultRules` caches the namespace although the
write of its rule has failed.

Fairness: weak fairness of each call's steps (`Proceed`, `RuleProceed`): a call is
served by a goroutine of its own, and Go's mutexes do not starve. In a bounded model a
mutex is released often enough that strong fairness adds nothing.

## 5. The config service

`ConfigValues` models `Create`, `Update` and `Delete` of one key. A document is a
function from paths that do not overlap to the call that last set them, or `None`.
Accesses to the store and the publication are steps; each can fail, and the process
can die between them.

`Update` and `Delete` read a record and write it back with no lock or version, so a
call can undo a change that another has been acknowledged for. That is plain from
`handler.go:157-239`; the question worth asking is how far it goes. `ConfigMap` says it
of all behaviours, with no condition on what overlaps: a call looks at the configuration
at one moment between its request and its effect (`Look`, `found`), and takes effect at
one moment before its answer (`Apply`), on its own paths, leaving the others as it has
found them. So what is lost is what changed between those two moments and nothing that
was there before the request; a call that is answered with an error has changed nothing;
one that dies has either had its whole effect or none. A handler that based a change on
an older record, on another call's, or on none would not implement it.
`LastEventIsRecord` names the two ways in which watchers get stuck with an old
configuration: an event that is lost (`missed`: the error of `publish` is ignored), and
the events of two changes under way at a time (`crossed`). `Delete` without a path
publishes nothing, by the code.

`config_values` has three calls, two paths and one fault: two calls that overlap and
one that comes before, between or after them.

`ConfigWatchers` models the `Watch` streams of a replica. Each stream has two
goroutines, the *loop* (`Next` and `Send`) and the *aide* (it waits for the context),
either of which may call `Stop`; events are handled by goroutines of their own that
hold the read lock while they offer the event to each watcher for up to 100 ms.

| Model | Code |
|---|---|
| `watchers`, `closed`, `gone` | the map for one key; closed `exit` channels; done contexts |
| `pending`, `Readers` | `mtx`: a goroutine that locks keeps new readers out, and waits for those inside |
| `Open`, `Register` | `handler.go:366-375`, `watcher.go:48-58` |
| `StopChecks`, `StopCloses`, `StopRemoves` | `watcher.go:24-45` |
| `NextStopped`, `Deliver`, `SendReturns`, `AideWakes` | `watcher.go:15-22`, `handler.go:379-398` |
| `Receive`, `RLock`, `Offer`, `GivesUp`, `RUnlock` | `handler.go:402-412` |

`Stop` checks whether `exit` is closed before it closes it, outside the lock: the
finding `watchers_twice` shows both goroutines of a stream closing it, which panics.
From then on the process is over (`panicked`), and the liveness properties say so.

`ConfigFeed` is what a client of `Watch` may rely on although events can be missed: an
event is announced to the streams that are registered at one moment, none of these comes
or goes while it is handled, and each is sent it once or misses it. It has no lock, no
goroutines and no channel. `ImplementsFeed` says that `ConfigWatchers` implements it,
which includes that a stream stays in the map until it stops (the theorem `OpenTheorem`
says that apart): a stream has left when it is not in the map any more, an event is for
the watchers it is offered to or is still to be offered to (`offered`, `todo`), and
`Deliver`, the rendezvous on the `next` channel, is `Send`.

`config_watchers` has two streams and two events: one event offered to both streams
while either leaves, and a second one that waits for the lock behind the first.

Fairness: every goroutine that can run does, and `Send` returns once the context of
the stream is done; a slow client may otherwise hold `Send` for ever, and no client
need go away. Nothing is fair once the process has panicked.

## 6. The services and the front ends

`Services` puts nine modules side by side. Their processes share nothing but what
others change (a registry, a store, a folder), and each module has those changes as
actions of its own; so a behaviour is one of one part, which is chosen when it begins
(`part`), and the state space is the sum of the parts and not their product. The run
`services` checks all nine. It has no fairness: its properties are about safety.

* **`RegistryHandler`**. A name is the sequence of its parts, so `withNamespace` and
  `canReadService` are about first and last elements. The registry keeps nodes: a
  request registers or takes away the one it names (one to a request; a request of
  several is these one after the other, with one event), and a registration whose TTL
  runs out goes without an event (`Expire`). `Change` starts the goroutine of
  `publishEvent`, a step of its own that can come in any order or fail. `changes` is
  the registry's log, from which watchers are fed; a watcher is made for the name in the
  request, as it stands there, or for all (`WatchService`); `watched` is what `Send` has
  sent. `RegistryStreamsFaithful`: a stream has been sent every change since it was
  opened of what it asked for and may see, once and in order - so one that asks for a
  name of its own namespace without the namespace is told of the default one's only.
  `EventsTellTheRegistry`: once nothing is left to publish, the last event about a node
  says whether the registry has it, unless (`blurred`) one was lost, overtaken or of
  another namespace, which the event does not name, or the registration has expired.
  `DeregisterAll` (the whole service goes) breaks it. The finding `tenants_find`: a
  service that is registered in a namespace only is not found there.
* **`RuntimeHandler`**. The namespace of a call, keys and reads by prefix
  (`ReadsOwnServices`: a name never reads another's services, a version reads those
  that begin like it), what is published, and the streams of `Logs`. The manager's
  event log is in `RuntimeEvents`, and what it does with a call is abstract here:
  it takes effect and succeeds, or fails before or after.
* **`StoreHandler`**. `get` finds the database: the caller's namespace if there is one,
  with `go.micro` turned into `micro`, or else what the request or the options name; and
  the table. Pairs of different callers can therefore be the same, and one of them is the
  internal table of the notes: a caller of `go.micro` that names it changes the notes
  like any other records. Calls overlap; `get` is under its lock, with the two notes of
  `New` as steps that can fail and between which the process can end. `TablesListed`:
  where there are records their database and table are listed, and a table that is
  listed is of a database that is, unless (`unnoted`) `New` failed, when `get` remembers
  the pair all the same, or a caller changed the note itself.
* **`StoreSnapshot`**. The command, the goroutine, the channel (one record at a time:
  it has no buffer), the WaitGroup, and the file. `Wait` can come before the
  goroutine's `Add`, but the command sends every record before it waits, so only the
  closing of a file without records is missed (`SnapshotComplete`). A restored record
  can have a value or an expiry of an earlier one where its own is zero, and nothing
  else that is not its own (`RestoredAsSaved`).
* **`DebugCollectors`**. A scan of the cache goes step by step while the registry moves:
  the list (`ScanLists`), each service with its nodes in the list (`ScanTakes`), or
  without, when it is asked for and the versions that there are by then come back
  (`ScanAsks`) or the lookup fails and it is left out (`ScanLeavesOut`). `scanned` is
  what the registry has had from the list to the end and did not fail to give:
  `CacheComplete` says that it is in the cache but for the one collision of the key,
  name and version run together. A nil cache ends the process. Rounds of the scrapes,
  nodes that do not answer, rings of `Window` rounds. `Entries` and `filterServiceSpans`
  are functions, compared with a reference: every span of a trace that hits the service
  is in the answer once, and no other is, in every order that a map can give, up to the
  limit of the request (`TraceReadsComplete`). `SpansKeptOnce`: no span is in two rounds
  of a ring.
* **`RequestStats`**. Responses are counted once through every roll, also when
  `Start` is called twice, which starts two goroutines (`running` is never set);
  `Counted` adds up what the window has counted to what was rolled out of it. Each
  is counted as a 20x: the code is written to another writer than is looked at.
* **`WebGateway`**. Hosts and paths are sequences of labels and segments. A request is
  wrapped, verified and served in steps between which the registry changes; the pages
  of micro web are at its own host (`Hostname`), addresses and the dashboard's host. The
  selector of the director can fail.
  `ForwardedWhereVerified`: it reaches the service that was verified, or, if none was
  found for it, one that has come since. `LinksLeadToServices`: the index page's links
  resolve to the services they stand for.
* **`SettingsFile`**. `Set` empties the file and writes it in two steps, of processes
  that have loaded it before. `SettingsKept` and `EnvSelectedExists` hold through lost
  updates, garbled files and interrupts; `lost` names the settings that a process has
  overwritten without having seen them.
* **`CommandLine`**. Each command is what it asks of the services and how it ends; a
  call that fails may have had its effect. `ExitTellsOutcome` names the commands that
  exit with 0 without having done what they were asked, or say nothing; an answer of
  the network without routes ends the process in a panic.

Some properties of the run join those of the modules: `CallersSeeTheirOwn` the
registry's streams and the runtime handler's, `SnapshotsFaithful` both halves of
`StoreSnapshot`, `ReadsTellAll` what the debug service and the statistics answer,
`GatewayFaithful` and `CommandsFaithful` the front ends'. `EventsTellTheRegistry`,
`TablesListed`, `SpansKeptOnce` and `CacheComplete` are checked by their own names.

The bounds (`Services_calls.cfg`) are the smallest with which each case happens: two
namespaces, two nodes and two calls of the registry (a change and its reversal, or one
that overtakes), with any number of expiries and a watcher; three calls of the store, two
at a time, with an error and a restart, from callers with a namespace, with `go.micro`
and with none, so that the names of all three meet; two records, three writes by others
during a snapshot, and one error; three services of which two have the same key, two
scans and two moves of the registry; two nodes, three spans in two traces, three
rounds over a ring of two; counters that roll out of their window; hosts and paths for
every branch of the resolvers, with one change of the registry; two commands side by
side with an interrupt; a session of two commands about two nodes and two keys with
two changes by others.

## 7. The processes

`Processes` puts side by side, in the same way, the parts whose goroutines wait for
one another. The run `processes` checks their safety and that they go on.

* **`BrokerHandler`**. A name is the sequence of its labels, and namespace and topic run
  together (`Within`): `x` of the namespace `go.micro` is `micro.x` of the namespace
  `go`, and a subscriber in one is sent what is published in the other. `Publish` chooses
  one subscription of each queue; the callback of each message is a goroutine, and
  `errChan` has room for one error; a `Subscribe` that fails ends its stream.
  `BrokerStreamsFaithful`: nothing is sent across namespaces of which neither begins the
  other, of its own namespace a client is sent its topic, and each message goes to one
  client of a queue of a namespace. `BrokerProceeds`: callbacks return also when nobody
  reads the channel, and the subscription of a client that has gone ends.
* **`RouterService`**. `Run` of several routers with the goroutines of
  `PublishAdverts` and `service.Run`, adverts in any order on the topic with the type of
  their event (a delete takes the route away), `Process`, the table's handlers, the
  streams of `Advertise` and `Watch` (one of `Advertise` leaves its channel with the
  router). `RouterStops`: the process ends with the first of its goroutines.
* **`RuntimeScheduler`**. `run`, `Notify` and `Close` with `initScheduler` behind them.
  The channels hold the same event again and again and are numbers. Go's `select` takes
  any branch that is ready, and those of a closed watcher are ready for ever.
  After an error the watcher of files is made anew; if that fails, its error is dropped
  and the nil watcher ends the process (`"panic"`).
  `ChangesReachServices`: a dropped notification is made up for, for every service, until
  the scheduler is closed or its watcher has been replaced; `SchedulerCloses`: `run` sees
  `exit` in the end or panics on its way there.
* **`BotCommands`**. `watch` with its list, helps, watcher and map; the loop of each
  input, whose `Stop` can fail. A service has nodes, and a result about one of them
  names the service only: a delete takes the command away whatever nodes are left
  (`partly`). A map that is changed while it is read may end the bot (`fatal`): what the
  Go runtime does then is a choice. `BotKnowsServices`: with no result left to read, the
  map has the services of the registry but for those in `partly` and for those that
  changed between the list and the watch or gave no help (`doubtful`). `BotStops`: the
  loops of all inputs that could be stopped end.
* **`ServiceStartup`**. Each `Run` is a list of steps with what an error does to it
  (`fatal` ends the process without its deferred calls). `ServicesNotOrphaned`: what
  was started is stopped, unless stopping failed or a signal came before the process
  listened; `micro init` listens before it starts anything. `SignalEnds`.

Fairness (`ProcessesFairness`): weak fairness of every goroutine's next step, and
strong fairness of the branch `exit` in the loop of `run`, since Go's `select` chooses
among the ready branches at random. Nothing is assumed of clients, of the file system,
of the registry, of the callers of `Close` and of signals, nor that a call fails.

The bounds: channels of one entry (every drop happens with the second change), two
services for the fan-out, two routers (an advert is the other's or one's own), of which
routes name one; three namespaces of which one begins another, two topics that make them
collide, two streams and one queue, two messages; one service of two nodes, three changes
and one message for the bot with two inputs.

## 8. What is proved

All theorems are about the specifications that TLC checks, for every value of the
constants that satisfies the named assumptions, which are in the modules that declare
the constants and which TLC evaluates in every run. They say that

* bounds on counters are naturals and channels have room for one entry
  (`EventsAssumption`, `AuthAssumption`, `RulesAssumption`, `ServiceAssumption`,
  `ValuesAssumption`, `StatsAssumption`, `DebugAssumption`, `BotAssumption`,
  `SchedulerAssumption`, `RouterAssumption`, ...);
* what stands for "nothing" is not one of the values it is told from
  (`NoImageAssumption`, `NoEventAssumption`, `NoneAssumption`, `NoRuleAssumption`,
  `WatchersAssumption`, part of `SettingsAssumption`);
* sets of names are not empty where the model starts with one (`BrokerAssumption`,
  `StoreAssumption`), and finite where a command or a read lists them
  (`SnapshotAssumption`, `CommandLineAssumption`, `DebugAssumption`);
* names are sequences of letters, labels or parts (`WebAssumption`,
  `DebugAssumption`), and, for the runtime's keys, a name is not empty and neither a
  namespace nor a name has the separator of `Key` in it (`SeparatorAssumption`).

Except where a theorem says otherwise its proof has one shape: an inductive invariant
(`IInv`, or the part's own name), a lemma that the initial states have it, a lemma that
every step keeps it, and that it implies the property.

* `RuntimeEvents_proofs`. The invariant `IInv` adds to the properties what makes them
  inductive: a thread's place says whether its event is in the store
  (`RequestThreads`, `WatcherThreads`), a watcher that gets past the marker of an
  event it has applied will find that the event has expired (`AppliedInOrder`), and
  an event that a watcher has applied is marked or about to be (`AppliedGetsMarked`).
  `AppliedOncePerThread` alone says nothing of the marker, so it is not inductive.
  From it: `TypeCorrectness`, `AppliedOnceTheorem`, `MarkedMeansAppliedTheorem`,
  `MarkerOutlivesEventTheorem`, the action property `ConsumedUntilExpiryTheorem`, and
  `Implementation`: the pipeline implements `EventDelivery`.

  `StatusInvariance` and `StatusTypeCorrectness`: the composition with the status
  goroutine keeps `IInv` and its types, started on any store and any runtime. Its
  steps leave events, markers and runtimes alone (`StatusStepKinds`), so the lemmas
  about the pipeline's steps carry over: `StatusConsumedTheorem`, a marker still lasts
  as long as its event, and `StatusDeliversTheorem`, every step is one of the log of
  `EventDelivery`. The latter is about steps only: `EventDelivery` begins with empty
  runtimes, and such a manager need not.
* `AuthAccounts_proofs`. `IInv` (types, and what a call of `Generate` has written at
  each of its steps) gives `TypeCorrectness`, `RefreshTokenTheorem` and
  `GeneratedTheorem`. A second invariant, `RaceInv`, says of an id that is not in
  `raced` that whoever is about to write it is alone and finds it free; it gives
  `OneGenerateTheorem` and the action property `NeverReplacedTheorem`. A third,
  `UserInv`, follows the setup of a namespace from the account to the token and any call
  that has written a user's account to its refresh token (`LoginComes`, kept by
  `LoginKept`); it gives `VerifiedTheorem`: a namespace that a replica has cached has an
  account for users, and unless the store failed or a process died that one has its
  refresh token or is about to have it.
* `AuthService_proofs`. Of the rules: `RulesTypeCorrectness` includes the mutual
  exclusion of the setup, on which `ListNotEmptyTheorem` rests (a cached namespace, or
  one past its setup, has rules, unless the store failed or a rule was deleted);
  `RuleNeverReplacedTheorem` goes like that of the accounts. Of the service: it
  implements each of its handlers (`ImplementsAccounts`, `ImplementsRules`, fairness
  included), so their theorems hold of the whole: `ServiceInvariants`.
* `ConfigValues_proofs`. `TypeCorrectness`; `LastEventTheorem`, from an invariant that
  follows the one call whose event is the record; `Implementation`, one lemma that
  maps every step to a step of `ConfigMap` or to none, for all behaviours: `Read` is
  `Look`, and `Write`, `Remove` and the `Delete` that finds no record are `Apply`.
* `ConfigWatchers_proofs`. `IInv` ties the lock to the goroutines that wait for it and
  the set `todo` of each handler to the map; it gives `TypeCorrectness`,
  `OfferedTheorem`, `OpenTheorem` and `ForgottenTheorem`. With `OfferInv` (what is being
  offered has been crossed off `todo`) it also gives `Implementation`: the streams
  implement `ConfigFeed`. `OfferedAreRegistered` is what a `Send` needs, since the
  watcher it goes to must still be registered.
* `Handlers_proofs`. Lemmas about sequences (what follows a prefix, sequences that
  increase, sequences over a set), and what induction is used for, each with a set and
  not an operator as its parameter: `LeastNumber` (from the well-foundedness of the
  naturals), `UpTo` (a set that has m and, up to n, the next of each of its numbers has
  all of m .. n), `Recursion` (a function that is defined from its own smaller values
  exists) and `FlattenPlaces` (where each element of a flattened sequence comes from).
  Then one invariant for each of four handlers:
  - `RegistryIInv`: every change about a node that is not `blurred` is published or about
    to be, and in order; the last change decides whether the node is registered; each
    stream has been sent what it may see of the log so far. From the first three,
    `EventsTellTheRegistry`.
  - `RuntimeIInv` with `ReadsOwn`, which needs no steps: a key begins with the prefix
    of a read only if its name is the one that was asked for, because the separator
    after a name is in no name (`PrefixSplits`).
  - `StoreIInv`: a pair that `get` takes as known is listed or `New` failed for it
    (`KnownListed`), or a caller changed the note; and a call gets past `get` with a
    known pair only.
  - `SnapshotIInv`: the file is what the goroutine was handed but for the record in its
    hand, the counter of the WaitGroup is one while it has work (`WriterInStep`), no
    key is read twice (`KeysOnce`), and what a restore has done so far is what it
    promises at the end (`RestoredSoFar`).
* `Services_proofs`. The invariants of the five other parts: `DebugIInv` (the spans of a
  round in progress are apart from those of the ring; what has been there since the list
  is still to be taken or has its key in the scan's map, `ScanCovers`), `StatsIInv`
  (what has been served and what the counters of the window hold tell of every response
  once), `WebIInv` (a request carries what it was resolved and verified for),
  `SettingsIInv` (what each process has loaded is what was promised but for settings it
  has missed) and `CommandIInv` (a command has reported or copied what was listed but
  for what it still has to ask for). `ServicesIInv` is the conjunction of the nine; a
  step of one part keeps its own by that part's lemma and the others' by a stuttering
  lemma each. It gives `ServicesTypeCorrectness`, `EventsTheorem`, `CallersTheorem`,
  `TablesTheorem`, `SnapshotsTheorem`, `SpansTheorem`, `CacheTheorem`, `ReadsTheorem`,
  `GatewayTheorem` and `CommandsTheorem`.

  `ReadsTheorem` is about functions of data. That a read of traces is complete
  (`TraceReadsComplete`) needs no more than types: it is proved of every sequence of
  spans and every order of their traces, `filterServiceSpans` being a flattening of the
  traces that hit (`FilterFacts`, `ReadOfSpans`). That responses are counted once is
  inductive: the sum over a window unfolds at either end (`CountedLast`,
  `CountedFirst`), so a new counter, a roll and a response change it as they should.
* `Processes_proofs`. In the same way, of five parts:
  - `BrokerIInv`: nothing is on its way to a stream that has not subscribed, or that
    has to a topic which, with its namespace, is another one.
    That names which run together alike are of nested namespaces is a fact about
    sequences, and so is that within one namespace the topic is the same.
  - `RouterIInv`: what the goroutines of `Run` have still to put on `errChan` fits in
    it (`RunInStep`).
  - `SchedulerTypeOK`, inductive as it is: a channel that is full drops.
  - `BotIInv`: for each service that is not in doubt, the last result that is still to
    be read, or else the map, tells what the registry has; while the list is being
    asked for help, the map with the rest of the list does (a service in `partly` counts
    as gone). `BotKnowsServices` says it
    of the moments at which nothing is left to read, so it is not inductive.
  - `StartupIInv`: what is alive was started by a step that the process has behind it,
    and what it has behind it was stopped, deferred or listened for. That the process
    then leaves nothing is a fact about the lists of steps, `StepsInOrder`, which
    `RunsInOrder` proves of each of the seventeen Run functions by going through it:
    no step after the start of services is fatal unless it stops them, what is started
    before an early return is deferred by then, all else is stopped or deferred but
    for the proxy's router, and `micro init` listens before it starts.

  It gives `ProcessesTypeCorrectness`, `FaithfulTheorem` and `StartupTheorem`.

The invariants that the modules of the model define (`IInv` of `RuntimeEvents`, those of
the nine parts, `ProcessesIInv`) can be added to the `INVARIANT`s of the runs about
them, where TLC finds that they hold.

Only model-checked: liveness (`EventuallyConsumed`, `RunningEventuallyReported`,
`EveryCallServed`, which joins `EveryCallAnswered` and `EveryRuleCallAnswered`,
`GoneStreamsEnd`, `EventsHandled`, `ServicesProceed`), which rests on fairness and is
beyond the prover. The five runs that are expected to find a violation show behaviours
of the code and have no theorems.

## 9. Runs

| Run | Expected | Shows |
|---|---|---|
| `runtime_pipeline` | holds | delivery, markers and liveness of the event pipeline under expiry, crash and store errors |
| `runtime_overlap` | violated | a runtime left with a service that is not in the store |
| `runtime_executed_once` | violated | an event executed twice by one manager |
| `runtime_status` | holds | running services are reported in the end; an event that was consumed stays so through its lifetime and its marker's |
| `auth_service` | holds | accounts and rules under overlap, store errors and crashes; every call is answered |
| `rules_ignored` | violated | a namespace cached as set up without a rule |
| `config_values` | holds | calls that overlap, fail and die lose no more than `ConfigMap` says; the last event is the record |
| `config_watchers` | holds | the map of the watchers, what a stream is sent, and the end of streams and events |
| `watchers_twice` | violated | the `exit` channel closed twice |
| `services` | holds | the handlers, snapshots, collectors, gateways, settings and commands, one at a time |
| `processes` | holds | streams, routers, scheduler, bot and the Run functions: their safety, and that they go on |
| `tenants_find` | violated | a service registered in a namespace only and not found there |

Deadlock is checked in `runtime_pipeline` and `runtime_status`, whose managers never
come to rest. The other models end when all calls,
streams and events have been served, which is no deadlock either; that the auth
service, the watchers and the processes do not stop before is what their liveness
properties say.

For every property of a run that holds, `PROJECT.json` names a mutated operator of
the model (`\* Mutant:` comments) with which TLC finds the property violated.

## 10. What is not modelled

* Generated code, templates, tables and wording: layout, about which no property is.
* The file and exec proxies, the log handler of the debug service, the handler of the
  health service, the upload of files, the bot's own commands, `Verify` of the auth API:
  one call or one read of a file for each request, with no state of their own.
* Flags, certificates, environments of profiles and options that are handed on
  unchanged; the tar writer of `service/runtime/handler/util.go`, which nothing calls.
* The `subscriber` of `service/registry/registry.go`, which is registered nowhere.
* Reads that change nothing (`Inspect`, the statuses' `Read`, `Read` and `List` of the
  config service), and the contents of tokens, documents and messages beyond what the
  properties tell apart.
* go-micro itself beyond what the code relies on.
