# A TLA+ model of the kcli service provider

The kcli service provider (`cmd/dcm-kcli-provider`, `internal/`) is one Go
process between DCM and kweb, the REST server of kcli. DCM creates and deletes
VMs and clusters through the provider's API; the provider carries the calls out
at kweb, keeps a bbolt file of what it manages, registers itself with the
service provider manager (SPM), and a background monitor polls kweb and reports
every change of status to DCM over NATS.

This directory holds TLA+ modules that model the parts of the provider whose
correctness depends on interleaving, failure and time, TLC runs over small
instances, and TLAPS proofs of the central properties for every instance.
`PROJECT.json` maps every definition to the lines it models and lists runs,
mutants, hazards, findings and theorems.

    tlc -workers 2 -config Recovery.cfg MCProvider     # a run
    tlapm Provider_proofs.tla                          # the proofs of a module

## 1. Inventory

| component | state it keeps | operations | talks to |
|---|---|---|---|
| state store (`internal/store/store.go`) | bucket id → entry (kcli name, type, status, creation time), bucket kcli name → id | `Put`, `Get`, `List`, `ListAll`, `Delete`, `UpdateStatus`, `FindByKcliName`; each one bbolt transaction | file |
| API handlers (`internal/api/server`) | `createMu`; the locals of each request goroutine; kubeconfig cache `kcCache` | create, delete, get, list with page tokens, health | store, kweb client, publisher, monitor's profile list |
| status monitor (`internal/monitor`) | debounce maps `pending` and `lastPublish`, `seenOrphans`, profile list, `firstPollDone` | `poll` every `PollInterval`: `pollVMs`, `pollClusters`, `refreshProfiles` in parallel, then `flushPending`, then `detectVMOrphans` | store, kweb client, publisher |
| status mapping (`monitor/status.go`) | none | `MapVMStatus`, `MapClusterStatus` | - |
| kweb client (`internal/kweb/client.go`) | health cache, single-flight group, rate limiter | HTTP calls, classification of the answers, `CheckHealth` | kweb |
| event publisher (`internal/events`) | NATS connection | `PublishVMEvent`, `PublishClusterEvent`, `Close` | NATS |
| metrics (`internal/metrics`) | gauges `resources_managed` and `registration_status`, request counter | `Inc`, `Dec`, `Set`, `Middleware` | Prometheus |
| registrar (`internal/registration`) | background goroutine, one per service type | register with retry and backoff, `Stop`, `Registered`, `Deregister` | SPM |
| server lifecycle (`server.go`) | `pollComplete`, listener | `NewServer`, `Start`, self-probe, `/health`, `/ready`, `shutdown` | all of the above |
| middleware (`internal/handlers`, `internal/metrics`, chi) | what has been written of a reply | recovery, metrics, timeout, body size, request validation | handlers |
| generated client and server (`pkg/client`, `server.gen.go`) | none | build, route, decode, answer, parse | each other |
| configuration, OpenAPI document and types | none | - | - |

How they interact. Request goroutines (one per HTTP request) and the monitor
share the store and kweb and nothing else: no lock covers a store transaction
*and* a kweb call, so every handler is a sequence of steps that others can
interleave with. `createMu` serializes only the `POST /kubes` calls. The monitor
takes two snapshots per type (kweb first, the store second) and then acts on
them with writes that go to the store as it is by then. The publisher is called
outside every lock and its errors are logged and ignored. The caches of
kubeconfigs and of kweb's health are filled after a call by whoever made it.
`shutdown` ends these goroutines one kind after the other, under one deadline
for the HTTP server and the monitor together.

What is hard here, and therefore what the properties are about:

* interleavings of a create or delete with the monitor's stale snapshots, with
  another request for the same id, and with another id of the same kcli name;
* a delete writes `DELETING` first and undoes it when kweb refuses; the monitor
  and `DELETE` both leave a `DELETING` entry alone, so one left behind by
  mistake is stuck for good;
* one step of several fails: `store.Put` after kweb's create, `store.Delete` or
  the publish after kweb's delete;
* a crash between two of those steps; the monitor's memory is not persisted;
* kweb carrying out a call that the provider has given up on, and SPM likewise;
* the debounce: which event survives, which is flushed, and which is thrown
  away; two polls in a row; time passing meanwhile;
* page tokens that are offsets into a list that others shift;
* a value fetched before a delete and cached after it; a health answer cached
  by a slow caller;
* the order in which a reply, a deadline, a panic and a hang-up meet in the
  middleware chain, and which of several layers the client hears;
* things that must eventually happen: a debounced event leaves, a cluster
  leaves `CREATING`, an orphan is noticed, a request queued on `createMu` is
  answered, the provider becomes ready, a shutdown ends.

What makes each component correct, in one line each: the *store* keeps its two
buckets in step; a *handler* leaves no resource at kweb that nobody tracks, no
entry in a state nobody will end, and answers; a *list* read to its end is
complete; a *cached* answer is not served for another cluster, nor for ever; the
*monitor* makes DCM's knowledge follow the store's and the store's follow
kweb's; the *registrar* tries until it is accepted or refused, and not after a
deregistration; the *provider* does all of that with everything running
together, after a crash, and while it shuts down; a *call* of the generated
client ends in what the server answered. `PROJECT.json` "hazards" has the full
list at line granularity.

## 2. Modules

| module | models | built on |
|---|---|---|
| `StateStore` | `store.go`: the two buckets and their transactions | - |
| `Environment` | kweb (external), what DCM was last told (external), `resources_managed` | `StateStore` |
| `Handlers` | `CreateVM`, `CreateCluster`, `DeleteVM`, `DeleteCluster`, `createMu` | `Environment` |
| `Monitor` | `poll` and what it calls, the debounce, `status.go`, time | `Environment` |
| `Provider` | handlers and monitor over one store, crash and restart | `Handlers`, `Monitor` |
| `StatusFeed` | abstract: what status reporting promises DCM | - |
| `StatusReporting` | the monitor alone over resources that come and change; implements `StatusFeed` | `Monitor` |
| `Listing` | `ListVMs`, `ListClusters`, a client that follows the page tokens, writers | `StateStore` |
| `KubeconfigCache` | `GetVM`, `GetCluster`, `kcCache`, next to the writers | `Handlers` |
| `HealthCache` | `CheckHealth`: cache and single flight | - |
| `Registrar` | `registrar.go`; SPM (external) | - |
| `Lifecycle` | `Start`, self-probe, `/health`, `/ready`, signals, `shutdown` | `HealthCache`, `Registrar` |
| `ClientApi` | `client.gen.go`: requests, encoders, parsers | - |
| `ServerApi` | `server.gen.go`: routes, parameters, decoders, replies | `ClientApi` |
| `Pipeline` | one call through the client, the middleware chain and back | `ServerApi` |
| `MCApi`, `MCProvider`, `MCReads`, `MCListing` | constants and views of the TLC instances | `Handlers`, `Provider`, `KubeconfigCache`, `Listing` |
| `*_proofs` | theorems about the module they are named after; the lemmas about the store and kweb are in `Monitor_proofs`, the theorems about the store in `Listing_proofs` | `Handlers_proofs` on `Monitor_proofs`, `Provider_proofs`, `StatusReporting_proofs` and `KubeconfigCache_proofs` on these |

### State and actions against the code

**StateStore.** `resources` and `nameIndex` are the buckets. `Put`, `Delete`,
`UpdateStatus`, `List`, `FindByKcliName` are the methods; bbolt runs write
transactions one at a time, so each is one atomic step. An entry's creation
time is kept as its age, because the code only compares
`time.Since(CreatedAt)` with a threshold; ages saturate at `MaxAge`.
`StoreSpec` calls the methods in any order and with any arguments. `Put`
overwrites what is there, as in the code: a create handler looks the id up
first, but two creates of *one id* can both get past that. When they bring
different names, the second `Put` leaves the first name in the index, where it
leads to an entry of another name. `Renames` names this step, and the
properties of the reverse lookup except it and nothing else. (No code outside
the tests reads the index at present.)

**Environment.** `kweb[type][name]` is the state kweb has for a name. A VM is
listed as soon as it is created; a cluster goes through `building` (accepted,
not listed), `bare` (listed without nodes) and `nodes`. A call the provider gave
up on sits in `late` and takes effect whenever kweb gets to it. `told[id]` is
the last status DCM learnt, from the create reply or an event. The gauge is an
integer that `Inc`/`Dec` move; below zero it is followed to `-MaxDrift`.

**Handlers.** A request is a process with a program counter that stops before
each call others can observe:

    create:  (lookup, validate) -> [lock] -> create -> put -> reply
                                                        \-> rollback -> reply
    delete:  (lookup) -> mark -> delete -> publish -> drop -> reply
                                      \-> restore -> reply

VM and cluster handlers have the same shape, so the steps are written once;
`CreateVM`, `CreateVMStep`, ..., `DeleteClusterStep` tie them to the four
handlers (only cluster creates take `createMu`). Every error path is a
disjunct: 400 (spec, profile or cluster type refused), 404, 409 (id of another
type, or kweb's conflict), 500, 502. A create treats *every* error of
`store.Get` as "not there" (`LookupMisses`), a delete answers it with 500.
Neither delete handler compares the entry's type with the route. The gauge
update and the release of `createMu` are part of the step they follow. `Put` and
the 201 reply are one step.

**Monitor.** `poll` and `mpc` are where the poll and its two goroutines stand;
`seen`/`listed` are the snapshots, `left` the ids still to visit, `work` the
change being carried out. `MonVisit` decides (`Verdict`, from `MapVMStatus` and
`MapClusterStatus`) and runs `publishWithDebounce`; `MonPublish` publishes after
the mutex is released; `MonApply` is the store write that follows, with the
gauge and the debounce maps for a resource that is gone. `FlushStart` is the
critical section of `flushPending`, `FlushPublish` its publishes, `PollEnd` the
orphan detection. `sincePublish[id]` is the age of `lastPublish[id]`, saturated
at `DebounceWindow`. `Tick` advances all ages.

**Provider.** `Next` is a step of a request, of the monitor, of kweb, of time,
or `CrashRestart`: all goroutines and the monitor's memory are gone, the store
and kweb survive, calls that were open may still be carried out, and
`NewServer` recounts the gauge from the store. `stranded` is a ghost: ids whose
delete was cut short by a crash or by a failing store.

**StatusReporting and StatusFeed.** The monitor over resources that appear
(`Track`, a create in one step), change and vanish at kweb. `lost` is a ghost:
ids whose last publish or last store write failed. `StatusFeed` knows no polls,
snapshots or windows: a resource has one settled status, DCM is told that one
and no older one, and a resource goes only after `DELETED` was settled on. The
refinement mapping `Settled` takes, for the settled status, the one the monitor
is carrying out (`work`) where there is one, and otherwise the one in the store;
`Feed == INSTANCE StatusFeed WITH status <- Settled, ...`.

**Listing.** A page token is an offset into the list, newest first, as the store
has it at the moment of the request. `Rank` is an entry's place in that order,
`Page` and `NextToken` the slice and the token; the list itself is never built.
The client (`Begin`, `ListOK`, `ListFails`, `End`) reads one list from the first
page to the last while `Create`, `Remove` and `SetStatus` run. `stay`,
`removed`, `added` and `repeated` are ghosts: what was listed all the time, and
what was shifted under the client. Time stands still within a walk; a new entry
may be of any age, because the creation time is taken before the `Put`. `Create` is
the real `Put`, of an id that may be tracked: then the entry that was there is
gone, for the ghosts as by a `Remove`, and another takes its place.

**KubeconfigCache.** A GET of a cluster is four steps: `store.Get`, the cache
lookup, the fetch from kweb, the store into the cache. A kubeconfig is known by
the number of the cluster it opens (`made`, a ghost). `Evict` is
`kcCache.Delete` at the end of `DeleteCluster`, a step after `store.Delete`. Of
the monitor, `Activate`, `GiveUp` and `Sweep` are its effects on an entry, each
at one moment; it does not know the cache. `excused` is a ghost:
which cluster's kubeconfig may be in the cache under which id after the
cluster's end, for the reasons `StaleExplained` names. It is decided at the
moment the cluster goes (`LeftCached`) or the cache is cleared (`Fetched`).

**HealthCache, Registrar, Lifecycle.** `CheckHealth` looks at the cache under
its mutex; `Join`, a step later, enters the shared call without looking again.
`flight` is that single-flight call with its waiters; every waiter writes the shared result into the cache on its own
(`Keep`), stamped with the time of writing. A registrar is `off`, at its POST,
in its backoff, or `done`; a POST it gave up on may reach SPM later
(`LateRegister`). `phase` is where `Start` and later `shutdown` stand; API
requests and the monitor are present as goroutines only (is one open, is a poll
under way). `expired` is the deadline that `httpServer.Shutdown` and the wait
for the monitor share; `Drain` and `Wait` carry on when it has passed, whoever
is left. A signal before `CatchSignals` kills the process.

**ClientApi, ServerApi, Pipeline.** Tables translate the generated code: what
each client method sends, what each route, wrapper and `Visit` method does, what
each `Parse` function makes of a reply; the tables are kept per resource, as
the code is, and `OfOp` joins them. A spec is its set of fields and of
additional properties. `at` is where the request stands in

    PanicRecovery > metrics > Timeout > MaxBodySize > validator > route > wrapper > strict > handler

on its way in, and at which layer the return or the panic has arrived on its way
out. `reply` is the first header on the wire, `code` what `statusWriter`
recorded last. `Expire` and `HangUp` may come between any two steps.

## 3. Runs

| run | checks | shows |
|---|---|---|
| `provider_faults` | `TypeOK`, `DeletingHasDeleter`, `NoRevival` | a VM id, three requests, two at a time, and the monitor with every fault (store, kweb errors, late calls, lost events, vanishing VMs, one crash): an entry is `DELETING` only while a delete of it runs, or after one that was cut short; a late write of a delete or a poll never brings a dropped entry back |
| `recovery` | `OrphansFound`, `DeletingEnds` | three requests for a VM id, two at a time, and a crash at any point: a VM that stays at kweb untracked is noticed by the monitor; a delete that is not cut short ends, also when another overlaps it |
| `api` | `ClusterCreatesSerialized`, `NoLeak`, `CreatorOwns`, `RequestsAnswered` | creates of a VM and of clusters under two ids with one kcli name, retries of an id among them, with a failing store: one `POST /kubes` at a time; what kweb has is tracked or being rolled back; a resource is in the hands of one request at most, and of none once an entry tracks it; every create is answered |
| `reporting` | `ReportingTypeOK`, `NoSilentStatus`, `ImplementsFeed` | any number of polls, with failing lists, publishes and writes: the store's status is the newest one DCM was told or that is on its way; the monitor refines `StatusFeed` |
| `reporting_converges` | `Converges`, `CreatingEnds` | with a window longer than a poll, DCM ends up with the status of a VM that has settled; no cluster stays `CREATING` |
| `listing` | `ListingTypeOK`, `IndexSound`, `IndexStaysExact`, `WalkComplete`, `NoRepeat` | a list read page by page misses nothing that was there all the time unless something already passed was removed, and repeats nothing unless something was put before; the store's reverse index comes to dangle or to lead to an entry of another name only by a `Put` that renames an entry, colliding names or not, and a call loses an entry from it only by a renaming or a collision |
| `kubeconfig` | `ReadsTypeOK`, `StaleExplained`, `StaleEnds` | a cluster re-created under an id is answered with its predecessor's kubeconfig only through the windows the code has, and not for ever |
| `lifecycle` | `LifecycleTypeOK`, `ClosedQuiet`, `DeregistrationFinal`, `DownIsNoticed`, `BecomesReady`, `ShutdownEnds` | store and publisher are closed when nobody is left, unless time ran out; nothing registers again; a kweb that stays down is noticed; the process becomes ready; a shutdown ends |
| `pipeline` | `PipelineTypeOK`, `RightDecoded`, `DeliveredIntact`, `MetricsTruth`, `PanicTold` | whichever layer answers, the client decodes what was written or nothing; specs arrive as sent; the request counter is right but for the named cases; a panic at any layer reaches the client as an error, never as a success |
| `monitor_deletes_live` | `DeletedOnlyIfGone` | violated, finding 1 |
| `zombie_after_crash` | `GoneIsReconciled` | violated, finding 2 |
| `reporting_removed` | `RemovedMeansReported` | violated, finding 3 |

Every property of a passing run has a mutant: a plausible slip in the modelled
code (an index not cleaned, a status not restored, a mutex not released, an
event dropped inside the window, a page cut one short, a registrar not waited
for, ...) under which the same run fails.

### Bounds, and why they are enough

* `Id`, `Name`: one of each where the question is about one resource. Steps of
  different ids meet only in the shared kcli name (three ids on one or two
  names in `api` and `listing`), in `createMu` (`api`), in the order of a
  list (`listing`: three ids, two types, two ages, pages of one, so that a walk
  has up to three pages and entries come and go before, on and after the
  current one) and in the poll's phases (proved for every `Id`).
* `Handler`, `MaxRequests`: in `provider_faults` and `recovery` two at a time and
  three in all, from an empty store: a create and then two deletes that overlap,
  or a delete that overlaps a re-create. Three at a time and four in all in
  `api` let one wait for `createMu` while one fails and one succeeds, and an id
  be tried again while its first create is at work.
  Three requests in `kubeconfig` are create, delete and re-create, with one
  reader whose fetch may span all of it; two writers let the delete's last step
  come after the re-create.
* `Types`: `provider_faults` and `recovery` are about VMs and `kubeconfig` about
  clusters. The handlers differ in `createMu` and in kweb's answer to a delete of
  an unknown name, the polls in the verdict; both types run side by side in
  `reporting` and in `api`, which takes creates alone (`CreatesSpec`): those of
  clusters queue on `createMu`, those of VMs do not. In `api` an id stands for
  one resource (`VMId` are the ids of VMs), which `NoLeak` needs.
* Views: `provider_faults` and `listing` identify states that differ only in
  what no action and none of the run's state properties but the type invariant
  reads: replies, the events received, the gauge, the request an idle goroutine
  has answered; the status of the last list answer, and what a finished walk has
  left behind. The types of those variables are covered by `TypeCorrect` and
  `ListingTypeTheorem`.
* `MaxAge`, `ProvisioningThreshold`, `ClusterCreateTimeout`: large enough for an
  age below and one beyond each threshold where a run is about the threshold;
  0 for `ClusterCreateTimeout` in `reporting`, where a cluster may be past its
  time at once.
* `DebounceWindow`: 1 distinguishes inside from outside; 2 in
  `reporting_converges`, so that a poll may end inside the window; 0 in
  `recovery`, which is not about events.
* `VMStates`: `"up"` and `"down"`; `"down"` is the one whose status depends on
  the age. The others map one to one and are covered by the proofs
  (`VerdictType` holds for any string).
* `MaxDrift` = 2 below zero; one decrement too many is what matters.
* `MaxCrashes` = 1: a second crash finds the same kind of state as the first;
  the safety theorems hold for any number.
* `kubeconfigCacheTTL`, `healthCacheTTL` = 1: fresh and not fresh.
* `lifecycle`: one provider (the theorems hold for any number; the registrars do
  not interact), the self-probe and one other caller of the health check, which
  suffice for a shared flight and for a caller that joins one after the cache was
  filled. A late write over the newer answer of a third caller is not in the run:
  with three callers it does not end in reasonable time. Two tries of the
  self-probe; one open request.
* `pipeline`: the ids `"x"`, `"health"` and the empty one; `"vcpu"` and
  `"nodes"`, each a field of one spec and an additional property of the other,
  and `"service_type"`, the field that is always written. The theorems hold for
  any ids and names.

Deadlock is checked except in `api`, `listing`, `kubeconfig` and `lifecycle`:
there the bounds on requests and resources, or the end of the process, let
everything stop.

### Fairness

* `RequestStep(h)` (in `api`: `CreateStep(h)`) weak: a goroutine that can
  run does, and every kweb call comes back, since the client has a timeout.
  `CreateLock(h)` strong: the mutex is released and taken again any number of
  times, and Go's `sync.Mutex` hands it to a waiter that has been starved for
  1 ms.
* `PollStart`, the poll's own steps and `Tick` weak: the ticker fires, the
  monitor's goroutines run, time passes. No fairness is assumed of kweb, of
  clients, or of a failing publish or write to succeed; `Converges` and
  `CreatingEnds` are checked with those failures switched off, `OrphansFound`
  and `DeletingEnds` with crashes on.
* `ReadsFairness`: readers' steps, the eviction and the age of the cache, weak.
* `LifecycleFairness`: the monitor, the registrars, the health check, the
  shutdown and time, weak; handlers of API requests may take for ever, which is
  what the shutdown's deadline is for. Strong for a successful registration and
  for kweb's answer to `GET /host`: tried again and again they succeed, unless
  SPM refuses or kweb is down. Without these `BecomesReady` and `DownIsNoticed`
  would only say that a network that always fails does so.

## 4. Theorems

All proofs are checked by TLAPS from the modules' named assumptions:
`StoreAssumption`, `EnvironmentAssumption`, `HandlersAssumption`,
`MonitorAssumption`, `ProviderAssumption`, `ListingAssumption`,
`KubeconfigAssumption`, `HealthAssumption`, `LifecycleAssumption`,
`PipelineAssumption`. These say that bounds are naturals, thresholds lie within
`MaxAge`, `None` is not a value of the types it is added to, VM states are
distinct from cluster states, and the set of ids is finite (for counting the
gauge and the entries of a list).

* `IndexSoundTheorem`, `IndexStaysExactTheorem`, `IndexExactTheorem`
  (`Listing_proofs`), of the store with its methods called in any order and with
  any arguments. The first two are action properties: a call makes the lookup of
  a name mislead only by renaming an entry (`Renames`), and loses an entry from
  the index only by that or by making two entries share a name. For the latter
  both the state before and the one after need unique names: `Delete` drops the
  index key without looking whose it is. `IndexExactTheorem` has both conditions
  as premises of the behaviour. `ListingUsesStore` shows that `ListingSpec`
  implements `StoreSpec`, so that all of it holds of the system the run checks
  (`ListingIndex`).
* `ProviderIndexSound`, `LookupTheorem` (`Provider_proofs`): who really writes to
  the store. Every step of a request, a poll, of time or of a restart is a call
  of the store or leaves it alone (`ProviderWrites`), so that in the running
  provider, too, only an overwriting `Put` of a create makes the lookup mislead.
  Under `OneResourcePerId` there is none that renames: by `Asked` every entry and
  every request at work is one that clients make. Then `LookupSound` is an
  invariant.
* `SerializedTheorem` (`Handlers_proofs`) and `ProviderSerialized`
  (`Provider_proofs`). That two requests are not both at their `POST /kubes`
  does not follow from itself: the invariant is `MutexHeld`, a cluster create
  at its kweb call holds `createMu`.
* `CreatorOwnsTheorem`, `NoLeakTheorem` (`Handlers_proofs`), for any number of
  concurrent creates of VMs and clusters, of any ids and names, and a store that
  fails at will. `CreatorOwns` tells requests apart, not ids: a create and its
  retry contend like any others. It is inductive together with `TrackedExists`
  (what an entry names is at kweb): kweb makes a name only if it does not have
  it, so that a request that gets a resource finds no other that holds it and no
  entry that tracks it. `LeakInv` adds `Asked`, that every entry and every
  request at work is one the clients asked for, so that a `Put` which replaces an
  entry replaces one of the same resource. Their premises are named:
  `NothingBehind` (no calls that take effect late, nobody else deletes),
  `KwebObeys` (and kweb refuses no delete: a failed rollback is only logged) and
  `OneResourcePerId`. Without the last one `NoLeak` is false: two creates of one
  id with two names both miss the lookup, and the second `Put` forgets the first
  resource. `Api.cfg` satisfies the premises.
* `TypeCorrect` (`Provider_proofs`): the composed system under every fault.
* `DeletingTheorem` (`Provider_proofs`): `DeletingHasDeleter` for any number of
  ids, requests, crashes and any faults. The invariant adds `SavedLive` (the
  status a delete would restore is not itself `DELETING`: the handler answered
  204 before it got that far) and `WorkLive` (the monitor never writes
  `DELETING`: no verdict is that). Without the first, a failed delete could
  restore `DELETING` after the deleter that had put it there is gone.
* `NoRevivalTheorem` (`Provider_proofs`): the action property `NoRevival` from
  `TypeOK`, step by step. `UpdateStatus` looks the id up in its own transaction,
  so that a delete's restore and the monitor's late writes change an entry that
  is there or nothing; only the `Put` of a create makes one.
* `NoSilentTheorem`, `ReportingTypeTheorem` (`StatusReporting_proofs`):
  `NoSilentStatus` for any resources, window and thresholds. The invariant
  `ReportingInv` adds `PollPhases` (goroutines and flush are at work only in
  their phase, so that a flush never overlaps a visit), `OwnIds` (the two
  goroutines never have the same id in hand, because each works on tracked
  entries of its own type) and `OneEvent` (an id has at most one event on its
  way, and it is the one of the status about to be written).
* `FeedTheorem` (`StatusReporting_proofs`): `ReportingSpec => ImplementsFeed`.
  Under `ReportingInv`, `Track` is an `Appear`; a visit that finds a change is a
  `Settle`, all others stutter; a publish, direct or from the flush, is a
  `Tell`, because by `OneEvent` its event is the settled status, or a `TellLate`
  once a write has failed; a failed publish or write is a `Lose`; `MonApply` of
  a resource that is gone is a `Remove`. Everything else leaves the mapped
  variables alone.
* `WalkCompleteTheorem`, `NoRepeatTheorem`, `ListingTypeTheorem`
  (`Listing_proofs`), for any number of resources and any page size. The
  properties speak of the end of a walk; the invariant `WalkInv` speaks of its
  middle: `StayListed` (what stayed is still listed), `Ahead` (what stayed and
  was not received ranks at or after the token) and `Behind` (what was received
  ranks before it). `Ahead` survives a `Create` because ranks only grow by it,
  and a `Remove` from a page to come because it does not lower a rank before
  the token; `Behind` the other way round.
* `ClosedQuietTheorem`, `DeregistrationTheorem`, `LifecycleTypeTheorem`
  (`Lifecycle_proofs`), for any number of requests, callers and providers.
  `Quiet` says for each phase of the shutdown what has been waited for by then;
  `ShutdownInv` adds `StoppedFirst`: a deregistration begins only when every
  registrar has ended. For the types, that module's `Answered` says that whoever is about to
  store a health answer has one, without which the cache could be given none.
* `ReadsTypeTheorem`, `StaleExplainedTheorem` (`KubeconfigCache_proofs`), for any
  ids, names, readers, writers and faults. `StaleExplained` speaks of what the
  next GET would be answered; the invariant speaks of every kubeconfig a cache
  line or a reader on its way to it holds (`CacheInv`): it opens the cluster kweb
  has now, or its end is accounted for, or a delete is on its way to clear the
  line. `NamesInv` says that requests, entries and copies of entries carry the
  name their id was created with. The premise is `OneResourcePerId`: an id
  re-created under another name would find the line of a cluster that still
  exists.
* `PipelineTypeTheorem`, `RightDecodedTheorem`, `DeliveredIntactTheorem`,
  `MetricsTruthTheorem`, `PanicToldTheorem` (`Pipeline_proofs`), for any ids and
  any names in the specs. They rest on lemmas about the tables: the router takes a request of the
  client for the operation it was built for, or for none, unless it is a GET of
  the id `health` (`RouteRight`); a reply that an operation may get is decoded
  into what was written (`DecodeRight`); a spec that is encoded and decoded is
  the same (`RoundTrip`). `PipelineInv` adds what holds between the layers:
  nothing is on the wire while the request is on its way in (`Unanswered`), on
  its way out something is, or a panic is under way (`RepliedOrPanicked`), it is
  a reply the operation may get (`RepliedRight`), and `statusWriter` has its code
  but for the two exceptions (`CodeTruth`). The proof of `DeliveredIntact` showed
  that its exception has to name `service_type` as well, which is no pointer of
  the spec but can be displaced by an additional property all the same.

The inductive invariants (`MutexHeld`, `OwnInv`, `LeakInv`, `DeletingInv`,
`ReportingInv`, `WalkInv`, `ShutdownInv`, `LifecycleInv`, `ReadsInv`,
`PipelineInv`) have also been checked by TLC, as invariants of the runs. Every
invariant and every action property of a passing run is a theorem, and so is the
refinement of `StatusFeed`. With TLC only: the liveness
properties (`OrphansFound`, `DeletingEnds`, `RequestsAnswered`, `Converges`,
`CreatingEnds`, `StaleEnds`, `DownIsNoticed`, `BecomesReady`, `ShutdownEnds`),
because liveness under fairness and anything about `ENABLED` is out
of the prover's reach; and the three violated properties, which have
counterexamples.

## 5. Findings

1. **The monitor deletes live VMs from the store** (`monitor.go:142`). kweb is
   listed before the store, so a VM created in between is in the second list
   only: `DELETED` is published and the entry dropped, and an orphan remains.
2. **A delete cut short by a crash is never finished** (`monitor.go:162`). kweb
   has deleted the VM, the entry is still `DELETING`, the monitor skips it and
   `DELETE` answers 204.
3. **A `DELETED` inside the debounce window is lost** (`monitor.go:163-168`): it
   is put into `pending`, which is cleared two lines later.

Seen on the way and without a run of their own:

* the gauge `resources_managed` drifts: everyone who thinks to have removed an
  entry decrements it (`vm_handlers.go:275`, `monitor.go:165`);
* `DELETE /vms/{id}` works on a cluster's id (`vm_handlers.go:234`), and the
  other way round, where `kcli-sp.md:778` documents a 404;
* a retry of a create that is still running is answered 409 rather than 201;
* `lastPublish` keeps an entry for every resource deleted through the API
  (`CHANGELOG.md:45` says it is pruned);
* an event chosen before a delete can be published after the delete's `DELETED`;
* once two entries have shared a kcli name, deleting one hides the other from
  `FindByKcliName`;
* cluster *builds* overlap although `createMu` serializes the POSTs;
* the self-probe's 30 tries of 100 ms end before `healthCacheTTL` of 5 s does:
  one failed first check is repeated to all others, where `kcli-sp.md:412-413`
  has the probe poll until it gets 200;
* a SIGTERM between the start of the registrars and `signal.NotifyContext` ends
  the process without a shutdown; a shutdown that runs out of time closes store
  and publisher under goroutines that still use them;
* `kcli-sp.md:887-889` promises 504 for a request that takes too long: a handler
  whose context has ended answers 500 or 502 first, and only the request counter
  records the 504;
* refusals of the validator and the wrapper are plain text, where
  `docs/LESSONS_LEARNED.md:191` has problem+json; a body over the limit is
  refused by the validator with 400, where `CHANGELOG.md:35` has 413;
* the request counter ("Total HTTP requests", `metrics.go:18`) leaves out
  requests whose handler panicked;
* the id `health`, which `openapi.yaml:80` allows, is shadowed by the health
  routes: a GET of it is answered with, and decoded as, something else.

## 6. What is left out

Abstractions of the modelled parts: request bodies, sizes, provider hints and
generated names are data (a request names its id and its kcli name); the orphan
counter is not part of the state; durations are ages; the backoff's length, the
publisher's envelope and reconnect buffer, logging and the write-only counters
are left out; the code chosen between 500 and 502 after a failed delete is not
told apart. `CreateCluster` releases `createMu` without `defer`: a panic between
`Lock` and `Unlock` would be survived by the process and keep the mutex for good.
Nothing in that call panics as the code stands, so the model has no such step,
and `RequestsAnswered` says nothing about it. `Lifecycle` knows API requests and
polls only as being open; `Pipeline` follows one call at a time, which is enough
because the layers share nothing between requests but counters.

Not modelled:

* *profiles*: `refreshProfiles` and its readers `HasProfile` and `Profiles`
  decide on a 400 for one create and on nothing that lasts;
* *the rate limiter* of the kweb client only delays calls; in the model every
  call may take any time;
* *how the kweb client tells the outcomes apart* in the bodies it gets: what
  kweb's bodies look like is not in this repository;
* *configuration*: read once; its durations are constants here and its refusal
  is `BootFails`;
* *the OpenAPI document and types*: an embedded file and declarations;
* *the request logger* and `WriteProblem`, which has no caller;
* *schema migrations*: a single no-op today; `ListByStatus` and
  `ResolveKcliName`: no caller outside the tests.
