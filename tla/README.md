# hmnfd in TLA+

A model of the HMS Notification Fanout Daemon (`cmd/hmi-nfd`), the service that
takes State Change Notifications (SCNs) from the Hardware State Manager (HSM) and
fans them out to subscribers. TLC checks the modules on small instances; TLAPS
proves every safety property of the passing runs for every instance.

## The system

Several instances of the service run over one ETCD. Each is a Go process:

| Component | State | Operations | Code |
|---|---|---|---|
| SCN batching | `jdCache`, `jdCount`, `jdcMutex`, channel `scnQ` | one goroutine per SCN POST, the flush timer, the consumer | `api.go` `scnHandler`, `jdcDeepCopy`, `scnCacheEqual`, `checkSCNCache`, `handleSCNs` |
| SCN fan-out | `prunemap_copy`, the pool's job queue, a retry counter per job | `doScn` matches and queues, workers send | `api.go` `doScn`, `intersect`, `getSCNAttrs`; `fanout.go` `sendSCNToSubscriber`; `worker_jobs.go` |
| Subscription API | records in ETCD (key: xname, attributes, agent; value: URL, component list) | POST, PATCH, DELETE of v1 and v2 | `api.go`, `api_v2.go` |
| Pruner | `prunemap`, `prunemap_mutex` | every 10 s: delete the marked records, empty the map | `api.go` `prune`, `subPrune` |
| HSM subscriber | channel `hsmsub_chan`, the tracker | subscribe hmnfd at HSM for whatever is new | `fanout.go` `subscribeToHsmScn`, `needHSMSubs` |
| Worker pool | channels `JobQueue` and `Pool`, a status per job | `Queue`, one dispatcher, 500 workers | vendored `hms-base/v2/worker-pool.go`, `worker_jobs.go` |
| Dead wood | a map of nodes that are gone | at start-up: ask HSM, mark the subscribers among them | `fanout.go` `pruneDeadWood` |
| Parameters | `app_params`, key `KV_PARAM_KEY` | PATCH of `/params` | `api.go` `paramsPatch`, `hmnfd.go` `parseParamJson` |
| Telemetry bus | channel `kq_chan`, `msgbusHandle`, `tbMutex` | offer a batch, send it with retries, connect and disconnect | `api.go` `sendToTelemetryBus`, `telemetryBusSend`; `hmnfd.go` `telebusConnect` |
| Start-up and shutdown | | open ETCD, start the goroutines, serve, exit | `hmnfd.go` `main`, `openKV` |
| Health | | `/health`, `/readiness`, `/liveness` | `health.go` |
| Listing, profiling | | GET of subscriptions, pprof | `api.go`, `api_v2.go`, `pprof.go` |

How they interact: an SCN POST ends in the cache; the cache is flushed to `scnQ`
by a handler that fills or replaces it or by the timer; `handleSCNs` takes a batch
and calls `doScn`, which marks gone components in the prune map, reads all records
from ETCD and queues a job per matching record; workers POST to the subscribers
and mark those that refuse or keep failing. The pruner deletes the records of the
marked names. A POST of a subscription also goes to `hsmsub_chan`, from which the
HSM subscriber takes it. At start-up `pruneDeadWood` marks names as well. Each batch
is also offered to the telemetry bus, whose connection follows a parameter that
PATCHes change. Handlers, pruner, fan-out and other instances share the
records without any transaction; only the prune map and the SCN cache have a lock.

What is hard here: handlers are sequences of ETCD calls that interleave with each
other and with pruners of any instance; locks are held over blocking operations
(`jdcMutex` over a send on `scnQ`, `prunemap_mutex` over ETCD calls); a goroutine
sends on the channel it reads; every ETCD and HSM call may fail, with or without
effect; parameters change under running loops; a process may die at any point.
`PROJECT.json` lists these hazards by line, with the properties for each.

## Modules

- `ScnCache` – the batching stage. One action per branch of `scnHandler` and
  `checkSCNCache` taken under `jdcMutex`. A send on a full `scnQ` is a guard, so a
  goroutine that would block there keeps the lock. `received`, `starts` and
  `delivered` are history: what arrived, where in it each batch begins, and what
  `handleSCNs` has taken.
- `OrderedRelay` – what that stage promises: items come out in the order they
  went in, none missing, none twice. `ScnCache` states the refinement mapping
  (`Relay`, `ImplementsRelay`).
- `HsmSubscriber` – `subscribeToHsmScn` with its channel, its tracker (whose maps
  are shared with the copy, whose `enabled` flag is not), HSM, `HSM_SUBS_KEY`,
  failures and restarts.
- `SubStore` – what API, pruner and fan-out share: the records, the ETCD calls with
  their failures, the prune maps.
- `Subscriptions` – the handlers of POST, PATCH and DELETE, one action per ETCD
  call, the pruner, and `MarkDown` for whatever the fan-out marks. `checkSubscription`
  is the guard of POSTs and v1 PATCHes; a v2 PATCH is not checked, so it may store a
  record without attributes, components or URL. `DrainHsm` and `RequeueHsm` are what
  the HSM subscriber does to the channel as a handler sees it: it takes a request, it
  puts one back. Whether it ever does is not this module's business but `HsmCoverage`'s.
- `DeadWood` – `pruneDeadWood` beside the handlers and the pruner of
  `Subscriptions`: its request to HSM, its list of keys, each mark under the lock,
  while HSM's nodes go away and come back and the service restarts. `budget` is what
  is left of the requests, outages and crashes a behaviour may have, as one of `Starts`
  allots them. It implements `Subscriptions` (`ImplementsMarkDown`).
- `HsmCoverage` – `HsmSubscriber` composed with one instance of `Subscriptions` over
  `hsmsub_chan`: a handler's `PostNotify` is the subscriber's `Notify`, the
  subscriber's `Receive` is the handlers' `DrainHsm`, a crash hits both.
- `Fanout` – `doScn` and the workers, with the pool as a bounded queue. The loop of
  `sendSCNToSubscriber` is three steps, since a PATCH of `Scn_retries` may come between
  any two of them: the test of the limit (`SendStart`, `SendGivesUp`), the outcome of
  the POST (`SendOk`, `SendFails`, `SendRefused`), the comparison after the loop
  (`LoopExit`). `answered` and `lowered` are history: the subscriber said 200;
  `Scn_retries` was set below the worker's round while its POST was in flight or before
  the comparison.
- `Hmnfd` – `Subscriptions` and `Fanout` over one `SubStore`.
- `WorkerPool` – the pool itself: `Queue`, the dispatcher, the announcing workers, the
  job status, and `doScn`'s loops around them, with and without the sync mode. It
  implements `OrderedRelay`, which is what `Fanout` assumes of it.
- `Params` – `app_params` and the PATCH of `/params`: struct copies are field by field,
  since nothing locks them. A body may carry the value that counts as not given (-1 or
  "xxx" in the code, `Unset` here): it is answered and not applied.
- `Telemetry` – the bus's channel, sender and connector; reads `Use_telemetry` and
  `Telemetry_host` of `Params`. With a host that cannot be parsed (`BadHosts`) the
  connector does nothing.
- `Service` – `Params` and `Telemetry` inside the process: start-up, shutdown, probes.
- `ScnCacheProofs`, `HsmSubscriberProofs`, `HsmCoverageProofs`, `SubscriptionsProofs`,
  `DeadWoodProofs`, `HmnfdProofs`, `WorkerPoolProofs`, `ServiceProofs` – theorems.
- `MC...` – instances for TLC.

Abstractions. State, Flag, Role and SoftwareStatus, which batching only compares,
are one value in `ScnCache`. A subscription key is the record of its parts, not its
text; where text matters (`strings.Contains` in `doScn`) the relation `Occurs` says
which attribute's text occurs in which. Component lists keep their first element
(the wildcards) and, as `intersect` does, fail when there is none. ETCD is the
function `kv`; a failing call may have taken effect. Timers fire at any time. The
v1 DELETE's check for a missing URL answers an error and goes on: the handler then
deletes the record whose URL is empty, if a v2 PATCH stored one (`DeleteAnswer`, with
`NoUrl` as a URL like others); without a subscriber nothing can match, which is part of
`Reject`. A job of `WorkerPool` is its
number. In `Params` a parameter is a field with a small set of values, and a body that
names the port or `scn_in_url`, which no PATCH may change, is `fixed`. A connection to
the bus is open or closed, a message its number. `DeadWood` keeps one outage per node
(up, dead, back), which is all that "was gone at the GET and is back at the mark"
needs. Logging, timestamps and JSON are left out.

## Runs

| Run | Checks | Shows |
|---|---|---|
| `MCScnCache` | `TypeOK`, `ExactlyOnceInOrder`, `BatchBound`, `SubRoleOfFirst`, `ImplementsRelay`, `EventuallyHanded` | three SCNs (none, one, two components; two sub-roles; three values of Enabled), a one-slot queue, limit changing between 1 and 3: batching is lossless and ordered, the cache never holds as many SCNs as the limit allows a batch, a batch has the sub-role of its first SCN, and no SCN stays in the cache or on the queue |
| `MCHsmCoverage` | `TypeOK`, `NoRedundantPost`, `AckedTracked`, `StoredIsAsked`, `MandatoryRetried`, `AnsweredUnlessStuck`, `EveryPostCovered` | POST, PATCH and DELETE handlers, the pruner and the HSM subscriber over a one-slot `hsmsub_chan`, with a failed call, PATCHes of Nosm and a restart: what is stored has been asked for, retries never lead to a redundant POST or a forgotten acknowledgement, and every POST is covered if nothing fails; the mandatory request is lost to a failed POST, and a request unanswered, only if the goroutine waits for room on its own full channel or (the mandatory one) another request for Enabled is committed before the retry |
| `MCDeadWood` | `TypeOK`, `AckedPostStands`, `PatchedStays`, `LiveIsKept`, `ImplementsMarkDown`, `DeadWoodGoes` | `pruneDeadWood` beside two of seven requests, the pruner, an outage, failing calls and a restart, or, with Nosm set, three requests without them, so that two PATCHes overlap after a POST: the dead lose their records, nobody else does; acknowledged POSTs and PATCHed subscribers stand |
| `MCHmnfd` | `FanTypeOK`, `NoSendToDown`, `ImplementsSubscriptions` | fan-out, API and pruner together, with crashes and the panic on a record without components |
| `MCHmnfdLive` | `AnsweredNotDropped`, `FanoutDrains`, `MarkedIsPruned` | with `Scn_retries` PATCHed between 1 and 2 at any moment and one ETCD call failing: who answered is not dropped, unless the limit was set below its rounds meanwhile; neither `doScn` nor a worker waits for ever on `prunemap_mutex` or the job queue; what is marked is deleted, unless the call failed |
| `MCWorkerPool` | `TypeOK`, `OnlyListenersOffered`, `SyncIsSerial`, `ImplementsRelay`, `EveryJobRuns` | five jobs, a queue of two, three workers: jobs go to listening workers, in order, once, and all of them; in sync mode one at a time |
| `MCService` | `SvcTypeOK`, `AckedInForce`, `BusInOrder`, `ClosedIsTransient`, `NotReadyHasCause`, `ConnectionFollows`, `TelemetryDrains` | two PATCHes, or one with three SCNs or a probe, a failing store, failing connections and a host that cannot be parsed: what an acknowledged PATCH gives is in force, the bus gets SCNs in order and once, the connection follows `Use_telemetry` while the host is good, the channel drains, a probe fails only for a passing reason |

Runs that end in a violation, each where the code does other than a comment or a
document of the repository says (quoted under `findings`):

| Run | Property | What the code does |
|---|---|---|
| `MCScnCacheEnabled` | `DisabledOnlyIfReported` | `jdcDeepCopy` keeps the previous batch's Enabled |
| `MCHsmMandatoryLost` | `MandatorySubscribed` | a failed request's attributes stay in the tracker, and its retry may be dropped |
| `MCSubsRepost` | `NewPostStands` | DELETE, then POST, then the pruner deletes the new record |
| `MCSubsService` | `ExactService` | a DELETE of the plain xname takes the agents' records with it |
| `MCHmnfdDeleted` | `DeletedNotSent` | a deleted agent's queued job is sent: marked under one name, looked up under another |

The model also shows the following, for which no run is kept:

- `scnCacheEqual` does not compare sub-roles, so SCNs of two are sent under the first
  one's (`SubRoleOfFirst`); and the first SCN on an empty cache is not counted against `Scn_max_cache`, so a limit
  of 1 still merges two SCNs (`BatchBound` allows for it).
- With `hsmsub_chan` full, its only reader blocks on queueing a failed request again:
  the state `Stuck`, which `MCHsmCoverage` reaches with its one slot and which
  `MandatoryRetried` and `AnsweredUnlessStuck` except.
- Two POSTs of one subscription may both find no key and both succeed; a PATCH that
  changes the key and fails to store the new record answers ok with the old one gone.
- A failed ETCD call during a pruning pass leaves the record for ever (the exception of
  `MarkedIsPruned`, which fails in the run without it). The comment at `api.go` 349-351
  says "play it safe and don't delete the prunemap entry" of a key which could not be
  deleted; `prune` (375-377) empties the map whatever happened.
- `strings.Contains` matches an attribute wherever its text occurs, e.g. state On in
  the role Application (a matter of the constant `Occurs`).
- Setting `Scn_retries` below the rounds already made, while a POST is in flight or
  between its 200 and the comparison after the loop, drops the subscriber that answered
  (the exception of `AnsweredNotDropped`).
- A PATCH that adds attributes does not ask HSM for them, and after a crash nobody asks
  again for what stored records need (both are exceptions of `StoredIsAsked`).
- `Queue` sets a job's status after the job has left: a worker may have set COMPLETE
  before, and in sync mode `doScn` then waits for ever (an exception of
  `EveryJobRuns`; sync mode is for tests).
- Of two overlapping PATCHes of `/params` one may be lost, and a torn mixture of both may
  be in force (`AckedInForce` speaks of the others). No instance ever reads
  `KV_PARAM_KEY`.
- A probe that runs while `telebusConnect` changes the handle may answer 503 or panic.
- `telemetryBusSend` drops an SCN as sent while there is no connection.
- `pruneDeadWood` does not look at the HTTP status: an error in JSON counts as "nobody is
  gone". A node that was gone at its GET, comes back and subscribes before the mark
  loses the new subscription.
- `main` exits as soon as the listeners are closed, without waiting for the requests
  in flight. SCNs are acknowledged when they are cached, and the cache and `scnQ` are
  gone with the process; nothing of them persists and nobody promises otherwise.

Bounds. Two components, attributes and xnames let things be equal or different;
two or three requests are enough for a DELETE between two POSTs, for a POST whose
record others compete for, and for a PATCH that meets a DELETE; a channel of one to
three slots is full after as many sends, where the code's 10000 or 50000 slots never
fill in a test. `MaxFaults` and `MaxKvFaults` bound failing ETCD and HSM calls,
`dwFailed` those of `pruneDeadWood` to one, `MaxPosts` and `MaxRestarts` the HSM
subscriber's environment, `Starts` the requests, outages and restarts of `DeadWood`, `MaxBatches` the SCN
batches, `NumJobs` the jobs, `Budgets` how many PATCHes, SCNs and probes come together
in `Service`: two PATCHes for a lost update, three SCNs for one on the way, one queued
and one dropped. Crashes in `Subscriptions` and `Hmnfd` are not bounded: `MayCrash`
says which instances may die. `StartQueue` is what `main` puts on `hsmsub_chan`: the
mandatory request in `HsmCoverage`, nothing where the channel is only something
handlers wait for. The runs have one instance; the theorems about `Subscriptions`,
`DeadWood` and `Hmnfd` hold for any number over one ETCD. In `MCHsmCoverage` the handlers' own ETCD
calls do not fail (`StoredIsAsked` excepts that case anyway, and `MCDeadWood` has it).
`MCHmnfdLive` has one xname, with and without an agent, which is enough for two jobs to
compete for the one-slot queue and the one worker. Deadlock is checked for `ScnCache`,
whose timer never stops; the other systems may come to rest once their bounded
requests are served.

Fairness. Weak fairness for goroutines: the Go scheduler runs what can run.
Strong fairness where a goroutine waits for a mutex that others take and release:
`sync.Mutex` hands itself over to a waiter that has starved for 1 ms. In
`Hmnfd`, `doScn` and each worker are one process each with strong fairness for all their
steps, the pruner has weak fairness, and handlers have none: a POST may wait on
`hsmsub_chan` for ever, since its reader can get stuck on it. That reader is in
`HsmCoverage` a process with weak fairness, and beside it one of the handlers and the
pruner moves whenever one of them can; with finitely many requests and no mutex but the
pruner's own this gives each its turn.
`pruneDeadWood`, `telemetryBusSend` and `telebusConnect`, which wait for a mutex, have
strong fairness too, and so has a successful `Connect`: the bus can be reached in the
end, however often it could not before. The HSM subscriber, the pool's goroutines and
the PATCH handlers wait for no mutex and have weak fairness. ETCD opens in the end.
HSM and subscribers answer or the HTTP client's timeout ends the call. Nothing
obliges anyone to send an SCN or a request.

## Proofs

`ScnCacheProofs`: `TypeCorrect` and `BatchingIsLossless` (`ExactlyOnceInOrder`).
`TypeOK` alone is not inductive: the position of a batch is a difference that is
natural only because the cache is the end of the history. The inductive invariant is
`TypeOK`, `JdInv` (a cache with components has a positive `jdCount`, so "the cache
is empty" means it) and `Valid`, a predicate of the batches sent, their positions,
the history and the cache. `Valid` repeats `ExactlyOnceInOrder` and adds that no
batch reaches beyond the start of the cache, which would otherwise need an induction
over the batches. Every action is a composition of two lemmas about `Valid`:
`Extend` (an SCN joins the cache) and `Flush` (the cache becomes a batch). `Covers`,
the part of `Valid` about one batch, also says that its sub-role is that of its first
component, which gives `BatchSubRole` (`SubRoleOfFirst`).

`BatchesBounded` (`BatchBound`: cache and batches) needs `BoundInv`: the cache holds at most `jdCount`
times the longest SCN, and is either one SCN or not yet full, so that the SCN which
fills it still fits. "Largest" is a CHOOSE, so the theorem assumes that the limits and
the SCN lengths have a largest one (`HasLargest`), which any finite set of them has.

`BatchingImplementsRelay` (`ImplementsRelay`) maps an SCN that is answered to `Accept`
and a batch that `handleSCNs` takes to `Deliver`. What was delivered is a history
variable that grows by one batch at a time: as the concatenation of all batches taken
it would be a recursive definition, and its growth an induction over data.
`DeliveredInv` says that it is the history up to the start of the next batch; that the
batches follow one another without a gap comes from `Valid`.

`HsmSubscriberProofs`: `TypeCorrect`, `NeverRedundant` (`NoRedundantPost`) and
`AcknowledgedIsTracked` (`AckedTracked`). What is sent has something new to the tracker
as it was before, which knows all that is acknowledged; since its maps are already
updated when the POST is sent, the invariant speaks of the request in hand as well.

`HsmCoverageProofs`: `CoverageImplementsSubscriber` (every step of the composition is
one of `HsmSubscriber` or a stutter), `SubscriberSafeHere` (so its theorems hold here)
and `StoredAreAsked` (`StoredIsAsked`). The invariant `CovInv` adds two facts to the
types: which handler is at which step (`KindInv`), so that a record that is new was
written by a PATCH or by a POST that has still to notify; and, as long as nothing has
failed, the tracker holds nothing that HSM does not have or is just being sent
(`TrackedAsked`). The second is why a request may be dropped that `needHSMSubs` finds
nothing new in, although the tracker's maps are updated before the POST: nothing that
was asked for or is on its way is ever lost (`AskedGrows`). After a failed POST it is
false, which is what `MCHsmMandatoryLost` shows.

`SubscriptionsProofs`: `TypeCorrect`, `AckedPostsStand` (`AckedPostStands`) and
`PatchesReplace` (`PatchedStays`). The invariant adds to `TypeOK`: the keys a DELETE or PATCH handler holds are within
the reach of its request (`HandlerInv`); every name in a prune map and every key a
pruner holds was put there by such a request or by a component that went away
(`PruneInv`); a POST about to notify has its record (`PostInv`). Nothing ever leaves
the set of targeted records, so a record that goes missing is targeted.
`PatchesReplace` needs one more: `HeldInv`, which says of a POST that has stored its
record, answered or not, that its subscriber has a record, or a PATCH that deleted it
is about to store another or died before it could, or a call failed, or the record was
doomed. A PATCH only deletes what it is about to replace, so the steps of several
PATCHes hand this on from one to the next.

`DeadWoodProofs`: `WoodImplements` (`ImplementsMarkDown`) and `OnlyDeadWoodGoes`
(`LiveIsKept`). The first maps every step to one of `Subscriptions` or a stutter; it
needs that what is marked may go away at all (`NodeInv`). With it `AckedPostStands`
holds of `DeadWood`, and `WoodInv` turns its exception into a statement about HSM: the
nodes in the map, the keys to mark and the marked names all had an outage.

`HmnfdProofs`: about the fan-out beside API, pruner and crashes. Types and refinement
are proved together, by `NfdTypes`: what `doScn` marks is a `MarkDown` only because its
locals have their types, and these depend on the store keeping its own. `NfdTypes` is
`TypeOK` of `Subscriptions`, `FanTypeOK` in three parts, and `BusyInv` (whoever is busy
has a job). It gives `FanTypesCorrect` (`FanTypeOK`) and `NfdImplements`
(`ImplementsSubscriptions`); the panic of `handleSCNs` maps to a crash, so the latter
assumes `MayCrash = Instance`, as in the run. `NfdKeepsSubscriptions` draws the
conclusion: `AckedPostStands` and `PatchedStays` hold of the whole service.
`AnsweredNotDroppedCorrect` (`AnsweredNotDropped`) needs `AnswerInv`: whoever has a
POST in flight or an answer has a counter within the limit, or the limit was lowered
meanwhile (`AnswerOk`). `NoSendToDownCorrect`
(`NoSendToDown`) needs `DownInv`: the components a batch reports as gone are in
`prunemap_copy` until the list has been made (`CopyInv`), although the pruner may have
emptied the map itself; so none of their records is on the list, in the queue
(`QueuedDown`) or with a worker (`HeldDown`).

`WorkerPoolProofs`: `TypeCorrect`, `DispatcherNeverStuck` (`OnlyListenersOffered`) and
`SyncSerial` (`SyncIsSerial`). `OnlyListenersOffered` is inductive together with
`TypeOK`. `SyncIsSerial` is not: `SyncInv` says where the one job of sync mode is (in
the queue, in the dispatcher's hand, with a worker, or sent), and that a job not yet
queued still has the status it was made with. So the `JSTAT_COMPLETE` that `doScn()`
waits for is never a leftover, although `Queue()`, dispatcher and worker write the
status without a lock. `PoolImplementsRelay` (`ImplementsRelay`) needs `LineInv`: the
jobs that ran, the one in the dispatcher's hand, those on `JobQueue` and those still to
be made are one line in the order of their numbers.

`ServiceProofs`: `NoClosedLeftBehind` (`ClosedIsTransient`), `ProbesFailForCause`
(`NotReadyHasCause`), `BusOrdered` (`BusInOrder`) and `PatchesInForce`
(`AckedInForce`). `ConnInv` says who holds `tbMutex`, which is what keeps a sender away
from a connection between its closing and its being forgotten. `ProbesInv` follows a
probe between its reads of the handle. `OrderInv` with `WaitInv` adds to the order on
the bus that the SCN in hand precedes those on the channel. `ParamsInv` follows a PATCH
that has no company through its four passes over the parameters: what its body gives is
in its copy, then in force, then in the second copy, then stored. A PATCH that writes
is company for every other one that is not over before it, so nobody disturbs such a
PATCH but those the property excepts. `ServiceTypesCorrect` (`SvcTypeOK`) puts these
together with `TelTypes`: a round of `telemetryBusSend` starts only while tries are
left, and an SCN in hand has a number, so that only what was offered reaches the bus.

Assumptions are those on the constants (`ScnAssumption`, `HsmAssumption`,
`CovAssumption`, `StoreAssumption`, `SubAssumption`, `DeadWoodAssumption`,
`FanAssumption`, `NfdAssumption`, `PoolAssumption`, `ParamAssumption`, `TelAssumption`,
`ServiceAssumption`), which TLC evaluates on every run, and the hypotheses named above
of `BatchesBounded`, `NfdImplements` and `NfdKeepsSubscriptions`, which the constants of
the runs satisfy.

Only model-checked, not proved: liveness, which rests on fairness and is out of the
prover's reach (`EventuallyHanded`, `MandatoryRetried`, `AnsweredUnlessStuck`,
`EveryPostCovered`, `DeadWoodGoes`, `EveryJobRuns`, `ConnectionFollows`,
`TelemetryDrains`, `FanoutDrains`, `MarkedIsPruned`).

## Not modelled

The GET handlers of subscriptions and parameters, which format what they read; the
parsing of flags and environment, which is sequential (`StartParams` is its outcome;
that `HMNFD_PORT` changes `app_params.Port` and not the port of `server_url` is seen
by reading); the profiling hooks; the fake subscriber; `Stop` and `Cancel` of the worker
pool, which nobody calls; the text of keys, which is data for `Occurs`. That a false
match sends an SCN too many and that a failed `GetRange` drops a batch are in the code,
and no text of the repository promises otherwise, so no property says it.

## Plan

Done: batching, HSM subscriber, API and pruner, fan-out and worker pool, dead wood,
parameters, telemetry, start-up and probes, the compositions, and the proofs above.
Every invariant, action property and refinement that a passing run checks has its
theorem. What is left:

1. The safety part of the liveness properties, where there is one to state: that the
   goroutines which wait for `prunemap_mutex` or a channel never do so in a circle.
2. What the violations leave intact: for instance that a request which HSM refused is
   forgotten only if another one covered it.
