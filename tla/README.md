# Verification of ai-saas-lab

TLA+ models of the concurrent parts of this repository, the TLC runs that check
them on small instances, and TLAPS proofs of the theorems that hold for every
value of their constants. `PROJECT.json` maps each definition to the lines of
source it models, and lists components, hazards, runs and theorems.

The program is an HTTP server (`cmd/lab`) that sells AI completions to tenants:
it authenticates a tenant, checks a quota, streams a completion from a provider,
meters the tokens used, rates them into statements, and keeps subscriptions,
payments and a catalog of services. Its own core logic is in `internal/kernel` and
`internal/modules`.

## 1. Inventory

| Component | State it keeps | Operations | Talks to | Modelled |
| --- | --- | --- | --- | --- |
| Circuit breaker (`kernel/metering_circuit_breaker.go`) | state, failure count, time of the last failure, one mutex | `Allow`, `RecordSuccess`, `RecordFailure`, `Reset` | called by workers, replay loop, handlers | CircuitBreaker, BreakerCallers |
| Metering WAL (`kernel/metering_wal.go`) | a directory of segment files, a counter, the active file | `Append`, rotation, retry loop, `Stop`, start-up | chain (callback into `replayWALEntry`) | MeteringWAL |
| Metering chain, writes (`kernel/metering_chain.go`, `metering_dedup.go`) | dedup table; per backend a breaker, a bounded channel and a worker goroutine | `RecordMeteringEvent`, `RegisterServiceSubscription`, worker, replay, `AddBackend`, `RemoveBackend`, `Stop` | breaker, WAL, backends | MeteringChain; registrations in MeteringReads |
| Metering chain, reads | none of its own | getters cascading over the backends | breaker (`Allow` without a report), `Healthy` | MeteringReads |
| Metering backends (`metering_memory.go`, `metering_redis.go`, `metering_postgres.go`) | events, subscriptions, a health flag set by a probe goroutine | record, register, read, `Healthy` | databases | by what they do, in both |
| Billing cycle window (`kernel/metering.go`) | none | `CurrentCycleWindow` | usage statements of every backend | CycleWindow |
| Subscription manager (`modules/subscription`) | contracts and plans in memory | `CreateContract`, `GetContract` (hydrates), `SetState`, `FireTransition` | metering chain, event bus | SubscriptionManager |
| Payment gateway (`modules/payment`) | checkout sessions, transactions | `ProcessPayment`, `RefundPayment`, `SimulateWebhook` | subscription manager | PaymentGateway |
| Catalog chain and WAL (`kernel/catalog_chain.go`, `catalog_wal.go`, `tenant_catalog_*.go`) | services, metrics and plans in three backends; a second log | register (fan-out), get (read-through, back-fill), list | its WAL | CatalogChain, CatalogWAL |
| Tenant registration (`modules/tenant`) | none of its own | check, then register | catalog chain | CatalogChain |
| Completion (`modules/completion`) | sessions and their messages; a channel per stream | complete at once or as a stream, fall back to another provider | event bus, provider goroutine | Sessions, Completion |
| Billing module, rating (`modules/billing`) | none | subscriber of usage events, quota policy, registration handler, rating | metering chain | MeteringReads, SubscriptionManager, Completion |
| Authentication (`modules/auth`) | API keys | validate, create, revoke | | no |
| Event bus, policies, FSM library (`kernel/events.go`, `policy.go`, `statemachine.go`) | subscribers, rules | `Publish` starts one goroutine per subscriber | everything | as they are used |

What is hard in it:

- **Interleaving.** `Publish` starts a goroutine per subscriber, every HTTP request
  is one, each backend has a worker, each log a retry loop, each stream a producer.
  Breakers, channels, logs, sessions and contracts are shared by them and each is
  locked on its own, so that a recording takes a dozen separately atomic steps.
- **Failure.** A backend write fails (perhaps after having stored the data), a
  channel is full, a circuit is open, a rotation cannot open its file, a log refuses
  an entry and its caller does not look, a provider breaks off, a client leaves, or
  stays and stops reading.
- **Crash and restart.** What is in memory or in a channel is lost; what is in a
  log's directory is met again by a process that rebuilds its state from it, and
  whose first layer is empty.
- **Stale reads.** The quota is read before a completion and its usage recorded
  after it; a contract is hydrated from the store without the lock; a payment is
  recorded under one lock and applied under another; a logged registration is
  replayed over a newer one.
- **Shutdown.** `Stop` closes channels under the feet of senders and gives up on
  workers after a timeout. `main` never calls it.
- **Time.** Cooldowns, retention windows, segment ages, billing cycles.

What makes each component correct:

- Breaker: it trips on a full streak of failures and no earlier; a half-open
  breaker has a probe under way, is left again, and follows its probe.
- Logs: an entry whose `Append` returned nil is in the backend or in the
  directory; replay is oldest first; the file being written is left alone; what
  is sealed drains.
- Write path: an event counted in L1 is never dropped on its way to a backend
  (unless the log refuses it), becomes durable, and a crash loses no more than the
  channels hold; one with an ID is counted once per retention window; `Stop` drains.
  A registration reaches every backend or is in the log for it.
- Read path: a read does not strand a breaker; within a billing cycle a quota is
  overshot by no more than what is under way.
- Cycle window: it contains the moment, and successive windows tile time.
- Subscriptions and payments: memory and store tell the same contract, a chosen plan
  stays, a session is charged and refunded once, a refund takes back what it paid for.
- Catalog: a copy that a layer did not take is not forgotten; a duplicate is refused.
- Completion: transcripts are whole turns, a client finds what it has been answered,
  usage is recorded once for what was produced, streams and their goroutines end.

## 2. The modules

```
DurableLog  <-- implemented by --  MeteringWAL   (MCMeteringWAL, MeteringWAL_proofs)
    |
    | INSTANCE: what the chain relies on
    v
MeteringChain  (MCMeteringChain, MeteringChain_proofs)  -- implements --> EventDelivery
    ^
    | EXTENDS: one breaker per backend
CircuitBreaker  --EXTENDS-->  MeteringReads  (MCMeteringReads, MeteringReads_proofs)
    |
    v EXTENDS: one breaker and any callers
BreakerCallers  (BreakerCallers_proofs)

SubscriptionManager  --EXTENDS-->  PaymentGateway  (MCPaymentGateway, PaymentGateway_proofs)

CatalogWAL  --EXTENDS-->  CatalogChain  (CatalogChain_proofs)

Sessions  --EXTENDS-->  Completion  (Completion_proofs)

CycleWindow  (MCCycleWindow, CycleWindow_proofs)
```

**CircuitBreaker** has no variables. Every method of the code holds the mutex
throughout, so each is a function from breaker to breaker: `Allowed` (what `Allow`
returns), `AfterAllow` (what it leaves), `RecordSuccess`, `RecordFailure`. The
comparison of the clock with `lastFailure` is the field `cooled`.

**BreakerCallers** is one breaker and the goroutines that ask, call the backend
without a lock, and report: `Enter`, `Succeed`, `Fail`, and `CooldownPasses`. `slow`
tells deployments whose calls can outlive the cooldown (both are settings) from
those whose calls cannot.

**MeteringWAL** is the log, a file being its number. `Append` is `AppendEntry`,
`RotateAndAppend` or `RotationFails`; the retry pass is `StartPass` (the snapshot
under the lock) and then, without the lock, `OpenNext`, `ReplayEntry` per line,
`EndOfSegment`, `RemoveSegment`, `EndPass`; `Stop`, `LoopExits`; `Restart` is a crash
at any step followed by `NewMeteringWAL`. A descriptor open on a removed file still
takes writes, and the entry is in no directory: `active \notin files`.

**DurableLog** is what the chain needs of a log: an entry leaves it only when the
backend has it.

**MeteringChain** is the write path. `RecordMeteringEvent` is `BeginRecord` (dedup;
`Duplicate` when the event has been seen), `WriteL1`, and per backend `Gate`
(breaker and channel look-up), `Send` (or
`SendOnClosed`, the panic), `Spill` (WAL). The worker is `Receive`, `WorkerGate`,
`WorkerWrite`, `WorkerSucceeds`, `WorkerFails`, `WorkerSpill`, `WorkerExits`. The replay
callback is `ReplayStarts`, `ReplayGate`, `ReplayWrite`, `ReplaySucceeds`,
`ReplayFails`, and `DeleteReplayed` for the segment. `StopBegins` closes the channels,
`StopEnds` is the end of the wait, by the workers' exit or by its timeout. A backend
is a set of events, because an event is stored by its ID; a failed call may have
stored it. `WalAppendEvent` may fail at any time, and the code drops the error: the
history `refused` is what nobody learnt. The members of `Unnamed` stand for the empty
ID, which the dedup table neither looks up nor enters.

**EventDelivery** is the promise: an accepted event becomes durable at every
backend (stored there, or in the log for it) and stays so, unless the log refuses it.

**MeteringReads** is one tenant's contract for one service in the chain, a contract
being the number of its registration. A registration is `BeginRegister` and per
backend `AskWrite` (the breaker), `CallWrite`, `WriteSucceeds` or `WriteFails`, and
`SpillSub`; a completion is `BeginCompletion` (the policy under-quota: a cascade of
`ReadL1`, `AskRead`, `CallRead`, `ReadSucceeds`), then the subscriber of
usage.recorded: the same cascade for the contracts, `BeginDefault` when it finds
none, and `RecordEvent`. `ReplayStarts` and its followers are the register_sub case
of `replayWALEntry`, `HealthProbe` the probe goroutine, `Restart` a crash followed by
`buildMeteringChain`. What Redis and Postgres say a tenant used is left open, since
it depends on when events reached them; an error there is a partial statement. What
L1 says, `Usage`, is what it counted since `from`: a registration in L1 sets the window
anew (`WriteL1`: wherever its anchor puts it), the calendar does (`CycleBegins`), and
a late anchor leaves it empty, when a recorded event falls outside. `began` is the
count at the last of these. `SpillSub` may be refused, like an event's append.

**SubscriptionManager** is the contract of one tenant: in memory, and as the chain
stores it. `CreateContract` and `FireTransition` hold the lock and are one step.
`GetContract` is `Look`, `ReadStore` without the lock, and `Fill`. The writers past the
manager are `HandleRegisterSubscription` and the default subscription of
usage.recorded (`CheckDefault`, `RegisterDefault`). `apart` and `lost` are histories of
the steps the code cannot keep in order; the properties name them.

**PaymentGateway** adds checkout sessions and transactions. The locked part of
`ProcessPayment` is `Charge` or `Decline`, the rest `Apply` (or `Fire`) after the lock
has been released; `Refund`, `Webhook`, `Challenge`, and a restart that forgets them.

**CatalogWAL** is the catalog's own log, unlike the metering one: a segment is
`.active` until it is renamed `.sealed`, and each pass seals the active one first.
Rotation, a rotation that fails half-way, replay, `Stop`, `Reopen`.

**CatalogChain** is a registration through the tenant service and the chain: the
look-up of the ID layer by layer (`Hit` with its back-fill, `Miss`), then a write per
layer (`WriteLayer`, `WriteFails`, `Spill`); list with its warming; the replay; a layer
that comes and goes, Redis entries that expire, a restart without the layers that
are down. Services, metrics and plans take the same path and are one kind of entity.

**Sessions** is the session manager: the table, and the index by API key. `Without`
is the loop by which `DeleteSession` takes an ID out of a key's list, written as a
recursive function so that it can be proved about.

**Completion** is a request from its policies to its usage event: `GetSession`,
`Build`, `Generated` (with `Retry` and `FallBack`) or a stream. A stream is a producer
goroutine (`ProducerChecks`, `ProducerSends`, `UpstreamFails`, `SendsError`,
`UpstreamEnds`), its channel of words that may close with an end or an error (`Ends`,
`Entry`), and the handler (`Read`, `StreamDone`); then `Keep`,
`RecordUsage`, and billing's `Bill`. The client may leave, or stop reading, and the
session be deleted at any moment.

**CycleWindow** is `CurrentCycleWindow` on the Gregorian calendar with Go's `AddDate`,
and a clock that ticks half days.

A definition commented "Mutant:" is a plausible wrong version of the one after it;
no specification uses it. `PROJECT.json` says which property it violates when it
takes the other's place.

## 3. The runs

| Run | Bounds | What it shows |
| --- | --- | --- |
| BreakerCallers | 3 callers, threshold 3, slow and quick deployments | trips only on a streak; probe in flight; one probe that decides, when calls are quick; half open is left |
| WALOneRun | 3 entries, 2 a segment, 4 segment numbers | no loss, order, refinement of DurableLog, draining |
| WALRestarts | 3 entries, 1 a segment, 4 numbers, 2 restarts | only a reused segment number can lose an entry or be replayed while active |
| ChainOneBackend | 2 callers, an event with an ID and one without, channel of 1, threshold 2, `Stop`, 1 prune | dropped only if the log refuses it, drained, counted once per window |
| ChainTwoBackends | 1 caller, 2 events, Redis and Postgres | the fan-out, and refinement of EventDelivery's safety |
| ChainDelivers | 2 callers, 3 events, channel of 1 | refinement of EventDelivery with its liveness; loss bounded |
| ChainStuckProbe (violated) | 1 caller, 2 events | a breaker half open for ever |
| CycleTiles | 6 anchors, monthly and yearly, to the end of 2028 | windows contain the moment and tile time |
| Reads | 1 durable backend, 2 requests, quota 1, 2 contracts, 2 events counted, any number of billing cycles, 1 restart | a backend that is behind is in the log, was refused by it, or was written from it; the quota's overshoot in a cycle; which reads strand a breaker |
| Subscriptions | 2 requests, 1 session, 3 plans, 2 services, 1 restart | when memory and store agree, when a plan stands, that a session is settled and refunded once and a refund takes effect |
| Catalog | 1 request, Redis and PostgreSQL, segment of 2, 1 restart | nothing owed to a layer is forgotten; duplicates refused; the log drains |
| Completion | 2 connections, 1 session ID, 2 keys, channel of 1, 2 turns, 1 retry | whole turns, index, usage, memory of what was answered, and the end of the streams whose clients read |

Why the bounds are enough. Three callers give a stale success and a stale failure
at once beside the probe; a threshold of 3 tells a streak from a count. In the log
a segment of one and of two entries, an entry still to be read, an active file and
a spent number exist together; two restarts let a counter fall behind and then a
pass meet what that left. In the chain the second event finds the channel full
while the worker holds the first, and a third is answered on top of them; with a
threshold of 2 the count matters, with 1 the circuit opens at once. One event
without an ID (`MaxUnnamed`) competes with the named one for the channel and the log;
`CountedOnce` is about the named one, which both callers present. In Reads two
requests are a completion and a registration, two registrations or two completions;
the second contract is what a replay of the first can overwrite; a quota of one is
full after the first completion, and the second (`MaxCounted`) is counted past it, or
in the next cycle. In Subscriptions one request can hydrate, pay or
refund while the other moves the contract, and the restart comes between any two
steps; three plans tell the chosen, the starter and the default one apart. In Catalog
one request suffices for each property, which follows one registration through
layers, log, replay, expiry and restart; two layers make one fail while the
other does not, and their two copies fill a segment; the proofs are for any number of
requests. In Completion the answer's two words and its end pass a channel of one, so
the producer blocks, and the second turn is posted to the session the first is in.
The proofs take over where the bounds end: except where section 5 says
otherwise, the safety properties are proved for all values of the constants.

**Fairness.** A backend call returns, because the clients run under timeouts
(`BreakerCallers`: the report is fair; `MeteringChain`: the steps of a call, a worker
and a replayed entry that have begun are). `EventDelivery` promises the same of each
accepted event that the log has not refused. Time passes (cooldowns, segment ages).
The retry goroutines are driven by tickers (`MeteringWAL`; `CatalogChain`'s
`Housekeeping`). In `Completion` goroutines that can run do, and the provider's HTTP
client has a timeout, so that a producer waiting for its upstream gets a line, the
end or an error; a send on a full channel is not fair, it is disabled. The server
sets no write timeout, so a write to a client that is still there
(`WritesToClient`) is not fair either; `StreamsEnd` has "the client reads what it is sent
until it leaves" as its hypothesis. Nobody is
obliged to record, prune, stop, restart, leave, or, in `MeteringChain`, to start a
replay: the tail of the log may never be one. Nothing is assumed of the backends:
`SealedDrains` and `Drains` have "the backend accepts writes from some moment on" as
their hypothesis.

`CHECK_DEADLOCK FALSE` is set where the system may stop: the logs (stopped, numbers
used up), the cycle window (its clock ends at the bound), and the four
runs whose requests, restarts and turns are bounded.

## 4. Where the code does not do what it says

**ChainStuckProbe**, the one violated run. `RecordMeteringEvent` calls `cb.Allow()`
only to decide whether to queue. On a cooled breaker that call is the probe. The
event is queued, the worker's own `Allow()` is refused by the half-open breaker, so
is the replay's, and nobody is left to report: the backend is never written to
again. The events themselves are safe in the WAL (ImplementsEventDelivery still
holds). Reads do the same when they find nothing: `StrandedByMiss` says that they are
the only other way.

The other deviations met while modelling are conditions of the properties that hold,
each visible as the exception a property names:

- *Two probes* (metering_circuit_breaker.go:80-81, "only one probe at a time"). A call
  let through by a closed breaker that outlives the cooldown reports to a half-open
  one, reopens it, and after another cooldown a second probe joins the first.
  `OneProbeWhenQuick` and `ProbeDecides` are about quick calls.
- *Segment numbers* (metering_wal.go:97-98). `NewMeteringWAL` sets the counter to the
  number of files, not to the highest name. Once the earliest segments have been
  deleted, new numbers name existing files: a pass whose snapshot is older may read
  and remove the active one, and the entry appended in between disappears.
  `LostOnlyByReuse` allows exactly that.
- *The tail of the metering log* (metering_wal.go:54). Only `Append` rotates, so an aged
  segment is not sealed until the next failure. `SealedDrains` is about sealed ones.
  The catalog's log seals in each pass and does not have this.
- *Late anchors* (metering.go:72). `AddDate(0, n, 0)` from the 31st overflows into the
  next month: on some days no cycle contains the present. `ContainsAt` and
  `CyclesTile` are checked and proved for days 1 to 28.
- *Appends whose error is ignored* (metering_chain.go:558, 571). An event overflows
  "to WAL (never drop, never block caller)", says :50, but `walAppendEvent` and
  `walAppendSub` do not look at what `Append` returns. A rotation or a
  write that fails loses the event or the registration for that backend; a `Stop` that drains into such a log ends as if it had succeeded; and
  what a crash loses has no bound. `NeverDropped`, `StopDrains`, `BoundedLoss`,
  `ImplementsEventDelivery` and `BehindIsLogged` are about what the log does not refuse.
- *Events without an ID* (metering_dedup.go:53). They are never duplicates, as
  design_billing_metering.md:676 says, and neither `Validate` nor the ingest handler
  asks for an ID. Presented twice, such an event is counted twice in L1, while
  PostgreSQL keeps the first of all of them only (metering_postgres.go:152-157, ON
  CONFLICT (event_id)). `CountedOnce` is about events with an ID.
- *Old registrations* (metering_chain.go, register_sub). A replayed registration is
  written over a newer one; nothing compares them. `BehindIsLogged` has this as a case of
  its own. Two registrations that overlap may leave each backend with another one
  (`torn`).
- *A restart and the quota* (metering_chain.go:301, billing/module.go:112). L1 is empty
  of events after a restart, but answers for a tenant once a contract is registered
  again; a statement that cannot be read counts as no usage. `QuotaBound` holds until
  the first restart.
- *A new contract and the quota* (metering_memory.go:52-54, 113-131). A statement counts
  the events since the contract's anchor, and registering without one moves it to now:
  usage is 0 again in the middle of a cycle. An anchor in the future leaves the window
  empty (metering.go:43) and the quota unused. `QuotaBound` counts from the latest
  registration or cycle.
- *The default plan* (billing/module.go:77-87). After a restart an unanswered read counts
  as "no subscription", and the default plan is written over the tenant's.
- *Hydration* (subscription/service.go:285-298, 365). `GetContract` writes what it read
  over whatever happened meanwhile, and reads any of a tenant's subscriptions, not the
  one for completions; `FireTransition` after a restart does not hydrate, and writes
  starter over the plan. `StoreFollows` and `PlanStands` name these.
- *Demo contracts* (main.go:63). They are created before the manager has its App, so
  they are in memory only. Also, the subscription module is initialised before the
  billing module, whose policy under-quota replaces the manager's of that name: a
  plan's own quota is not enforced.
- *Refunds* (payment/service.go:166). A refund between a charge and its application
  moves the contract first, and the payment then makes it active: `raced`.
- *Layers down at start-up* (catalog_chain.go:294-297). Logged entries for a layer that
  did not join are counted as replayed and dropped, although the log exists to bring
  them to it (:76). Segments that a crash left `.active` are never listed.
- *A stream whose client left* (doc/design_completion_module.md:314, "aborts provider
  read loop immediately"). A producer blocked on a full channel never looks at its
  context; it stays, with its channel. `StreamsEnd` allows it.
- *A client that stays and does not read* (main.go:93, completion/module.go:233). The
  server has no write timeout, so the handler waits in its write for ever, and the
  producer behind it. Without its hypothesis `StreamsEnd` is violated.
- *Events in one millisecond* (billing/module.go:101). Their IDs are equal, and the
  second is dropped as a duplicate: `collided`.

## 5. What is proved

| Module | Theorems | Argument |
| --- | --- | --- |
| BreakerCallers_proofs | TypeCorrect, ProbeInFlightHolds, TripsOnlyOnStreakHolds, OneProbeHolds, ProbeDecidesHolds | `ProbeInFlight` is inductive with the types. `CountsStreak` ties the stored count to the real streak. `ProbeAlone`, for quick calls, lists who can be in flight in each state: no probe while closed or open, nobody once cooled, nothing but one probe while half open. |
| MeteringWAL_proofs | TypeCorrect, ActiveNotReplayedHolds, LostOnlyByReuseHolds, NothingLostHolds, OldestFirstHolds, RefinesDurableLog | `IInv`: what a pass has read is delivered (`ReadIsDelivered`), a segment about to be removed is wholly delivered (`RemoveIsComplete`), a pass avoids the active file unless its number was reused, every entry is where it was written, and every logged entry is accounted for. `CounterIsHighest` shows that nothing is reused before the first restart; on it rests `OrderInv`: until then whatever is appended goes to the highest segment written, so segments are in the order of their entries, and a pass ascends. |
| MeteringChain_proofs | TypeCorrect, NeverDroppedHolds, StopDrainsHolds, CountedOnceHolds, BoundedLossHolds, RefinesEventDelivery | `IInv` is `AllHeld` (each owed event is durable, in the hands of a named goroutine, or refused by the log) with what supports it: idle callers owe nothing, an exited worker left an empty channel, a reported success is stored, and a stop that is not forced found its workers gone. `Known` says that whatever is held, queued or logged was counted in L1 first. Each step then maps to `Accept`, `Secure`, `Refuse` or a stutter. `CountInv` ties the dedup table to the count in L1, for events with an ID: the callers that have entered an event in the table and not yet written it (`Entering`) count as if they had, so a table entry is used up once. `BoundedLoss` follows from `AllHeld`: what no caller holds is in the channel, of at most its capacity (`Room`, `ElementsBounded`), or in the worker's hands. |
| MeteringReads_proofs | TypeCorrect, StrandedByMissHolds, QuotaBoundHolds, BehindIsLoggedHolds | `Typed` adds to the types the `Shape` of a request: which step goes with which purpose and backend. `StrandedByMiss` is then inductive: a step that opens the breaker half-way puts its caller in flight. For the quota, `QInv` bounds what L1 has counted in the cycle together with the requests past its look at L1 (`Entered`): nobody enters once the quota is reached, and a registration or a new cycle starts the count anew. `LInv` follows the one writer of a contract that no other overlaps: what it has passed, it has left with the contract, in the log or refused by it (`BehindWriter`), and when it is done that is all of the chain (`SettledKept`). |
| PaymentGateway_proofs | TypeCorrect, StoreFollowsHolds, PlanStandsHolds, LedgerMatchesHolds, RefundTakesAccessHolds | `StoreInv` makes `StoreFollows` and `PlanStands` inductive with the types of the contract; `RequestsOK` adds what a request knows: what a hydration read came from a subscription that exists (`Known`), and what is paid for is a plan. `RefundInv`: a grant means an active contract, a refunded session that is still being paid was overtaken, and a refunded grant either was too or has a request on its way to revoke it (`Revoking`). |
| CatalogChain_proofs | TypeCorrect, DuplicateRefusedHolds, NothingForgottenHolds | For duplicates, `Remembered`: a registration past memory is in memory, an answered entity is, and so a second one is stopped there; a restart, which empties memory, also forgets who was answered. For the log, `Keeps` says of every operation but the deletion that segments stay where they are and the active one is kept or closed; `ReadOK` says that of the lines a pass has read without an error, a copy still owed is `Elsewhere` in the log or `Carried` by a request, so that the deletion of the segment forgets nothing. |
| Completion_proofs | TypeCorrect, IndexMatchesHolds, UsageOfAnswersHolds, WholeTurnsHolds, NoFailedAnswerKeptHolds, RemembersHolds | `StreamsOK` follows a stream's words: those the client has, those in the channel and those the producer still has never exceed the longest answer, and the channel ends at its last entry. `TurnsApart` says that a turn is one request's, so that `UsageFollows` and `AnswersApart` give each answer one usage record, and `TranscriptsWhole` (both messages of a turn are appended in one critical section) keeps turns apart. `FailuresLeave` adds that a stream is over only by an end the handler will see, by a cut, or when nobody waits for it. `AnsweredIsKept`: what the client was answered is in the transcript or held by a handler about to keep it, so that `Build` misses nothing. That `Without` removes an ID and nothing else (`WithoutRemoves`) is shown by the least position at which it would not. |
| CycleWindow_proofs | TypeCorrect, ContainsAtHolds, CyclesTileHolds | under `EarlyAnchors` (days 1 to 28) `AddMonths` keeps the day, so starts grow by whole periods and the elapsed months round down to the cycle of the moment. |

The assumptions are those on the constants, each evaluated by TLC in a passing
run: a positive threshold, channel and segment size, a priority per backend without
ties, finitely many requests to the metering chain and finitely many layers, plans
that are sold among the plans, anchors that are dates, a longest answer, and a mark
for "no session" that is not one. `NothingLostHolds`, `OldestFirstHolds` and
`RefinesDurableLog` are about the log until its first restart, which is when they hold.
Every invariant and every action property of a passing run is stated by a theorem.

Only model-checked is liveness, which under fairness is out of the prover's reach:
`HalfOpenResolves`, `SealedDrains`, `Drains`, `StreamsEnd`, and the fairness half of
`ImplementsEventDelivery`, whose safety half is `RefinesEventDelivery`.

## 6. What is not modelled, and why

- In the modelled parts: a write that fails half-way, lines longer than the
  scanner's buffer, segment numbers of five digits, daylight saving,
  `RemoveBackend`, which only a test calls, as it does the breaker's
  `Reset` and the manager's `SetState` and `CheckEntitlement`. `GetUsageOverview` takes
  the first healthy backend's answer whatever it is (metering_chain.go:312-313) and
  keeps no state. A chain without a WAL is one whose log refuses everything.
- OpenAI's end of a stream is two chunks; the second changes nothing and is one with the
  first. The write of an answer that is not streamed follows the model's last step.
- `MeteringReads` takes the log to keep its entries over a restart, which MeteringWAL
  qualifies, and leaves to `MeteringChain` how an event reaches the durable backends,
  with the breaker's share in it. Its requests are completions and registrations:
  events that a tenant ingests past the quota are not counted there.
- In the catalog: field validation (a condition on the input), a close that
  fails, a torn line.
- Rating, which sums prices in floating point, has no state and is called by tests only.
- Authentication: a table behind one lock with one critical section per operation;
  its answer is a choice in `CheckPolicies`.
- Left aside: configuration and wiring (sequential; what a start decides is in Init and
  Restart), the web client and terminal UI (presentation), SQL and Redis commands
  beyond what they do to the data.

## 7. What is left

1. An abstract register for SubscriptionManager (each operation atomic) that it implements
   while `apart` is false; CatalogWAL against DurableLog.
2. MeteringChain over MeteringWAL instead of DurableLog, with restarts; the length of
   entries and the order of names in MeteringWAL.
