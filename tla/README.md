# Binnacle: TLA+ models, checks and proofs

Binnacle is a self-hosted monitor for one Docker host: a single Go process with
one SQLite database (one connection, foreign keys on). This directory models the
parts of it whose correctness depends on the order of events, checks them with
TLC on small instances and proves the safety properties, and the refinements,
with TLAPS for every value of the constants. `PROJECT.json` maps every definition
to the lines it models and lists the runs, hazards, findings and theorems.

Run a check with `tlc -workers 2 -config X.cfg M`, the proofs of a component with
`tlapm XProofs.tla`.

## 1. Inventory

| Part | State | Operations | Interacts with | Hard behaviour |
|---|---|---|---|---|
| metrics engine, live stream (`internal/metrics`, `api/live.go`) | latest snapshot, ring of events, subscriber channels | Publish, Subscribe, EventsAfter, PersistenceBatch | sampler publishes; persistence, SSE and evaluator read | slow subscribers lose messages; ids restart with the process |
| collectors (`internal/collector/*`, `dockerapi`, `resources`, `events`) | previous counters, caches | sample, resolve, archive | engine, storage | counter resets, stale caches |
| persistence (`storage/persistence.go`, `writer.go`) | bounded queue of batches, remembered collector states | enqueue, WriteBatch, Retry | engine, storage, budget | drop-oldest races with the writer; retried transactions |
| rollups, retention, budget (`storage/rollups.go`, `retention.go`, `budget.go`) | raw rows, three tiers of buckets, budget level, pause flag | RollupOnce, applyRetention, evaluate budget | persistence, settings | recomputation over rows that retention is deleting |
| history deletion (`storage/deletion.go`) | previews, jobs, worker position | preview, create, cancel, retry, run, recover | collector writes, checks, API | statement-wise worker, cancellation, restart |
| checks (`internal/checks`) | checks, results, queue, reservations | create, update, delete, schedule, run, run now | evaluator reads the results | bounded queue, stale batches, manual runs |
| alerts (`internal/alerts`) | lifecycle state per condition, alerts, silences, rules | evaluate, advance, silence, switch, clean up | engine, checks, incidents (same transaction) | passes that abort half way, cooldown, suppression |
| incidents and outbox (`notifications/repository.go`) | incidents, members, channels, deliveries | fire, resolve, reconcile, enqueue, fold, remind, retry, test, patch, delete, clean up | evaluator, worker, API | grouping, one resolution, transient noise |
| delivery worker (`notifications/worker.go`) | queue, per-goroutine position, ids in hand | start, dispatch, claim, load, send, finish, stop | outbox rows, SMTP and webhooks | crashes between claim and outcome, serial sends, retries |
| auth (`internal/auth`) | users, sessions, TOTP, tokens, setup state, buckets | claim, login, rotate, revoke, limit | API | expiry, replay, eviction |
| settings (`internal/settings`) | overrides, revision, audit, current configuration | patch, initialize, apply | sessions, retention | optimistic revisions, live application |
| coolify (`internal/coolify`) | metadata cache, deployments, sync state | sync, configure, decorate | events, resources | one event per terminal status, reconfiguration |
| onboarding, preferences | single rows | complete, patch | settings | optimistic updates |
| diagnostics, outbound policy, docker client, demo, web, packaging | none worth modelling | read-only or I/O | | |

Each part is a component of `PROJECT.json` with its status. The properties that
make the modelled parts correct are in section 4.

The process starts its components in order and stops them in reverse
(`internal/app/app.go`); a crash can come at any statement. Between two SQL
statements outside a transaction any other goroutine may run; inside one none
may, because there is one connection. Steps of the models follow that grain, a
transaction or a single statement being one action, except where section 2 says that
an action stands for several.

## 2. Modules

| Module | Models | State and actions |
|---|---|---|
| `Notifications` | `notifications/repository.go` and the statements of the worker, table by table | `alerts`, `incidents`, `channels`, `deliveries` are the tables, one action per transaction: `Fire` and `Resolve` (evaluator transaction with `AlertFiredTx`, `AlertResolvedTx`), `Reconcile`, `Recover` (start), `ScheduleReminders`, clean-ups, channel administration, `Retry`, `Test`, `ClaimRow`, `FinishRow`, `ClaimError` |
| `DeliveryWorker` | `notifications/worker.go` | adds the dispatcher's batch, the Go channel, the in-hand ids and a position per goroutine; the table actions of `Notifications` happen inside its steps; storage errors and restarts |
| `AlertState` | `alerts/state.go` | `Advance` as an operator, elapsed times instead of timestamps |
| `Alerting` | `alerts/evaluator.go` | a pass over slots in order; a slot is one evaluation of a condition (two checks of a resource are two slots of one condition); transitions drive `Fire` and `Resolve` of `Notifications`; aborts, silences and grace periods, rule switches, retention of events, restarts |
| `HistoryDeletion` | `storage/deletion.go` | tables, jobs, the worker between two statements, and what races with it: upserts, archiving, `WriteBatch`, check configuration. A container sample names only its container: `Selects` follows the JOIN with `container_instances`, which `WriteBatch` rewrites when a container comes back under another resource and which a deletion may empty. History: the resource a sample was recorded for, the resources a container ever had (`owners`), the containers that left the resource of a job since its confirmation (`strayed`) |
| `CheckScheduler` | `checks/scheduler.go`, `checks/repository.go` | rows in the order of `next_run_at`, the batch, the queue, reservations, a position per worker and per manual run |
| `Engine` | `metrics/engine.go`, `api/live.go` | the message counter, the ring of events, a bounded channel and a browser per subscriber: `Publish` (snapshots displace, events close a full channel), `Subscribe`, `Replay` by Last-Event-ID, `Stream`, `Leave` |
| `Persistence` | `storage/persistence.go`, `writer.go`, `retry.go`, `budget.go` | over `Engine`: the queue of batches and the two goroutines, each step of the drop-oldest dance an action; the transaction, its failure before or after the states were remembered, retries; the pause; restarts that number events from 1 again |
| `Sampler` | `collector/production/sampler.go`, `collector/docker`, `resources`, `events`, `storage/resources.go` | over `Engine`: Docker and its event stream, the metadata cache, a collection pass with every failure point, counters and rates, pending events, the resource table with archiving, live readers |
| `Rollups` | `storage/rollups.go`, `retention.go`, `history.go` | raw samples, tiers of buckets as sets of values, collector transitions; the rollup pass tier by tier, retention batch by batch, late writes; queries with resolution, points, gaps and their reasons as operators. The raw step of `findGaps` is a constant (`RawStep`, 10s in the code), and samples carry any times: they may be closer than a step. The points and gaps of a query are sets: no two begin at the same time, which is their order; the loops of `findGaps` and `mergeGaps` become what they compute (the cursor at a point, the run of gaps that continue each other) |
| `Auth` | `internal/auth`, `api/auth.go`, `api/setup.go` | setup row, users, sessions, second factor, and a position per request between the statements that can be overtaken; clock, session settings, storage errors, restarts |
| `Settings` | `settings/store.go`, resolution and validation of `load.go`, `onboarding` and handlers | overrides, revision, audit, onboarding row, current configuration, what the components were told; a position per client |
| `OptimisticRegister` | what the settings service promises | a versioned register: a write takes effect only on what its client has read |
| `Coolify` | `coolify/integration.go`, `enrichment.go`, `api/coolify.go` | over `Settings`, with which it shares a table: `Configure` step by step, the enricher, its cache, deployments and their events, restart |
| `*Proofs` | | theorems and proofs about the module of that name, which each extends; `CoolifyProofs` is about `Settings` as well; `EngineProofs` is about the two modules over `Engine`, `Persistence` and `Sampler`; `PipelineProofs` is about the two over `Notifications`, `DeliveryWorker` and `Alerting`, and cites lemmas of `NotificationsProofs` |
| `MC*` | | instances for TLC |

Compositions: `DeliveryWorker` and `Alerting` extend `Notifications`,
`Persistence` and `Sampler` extend `Engine`, `Coolify` extends `Settings`.

Refinements: `DeliveryWorker` and `Alerting` are checked and proved to implement
`Notifications!Spec` (property `Spec` of runs `delivery_worker` and `alerting`):
`Notifications` is the abstract specification of the incident tables, and each
process that works on them does nothing else. The mapping is the identity on the
tables, so theorems about `Notifications!Spec` carry over to both. `Settings`
implements `OptimisticRegister` under the mapping of `Register` (property
`IsRegister` of run `configuration`, proved too): the version is the revision, the value the
editable overrides, and what a client knows is the snapshot its handler holds.
Onboarding's retried patches and the URL that Coolify writes to the same table are
steps or stutters of that register.

What is abstracted: payload text, names, hashing and encryption, HTTP and SMTP
exchanges (one nondeterministic outcome each), timestamps (elapsed times, "due"
flags, an order, or small numbers where expiry matters), metric values (an
observation is failing, recovered, or in between; an aggregate is the set of its
values; a kernel counter is one number). History tables with one WHERE clause are
one table. `current_table`, error texts and progress counters are left out: they
decide nothing. Variables marked "history" in a module are not in the code; they
record what a property speaks of.

Actions that stand for several statements, and what that leaves out:

- a read and the write that follows it: `Notifications!FinishRow` (only the goroutine
  that holds a row in progress changes its count; the finish after a failed claim is
  an action of its own) and `Notifications!Test` (what is left out is a test of a
  channel that is deleted between the SELECT and the INSERT). `Auth!Authenticate`
  reads a session and, when it refuses it, marks it; when it admits it, the extension
  is a later action (`Extend`), and that is the pair that races. `Auth!Verify` reads
  the switch and the seed with the UPDATE that uses up a recovery code; the UPDATE has
  its own guard. `Auth!Issue` revokes the previous session and inserts the new one,
  without the error of the INSERT: it would leave a user with no session;
- steps of a start, before the goroutines of the part run: `Notifications!Recover`
  (the reset of rows in progress, then the reconciliation). After a crash between the
  two the next start repeats both. `Coolify!Activate` swaps the enricher and loads its
  cache; in between, the new one shows nothing;
- steps under a mutex, or on one goroutine with results nobody else writes:
  `CheckScheduler!Enqueue` (reserve, non-blocking send, release when the queue is full:
  a manual request in between would be refused and could be sent again),
  `Engine!Publish` (readers may drain a channel in the middle of it, which only makes
  room), `Settings!Commit` (the commit, the current configuration and the callbacks
  under the service's mutex: a reader of the retention sees the old policy in between),
  `Sampler!Collect` (lists, inspections, statistics and the statements of a pass, each
  of which may fail; Docker may change between two of them, which a pass cannot tell
  from a change before or after it, container by container).

Narrower than the code: `Alerting!UpdateRule` only switches a rule on and off (severity
and durations are constants of a rule) and a pass reads the switch per condition, not
once; `Notifications!Init` has at most one firing alert without an incident, so one
`Reconcile` groups no two of them; a restart makes browsers forget what they have read
(`Persistence!Restart` the Last-Event-ID, `Settings!Restart` the revision), although a
page that stays open keeps it; `Settings!SetRetentionPreset` has no branch for an error
before its commit, which changes nothing. `Persistence` is about what the writer
inserts: retention of events is in `Alerting` (the alert events) and of samples and
transitions in `Rollups`; history deletion jobs, which delete raw samples too, are not
in `Rollups`.

## 3. Bounds, symmetry, deadlock and fairness

- Two alerts and two deliveries per channel are enough for an incident with two
  members, for a second incident of a group, for an opening with its resolution,
  and for two rows that compete for a claim. `RetryLimit = 1` with
  `MaxAttempts = 1` gives the first attempt, its retry, and the exhausted budget.
- A queue of one place and two goroutines give an overflow and a race for every
  claim; two restarts give a start that repairs the previous one's leftovers.
- `MaxFaults` (storage errors), `MaxAborts` (passes of the evaluator that end half way),
  `MaxOutages` (failing reads of the sampler), `MaxRestarts` and `MaxBoots` are 1 or 2 in
  the safety runs: one between any two steps, and one more where a repair can fail.
- `Horizon` caps elapsed times just above the longest duration of a rule: older
  is not told apart by `Advance`.
- The deletion run starts after one stored snapshot; `BatchSize = 1` and another
  write give tables of several batches, and rows on both sides of the fence. Two
  resources and one container let the container move out of the scope of a job, and
  into it; it starts with one of them, which one makes no difference. Health checks
  are configured for one. One fault and one restart fall between any two statements.
- `check_scheduler` has two checks and one place in the queue (the code makes at
  least two places, a scaled-down bound).
- `persistence`: a ring of one event, a queue of one batch and three batches per
  process make every batch displace or be displaced; two attempts and two errors
  cover the retry, the last attempt and giving up; the second process meets the
  rows of the first.
- `rollups`: a raw step of two units of time and samples at any unit, so that two
  may be closer than a step; tiers of two and four units, samples as late as one unit,
  five units of time. Queries of three lengths reach every resolution. One row per delete
  puts every other step between two batches.
- `auth`: one session token, two requests, one recovery code and two enrolments:
  two requests are what it takes to overtake the other between its statements,
  two enrolments what it takes to confuse their seeds.
- `configuration`: two clients and two administrators, changes that are valid
  alone and invalid together, two servers and one address that is refused, one
  deployment, one storage error, one restart.
- `sampler`: two containers of one resource, one pending event, one place on the
  live channel, failure thresholds 1 and 2; three steps of Docker, the clock and
  the browser in any order around any number of passes (at most three messages).
- Symmetry: goroutines of the worker, requests of `auth`, clients,
  administrators and tokens of `configuration`, containers of `sampler`; only in
  runs without liveness properties, over sets no definition orders.
- `CHECK_DEADLOCK FALSE`: an idle system with exhausted bounds has nothing to do,
  which is how the bounds end; liveness runs cover what must go on.

Fairness: goroutines run and tickers tick (weak fairness of each goroutine's
steps and of time), a stopped process is started again by its supervisor
(`WF(Start)`; the unit files and compose files restart it), runs of a check end
because they have a timeout, retention removes old events every hour, the rollup
loop runs every minute (`StartRollup`, `RollupOnce`; retention and the writer may
stop). In `CheckScheduler` storing a result is strongly fair: the storage does not
fail for ever. No fairness is assumed of administrators, of observations, of
storage errors or of restarts. Liveness of the worker and of deletions is claimed
of behaviours without storage errors, since the code leaves a row in progress
after one until the next start.

## 4. Runs

An invariant of a run is a conjunction of named parts, the module's type invariant
among them; every part has its own comment in the module.

| Run | Shows |
|---|---|
| `notifications` | an incident is open exactly while one of its alerts fires (`OpenIffFiring`) and has the worst severity among them (`SeverityExact`); a channel gets one resolution per incident and none while it is open (`OneResolution`); one row per incident and channel is in progress (`SerialClaims`); counted attempts stay in the budget (`RetryBudget`; an attempt cut off by a crash is sent again uncounted) |
| `delivery_worker` | `WorkerInv`: no two sends about an incident on a channel overlap, and rows are stranded in progress only by storage errors; cancelled rows are revived only through the failed-claim path (`CancelledStaysCancelled`); the worker implements `Notifications!Spec` |
| `delivery_liveness` | a pending delivery is eventually completed (`EventuallyCompleted`) |
| `alerting` | `AlertingInv`: lifecycle state and alerts table agree between any two transactions; no alert fires in a cooldown (`CooldownHolds`); the evaluator implements `Notifications!Spec`; persistent failures fire (`PersistentFailureFires`) and recoveries resolve once retention has removed the triggering event (`RecoveryResolves`) |
| `history_deletion` | completed jobs deleted everything that was confirmed, except samples of a container that left the resource meanwhile (`CompletedDeletedAll`); nothing newer than the preview is deleted, and of another resource at most samples of a container both had (`FenceHolds`); `JobInv`: at most one batch follows a cancellation, and the one active place is never kept by a job nobody runs; jobs finish (`JobsFinish`) |
| `check_scheduler` | `ReservationInv`: one run of a check at a time, and a reservation exactly while its check is queued or run; no due check is starved while the schedule goroutine lives (`DueChecksRun`) |
| `persistence` | `QueueInv`: every batch is queued, in hand, finished or counted as dropped, in order, and the newest always finds room; a written batch makes up for the events of those lost before it (`EventsStored`); recorded collector transitions form a chain except after a failed commit (`TransitionsChain`) |
| `rollups` | `HistoryInv`: whatever the three goroutines have left of the tables, gaps of a query are where data is missing (a value lies in one only right after a raw sample without a value, less than a step later), and are blamed on the collector exactly when it was down; aggregates shrink only in buckets retention has cut (`ShrinksOnlyWhenCut`); late samples reach every tier (`LateSamplesRepair`) |
| `auth` | `AccountInv`: one administrator, whichever of bootstrap and browser setup comes first and wherever a crash falls; `SessionInv`: sessions end, and for good; `FactorInv`: switch, seed and recovery codes belong to one enrolment, and a code is good for one login |
| `configuration` | `SettingsInv`: what is stored loads at the next start and is in force now, onboarding ends in order; `AuditTellsAll`: the audit log chains from "not set" to the stored value; `IntegrationInv`: after configurations that met neither another one nor a storage error, the server and the token that run are those that are stored; a healthy integration shows metadata of its own server; ends of deployments have events; `IsRegister` |
| `sampler` | `CacheInv`: with the events handled, the cache says of every container whether it runs; events are published once and in order (`PublishedOnce`); rates of a pass after failed ones are over the right interval (`DiskRateTrue`); `ReaderInv`: a slow browser is shown the latest snapshot and every event a snapshot did not displace; `ResourcesTruthful`: a pass shows as healthy only what runs and archives only what is gone |
| `alerting_recovery` | ends in a violation: resolving an alert inserts an event under the id of its triggering event, so the transaction rolls back until retention removes that event (the quoted lines are under `findings`) |

Six more configurations end in a violation and are kept as demonstrations, each of
a behaviour the code has and a sentence of the repository that reads otherwise:

| Configuration (module) | Violated | Behaviour |
|---|---|---|
| `DeliveryResolutionLast.cfg` (`MCDeliveryWorker`) | `ResolutionIsLast` | an opening that was being sent when the incident resolved fails, is retried and arrives after the resolution |
| `AlertingTwoChecks.cfg` (`MCAlerting`) | `FailingCheckFires` | a failing check never fires while another check of its resource succeeds |
| `HistoryDeletionCancel.cfg` (`MCHistoryDeletion`) | `CancelledNeedsRetry` | a cancellation between the worker's first SELECT and its UPDATE is undone |
| `CheckSchedulerFull.cfg` (`MCCheckScheduler`) | `SchedulingContinues` | a full queue ends the schedule goroutine |
| `RollupsIdempotent.cfg` (`MCRollups`) | `ReplacingIsIdempotent` | `rollups.go:10` "Replacing an existing bucket is idempotent": a bucket retention has cut into is replaced by an aggregate of its rest |
| `SamplerHealth.cfg` (`MCSampler`) | `HealthRefreshed` | `sampler.go:173` "Refresh metadata on lifecycle/health changes.": Docker's action is `health_status: healthy`, which no case matches |

Seen while modelling, and not checked by a run:

- on a channel without resolution messages the unsent opening of a resolved
  incident is still sent (`notifications/repository.go:133`); an update folded into
  a row awaiting its retry changes the payload under the same idempotency key
  (`repository.go:243`);
- a check that is disabled or deleted while its alert fires leaves the alert firing
  (`alerts/evaluator.go:129`);
- a deletion that is cancelled between batches and retried counts its rows from
  zero (`deletion.go:172`); a reset of all history fails on a foreign key while a
  health check is configured (`deletion.go:359`, first disjunct of `BatchFails`);
- samples of a container that moves to another resource after a deletion was confirmed
  stay although the deletion is reported as completed, and earlier samples of a
  container that moved into the resource are deleted with it (`deletion.go:263`,
  `writer.go:56`): the exceptions of `CompletedDeletedAll` and `FenceHolds`;
- `findGaps` takes 10s as the step of raw samples (`history.go:303`) while
  `raw_interval` is a setting (`settings.go:191`) and samples carry the times of their
  snapshots: the gap of a sample without a value reaches over a sample that follows in
  less than 10s, and with an interval above 30s complete data is shown as gaps;
- an event of a new process whose id an earlier process used gets no row
  (`metrics/engine.go:66`, INSERT OR IGNORE);
- a degraded Coolify integration may decorate resources with what was cached of the
  server before (`enrichment.go:193`);
- `docs/operations/recovery.md:13` says of the emergency level that "raw 10-second
  persistence pauses; rollups, settings, and events are preserved", while the pause
  skips the whole batch, events included (they come with the next batch as far as
  the ring reaches: `EventsStored`); line 11 promises that expired data is "cleaned
  aggressively" at the warning level, `retention.go:87` does so later;
- of the settings marked as applied live (`settings/store.go:127`) the callback of
  `main.go` passes on sessions and retention only (the host interval is read live);
- the gap reasons `persistence_degraded` and `persistence_gap` (`history.go:173`)
  are looked for and never written;
- a Docker event stream that ends is not opened again (`sampler.go:106`), and the
  counters of containers that have gone are kept (`sampler.go:55`);
- a setup token that expired unclaimed is not replaced at the next start
  (`auth/setup.go:68`);
- a migration that is interrupted by a stop leaves the marker that refuses the next
  start (`storage/sqlite.go:131`).

Every property of a passing run has a mutant, most conjunctions one per part: an
operator next to the mapped definition that changes it the way a plausible bug
would, under which TLC finds the property violated.

## 5. Proofs

The theorems hold for any sets of conditions, channels, goroutines, requests and so
on, finite or not, and any values of the bounds: a bound that TLC needs is an
arbitrary number here. What is assumed of the constants is in the named `ASSUME`s of
the modules, which TLC evaluates in the runs. Those that are more than types:

- `QueueLimit`, `RingSize`, `MaxAttempts`, `BatchSize`, `QueueCapacity`, `MaxTries`
  are at least 1 (constants of the code), `MaxBoots` too (a process has started);
- `NoGroupAssumption` and `TokenAssumption`: the mark for "none" is not a group, not
  a session token; `CoolifyAssumption`: nor is "" an address or a token;
- `SettingsAssumption`: a request of the browser changes at least one setting and
  not the URL, a preset has a name (what the handlers reject otherwise);
- `BaseAssumption`: without overrides the configuration is valid: a process that
  cannot validate its file and environment does not start;
- `DeletionAssumption`: resources and containers are finitely many, so that a batch
  that deletes nothing has found nothing; there is a job; "none" is not a resource.

Every proof has the same shape: the inductive invariant holds initially, each action
preserves it (a step per action, and under it one per part that the action can
disturb), and it implies the property. The inductive invariants were checked by TLC
on the instances of section 3 before they were proved. Action properties and
refinements follow from the same invariants, step by step.

| Module | Theorem and what it states | Inductive invariant, and why it is needed |
|---|---|---|
| `NotificationsProofs` | `TypeCorrect`: `TypeOK` | as it stands; one lemma per table operation (`upsertDeliveryTx`, `enqueueIncidentTx`, `enqueueResolutionTx`) says that it maps delivery tables to delivery tables |
| | `SerialClaimsHold`: `SerialClaims` | with `TypeOK`: only `ClaimRow` puts a row in progress, and its guard looks at all rows of the incident on the channel |
| | `RetryBudgetHolds`: `RetryBudget` | with `TypeOK` and the bound `retryDelay` puts on the count of rows it returns to pending |
| | `IncidentsFollowAlerts`: `OpenIffFiring`; `SeverityFollowsAlerts`: `SeverityExact` | `IncidentInv`, both together: they speak about the same members. The cases are an alert that joins an open incident, opens one, leaves others behind, is the last |
| | `OneResolutionHolds`: `OneResolution` | plus `References` (rows refer to existing incidents: a row of a future one would break it) and the lemma `NoReopen` |
| `PipelineProofs` | `WorkerHolds`: `WorkerInv`; `WorkerImplements`: `Notifications!Spec`; `CancelledStays`: `CancelledStaysCancelled` | `WorkerInd`. That sends do not overlap rests on `SerialClaims` of the table and on `HeldInProgress`: a claimed row stays in progress until its goroutine settles it. That holds because no second goroutine gets the id: `Tracked` says that the dispatcher's set covers the queue and the goroutines and that no id is there twice; `StoppedEmpty` restores it at a start. `StrandedOnlyByFaults` counts rows in progress that nobody holds, so it needs `OrphansFinite` |
| | `EvaluatorImplements`: `Notifications!Spec` | every transition of a pass is `Fire`, `Resolve` or a stutter of the tables; aborted passes leave whole transactions behind |
| | `AlertingHolds`: `AlertingInv` | with the types; `AdvanceFacts` says when `Advance` triggers and resolves, and that nothing else changes whether a condition is raised |
| | `CooldownsHold`: `CooldownHolds` | `CooldownInd`: what is left of the cooldown and the time since the last resolution make up the whole cooldown; the guard of `Advance` alone says nothing of time |
| `HistoryDeletionProofs` | `JobsHold`: `JobInv`; `CompletedDeleted`: `CompletedDeletedAll`; `FenceKept`: `FenceHolds` | `DeletionInd`. `LeftInd`: what is left of a confirmation is stored and in scope, and in no table the worker has passed, or it is a sample of a container that has strayed, so at the end of the plan only strays are left; that needs `WorkerInd` (the worker's job is the one active job, the worker is within its plan) and finite tables. `Attributed`: a stored sample was recorded for a resource its container was assigned to, as is the resource the JOIN finds |
| `CheckSchedulerProofs` | `ReservationsExact`: `ReservationInv` | types and `Reserved`: `active` is exactly the checks on the queue and with a runner, and each is there once. The parts support each other: a reservation is given back once because there is one holder |
| `EngineProofs` | `QueueExact`: `QueueInv` | `Ordered`: the batches in flight, writer's, queue's and producer's, are in the order of their snapshots, and the producer sends only into room (only the writer has touched the queue since the drop) |
| | `EventsReachStorage`: `EventsStored` | `AllComplete`: a batch holds every event of the ring that is not newer than itself, even as the ring moves on |
| | `TransitionsFollow`: `TransitionsChain` | `Chained`: rows are in the order of the processes and each is a change; breaks are counted, and a retry adds at most one |
| | `ReadersAreServed`: `ReaderInv` | `ReadersServed`: what waits on a channel is in the order of the ids, and every event since the reader came is tracked: shown, displaced, waiting with an id above the reader's last one, or above every id the reader can come back with. A channel that is closed while it is full is the hard case: the reader's next header must lie before the event that did not fit |
| | `EventsPublishedOnce`: `PublishedOnce` | `LogInOrder`: published and pending events form one ascending line up to the last received; an accepted event that is not in it is older than the last `PendingCap` of the line (`Displaced`), which stays so as the line grows |
| | `CacheFollows`: `CacheInv`; `PassesAreTruthful`: `ResourcesTruthful` | `StreamTells`: the last event that waits about a container tells of the state it is in, and of a container no event tells of, the cache is right. Inspections may be ahead of the events, so the cache alone is not inductive |
| | `DiskRatesTrue`: `DiskRateTrue` | `HostCounted`: the previous disk counter is the network's unless the last sample could not read it; the kernel's counters are not zero, which stands for "not read" |
| `RollupsProofs` | `AggregatesShrinkOnlyWhenCut`: `ShrinksOnlyWhenCut` | `RowsSourced`: the values of a row are those of samples of its bucket, stored or cut; `RowsApart`: a bucket has one row |
| | `HistoryIsRight`: `HistoryInv` | `TablesInv`, the above with `SamplesApart` and `LogApart` (no two samples, no two transitions at one time: a batch is later than all before). In a state with `TablesInv` the points of a query have different times, those of a tier a step apart (`PointsDated`; buckets are multiples); raw points may be closer. So no gap begins before the one before it (`FoundOrdered`), gaps overlap only behind a raw point without a value, and between them they leave no stretch (`FoundComplete`); merging keeps the times they cover and their reasons (`MergedOf`, `MergeCovers`); a log that has lost only transitions no longer in force gives the same states (`StateKept`) |
| `AuthProofs` | `OneAdministratorHolds`: `AccountInv` | with the state of the start: between bootstrap's two statements there is one user |
| | `SessionsEnd`: `SessionInv` | `VisitBounded`: what a request that found the session alive is about to write is bounded as long as the row is live; `RefusedDead` |
| | `FactorConsistent`: `FactorInv` | `FreshSeeds` (the seed an enrolment is about to commit belongs to nobody else and its codes are unused), `CodesExact`, `OneHalfway` (undisturbed, one handler is between the two writes, and says which of them is done) |
| `CoolifyProofs` | `AuditComplete`: `AuditTellsAll` | `AuditRowsTyped`: one row per setting and revision, of past revisions |
| | `ServiceIsRegister`: `IsRegister` | `Seen`: a handler that has the current revision has seen the settings it will change, so its write is one of the register's |
| | `SettingsHold`: `SettingsInv` | `OnboardingInd`: a handler about to complete has seen diagnostics that are in the row; `Counted` (every commit uses up a request) bounds the revision; a patch is validated with all it joins, and a URL is validated apart from the rest |
| | `IntegrationHolds`: `IntegrationInv` | `PairInd` (what a configuration that is alone has stored at each of its steps) and `DeploymentInd` (what is still to be recorded agrees with the server and with the record) |

Every invariant and every action property of the passing runs, and every refinement,
is stated by a theorem. Least and greatest elements of sets of numbers, which the
proofs of `Rollups` need, come from the well-foundedness of `<` (`Least`, `Greatest`)
instead of an induction.

Only model-checked: liveness (`EventuallyCompleted`, `PersistentFailureFires`,
`RecoveryResolves`, `JobsFinish`, `DueChecksRun`, `LateSamplesRepair`): fairness is
defined with `ENABLED`, which the prover does not reason about. The disagreements
(`RecoveryCommits` and the demonstrations of section 4) are counterexamples, which TLC
finds.

No module declares a `RECURSIVE` operator, so each can be proved about.

## 6. Plan

What would still add something:

1. An abstract board of incidents (open groups and their severity) that
   `Notifications` implements; `IncidentInv` is the invariant its proof needs.
2. Effective health as a pure operator checked against a reference; the bounded rate
   limiter with integer tokens; migrations with their marker and backup.

## 7. Not modelled

- Parsing of `/proc`, TOML and labels, container statistics, the Docker, Coolify,
  SMTP and HTTP exchanges, password hashing and encryption, log redaction, exports,
  the Prometheus text, demo mode, the web interface and packaging: I/O or pure
  formatting, without state whose order matters.
- Effective health (`alerts/health.go`): computed from rows on every read.
- The rate limiter (`auth/protection.go`): one critical section over floating-point
  counts; API tokens and preferences: single statements on rows of their own.
- Opening, backing up and migrating the database; the generic start and stop of
  components with a deadline (`app/app.go`): every module has its own restart.
- Diagnostics: bounded reads of `/proc` and of logs.
