# Site Behavior Lab: a specification of its durable scan jobs

Site Behavior Lab accepts the address of a web site, visits it in a headless
browser, and publishes a report. A visit takes minutes and runs in a container
that may be restarted at any moment, so an accepted scan is a *durable job*: a
row in the SQLite database of a Durable Object, executed under leases, retried
after crashes, and published at most once. This directory specifies that
machinery in TLA+, checks it with TLC on small instances, and proves part of it
with TLAPS for every size.

## 1. The system

| Part | Code | State it keeps | Operations |
| --- | --- | --- | --- |
| Durable scan-job store | `lib/durable-scan-job-store.ts`, `lib/durable-scan-job-retention.ts` | table `durable_scan_jobs` | preflight, admit, claim, heartbeat, begin-publishing, resolve, cancel, requeue-or-fail, reconcile, expire, settle/evict/purge |
| Coordinator | `cloudflare/container-worker.ts` (class `ScannerContainer`) | the store, schedule rows, reconciliation backoff, reservations, rate limits, watches | public submit/status/cancel, Node's three calls, the pump |
| Durable execution | `lib/scan-jobs.ts`, `lib/durable-scan-job-node.ts` | a map of job records, a queue, a count of workers and of pending activations, cancellation watermarks | activate, heartbeat, publish, resolve, abort, reconcile, prune |
| Report store | `lib/report-store.ts`, `lib/report-store-r2.ts`, `lib/report-store-retention-health.ts` | one report and one sidecar object per report id, created once; a ledger of deletions under way | commit, read back and repair, read, prune |
| Pump turn controller | `lib/durable-scan-job-pump-controller.ts` | the budget of one turn | phases, yield, persist a successor |
| Preparation reservations | `lib/durable-preparation-reservation.ts` | slots held by unfinished admissions | reserve, release, purge |
| Admission idempotency and rate limits | `lib/scan-admission-store.ts`, `lib/public-scan-rate-limit-store.ts` | capability to job id; event windows | find, commit, charge |
| Encrypted watches | `lib/encrypted-watch-store.ts` | scheduled rescans, their leases and history | admit, claim, resolve, recover, purge |
| Registry and recovery | `lib/durable-scan-job-registry.ts`, `lib/durable-scan-job-recovery.ts` | job id to report id | what a reader is told of a forgotten job |
| Sharding and restart control | `lib/durable-container-sharding.ts`, `lib/durable-restart-control-store.ts` | the route of a job, restart receipts | choose, record, begin, complete |
| Transparency log | `lib/publication-transparency-log.ts` | a digest chain | append, verify, compare histories |
| Browser client | `lib/scan-job-polling.ts`, `lib/active-scan-session.ts`, `lib/scan-client-orchestration.ts` | session storage | poll, restore |
| Scanner and report builders | `lib/scanner.ts`, `lib/bounded-page-collector.ts`, `lib/report-validation.ts`, ... | none across scans | drive Chromium, build documents |

**How they interact.** The client submits to the coordinator, which admits a
row. A persisted alarm runs the *pump*: it claims the oldest queued rows that fit
beside the active ones, and sends each claim to Node as an *activation*. Node
validates the lease with a first heartbeat, queues the job, scans, prepares the
report bundle, calls `begin-publishing` (the point of no return: a publishing row
can be neither cancelled nor retried), writes report and sidecar to R2, and calls
`resolve`. Every lease has a generation and a secret token; each new claim raises
the generation and so fences every older execution. When a lease expires the
pump requeues the row (at most `MAX_ATTEMPTS` executions) or, if it was
publishing, waits for a settlement window and asks Node to read the bundle back
from R2. A cancellation commits in the table first and is then delivered to Node
as a best-effort abort. At its purge horizon every row is deleted, after being
settled if it was unfinished.

**What is hard.** Three parties, each of which may stop between any two steps; a
call whose request is lost, whose reply is lost, or which is applied after its
caller gave up; an aborted PUT that lands later; an answer that was true when it
was computed; deadlines that must leave room for each other; capacity counted in
two places. `PROJECT.json` lists the hazards line by line, with the properties
that cover each of them.

## 2. The modules

    ScanJobPromise              what is promised about one accepted job
        ^  refinement (KeepsThePromise)
    DurableScanJobStore         the table, any caller, any order
        ^  EXTENDS                  ^  EXTENDS              ^  EXTENDS
    DurableExecution            PumpTurn                DurableScanJobStoreProofs (TLAPS)
    coordinator + Node + R2     the pump's turns            ^  EXTENDS
        ^                           ^                   DurableExecutionProofs,
    MCDurableScanJobStore, MCDurableExecution,          PumpTurnProofs (TLAPS)
    MCPumpTurn: instances for TLC

    PumpSchedule                the rows that wake the coordinator's pump
        ^  EXTENDS                  ^  EXTENDS
    MCPumpSchedule (TLC)        PumpScheduleProofs (TLAPS)

    RateLimit                   the decisions of every quota, as pure operators
        ^  EXTENDS                  ^  EXTENDS
    PublicScanQuota             Admission ------> AdmissionPromise  (refinement)
        ^                           ^  EXTENDS    what a capability is promised
    MCPublicScanQuota,          MCAdmission, AdmissionProofs (TLAPS)
    PublicScanQuotaProofs (TLAPS)

    EncryptedWatch              scheduled rescans and what becomes of their jobs
        ^  EXTENDS                  ^  EXTENDS
    MCEncryptedWatch            EncryptedWatchProofs (TLAPS)

    ReportStore                 the shares in R2 under several containers
        ^  EXTENDS                  ^  EXTENDS
    MCReportStore               ReportStoreProofs (TLAPS)

### DurableScanJobStore

Each exported mutation of `durable-scan-job-store.ts` is one action, because it
runs in one synchronous SQLite transaction; a mutation the code refuses by
throwing is an action that is not enabled. A job id is a number, so that
`ORDER BY created_at, job_id` is the order on pairs; a row is a record of the
columns that decide anything; absent values are 0; the token is the generation whose
secret is hashed in the row. The callers are left open: **any** generation and
**any** token may be presented at any moment, which contains every late,
duplicated or reordered call. `Maintained` is the retention pass of
`settleSynchronizeAndPurgeDurableScanJobs` (settle, delete past-purge rows, evict
tombstones above the row limit), `EvictedTo` the eviction alone.

| Definition | Code |
| --- | --- |
| `PreflightAdmission`, `AdmitDurableScanJob` | the two transactions of an admission |
| `ClaimDurableScanJobs` | `claimDurableScanJobs`: oldest first, within the capacity left by active rows |
| `HoldsLease` | `requireCurrentLease` |
| `HeartbeatDurableScanJob`, `BeginPublishingDurableScanJob`, `ResolveDurableScanJob` | Node's three calls |
| `CancelDurableScanJob`, `ExpireDurableScanJob`, `RequeueOrFailExpiredDurableScanJobLease`, `ReconcileExpiredPublishingDurableScanJob` | the transitions that need no lease |
| `SettleSynchronizeAndPurge`, `MaintenanceAdmissible` | the retention pass, and when its settlement would throw |

Not represented: the error string of a failure and the wording of
errors; the bytes of the envelope and the manifest (their presence is); SQL
indices and migrations; the copy of an outcome into the history of a watch, which
is part of `EncryptedWatch`.

### ScanJobPromise

The abstract specification: an accepted job is pending through a bounded number of
executions, may be *committed* to exactly one of them, succeeds only out of that
commitment, keeps its outcome, and is forgotten later. It has no time, no leases,
no table. `DurableScanJobStore!PromiseOf` is the refinement mapping (`publishing` is
the commitment, the manifest names the committed execution).

### DurableExecution

Composes the store with the coordinator's routes and pump, one Node process and R2.

* **Coordinator.** `Dispatch` claims, and hands activations over afterwards;
  `PumpRow` requeues or expires; `CancelDurableJob` cancels and sends an abort only
  if a lease was ever granted; `AskReconciliation`, `FinishReconciliation` and
  `AbandonReconciliation` are the two sides of the pump's await: the answer, its own
  timeout, a turn that is aborted. The answer is checked against the row again.
* **Node.** `exec[<<job, generation>>]` is one execution: `activating` (the first
  heartbeat is in flight, a slot possibly reserved), `queued`, `scan`, `begin`,
  `primary`, `sidecar`, `readback`, `resolve`, `ended`. `local` is the map of job
  records, `queue` the queue, `watermark` the cancellation watermarks. `aborted` is the
  execution's abort signal: the record is finished with, and the worker keeps its slot
  until its work observes the signal (`StopAborted`). `Kick` is
  `kickScanJobWorkers`, performed by every step that gives a slot back.
* **Calls.** A request stays in `wire` until the coordinator handles it or it is
  lost, even after its sender timed out, restarted or crashed. A reply arrives or is lost.
  One exception: a resolution has no modelled reply, because nothing depends on
  it.
* **R2.** `puts` are PUTs that may still land. Both are create-only. A PUT may land
  until `PUT_LAG` after the moment Node aborts it.
* **Time.** `Pass` advances the clock only while nothing bounded by a timer is overdue:
  Node's request and publication timers, the reconciliation timeout, and `PUT_LAG`.
  Everything else, the pump included, may take any time.

Abstractions: one Node process per job (a job's shard never changes);
integrity mismatches are an outcome of `Found` but no action corrupts an object; a scan's
progress is left to the store module; the payload is either sound or rejected
(`RejectPayload`); waiting for the report store's mutation lock is part of the publication's
bounded time; the watermark map's size limit is not reached; a sidecar written by a
reconciliation is stored at once, or the answer is retryable and none is written.

### PumpTurn

What one turn does with the rows, `runDurableScanJobPumpTurn`, and the turns after it. `turn` is
the turn under way (its phase, the items still to do, how many were tried, when its wall clock ends,
whether maintenance left a backlog), `call` the reply it awaits with the timers that bound it, `backoff` the table
`durable_scan_job_reconciliation_backoff`. It extends `DurableScanJobStore`, whose public and
Node's mutations happen whenever the turn awaits something (`Others`, `ReadPurges`).

| Definition | Code |
| --- | --- |
| `StartTurn`, `EndExpired`, `EndDeadline`, `RunOut` | the two maintenance phases, their listings and `processCorePhase`'s limits |
| `RecoverLease`, `ExpireRow`, `SkipPublication` | `processExpiredDurablePumpItem`, `processDeadlineDurablePumpItem` |
| `AskNode`, `Conclude`, `Retry`, `AbortItem` | `reconcileExpiredDurablePublication`, cut at its await, and `runBoundedOperation` |
| `Dispatch`, `Activated`, `DispatchFails` | `dispatchDurablePumpCore`, with the time reserved for it |
| `StartItem`, `EndItem`, `LeaveRest`, `EndTurn`, `Yield` | optional items, and how the turn ends |
| `WakeIsDue` | `scheduleNextDurablePump`: whether it asks for a turn at once |

Time passes only while the pump sleeps with nothing due or a reply is awaited: a due wake starts
a turn first. That is what `PumpSchedule` shows of the one-second successor; a tick here is
many seconds. Left out: the branch for a publication manifest that does not parse, staging fault
injection, and the admission of optional items, which stand for claims of watches.

### PumpSchedule

The coordinator's pump is called back by rows of `container_schedules`. A row is
one-shot: the Container base class deletes it after the callback, even if that threw.
`rows` are the pump's rows, `driver` the row of `durable_scan_job_pump_driver`, `prearm`
the in-memory `durablePumpPrearmTaskId`.

| Definition | Code |
| --- | --- |
| `StartCallback`, `FinishPrearm`, `FinishPrearmKick` | callback entry: the temporary successor, or the raw fallback |
| `TurnWork`, `EndTurn`, `Yield` | the turn, and how it ends |
| `PumpRearm`, `RearmFails`, `LastFallback` | `rearmDurablePumpAfterCallback` |
| `NothingToSchedule`, `Reuse`, `ScheduleEpoch`, `PublishScheduled` | the four outcomes of `scheduleNextDurablePump` |
| `PumpPark`, `ParkFails` | `parkDisabledDurablePumpWithRetry` |
| `Admit`, `FinishAdmission` | `ensureImmediateDurablePumpWake` and the commit of an admission |
| `MutateAndRearm`, `FinishMutation` | `rearmDurablePumpAfterCommittedMutation` and its callers |
| `AlarmScan`, `Consume`, `Restart` | the base class and the platform (external) |

* **Cuts.** A handler runs from one storage await to the next. Awaits end in the order they
  began, because storage confirms writes in order; a restart keeps every table as the
  handlers left it and forgets memory. No event is delivered to the object while a storage
  await is under way: the platform's input gate is closed then.
* **Alarms.** The base class scans all due rows when its alarm fires and sets the alarm for
  the nearest row afterwards. A failed alarm write therefore shows as an exception at the await
  and nothing else.
* **Jobs** are abstracted to what the wake depends on: whether one is queued, whether the
  capacity is full, the ticks until the earliest boundary (lease end, deadline,
  settlement, purge, reconciliation backoff, watch), and `accepted`, a ghost: a job was
  accepted into free capacity and nothing took it yet. A turn may change these in any way
  its work can, or not at all. `unarmed`, a ghost too, records that a public re-arm failed.
* **Time** is relative: a row holds the whole seconds until it is due, since the code truncates
  to seconds, and a boundary the ticks until it is due.
* **Trouble** is one budget for restarts and failed writes. One trouble may fail both the
  re-arm and its retry and the last fallback. At callback entry one of the
  two writes, successor or fallback, is assumed to succeed.

### RateLimit and PublicScanQuota

`RateLimit` holds the arithmetic of `public-scan-rate-limit-store.ts` and
`admission-attempt-limit.ts`: which windows a charge touches, what a window has used, whether it is
exceeded, the rows a charge writes, the wait a refusal names, and the rows a bounded sweep may
delete. `PublicScanQuota` puts it under a clock and under every caller.

| Definition | Code |
| --- | --- |
| `FixedDecision`, `Consumed` | the two halves of `evaluatePublicScanRateLimit` |
| `RollingDecision`, `AuthenticatedDecision` | the log of authenticated scans |
| `AttemptDecision`, `FreesAt` | `chargeAdmissionAttempt` |
| `Cleaned`, `CleanedLog` | the sweeps, of at most `CLEANUP_MAX_ROWS` rows |
| `ChargePublicScan`, `PeekPublicScan`, `ChargeRead`, ... | the operations, one transaction each |

A window's bucket is a tuple (namespace, client, length, index). A log is a sequence in the order of
its inserts, and the rows a query reads are the set of their places in it: `ORDER BY ... LIMIT n` is the
places with fewer than n before them (`FirstRows`), and a sum of costs counts units, one or two a row
(`Units`). `granted` is a history with a token for each unit of cost that was granted; the properties compare the
tables with it. Tokens are dropped a day after their tick, when no window and no log can count them.

### Admission

One attempt is one `POST /api/scan`: an edge isolate (`edge`), which goes through `find`, `reserve`,
`gate`, `prepare`, `commit`, `await`, possibly `readback` and a second `commit`, and `release`. A
call to the Durable Object is one transaction and one action, except the admission, whose
two transactions (`Preflight`, `CommitAdmission`) have an await between them: it is a member of
`calls`, and stays there when its caller times out, loses the connection or dies.

| Definition | Code |
| --- | --- |
| `Arrive`, `Abort` | `withDurableScanJobAdmissionDeadline` |
| `FindCommitted`, `ReadBack` | `findCommittedScanAdmission`, before the gate and after a lost commit |
| `Reserve`, `Release` | the preparation slot, fenced by its expiry |
| `Gate`, `GateFails` | `gateScanRequest` with its quota peek; Turnstile is external |
| `Prepare`, `RecordRefusal` | Node's answer to `/prepare` and the marker of a definitive refusal |
| `Preflight`, `CommitAdmission` | `admitDurablePreparation` |
| `Conclude`, `Finish` | `finalizeDurableScanJobAdmission` |

Three clocks: the Durable Object's is `now`; a deadline is stamped on an isolate's,
`EDGE_SKEW` off; a job's creation on Node's, `NODE_SKEW` off, and refused outside
`MAX_AGE` and `MAX_LEAD`. A purge inside `recordScanAdmission` runs on the *job's* clock
(`RememberedAt`), the others on `now`. An answer is settled once, at the abort if there is one,
and the attempt goes on cleaning up. `past` is a history variable: which job the attempt's
capability already had when it arrived, the expiry it held, how long a refusal is supposed to hold,
and when its job was committed and lapses.

Abstractions: whether the stores take a job is a free choice (`DurableScanJobStore` says when its
table does; the admissions' table has a limit of its own);
job and report ids are fresh; the Durable Object's clock does not step back; the synthetic monitor and
access tokens (rolling quota) charge elsewhere; the recovery read and its own charge
are `ChargeRead` of `PublicScanQuota`; the admission of a watch, the same two transactions without a
capability to replay, is one action of `EncryptedWatch`.

`AdmissionPromise` is the abstract specification: a capability is bound to one job for a
fixed time from the job's creation, a job is bound once and to the capability it was made for, and
an acceptance names the bound job and goes to a request with the same commitment. It
has neither slots, refusals, quota nor calls.

### EncryptedWatch

A watch lives for weeks and its jobs for an hour each, so the history of a watch is the only place
where their outcomes last. `watches` are the rows of `encrypted_watches`, each with its rows of
`encrypted_watch_runs` in order; `jobs` is what matters here of the job rows that belong to watches; `claims` is what a
turn holds in memory. `linked` is a history variable: the watch a job was admitted for.

| Definition | Code |
| --- | --- |
| `CreateWatch`, `ReadWatch`, `DeleteWatch` | `admitEncryptedWatchPreparation`'s commit, `findEncryptedWatchByCapability`, `deleteEncryptedWatch` |
| `ListItems` | `claimDueEncryptedWatches`: purge, recovery of expired leases, then due watches within the room and the day's budget |
| `AdmitRun`, `FailRun`, `AbandonTurn` | `admitEncryptedWatchClaim`, `failEncryptedWatchClaim`, a turn that is cut short |
| `Advanced`, `Recovered`, `Purged` | `advanceAfterRun`, `recoverExpiredEncryptedWatchLeases`, `purgeExpiredEncryptedWatches` |
| `EndJob` | the two routes that record an outcome at once, and go on if they cannot |
| `StartTurn`, `RetentionPass` | `settleSynchronizeAndPurgeDurableScanJobs`: settle, copy, delete, or nothing |

Abstractions: a lease token is the moment of its claim; an outcome and its error code are one value;
a job that the pump ends without a record ends when a turn starts; `STALL` bounds how long a claim
stays in memory, longer than the lease; quotas, shards and the other jobs' use of room are the free choice between
`AdmitRun` and `FailRun`. An admission at the limit of 500 rows evicts the oldest ended rows
*without* copying outcomes first (`admitEncryptedWatchClaim` calls the store's preflight, not the
retention pass): it would take several hundred ends between two turns for an
uncopied outcome to be among them, and an instance small enough for TLC would show nothing else, so eviction
is left out.

### ReportStore

A share is two objects in R2, the report and a sidecar that vouches for it: `primaries` and `sidecars`.
`work[c]` is the mutation that holds the lock of container `c` and the step it has come to; between
containers there is no lock. `publication` is what became of the publication of a report and who waits
for it, `puts` are the PUTs whose callers gave up, `debts` and `maintenance` the ledger that retention
keeps in R2.

| Definition | Code |
| --- | --- |
| `Prepare`, `TakeUp`, `PutPrimary`, `PutSidecar` | `prepareScanReportBundle`, `commitPreparedScanReportBundle`, after a pass that makes room |
| `CommitFails`, `Recover`, `ReadPrimary`, `ReadSidecar`, `Repair` | `commitPreparedBundleOrReconcile`, `reconcileDurableScanJobPublication`, `reconcilePreparedScanReportBundle` |
| `ReadExactStoredBundle` | `readExactStoredBundle` |
| `StartPass`, `ReadLedger`, `List`, `Warn`, `ReadLedgerAgain`, `Signal`, `AfterPass` | `pruneStoredReportsUnlocked`, cut at its calls of R2 |
| `Read`, `Kept`, `Removable`, `Overdue`, `Selections`, `Full` | what a listing reads, and what it calls for |
| `MarkDebt`, `RemoveSidecar`, `RemovePrimary`, `ClearDebt`, `EndDeletes` | `deleteWithRetentionDebt`, by workers side by side |
| `ReadExpired` | `readStoredScanReportById` of a share that has had its time |
| `PutFails`, `DeleteFails`, `Abort`, `Crash` | a call that fails, or fails and takes effect; a deadline; a container that stops |

Abstractions: a listing with its HEADs is one step; all deletions of a pass may be under way at once (the code
has four workers); the two GETs of a read-back are one step where neither object may be deleted in between;
a publication's clock is its preparation's; the bytes and what contradicts a manifest are left out, for every
writer of a share writes the bytes its manifest fixed. Every failed commit gets its read-back, whose wait for the lock does not
time out: this takes it that an operation of the storage ends (30 s by default) before the 60 s that a publication may last are over, for
`awaitOperationOrAbort` would refuse the read-back afterwards. `ReportStoreAssumption` is what
`requireDurableScanJobReadiness` demands of a deployment: a share survives the limit on the number of
shares for longer than anybody recovers its publication.

A definition commented *Faulty* is used by no action. It is the variant a plausible bug would
have: a check replaces the definition below it by this one, and the property named
in `PROJECT.json` "mutants" must then fail.

## 3. What TLC checks

| Run | Instance | Properties |
| --- | --- | --- |
| `store` | 3 jobs for 2 rows and 1 execution slot, 2 attempts, `createdAt` up to 1 ahead, clock 1..5, deadline 3, purge 4 | `CheckConstraints`, `PublicationReserve`, `MaintenanceNeverBlocked`, `LimitsHold`, `AttemptAccounting`, `ProgressMonotone`, `NoAcceptedWorkDropped`, `KeepsThePromise` |
| `execution` | 1 job, 2 executions, 2 slots, clock 1..10 | `PublishedOnlyByCommitted`, `SucceededIsReadable`, `MissingStaysMissing`, `OlderGivesWay`, `CancelledStaysDown` |
| `execution_liveness` | 1 job, 2 executions, 1 slot, clock 1..6 | `NoIdleSlot`, `EveryJobEnds`, `NoZombieVisit` |
| `pump_turn` | 2 jobs, 2 slots, wall clock of 2 ticks with 1 reserved, 2 core items, publications that hang for 2, 1 trouble, admissions at 2 ticks, clock 1..16 | `OverdueIsSettled`, `FreeSlotIsUsed`, `NoBusyWake` |
| `pump_schedule` | seconds of 2 ticks, boundaries up to 3 ticks, 1 trouble | `WakeSurvives` |
| `pump_liveness` | seconds of 2 ticks, boundaries up to 2 ticks, 1 trouble | `TurnRecurs`, `PumpFallsAsleep` |
| `quota` | 2 clients, costs 1 and 2, minutes of 4 ticks, a day of 2 minutes, attempts over 3 ticks, clock 0..8, sweeps of 1 row | `CountersMatchGrants`, `QuotaHolds`, `TablesStayBounded`, `RetryAfterSuffices` |
| `admission_replays` | 2 replays, Node's clock off by 1 and accepted, deadline of 1 tick, admissions of 3, clock 0..3 | `HolderKeepsSlot`, `OneJobPerCapability`, `CommittedReplayIsRecovered`, `RefusedIsNotPreparedAgain` |
| `admission_rivals` | 3 attempts of 2 capabilities behind one client, one of them contradicting another, room for one of everything, one moment | `KeepsThePromise`, `ChargedOncePerJob`, `RefusalMeansNoJob` |
| `watches` | 2 watches, 3 jobs, cadence 1, life 3, leases of 2, one claim a day of 3 ticks, clock 0..4 | `EveryAttemptIsOneRun`, `TruthOutlivesJob`, `NoBurst`, `NoIdleWake` |
| `report_store` | 2 containers, 2 shares, room for 1, 1 deletion a pass, life 3 of which 2 are spared, 2 troubles, clock 1..4 | `AnswersHold`, `HealthyMeansWhole`, `RetentionCompletes` |
| `admission_dropped` | 2 replays | violated: `DroppedOnlyWhenDefinitive` |

**Store.** `PublicationReserve`: however often a publication is renewed, its
settlement window and one whole reconciliation still fit before the deadline.
`MaintenanceNeverBlocked`: the retention pass never meets a row whose settlement throws; the code
runs that pass inside every read and admission, and one such row would roll all of it
back. `CheckConstraints`: the invariants SQLite enforces with CHECK clauses hold,
so no mutation is refused for a reason its caller does not expect, and no ciphertext
or token outlives its use. `AttemptAccounting`: attempts and generations agree,
and a job fails for restarts only after every one of its attempts. `ProgressMonotone`: what a reader
sees never walks backwards within one execution. `NoAcceptedWorkDropped`: pressure never deletes an
unfinished job.

**Execution.** `PublishedOnlyByCommitted`: a report is public, or may become so, only for
the execution the coordinator committed; it covers the late `begin-publishing`, the lost
reply, the cancelled job, and the worker that lost its lease. `MissingStaysMissing`:
once a job was declared unpublished, no PUT lands any more. This depends on the two inequalities
of `SettlementAssumption`: a settlement window of exactly the request timeout plus `PUT_LAG`
is already too short, and TLC then finds a PUT that lands after the verdict. `SucceededIsReadable`: success means both objects are there.
`OlderGivesWay`: an execution that is still at work beside a newer one of its job has been told to stop. The two may
visit at once for a moment: with a second slot the replacement starts as soon as it is installed, and the worker it
supersedes goes on until its work observes the signal (`scan-jobs.ts:542`, `StopAborted`); what is
excluded is an older one that nobody stopped. `NoZombieVisit` adds that this moment ends: a worker of a finished job, or of a
generation that was granted anew, stops visiting, and counts until it really has. `CancelledStaysDown`: a
cancellation delivered while an activation awaits its heartbeat is not lost.
`NoIdleSlot`: no slot is lost, in any interleaving of reservations, failures, replacements and
aborted workers.

**Turns.** `OverdueIsSettled`: a row past its deadline is settled within a few turns although every
reconciliation before it may hang for as long as it is let. Each turn it waits for has settled one row that was due no
later, of which there are at most `MAX_NONTERMINAL`; or its expired phase began with something else, a lease to recover
or a younger publication to ask about (a *detour*, which the history variable `detours` counts while any row is overdue);
or it was lost to a trouble. How many detours there can be depends on how often leases lapse meanwhile, which the code
does not bound; what the property excludes is a turn that passes and helps nobody. It depends on publications past their
deadline being left to the deadline phase and given up once their retry fails. `FreeSlotIsUsed`: a queued job beside a free slot is claimed
within the rest of this turn and the maintenance of the next, because maintenance may not touch the
time reserved for dispatch. `NoBusyWake`: a turn that changed nothing and waited for nothing leaves
nothing to a successor, so the pump cannot spin: the expired phase must not be offered rows it cannot settle. Each trouble (a restart, a failed dispatch, an
item aborted before its backoff is written) may cost one turn more.

**Schedule.** `WakeSurvives`: whatever is stored, a live row is due by its next boundary, or within a
second if that has passed: between any two awaits, after a restart, after a failed
write. It holds because the temporary successor is inserted before the invoking row goes and is
never itself chosen as the next wake. Its one exception is explicit: when a public re-arm
fails, after the mutation was answered, the old rows remain and the wake may be later than the
new boundary until the next callback. It says as much of a job that was accepted into free capacity:
it is called for within a second. `TurnRecurs` discharges the fairness that
`DurableExecution` assumes of the pump; `PumpFallsAsleep` is its counterpart, that the one-second
successors do not keep themselves alive.

**Quota.** `CountersMatchGrants`: a stored counter is exactly what was granted in its window, so no
refusal, peek, sweep or other namespace ever moves it. `QuotaHolds`: nobody, and no crowd, is granted more, for the rolling logs over the
interval that ends at any instant. `TablesStayBounded`: fresh identities cannot grow the tables
although a sweep is bounded. `RetryAfterSuffices`: the wait a refusal names is long
enough. Not claimed for the rolling log of authenticated scans: when both
ceilings are exceeded the code reports the global one's wait only.

**Admission.** `OneJobPerCapability`: however a capability is replayed, at once, after a lost answer,
or while an earlier commit is still under way, its jobs are committed no closer than an
admission is remembered (less `MAX_LEAD`, see below). `ChargedOncePerJob`: quota counts
committed jobs and nothing else. `HolderKeepsSlot`: only time takes a slot from its
holder. `RefusedIsNotPreparedAgain`: after a definitive refusal no replay buys another preparation
while the marker or the slot lasts, at whatever step the refused attempt stops.
`CommittedReplayIsRecovered`: who comes back after a commit is told the job, a conflict or "unavailable",
never a refusal that invites another scan. `RefusalMeansNoJob`: who is told no has no job at that
moment, and gets none later. It has one exception, found by TLC and stated in the
property: the edge's *retry* may be refused for quota while the first call is still in the Durable
Object, and the first call may find the next minute's window open.
`KeepsThePromise` (of `Admission`): an acceptance is for the very request that was committed, and names the job the
capability is bound to at that moment.

**Watches.** `EveryAttemptIsOneRun`: every lease becomes exactly one run, admitted or failed, although the lease
may expire, the watch be deleted or the turn end while Node prepares the job; and every job of a watch is named by one run of it,
of no other watch, and not of a watch created anew under the same capability. `TruthOutlivesJob`: no
outcome disappears with its row, and no history ever refuses one. A refusal would be fatal beyond watches, for it rolls back
the retention pass of *all* jobs on every read; it is what would happen if a job of a watch could be created
ahead of the coordinator's clock and cancelled before that moment, hence lead 0. `NoBurst`: after an
outage missed runs are not made up for. `NoIdleWake`: a turn that watches asked for finds something to do for them.
Its exception is stated in the property: while leases of abandoned turns fill the capacity,
`nextEncryptedWatchWakeAt` asks for a turn at once for a further watch that is due, and such turns recur,
each a second apart, until a lease expires (at most five minutes).

**Reports.** `AnswersHold`: a share that was found or published is whole until it has had its time, although other
containers list it meanwhile and count it out, and a PUT of an earlier attempt may still land; a refused one
was never written; one that ended with nothing known, which an in-process job reports as a failure, is not
public unless two things went wrong. `HealthyMeansWhole`: a share that lost one object is in the ledger,
whoever deletes it, however many delete it at once, and wherever they stop. `RetentionCompletes`: what expired
goes and stays away, and the store is healthy again and again, however deletions failed.

**A disagreement** between a comment and the code, the only property of its run:

* `admission_dropped`: the callback that forgets a capability is "called only after accepted
  recovery is durable or rejection is definitive" (`scan-client-orchestration.ts:218`). It is called on
  every 4xx, and a replay that arrives while the first request holds the slot is answered 429. The
  first request may commit afterwards: a job runs, quota is charged, and nobody holds the
  capability that leads to it.

Two comments are inexact with less consequence. For a job with no watch "the lead only stretches the deadline and
the purge horizon" (`durable-admission-clock.ts:26`): it also moves the purge of `recordScanAdmission`
(`scan-admission-store.ts:172`), which may delete *another* capability's admission up to `MAX_LEAD` early; this is
the slack that `OneJobPerCapability` allows.
And "expiries for one capability are strictly
increasing" (`durable-preparation-reservation.ts:159`): a successor of a *released* slot may hold an equal
expiry, within one millisecond or because its isolate's clock is behind. The fence is sound all the same,
because a slot is released once: `HolderKeepsSlot` holds where expiries coincide.

**Bounds and why they suffice.** Two attempts are the code's own `MAX_ATTEMPTS`, and two
generations are what every fencing question is about. Time is in units of the shortest
timer; the instances keep the order of the real durations (request < lease, request < settlement,
publication <= lease, reserve < deadline <= purge), and the clock runs past the
purge of a job admitted at the start, so each expiry is reached in every state.
`Horizon` bounds the clock. Two jobs are what claims and slots need to compete;
the store has a third, for which room must be made.
Both runs of the execution admit their job at the first moment (`AdmittedFirst`), `store` its first job
(`InOrder`) and `admission_replays` its first request (`StartsAtOnce`), since a later start is the same behaviour
on a shorter clock. The store's jobs are admitted in the order of their ids, and only the first has two visits to report.
For the schedule, a second of two ticks separates truncation to seconds from exact times, boundaries of
up to three ticks are on both sides of the one-second successor, and one trouble can hit any step.
`PARK` is longer than any boundary of these instances, so TLC does not see its cap bind; the proof of `WakeSurvives` covers every `PARK`. Seven row
ids suffice: a run with `FreeId` as its invariant passes. `MAX_REARMS` is whether a public re-arm
may await an insert. For the turns, two publications that hang exhaust a turn of two ticks twice over, and the
clock runs until both are past every bound that `OverdueIsSettled` names; ids are admitted
in their order and within two ticks (`InOrder`), since what is studied is how old rows compete, whose deadlines may
differ. Two detours happen as well.
A watch of three ticks has room for its first run and two more, which is also `MAX_RUNS`: it may end either
way. Three jobs allow a watch to be deleted and created anew while a claim of its former life is
held; `Early` looks at no behaviours with more than one job that belongs to no watch any more, and creates
watch 2 at the start.
Two containers are what deletions, publications and recoveries need to meet in, and two shares what the count needs.
The first report is prepared at the start; it is alone among up to two failures, or the second comes at once or
when the first is about to be spared no longer, among fewer (`Spread`). What this instance does not reach: a pass that
leaves an older debt undone and says so (it takes more debts than one pass deletes), a publication refused although its
pass deleted something, and late PUTs beyond the moment of their abort (`PUT_LAG` is 0: such a PUT lands before the next tick).
For the quotas a minute of two seconds and a day of two minutes make every window end, straddle
and overlap within the clock; limits of 1 to 3 are reached by two clients. A charge of 2 never fits the limit of 1 a minute
in this instance: TLC sees it refused, and the proofs cover a charge of 2 that is granted.
The tables of the three kinds of quota are independent, so a behaviour uses one of them (`OneTable`).
An admission has one deadline, one retry and one successor, so two attempts meet in every way, and a third is
needed to profit from an early release or to contradict. `admission_replays` outlives a slot and an admission;
`admission_rivals` has a third attempt and needs no time. Replays are symmetric, and the properties checked
under symmetry are safety properties. `admission_dropped` looks at clients that send
nothing more with a capability they were told to drop (`Dropping`).
Deadlock checking is off where the clock may stop with everything settled.

**Fairness** (`DurableExecution!Fairness`), and what justifies it:

* `Pass`: time goes on, once nothing is overdue.
* `Maintain`, `PumpTurn`: pump turns recur, which is `PumpSchedule!TurnRecurs`. A turn
  may still be cut short every time it awaits a reconciliation (no fairness prevents
  `AbandonReconciliation`), so `EveryJobEnds` rests on the synchronous hard purge and
  not on an answer from R2.
* `NodeTimers`: whatever Node awaits is bounded by a timer of its own, and an aborted
  worker observes its signal. Nothing forces a scan to end.
* `Beat`, and strong fairness of `RefuseBeat`: a worker keeps its heartbeat timer, and
  not every refused heartbeat of the same execution is lost. Activations,
  aborts and every other reply may be lost for ever.
* `PutSettles`: a PUT lands or not within its bound.

and of `PumpSchedule!Fairness`: time goes on, storage awaits end, the alarm handler and a turn
get on (`Pass`, `AwaitEnds`, `CallBack`, `Consume`), and an alarm or the end of a turn that is held
back by other handlers' awaits again and again is delivered in the end (strong fairness
of `AlarmScan` and `EndTurn`). Of `ReportStore!Fairness`: time goes on, R2 answers a container that is at work,
publishers that wait for the lock get it, and health probes start passes. `RetentionCompletes` has a premise besides, that moments recur at
which no container is at work: probes rest for 30 s after a healthy answer (`report-store-retention-health.ts:3`), and without such a
moment two passes that overlap for ever may take over each other's debts for ever. Nothing is assumed of clients or of what a turn achieves.

## 4. What TLAPS proves

`DurableScanJobStoreProofs`, for every set of jobs, every limit and every duration that satisfy
`JobsAssumption`, `TimingAssumption` and `LimitAssumption`:

| Theorem | Statement |
| --- | --- |
| `TypeCorrectness` | `StoreSpec => []TypeOK` (not listed in a run: `CheckConstraints` contains it) |
| `CheckConstraintsHold` | `StoreSpec => []CheckConstraints` |
| `PublicationReserveHolds` | `StoreSpec => []PublicationReserve` |
| `AttemptAccountingHolds` | `StoreSpec => []AttemptAccounting` |
| `RetentionNeverBlocked` | `StoreSpec => []MaintenanceNeverBlocked` |
| `AcceptedWorkKept` | `StoreSpec => NoAcceptedWorkDropped` |
| `PromiseKept` | `StoreSpec => KeepsThePromise` |
| `LimitsAlwaysHold` | `StoreSpec => []LimitsHold` |
| `ProgressNeverBackwards` | `StoreSpec => ProgressMonotone` |

**Argument.** The store's actions change a row only by a few *row
transformers* (`NewRow`, `ClaimedRow`, `RenewedRow`, `PublishingRow`, `RequeuedRow`,
`Terminalized`, `NoRow`), so the inductive invariant says that **every row is good**: it
has its type, its columns agree with its state (a token, lease, manifest, payload or finish
time exactly when the state has one), generation and attempts are equal, and a publishing
lease does not exceed its ceiling. `AttemptAccounting` alone is not inductive: a claim adds one to attempts
and generation and would leave the range of the type, unless claims are known to
respect `MAX_ATTEMPTS`; `PublicationReserve` needs the type of `lease` and `created`.
One lemma per transformer shows that it makes a good row out of a good one, one lemma
about `Maintained` and `EvictedTo` that they only keep rows or replace them by
`NoRow("gone")`, and the step theorem splits on the actions.
`MaintenanceNeverBlocked` follows from goodness and `DEADLINE <= PURGE`: a publishing row
past its purge is past its deadline, hence past its lease and its settlement fence.
`PromiseKept` maps each transformer to an action of `ScanJobPromise` or a stutter.

Limits count rows. Every mutation but two makes the table *fade* (`Fades`: no row becomes
active, unfinished or present that was not), and a table that fades keeps every limit, for its sets of rows
only shrink. An admission adds one row to a table that `Maintained` has left room in; a claim adds as
many active rows as the capacity has left, because *the first n in creation order* are at most n. That is
`FirstFew`: the members of a finite, strictly ordered set with fewer than n before them number at most n,
because the order has a last one among them; with its converse, `FirstExists`, it is how the models say
ORDER BY ... LIMIT. Progress needs, besides, that no row shows more visits than its job admitted
(`RunsBounded`): the MIN of the heartbeat would otherwise walk a count back.

`DurableExecutionProofs`, for every set of jobs, number of slots and attempts and choice of durations that satisfies
the store's assumptions, `NodeAssumption`, `SettlementAssumption` and `RenewalAssumption` (a call of Node's is given up,
after 10 s, before a lease that it renewed can lapse, after 180 s):

| Theorem | Statement |
| --- | --- |
| `OlderIsStopping` | `Spec => []OlderGivesWay` |
| `CancellationSticks` | `Spec => []CancelledStaysDown` |
| `SlotsNeverIdle` | `Spec => []NoIdleSlot` |
| `SystemKeepsThePromise` | `Spec => KeepsThePromise`, which the run `store` checks of the table alone |

**Argument.** None of the three invariants is inductive. `OlderGivesWay` rests on two facts. The first is that *what is queued or alive is
the execution that the job's record names* (`SlotInv`), which an installation keeps only if the execution it installs is newer than
whatever Node knows and was never seen before: an activation that was delivered cannot be handed out again, since a claim raises
the generation, and nothing Node holds is newer than its row (`IssuedInv`). The second (`OrderInv`) is that *while an activation waits whose
heartbeat was accepted, nothing newer of its job was handed out*, so an installation never puts an older execution beside a newer
one: the heartbeat renewed the lease, the call ends first (`RenewalAssumption`), and until then the row is neither
requeued nor claimed (`OnLease`). `CancelledStaysDown` needs that an installation
reads the watermark again (`CancelInv`). `NoIdleSlot` is stated with an equality: *if anything waits, every slot is taken*;
the queue holds no execution twice, so the first entries `Kick` takes are as many as the slots that came free, and no removal
from the queue can lose one. The proof says once, action by action, what a step may do to Node (`NodeMoves`) and to the
rows (`TableMoves`: each by a row transformer of the store, several at once where a retention pass shares the transaction), and
everything else follows from these two. `SystemKeepsThePromise` does not follow from `PromiseKept`: a step of the system may settle
a publication and evict its row in one transaction, which is no step of the table by itself.

And of what is published:

| Theorem | Statement |
| --- | --- |
| `OnlyCommittedIsPublished` | `Spec => []PublishedOnlyByCommitted` |
| `SuccessIsReadable` | `Spec => []SucceededIsReadable` |
| `DeclaredMissingStaysMissing` | `Spec => []MissingStaysMissing` |

**Argument.** `CommittedFirst`: whatever publishes, is in flight, stored, announced or reconciled belongs to the
execution its row is committed to, and a commitment is never taken back. It is inductive because an acceptance of
`begin-publishing` reaches only the call that waits for it, in the very step that commits. `Announced`: a success is
announced, by a call or by a reconciliation, only of a whole bundle, and `StoredMoves` says that objects are created and
never replaced. `MissingStaysMissing` is about time. `Bounded` puts the end of a publication, and the landing of its last PUT, at most
one call and `PUT_LAG` after the lease *of its row*, although the publication has a clock of its own that starts when the answer
arrives: begin-publishing grants a lease that is long enough, and every renewal only lengthens it. `Timed` says that
no timer is overdue. A reconciliation is asked for after the settlement window (`Asked`), which `SettlementAssumption` makes longer, so by then the
job is *forsaken* (`SettledIsQuiet`): nothing of it publishes or is in flight, and none will be, for no row becomes publishing again.

`PumpScheduleProofs`, for every length of a second, parking time and farthest boundary, and any number of row ids,
restarts and failed writes that satisfies `TicksAssumption`:

| Theorem | Statement |
| --- | --- |
| `WakesSurvive` | `Spec => []WakeSurvives` |
| `WakesAreReliedOn` | `Spec => []WakeInv`, the invariant it follows from (not a property of a run) |

**Argument.** That a live row is due in time is not inductive: at an await the row to come is not live yet, or the one
that is live is about to go. `WakeInv` says what each handler under way relies on while it waits (`Relied`): the row a
mutation or a re-arm inserted is due by the wake it was computed for; the row that is to be the successor is not the one
that called back; an admission is only answered over a row due within a second. Three facts about their order make that
last from one step of a handler to its next. At most one public handler waits for the storage, and the pump only
behind it (`Turns`), so between the steps of one handler only known others run. Once a turn has begun, the row that invoked
it is gone (`CurrentGone`), so discarding it again takes nothing away. And a row keeps its meaning while its id is in use
(`SameIds`, `FreshIds`): a new row can be taken for no older one, which is what reusing a temporary successor
depends on. Each write is then a lemma on what it leaves behind (`FallbackLeaves` and its neighbours), and a handler is a
composition of them.

`PumpTurnProofs`, for every set of jobs, budget of a turn, reserve, number of core items and of troubles, and choice of
the store's limits and durations that satisfies the store's assumptions and `BudgetAssumption`:

| Theorem | Statement |
| --- | --- |
| `SlotsAreUsed` | `Spec => []FreeSlotIsUsed` |
| `TurnsAreNotIdle` | `Spec => []NoBusyWake` |
| `OverdueRowsAreSettled` | `Spec => []OverdueIsSettled` |

**Argument.** `RowsInv` says that the rows are good, that a queued one has an attempt left, and that what a turn took down
about a row is still true of it, unless the row is gone (`Recalls`). `FreeSlotIsUsed` needs more than a bound on the wait: `ClockInv` measures it *by the
phase of the turn*. Between two turns it is at most a turn long; while maintenance lasts it is measured at the start of the turn,
and maintenance ends before the reserve, whatever it awaits (`InTime`: the timer of a reconciliation is the least of its limits, `TimerIsLeast`); a
dispatch begins it anew, for if any job can be claimed beside a free slot, the oldest that can is among those
claimed (`FirstExists`). A restart, a failed dispatch or an aborted item spends one trouble, which is worth one turn (`SlackAdds`).
`NoBusyWake` needs to know what a turn that has changed nothing has looked at: `StillInv` says that no time has passed,
so the budget is untouched and no limit cut a phase short; that each phase listed all there was; and that nothing was
listed, for every listed item changes its row or asks Node (`ItemsChange`). What makes a wake due is then none of the things listed.

`OverdueIsSettled` is a matter of *credit*. The rows ahead of an overdue one, itself among them, only get fewer: an admission is due later,
and nothing changes an overdue row but what finishes it (`RowsAge`, `AheadShrinks`). `Credit` is one budget for each row that was
ahead and no longer is, each detour and each trouble, and `BoundInv` bounds by it the moment between two turns, or the end of the turn under
way, which has one budget more until it has paid (`Unpaid`). A turn pays with its first item (`UnpaidStep`). Until then it is `Fresh`:
no time has passed and its listings are of the moment (`FreshInv`), so it has time for an item (`FreshHasTime`). If the item
belongs to the expired phase, it changes a row or has Node asked, which is a detour. Otherwise it is the row with the least deadline,
hence ahead (`FirstIsAhead`); it is expired on the spot, or is a publication, which is settled by whatever comes
of the question (`AnswersSettle`), because an overdue row is still as it was listed (`AskedInv`). That `First` exists for any set of
rows is where the order of the listing matters: it is total. `TurnsOverdue` is the start: only the clock makes a row overdue,
at its very deadline, and then the turn under way has at most one budget left. `CountInv` keeps the credit from being negative then.

`EncryptedWatchProofs`, for every set of watches, cadence, lifetime, budget and capacity that satisfies
`WatchAssumption`:

| Theorem | Statement |
| --- | --- |
| `AttemptsRecordedOnce` | `Spec => []EveryAttemptIsOneRun` |
| `NoBurstEver` | `Spec => []NoBurst` |
| `OutcomesOutliveJobs` | `Spec => []TruthOutlivesJob` |
| `WakesAreUsed` | `Spec => NoIdleWake` |

**Argument.** `WInv` says that every row is good by itself: it counts its runs, its generation is that of its
attempts, and its runs are a cadence apart. Each row transformer (`Purged`, `Advanced`, `Recovered`, the told row)
keeps that, and *moves* the history by at most one run. `LinkInv` adds who names whom: a job that was admitted for a
watch is named by exactly one run of it and by no other, which is preserved because a step moves one row by the one job it
admits. `NoBurst` needs the number of leases too (`LeaseBound`): no two due
watches have the same place in the order of claims, so the first n places are taken by at most n (`FirstPlaces`). `TruthInv` relates a
run to its job: it knows nothing or the truth while the row is there, and the truth once it is gone, since
the retention pass copies before it deletes; that no history ever refuses an outcome follows from
`created <= finished`, which is where the clock matters. `WakesAreUsed` is about one step: what makes `WakeIsDue` true makes some
row change, for the first place is taken.

`ReportStoreProofs`, for every set of reports and containers and every choice of limits and durations that
satisfies `ReportStoreAssumption`:

| Theorem | Statement |
| --- | --- |
| `LedgerTellsWhatIsHalf` | `Spec => []HealthyMeansWhole` |
| `FoundStaysWhole` | `Spec => []FoundIsWhole`, the first conjunct of `AnswersHold` |
| `PublicationsAreToldTheTruth` | `Spec => []AnswersHold` |

**Argument.** It is about time, for there is no lock between containers. A share is *fresh* while somebody may still
publish or recover it, and *ripe* once a limit may take it; the durations of the assumption keep a PUT that was
given up, and lands late, before ripeness. So the objects of a ripe share only go. The inductive invariant `Inv` says
that every deletion, in whatever container and at whatever step, is of a ripe share, and that it either has its debt in the
ledger or its share is gone (`Doing`): a container that finds its debt cleared by another one has lost it
to a deletion that was complete. That is why the ledger is re-read and why the debt is written before
the first object goes. `FoundIsWhole` is the same invariant read for a share that is not ripe.

For the other answers `AnswerInv` relates what a call knows at each of its steps (`WorkAnswers`) to the objects and to how much
has gone wrong. While a container commits a share nobody else publishes it (`CommitsAlone`), so what a commit wrote is still there
when it looks; only trouble leaves a PUT behind that lands later; a repair starts from a report without a sidecar, hence from a commit
that failed, so a repair that fails as well is a second trouble. That is where `AnswersHold` draws its line: after one
trouble an unknown publication has no sidecar and none on its way, after two it may yet appear.

`AdmissionProofs`, for every set of attempts, capabilities and clients and every choice of clocks and limits that
satisfies `AdmissionAssumption`:

| Theorem | Statement |
| --- | --- |
| `JobsAreApart` | `Spec => []OneJobPerCapability` |
| `SlotsAreKept` | `Spec => []HolderKeepsSlot` |
| `AdmissionKeepsThePromise` | `Spec => KeepsThePromise` |
| `RefusalsBind` | `Spec => RefusedIsNotPreparedAgain` |
| `ReplaysRecover` | `Spec => []CommittedReplayIsRecovered` |
| `NoesAreFinal` | `Spec => RefusalMeansNoJob` |
| `OnlyJobsAreCharged` | `Spec => []ChargedOncePerJob` |

**Argument.** `Inv` says what a committed attempt has left in the tables: until its admission lapses on a clock that leads by
`MAX_LEAD`, the row of its capability is its own (`Bound`). The lead is needed because `recordScanAdmission` purges on the
clock of the *new* job, of whichever capability. A second commit of the capability finds the row, or comes after
it (`Apart`), whatever the edge looked up earlier. `HolderKeepsSlot` is not inductive: a release deletes
the row of its own expiry, and it must be known that no other holder of the capability has that row, which is that *two
holders of one capability never hold at once*; a reservation shows it, for it finds the slot of the other. For the
refinement the unexpired rows are the bindings: every lookup is a `Serve` that forgets some that have lapsed, the commit a
`Bind`, and an answer is told at the step that looked it up.

The last three rest on `Inv`. *A refusal* holds from the moment Node gives it, before anything records it: until
then the slot of the refused attempt stands in for the record (`RefusalInv`), and that slot cannot be released by
another attempt, nor be taken while it lasts. *A replay* whose job was committed before it arrived never gets past its
first lookup (`Replayed`). This needs that the row of that job can only name that job, hence that an attempt commits once,
though its first call may still travel when it retries: the admission of its own job outlives everything the attempt may
still ask (`Spent`). That is what the assumption on `TTL` is for: the edge's deadline, the distance of the clocks and
`MAX_LEAD` fit into the life of an admission (75 minutes against half a minute and a second in the code). *A no* is
told on one of three grounds (`NoGood`): no call was ever sent, or the only one has ended; or quota ran out on the retry, the
exception the property names; or the capability is another request's, and then that request's job, having been
committed after this attempt looked, outlives all its calls (`Dated`), so that whichever of them is still on its way finds it too.

*Charges* (`ChargeInv`): every counter is of a window that has begun, and expires with it. So a cleanup touches no counter
in use, a window that begins has no counter, and the jobs that it counts are none yet. A commit adds one to each window of its client
and, since an attempt commits once, one job to what they count.

`PublicScanQuotaProofs`, for every set of clients and of read namespaces and every choice of limits, windows and
sweeps that satisfies `QuotaAssumption` and `PublicScanQuotaAssumption`:

| Theorem | Statement |
| --- | --- |
| `CountersAreGrants` | `Spec => []CountersMatchGrants` |
| `QuotasHold` | `Spec => []QuotaHolds` |
| `TablesAreBounded` | `Spec => []TablesStayBounded` |
| `WaitsSuffice` | `Spec => []RetryAfterSuffices` |
| `QuotasAreCounted` | `Spec => []QuotaInv`, the invariant they follow from (not a property of a run) |

**Argument.** It is about counting, in three tables at once. Tokens are numbered within their client and tick, so a
grant adds exactly as many as it costs (`GrantAdds`). *Counters* (`BucketInv`): every counter is of a window that has begun
and expires with it, is not naught, and is what was granted in its window, within its limit. A sweep therefore deletes nothing
in use (`CleanedCounters`); a charge adds one cost to each window of its client and the same number of tokens to
what each of them counts, since a day's window begins with one of its minutes (`MinuteOfWindow`: this is where
`DAY % MINUTE = 0` is needed); and when a window begins there is neither a counter nor a token of it
(`CountersAge`). *Logs* (`LogInv`): a log is ordered by time and its rows cost, for any set of clients and since any instant of the window,
what those were granted. `QuotaHolds` alone is not inductive: it speaks of the window that ends now, and the next tick's
window is another. A bounded sweep drops a first part of the log, and only rows that no decision counts, so a decision reads
exactly what was granted, and its LIMIT of one row more than the ceiling leaves nothing out (`LogIsRead`).
*Rows*: a client row in use was granted something, so rows are fewer than tokens (`ClientRows`); a log either shrinks before it
grows, or has only rows that count. *Waits*: after the wait every window that was exceeded has closed, no other has filled,
and in the log of attempts all but too few of the events have left (`RoomAfterWait`).

**Checked only by TLC.** Liveness under fairness (`RetentionCompletes` and the like), which is out of
the prover's reach. Every safety invariant and action property of the passing runs is a theorem.

## 5. Not modelled, and why

* The *in-process queue* of `scan-jobs.ts`, for a Node host without the coordinator: it keeps nothing across a
  restart. The publication that it shares with durable executions is in `ReportStore`.
* *Registry and recovery*, *sharding*: one insert each, and a lookup. *Restart control*: a ceremony of release
  workflows, once per run of a workflow. *Transparency log*: a digest chain written by one script at a time.
* *The browser's polling and sessions* decide what is shown, and change nothing on the server; when the client
  forgets a capability is in `Admission`.
* *The filesystem backend* of the report store: one process owns it, and its lock is the whole of its concurrency.
* *The scanner* and the *report builders*: the former's behaviour is a browser's, the latter are pure functions on documents.
* Cryptography, HTTP parsing, logging, release tooling, the static corpus and the research scripts.

## 6. Plan

*Done:* the modules of section 2, in the order store, execution, schedule, quota, admission, turns, watches, reports, with
the proofs of section 4.

*Left:* the in-process queue with its retention; the recovery of jobs whose container forgot them; a bound on the detours
of a turn from how often a lease can lapse.
