------------------------- MODULE DurableScanJobStore -------------------------
(***************************************************************************)
(* The durable scan-job table of src/lib/durable-scan-job-store.ts.         *)
(*                                                                         *)
(* Every exported mutation of that file runs inside one synchronous        *)
(* SQLite transaction of the coordinator's Durable Object, so each is one  *)
(* atomic action here.  A mutation the code refuses by throwing rolls its  *)
(* transaction back: it is an action that is not enabled.                  *)
(*                                                                         *)
(* The callers are left open: any caller may present any generation and    *)
(* any lease token at any moment.  DurableExecution restricts them to the  *)
(* pump, the public routes and the Node workers that really call.          *)
(*                                                                         *)
(* A definition commented "Faulty" is used by no action: it is the variant *)
(* a plausible bug would have, and shows that some property would fail.    *)
(***************************************************************************)
EXTENDS Integers, FiniteSets

CONSTANTS
    Jobs,                   \* job ids; the number is the id's lexicographic rank
    TotalRuns,              \* total_runs of each job, 1 or 2
    DEADLINE,               \* createdAt to the execution deadline
    PURGE,                  \* createdAt to the row's hard purge
    LEASE,                  \* lease length granted by a claim or a renewal
    PUBLICATION_TIMEOUT,    \* bound on Node's store work
    SETTLEMENT,             \* quiet time after a publishing lease ends
    RECONCILIATION_TIMEOUT, \* bound on one reconciliation
    MAX_ATTEMPTS,           \* execution attempts of one job
    MAX_NONTERMINAL,        \* queued, leased and publishing rows admitted
    MAX_ROWS,               \* rows kept, tombstones included
    EXECUTION_CAPACITY,     \* leased and publishing rows at once
    MAX_AGE,                \* how far behind now an admission may be dated
    MAX_LEAD,               \* how far ahead of now an admission may be dated
    Horizon                 \* bound on the clock of a checked instance

ASSUME JobsAssumption ==
    /\ Jobs \subseteq Nat
    /\ IsFiniteSet(Jobs)
    /\ TotalRuns \in [Jobs -> {1, 2}]

\* The store refuses to publish unless PUBLICATION_TIMEOUT, SETTLEMENT and
\* RECONCILIATION_TIMEOUT fit before the deadline, and purges after it.
ASSUME TimingAssumption ==
    /\ {LEASE, PUBLICATION_TIMEOUT, SETTLEMENT, RECONCILIATION_TIMEOUT} \subseteq Nat \ {0}
    /\ DEADLINE \in Nat \ {0}
    /\ PURGE \in Nat
    /\ DEADLINE <= PURGE
    /\ {MAX_AGE, MAX_LEAD, Horizon} \subseteq Nat

ASSUME LimitAssumption ==
    {MAX_ATTEMPTS, MAX_NONTERMINAL, MAX_ROWS, EXECUTION_CAPACITY} \subseteq Nat \ {0}

VARIABLES
    now,    \* Date.now() of the Durable Object
    jobs    \* durable_scan_jobs, a row for every job id

storeVars == <<now, jobs>>

-----------------------------------------------------------------------------
(* Rows.  A timestamp or a token that is NULL in SQLite is 0 here: the     *)
(* clock starts at 1 and generations start at 1.                           *)

NonterminalStates == {"queued", "leased", "publishing"}
TerminalStates == {"succeeded", "failed", "expired", "cancelled"}
AbsentStates == {"unborn", "gone"}   \* never admitted; deleted

Reasons == {"none", "deadline", "restart-limit", "publication-integrity",
            "publication-missing", "execution-failed", "payload-invalid", "cancelled"}

Row == [state      : NonterminalStates \cup TerminalStates \cup AbsentStates,
        created    : Int,
        attempts   : 0..MAX_ATTEMPTS,
        generation : Nat,
        runs       : 0..2,
        token      : Nat,        \* the generation whose secret is hashed here
        lease      : Int,
        payload    : BOOLEAN,    \* the encrypted target is present
        manifest   : Nat,        \* the generation that froze it
        reason     : Reasons,
        finished   : Int]

NoRow(state) ==
    [state |-> state, created |-> 0, attempts |-> 0, generation |-> 0, runs |-> 0,
     token |-> 0, lease |-> 0, payload |-> FALSE, manifest |-> 0,
     reason |-> "none", finished |-> 0]

NewRow(created) ==
    [state |-> "queued", created |-> created, attempts |-> 0, generation |-> 0, runs |-> 0,
     token |-> 0, lease |-> 0, payload |-> TRUE, manifest |-> 0,
     reason |-> "none", finished |-> 0]

Present(row) == row.state \notin AbsentStates
Nonterminal(row) == row.state \in NonterminalStates
Terminal(row) == row.state \in TerminalStates
Active(row) == row.state \in {"leased", "publishing"}

DeadlineAt(row) == row.created + DEADLINE
\* Faulty: a row that is being executed is kept as long as its lease.
PurgeWithLease(row) == IF row.lease # 0 THEN row.lease ELSE row.created + PURGE
PurgeAt(row) == row.created + PURGE

\* The last moment a publishing lease may reach: the settlement window and
\* one bounded reconciliation still fit before the deadline.
PublishingCeiling(row) == DeadlineAt(row) - SETTLEMENT - RECONCILIATION_TIMEOUT

\* Faulty: the settlement window is missing.
SettlementAtLeaseEnd(row) == row.lease

SettlementAt(row) ==
    IF row.lease + SETTLEMENT <= DeadlineAt(row) THEN row.lease + SETTLEMENT
                                                  ELSE DeadlineAt(row)

Earlier(s, t) == IF s <= t THEN s ELSE t

\* terminalize: the ciphertext, the token, the lease and the manifest are
\* wiped in the statement that records the outcome.
Terminalized(row, state, reason) ==
    [state |-> state, created |-> row.created, attempts |-> row.attempts,
     generation |-> row.generation, runs |-> row.runs, token |-> 0, lease |-> 0,
     payload |-> FALSE, manifest |-> 0, reason |-> reason, finished |-> now]

-----------------------------------------------------------------------------
(* Ordering and eviction.                                                  *)

CreatedBefore(tab, j, k) ==
    \/ tab[j].created < tab[k].created
    \/ tab[j].created = tab[k].created /\ j < k

FinishedBefore(tab, j, k) ==
    \/ tab[j].finished < tab[k].finished
    \/ tab[j].finished = tab[k].finished /\ CreatedBefore(tab, j, k)

Rows(tab) == {j \in Jobs : Present(tab[j])}
\* Faulty: eviction that does not look at the state.
AnyRow(tab) == {j \in Jobs : Present(tab[j])}
Tombstones(tab) == {j \in Jobs : Terminal(tab[j])}
Unfinished(tab) == {j \in Jobs : Nonterminal(tab[j])}
ActiveJobs(tab) == {j \in Jobs : Active(tab[j])}

\* The oldest tombstones, as many as the table holds rows above the target.
Evictable(tab, target) ==
    {j \in Tombstones(tab) :
        Cardinality({k \in Tombstones(tab) : FinishedBefore(tab, k, j)})
            < Cardinality(Rows(tab)) - target}

Without(tab, gone) ==
    [j \in Jobs |-> IF j \in gone THEN NoRow("gone") ELSE tab[j]]

EvictedTo(tab, target) == Without(tab, Evictable(tab, target))

\* Faulty: only finished jobs are purged.
FinishedPastPurge(tab) == {j \in Tombstones(tab) : PurgeAt(tab[j]) <= now}

PastPurge(tab) == {j \in Rows(tab) : PurgeAt(tab[j]) <= now}

\* settleSynchronizeAndPurgeDurableScanJobs: an unfinished row past its purge
\* is expired and its tombstone removed in the same transaction.
Maintained(tab) == EvictedTo(Without(tab, PastPurge(tab)), MAX_ROWS)

\* The settlement of a publishing row throws, and rolls the whole pass back,
\* unless the row's lease and settlement fence are behind it.
MaintenanceAdmissible ==
    \A j \in PastPurge(jobs) :
        jobs[j].state = "publishing" =>
            jobs[j].lease <= now /\ SettlementAt(jobs[j]) <= now

-----------------------------------------------------------------------------
(* Admission.                                                              *)

AdmissionFits(tab) ==
    /\ Cardinality(Rows(EvictedTo(tab, MAX_ROWS - 1))) < MAX_ROWS
    /\ Cardinality(Unfinished(tab)) < MAX_NONTERMINAL

\* The preflight transaction of admitDurablePreparation: maintenance, then the
\* eviction that makes room, kept even when the admission is refused later.
PreflightAdmission(j) ==
    /\ jobs[j].state = "unborn"
    /\ MaintenanceAdmissible
    /\ AdmissionFits(Maintained(jobs))
    /\ jobs' = EvictedTo(Maintained(jobs), MAX_ROWS - 1)
    /\ UNCHANGED now

\* The commit transaction: createdAt was minted by Node, within the skew bound.
AdmitDurableScanJob(j, created) ==
    /\ jobs[j].state = "unborn"
    /\ AdmissionFits(jobs)
    /\ created \in (now - MAX_AGE)..(now + MAX_LEAD)
    /\ jobs' = [EvictedTo(jobs, MAX_ROWS - 1) EXCEPT ![j] = NewRow(created)]
    /\ UNCHANGED now

-----------------------------------------------------------------------------
(* The lease holder's mutations.                                           *)

Claimable(tab) ==
    {j \in Jobs : /\ tab[j].state = "queued"
                  /\ DeadlineAt(tab[j]) > now
                  /\ tab[j].attempts < MAX_ATTEMPTS}

\* Faulty: running executions are not counted.
ClaimedIgnoringActive ==
    {j \in Claimable(jobs) :
        Cardinality({k \in Claimable(jobs) : CreatedBefore(jobs, k, j)}) < EXECUTION_CAPACITY}

\* The oldest claimable rows that fit beside the active ones.
Claimed ==
    {j \in Claimable(jobs) :
        Cardinality({k \in Claimable(jobs) : CreatedBefore(jobs, k, j)})
            < EXECUTION_CAPACITY - Cardinality(ActiveJobs(jobs))}

ClaimedRow(row) ==
    [state |-> "leased", created |-> row.created, attempts |-> row.attempts + 1,
     generation |-> row.generation + 1, runs |-> 0, token |-> row.generation + 1,
     lease |-> Earlier(now + LEASE, DeadlineAt(row)), payload |-> row.payload,
     manifest |-> 0, reason |-> row.reason, finished |-> row.finished]

ClaimDurableScanJobs ==
    /\ Claimed # {}
    /\ jobs' = [j \in Jobs |-> IF j \in Claimed THEN ClaimedRow(jobs[j]) ELSE jobs[j]]
    /\ UNCHANGED now

\* requireCurrentLease
HoldsLease(j, generation, token, states) ==
    /\ jobs[j].state \in states
    /\ jobs[j].generation = generation
    /\ jobs[j].token = token
    /\ jobs[j].lease > now
    /\ DeadlineAt(jobs[j]) > now

\* Faulty: a publication may be renewed up to the deadline.
CeilingAtDeadline(row) == DeadlineAt(row)

HeartbeatCeiling(row) ==
    IF row.state = "publishing" THEN PublishingCeiling(row) ELSE DeadlineAt(row)

\* Faulty: the MAX with completed_runs is missing.
LastReportedRuns(j, reported) == Earlier(TotalRuns[j], reported)

AdvancedRuns(j, reported) ==
    Earlier(TotalRuns[j], IF reported > jobs[j].runs THEN reported ELSE jobs[j].runs)

RenewedRow(row, runs) ==
    [state |-> row.state, created |-> row.created, attempts |-> row.attempts,
     generation |-> row.generation, runs |-> runs, token |-> row.token,
     lease |-> Earlier(now + LEASE, HeartbeatCeiling(row)), payload |-> row.payload,
     manifest |-> row.manifest, reason |-> row.reason, finished |-> row.finished]

HeartbeatAccepted(j, generation, token) ==
    /\ HoldsLease(j, generation, token, {"leased", "publishing"})
    /\ HeartbeatCeiling(jobs[j]) > now

HeartbeatDurableScanJob(j, generation, token, reported) ==
    /\ HeartbeatAccepted(j, generation, token)
    /\ jobs' = [jobs EXCEPT ![j] = RenewedRow(jobs[j], AdvancedRuns(j, reported))]
    /\ UNCHANGED now

PublishingRow(row) ==
    [state |-> "publishing", created |-> row.created, attempts |-> row.attempts,
     generation |-> row.generation, runs |-> row.runs, token |-> row.token,
     lease |-> Earlier(now + LEASE, PublishingCeiling(row)), payload |-> row.payload,
     manifest |-> row.generation, reason |-> row.reason, finished |-> row.finished]

BeginPublishingAccepted(j, generation, token) ==
    /\ HoldsLease(j, generation, token, {"leased"})
    /\ DeadlineAt(jobs[j])
         >= now + PUBLICATION_TIMEOUT + SETTLEMENT + RECONCILIATION_TIMEOUT

BeginPublishingDurableScanJob(j, generation, token) ==
    /\ BeginPublishingAccepted(j, generation, token)
    /\ jobs' = [jobs EXCEPT ![j] = PublishingRow(jobs[j])]
    /\ UNCHANGED now

\* The state a resolution must find, the outcome it records, and its reason.
\* A worker that already published can only resolve its job as succeeded.
Resolutions ==
    {[from |-> "publishing", outcome |-> "succeeded", reason |-> "none"],
     [from |-> "leased",     outcome |-> "failed",    reason |-> "execution-failed"],
     [from |-> "leased",     outcome |-> "failed",    reason |-> "payload-invalid"],
     [from |-> "leased",     outcome |-> "cancelled", reason |-> "cancelled"]}

ResolveDurableScanJob(j, generation, token, r) ==
    /\ HoldsLease(j, generation, token, {r.from})
    /\ jobs' = [jobs EXCEPT ![j] = Terminalized(jobs[j], r.outcome, r.reason)]
    /\ UNCHANGED now

-----------------------------------------------------------------------------
(* The mutations that need no lease: cancellation, expiry, recovery.       *)

\* Faulty: the publishing conflict is missing.
CancelEvenPublishing(j) ==
    /\ Nonterminal(jobs[j])
    /\ jobs' = [jobs EXCEPT ![j] = Terminalized(jobs[j], "cancelled", "cancelled")]
    /\ UNCHANGED now

CancelDurableScanJob(j) ==
    /\ jobs[j].state \in {"queued", "leased"}
    /\ jobs' = [jobs EXCEPT ![j] = Terminalized(jobs[j], "cancelled", "cancelled")]
    /\ UNCHANGED now

\* Faulty: the token hash survives the requeue.
RequeuedWithToken(row) ==
    [row EXCEPT !.state = "queued", !.lease = 0, !.manifest = 0, !.runs = 0]

RequeuedRow(row) ==
    [state |-> "queued", created |-> row.created, attempts |-> row.attempts,
     generation |-> row.generation, runs |-> 0, token |-> 0, lease |-> 0,
     payload |-> row.payload, manifest |-> 0, reason |-> row.reason,
     finished |-> row.finished]

\* Faulty: the attempt limit is off by one.
RecoveredRowOneShort(row) ==
    IF DeadlineAt(row) <= now THEN Terminalized(row, "expired", "deadline")
    ELSE IF row.attempts + 1 >= MAX_ATTEMPTS THEN Terminalized(row, "failed", "restart-limit")
    ELSE RequeuedRow(row)

RecoveredRow(row) ==
    IF DeadlineAt(row) <= now THEN Terminalized(row, "expired", "deadline")
    ELSE IF row.attempts >= MAX_ATTEMPTS THEN Terminalized(row, "failed", "restart-limit")
    ELSE RequeuedRow(row)

RequeueOrFailExpiredDurableScanJobLease(j, generation) ==
    /\ jobs[j].state = "leased"
    /\ jobs[j].generation = generation
    /\ jobs[j].lease <= now
    /\ jobs' = [jobs EXCEPT ![j] = RecoveredRow(jobs[j])]
    /\ UNCHANGED now

\* What a reconciliation found, and the outcome it records.
Reconciliations ==
    {[result |-> "succeeded",        outcome |-> "succeeded", reason |-> "none"],
     [result |-> "missing",          outcome |-> "failed",    reason |-> "publication-missing"],
     [result |-> "integrity-failed", outcome |-> "failed",    reason |-> "publication-integrity"],
     [result |-> "expired",          outcome |-> "expired",   reason |-> "deadline"]}

ReconciliationAccepted(j, generation, r) ==
    /\ jobs[j].state = "publishing"
    /\ jobs[j].generation = generation
    /\ jobs[j].lease <= now
    /\ SettlementAt(jobs[j]) <= now
    /\ r.result = "expired" => DeadlineAt(jobs[j]) <= now

ReconcileExpiredPublishingDurableScanJob(j, generation, r) ==
    /\ ReconciliationAccepted(j, generation, r)
    /\ jobs' = [jobs EXCEPT ![j] = Terminalized(jobs[j], r.outcome, r.reason)]
    /\ UNCHANGED now

ExpireDurableScanJob(j) ==
    /\ jobs[j].state \in {"queued", "leased"}
    /\ DeadlineAt(jobs[j]) <= now
    /\ jobs' = [jobs EXCEPT ![j] = Terminalized(jobs[j], "expired", "deadline")]
    /\ UNCHANGED now

\* Every read and every pump turn runs this pass first.
SettleSynchronizeAndPurge ==
    /\ MaintenanceAdmissible
    /\ jobs' = Maintained(jobs)
    /\ UNCHANGED now

Tick ==
    /\ now < Horizon
    /\ now' = now + 1
    /\ UNCHANGED jobs

-----------------------------------------------------------------------------
StoreInit ==
    /\ now = 1
    /\ jobs = [j \in Jobs |-> NoRow("unborn")]

Generations == 1..MAX_ATTEMPTS

LeaseHolderNext(j, generation, token) ==
    \/ \E reported \in 0..3 : HeartbeatDurableScanJob(j, generation, token, reported)
    \/ BeginPublishingDurableScanJob(j, generation, token)
    \/ \E r \in Resolutions : ResolveDurableScanJob(j, generation, token, r)

RecoveryNext(j, generation) ==
    \/ RequeueOrFailExpiredDurableScanJobLease(j, generation)
    \/ \E r \in Reconciliations :
          ReconcileExpiredPublishingDurableScanJob(j, generation, r)

JobNext(j) ==
    \/ PreflightAdmission(j)
    \/ \E created \in (now - MAX_AGE)..(now + MAX_LEAD) : AdmitDurableScanJob(j, created)
    \/ \E generation, token \in Generations : LeaseHolderNext(j, generation, token)
    \/ \E generation \in Generations : RecoveryNext(j, generation)
    \/ CancelDurableScanJob(j)
    \/ ExpireDurableScanJob(j)

StoreNext ==
    \/ \E j \in Jobs : JobNext(j)
    \/ ClaimDurableScanJobs
    \/ SettleSynchronizeAndPurge
    \/ Tick

StoreSpec == StoreInit /\ [][StoreNext]_storeVars
-----------------------------------------------------------------------------
(* What must hold of the table.                                            *)

\* Every variable holds a value of its type.
TypeOK ==
    /\ now \in Nat \ {0}
    /\ jobs \in [Jobs -> Row]

\* No mutation breaks a CHECK of the table, which SQLite would refuse with an
\* error no caller handles: every column keeps its range, ciphertext exists exactly while a job is
\* unfinished, a token and a lease exactly while it is leased or publishing, a
\* manifest exactly while it is publishing, an outcome time exactly after.
CheckConstraints ==
    /\ TypeOK
    /\ \A j \in Jobs :
           LET row == jobs[j] IN
           /\ row.payload <=> Nonterminal(row)
           /\ (row.token # 0) <=> Active(row)
           /\ (row.lease # 0) <=> Active(row)
           /\ (row.manifest # 0) <=> row.state = "publishing"
           /\ (row.finished # 0) <=> Terminal(row)
           /\ row.reason # "none" => Terminal(row)

\* A publication always leaves room for its settlement window and one full
\* reconciliation before the job's deadline, however often it is renewed.
PublicationReserve ==
    \A j \in Jobs :
        jobs[j].state = "publishing" => jobs[j].lease <= PublishingCeiling(jobs[j])

\* The retention pass can always run: no row it must settle is one whose
\* settlement throws, which would roll the pass back on every later read and
\* admission and keep every tombstone and ciphertext alive.
MaintenanceNeverBlocked == MaintenanceAdmissible

\* Claims, requeues, publications and admissions together never hold more than
\* the execution capacity, the nonterminal bound and the row bound.
LimitsHold ==
    /\ Cardinality(ActiveJobs(jobs)) <= EXECUTION_CAPACITY
    /\ Cardinality(Unfinished(jobs)) <= MAX_NONTERMINAL
    /\ Cardinality(Rows(jobs)) <= MAX_ROWS

\* An execution that is running owns the newest generation, and a job fails
\* for too many restarts only when each allowed attempt was spent.
AttemptAccounting ==
    \A j \in Jobs :
        /\ jobs[j].generation = jobs[j].attempts
        /\ Active(jobs[j]) => jobs[j].token = jobs[j].generation
        /\ jobs[j].manifest # 0 => jobs[j].manifest = jobs[j].generation
        /\ jobs[j].reason = "restart-limit" => jobs[j].attempts = MAX_ATTEMPTS

\* Pressure on the row limit deletes only finished jobs: an accepted job
\* disappears unfinished only at its own purge horizon.
NoAcceptedWorkDropped ==
    [][\A j \in Jobs :
          Nonterminal(jobs[j]) /\ ~Present(jobs'[j]) => PurgeAt(jobs[j]) <= now]_storeVars

\* The progress a reader sees never walks backwards within one execution, and
\* never passes the number of visits the job admitted.
ProgressMonotone ==
    [][\A j \in Jobs :
          Active(jobs[j]) /\ Active(jobs'[j]) /\ jobs'[j].generation = jobs[j].generation
            => jobs[j].runs <= jobs'[j].runs /\ jobs'[j].runs <= TotalRuns[j]]_storeVars

\* The promise each row stands for: publishing is the commitment of the
\* execution that owns it.
PhaseOf(row) ==
    IF row.state = "unborn" THEN "unborn"
    ELSE IF row.state = "gone" THEN "forgotten"
    ELSE IF row.state = "publishing" THEN "committed"
    ELSE IF Terminal(row) THEN "settled"
    ELSE "pending"

PromiseOf(row) ==
    [phase     |-> PhaseOf(row),
     tries     |-> row.attempts,
     publisher |-> row.manifest,
     verdict   |-> IF Terminal(row) THEN row.state ELSE "none"]

Promise == INSTANCE ScanJobPromise
             WITH MaxTries <- MAX_ATTEMPTS, promise <- [j \in Jobs |-> PromiseOf(jobs[j])]

\* The table implements the promise: one publisher per job, no retry and no
\* cancellation after it, success only through it, outcomes that never change.
KeepsThePromise == Promise!Spec
=============================================================================
