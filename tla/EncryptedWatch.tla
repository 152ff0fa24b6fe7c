---------------------------- MODULE EncryptedWatch ----------------------------
(***************************************************************************)
(* Encrypted watches: scheduled rescans that live for weeks, while each of  *)
(* their scan jobs lives for an hour.                                       *)
(*                                                                         *)
(* A watch is created together with its first job.  A pump turn that has    *)
(* time left claims due watches under a lease, has Node prepare a job for   *)
(* each and admits it in the transaction that records the run.  When a job  *)
(* has ended, the retention pass copies its outcome into the run's history  *)
(* before it deletes the row.                                               *)
(*                                                                         *)
(* Of the job rows only what watches depend on is kept here: which are      *)
(* unfinished, how and when the others ended, and when they are deleted.    *)
(***************************************************************************)
EXTENDS Naturals, Sequences, FiniteSets

CONSTANTS
    Watches,            \* capabilities, each the name of the watch derived from it
    MAX_JOBS,           \* bound on the jobs that Node prepares
    CADENCE, TTL, LEASE, MAX_RUNS, MAX_ACTIVE,
    DAY, DAILY_BUDGET,  \* the day of the global budget, and the claims it allows
    CAPACITY,           \* the most claims of one turn
    MAX_AGE,            \* DURABLE_ADMITTED_AT_MAX_AGE_MS
    PURGE,              \* retention of job rows
    STALL,              \* bound on the time a claim stays in memory
    Horizon             \* bound on the clock

ASSUME WatchAssumption ==
    /\ {CADENCE, LEASE, DAY, DAILY_BUDGET, CAPACITY, PURGE} \subseteq Nat \ {0}
    /\ {MAX_JOBS, MAX_ACTIVE, MAX_AGE, STALL, Horizon} \subseteq Nat
    /\ MAX_RUNS \in Nat \ {0, 1} /\ TTL \in Nat /\ CADENCE < TTL
    /\ Watches \subseteq Nat \ {0} /\ IsFiniteSet(Watches)

VARIABLES
    now,        \* the coordinator's clock
    watches,    \* encrypted_watches with the rows of encrypted_watch_runs
    jobs,       \* the rows of durable_scan_jobs that belong to watches
    budget,     \* encrypted_watch_global_budget: the day and the claims charged to it
    turn,       \* whether a pump turn has reached its optional phase
    claims,     \* the claims of that turn, in memory, that it is not done with
    linked      \* history: the watch whose run names a job, 0 for none

vars == <<now, watches, jobs, budget, turn, claims, linked>>

-----------------------------------------------------------------------------
(* Rows.                                                                   *)

Jobs == 1..MAX_JOBS

NoWatch == [state |-> "none", created |-> 0, next |-> 0, count |-> 0,
            generation |-> 0, token |-> 0, lease |-> 0, runs |-> << >>]
NoJob == [state |-> "none", created |-> 0, finished |-> 0, end |-> "none"]

\* A run that was admitted, with its job, or that failed before one was.  Its end is
\* the job's terminal outcome with the error code.
AdmittedRun(j, created, t) == [job |-> j, admitted |-> created, at |-> t, end |-> "none"]
FailedRun(t) == AdmittedRun(0, 0, t)

Present(w) == watches[w].state # "none"
ExpiresAt(row) == row.created + TTL
RunsOf(row) == {row.runs[i] : i \in DOMAIN row.runs}

With(tab, state) == {x \in DOMAIN tab : tab[x].state = state}

Least(a, b) == IF a <= b THEN a ELSE b

\* purgeExpiredEncryptedWatches
Purged(tab, t) ==
    [w \in Watches |-> IF tab[w].state # "none" /\ ExpiresAt(tab[w]) <= t THEN NoWatch ELSE tab[w]]

\* Faulty: the schedule is kept although a run was late.
NextRunOfSchedule(row, t) == row.next + CADENCE
NextRunAt(row, t) == t + CADENCE

\* advanceAfterRun
Advanced(row, t, run) ==
    LET next == NextRunAt(row, t)
        over == row.count + 1 >= MAX_RUNS \/ next >= ExpiresAt(row)
    IN [state |-> IF over THEN "completed" ELSE "active", created |-> row.created,
        next |-> IF over THEN 0 ELSE next, count |-> row.count + 1,
        generation |-> row.generation, token |-> 0, lease |-> 0,
        runs |-> Append(row.runs, run)]

\* recoverExpiredEncryptedWatchLeases
Recovered(tab, t) ==
    LET kept == Purged(tab, t)
    IN [w \in Watches |->
          IF kept[w].state = "leased" /\ kept[w].lease <= t
          THEN Advanced(kept[w], t, FailedRun(t)) ELSE kept[w]]

\* The step admits a job for watch w, or for none; runs go with their watch.
Links(w) ==
    linked' = [j \in Jobs |->
        IF jobs[j].state = "none" /\ jobs'[j].state # "none" THEN w
        ELSE IF linked[j] # 0 /\ watches'[linked[j]].created = watches[linked[j]].created
                              /\ watches'[linked[j]].state # "none"
        THEN linked[j] ELSE 0]

-----------------------------------------------------------------------------
(* recordEncryptedWatchRunTerminalOutcome: an outcome is written once, and a  *)
(* different one, or one before the admission, is refused.                  *)

RecordRefused(tab, j, end, t) ==
    \E w \in Watches : ExpiresAt(tab[w]) > t /\
        \E r \in RunsOf(tab[w]) : r.job = j /\ (r.admitted > t \/ r.end \notin {"none", end})

Recorded(tab, j, end, t) ==
    LET kept == Purged(tab, t)
        ended(run) == IF run.job = j THEN [run EXCEPT !.end = end] ELSE run
    IN [w \in Watches |-> [kept[w] EXCEPT !.runs = [i \in DOMAIN @ |-> ended(@[i])]]]

\* The public routes go on if it is refused.
RecordedSafely(tab, j, end, t) ==
    IF RecordRefused(tab, j, end, t) THEN Purged(tab, t) ELSE Recorded(tab, j, end, t)

-----------------------------------------------------------------------------
(* The retention pass over jobs.                                           *)

Ended(row, end, t) == [row EXCEPT !.state = "ended", !.end = end, !.finished = t]

\* settlePastPurgeDurableScanJobs
SettledJobs ==
    [j \in Jobs |-> IF jobs[j].state = "open" /\ jobs[j].created + PURGE <= now
                    THEN Ended(jobs[j], "deadline", now) ELSE jobs[j]]

\* Terminal jobs that a run names.
ToCopy(tab) == {j \in With(tab, "ended") : \E w \in Watches : \E r \in RunsOf(watches[w]) : r.job = j}

RetentionRefused ==
    LET tab == SettledJobs
    IN \E j \in With(tab, "ended") : RecordRefused(watches, j, tab[j].end, tab[j].finished)

\* Every outcome is recorded, each at the moment its job ended.
Synchronized ==
    LET tab == SettledJobs
        copied == ToCopy(tab)
        gone(row) == \E j \in copied : ExpiresAt(row) <= tab[j].finished
        told(run) == IF run.job \in copied THEN [run EXCEPT !.end = tab[run.job].end] ELSE run
    IN [w \in Watches |->
          IF watches[w].state # "none" /\ gone(watches[w]) THEN NoWatch
          ELSE [watches[w] EXCEPT !.runs = [i \in DOMAIN @ |-> told(@[i])]]]

\* purgeDurableScanJobs below the limit on rows; the outcome stays for comparison
PurgedJobs(tab) ==
    [j \in Jobs |-> IF tab[j].state = "ended" /\ tab[j].created + PURGE <= now
                    THEN [state |-> "gone", created |-> 0, finished |-> 0, end |-> tab[j].end]
                    ELSE tab[j]]

\* settleSynchronizeAndPurgeDurableScanJobs: all of it or nothing.
RetentionPass ==
    /\ ~RetentionRefused
    /\ watches' = Synchronized
    /\ jobs' = PurgedJobs(SettledJobs)
    /\ UNCHANGED <<now, budget, turn, claims>>
    /\ Links(0)

-----------------------------------------------------------------------------
(* Admissions of jobs.                                                     *)

Unborn == With(jobs, "none")

\* A job that Node has prepared, at a moment on its own clock.
Prepared(j, created) ==
    /\ j \in Unborn /\ \A k \in Unborn : j <= k
    /\ jobs' = [jobs EXCEPT ![j] =
          [state |-> "open", created |-> created, finished |-> 0, end |-> "none"]]

\* Faulty: a job of a watch may be ahead of the coordinator's clock, as others may.
WithinSkewOrAhead(t) == now <= t + MAX_AGE /\ t <= now + 1

\* assertDurableAdmittedAtWithinSkew with lead 0, which every job of a watch meets.
WithinSkew(t) == now <= t + MAX_AGE /\ t <= now

\* The commit of admitEncryptedWatchPreparation: the watch and its first job.
CreateWatch(w, j, created) ==
    LET kept == Purged(watches, created)
        running == {v \in Watches : kept[v].state \in {"active", "leased"}}
    IN /\ WithinSkew(created)
       /\ kept[w].state = "none" /\ Cardinality(running) < MAX_ACTIVE
       /\ Prepared(j, created)
       /\ watches' = [kept EXCEPT ![w] =
             [NoWatch EXCEPT !.state = "active", !.created = created, !.next = created + CADENCE,
                             !.count = 1, !.runs = <<AdmittedRun(j, created, created)>>]]
       /\ UNCHANGED <<now, budget, turn, claims>>
       /\ Links(w)

\* findEncryptedWatchByCapability
ReadWatch(w) ==
    /\ watches' = IF ExpiresAt(watches[w]) <= now THEN [watches EXCEPT ![w] = NoWatch] ELSE watches
    /\ UNCHANGED <<now, jobs, budget, turn, claims>>
    /\ Links(0)

DeleteWatch(w) ==
    /\ watches' = [watches EXCEPT ![w] = NoWatch]
    /\ UNCHANGED <<now, jobs, budget, turn, claims>>
    /\ Links(0)

-----------------------------------------------------------------------------
(* Ends of jobs.                                                           *)

\* resolveDurableJob and cancelDurableJob record the outcome with the job's end.  A
\* cancellation may be repeated.
EndJob(j, end) ==
    /\ jobs[j].state = "open" \/ (jobs[j].state = "ended" /\ jobs[j].end = end /\ end = "cancelled")
    /\ jobs' = IF jobs[j].state = "open" THEN [jobs EXCEPT ![j] = Ended(@, end, now)] ELSE jobs
    /\ watches' = RecordedSafely(watches, j, end, now)
    /\ UNCHANGED <<now, budget, turn, claims>>
    /\ Links(0)

\* A pump turn up to its optional phase: the retention pass, and then whatever the
\* core phases end, which they record nowhere else.
StartTurn(done) ==
    /\ turn = "idle" /\ ~RetentionRefused
    /\ done \subseteq With(SettledJobs, "open")
    /\ watches' = Synchronized
    /\ LET tab == PurgedJobs(SettledJobs)
       IN jobs' = [j \in Jobs |-> IF j \in done THEN Ended(tab[j], "deadline", now) ELSE tab[j]]
    /\ turn' = "optional"
    /\ UNCHANGED <<now, budget, claims>>
    /\ Links(0)

-----------------------------------------------------------------------------
(* Claims.                                                                 *)

Today == now \div DAY
Used == IF budget.day = Today THEN budget.used ELSE 0

\* maintainEncryptedWatchRetention, when the feature is off or the turn is short.
MaintainOnly ==
    /\ turn = "optional" /\ claims = {}
    /\ watches' = Recovered(watches, now)
    /\ turn' = "idle"
    /\ UNCHANGED <<now, jobs, budget, claims>>
    /\ Links(0)

\* The watches that are due, the longest overdue first, as many as the turn can fund
\* beside the leases there are and the day has budget for.
Due(tab) == {w \in With(tab, "active") : tab[w].next <= now}

DueBefore(tab, v, w) ==
    \/ tab[v].next < tab[w].next
    \/ tab[v].next = tab[w].next /\ tab[v].created < tab[w].created
    \/ tab[v].next = tab[w].next /\ tab[v].created = tab[w].created /\ v < w

Chosen(tab, fundable) ==
    {w \in Due(tab) :
        Cardinality({v \in Due(tab) : DueBefore(tab, v, w)})
            < Least(fundable - Cardinality(With(tab, "leased")), DAILY_BUDGET - Used)}

LeasedRow(row) ==
    [state |-> "leased", created |-> row.created, next |-> row.next, count |-> row.count,
     generation |-> row.generation + 1, token |-> now,
     lease |-> Least(now + LEASE, ExpiresAt(row)), runs |-> row.runs]

\* claimDueEncryptedWatches
ListItems(fundable) ==
    LET tab == Recovered(watches, now)
        chosen == Chosen(tab, fundable)
    IN /\ turn = "optional" /\ claims = {}
       /\ watches' = [w \in Watches |-> IF w \in chosen THEN LeasedRow(tab[w]) ELSE tab[w]]
       /\ claims' = {[watch |-> w, generation |-> tab[w].generation + 1, token |-> now] : w \in chosen}
       /\ budget' = IF chosen = {} THEN budget
                    ELSE [day |-> Today, used |-> Used + Cardinality(chosen)]
       /\ turn' = IF chosen = {} THEN "idle" ELSE turn
       /\ UNCHANGED <<now, jobs>>
       /\ Links(0)

\* requireCurrentLease
LeaseHolds(c) ==
    LET row == Purged(watches, now)[c.watch]
    IN /\ row.state = "leased" /\ row.generation = c.generation /\ row.token = c.token
       /\ now < row.lease

Done(c) ==
    /\ claims' = claims \ {c}
    /\ turn' = IF claims' = {} THEN "idle" ELSE turn
    /\ UNCHANGED <<now, budget>>

\* Faulty: the job is admitted in a transaction before the run is recorded.
AdmitRunInTwoSteps(c, j, created) ==
    /\ Prepared(j, created) /\ WithinSkew(created)
    /\ watches' = IF LeaseHolds(c)
                  THEN [Purged(watches, now) EXCEPT ![c.watch] = Advanced(@, now, AdmittedRun(j, created, now))]
                  ELSE watches
    /\ Done(c)
    /\ Links(c.watch)

\* The transaction of admitEncryptedWatchClaim, once Node has prepared the job.  Its
\* preflight may evict finished rows at the row limit, the oldest-finished first,
\* without copying their outcomes: left out.
AdmitRun(c, j, created) ==
    /\ Prepared(j, created) /\ WithinSkew(created)
    /\ LeaseHolds(c)
    /\ watches' = [Purged(watches, now) EXCEPT ![c.watch] = Advanced(@, now, AdmittedRun(j, created, now))]
    /\ Done(c)
    /\ Links(c.watch)

\* No preparation, or a refused admission, whose transaction leaves nothing behind.
\* A claim that is no longer current leaves nothing either.
FailRun(c) ==
    /\ watches' = IF LeaseHolds(c)
                  THEN [Purged(watches, now) EXCEPT ![c.watch] = Advanced(@, now, FailedRun(now))]
                  ELSE watches
    /\ Done(c)
    /\ UNCHANGED jobs
    /\ Links(0)

\* An item runs out of time, or the Durable Object restarts: the turn is over, and
\* its leases stay behind.
AbandonTurn ==
    /\ turn = "optional"
    /\ claims' = {} /\ turn' = "idle"
    /\ UNCHANGED <<now, watches, jobs, budget>>
    /\ Links(0)

\* Faulty: a day without budget left is no reason to wait.
WakeIsDueAnyDay ==
    \E w \in Watches :
        \/ watches[w].state = "active" /\ watches[w].next <= now
        \/ watches[w].state = "leased" /\ watches[w].lease <= now
        \/ Present(w) /\ ExpiresAt(watches[w]) <= now

\* nextEncryptedWatchWakeAt, when it asks for a turn at once.
WakeIsDue ==
    \E w \in Watches :
        \/ watches[w].state = "active" /\ watches[w].next <= now /\ Used < DAILY_BUDGET
        \/ watches[w].state = "leased" /\ watches[w].lease <= now
        \/ Present(w) /\ ExpiresAt(watches[w]) <= now

Tick ==
    /\ now < Horizon /\ \A c \in claims : now < c.token + STALL
    /\ now' = now + 1
    /\ UNCHANGED <<watches, jobs, budget, turn, claims>>
    /\ Links(0)

-----------------------------------------------------------------------------
Init ==
    /\ now = 0
    /\ watches = [w \in Watches |-> NoWatch] /\ jobs = [j \in Jobs |-> NoJob]
    /\ budget = [day |-> 0, used |-> 0]
    /\ turn = "idle" /\ claims = {}
    /\ linked = [j \in Jobs |-> 0]

Moments == {t \in 0..Horizon + 1 : now <= t + MAX_AGE /\ t <= now + 1}

Next ==
    \/ \E w \in Watches, j \in Jobs, t \in Moments : CreateWatch(w, j, t)
    \/ \E c \in claims, j \in Jobs, t \in Moments : AdmitRun(c, j, t)
    \/ \E w \in Watches : ReadWatch(w)
    \/ \E w \in Watches : DeleteWatch(w)
    \/ \E j \in Jobs, end \in {"succeeded", "cancelled"} : EndJob(j, end)
    \/ \E done \in SUBSET Jobs : StartTurn(done)
    \/ \E n \in 1..CAPACITY : ListItems(n)
    \/ \E c \in claims : FailRun(c)
    \/ RetentionPass
    \/ MaintainOnly
    \/ AbandonTurn
    \/ Tick

Spec == Init /\ [][Next]_vars

-----------------------------------------------------------------------------
(* What must hold of watches.                                              *)

\* Every lease becomes one run, whatever becomes of the turn that took it, and every
\* job of a watch is named by one run of that watch for as long as the watch exists.
EveryAttemptIsOneRun ==
    /\ \A w \in Watches : Present(w) =>
         LET row == watches[w] IN
         /\ Len(row.runs) = row.count
         /\ row.generation = IF row.state = "leased" THEN row.count ELSE row.count - 1
    /\ \A j \in Jobs, w \in Watches :
         LET runs == watches[w].runs IN
         IF linked[j] = w THEN \E i \in DOMAIN runs : \A k \in DOMAIN runs : runs[k].job = j <=> k = i
                          ELSE \A k \in DOMAIN runs : runs[k].job # j

\* The outcome of a job is in the history of its watch before its row is deleted, and
\* no history ever refuses one, which would block the deletion of every row.
TruthOutlivesJob ==
    /\ ~RetentionRefused
    /\ \A j \in With(jobs, "gone") : \A w \in Watches : \A r \in RunsOf(watches[w]) :
         r.job = j => r.end = jobs[j].end

\* A late run is not made up for: runs of a watch are a cadence apart, however long
\* the pump was down, and the leases of all watches stay within the capacity.
NoBurst ==
    /\ \A w \in Watches : \A i \in DOMAIN watches[w].runs \ {1} :
         watches[w].runs[i].at >= watches[w].runs[i - 1].at + CADENCE
    /\ Cardinality(With(watches, "leased")) <= CAPACITY

\* A turn that the watches asked for has something to do for them, unless the leases
\* of abandoned turns leave it no room: a day without budget does not keep it spinning.
NoIdleWake ==
    [][\A n \in 1..CAPACITY :
         ListItems(n) /\ WakeIsDue /\ Cardinality(With(watches, "leased")) < n
           => watches' # watches]_vars
=============================================================================
