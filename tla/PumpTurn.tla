------------------------------- MODULE PumpTurn -------------------------------
(***************************************************************************)
(* One turn of the coordinator's pump, and the turns after it.              *)
(*                                                                         *)
(* runDurableScanJobPumpTurn gives a turn a wall-clock budget.  It settles  *)
(* expired leases and publications, then rows past their deadline, within   *)
(* the part of the budget that is not reserved for dispatch; it claims and  *)
(* activates queued jobs; and what is left goes to optional items.  A turn  *)
(* that could not finish yields: its successor starts at once.              *)
(*                                                                         *)
(* The rows are those of DurableScanJobStore, on which Node's workers and   *)
(* the public routes act whenever the turn awaits a reply.  That a due wake *)
(* starts a turn before time goes on is what PumpSchedule shows.            *)
(***************************************************************************)
EXTENDS DurableScanJobStore

CONSTANTS
    WALL,           \* wallTimeMs: budget of one turn
    RESERVE,        \* coreDispatchReserveMs: what maintenance leaves to dispatch
    MAX_CORE,       \* maxCoreItems: rows maintenance attempts in one turn
    MAX_OPTIONAL,   \* maxOptionalItems
    BACKOFF,        \* delays after the first, the second and any later failure
    MAX_TROUBLE     \* bound on restarts, failed dispatches and aborted items

ASSUME BudgetAssumption ==
    /\ {WALL, RESERVE, MAX_CORE} \subseteq Nat \ {0}
    /\ RESERVE < WALL
    /\ {MAX_OPTIONAL, MAX_TROUBLE} \subseteq Nat
    /\ BACKOFF \in [1..3 -> Nat \ {0}]

VARIABLES
    turn,       \* the turn under way: its phase, and what it knows
    call,       \* the reply it awaits, with the timers that bound it
    backoff,    \* durable_scan_job_reconciliation_backoff, a row for every job id
    still,      \* history: the turn has changed no row and awaited nothing so far
    freeSince,  \* history: since when a job could be claimed and none was, or 0
    detours,    \* history: turns begun with a younger row since a row is overdue
    trouble     \* restarts, failed dispatches and aborted items so far

vars == <<storeVars, turn, call, backoff, still, freeSince, detours, trouble>>

-----------------------------------------------------------------------------
(* Turns, calls and backoff rows.                                          *)

\* A turn between turns: the pump sleeps, or a successor is due at once.
Resting(phase) ==
    [phase |-> phase, todo |-> {}, tried |-> 0, end |-> 0,
     backlog |-> FALSE, produced |-> FALSE]
Asleep == Resting("asleep")
Yielded == Resting("yielded")

\* A call is bounded by its own timer, a reconciliation also by the turn's, which
\* is never the earlier one.
NoItem == [job |-> 0, row |-> NoRow("unborn")]
NoCall == [item |-> NoItem, due |-> 0, abort |-> 0]
NoBackoff == [generation |-> 0, attempt |-> 0, nextAt |-> 0]

Between == turn.phase \in {"asleep", "yielded"}
Awaiting == call # NoCall
\* Everything else runs on the Durable Object's thread without being interrupted.
Interruptible == Between \/ Awaiting

Snapshots(tab, set) == {[job |-> j, row |-> tab[j]] : j \in set}

Remaining == turn.end - now

\* Faulty: maintenance may use the whole budget.
WholeRemaining == Remaining
MaintenanceRemaining == Remaining - RESERVE

ReconciliationIsDue(s) ==
    /\ s.row.state = "publishing" => SettlementAt(s.row) <= now
    /\ \/ backoff[s.job].generation # s.row.generation
       \/ backoff[s.job].nextAt <= now
       \/ DeadlineAt(s.row) <= now

\* pruneDurableReconciliationBackoff, which every maintenance pass runs.
Pruned(table, tab) ==
    [j \in Jobs |->
        IF tab[j].state = "publishing" /\ tab[j].generation = table[j].generation
        THEN table[j] ELSE NoBackoff]

BackoffAfter(s) ==
    LET attempt == IF backoff[s.job].generation = s.row.generation
                   THEN Earlier(3, backoff[s.job].attempt + 1) ELSE 1
    IN [generation |-> s.row.generation, attempt |-> attempt,
        nextAt |-> Earlier(now + BACKOFF[attempt], DeadlineAt(s.row))]

\* When the table of jobs asks for the next turn: now, if something is due.
WakeIsDue ==
    \E j \in Jobs :
      LET row == jobs[j] IN
      \/ /\ row.state = "queued" /\ DeadlineAt(row) > now
         /\ Cardinality(ActiveJobs(jobs)) < EXECUTION_CAPACITY
      \/ row.state = "leased" /\ row.lease <= now
      \/ row.state \in {"queued", "leased"} /\ DeadlineAt(row) <= now
      \/ Present(row) /\ PurgeAt(row) <= now
      \/ /\ row.state = "publishing"
         /\ IF backoff[j].generation = row.generation /\ backoff[j].nextAt > now
            THEN DeadlineAt(row) <= now
            ELSE SettlementAt(row) <= now

-----------------------------------------------------------------------------
(* The start of a turn, and the order of its items.                        *)

\* Faulty: rows this phase cannot settle are offered to it as well.
EveryExpired(s) == s.row.state \in {"leased", "publishing"}

\* expiredDurablePumpItemIsActionable
Actionable(s) ==
    \/ s.row.state = "leased"
    \/ s.row.state = "publishing" /\ DeadlineAt(s.row) > now /\ ReconciliationIsDue(s)

\* The store lists expired leases by lease, and past deadlines by deadline.
First ==
    LET key(s) == IF turn.phase = "expired" THEN s.row.lease ELSE DeadlineAt(s.row)
        before(s, t) ==
            \/ key(s) < key(t)
            \/ key(s) = key(t) /\ s.row.created < t.row.created
            \/ key(s) = key(t) /\ s.row.created = t.row.created /\ s.job < t.job
    IN CHOOSE s \in turn.todo : \A t \in turn.todo \ {s} : before(s, t)

\* runDurableScanJobPumpTurn lists the expired rows after the retention pass.
StartTurn ==
    /\ Between
    /\ MaintenanceAdmissible
    /\ jobs' = Maintained(jobs)
    /\ backoff' = Pruned(backoff, jobs')
    /\ LET expired == {s \in Snapshots(jobs', Jobs) : Active(s.row) /\ s.row.lease <= now}
       IN turn' = [Asleep EXCEPT !.phase = "expired", !.end = now + WALL,
                                !.todo = {s \in expired : Actionable(s)}]
    /\ UNCHANGED <<now, call, trouble>>

\* The phase is through with its items ...
EndExpired ==
    /\ turn.phase = "expired" /\ ~Awaiting /\ turn.todo = {}
    /\ LET overdue == {s \in Snapshots(jobs, Jobs) : Nonterminal(s.row) /\ DeadlineAt(s.row) <= now}
       IN turn' = [turn EXCEPT !.phase = "deadline", !.todo = overdue]
    /\ UNCHANGED <<storeVars, call, backoff, trouble>>

EndDeadline ==
    /\ turn.phase = "deadline" /\ ~Awaiting /\ turn.todo = {}
    /\ turn' = [turn EXCEPT !.phase = "dispatch"]
    /\ UNCHANGED <<storeVars, call, backoff, trouble>>

\* ... or out of attempts or time: then the deadline phase waits for another turn.
Exhausted == turn.tried >= MAX_CORE \/ MaintenanceRemaining <= 0

ToDispatch == [turn EXCEPT !.phase = "dispatch", !.todo = {}, !.backlog = TRUE]

RunOut ==
    /\ turn.phase \in {"expired", "deadline"} /\ ~Awaiting
    /\ turn.todo # {} /\ Exhausted
    /\ turn' = ToDispatch
    /\ UNCHANGED <<storeVars, call, backoff, trouble>>

-----------------------------------------------------------------------------
(* Items.  A mutation that the store refuses throws, which costs the item.  *)

Attempt(phase, s) ==
    /\ turn.phase = phase /\ ~Awaiting
    /\ turn.todo # {} /\ ~Exhausted
    /\ s = First
    /\ turn' = [turn EXCEPT !.todo = @ \ {s}, !.tried = @ + 1]
    /\ UNCHANGED <<now, trouble>>

Settled(j, row) == jobs' = [jobs EXCEPT ![j] = row]

RecoverLease(s) ==
    /\ Attempt("expired", s) /\ s.row.state = "leased"
    /\ LET row == jobs[s.job]
       IN IF row.state = "leased" /\ row.generation = s.row.generation /\ row.lease <= now
          THEN Settled(s.job, RecoveredRow(row)) ELSE UNCHANGED jobs
    /\ UNCHANGED <<call, backoff>>

ExpireRow(s) ==
    /\ Attempt("deadline", s) /\ s.row.state # "publishing"
    /\ LET row == jobs[s.job]
       IN IF row.state \in {"queued", "leased"} /\ DeadlineAt(row) <= now
          THEN Settled(s.job, Terminalized(row, "expired", "deadline")) ELSE UNCHANGED jobs
    /\ UNCHANGED <<call, backoff>>

\* The handlers look again whether a publication is theirs and due.
Reconcilable(phase, s) ==
    /\ s.row.state = "publishing"
    /\ IF phase = "expired" THEN DeadlineAt(s.row) > now /\ ReconciliationIsDue(s)
                            ELSE SettlementAt(s.row) <= now

SkipPublication(phase, s) ==
    /\ Attempt(phase, s)
    /\ s.row.state = "publishing" /\ ~Reconcilable(phase, s)
    /\ UNCHANGED <<jobs, call, backoff>>

\* reconcileExpiredDurablePublication up to the request: the retention pass, and
\* nothing more if it removes the row.  The request ends with its own timer, with
\* the item's share of the turn, or when a row has to be purged.
AskNode(phase, s) ==
    /\ Attempt(phase, s) /\ Reconcilable(phase, s)
    /\ MaintenanceAdmissible
    /\ jobs' = Maintained(jobs)
    /\ backoff' = Pruned(backoff, jobs')
    /\ LET limits == {RECONCILIATION_TIMEOUT, MaintenanceRemaining}
                       \cup {PurgeAt(t.row) - now : t \in Snapshots(jobs', Rows(jobs'))}
       IN call' = IF PurgeAt(s.row) <= now THEN NoCall
                  ELSE [item |-> s, abort |-> now + MaintenanceRemaining,
                        due |-> now + CHOOSE n \in limits : \A m \in limits : n <= m]

Reconciling == call.item # NoItem

\* Node found the report, found nothing, or found something else.
Conclude(r) ==
    LET s == call.item IN
    /\ Reconciling /\ r.result # "expired"
    /\ IF ReconciliationAccepted(s.job, s.row.generation, r)
       THEN /\ jobs' = Maintained([jobs EXCEPT ![s.job] = Terminalized(@, r.outcome, r.reason)])
            /\ backoff' = Pruned(backoff, jobs')
       ELSE UNCHANGED <<jobs, backoff>>
    /\ call' = NoCall
    /\ UNCHANGED turn
    /\ UNCHANGED <<now, trouble>>

ExpiryAccepted(s) ==
    \E r \in Reconciliations :
        r.result = "expired" /\ ReconciliationAccepted(s.job, s.row.generation, r)

\* Faulty: only the phase that asks before the deadline gives up at it.
GivesUpOnce(s) == turn.phase = "expired" /\ DeadlineAt(s.row) <= now /\ ExpiryAccepted(s)

\* Past the deadline Node is not asked about a job again.
GivesUp(s) ==
    (turn.phase = "deadline" \/ DeadlineAt(s.row) <= now) /\ ExpiryAccepted(s)

\* No answer, no readable one, or the request's own timer.
Retry ==
    LET s == call.item
        failed == Pruned([backoff EXCEPT ![s.job] = BackoffAfter(s)], Maintained(jobs))
        expires == now < PurgeAt(s.row) /\ GivesUp(s)
    IN /\ Reconciling
       /\ jobs' = IF expires
                  THEN [Maintained(jobs) EXCEPT ![s.job] = Terminalized(@, "expired", "deadline")]
                  ELSE Maintained(jobs)
       /\ backoff' = IF expires THEN [failed EXCEPT ![s.job] = NoBackoff] ELSE failed
       /\ call' = NoCall
       /\ UNCHANGED turn
       /\ UNCHANGED <<now, trouble>>

\* The turn's timer and the request's are set for the same moment, and the turn's
\* goes off first: the item ends without a trace.
AbortItem ==
    /\ Reconciling /\ now = call.abort
    /\ trouble < MAX_TROUBLE /\ trouble' = trouble + 1
    /\ call' = NoCall
    /\ turn' = ToDispatch
    /\ UNCHANGED <<storeVars, backoff>>

-----------------------------------------------------------------------------
(* Dispatch, and what comes after it.                                      *)

\* The oldest queued jobs are claimed; those whose payload does not decrypt fail,
\* and the others are activated, all at the same time.
Dispatch ==
    /\ turn.phase = "dispatch" /\ Remaining > 0
    /\ \E invalid \in SUBSET Claimed :
         /\ jobs' = [j \in Jobs |->
                       IF j \in invalid
                         THEN Terminalized(ClaimedRow(jobs[j]), "failed", "payload-invalid")
                       ELSE IF j \in Claimed THEN ClaimedRow(jobs[j]) ELSE jobs[j]]
         /\ call' = IF Claimed = invalid THEN NoCall
                    ELSE [NoCall EXCEPT !.due = turn.end, !.abort = turn.end]
    /\ turn' = [turn EXCEPT !.phase = "dispatched"]
    /\ UNCHANGED <<now, backoff, trouble>>

\* It throws before a claim; what throws after one leaves what a Restart leaves.
DispatchFails ==
    /\ turn.phase = "dispatch"
    /\ trouble < MAX_TROUBLE /\ trouble' = trouble + 1
    /\ turn' = Yielded
    /\ UNCHANGED <<storeVars, call, backoff>>

\* Every activation was answered or given up.  One that was not leaves its lease.
Activated ==
    /\ turn.phase = "dispatched" /\ Awaiting
    /\ call' = NoCall
    /\ UNCHANGED turn
    /\ UNCHANGED <<storeVars, backoff, trouble>>

Yield ==
    /\ \/ turn.phase = "dispatch" /\ Remaining <= 0
       \/ turn.phase = "dispatched" /\ ~Awaiting /\ (turn.backlog \/ Remaining <= 0)
    /\ turn' = Yielded
    /\ UNCHANGED <<storeVars, call, backoff, trouble>>

BeginOptional ==
    /\ turn.phase = "dispatched" /\ ~Awaiting
    /\ ~turn.backlog /\ Remaining > 0
    /\ turn' = [turn EXCEPT !.phase = "optional", !.tried = 0]
    /\ UNCHANGED <<storeVars, call, backoff, trouble>>

\* An optional item prepares a job, and admits it within the turn.
StartItem ==
    /\ turn.phase = "optional" /\ ~Awaiting
    /\ turn.tried < MAX_OPTIONAL /\ Remaining > 0
    /\ call' = [NoCall EXCEPT !.due = turn.end, !.abort = turn.end]
    /\ turn' = [turn EXCEPT !.tried = @ + 1]
    /\ UNCHANGED <<storeVars, backoff, trouble>>

EndItem ==
    /\ turn.phase = "optional" /\ Awaiting
    /\ call' = NoCall
    /\ \/ \E j \in Jobs : AdmitDurableScanJob(j, now) /\ turn' = [turn EXCEPT !.produced = TRUE]
       \/ UNCHANGED storeVars /\ UNCHANGED turn
       \/ UNCHANGED storeVars /\ now = call.abort /\ turn' = Yielded
    /\ UNCHANGED <<backoff, trouble>>

\* The list of optional items is through, or would need more than is left.
EndTurn ==
    /\ turn.phase = "optional" /\ ~Awaiting
    /\ turn' = IF turn.produced THEN Yielded ELSE Asleep
    /\ UNCHANGED <<storeVars, call, backoff, trouble>>

LeaveRest ==
    /\ turn.phase = "optional" /\ ~Awaiting
    /\ turn.tried >= MAX_OPTIONAL \/ Remaining <= 0
    /\ turn' = Yielded
    /\ UNCHANGED <<storeVars, call, backoff, trouble>>

-----------------------------------------------------------------------------
(* The others, and time.                                                   *)

\* The Durable Object restarts; the row that the turn wrote first wakes the next.
Restart ==
    /\ ~Between
    /\ trouble < MAX_TROUBLE /\ trouble' = trouble + 1
    /\ turn' = Yielded /\ call' = NoCall
    /\ UNCHANGED <<storeVars, backoff>>

\* Public routes and Node's workers, and the retention pass that every read runs.
Others(j) ==
    LET generation == jobs[j].generation IN
    /\ Interruptible
    /\ \/ AdmitDurableScanJob(j, now)
       \/ CancelDurableScanJob(j)
       \/ HeartbeatDurableScanJob(j, generation, generation, 0)
       \/ BeginPublishingDurableScanJob(j, generation, generation)
       \/ \E r \in Resolutions : ResolveDurableScanJob(j, generation, generation, r)
    /\ UNCHANGED <<turn, call, backoff, trouble>>

ReadPurges ==
    /\ Interruptible
    /\ SettleSynchronizeAndPurge
    /\ backoff' = Pruned(backoff, jobs')
    /\ UNCHANGED <<turn, call, trouble>>

\* Time goes on while the pump sleeps and nothing is due, or while a turn awaits a
\* reply that is not overdue.
Pass ==
    /\ \/ turn.phase = "asleep" /\ ~WakeIsDue
       \/ Awaiting /\ now < call.due
    /\ Tick
    /\ UNCHANGED <<turn, call, backoff, trouble>>

-----------------------------------------------------------------------------
(* Which waits are counted, and the whole system.                          *)

IsFree(tab, t) ==
    /\ \E j \in Jobs : tab[j].state = "queued" /\ DeadlineAt(tab[j]) > t
    /\ Cardinality(ActiveJobs(tab)) < EXECUTION_CAPACITY

Claims == \E j \in Jobs : jobs[j].attempts < jobs'[j].attempts

IsOverdue(tab, j, t) == Nonterminal(tab[j]) /\ DeadlineAt(tab[j]) <= t

\* The turn recovers a lease, or has Node asked, before it looks at any deadline.
Detours ==
    /\ turn.phase = "expired" /\ turn.tried = 0 /\ turn'.tried = 1
    /\ ~UNCHANGED <<jobs, call>>

Init ==
    /\ StoreInit
    /\ turn = Asleep /\ call = NoCall
    /\ backoff = [j \in Jobs |-> NoBackoff]
    /\ still = TRUE /\ freeSince = 0 /\ detours = 0 /\ trouble = 0

ItemNext(s) ==
    \/ RecoverLease(s) \/ ExpireRow(s)
    \/ \E phase \in {"expired", "deadline"} : SkipPublication(phase, s) \/ AskNode(phase, s)

TurnNext ==
    \/ StartTurn \/ EndExpired \/ EndDeadline \/ RunOut
    \/ \E s \in turn.todo : ItemNext(s)
    \/ \E r \in Reconciliations : Conclude(r)
    \/ Retry \/ AbortItem
    \/ Dispatch \/ DispatchFails \/ Activated \/ Yield
    \/ BeginOptional \/ StartItem \/ EndItem \/ EndTurn \/ LeaveRest

Next ==
    /\ \/ TurnNext \/ Restart \/ ReadPurges \/ Pass
       \/ \E j \in Jobs : Others(j)
    /\ still' = (UNCHANGED <<jobs, call>> /\ (Between \/ still))
    /\ freeSince' = IF ~IsFree(jobs', now') THEN 0
                    ELSE IF freeSince = 0 \/ Claims THEN now' ELSE freeSince
    /\ detours' = IF \A j \in Jobs : ~IsOverdue(jobs', j, now') THEN 0
                  ELSE IF Detours THEN detours + 1 ELSE detours

Spec == Init /\ [][Next]_vars

-----------------------------------------------------------------------------
(* What must hold of the turns.                                            *)

\* A row past its deadline is settled: every turn it waits for has settled another row
\* that was, or had a lease or a younger publication to see to first, or was lost.  A
\* publication past its deadline is asked about at most once, so a Node that hangs
\* delays the others by one turn each.
OverdueIsSettled ==
    \A j \in Jobs :
        IsOverdue(jobs, j, now) =>
            now <= DeadlineAt(jobs[j]) + (MAX_NONTERMINAL + 1 + detours + trouble) * WALL

\* A job that can be claimed is claimed although maintenance and activations hang:
\* the rest of the turn under way, and the maintenance of the next one.
FreeSlotIsUsed ==
    freeSince # 0 => now - freeSince <= 2 * WALL - RESERVE + trouble * WALL

\* The pump never spins: a turn that has changed nothing and waited for nothing has
\* left nothing to another turn, and no wake is due after it.
NoBusyWake ==
    turn.phase = "dispatched" /\ still => ~turn.backlog /\ ~WakeIsDue
=============================================================================
