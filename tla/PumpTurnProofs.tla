---------------------------- MODULE PumpTurnProofs ----------------------------
(***************************************************************************)
(* Theorems about PumpTurn, for every set of jobs and every choice of the  *)
(* budgets, limits and durations.                                          *)
(*                                                                         *)
(* Three invariants build on each other.  RowsInv is about the table: its  *)
(* rows are good, and what a turn took down about a row is still true of   *)
(* it.  ClockInv measures a wait by the phase of the turn it falls into.   *)
(* StillInv says what a turn that has changed nothing so far has found.    *)
(***************************************************************************)
EXTENDS PumpTurn, DurableScanJobStoreProofs

\* Whatever waits in the queue has an attempt left.
FitRow(row) == GoodRow(row) /\ (row.state = "queued" => row.attempts < MAX_ATTEMPTS)

\* An admitted row keeps its creation time until it is gone, and stays gone.
Follows(row, new) ==
    \/ row.state = "unborn"
    \/ new.state = "gone"
    \/ row.state # "gone" /\ new.state # "unborn" /\ new.created = row.created

Moves(row, new) == FitRow(new) /\ Follows(row, new)
TableMoves(tab) == tab \in [Jobs -> Row] /\ \A j \in Jobs : Moves(jobs[j], tab[j])

\* What a snapshot says of its job's creation holds of the row, if there still is one.
Recalls(s) ==
    /\ s \in [job : Jobs, row : Row]
    /\ jobs[s.job].state # "unborn"
    /\ jobs[s.job].state = "gone" \/ jobs[s.job].created = s.row.created

Phases == {"asleep", "yielded", "expired", "deadline", "dispatch", "dispatched", "optional"}

Todos == SUBSET [job : Jobs, row : Row]
Turn == [phase : Phases, todo : Todos, tried : Nat, end : Int,
         backlog : BOOLEAN, produced : BOOLEAN]

TurnOK ==
    /\ turn \in Turn
    /\ \A s \in turn.todo : Recalls(s)
    /\ call.due \in Int /\ call.abort \in Int
    /\ Between \/ turn.phase = "dispatch" => call = NoCall
    /\ Reconciling => turn.phase \in {"expired", "deadline"} /\ Recalls(call.item)

RowsInv ==
    /\ now \in Nat \ {0}
    /\ jobs \in [Jobs -> Row] /\ \A j \in Jobs : FitRow(jobs[j])
    /\ TurnOK

-----------------------------------------------------------------------------
(***************************************************************************)
(* The table.                                                              *)
(***************************************************************************)

\* The rows of the store's proofs are these.
LEMMA RowsAreGood ==
    ASSUME RowsInv
    PROVE  Inv
BY DEF RowsInv, FitRow, Inv

\* An unchanged row moves.
LEMMA SameRowMoves ==
    ASSUME RowsInv, NEW j \in Jobs
    PROVE  Moves(jobs[j], jobs[j])
<1>1. ~Present(jobs[j]) \/ jobs[j].state # "gone"
  BY DEF Present, AbsentStates
<1>. QED
  BY DEF RowsInv, Moves, Follows

\* So does a row that is deleted.
LEMMA DeletedRowMoves ==
    ASSUME NEW row
    PROVE  Moves(row, NoRow("gone"))
<1>1. GoodRow(NoRow("gone"))
  BY LimitAssumption
     DEF GoodRow, Row, NoRow, NonterminalStates, TerminalStates, AbsentStates, Reasons,
         Nonterminal, Terminal, Active, Present
<1>. QED
  BY <1>1 DEF Moves, Follows, FitRow, NoRow

\* The retention pass deletes rows, of any table that moved.
LEMMA MaintainedMoves ==
    ASSUME NEW tab, TableMoves(tab)
    PROVE  TableMoves(Maintained(tab))
<1>1. \A j \in Jobs : Moves(jobs[j], Maintained(tab)[j])
  BY MaintainedRows, DeletedRowMoves DEF TableMoves
<1>2. \A j \in Jobs : Maintained(tab)[j] \in Row
  BY <1>1 DEF Moves, FitRow, GoodRow
<1>. QED
  BY <1>1, <1>2, MaintainedRows DEF TableMoves

\* The table itself, and the retention pass on it.
LEMMA SameTableMoves ==
    ASSUME RowsInv
    PROVE  TableMoves(jobs) /\ TableMoves(Maintained(jobs))
<1>1. TableMoves(jobs)
  BY SameRowMoves DEF TableMoves, RowsInv
<1>. QED
  BY <1>1, MaintainedMoves

\* One row is replaced.
LEMMA OneRowMoves ==
    ASSUME NEW tab, TableMoves(tab), NEW j \in Jobs, NEW new, Moves(jobs[j], new)
    PROVE  TableMoves([tab EXCEPT ![j] = new])
<1>1. new \in Row
  BY DEF Moves, FitRow, GoodRow
<1>. QED
  BY <1>1 DEF TableMoves

\* An outcome, of any kind but success and cancellation, may end any unfinished row.
LEMMA EndedRowMoves ==
    ASSUME NEW row, FitRow(row), Nonterminal(row), now \in Nat \ {0},
           NEW state \in TerminalStates, NEW reason \in Reasons,
           state = "succeeded" => row.state = "publishing",
           state = "cancelled" => row.state # "publishing",
           reason = "restart-limit" => row.attempts = MAX_ATTEMPTS
    PROVE  Moves(row, Terminalized(row, state, reason))
<1>1. GoodRow(Terminalized(row, state, reason))
  BY TerminalizedRowSound DEF FitRow, Sound
<1>2. /\ Terminalized(row, state, reason).state = state
      /\ Terminalized(row, state, reason).created = row.created
  BY DEF Terminalized
<1>. QED
  BY <1>1, <1>2
     DEF Moves, FitRow, Follows, Nonterminal, NonterminalStates, TerminalStates

\* A recovered lease goes back into the queue only with an attempt left.
LEMMA RecoveredRowMoves ==
    ASSUME NEW row, FitRow(row), row.state = "leased", now \in Nat \ {0}
    PROVE  Moves(row, RecoveredRow(row))
<1>1. Nonterminal(row) /\ row.attempts \in 0..MAX_ATTEMPTS /\ MAX_ATTEMPTS \in Nat
  BY RowColumns, LimitAssumption DEF FitRow, GoodRow, Nonterminal, NonterminalStates
<1>2. CASE DeadlineAt(row) <= now
  BY <1>1, <1>2, EndedRowMoves DEF RecoveredRow, TerminalStates, Reasons
<1>3. CASE ~(DeadlineAt(row) <= now) /\ row.attempts >= MAX_ATTEMPTS
  BY <1>1, <1>3, EndedRowMoves DEF RecoveredRow, TerminalStates, Reasons
<1>4. CASE ~(DeadlineAt(row) <= now) /\ ~(row.attempts >= MAX_ATTEMPTS)
  <2>1. RecoveredRow(row) = RequeuedRow(row) /\ row.attempts < MAX_ATTEMPTS
    BY <1>1, <1>4 DEF RecoveredRow
  <2>2. GoodRow(RequeuedRow(row))
    BY RequeuedRowSound DEF FitRow, Sound
  <2>3. /\ RequeuedRow(row).attempts = row.attempts /\ RequeuedRow(row).state = "queued"
        /\ RequeuedRow(row).created = row.created
    BY DEF RequeuedRow
  <2>. QED
    BY <2>1, <2>2, <2>3 DEF Moves, FitRow, Follows
<1>. QED
  BY <1>2, <1>3, <1>4

\* An unfinished row is deleted by the retention pass only at its purge horizon.
LEMMA UnfinishedStay ==
    ASSUME NEW tab, NEW j \in Jobs, Nonterminal(tab[j]), ~(PurgeAt(tab[j]) <= now)
    PROVE  Maintained(tab)[j] = tab[j]
<1> DEFINE kept == Without(tab, PastPurge(tab))
<1>1. kept[j] = tab[j]
  BY DEF Without, PastPurge
<1>2. j \notin Evictable(kept, MAX_ROWS)
  BY <1>1 DEF Evictable, Tombstones, Terminal, TerminalStates, Nonterminal, NonterminalStates
<1>. QED
  BY <1>1, <1>2 DEF Maintained, EvictedTo, Without

\* After the retention pass no row is past its purge horizon.
LEMMA MaintainedInTime ==
    ASSUME NEW tab, NEW j \in Jobs, Present(Maintained(tab)[j])
    PROVE  ~(PurgeAt(Maintained(tab)[j]) <= now)
<1> DEFINE kept == Without(tab, PastPurge(tab))
<1>1. ~Present(NoRow("gone"))
  BY DEF NoRow, Present, AbsentStates
<1>2. Maintained(tab)[j] = kept[j] /\ Present(kept[j])
  BY <1>1 DEF Maintained, EvictedTo, Without
<1>3. kept[j] = tab[j] /\ j \notin PastPurge(tab)
  BY <1>1, <1>2 DEF Without
<1>. QED
  BY <1>2, <1>3 DEF PastPurge, Rows

\* Deleting rows of a table that moved.
LEMMA WithoutMoves ==
    ASSUME NEW tab, TableMoves(tab), NEW gone
    PROVE  TableMoves(Without(tab, gone))
<1>1. \A j \in Jobs : Moves(jobs[j], Without(tab, gone)[j])
  BY DeletedRowMoves DEF TableMoves, Without
<1>2. \A j \in Jobs : Without(tab, gone)[j] \in Row
  BY <1>1 DEF Moves, FitRow, GoodRow
<1>. QED
  BY <1>1, <1>2 DEF TableMoves, Without

\* An admission puts one new row into the queue.
LEMMA AdmissionMoves ==
    ASSUME RowsInv, NEW j \in Jobs, AdmitDurableScanJob(j, now)
    PROVE  TableMoves(jobs')
<1>1. jobs[j].state = "unborn" /\ now \in Int /\ FitRow(jobs[j])
  BY DEF AdmitDurableScanJob, RowsInv
<1>2. GoodRow(NewRow(now))
  BY <1>1, NewRowSound DEF FitRow, Sound
<1>3. Moves(jobs[j], NewRow(now))
  BY <1>1, <1>2, LimitAssumption DEF Moves, FitRow, Follows, NewRow
<1>4. TableMoves(EvictedTo(jobs, MAX_ROWS - 1))
  BY SameTableMoves, WithoutMoves DEF EvictedTo
<1>. QED
  BY <1>3, <1>4, OneRowMoves DEF AdmitDurableScanJob

\* The lease holder renews, publishes or resolves its row.
LEMMA HolderMoves ==
    ASSUME RowsInv, NEW j \in Jobs, NEW generation,
           \/ HeartbeatDurableScanJob(j, generation, generation, 0)
           \/ BeginPublishingDurableScanJob(j, generation, generation)
           \/ \E r \in Resolutions : ResolveDurableScanJob(j, generation, generation, r)
    PROVE  TableMoves(jobs')
<1>1. /\ now \in Nat \ {0} /\ FitRow(jobs[j]) /\ GoodRow(jobs[j])
      /\ TableMoves(jobs) /\ Inv
  BY SameTableMoves, RowsAreGood DEF RowsInv, FitRow
<1>2. CASE HeartbeatDurableScanJob(j, generation, generation, 0)
  <2> DEFINE new == RenewedRow(jobs[j], AdvancedRuns(j, 0))
  <2>1. /\ jobs[j].state \in {"leased", "publishing"} /\ HeartbeatCeiling(jobs[j]) > now
        /\ jobs' = [jobs EXCEPT ![j] = new]
    BY <1>2 DEF HeartbeatDurableScanJob, HeartbeatAccepted, HoldsLease
  <2>2. AdvancedRuns(j, 0) \in 0..2
    BY <1>1, AdvancedRunsType
  <2>3. GoodRow(new)
    BY <1>1, <2>1, <2>2, RenewedRowSound DEF Sound, Active
  <2>4. new.state = jobs[j].state /\ new.created = jobs[j].created
    BY DEF RenewedRow
  <2>5. Moves(jobs[j], new)
    BY <2>1, <2>3, <2>4 DEF Moves, FitRow, Follows
  <2>. QED
    BY <1>1, <2>1, <2>5, OneRowMoves
<1>3. CASE BeginPublishingDurableScanJob(j, generation, generation)
  <2> DEFINE new == PublishingRow(jobs[j])
  <2>1. /\ jobs[j].state = "leased"
        /\ DeadlineAt(jobs[j])
             >= now + PUBLICATION_TIMEOUT + SETTLEMENT + RECONCILIATION_TIMEOUT
        /\ jobs' = [jobs EXCEPT ![j] = new]
    BY <1>3 DEF BeginPublishingDurableScanJob, BeginPublishingAccepted, HoldsLease
  <2>2. GoodRow(new)
    BY <1>1, <2>1, PublishingRowSound DEF Sound
  <2>3. new.state = "publishing" /\ new.created = jobs[j].created
    BY DEF PublishingRow
  <2>4. Moves(jobs[j], new)
    BY <2>1, <2>2, <2>3 DEF Moves, FitRow, Follows
  <2>. QED
    BY <1>1, <2>1, <2>4, OneRowMoves
<1>4. ASSUME NEW r \in Resolutions, ResolveDurableScanJob(j, generation, generation, r)
      PROVE  TableMoves(jobs')
  <2>1. /\ jobs[j].state = r.from
        /\ jobs' = [jobs EXCEPT ![j] = Terminalized(jobs[j], r.outcome, r.reason)]
    BY <1>4 DEF ResolveDurableScanJob, HoldsLease
  <2>2. /\ r.from \in {"leased", "publishing"}
        /\ r.outcome \in TerminalStates /\ r.reason \in Reasons
        /\ r.outcome = "succeeded" => r.from = "publishing"
        /\ r.outcome = "cancelled" => r.from # "publishing"
        /\ r.reason # "restart-limit"
    BY DEF Resolutions, TerminalStates, Reasons
  <2>3. Moves(jobs[j], Terminalized(jobs[j], r.outcome, r.reason))
    BY <1>1, <2>1, <2>2, EndedRowMoves DEF Nonterminal, NonterminalStates
  <2>. QED
    BY <1>1, <2>1, <2>3, OneRowMoves
<1>. QED
  BY <1>2, <1>3, <1>4

\* The public routes, Node's workers, and the retention pass of a read.
LEMMA OthersMove ==
    ASSUME RowsInv, (\E j \in Jobs : Others(j)) \/ ReadPurges
    PROVE  TableMoves(jobs')
<1>1. ASSUME NEW j \in Jobs, CancelDurableScanJob(j)
      PROVE  TableMoves(jobs')
  <2>1. Moves(jobs[j], Terminalized(jobs[j], "cancelled", "cancelled"))
    BY <1>1, EndedRowMoves
       DEF CancelDurableScanJob, RowsInv, Nonterminal, NonterminalStates, TerminalStates,
           Reasons
  <2>. QED
    BY <1>1, <2>1, SameTableMoves, OneRowMoves DEF CancelDurableScanJob
<1>2. ASSUME NEW j \in Jobs, Others(j)
      PROVE  TableMoves(jobs')
  <2> DEFINE generation == jobs[j].generation
  <2>1. \/ AdmitDurableScanJob(j, now)
        \/ CancelDurableScanJob(j)
        \/ HeartbeatDurableScanJob(j, generation, generation, 0)
        \/ BeginPublishingDurableScanJob(j, generation, generation)
        \/ \E r \in Resolutions : ResolveDurableScanJob(j, generation, generation, r)
    BY <1>2 DEF Others
  <2>. HIDE DEF generation
  <2>. QED
    BY <1>1, <2>1, AdmissionMoves, HolderMoves
<1>3. CASE ReadPurges
  BY <1>3, SameTableMoves DEF ReadPurges, SettleSynchronizeAndPurge
<1>. QED
  BY <1>2, <1>3

\* Dispatch claims the oldest rows of the queue, and fails some of them.
LEMMA DispatchMoves ==
    ASSUME RowsInv, Dispatch
    PROVE  TableMoves(jobs')
<1>1. PICK invalid \in SUBSET Claimed :
         jobs' = [j \in Jobs |->
                    IF j \in invalid
                      THEN Terminalized(ClaimedRow(jobs[j]), "failed", "payload-invalid")
                    ELSE IF j \in Claimed THEN ClaimedRow(jobs[j]) ELSE jobs[j]]
  BY DEF Dispatch
<1>2. ASSUME NEW j \in Claimed
      PROVE  /\ Moves(jobs[j], ClaimedRow(jobs[j]))
             /\ Moves(jobs[j], Terminalized(ClaimedRow(jobs[j]), "failed", "payload-invalid"))
  <2> DEFINE row == ClaimedRow(jobs[j])
  <2>1. /\ j \in Jobs /\ jobs[j].state = "queued"
        /\ DeadlineAt(jobs[j]) > now /\ jobs[j].attempts < MAX_ATTEMPTS
    BY DEF Claimed, Claimable
  <2>2. now \in Nat \ {0} /\ GoodRow(jobs[j])
    BY <2>1 DEF RowsInv, FitRow
  <2>3. GoodRow(row)
    BY <2>1, <2>2, ClaimedRowSound DEF Sound
  <2>4. row.state = "leased" /\ row.created = jobs[j].created
    BY DEF ClaimedRow
  <2>5. FitRow(row) /\ Nonterminal(row)
    BY <2>3, <2>4 DEF FitRow, Nonterminal, NonterminalStates
  <2>. HIDE DEF row
  <2>6. Moves(row, Terminalized(row, "failed", "payload-invalid"))
    BY <2>2, <2>5, EndedRowMoves DEF TerminalStates, Reasons
  <2>. QED
    BY <2>1, <2>4, <2>5, <2>6 DEF row, Moves, Follows, Terminalized
<1>3. \A j \in Jobs : Moves(jobs[j], jobs'[j])
  BY <1>1, <1>2, SameRowMoves
<1>4. \A j \in Jobs : jobs'[j] \in Row
  BY <1>3 DEF Moves, FitRow, GoodRow
<1>5. jobs' = [j \in Jobs |-> jobs'[j]]
  BY <1>1
<1>. QED
  BY <1>3, <1>4, <1>5 DEF TableMoves

\* The items of maintenance that need no answer.
LEMMA ItemMoves ==
    ASSUME RowsInv, NEW s \in turn.todo, RecoverLease(s) \/ ExpireRow(s)
    PROVE  TableMoves(jobs')
<1>1. /\ s.job \in Jobs /\ TableMoves(jobs)
      /\ now \in Nat \ {0} /\ FitRow(jobs[s.job])
  BY SameTableMoves DEF RowsInv, TurnOK, Recalls
<1> DEFINE row == jobs[s.job]
<1>2. CASE row.state = "leased" /\ jobs' = [jobs EXCEPT ![s.job] = RecoveredRow(row)]
  BY <1>1, <1>2, RecoveredRowMoves, OneRowMoves
<1>3. CASE /\ row.state \in {"queued", "leased"}
           /\ jobs' = [jobs EXCEPT ![s.job] = Terminalized(row, "expired", "deadline")]
  <2>1. Moves(row, Terminalized(row, "expired", "deadline"))
    BY <1>1, <1>3, EndedRowMoves DEF Nonterminal, NonterminalStates, TerminalStates, Reasons
  <2>. QED
    BY <1>1, <1>3, <2>1, OneRowMoves
<1>4. CASE jobs' = jobs
  BY <1>1, <1>4
<1>. QED
  BY <1>2, <1>3, <1>4 DEF RecoverLease, ExpireRow, Settled

\* Whatever a reconciliation found, or that it failed.
LEMMA AnswerMoves ==
    ASSUME RowsInv, (\E r \in Reconciliations : Conclude(r)) \/ Retry
    PROVE  TableMoves(jobs')
<1> DEFINE s == call.item
           row == jobs[s.job]
<1>1. /\ TableMoves(jobs) /\ TableMoves(Maintained(jobs)) /\ now \in Nat \ {0}
      /\ Reconciling => Recalls(s)
  BY SameTableMoves DEF RowsInv, TurnOK
<1>2. Recalls(s)
  BY <1>1 DEF Conclude, Retry
<1>3. s.job \in Jobs /\ FitRow(row)
  BY <1>2 DEF Recalls, RowsInv
<1>4. ASSUME NEW r \in Reconciliations, ReconciliationAccepted(s.job, s.row.generation, r)
      PROVE  row.state = "publishing" /\ Moves(row, Terminalized(row, r.outcome, r.reason))
  <2>1. row.state = "publishing"
    BY <1>4 DEF ReconciliationAccepted
  <2>2. /\ r.outcome \in TerminalStates /\ r.reason \in Reasons
        /\ r.outcome # "cancelled" /\ r.reason # "restart-limit"
    BY DEF Reconciliations, TerminalStates, Reasons
  <2>. QED
    BY <1>1, <1>3, <2>1, <2>2, EndedRowMoves DEF Nonterminal, NonterminalStates
<1>5. ASSUME NEW r \in Reconciliations, Conclude(r)
      PROVE  TableMoves(jobs')
  <2> DEFINE tab == [jobs EXCEPT ![s.job] = Terminalized(row, r.outcome, r.reason)]
  <2>1. CASE ReconciliationAccepted(s.job, s.row.generation, r)
    <3>1. jobs' = Maintained(tab)
      BY <1>5, <2>1 DEF Conclude
    <3>2. TableMoves(tab)
      BY <1>1, <1>3, <1>4, <2>1, OneRowMoves
    <3>. HIDE DEF tab
    <3>. QED
      BY <3>1, <3>2, MaintainedMoves
  <2>2. CASE ~ReconciliationAccepted(s.job, s.row.generation, r)
    BY <1>1, <1>5, <2>2 DEF Conclude
  <2>. QED
    BY <2>1, <2>2
<1>6. CASE Retry
  <2> DEFINE kept == Maintained(jobs)
  <2>1. CASE now < PurgeAt(s.row) /\ GivesUp(s)
    <3>1. PICK r \in Reconciliations :
             r.result = "expired" /\ ReconciliationAccepted(s.job, s.row.generation, r)
      BY <2>1 DEF GivesUp, ExpiryAccepted
    <3>2. row.state = "publishing" /\ Moves(row, Terminalized(row, "expired", "deadline"))
      BY <1>4, <3>1 DEF Reconciliations
    <3>3. PurgeAt(row) = PurgeAt(s.row) /\ PurgeAt(row) \in Int
      BY <1>2, <1>3, <3>2, RowColumns, TimingAssumption
         DEF Recalls, PurgeAt, FitRow, GoodRow
    <3>4. ~(PurgeAt(row) <= now)
      BY <1>1, <2>1, <3>3
    <3>5. Nonterminal(row)
      BY <3>2 DEF Nonterminal, NonterminalStates
    <3>6. kept[s.job] = row
      BY <1>3, <3>4, <3>5, UnfinishedStay
    <3>7. jobs' = [kept EXCEPT ![s.job] = Terminalized(@, "expired", "deadline")]
      BY <1>6, <2>1 DEF Retry
    <3>8. TableMoves(kept)
      BY <1>1
    <3>. HIDE DEF kept
    <3>9. jobs' = [kept EXCEPT ![s.job] = Terminalized(row, "expired", "deadline")]
      BY <3>6, <3>7
    <3>. QED
      BY <1>3, <3>2, <3>8, <3>9, OneRowMoves
  <2>2. CASE ~(now < PurgeAt(s.row) /\ GivesUp(s))
    BY <1>1, <1>6, <2>2 DEF Retry
  <2>. QED
    BY <2>1, <2>2
<1>. QED
  BY <1>5, <1>6

-----------------------------------------------------------------------------
(***************************************************************************)
(* The turn and its calls.                                                 *)
(***************************************************************************)

\* What happens in a step, apart from the history variables.
Acts ==
    \/ TurnNext \/ Restart \/ ReadPurges \/ Pass
    \/ \E j \in Jobs : Others(j)

\* A finite set of numbers has a least one.
LEMMA LeastExists ==
    ASSUME NEW S \in SUBSET Int, IsFiniteSet(S), S # {}
    PROVE  \E n \in S : \A m \in S : n <= m
<1> DEFINE R == {p \in S \X S : p[1] < p[2]}
<1>1. \A x, y \in S : <<x, y>> \in R <=> x < y
  OBVIOUS
<1>2. \A x \in S : x \in Int
  OBVIOUS
<1>. HIDE DEF R
<1>3. StrictlyOrders(R, S)
  BY <1>1, <1>2 DEF StrictlyOrders
<1>4. PICK x \in S : Before(R, S, x) = {}
  BY <1>3, FirstExists
<1>5. \A y \in S : ~(y < x)
  BY <1>1, <1>4 DEF Before
<1>. QED
  BY <1>2, <1>5

\* The timer of a reconciliation is the least of its limits.
Limits(tab) ==
    {RECONCILIATION_TIMEOUT, MaintenanceRemaining}
      \cup {PurgeAt(t.row) - now : t \in Snapshots(tab, Rows(tab))}

\* So a reconciliation's timer never outlasts what maintenance has left.
LEMMA TimerIsLeast ==
    ASSUME RowsInv, WALL \in Nat, RESERVE \in Nat
    PROVE  LET n == CHOOSE n \in Limits(Maintained(jobs)) :
                       \A m \in Limits(Maintained(jobs)) : n <= m
           IN  n \in Int /\ n <= MaintenanceRemaining
<1> DEFINE tab == Maintained(jobs)
           purges == {PurgeAt(tab[j]) - now : j \in Rows(tab)}
<1>1. /\ now \in Int /\ tab \in [Jobs -> Row] /\ MaintenanceRemaining \in Int
      /\ RECONCILIATION_TIMEOUT \in Int /\ PURGE \in Int
  BY SameTableMoves, TimingAssumption
     DEF RowsInv, TableMoves, TurnOK, Turn, MaintenanceRemaining, Remaining
<1>. HIDE DEF tab
<1>2. Rows(tab) \in SUBSET Jobs
  BY DEF Rows
<1>3. IsFiniteSet(Rows(tab))
  BY <1>2, JobSetsFinite
<1>4. IsFiniteSet(purges)
  <2> DEFINE f == [j \in Rows(tab) |-> PurgeAt(tab[j]) - now]
  <2>1. f \in Surjection(Rows(tab), purges)
    BY DEF Surjection, Range
  <2>. HIDE DEF f, purges
  <2>. QED
    BY <1>3, <2>1, FS_Surjection
<1>5. \A j \in Rows(tab) : PurgeAt(tab[j]) - now \in Int
  BY <1>1, <1>2, RowColumns DEF PurgeAt
<1>6. Limits(tab) = {RECONCILIATION_TIMEOUT, MaintenanceRemaining} \cup purges
  <2>1. {PurgeAt(t.row) - now : t \in Snapshots(tab, Rows(tab))} = purges
    <3>1. \A t \in Snapshots(tab, Rows(tab)) : \E j \in Rows(tab) : t.row = tab[j]
      BY DEF Snapshots
    <3>2. \A j \in Rows(tab) : \E t \in Snapshots(tab, Rows(tab)) : t.row = tab[j]
      <4> TAKE j \in Rows(tab)
      <4>1. [job |-> j, row |-> tab[j]] \in Snapshots(tab, Rows(tab))
        BY DEF Snapshots
      <4>. QED
        BY <4>1
    <3>. QED
      BY <3>1, <3>2
  <2>. QED
    BY <2>1 DEF Limits
<1>. HIDE DEF purges
<1>7. IsFiniteSet({RECONCILIATION_TIMEOUT, MaintenanceRemaining})
  <2>1. {RECONCILIATION_TIMEOUT, MaintenanceRemaining}
          = {RECONCILIATION_TIMEOUT} \cup {MaintenanceRemaining}
    OBVIOUS
  <2>2. IsFiniteSet({RECONCILIATION_TIMEOUT}) /\ IsFiniteSet({MaintenanceRemaining})
    BY FS_Singleton
  <2>. QED
    BY <2>1, <2>2, FS_Union
<1>8. IsFiniteSet(Limits(tab))
  BY <1>4, <1>6, <1>7, FS_Union
<1>9. Limits(tab) \in SUBSET Int /\ MaintenanceRemaining \in Limits(tab)
  BY <1>1, <1>5, <1>6 DEF purges
<1>10. \E n \in Limits(tab) : \A m \in Limits(tab) : n <= m
  BY <1>8, <1>9, LeastExists
<1>. QED
  BY <1>9, <1>10 DEF tab

\* What was taken down about a row survives the moves of the table.
LEMMA RecalledLater ==
    ASSUME TableMoves(jobs'), NEW s, Recalls(s)
    PROVE  Recalls(s)'
<1>1. Moves(jobs[s.job], jobs'[s.job])
  BY DEF TableMoves, Recalls
<1>. QED
  BY <1>1 DEF Recalls, Moves, Follows

\* What a turn takes down now.
LEMMA RecalledNow ==
    ASSUME NEW tab, tab \in [Jobs -> Row], NEW s \in Snapshots(tab, Jobs), jobs' = tab,
           Nonterminal(s.row)
    PROVE  Recalls(s)' /\ s \in [job : Jobs, row : Row]
<1>1. PICK j \in Jobs : s = [job |-> j, row |-> tab[j]]
  BY DEF Snapshots
<1>2. s.job = j /\ s.row = tab[j] /\ tab[j] \in Row
  BY <1>1
<1>. QED
  BY <1>1, <1>2 DEF Recalls, Nonterminal, NonterminalStates

\* A step that changes neither table nor turn, or only the fields of the turn that
\* name no row.
LEMMA SameSnapshots ==
    ASSUME RowsInv, TableMoves(jobs'), turn'.todo \subseteq turn.todo
    PROVE  \A s \in turn'.todo : Recalls(s)'
BY RecalledLater DEF RowsInv, TurnOK

\* The start of a turn, and of its deadline phase, take the rows of the moment.
LEMMA StartsTurnOK ==
    ASSUME RowsInv, TableMoves(jobs'), StartTurn \/ EndExpired
    PROVE  TurnOK'
<1> DEFINE expired == {s \in Snapshots(jobs', Jobs) : Active(s.row) /\ s.row.lease <= now}
           lapsed == {s \in expired : Actionable(s)}
           overdue == {s \in Snapshots(jobs, Jobs) : Nonterminal(s.row) /\ DeadlineAt(s.row) <= now}
<1>1. jobs' \in [Jobs -> Row] /\ WALL \in Int /\ now \in Int
  BY BudgetAssumption DEF TableMoves, RowsInv
<1>2. CASE StartTurn
  <2>1. turn' = [Asleep EXCEPT !.phase = "expired", !.end = now + WALL, !.todo = lapsed]
    BY <1>2 DEF StartTurn
  <2>2. \A s \in lapsed : s \in Snapshots(jobs', Jobs) /\ Nonterminal(s.row)
    BY DEF Active, Nonterminal, NonterminalStates
  <2>. HIDE DEF lapsed
  <2>3. \A s \in lapsed : Recalls(s)' /\ s \in [job : Jobs, row : Row]
    BY <1>1, <2>2, RecalledNow
  <2>4. turn' \in Turn /\ turn'.phase = "expired" /\ turn'.todo = lapsed
    <3>1. lapsed \in Todos
      BY <2>3 DEF Todos
    <3>2. turn' = [phase |-> "expired", todo |-> lapsed, tried |-> 0, end |-> now + WALL,
                   backlog |-> FALSE, produced |-> FALSE]
      BY <2>1 DEF Asleep, Resting
    <3>. QED
      BY <1>1, <3>1, <3>2 DEF Turn, Phases
  <2>5. call' = call /\ call = NoCall
    BY <1>2 DEF StartTurn, RowsInv, TurnOK
  <2>6. call'.due \in Int /\ call'.abort \in Int /\ ~Reconciling'
    BY <2>5 DEF NoCall, Reconciling
  <2>. QED
    BY <2>3, <2>4, <2>5, <2>6 DEF TurnOK
<1>3. CASE EndExpired
  <2>1. /\ turn' = [turn EXCEPT !.phase = "deadline", !.todo = overdue]
        /\ jobs' = jobs /\ call' = call /\ call = NoCall
    BY <1>3 DEF EndExpired, storeVars, Awaiting
  <2>2. \A s \in overdue : Recalls(s)' /\ s \in [job : Jobs, row : Row]
    BY <1>1, <2>1, RecalledNow
  <2>. HIDE DEF overdue
  <2>3. turn' \in Turn /\ turn'.phase = "deadline" /\ turn'.todo = overdue
    <3>1. overdue \in Todos
      BY <2>2 DEF Todos
    <3>2. turn \in Turn
      BY DEF RowsInv, TurnOK
    <3>. QED
      BY <2>1, <3>1, <3>2 DEF Turn, Phases
  <2>4. call'.due \in Int /\ call'.abort \in Int /\ ~Reconciling'
    BY <2>1 DEF NoCall, Reconciling
  <2>. QED
    BY <2>1, <2>2, <2>3, <2>4 DEF TurnOK
<1>. QED
  BY <1>2, <1>3

\* An item is attempted once.
LEMMA AttemptsTurnOK ==
    ASSUME RowsInv, TableMoves(jobs'), NEW s \in turn.todo, ItemNext(s)
    PROVE  TurnOK'
<1>1. PICK phase \in {"expired", "deadline"} :
         /\ Attempt(phase, s)
         /\ call' = call \/ AskNode(phase, s)
  BY DEF ItemNext, RecoverLease, ExpireRow, SkipPublication, AskNode
<1>2. /\ turn' = [turn EXCEPT !.todo = @ \ {s}, !.tried = @ + 1]
      /\ turn.phase = phase /\ call = NoCall
  BY <1>1 DEF Attempt, Awaiting
<1>3. turn' \in Turn /\ turn'.phase = phase /\ turn'.todo \subseteq turn.todo
  <2> DEFINE rest == turn.todo \ {s}
  <2>1. turn \in Turn
    BY DEF RowsInv, TurnOK
  <2>2. rest \in Todos /\ rest \subseteq turn.todo
    BY <2>1 DEF Turn, Todos
  <2>3. turn' = [turn EXCEPT !.todo = rest, !.tried = turn.tried + 1]
    BY <1>2
  <2>4. turn.tried + 1 \in Nat /\ turn.phase \in Phases
    BY <2>1 DEF Turn
  <2>. HIDE DEF rest
  <2>5. turn' \in Turn
    BY <2>1, <2>2, <2>3, <2>4 DEF Turn
  <2>6. turn'.phase = turn.phase /\ turn'.todo = rest
    BY <2>1, <2>3 DEF Turn
  <2>. QED
    BY <1>2, <2>2, <2>5, <2>6
<1>4. \A t \in turn'.todo : Recalls(t)'
  BY <1>3, SameSnapshots
<1>5. Recalls(s)'
  BY RecalledLater DEF RowsInv, TurnOK
<1>6. CASE call' = NoCall
  <2>1. call'.due \in Int /\ call'.abort \in Int /\ ~Reconciling'
    BY <1>6 DEF NoCall, Reconciling
  <2>. QED
    BY <1>3, <1>4, <1>6, <2>1 DEF TurnOK
<1>7. CASE call' # NoCall
  <2>1. AskNode(phase, s)
    BY <1>1, <1>2, <1>7
  <2> DEFINE timer == CHOOSE n \in Limits(Maintained(jobs)) :
                        \A m \in Limits(Maintained(jobs)) : n <= m
  <2>2. timer \in Int
    BY TimerIsLeast, BudgetAssumption
  <2>3. call' = [item |-> s, abort |-> now + MaintenanceRemaining, due |-> now + timer]
    BY <1>7, <2>1 DEF AskNode, Limits
  <2>4. now \in Int /\ MaintenanceRemaining \in Int
    BY BudgetAssumption DEF RowsInv, TurnOK, Turn, MaintenanceRemaining, Remaining
  <2>. HIDE DEF timer
  <2>5. call'.due \in Int /\ call'.abort \in Int /\ call'.item = s
    BY <2>2, <2>3, <2>4
  <2>6. turn'.phase \in {"expired", "deadline"}
    BY <1>3
  <2>. QED
    BY <1>3, <1>4, <1>5, <2>5, <2>6 DEF TurnOK, Between
<1>. QED
  BY <1>6, <1>7

\* Everything else keeps the rows the turn is to work on, or drops them.
LEMMA OthersTurnOK ==
    ASSUME RowsInv, TableMoves(jobs'),
           \/ EndDeadline \/ RunOut \/ (\E r \in Reconciliations : Conclude(r)) \/ Retry \/ AbortItem
           \/ Dispatch \/ DispatchFails \/ Activated \/ Yield
           \/ BeginOptional \/ StartItem \/ EndItem \/ EndTurn \/ LeaveRest
           \/ Restart \/ ReadPurges \/ Pass \/ (\E j \in Jobs : Others(j))
    PROVE  TurnOK'
<1>1. turn \in Turn /\ TurnOK
  BY DEF RowsInv, TurnOK
<1>2. /\ Asleep \in Turn /\ Asleep.todo = {} /\ Asleep.phase = "asleep"
      /\ Yielded \in Turn /\ Yielded.todo = {} /\ Yielded.phase = "yielded"
  <2>1. {} \in Todos
    BY DEF Todos
  <2>. QED
    BY <2>1 DEF Asleep, Yielded, Resting, Phases, Turn
<1>3. ToDispatch \in Turn /\ ToDispatch.todo = {} /\ ToDispatch.phase = "dispatch"
  <2>1. {} \in Todos
    BY DEF Todos
  <2>. QED
    BY <1>1, <2>1 DEF ToDispatch, Phases, Turn
<1>4. NoCall.due \in Int /\ NoCall.abort \in Int /\ NoCall.item = NoItem
  BY DEF NoCall
<1>5. ASSUME turn' \in Turn, turn'.todo \subseteq turn.todo, call' = NoCall
      PROVE  TurnOK'
  <2>1. \A t \in turn'.todo : Recalls(t)'
    BY <1>5, SameSnapshots
  <2>. QED
    BY <1>4, <1>5, <2>1 DEF TurnOK, Reconciling
<1>6. CASE UNCHANGED <<turn, call>>
  <2>1. \A t \in turn'.todo : Recalls(t)'
    BY <1>6, SameSnapshots
  <2>2. PICK s : s = call.item
    OBVIOUS
  <2>3. Reconciling => Recalls(s)'
    BY <1>1, <2>2, RecalledLater DEF TurnOK
  <2>4. call'.item = s /\ (Reconciling' <=> Reconciling) /\ (Between' <=> Between)
    BY <1>6, <2>2 DEF Reconciling, Between
  <2>5. Reconciling' => Recalls(call.item)'
    BY <2>3, <2>4 DEF Recalls
  <2>. QED
    BY <1>1, <1>6, <2>1, <2>4, <2>5 DEF TurnOK
<1>7. CASE EndDeadline \/ Restart \/ RunOut
  BY <1>2, <1>3, <1>5, <1>7, <1>1 DEF EndDeadline, Restart, RunOut, Awaiting, Phases, Turn
<1>8. CASE (\E r \in Reconciliations : Conclude(r)) \/ Retry \/ AbortItem \/ Activated
  BY <1>1, <1>3, <1>5, <1>8 DEF Conclude, Retry, AbortItem, Activated
<1>9. CASE Yield \/ DispatchFails \/ BeginOptional \/ EndTurn \/ LeaveRest
  <2>1. call' = NoCall
    BY <1>9, <1>1 DEF Yield, DispatchFails, BeginOptional, EndTurn, LeaveRest, Awaiting, TurnOK
  <2>2. turn' = Yielded \/ turn' = Asleep \/ turn' = [turn EXCEPT !.phase = "optional", !.tried = 0]
    BY <1>9 DEF Yield, DispatchFails, BeginOptional, EndTurn, LeaveRest
  <2>3. turn' \in Turn /\ turn'.todo \subseteq turn.todo
    <3>1. CASE turn' = [turn EXCEPT !.phase = "optional", !.tried = 0]
      BY <1>1, <3>1 DEF Phases, Turn
    <3>. QED
      BY <1>2, <2>2, <3>1
  <2>. QED
    BY <1>5, <2>1, <2>3
<1>10. CASE Dispatch \/ StartItem
  <2>1. /\ turn' \in Turn /\ turn'.todo \subseteq turn.todo
        /\ turn'.phase \in {"dispatched", "optional"}
    <3>1. CASE turn' = [turn EXCEPT !.phase = "dispatched"]
      BY <1>1, <3>1 DEF Phases, Turn
    <3>2. CASE turn.phase = "optional" /\ turn' = [turn EXCEPT !.tried = turn.tried + 1]
      <4>1. turn.tried + 1 \in Nat
        BY <1>1 DEF Turn
      <4>. QED
        BY <1>1, <3>2, <4>1 DEF Turn
    <3>. QED
      BY <1>10, <3>1, <3>2 DEF Dispatch, StartItem
  <2>2. CASE call' = NoCall
    BY <1>5, <2>1, <2>2
  <2>3. CASE call' = [NoCall EXCEPT !.due = turn.end, !.abort = turn.end]
    <3>1. call'.item = NoItem /\ call'.due \in Int /\ call'.abort \in Int
      BY <1>1, <2>3 DEF NoCall, Turn
    <3>2. \A t \in turn'.todo : Recalls(t)'
      BY <2>1, SameSnapshots
    <3>. QED
      BY <2>1, <3>1, <3>2 DEF TurnOK, Between, Reconciling
  <2>. QED
    BY <1>10, <2>2, <2>3 DEF Dispatch, StartItem
<1>11. CASE EndItem
  <2>1. call' = NoCall /\ turn'.todo \subseteq turn.todo /\ turn' \in Turn
    BY <1>1, <1>2, <1>11 DEF EndItem, Turn
  <2>. QED
    BY <1>5, <2>1
<1>12. CASE ReadPurges \/ Pass \/ (\E j \in Jobs : Others(j))
  BY <1>6, <1>12 DEF ReadPurges, Pass, Others
<1>. QED
  BY <1>7, <1>8, <1>9, <1>10, <1>11, <1>12

\* Every step moves the table, and no step moves it while time passes.
LEMMA ActsMove ==
    ASSUME RowsInv, Acts
    PROVE  /\ TableMoves(jobs')
           /\ now' \in Nat \ {0}
           /\ now' = now \/ jobs' = jobs
<1>1. TableMoves(jobs) /\ TableMoves(Maintained(jobs)) /\ now \in Nat \ {0}
  BY SameTableMoves DEF RowsInv
<1>2. CASE StartTurn
  BY <1>1, <1>2 DEF StartTurn
<1>3. CASE EndExpired \/ EndDeadline \/ RunOut \/ AbortItem
  BY <1>1, <1>3 DEF EndExpired, EndDeadline, RunOut, AbortItem, storeVars
<1>4. ASSUME NEW s \in turn.todo, ItemNext(s)
      PROVE  TableMoves(jobs') /\ now' = now
  <2>1. CASE RecoverLease(s) \/ ExpireRow(s)
    BY <2>1, ItemMoves DEF RecoverLease, ExpireRow, Attempt
  <2>2. CASE \E phase \in {"expired", "deadline"} : SkipPublication(phase, s) \/ AskNode(phase, s)
    BY <1>1, <2>2 DEF SkipPublication, AskNode, Attempt
  <2>. QED
    BY <1>4, <2>1, <2>2 DEF ItemNext
<1>5. CASE (\E r \in Reconciliations : Conclude(r)) \/ Retry
  BY <1>5, AnswerMoves, <1>1 DEF Conclude, Retry
<1>6. CASE Dispatch
  BY <1>6, DispatchMoves, <1>1 DEF Dispatch
<1>7. CASE DispatchFails \/ Activated \/ Yield \/ BeginOptional \/ StartItem \/ EndTurn \/ LeaveRest
           \/ Restart
  BY <1>1, <1>7
     DEF DispatchFails, Activated, Yield, BeginOptional, StartItem, EndTurn, LeaveRest, Restart,
         storeVars
<1>8. CASE EndItem
  BY <1>1, <1>8, AdmissionMoves DEF EndItem, AdmitDurableScanJob, storeVars
<1>9. CASE ReadPurges \/ (\E j \in Jobs : Others(j))
  <2>1. now' = now
    BY <1>9
       DEF ReadPurges, SettleSynchronizeAndPurge, Others, AdmitDurableScanJob,
           CancelDurableScanJob, HeartbeatDurableScanJob, BeginPublishingDurableScanJob,
           ResolveDurableScanJob
  <2>. QED
    BY <1>1, <1>9, <2>1, OthersMove
<1>10. CASE Pass
  BY <1>1, <1>10 DEF Pass, Tick
<1>. QED
  BY <1>1, <1>2, <1>3, <1>4, <1>5, <1>6, <1>7, <1>8, <1>9, <1>10 DEF Acts, TurnNext

\* RowsInv is inductive.
LEMMA RowsInit ==
    ASSUME Init
    PROVE  RowsInv
<1>1. StoreInit /\ Inv
  BY InvInit DEF Init
<1>2. \A j \in Jobs : jobs[j].state = "unborn"
  BY <1>1 DEF StoreInit, NoRow
<1>3. TurnOK
  BY DEF Init, TurnOK, Turn, Todos, Asleep, Resting, Phases, NoCall, Between, Reconciling
<1>. QED
  BY <1>1, <1>2, <1>3 DEF RowsInv, Inv, FitRow

\* RowsInv is inductive.
LEMMA RowsStep ==
    ASSUME RowsInv, [Next]_vars
    PROVE  RowsInv'
<1>1. CASE Next
  <2>1. Acts
    BY <1>1 DEF Next, Acts
  <2>2. TableMoves(jobs') /\ now' \in Nat \ {0}
    BY <2>1, ActsMove
  <2>3. TurnOK'
    BY <2>1, <2>2, StartsTurnOK, AttemptsTurnOK, OthersTurnOK DEF Acts, TurnNext
  <2>. QED
    BY <2>2, <2>3 DEF RowsInv, TableMoves, Moves
<1>2. CASE UNCHANGED vars
  BY <1>2 DEF vars, storeVars, RowsInv, TurnOK, Recalls, Between, Reconciling
<1>. QED
  BY <1>1, <1>2

-----------------------------------------------------------------------------
(***************************************************************************)
(* How long a job waits that could be claimed.                             *)
(***************************************************************************)
Maintenance == {"expired", "deadline", "dispatch"}
Serving == {"dispatched", "optional"}

\* What restarts, failed dispatches and aborted items may have cost.
Slack == trouble * WALL

\* One trouble more is one turn more.
LEMMA SlackAdds == \A t, w \in Nat : t * w \in Nat /\ (t + 1) * w = t * w + w
OBVIOUS

\* Between turns a wait is at most what was left of the turn before; it is that at
\* the start of a turn, and a dispatch begins it anew.
Waited ==
    /\ Between => now - freeSince <= WALL + Slack
    /\ turn.phase \in Maintenance => turn.end - WALL - freeSince <= WALL + Slack
    /\ turn.phase \in Serving => turn.end - WALL <= freeSince

\* Nothing is awaited past the budget, nor by maintenance into the reserve.
InTime ==
    /\ ~Between => turn.end - WALL <= now
    /\ turn.phase \in Maintenance =>
          now <= turn.end - RESERVE /\ (Awaiting => call.due <= turn.end - RESERVE)
    /\ turn.phase \in Serving => now <= turn.end /\ (Awaiting => call.due <= turn.end)

ClockInv ==
    /\ freeSince \in Nat /\ freeSince <= now /\ trouble \in Nat
    /\ InTime
    /\ freeSince # 0 => IsFree(jobs, now) /\ Waited

\* The phases are told apart.
LEMMA PhasesApart ==
    ASSUME RowsInv
    PROVE  /\ Between \/ turn.phase \in Maintenance \/ turn.phase \in Serving
           /\ turn.phase \in Maintenance \cup Serving => ~Between
           /\ turn.phase \in Maintenance => turn.phase \notin Serving
           /\ turn.end \in Int /\ call.due \in Int /\ now \in Nat
           /\ WALL \in Nat /\ RESERVE \in Nat /\ RESERVE < WALL
BY BudgetAssumption DEF RowsInv, TurnOK, Turn, Phases, Between, Maintenance, Serving

\* A free slot and a job for it are a reason to wake up ...
LEMMA FreeIsDue ==
    ASSUME IsFree(jobs, now)
    PROVE  WakeIsDue
BY DEF IsFree, WakeIsDue

\* ... and to claim.
LEMMA FreeIsClaimed ==
    ASSUME RowsInv, IsFree(jobs, now)
    PROVE  Claimed # {}
<1>1. Inv /\ now \in Int
  BY RowsAreGood DEF RowsInv
<1>2. PICK j \in Jobs : jobs[j].state = "queued" /\ DeadlineAt(jobs[j]) > now
  BY DEF IsFree
<1>3. j \in Claimable(jobs)
  BY <1>2 DEF RowsInv, FitRow, Claimable
<1>4. /\ Claimable(jobs) \in SUBSET Jobs /\ IsFiniteSet(Claimable(jobs))
      /\ ActiveJobs(jobs) \in SUBSET Jobs
  BY JobSetsFinite DEF Claimable, ActiveJobs
<1>5. PICK k \in Claimable(jobs) : Before(CreationOrder(jobs), Claimable(jobs), k) = {}
  BY <1>1, <1>3, <1>4, CreationOrders, FirstExists
<1>6. {i \in Claimable(jobs) : CreatedBefore(jobs, i, k)} = {}
  BY <1>4, <1>5 DEF Before, CreationOrder
<1>7. Cardinality(ActiveJobs(jobs)) \in Nat
      /\ Cardinality(ActiveJobs(jobs)) < EXECUTION_CAPACITY /\ EXECUTION_CAPACITY \in Nat
  BY <1>4, JobSetsFinite, LimitAssumption DEF IsFree
<1>8. Cardinality({i \in Claimable(jobs) : CreatedBefore(jobs, i, k)})
        < EXECUTION_CAPACITY - Cardinality(ActiveJobs(jobs))
  BY <1>6, <1>7, FS_EmptySet
<1>. QED
  BY <1>8 DEF Claimed

\* A claim uses up an attempt.
LEMMA DispatchClaims ==
    ASSUME RowsInv, Dispatch, NEW j \in Claimed
    PROVE  j \in Jobs /\ jobs[j].attempts < jobs'[j].attempts
<1>1. PICK invalid \in SUBSET Claimed :
         jobs' = [k \in Jobs |->
                    IF k \in invalid
                      THEN Terminalized(ClaimedRow(jobs[k]), "failed", "payload-invalid")
                    ELSE IF k \in Claimed THEN ClaimedRow(jobs[k]) ELSE jobs[k]]
  BY DEF Dispatch
<1>2. j \in Jobs
  BY DEF Claimed, Claimable
<1>3. jobs[j].attempts \in Int
  BY <1>2, RowColumns DEF RowsInv
<1>4. jobs'[j].attempts = jobs[j].attempts + 1
  BY <1>1, <1>2 DEF ClaimedRow, Terminalized
<1>. QED
  BY <1>2, <1>3, <1>4

\* The pace of a step: what it does to the clock, the turn and its call.
Starts ==
    /\ Between /\ now' = now /\ trouble' = trouble
    /\ turn'.phase = "expired" /\ turn'.end = now + WALL /\ call' = NoCall
Maintains ==
    /\ turn.phase \in Maintenance /\ turn'.phase \in Maintenance
    /\ now' = now /\ turn'.end = turn.end
    /\ trouble' = trouble \/ trouble' = trouble + 1
    /\ call' = NoCall \/ call' = call \/ call'.due <= turn.end - RESERVE
Dispatches ==
    /\ turn.phase = "dispatch" /\ turn'.phase = "dispatched"
    /\ now' = now /\ turn'.end = turn.end /\ trouble' = trouble
    /\ call' = NoCall \/ call'.due = turn.end
    /\ IsFree(jobs, now) => Claims
Serves ==
    /\ turn.phase \in Serving /\ turn'.phase \in Serving
    /\ now' = now /\ turn'.end = turn.end /\ trouble' = trouble
    /\ call' = NoCall \/ call' = call \/ call'.due = turn.end
Stops ==
    /\ ~Between /\ turn'.phase \in {"asleep", "yielded"} /\ now' = now
    /\ \/ trouble' = trouble + 1
       \/ trouble' = trouble /\ (turn.phase \in Serving \/ (turn.phase = "dispatch" /\ Remaining <= 0))
Stays == UNCHANGED <<turn, call, trouble, now>>
Passes ==
    /\ UNCHANGED <<turn, call, trouble, jobs>> /\ now' = now + 1
    /\ (turn.phase = "asleep" /\ ~WakeIsDue) \/ (Awaiting /\ now < call.due)

\* A reconciliation is given no more time than maintenance has left.
LEMMA ItemPace ==
    ASSUME RowsInv, NEW s \in turn.todo, ItemNext(s)
    PROVE  Maintains
<1>1. PICK phase \in {"expired", "deadline"} :
         /\ Attempt(phase, s)
         /\ call' = call \/ AskNode(phase, s)
  BY DEF ItemNext, RecoverLease, ExpireRow, SkipPublication, AskNode
<1>2. turn' = [turn EXCEPT !.todo = @ \ {s}, !.tried = @ + 1]
      /\ turn.phase = phase /\ now' = now /\ trouble' = trouble
  BY <1>1 DEF Attempt
<1>3. turn'.phase = phase /\ turn'.end = turn.end
  BY <1>2 DEF RowsInv, TurnOK, Turn
<1>4. CASE AskNode(phase, s) /\ call' # NoCall
  <2> DEFINE timer == CHOOSE n \in Limits(Maintained(jobs)) :
                        \A m \in Limits(Maintained(jobs)) : n <= m
  <2>1. timer \in Int /\ timer <= MaintenanceRemaining
    BY TimerIsLeast, BudgetAssumption
  <2>2. call' = [item |-> s, abort |-> now + MaintenanceRemaining, due |-> now + timer]
    BY <1>4 DEF AskNode, Limits
  <2>3. call'.due = now + timer
    BY <2>2
  <2>4. now \in Int /\ turn.end \in Int /\ RESERVE \in Int
    BY PhasesApart
  <2>. HIDE DEF timer
  <2>5. call'.due <= turn.end - RESERVE
    BY <2>1, <2>3, <2>4 DEF MaintenanceRemaining, Remaining
  <2>. QED
    BY <1>2, <1>3, <2>5 DEF Maintains, Maintenance
<1>. QED
  BY <1>1, <1>2, <1>3, <1>4 DEF Maintains, Maintenance

\* Every step has one of these paces.
LEMMA Paces ==
    ASSUME RowsInv, Acts
    PROVE  Starts \/ Maintains \/ Dispatches \/ Serves \/ Stops \/ Stays \/ Passes
<1>1. turn \in Turn /\ (Between \/ turn.phase = "dispatch" => call = NoCall)
  BY DEF RowsInv, TurnOK
<1>2. CASE StartTurn
  BY <1>1, <1>2 DEF StartTurn, Starts, Asleep, Resting
<1>3. CASE EndExpired \/ EndDeadline \/ RunOut \/ AbortItem
  <2>1. turn.phase \in Maintenance
    BY <1>3
       DEF EndExpired, EndDeadline, RunOut, AbortItem, RowsInv, TurnOK, Maintenance
  <2>2. turn'.phase \in Maintenance /\ turn'.end = turn.end
    BY <1>1, <1>3 DEF EndExpired, EndDeadline, RunOut, AbortItem, ToDispatch, Maintenance, Turn
  <2>. QED
    BY <1>3, <2>1, <2>2 DEF EndExpired, EndDeadline, RunOut, AbortItem, storeVars, Maintains
<1>4. ASSUME NEW s \in turn.todo, ItemNext(s)
      PROVE  Maintains
  BY <1>4, ItemPace
<1>5. CASE (\E r \in Reconciliations : Conclude(r)) \/ Retry
  <2>1. Reconciling /\ UNCHANGED <<turn, now, trouble>> /\ call' = NoCall
    BY <1>5 DEF Conclude, Retry
  <2>2. turn.phase \in Maintenance
    BY <2>1 DEF RowsInv, TurnOK, Maintenance
  <2>. QED
    BY <2>1, <2>2 DEF Maintains
<1>6. CASE Dispatch
  <2>1. IsFree(jobs, now) => Claims
    BY <1>6, FreeIsClaimed, DispatchClaims DEF Claims
  <2>2. call' = NoCall \/ call'.due = turn.end
    BY <1>6 DEF Dispatch, NoCall
  <2>3. turn'.phase = "dispatched" /\ turn'.end = turn.end
    BY <1>1, <1>6 DEF Dispatch, Turn
  <2>. QED
    BY <1>6, <2>1, <2>2, <2>3 DEF Dispatches, Dispatch
<1>7. CASE DispatchFails \/ Yield \/ Restart
  BY <1>7
     DEF DispatchFails, Yield, Restart, Stops, Yielded, Resting, Between, storeVars, Serving
<1>8. CASE Activated \/ BeginOptional \/ StartItem
  <2>1. turn.phase \in Serving /\ turn'.phase \in Serving /\ turn'.end = turn.end
    BY <1>1, <1>8 DEF Activated, BeginOptional, StartItem, Serving, Turn
  <2>2. call' = NoCall \/ call' = call \/ call'.due = turn.end
    BY <1>8 DEF Activated, BeginOptional, StartItem, NoCall
  <2>. QED
    BY <1>8, <2>1, <2>2 DEF Activated, BeginOptional, StartItem, Serves, storeVars
<1>9. CASE EndItem
  <2>1. turn.phase = "optional" /\ call' = NoCall /\ now' = now /\ trouble' = trouble
    BY <1>9 DEF EndItem, AdmitDurableScanJob, storeVars
  <2>2. CASE turn' = Yielded
    BY <2>1, <2>2 DEF Stops, Yielded, Resting, Between, Serving
  <2>3. CASE turn' # Yielded
    <3>1. turn'.phase = "optional" /\ turn'.end = turn.end
      BY <1>1, <1>9, <2>1, <2>3 DEF EndItem, Turn
    <3>. QED
      BY <2>1, <3>1 DEF Serves, Serving
  <2>. QED
    BY <2>2, <2>3
<1>10. CASE EndTurn \/ LeaveRest
  BY <1>10 DEF EndTurn, LeaveRest, Stops, Asleep, Yielded, Resting, Between, storeVars, Serving
<1>11. CASE ReadPurges \/ (\E j \in Jobs : Others(j))
  BY <1>11
     DEF ReadPurges, SettleSynchronizeAndPurge, Others, AdmitDurableScanJob,
         CancelDurableScanJob, HeartbeatDurableScanJob, BeginPublishingDurableScanJob,
         ResolveDurableScanJob, Stays
<1>12. CASE Pass
  BY <1>12 DEF Pass, Tick, Passes
<1>. QED
  BY <1>2, <1>3, <1>4, <1>5, <1>6, <1>7, <1>8, <1>9, <1>10, <1>11, <1>12 DEF Acts, TurnNext

\* ClockInv holds at first.
LEMMA ClockInit ==
    ASSUME Init
    PROVE  ClockInv
<1>1. now = 1 /\ turn.phase = "asleep" /\ freeSince = 0 /\ trouble = 0
  BY DEF Init, StoreInit, Asleep, Resting
<1>. QED
  BY <1>1 DEF ClockInv, InTime, Between, Maintenance, Serving

\* The budget is kept.
LEMMA InTimeStep ==
    ASSUME RowsInv, RowsInv', InTime, Acts
    PROVE  InTime'
<1>1. /\ Between \/ turn.phase \in Maintenance \/ turn.phase \in Serving
      /\ turn.phase \in Maintenance \cup Serving => ~Between
      /\ turn.phase \in Maintenance => turn.phase \notin Serving
      /\ turn.end \in Int /\ call.due \in Int /\ now \in Nat
      /\ WALL \in Nat /\ RESERVE \in Nat /\ RESERVE < WALL
      /\ Awaiting => ~Between
  BY PhasesApart DEF RowsInv, TurnOK, Awaiting
<1>2. /\ turn'.phase \in Maintenance \cup Serving => ~Between'
      /\ turn'.phase \in Maintenance => turn'.phase \notin Serving
      /\ turn'.end \in Int /\ call'.due \in Int /\ now' \in Nat
  BY PhasesApart DEF RowsInv, TurnOK, Turn, Between, Maintenance, Serving
<1>3. (call' = NoCall => ~Awaiting') /\ (call' = call => (Awaiting' <=> Awaiting))
  BY DEF Awaiting
<1>4. CASE Starts
  BY <1>1, <1>2, <1>3, <1>4 DEF Starts, InTime, Maintenance, Serving
<1>5. CASE Maintains
  <2>1. Awaiting' => call'.due <= turn.end - RESERVE
    BY <1>3, <1>5 DEF Maintains, InTime
  <2>. QED
    BY <1>1, <1>2, <1>5, <2>1 DEF Maintains, InTime
<1>6. CASE Dispatches
  BY <1>1, <1>2, <1>3, <1>6 DEF Dispatches, InTime, Maintenance, Serving
<1>7. CASE Serves
  <2>1. Awaiting' => call'.due <= turn.end
    BY <1>1, <1>3, <1>7 DEF Serves, InTime
  <2>. QED
    BY <1>1, <1>2, <1>7, <2>1 DEF Serves, InTime
<1>8. CASE Stops
  BY <1>8 DEF Stops, InTime, Between, Maintenance, Serving
<1>9. CASE Stays
  BY <1>9 DEF Stays, InTime, Between, Awaiting
<1>10. CASE Passes
  <2>1. turn' = turn /\ call' = call /\ now' = now + 1
    BY <1>10 DEF Passes
  <2>2. CASE Between
    BY <2>1, <2>2, <1>1 DEF InTime, Between
  <2>3. CASE ~Between
    <3>1. Awaiting /\ now < call.due
      BY <1>10, <2>3 DEF Passes, Between
    <3>. QED
      BY <1>1, <2>1, <3>1 DEF InTime, Between, Awaiting
  <2>. QED
    BY <2>2, <2>3
<1>. QED
  BY <1>4, <1>5, <1>6, <1>7, <1>8, <1>9, <1>10, Paces

\* A wait that goes on is measured by the next phase.
LEMMA WaitedStep ==
    ASSUME RowsInv, RowsInv', ClockInv, Acts,
           freeSince # 0, freeSince' = freeSince, ~Claims
    PROVE  Waited'
<1>1. /\ Between \/ turn.phase \in Maintenance \/ turn.phase \in Serving
      /\ turn.phase \in Maintenance \cup Serving => ~Between
      /\ turn.end \in Int /\ now \in Nat /\ freeSince \in Nat /\ trouble \in Nat
      /\ WALL \in Nat /\ RESERVE \in Nat /\ RESERVE < WALL
      /\ RESERVE > 0
      /\ IsFree(jobs, now) /\ Waited /\ InTime
  BY PhasesApart, BudgetAssumption DEF ClockInv
<1>2. /\ turn'.phase \in Maintenance \cup Serving => ~Between'
      /\ turn'.phase \in Maintenance => turn'.phase \notin Serving
      /\ turn'.end \in Int /\ now' \in Nat
  BY PhasesApart DEF RowsInv, TurnOK, Turn, Between, Maintenance, Serving
<1>3. /\ Slack \in Nat
      /\ trouble' = trouble => Slack' = Slack
      /\ trouble' = trouble + 1 => Slack' = Slack + WALL
  <2>1. trouble * WALL \in Nat /\ (trouble + 1) * WALL = trouble * WALL + WALL
    BY <1>1
  <2>. QED
    BY <2>1 DEF Slack
<1>4. CASE Starts
  BY <1>1, <1>2, <1>3, <1>4 DEF Starts, Waited, Maintenance, Serving
<1>5. CASE Maintains
  BY <1>1, <1>2, <1>3, <1>5 DEF Maintains, Waited
<1>6. CASE Dispatches
  BY <1>1, <1>6 DEF Dispatches
<1>7. CASE Serves
  BY <1>1, <1>2, <1>3, <1>7 DEF Serves, Waited
<1>8. CASE Stops
  <2>1. Between' /\ turn'.phase \notin Maintenance \cup Serving
    BY <1>8 DEF Stops, Between, Maintenance, Serving
  <2>2. now - freeSince <= WALL + Slack'
    <3>1. CASE turn.phase \in Serving
      BY <1>1, <1>3, <1>8, <3>1 DEF Stops, Waited, InTime
    <3>2. CASE turn.phase \in Maintenance /\ trouble' = trouble + 1
      BY <1>1, <1>3, <3>2 DEF Waited, InTime
    <3>3. CASE turn.phase = "dispatch" /\ Remaining <= 0
      BY <1>1, <3>3 DEF InTime, Remaining, Maintenance
    <3>. QED
      BY <1>1, <1>8, <3>1, <3>2, <3>3 DEF Stops
  <2>. QED
    BY <1>8, <2>1, <2>2 DEF Stops, Waited
<1>9. CASE Stays
  BY <1>1, <1>3, <1>9 DEF Stays, Waited, Between
<1>10. CASE Passes
  <2>1. Awaiting /\ turn' = turn /\ Slack' = Slack
    BY <1>1, <1>3, <1>10, FreeIsDue DEF Passes
  <2>2. ~Between
    BY <2>1 DEF RowsInv, TurnOK, Awaiting
  <2>. QED
    BY <1>1, <2>1, <2>2 DEF Waited, Between
<1>. QED
  BY <1>4, <1>5, <1>6, <1>7, <1>8, <1>9, <1>10, Paces

\* ClockInv is inductive.
LEMMA ClockStep ==
    ASSUME RowsInv, RowsInv', ClockInv, [Next]_vars
    PROVE  ClockInv'
<1>1. CASE Next
  <2>1. Acts
    BY <1>1 DEF Next, Acts
  <2>2. /\ freeSince' = IF ~IsFree(jobs', now') THEN 0
                        ELSE IF freeSince = 0 \/ Claims THEN now' ELSE freeSince
    BY <1>1 DEF Next
  <2>3. /\ now \in Nat /\ now' \in Nat /\ now <= now' /\ freeSince \in Nat /\ freeSince <= now
        /\ trouble \in Nat
    BY <2>1, ActsMove, Paces, PhasesApart
       DEF ClockInv, RowsInv, Starts, Maintains, Dispatches, Serves, Stops, Stays, Passes
  <2>4. trouble' \in Nat
    BY <2>1, <2>3, Paces DEF Starts, Maintains, Dispatches, Serves, Stops, Stays, Passes
  <2>5. InTime'
    BY <2>1, InTimeStep DEF ClockInv
  <2>6. freeSince' \in Nat /\ freeSince' <= now'
    BY <2>2, <2>3
  <2>7. freeSince' # 0 => IsFree(jobs, now)'
    BY <2>2 DEF IsFree, ActiveJobs, Active, DeadlineAt
  <2>8. ASSUME freeSince' # 0 PROVE Waited'
    <3>1. CASE freeSince' = now'
      <4>1. /\ turn'.phase \in Maintenance \cup Serving => ~Between'
            /\ turn'.end \in Int /\ WALL \in Nat /\ Slack' \in Nat
        <5>1. WALL \in Nat
          BY PhasesApart
        <5>2. trouble' * WALL \in Nat
          BY <2>4, <5>1, SlackAdds
        <5>3. Slack' \in Nat
          BY <5>2 DEF Slack
        <5>4. turn'.end \in Int
          BY DEF RowsInv, TurnOK, Turn
        <5>5. turn'.phase \in Maintenance \cup Serving => ~Between'
          BY DEF Between, Maintenance, Serving
        <5>. QED
          BY <5>1, <5>3, <5>4, <5>5
      <4>2. now' - freeSince' = 0
        <5>1. PICK n \in Nat : n = now'
          BY <2>3
        <5>2. n - n = 0
          OBVIOUS
        <5>. QED
          BY <5>1, <5>2, <3>1
      <4>3. ~Between' => turn'.end - WALL <= freeSince'
        BY <2>5, <3>1 DEF InTime
      <4>4. turn'.phase \in Maintenance => turn'.end - WALL - freeSince' <= WALL + Slack'
        BY <2>6, <4>1, <4>3
      <4>. QED
        BY <4>1, <4>2, <4>3, <4>4 DEF Waited
    <3>2. CASE freeSince # 0 /\ freeSince' = freeSince /\ ~Claims
      BY <2>1, <3>2, WaitedStep
    <3>. QED
      BY <2>2, <2>8, <3>1, <3>2
  <2>. QED
    BY <2>4, <2>5, <2>6, <2>7, <2>8 DEF ClockInv
<1>2. CASE UNCHANGED vars
  BY <1>2
     DEF vars, storeVars, ClockInv, InTime, Waited, Slack, Between, Awaiting, IsFree, ActiveJobs,
         Active, DeadlineAt
<1>. QED
  BY <1>1, <1>2

\* A job that can be claimed, beside a free slot, is claimed within two turns less the
\* reserve of one, however long each reconciliation and activation may hang; what a restart or a
\* failed dispatch costs is one turn more.
THEOREM SlotsAreUsed == Spec => []FreeSlotIsUsed
<1>1. RowsInv /\ ClockInv => FreeSlotIsUsed
  <2>. SUFFICES ASSUME RowsInv, ClockInv, freeSince # 0
                PROVE  now - freeSince <= 2 * WALL - RESERVE + Slack
    BY DEF FreeSlotIsUsed, Slack
  <2>1. /\ Between \/ turn.phase \in Maintenance \/ turn.phase \in Serving
        /\ turn.end \in Int /\ now \in Nat /\ freeSince \in Nat
        /\ WALL \in Nat /\ RESERVE \in Nat /\ RESERVE < WALL
        /\ Waited /\ InTime
    BY PhasesApart DEF ClockInv
  <2>2. Slack \in Nat
    BY <2>1 DEF ClockInv, Slack
  <2>. QED
    BY <2>1, <2>2 DEF Waited, InTime
<1>2. Init => RowsInv /\ ClockInv
  BY RowsInit, ClockInit
<1>3. RowsInv /\ ClockInv /\ [Next]_vars => (RowsInv /\ ClockInv)'
  BY RowsStep, ClockStep
<1>. QED
  BY <1>1, <1>2, <1>3, PTL DEF Spec

-----------------------------------------------------------------------------
(***************************************************************************)
(* What a turn finds that has nothing to do.                               *)
(***************************************************************************)
Lapsed ==
    {s \in Snapshots(jobs, Jobs) : Active(s.row) /\ s.row.lease <= now /\ Actionable(s)}
Overdue ==
    {s \in Snapshots(jobs, Jobs) : Nonterminal(s.row) /\ DeadlineAt(s.row) <= now}

Backoff == [generation : Nat, attempt : 0..3, nextAt : Int]
BackoffOK == backoff \in [Jobs -> Backoff]

\* A turn that has had no item yet still has its whole budget, and before it all that
\* was there to do.
Fresh == turn.phase \in {"expired", "deadline"} /\ turn.tried = 0
Untouched ==
    /\ call = NoCall /\ now = turn.end - WALL
    /\ \A j \in Jobs : Present(jobs[j]) => ~(PurgeAt(jobs[j]) <= now)
    /\ turn.phase = "expired" => turn.todo = Lapsed
    /\ turn.phase = "deadline" => turn.todo = Overdue

\* So does one that has changed no row and awaited nothing, and what it is through with
\* is not there.
StillInv ==
    still /\ ~Between =>
        /\ Untouched
        /\ turn.phase \in {"expired", "deadline"} => turn.tried = 0
        /\ turn.phase # "optional" => ~turn.backlog
        /\ turn.phase \in {"deadline", "dispatch", "dispatched"} => Lapsed = {}
        /\ turn.phase \in {"dispatch", "dispatched"} => Overdue = {}
        /\ turn.phase = "dispatched" => ~IsFree(jobs, now)

\* Backoff rows keep their types.
LEMMA BackoffStep ==
    ASSUME RowsInv, BackoffOK, Acts
    PROVE  BackoffOK'
<1>1. NoBackoff \in Backoff
  BY DEF NoBackoff, Backoff
<1>2. ASSUME NEW table \in [Jobs -> Backoff], NEW tab
      PROVE  Pruned(table, tab) \in [Jobs -> Backoff]
  BY <1>1 DEF Pruned
<1>3. CASE Retry
  <2> DEFINE s == call.item
             new == BackoffAfter(s)
             failed == Pruned([backoff EXCEPT ![s.job] = new], Maintained(jobs))
  <2>1. s \in [job : Jobs, row : Row]
    BY <1>3 DEF Retry, RowsInv, TurnOK, Recalls
  <2>2. /\ s.job \in Jobs /\ s.row.generation \in Nat /\ s.row.created \in Int
        /\ backoff[s.job] \in Backoff
    BY <2>1, RowColumns DEF BackoffOK
  <2>3. DeadlineAt(s.row) \in Int /\ now \in Int
    BY <2>2, TimingAssumption DEF DeadlineAt, RowsInv
  <2>4. new \in Backoff
    <3> DEFINE attempt == IF backoff[s.job].generation = s.row.generation
                          THEN Earlier(3, backoff[s.job].attempt + 1) ELSE 1
    <3>1. attempt \in 1..3
      BY <2>2 DEF Backoff, Earlier
    <3>2. BACKOFF[attempt] \in Nat
      BY <3>1, BudgetAssumption
    <3>. HIDE DEF attempt
    <3>3. Earlier(now + BACKOFF[attempt], DeadlineAt(s.row)) \in Int
      BY <2>3, <3>2 DEF Earlier
    <3>4. new = [generation |-> s.row.generation, attempt |-> attempt,
                 nextAt |-> Earlier(now + BACKOFF[attempt], DeadlineAt(s.row))]
      BY DEF BackoffAfter, attempt
    <3>. HIDE DEF new
    <3>. QED
      BY <2>2, <3>1, <3>3, <3>4 DEF Backoff
  <2>. HIDE DEF new
  <2>5. [backoff EXCEPT ![s.job] = new] \in [Jobs -> Backoff]
    BY <2>4 DEF BackoffOK
  <2>6. failed \in [Jobs -> Backoff]
    BY <1>2, <2>5
  <2>7. backoff' = failed \/ backoff' = [failed EXCEPT ![s.job] = NoBackoff]
    BY <1>3 DEF Retry, new
  <2>. HIDE DEF failed
  <2>. QED
    BY <1>1, <2>6, <2>7 DEF BackoffOK
<1>4. CASE backoff' = backoff \/ backoff' = Pruned(backoff, jobs')
  BY <1>2, <1>4 DEF BackoffOK
<1>5. \/ Retry \/ backoff' = backoff \/ backoff' = Pruned(backoff, jobs')
  BY DEF Acts, TurnNext, ItemNext, StartTurn, EndExpired, EndDeadline, RunOut, RecoverLease,
         ExpireRow, SkipPublication, AskNode, Conclude, AbortItem, Dispatch, DispatchFails,
         Activated, Yield, BeginOptional, StartItem, EndItem, EndTurn, LeaveRest, Restart,
         ReadPurges, Pass, Others
<1>. QED
  BY <1>3, <1>4, <1>5

\* What is listed of the rows of the moment.
LEMMA SnapshotRows ==
    ASSUME NEW tab, NEW s \in Snapshots(tab, Jobs)
    PROVE  s.job \in Jobs /\ s.row = tab[s.job] /\ s = [job |-> s.job, row |-> tab[s.job]]
BY DEF Snapshots

\* Pruning the backoff of rows that are not being published delays nothing.
LEMMA PrunedIsDue ==
    ASSUME RowsInv', NEW s \in Snapshots(jobs', Jobs), backoff' = Pruned(backoff, jobs'),
           now' = now
    PROVE  Actionable(s)' <=> Actionable(s)
<1>1. s.job \in Jobs /\ s.row = jobs'[s.job]
  BY SnapshotRows
<1>2. CASE s.row.state # "publishing"
  BY <1>2 DEF Actionable
<1>3. CASE s.row.state = "publishing"
  <2>1. s.row.generation # 0
    BY <1>1, <1>3 DEF RowsInv, FitRow, GoodRow, Active
  <2>2. \/ backoff'[s.job] = backoff[s.job]
        \/ /\ backoff'[s.job].generation # s.row.generation
           /\ backoff[s.job].generation # s.row.generation
    BY <1>1, <1>3, <2>1 DEF Pruned, NoBackoff
  <2>3. ReconciliationIsDue(s)' <=> ReconciliationIsDue(s)
    BY <2>2 DEF ReconciliationIsDue, SettlementAt, DeadlineAt
  <2>. QED
    BY <2>3 DEF Actionable, DeadlineAt
<1>. QED
  BY <1>2, <1>3

\* Node is asked about a row that is not past its purge.
LEMMA NodeIsAsked ==
    ASSUME NEW phase, NEW s, AskNode(phase, s), ~(PurgeAt(s.row) <= now)
    PROVE  call'.item = s
<1> DEFINE limits == {RECONCILIATION_TIMEOUT, MaintenanceRemaining}
                        \cup {PurgeAt(t.row) - now : t \in Snapshots(jobs', Rows(jobs'))}
           timer == CHOOSE n \in limits : \A m \in limits : n <= m
<1>1. call' = [item |-> s, abort |-> now + MaintenanceRemaining, due |-> now + timer]
  BY DEF AskNode
<1>. HIDE DEF timer
<1>. QED
  BY <1>1

\* Every row that is listed is changed by its item, or Node is asked about it.
LEMMA ItemsChange ==
    ASSUME RowsInv, Untouched, NEW s \in turn.todo, ItemNext(s),
           jobs' = jobs, call' = call
    PROVE  FALSE
<1>1. /\ turn.phase \in {"expired", "deadline"}
      /\ turn.phase = "expired" => s \in Lapsed
      /\ turn.phase = "deadline" => s \in Overdue
      /\ call = NoCall
      /\ \A j \in Jobs : Present(jobs[j]) => ~(PurgeAt(jobs[j]) <= now)
  BY DEF Untouched, ItemNext, RecoverLease, ExpireRow, SkipPublication, AskNode, Attempt
<1>2. s \in Snapshots(jobs, Jobs) /\ Nonterminal(s.row)
  BY <1>1 DEF Lapsed, Overdue, Active, Nonterminal, NonterminalStates
<1>3. s.job \in Jobs /\ s.row = jobs[s.job]
  BY <1>2, SnapshotRows
<1>4. /\ jobs \in [Jobs -> Row] /\ now \in Int
      /\ s.row.created \in Int /\ s.row.lease \in Int
  BY <1>3, RowColumns DEF RowsInv
<1>5. ~RecoverLease(s)
  <2>. SUFFICES ASSUME RecoverLease(s) PROVE FALSE
    OBVIOUS
  <2>1. turn.phase = "expired" /\ s.row.state = "leased"
    BY DEF RecoverLease, Attempt
  <2>2. s.row.lease <= now
    BY <1>1, <2>1 DEF Lapsed
  <2>3. jobs' = [jobs EXCEPT ![s.job] = RecoveredRow(s.row)]
    BY <1>3, <2>1, <2>2 DEF RecoverLease, Settled
  <2>4. RecoveredRow(s.row).state # "leased"
    BY DEF RecoveredRow, Terminalized, RequeuedRow
  <2>. QED
    BY <1>3, <1>4, <2>1, <2>3, <2>4
<1>6. ~ExpireRow(s)
  <2>. SUFFICES ASSUME ExpireRow(s) PROVE FALSE
    OBVIOUS
  <2>1. turn.phase = "deadline" /\ s.row.state \in {"queued", "leased"}
    BY <1>2 DEF ExpireRow, Attempt, Nonterminal, NonterminalStates
  <2>2. DeadlineAt(s.row) <= now
    BY <1>1, <2>1 DEF Overdue
  <2>3. jobs' = [jobs EXCEPT ![s.job] = Terminalized(s.row, "expired", "deadline")]
    BY <1>3, <2>1, <2>2 DEF ExpireRow, Settled
  <2>4. Terminalized(s.row, "expired", "deadline").state = "expired"
    BY DEF Terminalized
  <2>. QED
    BY <1>3, <1>4, <2>1, <2>3, <2>4
<1>7. ASSUME NEW phase \in {"expired", "deadline"}, SkipPublication(phase, s)
      PROVE  FALSE
  <2>1. turn.phase = phase /\ s.row.state = "publishing" /\ ~Reconcilable(phase, s)
    BY <1>7 DEF SkipPublication, Attempt
  <2>2. CASE phase = "expired"
    BY <1>1, <2>1, <2>2 DEF Lapsed, Actionable, Reconcilable
  <2>3. CASE phase = "deadline"
    <3>1. DeadlineAt(s.row) <= now
      BY <1>1, <2>1, <2>3 DEF Overdue
    <3>2. SettlementAt(s.row) <= DeadlineAt(s.row)
          /\ SettlementAt(s.row) \in Int /\ DeadlineAt(s.row) \in Int
      BY <1>4, TimingAssumption DEF SettlementAt, DeadlineAt
    <3>3. SettlementAt(s.row) <= now
      BY <1>4, <3>1, <3>2
    <3>. QED
      BY <2>1, <2>3, <3>3 DEF Reconcilable
  <2>. QED
    BY <2>2, <2>3
<1>8. ASSUME NEW phase \in {"expired", "deadline"}, AskNode(phase, s)
      PROVE  FALSE
  <2>1. ~(PurgeAt(s.row) <= now)
    BY <1>1, <1>2, <1>3 DEF Nonterminal, NonterminalStates, Present, AbsentStates
  <2>2. call'.item = s
    BY <1>8, <2>1, NodeIsAsked
  <2>3. call'.item.row.state = "unborn"
    BY <1>1 DEF NoCall, NoItem, NoRow
  <2>. QED
    BY <1>2, <2>2, <2>3 DEF Nonterminal, NonterminalStates
<1>. QED
  BY <1>5, <1>6, <1>7, <1>8 DEF ItemNext

\* A turn starts fresh.
LEMMA StartsFresh ==
    ASSUME RowsInv, RowsInv', StartTurn
    PROVE  Fresh' /\ Untouched' /\ ~turn'.backlog
<1>1. /\ jobs' = Maintained(jobs) /\ backoff' = Pruned(backoff, jobs')
      /\ now' = now /\ call' = call /\ call = NoCall
  BY DEF StartTurn, RowsInv, TurnOK
<1>2. /\ turn'.phase = "expired" /\ turn'.end = now + WALL /\ turn'.tried = 0 /\ turn'.backlog = FALSE
      /\ turn'.todo = {s \in {s \in Snapshots(jobs', Jobs) : Active(s.row) /\ s.row.lease <= now} :
                         Actionable(s)}
  BY DEF StartTurn, Asleep, Resting
<1>3. turn'.todo = {s \in Snapshots(jobs', Jobs) :
                      Active(s.row) /\ s.row.lease <= now /\ Actionable(s)}
  BY <1>2
<1>4. \A s \in Snapshots(jobs', Jobs) : Actionable(s)' <=> Actionable(s)
  BY <1>1, PrunedIsDue
<1>5. turn'.todo = Lapsed'
  BY <1>1, <1>3, <1>4 DEF Lapsed, Snapshots, Active
<1>6. \A j \in Jobs : Present(jobs'[j]) => ~(PurgeAt(jobs'[j]) <= now')
  BY <1>1, MaintainedInTime DEF Present, PurgeAt
<1>7. now' = turn'.end - WALL
  <2>1. now \in Int /\ WALL \in Nat
    BY BudgetAssumption DEF RowsInv
  <2>2. PICK n \in Int : n = now
    BY <2>1
  <2>3. PICK w \in Nat : w = WALL
    BY <2>1
  <2>4. (n + w) - w = n
    BY <2>2, <2>3
  <2>5. turn'.end = n + w /\ now' = n
    BY <1>1, <1>2, <2>2, <2>3
  <2>. QED
    BY <2>3, <2>4, <2>5
<1>. QED
  BY <1>1, <1>2, <1>5, <1>6, <1>7 DEF Fresh, Untouched, Present, PurgeAt

\* The steps of a turn that has changed nothing yet.
LEMMA StillStart ==
    ASSUME RowsInv, RowsInv', StartTurn
    PROVE  StillInv'
<1>1. turn'.phase = "expired"
  BY DEF StartTurn, Asleep, Resting
<1>. QED
  BY <1>1, StartsFresh DEF StillInv, Fresh

\* Every other step that leaves the rows and the call alone.
LEMMA StillGoesOn ==
    ASSUME RowsInv, RowsInv', BackoffOK, StillInv, still, ~Between, Acts,
           jobs' = jobs, call' = call
    PROVE  StillInv'
<1>1. call = NoCall /\ ~Awaiting /\ ~Reconciling /\ ~Interruptible
  BY DEF StillInv, Untouched, Awaiting, Reconciling, NoCall, Interruptible
<1>2. turn \in Turn /\ turn.end \in Int /\ now \in Int /\ WALL \in Nat /\ RESERVE \in Nat
      /\ RESERVE < WALL /\ MAX_CORE > 0 /\ now = turn.end - WALL
  BY BudgetAssumption DEF RowsInv, TurnOK, Turn, StillInv, Untouched
<1>3. ASSUME now' = now, backoff' = backoff
      PROVE  /\ Lapsed' = Lapsed /\ Overdue' = Overdue
             /\ IsFree(jobs, now)' <=> IsFree(jobs, now)
             /\ (\A j \in Jobs : Present(jobs[j]) => ~(PurgeAt(jobs[j]) <= now))'
                  <=> (\A j \in Jobs : Present(jobs[j]) => ~(PurgeAt(jobs[j]) <= now))
  BY <1>3
     DEF Lapsed, Overdue, Snapshots, Active, Actionable, ReconciliationIsDue, SettlementAt,
         DeadlineAt, Nonterminal, IsFree, ActiveJobs, Present, PurgeAt
<1>4. CASE EndExpired
  <2>1. /\ turn' = [turn EXCEPT !.phase = "deadline", !.todo = Overdue]
        /\ now' = now /\ backoff' = backoff /\ turn.phase = "expired" /\ turn.todo = {}
    BY <1>4 DEF EndExpired, storeVars, Overdue
  <2>2. /\ turn'.phase = "deadline" /\ turn'.todo = Overdue /\ turn'.end = turn.end
        /\ turn'.tried = turn.tried /\ turn'.backlog = turn.backlog
    BY <1>2, <2>1 DEF Turn
  <2>. QED
    BY <1>1, <1>2, <1>3, <2>1, <2>2 DEF StillInv, Untouched, Between
<1>5. CASE EndDeadline
  <2>1. /\ turn' = [turn EXCEPT !.phase = "dispatch"]
        /\ now' = now /\ backoff' = backoff /\ turn.phase = "deadline" /\ turn.todo = {}
    BY <1>5 DEF EndDeadline, storeVars
  <2>2. turn'.phase = "dispatch" /\ turn'.end = turn.end /\ turn'.backlog = turn.backlog
    BY <1>2, <2>1 DEF Turn
  <2>. QED
    BY <1>1, <1>2, <1>3, <2>1, <2>2 DEF StillInv, Untouched, Between
<1>6. ~RunOut
  <2>. SUFFICES ASSUME RunOut PROVE FALSE
    OBVIOUS
  <2>1. turn.tried = 0 /\ (turn.tried >= MAX_CORE \/ turn.end - now - RESERVE <= 0)
    BY DEF RunOut, StillInv, Exhausted, MaintenanceRemaining, Remaining
  <2>. QED
    BY <1>2, <2>1, BudgetAssumption
<1>7. ASSUME NEW s \in turn.todo, ItemNext(s)
      PROVE  FALSE
  BY <1>7, ItemsChange DEF StillInv
<1>8. /\ ~AbortItem /\ ~Retry /\ ~Activated /\ ~EndItem /\ ~Pass /\ ~ReadPurges
      /\ \A r \in Reconciliations : ~Conclude(r)
      /\ \A j \in Jobs : ~Others(j)
  BY <1>1 DEF AbortItem, Retry, Activated, EndItem, Pass, ReadPurges, Conclude, Others,
              Interruptible, Between
<1>9. CASE Dispatch
  <2>1. ~IsFree(jobs, now)
    <3>. SUFFICES ASSUME IsFree(jobs, now) PROVE FALSE
      OBVIOUS
    <3>1. PICK j \in Claimed : jobs[j].attempts < jobs'[j].attempts
      BY <1>9, FreeIsClaimed, DispatchClaims
    <3>2. j \in Jobs /\ jobs[j].attempts \in Int
      BY RowColumns DEF Claimed, Claimable, RowsInv
    <3>. QED
      BY <3>1, <3>2
  <2>2. /\ turn' = [turn EXCEPT !.phase = "dispatched"]
        /\ now' = now /\ backoff' = backoff /\ turn.phase = "dispatch"
    BY <1>9 DEF Dispatch
  <2>3. turn'.phase = "dispatched" /\ turn'.end = turn.end /\ turn'.backlog = turn.backlog
    BY <1>2, <2>2 DEF Turn
  <2>. QED
    BY <1>1, <1>2, <1>3, <2>1, <2>2, <2>3 DEF StillInv, Untouched, Between
<1>10. CASE DispatchFails \/ Yield \/ EndTurn \/ LeaveRest \/ Restart
  BY <1>10
     DEF DispatchFails, Yield, EndTurn, LeaveRest, Restart, Yielded, Asleep, Resting, StillInv,
         Between
<1>11. CASE BeginOptional \/ StartItem
  <2>1. /\ turn'.phase = "optional" /\ turn'.end = turn.end
        /\ now' = now /\ backoff' = backoff
    BY <1>2, <1>11 DEF BeginOptional, StartItem, storeVars, Turn
  <2>. QED
    BY <1>1, <1>2, <1>3, <2>1 DEF StillInv, Untouched, Between
<1>12. ~StartTurn
  BY DEF StartTurn
<1>. QED
  BY <1>4, <1>5, <1>6, <1>7, <1>8, <1>9, <1>10, <1>11, <1>12 DEF Acts, TurnNext

\* Only the start of a turn leads into one.
LEMMA OnlyStartsBegin ==
    ASSUME Acts, Between, ~Between', RowsInv
    PROVE  StartTurn
<1>1. ~Awaiting /\ ~Reconciling
  BY DEF RowsInv, TurnOK, Awaiting, Reconciling, NoCall
<1>. QED
  BY <1>1
     DEF Acts, TurnNext, ItemNext, EndExpired, EndDeadline, RunOut, RecoverLease, Attempt,
         ExpireRow, SkipPublication, AskNode, Conclude, Retry, AbortItem, Dispatch, DispatchFails,
         Activated, Yield, BeginOptional, StartItem, EndItem, EndTurn, LeaveRest, Restart,
         ReadPurges, Pass, Others, Between

\* StillInv is inductive.
LEMMA StillStep ==
    ASSUME RowsInv, RowsInv', BackoffOK, StillInv, [Next]_vars
    PROVE  StillInv'
<1>1. CASE Next /\ still' /\ ~Between'
  <2>1. Acts /\ jobs' = jobs /\ call' = call /\ (Between \/ still)
    BY <1>1 DEF Next, Acts
  <2>2. CASE Between
    BY <1>1, <2>1, <2>2, OnlyStartsBegin, StillStart
  <2>3. CASE ~Between
    BY <2>1, <2>3, StillGoesOn
  <2>. QED
    BY <2>2, <2>3
<1>2. CASE ~still' \/ Between'
  BY <1>2 DEF StillInv
<1>3. CASE UNCHANGED vars
  BY <1>3
     DEF vars, storeVars, StillInv, Untouched, Between, Lapsed, Overdue, Snapshots, Active, Actionable,
         ReconciliationIsDue, SettlementAt, DeadlineAt, Nonterminal, IsFree, ActiveJobs, Present,
         PurgeAt
<1>. QED
  BY <1>1, <1>2, <1>3

\* No turn has begun at first.
LEMMA StillInit ==
    ASSUME Init
    PROVE  BackoffOK /\ StillInv
<1>1. turn.phase = "asleep" /\ backoff = [j \in Jobs |-> NoBackoff]
  BY DEF Init, Asleep, Resting
<1>. QED
  BY <1>1 DEF BackoffOK, Backoff, NoBackoff, StillInv, Between

\* The pump never spins: a turn that has changed no row and awaited nothing asks for no
\* other one at once, whatever the jobs, their leases, deadlines and backoff.
THEOREM TurnsAreNotIdle == Spec => []NoBusyWake
<1>1. RowsInv /\ BackoffOK /\ StillInv => NoBusyWake
  <2>. SUFFICES ASSUME RowsInv, BackoffOK, StillInv, turn.phase = "dispatched", still
                PROVE  ~turn.backlog /\ ~WakeIsDue
    BY DEF NoBusyWake
  <2>1. /\ ~turn.backlog /\ Lapsed = {} /\ Overdue = {} /\ ~IsFree(jobs, now)
        /\ \A j \in Jobs : Present(jobs[j]) => ~(PurgeAt(jobs[j]) <= now)
    BY DEF StillInv, Untouched, Between
  <2>. SUFFICES ASSUME WakeIsDue PROVE FALSE
    BY <2>1
  <2>2. PICK j \in Jobs :
          LET row == jobs[j] IN
          \/ /\ row.state = "queued" /\ DeadlineAt(row) > now
             /\ Cardinality(ActiveJobs(jobs)) < EXECUTION_CAPACITY
          \/ row.state = "leased" /\ row.lease <= now
          \/ row.state \in {"queued", "leased"} /\ DeadlineAt(row) <= now
          \/ Present(row) /\ PurgeAt(row) <= now
          \/ /\ row.state = "publishing"
             /\ IF backoff[j].generation = row.generation /\ backoff[j].nextAt > now
                THEN DeadlineAt(row) <= now
                ELSE SettlementAt(row) <= now
    BY DEF WakeIsDue
  <2> DEFINE row == jobs[j]
             s == [job |-> j, row |-> row]
  <2>3. s \in Snapshots(jobs, Jobs) /\ s.job = j /\ s.row = row
    BY DEF Snapshots
  <2>4. /\ row.created \in Int /\ row.lease \in Int /\ now \in Int
        /\ backoff[j].nextAt \in Int /\ DeadlineAt(row) \in Int
    BY RowColumns, TimingAssumption DEF RowsInv, BackoffOK, Backoff, DeadlineAt
  <2>5. ~(Nonterminal(row) /\ DeadlineAt(row) <= now)
    BY <2>1, <2>3 DEF Overdue
  <2>6. ~(Active(row) /\ row.lease <= now /\ Actionable(s))
    BY <2>1, <2>3 DEF Lapsed
  <2>. HIDE DEF s
  <2>7. ~(row.state = "leased" /\ row.lease <= now)
    BY <2>3, <2>6 DEF Active, Actionable
  <2>8. ~(row.state \in {"queued", "leased", "publishing"} /\ DeadlineAt(row) <= now)
    BY <2>5 DEF Nonterminal, NonterminalStates
  <2>9. /\ row.state = "publishing" /\ SettlementAt(row) <= now
        /\ ~(backoff[j].generation = row.generation /\ backoff[j].nextAt > now)
    BY <2>1, <2>2, <2>7, <2>8 DEF IsFree
  <2>10. row.lease <= now
    BY <2>4, <2>8, <2>9, TimingAssumption DEF SettlementAt
  <2>11. Actionable(s)
    BY <2>3, <2>4, <2>8, <2>9 DEF Actionable, ReconciliationIsDue
  <2>. QED
    BY <2>6, <2>9, <2>10, <2>11 DEF Active
<1>2. Init => RowsInv /\ BackoffOK /\ StillInv
  BY RowsInit, StillInit
<1>3. RowsInv /\ BackoffOK /\ StillInv /\ [Next]_vars => (RowsInv /\ BackoffOK /\ StillInv)'
  <2>. SUFFICES ASSUME RowsInv, BackoffOK, StillInv, [Next]_vars
                PROVE  (RowsInv /\ BackoffOK /\ StillInv)'
    OBVIOUS
  <2>1. RowsInv'
    BY RowsStep
  <2>2. BackoffOK'
    <3>1. CASE Next
      BY <3>1, BackoffStep DEF Next, Acts
    <3>2. CASE UNCHANGED vars
      BY <3>2 DEF vars, BackoffOK
    <3>. QED
      BY <3>1, <3>2
  <2>. QED
    BY <2>1, <2>2, StillStep
<1>. QED
  BY <1>1, <1>2, <1>3, PTL DEF Spec

-----------------------------------------------------------------------------
(***************************************************************************)
(* How long a row waits that is past its deadline.                         *)
(***************************************************************************)

\* Only an admission makes a row unfinished, and nothing changes an overdue row that
\* does not finish it.
Ages(row, new) ==
    Nonterminal(new) =>
        /\ Nonterminal(row) /\ new.created = row.created
        /\ DeadlineAt(row) <= now => new = row

TableAges(tab) == \A j \in Jobs : Ages(jobs[j], tab[j])

\* The retention pass, on any table that has aged.
LEMMA MaintainedAges ==
    ASSUME NEW tab, TableAges(tab)
    PROVE  TableAges(Maintained(tab))
<1>1. ~Nonterminal(NoRow("gone"))
  BY DEF NoRow, Nonterminal, NonterminalStates
<1>. QED
  BY <1>1, MaintainedRows DEF TableAges, Ages

\* The table itself, and the retention pass on it.
LEMMA SameTableAges == TableAges(jobs) /\ TableAges(Maintained(jobs))
<1>1. TableAges(jobs)
  BY DEF TableAges, Ages
<1>. QED
  BY <1>1, MaintainedAges

\* One row is replaced.
LEMMA OneRowAges ==
    ASSUME NEW tab, TableAges(tab), NEW j \in Jobs, NEW new, Ages(jobs[j], new),
           tab \in [Jobs -> Row]
    PROVE  TableAges([tab EXCEPT ![j] = new])
BY DEF TableAges

\* An outcome finishes a row.
LEMMA EndedRowAges ==
    ASSUME NEW row, NEW old, NEW state \in TerminalStates, NEW reason
    PROVE  Ages(row, Terminalized(old, state, reason)) /\ ~Nonterminal(Terminalized(old, state, reason))
BY DEF Ages, Terminalized, Nonterminal, NonterminalStates, TerminalStates

\* A recovered lease goes back into the queue only before the deadline.
LEMMA RecoveredRowAges ==
    ASSUME NEW row, row.state = "leased"
    PROVE  Ages(row, RecoveredRow(row))
<1>1. CASE DeadlineAt(row) <= now \/ row.attempts >= MAX_ATTEMPTS
  BY <1>1, EndedRowAges DEF RecoveredRow, TerminalStates
<1>2. CASE ~(DeadlineAt(row) <= now) /\ ~(row.attempts >= MAX_ATTEMPTS)
  BY <1>2 DEF RecoveredRow, RequeuedRow, Ages, Nonterminal, NonterminalStates
<1>. QED
  BY <1>1, <1>2

\* The public routes and Node's workers: a lease is held only before the deadline.
LEMMA OthersAge ==
    ASSUME RowsInv, NEW j \in Jobs, Others(j), ~AdmitDurableScanJob(j, now)
    PROVE  TableAges(jobs')
<1> DEFINE generation == jobs[j].generation
           row == jobs[j]
<1>1. /\ now \in Int /\ jobs \in [Jobs -> Row] /\ TableAges(jobs) /\ DeadlineAt(row) \in Int
  BY SameTableAges, RowColumns, TimingAssumption DEF RowsInv, DeadlineAt
<1>2. ASSUME NEW new, Ages(row, new), jobs' = [jobs EXCEPT ![j] = new]
      PROVE  TableAges(jobs')
  BY <1>1, <1>2, OneRowAges
<1>3. CASE CancelDurableScanJob(j)
  BY <1>2, <1>3, EndedRowAges DEF CancelDurableScanJob, TerminalStates
<1>4. CASE HeartbeatDurableScanJob(j, generation, generation, 0)
  <2>1. /\ row.state \in {"leased", "publishing"} /\ ~(DeadlineAt(row) <= now)
        /\ jobs' = [jobs EXCEPT ![j] = RenewedRow(row, AdvancedRuns(j, 0))]
    BY <1>1, <1>4 DEF HeartbeatDurableScanJob, HeartbeatAccepted, HoldsLease
  <2>2. Ages(row, RenewedRow(row, AdvancedRuns(j, 0)))
    BY <2>1 DEF Ages, RenewedRow, Nonterminal, NonterminalStates
  <2>. QED
    BY <1>2, <2>1, <2>2
<1>5. CASE BeginPublishingDurableScanJob(j, generation, generation)
  <2>1. /\ row.state = "leased" /\ ~(DeadlineAt(row) <= now)
        /\ jobs' = [jobs EXCEPT ![j] = PublishingRow(row)]
    BY <1>1, <1>5 DEF BeginPublishingDurableScanJob, BeginPublishingAccepted, HoldsLease
  <2>2. Ages(row, PublishingRow(row))
    BY <2>1 DEF Ages, PublishingRow, Nonterminal, NonterminalStates
  <2>. QED
    BY <1>2, <2>1, <2>2
<1>6. ASSUME NEW r \in Resolutions, ResolveDurableScanJob(j, generation, generation, r)
      PROVE  TableAges(jobs')
  <2>1. r.outcome \in TerminalStates
    BY DEF Resolutions, TerminalStates
  <2>. QED
    BY <1>2, <1>6, <2>1, EndedRowAges DEF ResolveDurableScanJob
<1>. QED
  BY <1>3, <1>4, <1>5, <1>6 DEF Others

\* An item of maintenance, and the answer to one.
LEMMA ItemsAge ==
    ASSUME RowsInv,
           \/ \E s \in turn.todo : ItemNext(s)
           \/ (\E r \in Reconciliations : Conclude(r)) \/ Retry
    PROVE  TableAges(jobs')
<1>1. /\ jobs \in [Jobs -> Row] /\ TableAges(jobs) /\ TableAges(Maintained(jobs))
      /\ Maintained(jobs) \in [Jobs -> Row]
  BY SameTableAges, SameTableMoves DEF RowsInv, TableMoves
<1>2. ASSUME NEW s \in turn.todo, ItemNext(s)
      PROVE  TableAges(jobs')
  <2>1. s.job \in Jobs
    BY DEF RowsInv, TurnOK, Recalls
  <2>2. CASE RecoverLease(s)
    <3>1. CASE /\ jobs[s.job].state = "leased"
               /\ jobs' = [jobs EXCEPT ![s.job] = RecoveredRow(jobs[s.job])]
      BY <1>1, <2>1, <3>1, RecoveredRowAges, OneRowAges
    <3>. QED
      BY <1>1, <2>2, <3>1 DEF RecoverLease, Settled
  <2>3. CASE ExpireRow(s)
    <3>1. CASE jobs' = [jobs EXCEPT ![s.job] = Terminalized(jobs[s.job], "expired", "deadline")]
      BY <1>1, <2>1, <3>1, EndedRowAges, OneRowAges DEF TerminalStates
    <3>. QED
      BY <1>1, <2>3, <3>1 DEF ExpireRow, Settled
  <2>4. CASE \E phase \in {"expired", "deadline"} : SkipPublication(phase, s) \/ AskNode(phase, s)
    BY <1>1, <2>4 DEF SkipPublication, AskNode
  <2>. QED
    BY <1>2, <2>2, <2>3, <2>4 DEF ItemNext
<1> DEFINE s == call.item
<1>3. ASSUME NEW r \in Reconciliations, Conclude(r)
      PROVE  TableAges(jobs')
  <2> DEFINE tab == [jobs EXCEPT ![s.job] = Terminalized(@, r.outcome, r.reason)]
  <2>1. s.job \in Jobs /\ r.outcome \in TerminalStates
    BY <1>3 DEF Conclude, RowsInv, TurnOK, Recalls, Reconciliations, TerminalStates
  <2>2. TableAges(tab)
    BY <1>1, <2>1, EndedRowAges, OneRowAges
  <2>3. jobs' = Maintained(tab) \/ jobs' = jobs
    BY <1>3 DEF Conclude
  <2>. HIDE DEF tab
  <2>. QED
    BY <1>1, <2>2, <2>3, MaintainedAges
<1>4. CASE Retry
  <2> DEFINE kept == Maintained(jobs)
  <2>1. s.job \in Jobs
    BY <1>4 DEF Retry, RowsInv, TurnOK, Recalls
  <2>2. \/ jobs' = kept
        \/ jobs' = [kept EXCEPT ![s.job] = Terminalized(@, "expired", "deadline")]
    BY <1>4 DEF Retry
  <2>3. TableAges(kept) /\ kept \in [Jobs -> Row]
    BY <1>1
  <2>. HIDE DEF kept
  <2>. QED
    BY <2>1, <2>2, <2>3, EndedRowAges, OneRowAges DEF TerminalStates
<1>. QED
  BY <1>2, <1>3, <1>4

\* Every step ages the table, or admits a job.
LEMMA RowsAge ==
    ASSUME RowsInv, Acts
    PROVE  TableAges(jobs') \/ \E j \in Jobs : AdmitDurableScanJob(j, now)
<1>1. TableAges(jobs) /\ TableAges(Maintained(jobs))
  BY SameTableAges
<1>2. CASE StartTurn \/ ReadPurges
  BY <1>1, <1>2 DEF StartTurn, ReadPurges, SettleSynchronizeAndPurge
<1>3. CASE \/ EndExpired \/ EndDeadline \/ RunOut \/ AbortItem \/ DispatchFails \/ Activated
           \/ Yield \/ BeginOptional \/ StartItem \/ EndTurn \/ LeaveRest \/ Restart \/ Pass
  <2>1. jobs' = jobs
    BY <1>3
       DEF EndExpired, EndDeadline, RunOut, AbortItem, DispatchFails, Activated, Yield,
           BeginOptional, StartItem, EndTurn, LeaveRest, Restart, Pass, Tick, storeVars
  <2>. QED
    BY <1>1, <2>1
<1>4. CASE \/ \E s \in turn.todo : ItemNext(s)
           \/ (\E r \in Reconciliations : Conclude(r)) \/ Retry
  BY <1>4, ItemsAge
<1>5. CASE Dispatch
  <2>1. PICK invalid \in SUBSET Claimed :
           jobs' = [j \in Jobs |->
                      IF j \in invalid
                        THEN Terminalized(ClaimedRow(jobs[j]), "failed", "payload-invalid")
                      ELSE IF j \in Claimed THEN ClaimedRow(jobs[j]) ELSE jobs[j]]
    BY <1>5 DEF Dispatch
  <2>2. ASSUME NEW j \in Claimed
        PROVE  /\ Ages(jobs[j], ClaimedRow(jobs[j]))
               /\ Ages(jobs[j], Terminalized(ClaimedRow(jobs[j]), "failed", "payload-invalid"))
    <3>1. j \in Jobs /\ jobs[j].state = "queued" /\ DeadlineAt(jobs[j]) > now
      BY DEF Claimed, Claimable
    <3>2. DeadlineAt(jobs[j]) \in Int /\ now \in Int
      BY <3>1, RowColumns, TimingAssumption DEF RowsInv, DeadlineAt
    <3>3. Nonterminal(jobs[j]) /\ ~(DeadlineAt(jobs[j]) <= now)
      BY <3>1, <3>2 DEF Nonterminal, NonterminalStates
    <3>4. ClaimedRow(jobs[j]).created = jobs[j].created
      BY DEF ClaimedRow
    <3>. QED
      BY <3>3, <3>4, EndedRowAges DEF Ages, TerminalStates
  <2>. QED
    BY <1>1, <2>1, <2>2 DEF TableAges
<1>6. CASE EndItem
  BY <1>1, <1>6 DEF EndItem, storeVars
<1>7. CASE \E j \in Jobs : Others(j)
  BY <1>7, OthersAge
<1>. QED
  BY <1>2, <1>3, <1>4, <1>5, <1>6, <1>7 DEF Acts, TurnNext

\* An admission leaves the other rows, and its own job is not overdue.
LEMMA AdmissionAges ==
    ASSUME RowsInv, NEW j \in Jobs, AdmitDurableScanJob(j, now)
    PROVE  /\ \A k \in Jobs \ {j} : Ages(jobs[k], jobs'[k])
           /\ ~Nonterminal(jobs[j]) /\ jobs'[j].created = now
           /\ Cardinality(Unfinished(jobs)) < MAX_NONTERMINAL
<1> DEFINE room == EvictedTo(jobs, MAX_ROWS - 1)
<1>1. jobs' = [room EXCEPT ![j] = NewRow(now)] /\ jobs[j].state = "unborn"
  BY DEF AdmitDurableScanJob
<1>2. room = [k \in Jobs |-> room[k]]
  BY DEF EvictedTo, Without
<1>3. \A k \in Jobs : room[k] = jobs[k] \/ room[k] = NoRow("gone")
  BY DEF EvictedTo, Without
<1>4. ~Nonterminal(NoRow("gone")) /\ NewRow(now).created = now
  BY DEF NoRow, NewRow, Nonterminal, NonterminalStates
<1>. HIDE DEF room
<1>5. \A k \in Jobs \ {j} : Ages(jobs[k], jobs'[k])
  BY <1>1, <1>2, <1>3, <1>4 DEF Ages
<1>6. jobs'[j] = NewRow(now)
  BY <1>1, <1>2
<1>. QED
  BY <1>1, <1>4, <1>5, <1>6 DEF AdmitDurableScanJob, AdmissionFits, Nonterminal, NonterminalStates

\* There are never more unfinished rows than admissions allow.
CountInv == Cardinality(Unfinished(jobs)) <= MAX_NONTERMINAL

\* CountInv is inductive: only an admission adds to them.
LEMMA CountStep ==
    ASSUME RowsInv, CountInv, Acts
    PROVE  CountInv'
<1>1. /\ Unfinished(jobs) \in SUBSET Jobs /\ MAX_NONTERMINAL \in Nat
      /\ Cardinality(Unfinished(jobs)) \in Nat
  BY JobSetsFinite, LimitAssumption DEF Unfinished
<1>2. CASE TableAges(jobs')
  <2>1. Unfinished(jobs') \in SUBSET Unfinished(jobs)
    BY <1>2 DEF TableAges, Ages, Unfinished
  <2>. QED
    BY <1>1, <2>1, SubsetKeepsBound DEF CountInv
<1>3. ASSUME NEW j \in Jobs, AdmitDurableScanJob(j, now)
      PROVE  CountInv'
  <2>1. Unfinished(jobs') \in SUBSET (Unfinished(jobs) \cup {j})
    BY <1>3, AdmissionAges DEF Ages, Unfinished
  <2>2. Cardinality(Unfinished(jobs) \cup {j}) <= Cardinality(Unfinished(jobs)) + 1
    BY <1>1, UnionBound, FS_Singleton
  <2>3. Cardinality(Unfinished(jobs)) < MAX_NONTERMINAL
    BY <1>3, AdmissionAges
  <2>4. Unfinished(jobs) \cup {j} \in SUBSET Jobs
    BY <1>1
  <2>5. Cardinality(Unfinished(jobs) \cup {j}) \in Nat
    BY <2>4, JobSetsFinite
  <2>6. Cardinality(Unfinished(jobs) \cup {j}) <= MAX_NONTERMINAL
    BY <1>1, <2>2, <2>3, <2>5
  <2>. QED
    BY <1>1, <2>1, <2>4, <2>6, SubsetKeepsBound DEF CountInv
<1>. QED
  BY <1>2, <1>3, RowsAge

\* The unfinished rows that are due no later than a row, itself among them.
Ahead(j) == {k \in Jobs : Nonterminal(jobs[k]) /\ DeadlineAt(jobs[k]) <= DeadlineAt(jobs[j])}

\* The turns that have passed for a row's benefit, or that did not count.
Paid(j) == MAX_NONTERMINAL - Cardinality(Ahead(j)) + detours + trouble
Credit(j) == Paid(j) * WALL

\* The turn's first item is a publication past its deadline that Node is asked about.
Asked == turn.phase = "deadline" /\ turn.tried = 1 /\ Reconciling

\* The turn under way has yet to pay for a row.
Unpaid(j) == Fresh \/ (Asked /\ call.item.job \in Ahead(j))

FreshInv == Fresh => Untouched

AskedInv ==
    Asked => LET s == call.item
             IN  /\ s.row.state = "publishing" /\ DeadlineAt(s.row) <= now
                 /\ Nonterminal(jobs[s.job]) => jobs[s.job] = s.row

\* Between turns a row has waited for those it has credit for, after the turn in which
\* its deadline passed; the turn under way adds one until it has paid.
BoundInv ==
    \A j \in Jobs :
        IsOverdue(jobs, j, now) =>
            /\ Between => now <= DeadlineAt(jobs[j]) + WALL + Credit(j)
            /\ ~Between => turn.end <= DeadlineAt(jobs[j]) + WALL + Credit(j)
                                         + (IF Unpaid(j) THEN WALL ELSE 0)

\* While a row is overdue it stays as it is, and the rows ahead of it only get fewer.
LEMMA AheadShrinks ==
    ASSUME RowsInv, RowsInv', Acts, NEW j \in Jobs,
           IsOverdue(jobs, j, now), IsOverdue(jobs', j, now')
    PROVE  jobs'[j] = jobs[j] /\ Ahead(j)' \subseteq Ahead(j)
<1>1. /\ Nonterminal(jobs[j]) /\ DeadlineAt(jobs[j]) <= now /\ Nonterminal(jobs'[j])
      /\ now \in Int /\ DEADLINE \in Nat \ {0}
      /\ \A k \in Jobs : DeadlineAt(jobs[k]) \in Int
  BY RowColumns, TimingAssumption DEF IsOverdue, RowsInv, DeadlineAt
<1>2. ASSUME NEW k \in Jobs, Ages(jobs[k], jobs'[k]), Nonterminal(jobs'[k])
      PROVE  /\ Nonterminal(jobs[k]) /\ DeadlineAt(jobs'[k]) = DeadlineAt(jobs[k])
             /\ DeadlineAt(jobs[k]) <= now => jobs'[k] = jobs[k]
  BY <1>2 DEF Ages, DeadlineAt
<1>3. CASE TableAges(jobs')
  BY <1>1, <1>2, <1>3 DEF TableAges, Ahead
<1>4. ASSUME NEW a \in Jobs, AdmitDurableScanJob(a, now)
      PROVE  jobs'[j] = jobs[j] /\ Ahead(j)' \subseteq Ahead(j)
  <2>1. /\ \A k \in Jobs \ {a} : Ages(jobs[k], jobs'[k])
        /\ ~Nonterminal(jobs[a]) /\ DeadlineAt(jobs'[a]) = now + DEADLINE
    BY <1>4, AdmissionAges DEF DeadlineAt
  <2>2. j # a /\ jobs'[j] = jobs[j]
    BY <1>1, <1>2, <2>1
  <2>3. ~(DeadlineAt(jobs'[a]) <= DeadlineAt(jobs[j]))
    BY <1>1, <2>1
  <2>4. ASSUME NEW k \in Ahead(j)'
        PROVE  k \in Ahead(j)
    <3>1. /\ k \in Jobs /\ Nonterminal(jobs'[k])
          /\ DeadlineAt(jobs'[k]) <= DeadlineAt(jobs[j])
      BY <2>2, <2>4 DEF Ahead
    <3>. QED
      BY <1>2, <2>1, <2>3, <3>1 DEF Ahead
  <2>. QED
    BY <2>2, <2>4
<1>. QED
  BY <1>3, <1>4, RowsAge

\* What is not negative, and multiplied by a budget, is more by a budget for one more.
LEMMA CreditAdds ==
    ASSUME NEW p \in Int, NEW q \in Int, NEW w \in Nat, p <= q
    PROVE  /\ p * w \in Int /\ q * w \in Int /\ p * w <= q * w
           /\ p + 1 <= q => p * w + w <= q * w
<1>1. PICK d \in Nat : q = p + d
  <2>1. q - p \in Nat /\ q = p + (q - p)
    OBVIOUS
  <2>. QED
    BY <2>1
<1>2. p * w \in Int /\ d * w \in Nat
  OBVIOUS
<1>3. q * w = p * w + d * w
  BY <1>1
<1>4. CASE d # 0
  <2>1. PICK e \in Nat : d = e + 1
    <3>1. d - 1 \in Nat /\ d = (d - 1) + 1
      BY <1>4
    <3>. QED
      BY <3>1
  <2>2. e * w \in Nat /\ d * w = e * w + w
    BY <2>1
  <2>. QED
    BY <1>2, <1>3, <2>2
<1>5. CASE d = 0
  BY <1>1, <1>2, <1>5
<1>. QED
  BY <1>4, <1>5

\* What a step does to the credit of a row that is overdue before and after it.
Pays(j) ==
    \/ trouble' = trouble + 1
    \/ Detours
    \/ \E k \in Ahead(j) : k \notin Ahead(j)'

LEMMA CreditStep ==
    ASSUME RowsInv, RowsInv', CountInv, CountInv', detours \in Nat, trouble \in Nat, Next,
           trouble' = trouble \/ trouble' = trouble + 1,
           NEW j \in Jobs, IsOverdue(jobs, j, now), IsOverdue(jobs', j, now')
    PROVE  /\ Credit(j) \in Int /\ Credit(j)' \in Int /\ Credit(j) <= Credit(j)'
           /\ Pays(j) => Credit(j) + WALL <= Credit(j)'
<1>1. Ahead(j) \in SUBSET Jobs /\ Ahead(j)' \in SUBSET Ahead(j)
  BY AheadShrinks DEF Next, Acts, Ahead
<1>2. /\ IsFiniteSet(Ahead(j)) /\ Cardinality(Ahead(j)) \in Nat
      /\ Cardinality(Ahead(j)') \in Nat /\ Cardinality(Ahead(j)') <= Cardinality(Ahead(j))
  BY <1>1, JobSetsFinite, FS_Subset
<1>3. ASSUME NEW k \in Ahead(j), k \notin Ahead(j)'
      PROVE  Cardinality(Ahead(j)') + 1 <= Cardinality(Ahead(j))
  <2>1. Ahead(j)' # Ahead(j)
    BY <1>3
  <2>2. Cardinality(Ahead(j)') < Cardinality(Ahead(j))
    BY <1>1, <1>2, <2>1, FS_Subset
  <2>. QED
    BY <1>2, <2>2
<1>4. /\ detours' = detours \/ detours' = detours + 1
      /\ Detours => detours' = detours + 1
  <2>1. ~\A i \in Jobs : ~IsOverdue(jobs', i, now')
    OBVIOUS
  <2>. QED
    BY <2>1 DEF Next
<1>5. Paid(j) = MAX_NONTERMINAL - Cardinality(Ahead(j)) + detours + trouble
  BY DEF Paid
<1>6. Paid(j)' = MAX_NONTERMINAL - Cardinality(Ahead(j)') + detours' + trouble'
  BY DEF Paid
<1>7. MAX_NONTERMINAL \in Nat /\ WALL \in Nat
  BY LimitAssumption, BudgetAssumption
<1>8. /\ Paid(j) \in Int /\ Paid(j)' \in Int /\ Paid(j) <= Paid(j)'
      /\ Pays(j) => Paid(j) + 1 <= Paid(j)'
  <2>. HIDE DEF Paid
  <2>1. Paid(j) \in Int /\ Paid(j)' \in Int
    BY <1>2, <1>4, <1>5, <1>6, <1>7
  <2>2. Paid(j) <= Paid(j)'
    BY <1>2, <1>4, <1>5, <1>6, <1>7
  <2>3. (trouble' = trouble + 1 \/ Detours) => Paid(j) + 1 <= Paid(j)'
    BY <1>2, <1>4, <1>5, <1>6, <1>7
  <2>4. (\E k \in Ahead(j) : k \notin Ahead(j)') => Paid(j) + 1 <= Paid(j)'
    BY <1>2, <1>3, <1>4, <1>5, <1>6, <1>7
  <2>. QED
    BY <2>1, <2>2, <2>3, <2>4 DEF Pays
<1>9. Credit(j) = Paid(j) * WALL /\ Credit(j)' = Paid(j)' * WALL
  BY DEF Credit
<1>. QED
  BY <1>7, <1>8, <1>9, CreditAdds

\* The deadline phase begins with a row that is due no later than any other.
LEMMA FirstIsAhead ==
    ASSUME RowsInv, turn.phase = "deadline", turn.todo = Overdue,
           NEW j \in Jobs, IsOverdue(jobs, j, now)
    PROVE  /\ First \in Overdue
           /\ First.job \in Ahead(j) /\ First.row = jobs[First.job]
<1> DEFINE late == {k \in Jobs : IsOverdue(jobs, k, now)}
           before(s, t) ==
              \/ DeadlineAt(s.row) < DeadlineAt(t.row)
              \/ DeadlineAt(s.row) = DeadlineAt(t.row) /\ s.row.created < t.row.created
              \/ DeadlineAt(s.row) = DeadlineAt(t.row) /\ s.row.created = t.row.created /\ s.job < t.job
           shot(k) == [job |-> k, row |-> jobs[k]]
<1>1. /\ \A k \in Jobs : jobs[k].created \in Int /\ k \in Nat
      /\ \A k \in Jobs : DeadlineAt(jobs[k]) = jobs[k].created + DEADLINE
      /\ DEADLINE \in Int
  BY JobsAssumption, TimingAssumption, RowColumns DEF RowsInv, DeadlineAt
<1>2. late \in SUBSET Jobs /\ IsFiniteSet(late) /\ late # {}
  BY JobSetsFinite
<1>3. ASSUME NEW S \in SUBSET Jobs
      PROVE  StrictlyOrders(CreationOrder(jobs), S)
  BY <1>1 DEF StrictlyOrders, CreationOrder, CreatedBefore
<1>4. PICK k \in late : Before(CreationOrder(jobs), late, k) = {}
  BY <1>2, <1>3, FirstExists
<1>5. Overdue = {shot(i) : i \in late}
  BY DEF Overdue, Snapshots, IsOverdue
<1>6. First = CHOOSE s \in Overdue : \A t \in Overdue \ {s} : before(s, t)
  BY DEF First
<1>7. \A i \in late \ {k} : CreatedBefore(jobs, k, i)
  BY <1>2, <1>3, <1>4 DEF Before, StrictlyOrders, CreationOrder
<1>8. ASSUME NEW t \in Overdue \ {shot(k)}
      PROVE  before(shot(k), t)
  <2>1. PICK i \in late \ {k} : t = shot(i)
    BY <1>5
  <2>2. CreatedBefore(jobs, k, i) /\ i \in Jobs /\ k \in Jobs
    BY <1>2, <1>7, <2>1
  <2>. QED
    BY <1>1, <2>1, <2>2 DEF CreatedBefore
<1>9. First \in Overdue /\ \A t \in Overdue \ {First} : before(First, t)
  <2>1. shot(k) \in Overdue
    BY <1>4, <1>5
  <2>. HIDE DEF before
  <2>. QED
    BY <1>6, <1>8, <2>1
<1>10. shot(j) \in Overdue
  BY <1>5
<1>11. PICK i \in late : First = shot(i)
  BY <1>5, <1>9
<1>12. DeadlineAt(jobs[i]) <= DeadlineAt(jobs[j])
  <2>1. i \in Jobs
    BY <1>2
  <2>2. CASE shot(j) = First
    BY <1>1, <1>11, <2>1, <2>2
  <2>3. CASE shot(j) # First
    <3>1. before(shot(i), shot(j))
      BY <1>9, <1>10, <1>11, <2>3
    <3>. QED
      BY <1>1, <2>1, <3>1
  <2>. QED
    BY <2>2, <2>3
<1>. QED
  BY <1>2, <1>9, <1>11, <1>12 DEF Ahead, IsOverdue

\* Which its item settles, unless Node is to be asked.
LEMMA FirstIsSettled ==
    ASSUME RowsInv, Fresh, Untouched, turn.phase = "deadline",
           NEW s \in turn.todo, ItemNext(s), NEW j \in Jobs, IsOverdue(jobs, j, now)
    PROVE  /\ s.job \in Ahead(j) /\ s.row = jobs[s.job] /\ DeadlineAt(s.row) <= now
           /\ \/ ~Nonterminal(jobs'[s.job])
              \/ s.row.state = "publishing" /\ turn' = [turn EXCEPT !.todo = @ \ {s}, !.tried = @ + 1]
                 /\ call'.item = s
<1>1. turn.todo = Overdue /\ \A k \in Jobs : Present(jobs[k]) => ~(PurgeAt(jobs[k]) <= now)
  BY DEF Untouched
<1>2. s = First
  BY DEF ItemNext, RecoverLease, ExpireRow, SkipPublication, AskNode, Attempt
<1>3. s \in Overdue /\ s.job \in Ahead(j) /\ s.row = jobs[s.job]
  BY <1>1, <1>2, FirstIsAhead
<1>4. /\ s.job \in Jobs /\ Nonterminal(s.row) /\ DeadlineAt(s.row) <= now
      /\ jobs \in [Jobs -> Row] /\ s.row.created \in Int /\ s.row.lease \in Int /\ now \in Int
  BY <1>3, RowColumns DEF Ahead, Overdue, RowsInv
<1>5. SettlementAt(s.row) <= now
  BY <1>4, TimingAssumption DEF SettlementAt, DeadlineAt
<1>6. ~RecoverLease(s)
  BY DEF RecoverLease, Attempt
<1>7. CASE ExpireRow(s)
  <2>1. jobs' = [jobs EXCEPT ![s.job] = Terminalized(s.row, "expired", "deadline")]
    BY <1>3, <1>4, <1>7 DEF ExpireRow, Settled, Nonterminal, NonterminalStates
  <2>2. jobs'[s.job] = Terminalized(s.row, "expired", "deadline")
    BY <1>4, <2>1
  <2>. QED
    BY <1>3, <1>4, <2>2, EndedRowAges DEF TerminalStates
<1>8. ASSUME NEW phase \in {"expired", "deadline"}, SkipPublication(phase, s)
      PROVE  FALSE
  BY <1>5, <1>8 DEF SkipPublication, Attempt, Reconcilable
<1>9. ASSUME NEW phase \in {"expired", "deadline"}, AskNode(phase, s)
      PROVE  /\ s.row.state = "publishing" /\ call'.item = s
             /\ turn' = [turn EXCEPT !.todo = @ \ {s}, !.tried = @ + 1]
  <2>1. ~(PurgeAt(s.row) <= now)
    BY <1>1, <1>3, <1>4 DEF Nonterminal, NonterminalStates, Present, AbsentStates
  <2>2. /\ s.row.state = "publishing"
        /\ turn' = [turn EXCEPT !.todo = @ \ {s}, !.tried = @ + 1]
    BY <1>9 DEF AskNode, Reconcilable, Attempt
  <2>. QED
    BY <1>9, <2>1, <2>2, NodeIsAsked
<1>. QED
  BY <1>3, <1>4, <1>6, <1>7, <1>8, <1>9 DEF ItemNext

\* The first item of a turn is a publication past its deadline only in that phase.
LEMMA FirstIsAsked ==
    ASSUME RowsInv, Fresh, Untouched, NEW s \in turn.todo, ItemNext(s),
           turn'.phase = "deadline"
    PROVE  /\ turn.phase = "deadline" /\ IsOverdue(jobs, s.job, now) /\ s.job \in Jobs
           /\ s.row = jobs[s.job]
<1>1. turn' = [turn EXCEPT !.todo = @ \ {s}, !.tried = @ + 1] /\ turn \in Turn
  BY DEF ItemNext, RecoverLease, ExpireRow, SkipPublication, AskNode, Attempt, RowsInv, TurnOK
<1>2. turn.phase = "deadline"
  BY <1>1 DEF Turn
<1>3. s \in Overdue
  BY <1>2 DEF Untouched
<1>. QED
  BY <1>2, <1>3, SnapshotRows DEF Overdue, IsOverdue

\* The answer to a question about a row past its deadline finishes it.
LEMMA AnswersSettle ==
    ASSUME RowsInv, Asked, AskedInv, Nonterminal(jobs[call.item.job]),
           (\E r \in Reconciliations : Conclude(r)) \/ Retry
    PROVE  ~Nonterminal(jobs'[call.item.job])
<1> DEFINE s == call.item
           row == jobs[s.job]
<1>1. /\ s.job \in Jobs /\ row = s.row /\ row.state = "publishing" /\ DeadlineAt(row) <= now
      /\ FitRow(row) /\ row \in Row /\ jobs \in [Jobs -> Row] /\ now \in Int
  BY DEF Asked, AskedInv, RowsInv, TurnOK, Recalls
<1>2. row.lease <= now /\ SettlementAt(row) <= now
  <2>1. row.lease <= PublishingCeiling(row) /\ row.created \in Int /\ row.lease \in Int
    BY <1>1, RowColumns DEF FitRow, GoodRow
  <2>. HIDE DEF row
  <2>. QED
    BY <1>1, <2>1, TimingAssumption DEF PublishingCeiling, SettlementAt, DeadlineAt
<1>3. \A r \in Reconciliations : ReconciliationAccepted(s.job, s.row.generation, r)
  BY <1>1, <1>2 DEF ReconciliationAccepted
<1>4. /\ ~Nonterminal(NoRow("gone"))
      /\ \A old, reason : \A state \in TerminalStates : ~Nonterminal(Terminalized(old, state, reason))
  BY DEF NoRow, Terminalized, Nonterminal, NonterminalStates, TerminalStates
<1>5. ASSUME NEW r \in Reconciliations, Conclude(r)
      PROVE  ~Nonterminal(jobs'[s.job])
  <2> DEFINE tab == [jobs EXCEPT ![s.job] = Terminalized(@, r.outcome, r.reason)]
  <2>1. jobs' = Maintained(tab)
    BY <1>3, <1>5 DEF Conclude
  <2>2. tab[s.job] = Terminalized(row, r.outcome, r.reason) /\ r.outcome \in TerminalStates
    BY <1>1 DEF Reconciliations, TerminalStates
  <2>. HIDE DEF tab, s, row
  <2>. QED
    BY <1>1, <1>4, <2>1, <2>2, MaintainedRows
<1>6. CASE Retry
  <2>1. GivesUp(s)
    <3>1. \E r \in Reconciliations : r.result = "expired"
      BY DEF Reconciliations
    <3>. QED
      BY <1>3, <3>1 DEF GivesUp, ExpiryAccepted, Asked
  <2>2. CASE now < PurgeAt(row)
    <3> DEFINE kept == Maintained(jobs)
    <3>1. jobs' = [kept EXCEPT ![s.job] = Terminalized(@, "expired", "deadline")]
      BY <1>1, <1>6, <2>1, <2>2 DEF Retry
    <3>2. kept \in [Jobs -> Row]
      BY SameTableMoves DEF TableMoves
    <3>. HIDE DEF kept
    <3>3. jobs'[s.job] = Terminalized(kept[s.job], "expired", "deadline")
      BY <1>1, <3>1, <3>2
    <3>. QED
      BY <1>4, <3>3 DEF TerminalStates
  <2>3. CASE ~(now < PurgeAt(row))
    <3>1. jobs' = Maintained(jobs)
      BY <1>1, <1>6, <2>3 DEF Retry
    <3>2. PurgeAt(row) <= now
      <4>1. PurgeAt(row) \in Int
        BY <1>1, RowColumns, TimingAssumption DEF PurgeAt
      <4>. QED
        BY <1>1, <2>3, <4>1
    <3>3. Maintained(jobs)[s.job] # row
      <4>1. Present(row)
        BY <1>1 DEF Present, AbsentStates
      <4>. QED
        BY <1>1, <3>2, <4>1, MaintainedInTime
    <3>. QED
      BY <1>1, <1>4, <3>1, <3>3, MaintainedRows
  <2>. QED
    BY <2>2, <2>3
<1>. QED
  BY <1>5, <1>6

\* No step of a turn is taken while another one waits for it, nor out of its phase.
LEMMA FreshSteps ==
    ASSUME RowsInv, Fresh, Untouched, Acts
    PROVE  \/ EndExpired \/ EndDeadline \/ RunOut \/ Restart
           \/ \E s \in turn.todo : ItemNext(s)
<1>1. /\ ~Between /\ ~Awaiting /\ ~Reconciling /\ ~Interruptible
      /\ turn.phase \in {"expired", "deadline"}
  BY DEF Fresh, Untouched, Between, Awaiting, Reconciling, Interruptible, NoCall
<1>. QED
  BY <1>1
     DEF Acts, TurnNext, StartTurn, Conclude, Retry, AbortItem, Dispatch, DispatchFails,
         Activated, Yield, BeginOptional, StartItem, EndItem, EndTurn, LeaveRest, ReadPurges,
         Pass, Others, Between

\* A question that is open is answered, given up, or waits.
LEMMA AskedSteps ==
    ASSUME RowsInv, Asked, Acts
    PROVE  \/ (\E r \in Reconciliations : Conclude(r)) \/ Retry \/ AbortItem \/ Restart
           \/ UNCHANGED <<turn, call>>
<1>1. /\ ~Between /\ Awaiting /\ turn.phase = "deadline"
  BY DEF Asked, Between, Awaiting, Reconciling, NoCall
<1>. QED
  BY <1>1
     DEF Acts, TurnNext, ItemNext, StartTurn, EndExpired, EndDeadline, RunOut, RecoverLease,
         ExpireRow, SkipPublication, AskNode, Attempt, Dispatch, DispatchFails, Activated, Yield,
         BeginOptional, StartItem, EndItem, EndTurn, LeaveRest, ReadPurges, Pass, Others, Between

\* A turn that has had no item has time for one.
LEMMA FreshHasTime ==
    ASSUME RowsInv, Fresh, Untouched
    PROVE  ~RunOut
<1>. SUFFICES ASSUME RunOut PROVE FALSE
  OBVIOUS
<1>1. turn.tried = 0 /\ (turn.tried >= MAX_CORE \/ turn.end - now - RESERVE <= 0)
  BY DEF RunOut, Fresh, Exhausted, MaintenanceRemaining, Remaining
<1>2. /\ turn.end \in Int /\ now \in Int /\ WALL \in Nat /\ RESERVE \in Nat /\ RESERVE < WALL
      /\ MAX_CORE \in Nat \ {0} /\ now = turn.end - WALL
  BY BudgetAssumption DEF RowsInv, TurnOK, Turn, Untouched
<1>. QED
  BY <1>1, <1>2

\* The step of an item leaves the phase, and counts it.
LEMMA ItemCounts ==
    ASSUME RowsInv, NEW s \in turn.todo, ItemNext(s)
    PROVE  turn'.phase = turn.phase /\ turn'.tried = turn.tried + 1 /\ now' = now
<1>1. turn' = [turn EXCEPT !.todo = @ \ {s}, !.tried = @ + 1] /\ turn \in Turn /\ now' = now
  BY DEF ItemNext, RecoverLease, ExpireRow, SkipPublication, AskNode, Attempt, RowsInv, TurnOK
<1>. QED
  BY <1>1 DEF Turn

\* FreshInv is inductive.
LEMMA FreshStep ==
    ASSUME RowsInv, RowsInv', FreshInv, Acts
    PROVE  FreshInv'
<1>. SUFFICES ASSUME Fresh' PROVE Untouched'
  BY DEF FreshInv
<1>1. CASE StartTurn
  BY <1>1, StartsFresh
<1>2. CASE Fresh
  <2>1. Untouched /\ turn \in Turn
    BY <1>2 DEF FreshInv, RowsInv, TurnOK
  <2>2. CASE EndExpired
    <3>1. turn'.phase = "deadline" /\ turn'.todo = Overdue /\ turn'.end = turn.end
      BY <2>1, <2>2 DEF EndExpired, Overdue, Turn
    <3>2. jobs' = jobs /\ now' = now /\ call' = call
      BY <2>2 DEF EndExpired, storeVars
    <3>3. Overdue' = Overdue
      BY <3>2 DEF Overdue, Snapshots, DeadlineAt, Nonterminal
    <3>. QED
      BY <2>1, <3>1, <3>2, <3>3 DEF Untouched, Present, PurgeAt
  <2>3. ~EndDeadline /\ ~RunOut /\ ~Restart
    <3>1. ~EndDeadline /\ ~Restart
      BY <2>1 DEF EndDeadline, Restart, Fresh, Yielded, Resting, Turn
    <3>. QED
      BY <1>2, <2>1, <3>1, FreshHasTime
  <2>4. ASSUME NEW s \in turn.todo, ItemNext(s)
        PROVE  FALSE
    <3>1. turn'.tried = turn.tried + 1 /\ turn.tried = 0
      BY <1>2, <2>4, ItemCounts DEF Fresh
    <3>. QED
      BY <3>1 DEF Fresh
  <2>. QED
    BY <1>2, <2>1, <2>2, <2>3, <2>4, FreshSteps
<1>3. CASE ~Fresh /\ ~StartTurn
  <2>1. turn \in Turn /\ turn.tried \in Nat
    BY DEF RowsInv, TurnOK, Turn
  <2>2. ASSUME NEW s \in turn.todo, ItemNext(s)
        PROVE  FALSE
    BY <2>1, <2>2, ItemCounts DEF Fresh
  <2>3. turn' # turn
    BY <1>3 DEF Fresh
  <2>4. ~EndExpired
    BY <1>3, <2>1 DEF EndExpired, Fresh, Turn
  <2>5. ~Dispatch /\ ~BeginOptional /\ ~StartItem /\ ~EndItem
    <3>1. ~Dispatch /\ ~BeginOptional /\ ~StartItem
      BY <2>1 DEF Dispatch, BeginOptional, StartItem, Fresh, Turn
    <3>2. ASSUME EndItem
          PROVE  FALSE
      <4>1. \/ turn' = [turn EXCEPT !.produced = TRUE] \/ turn' = turn \/ turn' = Yielded
        BY <3>2 DEF EndItem
      <4>2. turn.phase = "optional"
        BY <3>2 DEF EndItem
      <4>3. turn'.phase \in {"optional", "yielded"}
        BY <2>1, <4>1, <4>2 DEF Turn, Yielded, Resting
      <4>. QED
        BY <4>3 DEF Fresh
    <3>. QED
      BY <3>1, <3>2
  <2>6. ~EndDeadline /\ ~RunOut /\ ~AbortItem
    BY <2>1 DEF EndDeadline, RunOut, AbortItem, ToDispatch, Fresh, Turn
  <2>7. ~DispatchFails /\ ~Yield /\ ~EndTurn /\ ~LeaveRest /\ ~Restart
    BY DEF DispatchFails, Yield, EndTurn, LeaveRest, Restart, Yielded, Asleep, Resting, Fresh
  <2>. QED
    BY <1>3, <2>2, <2>3, <2>4, <2>5, <2>6, <2>7
       DEF Acts, TurnNext, Conclude, Retry, Activated, ReadPurges, Pass, Others
<1>. QED
  BY <1>1, <1>2, <1>3

\* AskedInv is inductive: what Node is asked about stays as it is until it is settled.
LEMMA AskedStep ==
    ASSUME RowsInv, RowsInv', FreshInv, AskedInv, Acts
    PROVE  AskedInv'
<1>. SUFFICES ASSUME Asked'
              PROVE  /\ call'.item.row.state = "publishing" /\ DeadlineAt(call'.item.row) <= now'
                     /\ Nonterminal(jobs'[call'.item.job]) => jobs'[call'.item.job] = call'.item.row
  BY DEF AskedInv, DeadlineAt
<1>1. /\ turn \in Turn /\ turn'.phase = "deadline" /\ turn'.tried = 1 /\ call'.item # NoItem
      /\ now \in Int /\ now' \in Int /\ now <= now' /\ jobs' \in [Jobs -> Row]
  <2>1. now' = now \/ now' = now + 1
    BY Paces DEF Starts, Maintains, Dispatches, Serves, Stops, Stays, Passes
  <2>. QED
    BY <2>1 DEF Asked, Reconciling, RowsInv, TurnOK
<1>2. CASE UNCHANGED <<turn, call>>
  <2> DEFINE s == call.item
  <2>1. /\ Asked /\ s.row.state = "publishing" /\ DeadlineAt(s.row) <= now
        /\ Nonterminal(jobs[s.job]) => jobs[s.job] = s.row
    BY <1>2 DEF Asked, Reconciling, AskedInv
  <2>2. s.job \in Jobs /\ jobs[s.job].state # "unborn" /\ DeadlineAt(s.row) \in Int
    BY <2>1, RowColumns, TimingAssumption DEF Asked, RowsInv, TurnOK, Recalls, DeadlineAt
  <2>3. Ages(jobs[s.job], jobs'[s.job])
    <3>1. \A j \in Jobs : AdmitDurableScanJob(j, now) => j # s.job
      BY <2>2 DEF AdmitDurableScanJob
    <3>. QED
      BY <2>2, <3>1, AdmissionAges, RowsAge DEF TableAges
  <2>4. Nonterminal(jobs'[s.job]) => jobs'[s.job] = s.row
    BY <2>1, <2>3 DEF Ages
  <2>5. DeadlineAt(s.row) <= now'
    BY <1>1, <2>1, <2>2
  <2>. QED
    BY <1>2, <2>1, <2>4, <2>5
<1>3. ASSUME NEW s \in turn.todo, ItemNext(s)
      PROVE  /\ call'.item.row.state = "publishing" /\ DeadlineAt(call'.item.row) <= now'
             /\ Nonterminal(jobs'[call'.item.job]) => jobs'[call'.item.job] = call'.item.row
  <2>1. Fresh /\ Untouched /\ now' = now
    <3>1. turn.tried = 0 /\ turn.phase = "deadline" /\ now' = now
      BY <1>1, <1>3, ItemCounts DEF RowsInv, TurnOK, Turn
    <3>. QED
      BY <3>1 DEF FreshInv, Fresh
  <2>2. IsOverdue(jobs, s.job, now) /\ s.job \in Jobs /\ s.row = jobs[s.job] /\ turn.phase = "deadline"
    BY <1>1, <1>3, <2>1, FirstIsAsked
  <2>3. DeadlineAt(s.row) <= now /\ Nonterminal(jobs[s.job])
    BY <2>2 DEF IsOverdue
  <2>4. ~ExpireRow(s) /\ ~RecoverLease(s) /\ \A phase \in {"expired", "deadline"} : ~SkipPublication(phase, s)
    BY <1>1, <2>1 DEF ExpireRow, RecoverLease, SkipPublication, Untouched, NoCall
  <2>5. PICK phase \in {"expired", "deadline"} : AskNode(phase, s)
    BY <1>3, <2>4 DEF ItemNext
  <2>6. ~(PurgeAt(s.row) <= now)
    BY <2>1, <2>2, <2>3 DEF Untouched, Nonterminal, NonterminalStates, Present, AbsentStates
  <2>7. call'.item = s /\ s.row.state = "publishing" /\ jobs' = Maintained(jobs)
    BY <2>5, <2>6, NodeIsAsked DEF AskNode, Reconcilable
  <2>8. Nonterminal(jobs'[s.job]) => jobs'[s.job] = s.row
    BY <2>2, <2>3, <2>7, SameTableAges DEF TableAges, Ages
  <2>. QED
    BY <2>1, <2>3, <2>7, <2>8
<1>4. CASE call' = NoCall
  BY <1>1, <1>4 DEF NoCall
<1>5. CASE turn'.phase # "deadline"
  BY <1>1, <1>5
<1>6. CASE EndExpired
  BY <1>1, <1>6 DEF EndExpired, Awaiting, NoCall
<1>. QED
  <2>1. \/ StartTurn \/ EndDeadline \/ RunOut \/ Dispatch \/ DispatchFails
        \/ BeginOptional \/ StartItem \/ EndTurn \/ LeaveRest \/ Yield
        => turn'.phase # "deadline"
    <3>1. EndDeadline \/ RunOut \/ Dispatch \/ BeginOptional \/ StartItem => turn'.phase # "deadline"
      BY <1>1 DEF EndDeadline, RunOut, ToDispatch, Dispatch, BeginOptional, StartItem, Turn
    <3>2. StartTurn => turn'.phase = "expired"
      BY DEF StartTurn, Asleep, Resting
    <3>3. DispatchFails \/ EndTurn \/ LeaveRest \/ Yield => turn' \in {Yielded, Asleep}
      BY DEF DispatchFails, EndTurn, LeaveRest, Yield
    <3>4. Yielded.phase = "yielded" /\ Asleep.phase = "asleep"
      BY DEF Asleep, Yielded, Resting
    <3>. QED
      BY <1>1, <3>1, <3>2, <3>3, <3>4
  <2>2. (\E r \in Reconciliations : Conclude(r)) \/ Retry \/ AbortItem \/ Activated \/ EndItem \/ Restart
        => call' = NoCall
    BY DEF Conclude, Retry, AbortItem, Activated, EndItem, Restart
  <2>3. ReadPurges \/ Pass \/ (\E j \in Jobs : Others(j)) => UNCHANGED <<turn, call>>
    BY DEF ReadPurges, Pass, Others
  <2>. QED
    BY <1>2, <1>3, <1>4, <1>5, <1>6, <2>1, <2>2, <2>3 DEF Acts, TurnNext

\* A turn that has yet to pay for a row does so by the time it no longer has to.
LEMMA UnpaidStep ==
    ASSUME RowsInv, RowsInv', FreshInv, AskedInv, Acts, ~Between',
           NEW j \in Jobs, IsOverdue(jobs, j, now), IsOverdue(jobs', j, now'), Unpaid(j)
    PROVE  Unpaid(j)' \/ Pays(j)
<1>1. turn \in Turn /\ jobs'[j] = jobs[j] /\ Ahead(j)' \subseteq Ahead(j)
  BY AheadShrinks DEF RowsInv, TurnOK
<1>2. \A k \in Ahead(j) : ~Nonterminal(jobs'[k]) => k \notin Ahead(j)'
  BY DEF Ahead
<1>3. CASE Fresh
  <2>1. Untouched
    BY <1>3 DEF FreshInv
  <2>2. ~RunOut /\ ~EndDeadline /\ ~Restart
    <3>1. ~EndDeadline
      <4>1. [job |-> j, row |-> jobs[j]] \in Overdue
        BY DEF Overdue, Snapshots, IsOverdue
      <4>. QED
        BY <2>1, <4>1 DEF EndDeadline, Untouched
    <3>2. ~Restart
      BY DEF Restart, Yielded, Resting, Between
    <3>. QED
      BY <1>3, <2>1, <3>1, <3>2, FreshHasTime
  <2>3. CASE EndExpired
    <3>1. turn'.phase = "deadline" /\ turn'.tried = turn.tried
      BY <1>1, <2>3 DEF EndExpired, Turn
    <3>. QED
      BY <1>3, <3>1 DEF Fresh, Unpaid
  <2>4. ASSUME NEW s \in turn.todo, ItemNext(s), turn.phase = "expired"
        PROVE  Detours
    <3>1. turn.tried = 0 /\ turn'.tried = turn.tried + 1
      BY <1>3, <2>4, ItemCounts DEF Fresh
    <3>. QED
      BY <2>1, <2>4, <3>1, ItemsChange DEF Detours
  <2>5. ASSUME NEW s \in turn.todo, ItemNext(s), turn.phase = "deadline"
        PROVE  Unpaid(j)' \/ Pays(j)
    <3>1. /\ s.job \in Ahead(j) /\ s.row = jobs[s.job]
          /\ \/ ~Nonterminal(jobs'[s.job])
             \/ s.row.state = "publishing" /\ call'.item = s
      BY <1>3, <2>1, <2>5, FirstIsSettled
    <3>2. CASE s.job \notin Ahead(j)'
      BY <3>1, <3>2 DEF Pays
    <3>3. CASE s.job \in Ahead(j)'
      <4>1. call'.item = s /\ s.row.state = "publishing"
        BY <1>2, <3>1, <3>3
      <4>2. call'.item # NoItem
        BY <4>1 DEF NoItem, NoRow
      <4>3. turn'.phase = "deadline" /\ turn'.tried = 1
        BY <1>3, <2>5, ItemCounts DEF Fresh
      <4>. QED
        BY <3>3, <4>1, <4>2, <4>3 DEF Unpaid, Asked, Reconciling
    <3>. QED
      BY <3>2, <3>3
  <2>6. ASSUME NEW s \in turn.todo, ItemNext(s)
        PROVE  Unpaid(j)' \/ Pays(j)
    BY <1>3, <2>4, <2>5, <2>6 DEF Fresh, Pays
  <2>. QED
    BY <1>3, <2>1, <2>2, <2>3, <2>6, FreshSteps
<1>4. CASE Asked /\ call.item.job \in Ahead(j)
  <2>1. Nonterminal(jobs[call.item.job])
    BY <1>4 DEF Ahead
  <2>2. CASE (\E r \in Reconciliations : Conclude(r)) \/ Retry
    <3>1. ~Nonterminal(jobs'[call.item.job])
      BY <1>4, <2>1, <2>2, AnswersSettle
    <3>. QED
      BY <1>2, <1>4, <3>1 DEF Pays
  <2>3. CASE AbortItem \/ Restart
    BY <2>3 DEF AbortItem, Restart, Pays
  <2>4. CASE UNCHANGED <<turn, call>>
    <3>1. Asked' /\ call'.item = call.item
      BY <1>4, <2>4 DEF Asked, Reconciling
    <3>2. CASE call.item.job \in Ahead(j)'
      BY <3>1, <3>2 DEF Unpaid
    <3>3. CASE call.item.job \notin Ahead(j)'
      BY <1>4, <3>3 DEF Pays
    <3>. QED
      BY <3>2, <3>3
  <2>. QED
    BY <1>4, <2>2, <2>3, <2>4, AskedSteps
<1>. QED
  BY <1>3, <1>4 DEF Unpaid

\* While a row is overdue the pump does not sleep.
LEMMA OverdueIsDue ==
    ASSUME RowsInv, NEW j \in Jobs, IsOverdue(jobs, j, now)
    PROVE  WakeIsDue
<1>1. /\ jobs[j].state \in {"queued", "leased", "publishing"} /\ DeadlineAt(jobs[j]) <= now
      /\ jobs[j].created \in Int /\ jobs[j].lease \in Int /\ now \in Int
  BY RowColumns DEF IsOverdue, Nonterminal, NonterminalStates, RowsInv
<1>2. SettlementAt(jobs[j]) <= now
  BY <1>1, TimingAssumption DEF SettlementAt, DeadlineAt
<1>. QED
  BY <1>1, <1>2 DEF WakeIsDue

\* A row is overdue from the moment of its deadline.
LEMMA TurnsOverdue ==
    ASSUME RowsInv, RowsInv', Acts, NEW j \in Jobs,
           IsOverdue(jobs', j, now'), ~IsOverdue(jobs, j, now)
    PROVE  /\ now' = now + 1 /\ DeadlineAt(jobs'[j]) = now'
           /\ UNCHANGED <<turn, call, jobs, trouble>>
<1>1. /\ Nonterminal(jobs'[j]) /\ DeadlineAt(jobs'[j]) <= now' /\ now \in Int /\ now' \in Int
      /\ DeadlineAt(jobs[j]) \in Int /\ DEADLINE \in Nat \ {0}
  BY RowColumns, TimingAssumption DEF IsOverdue, RowsInv, DeadlineAt
<1>2. CASE now' = now
  <2>1. ~Ages(jobs[j], jobs'[j])
    BY <1>1, <1>2 DEF Ages, IsOverdue, DeadlineAt
  <2>2. PICK a \in Jobs : AdmitDurableScanJob(a, now)
    BY <2>1, RowsAge DEF TableAges
  <2>3. j = a /\ jobs'[j].created = now
    BY <2>1, <2>2, AdmissionAges
  <2>. QED
    BY <1>1, <1>2, <2>3 DEF DeadlineAt
<1>3. CASE Pass
  <2>1. jobs' = jobs /\ now' = now + 1 /\ UNCHANGED <<turn, call, trouble>>
    BY <1>3 DEF Pass, Tick
  <2>2. ~(DeadlineAt(jobs[j]) <= now)
    BY <1>1, <2>1 DEF IsOverdue
  <2>. QED
    BY <1>1, <2>1, <2>2
<1>4. now' = now \/ Pass
  BY DEF Acts, TurnNext, ItemNext, StartTurn, EndExpired, EndDeadline, RunOut, RecoverLease,
         Attempt, ExpireRow, SkipPublication, AskNode, Conclude, Retry, AbortItem, Dispatch,
         DispatchFails, Activated, Yield, BeginOptional, StartItem, EndItem, EndTurn, LeaveRest,
         Restart, ReadPurges, Others, storeVars, AdmitDurableScanJob, CancelDurableScanJob,
         HeartbeatDurableScanJob, BeginPublishingDurableScanJob, ResolveDurableScanJob,
         SettleSynchronizeAndPurge
<1>. QED
  BY <1>2, <1>3, <1>4

\* A row that has just become overdue has credit.
LEMMA CreditIsLeft ==
    ASSUME CountInv', detours' \in Nat, trouble' \in Nat, NEW j \in Jobs
    PROVE  Credit(j)' \in Nat
<1>1. Ahead(j)' \in SUBSET Unfinished(jobs') /\ Unfinished(jobs') \in SUBSET Jobs
  BY DEF Ahead, Unfinished
<1>2. MAX_NONTERMINAL \in Nat /\ WALL \in Nat
  BY LimitAssumption, BudgetAssumption
<1>3. Cardinality(Ahead(j)') <= MAX_NONTERMINAL /\ Cardinality(Ahead(j)') \in Nat
  BY <1>1, <1>2, JobSetsFinite, SubsetKeepsBound DEF CountInv
<1>4. Paid(j)' \in Nat
  BY <1>2, <1>3 DEF Paid
<1>. QED
  BY <1>2, <1>4 DEF Credit

\* BoundInv is inductive: the turn under way pays for an overdue row, or was lost.
LEMMA BoundStep ==
    ASSUME RowsInv, RowsInv', ClockInv, ClockInv', CountInv, CountInv', detours \in Nat,
           detours' \in Nat, FreshInv, AskedInv, BoundInv, Next
    PROVE  BoundInv'
<1> DEFINE due(j) == DeadlineAt(jobs[j])
<1>1. /\ Acts /\ now \in Int /\ now' \in Int /\ WALL \in Nat \ {0} /\ RESERVE \in Nat
      /\ turn.end \in Int /\ turn'.end \in Int /\ trouble \in Nat /\ trouble' \in Nat
      /\ ~Between => turn.end - WALL <= now /\ now <= turn.end
  <2>1. /\ Acts /\ now \in Int /\ now' \in Int /\ WALL \in Nat \ {0} /\ RESERVE \in Nat
        /\ turn.end \in Int /\ turn'.end \in Int /\ trouble \in Nat /\ trouble' \in Nat
    BY BudgetAssumption DEF Next, Acts, RowsInv, TurnOK, Turn, ClockInv
  <2>2. turn.phase \in Maintenance \/ turn.phase \in Serving => now <= turn.end
    BY <2>1 DEF ClockInv, InTime
  <2>3. Between \/ turn.phase \in Maintenance \/ turn.phase \in Serving
    BY PhasesApart
  <2>. QED
    BY <2>1, <2>2, <2>3 DEF ClockInv, InTime
<1>. SUFFICES ASSUME NEW j \in Jobs, IsOverdue(jobs', j, now')
     PROVE  /\ Between' => now' <= due(j)' + WALL + Credit(j)'
            /\ ~Between' => turn'.end <= due(j)' + WALL + Credit(j)' + (IF Unpaid(j)' THEN WALL ELSE 0)
  BY DEF BoundInv, IsOverdue, DeadlineAt
<1>2. CASE ~IsOverdue(jobs, j, now)
  <2>1. /\ now' = now + 1 /\ due(j)' = now' /\ UNCHANGED <<turn, call, jobs, trouble>>
    BY <1>1, <1>2, TurnsOverdue DEF DeadlineAt
  <2>2. Credit(j)' \in Nat
    BY <1>1, CreditIsLeft
  <2>3. Between' <=> Between
    BY <2>1 DEF Between
  <2>. HIDE DEF due
  <2>. QED
    BY <1>1, <2>1, <2>2, <2>3
<1>3. CASE IsOverdue(jobs, j, now)
  <2>1. trouble' = trouble \/ trouble' = trouble + 1
    BY <1>1, Paces DEF Starts, Maintains, Dispatches, Serves, Stops, Stays, Passes
  <2>2. /\ Credit(j) \in Int /\ Credit(j)' \in Int /\ Credit(j) <= Credit(j)'
        /\ Pays(j) => Credit(j) + WALL <= Credit(j)'
    BY <1>1, <1>3, <2>1, CreditStep
  <2>3. jobs'[j] = jobs[j] /\ due(j) \in Int /\ due(j)' = due(j) /\ due(j) <= now
    <3>1. jobs'[j] = jobs[j]
      BY <1>1, <1>3, AheadShrinks
    <3>. QED
      BY <1>3, <3>1, RowColumns, TimingAssumption DEF RowsInv, DeadlineAt, IsOverdue
  <2>4. /\ Between => now <= due(j) + WALL + Credit(j)
        /\ ~Between => turn.end <= due(j) + WALL + Credit(j) + (IF Unpaid(j) THEN WALL ELSE 0)
    BY <1>3 DEF BoundInv
  <2>5. ~Between' /\ Unpaid(j) => Unpaid(j)' \/ Pays(j)
    BY <1>1, <1>3, UnpaidStep
  <2>6. ~Between /\ ~Between' /\ turn'.end = turn.end
        => turn'.end <= due(j)' + WALL + Credit(j)' + (IF Unpaid(j)' THEN WALL ELSE 0)
    <3>. HIDE DEF due
    <3>. QED
      BY <1>1, <2>2, <2>3, <2>4, <2>5
  <2>7. CASE Starts
    <3>1. /\ Between /\ now' = now /\ turn'.end = now + WALL /\ ~Between'
          /\ Unpaid(j)'
      <4>1. StartTurn /\ ~Between'
        BY <1>1, <2>7, OnlyStartsBegin DEF Starts, Between
      <4>. QED
        BY <2>7, <4>1, StartsFresh DEF Starts, Unpaid
    <3>. HIDE DEF due
    <3>. QED
      BY <1>1, <2>2, <2>3, <2>4, <3>1
  <2>8. CASE Maintains \/ Dispatches \/ Serves
    <3>1. ~Between /\ ~Between' /\ turn'.end = turn.end
      BY <2>8 DEF Maintains, Dispatches, Serves, Maintenance, Serving, Between
    <3>. QED
      BY <2>6, <3>1
  <2>9. CASE Stops
    <3>1. Between' /\ ~Between /\ now' = now
      BY <2>9 DEF Stops, Between
    <3>2. trouble' = trouble + 1 \/ ~Unpaid(j)
      BY <2>9 DEF Stops, Serving, Unpaid, Fresh, Asked
    <3>3. trouble' = trouble + 1 => Pays(j)
      BY DEF Pays
    <3>. HIDE DEF due
    <3>. QED
      BY <1>1, <2>2, <2>3, <2>4, <3>1, <3>2, <3>3
  <2>10. CASE Stays
    <3>1. turn' = turn /\ now' = now /\ (Between' <=> Between)
      BY <2>10 DEF Stays, Between
    <3>2. CASE Between
      <4>. HIDE DEF due
      <4>. QED
        BY <1>1, <2>2, <2>3, <2>4, <3>1, <3>2
    <3>. QED
      BY <2>6, <3>1, <3>2
  <2>11. CASE Passes
    <3>1. turn' = turn /\ ~Between
      <4>1. turn' = turn /\ Awaiting
        BY <1>3, <2>11, OverdueIsDue DEF Passes
      <4>. QED
        BY <4>1 DEF Awaiting, RowsInv, TurnOK
    <3>2. ~Between'
      BY <3>1 DEF Between
    <3>. QED
      BY <2>6, <3>1, <3>2
  <2>. QED
    BY <1>1, <2>7, <2>8, <2>9, <2>10, <2>11, Paces
<1>. QED
  BY <1>2, <1>3

OverdueInv == detours \in Nat /\ CountInv /\ FreshInv /\ AskedInv /\ BoundInv

\* The strengthening holds at first: there is no row.
LEMMA OverdueInit ==
    ASSUME Init
    PROVE  OverdueInv
<1>1. /\ turn.phase = "asleep" /\ detours = 0
      /\ \A j \in Jobs : ~Nonterminal(jobs[j])
  BY DEF Init, StoreInit, Asleep, Resting, NoRow, Nonterminal, NonterminalStates
<1>2. CountInv
  <2>1. Unfinished(jobs) = {}
    BY <1>1 DEF Unfinished
  <2>. QED
    BY <2>1, FS_EmptySet, LimitAssumption DEF CountInv
<1>. QED
  BY <1>1, <1>2 DEF OverdueInv, FreshInv, Fresh, AskedInv, Asked, BoundInv, IsOverdue

\* And is inductive.
LEMMA OverdueStep ==
    ASSUME RowsInv, RowsInv', ClockInv, ClockInv', OverdueInv, [Next]_vars
    PROVE  OverdueInv'
<1>1. CASE Next
  <2>1. Acts
    BY <1>1 DEF Next, Acts
  <2>2. detours' \in Nat
    BY <1>1 DEF Next, OverdueInv
  <2>3. CountInv' /\ FreshInv' /\ AskedInv'
    BY <2>1, CountStep, FreshStep, AskedStep DEF OverdueInv
  <2>4. BoundInv'
    BY <1>1, <2>2, <2>3, BoundStep DEF OverdueInv
  <2>. QED
    BY <2>2, <2>3, <2>4 DEF OverdueInv
<1>2. CASE UNCHANGED vars
  <2>1. UNCHANGED <<now, jobs, turn, call, backoff, detours, trouble>>
    BY <1>2 DEF vars, storeVars
  <2>2. (FreshInv /\ AskedInv /\ CountInv)'
    BY <2>1
       DEF OverdueInv, CountInv, Unfinished, FreshInv, Fresh, Untouched, Lapsed, Overdue,
           Snapshots, Active, Actionable, ReconciliationIsDue, SettlementAt, DeadlineAt,
           Nonterminal, Present, PurgeAt, AskedInv, Asked, Reconciling
  <2>3. BoundInv'
    BY <2>1
       DEF OverdueInv, BoundInv, IsOverdue, Between, Credit, Paid, Ahead, Unpaid, Fresh, Asked,
           Reconciling, Nonterminal, DeadlineAt
  <2>. QED
    BY <2>1, <2>2, <2>3 DEF OverdueInv
<1>. QED
  BY <1>1, <1>2

\* A row past its deadline is settled in time, however many jobs there are, whenever
\* they were admitted, and whatever Node, the routes, restarts and timeouts do: every
\* turn settles one that is due no later, or is a detour or lost.
THEOREM OverdueRowsAreSettled == Spec => []OverdueIsSettled
<1>1. RowsInv /\ ClockInv /\ OverdueInv => OverdueIsSettled
  <2>. SUFFICES ASSUME RowsInv, ClockInv, OverdueInv, NEW j \in Jobs, IsOverdue(jobs, j, now)
                PROVE  now <= DeadlineAt(jobs[j]) + (MAX_NONTERMINAL + 1 + detours + trouble) * WALL
    BY DEF OverdueIsSettled
  <2> DEFINE most == MAX_NONTERMINAL + detours + trouble
             due == DeadlineAt(jobs[j])
  <2>1. /\ WALL \in Nat /\ MAX_NONTERMINAL \in Nat /\ detours \in Nat /\ trouble \in Nat
        /\ now \in Int /\ turn.end \in Int /\ due \in Int
    BY BudgetAssumption, LimitAssumption, TimingAssumption, RowColumns
       DEF RowsInv, TurnOK, Turn, ClockInv, OverdueInv, DeadlineAt
  <2>2. Cardinality(Ahead(j)) \in Nat \ {0}
    <3>1. Ahead(j) \in SUBSET Jobs /\ j \in Ahead(j)
      BY <2>1 DEF Ahead, IsOverdue
    <3>. QED
      BY <3>1, JobSetsFinite, FS_EmptySet
  <2>3. Paid(j) \in Int /\ most \in Int /\ Paid(j) + 1 <= most
    BY <2>1, <2>2 DEF Paid
  <2>4. /\ Credit(j) \in Int /\ most * WALL \in Int /\ (most + 1) * WALL \in Int
        /\ Credit(j) + WALL <= most * WALL /\ most * WALL + WALL <= (most + 1) * WALL
    <3>. HIDE DEF most
    <3>. QED
      BY <2>1, <2>3, CreditAdds DEF Credit
  <2>5. /\ Between => now <= due + WALL + Credit(j)
        /\ ~Between => turn.end <= due + WALL + Credit(j) + WALL
    <3>1. /\ Between => now <= due + WALL + Credit(j)
          /\ ~Between => turn.end <= due + WALL + Credit(j) + (IF Unpaid(j) THEN WALL ELSE 0)
      BY DEF OverdueInv, BoundInv
    <3>. HIDE DEF due
    <3>. QED
      BY <2>1, <2>4, <3>1
  <2>6. ~Between => now <= turn.end
    <3>1. turn.phase \in Maintenance \/ turn.phase \in Serving => now <= turn.end
      BY <2>1, BudgetAssumption DEF ClockInv, InTime
    <3>. QED
      BY <3>1, PhasesApart
  <2>7. now <= due + (most + 1) * WALL
    <3>. HIDE DEF due, most
    <3>. QED
      BY <2>1, <2>4, <2>5, <2>6
  <2>8. MAX_NONTERMINAL + 1 + detours + trouble = most + 1
    BY <2>1
  <2>. QED
    BY <2>7, <2>8
<1>2. Init => RowsInv /\ ClockInv /\ OverdueInv
  BY RowsInit, ClockInit, OverdueInit
<1>3. RowsInv /\ ClockInv /\ OverdueInv /\ [Next]_vars => (RowsInv /\ ClockInv /\ OverdueInv)'
  <2>. SUFFICES ASSUME RowsInv, ClockInv, OverdueInv, [Next]_vars
                PROVE  (RowsInv /\ ClockInv /\ OverdueInv)'
    OBVIOUS
  <2>1. RowsInv'
    BY RowsStep
  <2>2. ClockInv'
    BY <2>1, ClockStep
  <2>. QED
    BY <2>1, <2>2, OverdueStep
<1>. QED
  BY <1>1, <1>2, <1>3, PTL DEF Spec
===============================================================================
