---------------------- MODULE DurableScanJobStoreProofs ----------------------
(***************************************************************************)
(* Theorems about DurableScanJobStore, for every set of jobs, every choice *)
(* of the timing constants and every bound.                                *)
(*                                                                         *)
(* The invariants of the table are all statements about one row, so the    *)
(* inductive invariant is "every row is good", and every mutation replaces *)
(* a row by one computed from it.  The proof has one lemma per row         *)
(* transformation (the new row is good, and moves along the promise), one  *)
(* lemma per mutation that puts it into the table, and the temporal        *)
(* theorems at the end.                                                    *)
(***************************************************************************)
EXTENDS DurableScanJobStore, FiniteSetTheorems, WellFoundedInduction, TLAPS

\* What the proof keeps about one row: its type, the CHECK constraints, the
\* publication reserve and the attempt accounting.
GoodRow(row) ==
    /\ row \in Row
    /\ row.payload <=> Nonterminal(row)
    /\ (row.token # 0) <=> Active(row)
    /\ (row.lease # 0) <=> Active(row)
    /\ (row.manifest # 0) <=> row.state = "publishing"
    /\ (row.finished # 0) <=> Terminal(row)
    /\ row.reason # "none" => Terminal(row)
    /\ row.state = "publishing" => row.lease <= PublishingCeiling(row)
    /\ row.generation = row.attempts
    /\ Active(row) => row.token = row.generation
    /\ row.manifest # 0 => row.manifest = row.generation
    /\ row.reason = "restart-limit" => row.attempts = MAX_ATTEMPTS
    /\ ~Present(row) => row = NoRow(row.state)
    /\ Active(row) => row.attempts # 0

\* The inductive invariant.
Inv ==
    /\ now \in Nat \ {0}
    /\ jobs \in [Jobs -> Row]
    /\ \A j \in Jobs : GoodRow(jobs[j])

\* One row moves along the promise, or keeps it.
Advances(row, new) ==
    \/ PromiseOf(new) = PromiseOf(row)
    \/ Promise!Evolves(PromiseOf(row), PromiseOf(new))

\* An unfinished row is not deleted before its purge horizon.
Kept(row, new) == Nonterminal(row) /\ ~Present(new) => PurgeAt(row) <= now

\* The new row of a mutation is sound for the old one.
Sound(row, new) == GoodRow(new) /\ Advances(row, new) /\ Kept(row, new)

\* Every row of the next table is sound for the row it replaces.
TableSound ==
    /\ jobs' \in [Jobs -> Row]
    /\ \A j \in Jobs : Sound(jobs[j], jobs'[j])

-----------------------------------------------------------------------------
(* Facts about rows.                                                       *)

\* An unchanged row is sound.
LEMMA SameRowSound ==
    ASSUME NEW row, GoodRow(row)
    PROVE  Sound(row, row)
BY DEF Sound, Advances, Kept, Nonterminal, Present, NonterminalStates, AbsentStates

\* The types of a row's columns.
LEMMA RowColumns ==
    ASSUME NEW row \in Row
    PROVE  /\ row.state \in NonterminalStates \cup TerminalStates \cup AbsentStates
           /\ row.created \in Int /\ row.lease \in Int /\ row.finished \in Int
           /\ row.attempts \in 0..MAX_ATTEMPTS /\ row.runs \in 0..2
           /\ row.generation \in Nat /\ row.token \in Nat /\ row.manifest \in Nat
           /\ row.payload \in BOOLEAN /\ row.reason \in Reasons
BY DEF Row

\* Deleting a row that exists leaves a good row, and the promise allows it.
LEMMA DeletedRowGood ==
    ASSUME NEW row, GoodRow(row), Present(row)
    PROVE  GoodRow(NoRow("gone")) /\ Advances(row, NoRow("gone"))
<1>1. GoodRow(NoRow("gone"))
  BY LimitAssumption
     DEF GoodRow, Row, NoRow, NonterminalStates, TerminalStates, AbsentStates, Reasons,
         Nonterminal, Terminal, Active, Present
<1>2. PromiseOf(NoRow("gone")) = Promise!Forgotten
  BY DEF PromiseOf, PhaseOf, NoRow, Promise!Forgotten, Terminal, TerminalStates
<1>3. PromiseOf(row).phase \notin {"unborn", "forgotten"}
  BY DEF PromiseOf, PhaseOf, Terminal, GoodRow, Row, Present, NonterminalStates, TerminalStates, AbsentStates
<1>. QED
  BY <1>1, <1>2, <1>3 DEF Advances, Promise!Evolves, Promise!Forget

\* Deleting a row that exists is sound, if it is finished or purgeable.
LEMMA DeletedRowSound ==
    ASSUME NEW row, GoodRow(row), Present(row), Nonterminal(row) => PurgeAt(row) <= now
    PROVE  Sound(row, NoRow("gone"))
BY DeletedRowGood DEF Sound, Kept

\* An unfinished row may take any outcome the promise allows: success only
\* out of a publication, cancellation only before one.
LEMMA TerminalizedRowSound ==
    ASSUME NEW row, NEW state \in TerminalStates, NEW reason \in Reasons,
           now \in Nat \ {0}, GoodRow(row), Nonterminal(row),
           state = "succeeded" => row.state = "publishing",
           state = "cancelled" => row.state # "publishing",
           reason = "restart-limit" => row.attempts = MAX_ATTEMPTS
    PROVE  Sound(row, Terminalized(row, state, reason))
<1> DEFINE new == Terminalized(row, state, reason)
<1>0. Kept(row, Terminalized(row, state, reason))
  BY DEF Kept, Present, AbsentStates, Terminalized, TerminalStates
<1>1. GoodRow(new)
  <2>1. row \in Row
    BY DEF GoodRow
  <2>2. new \in Row
    BY <2>1 DEF Row, Terminalized
  <2>3. /\ new.state = state /\ new.reason = reason /\ new.finished = now
        /\ new.payload = FALSE /\ new.token = 0 /\ new.lease = 0 /\ new.manifest = 0
        /\ new.attempts = row.attempts /\ new.generation = row.generation
    BY <2>1 DEF Row, Terminalized
  <2>. QED
    BY <2>2, <2>3
       DEF GoodRow, NonterminalStates, TerminalStates, AbsentStates, Nonterminal, Terminal,
           Active, Present
<1>2. PromiseOf(new) = Promise!Settled(row.attempts, state)
  BY DEF PromiseOf, PhaseOf, Terminalized, Promise!Settled, Terminal, TerminalStates,
         GoodRow, Row
<1>3. CASE row.state = "publishing"
  <2>1. PromiseOf(row) = Promise!Committed(row.attempts)
    BY <1>3 DEF PromiseOf, PhaseOf, Promise!Committed, Terminal, TerminalStates, GoodRow
  <2>2. row.attempts \in 1..MAX_ATTEMPTS
    BY <1>3, LimitAssumption DEF GoodRow, Row, Active
  <2>3. state \in Promise!Outcomes \ {"cancelled"}
    BY <1>3 DEF Promise!Outcomes, TerminalStates
  <2>. QED
    BY <1>0, <1>1, <1>2, <2>1, <2>2, <2>3 DEF Sound, Advances, Promise!Evolves, Promise!Conclude
<1>4. CASE row.state # "publishing"
  <2>1. PromiseOf(row) = Promise!Pending(row.attempts)
    BY <1>4 DEF PromiseOf, PhaseOf, Promise!Pending, Terminal, TerminalStates, GoodRow,
                Nonterminal, NonterminalStates
  <2>2. row.attempts \in 0..MAX_ATTEMPTS
    BY DEF GoodRow, Row
  <2>3. state \in Promise!Outcomes \ {"succeeded"}
    BY <1>4 DEF Promise!Outcomes, TerminalStates
  <2>. QED
    BY <1>0, <1>1, <1>2, <2>1, <2>2, <2>3 DEF Sound, Advances, Promise!Evolves, Promise!Abandon
<1>. QED
  BY <1>3, <1>4

\* A claimed row starts one more execution.
LEMMA ClaimedRowSound ==
    ASSUME NEW row, now \in Nat \ {0}, GoodRow(row), row.state = "queued",
           DeadlineAt(row) > now, row.attempts < MAX_ATTEMPTS
    PROVE  Sound(row, ClaimedRow(row))
<1> DEFINE new == ClaimedRow(row)
           end == Earlier(now + LEASE, DeadlineAt(row))
<1>0. Kept(row, ClaimedRow(row))
  BY DEF Kept, Present, AbsentStates, ClaimedRow
<1>1. GoodRow(new)
  <2>1. row \in Row /\ row.generation = row.attempts
    BY DEF GoodRow
  <2>2. end \in Int \ {0}
    BY <2>1, TimingAssumption DEF Row, Earlier, DeadlineAt
  <2>3. row.attempts + 1 \in 1..MAX_ATTEMPTS
    BY <2>1, RowColumns, LimitAssumption
  <2>7. row.payload = TRUE /\ row.finished = 0
    BY RowColumns DEF GoodRow, Nonterminal, Terminal, NonterminalStates, TerminalStates
  <2>4. new \in Row
    BY <2>1, <2>2, <2>3 DEF Row, ClaimedRow, NonterminalStates
  <2>5. /\ new.state = "leased" /\ new.attempts = row.attempts + 1
        /\ new.generation = row.generation + 1 /\ new.token = row.generation + 1
        /\ new.manifest = 0 /\ new.lease = end
        /\ new.payload = TRUE /\ new.finished = 0 /\ new.reason = row.reason
    BY <2>1, <2>7 DEF Row, ClaimedRow
  <2>6. new.reason # "restart-limit"
    BY <2>1, <2>5, RowColumns, LimitAssumption DEF GoodRow
  <2> HIDE DEF new, end
  <2>. QED
    BY <2>1, <2>2, <2>3, <2>4, <2>5, <2>6
       DEF GoodRow, NonterminalStates, TerminalStates, AbsentStates, Nonterminal, Terminal,
           Active, Present
<1>2. /\ PromiseOf(row) = Promise!Pending(row.attempts)
      /\ PromiseOf(ClaimedRow(row)) = Promise!Pending(row.attempts + 1)
  BY DEF PromiseOf, PhaseOf, Promise!Pending, Terminal, TerminalStates, GoodRow, Row, ClaimedRow
<1>3. row.attempts \in 0..(MAX_ATTEMPTS - 1)
  BY LimitAssumption DEF GoodRow, Row
<1>. QED
  BY <1>0, <1>1, <1>2, <1>3 DEF Sound, Advances, Promise!Evolves, Promise!Try

\* A recovered row goes back to the queue without a trace of its execution.
LEMMA RequeuedRowSound ==
    ASSUME NEW row, GoodRow(row), row.state = "leased"
    PROVE  Sound(row, RequeuedRow(row))
<1> DEFINE new == RequeuedRow(row)
<1>0. Kept(row, RequeuedRow(row))
  BY DEF Kept, Present, AbsentStates, RequeuedRow
<1>1. GoodRow(new)
  <2>1. row \in Row
    BY DEF GoodRow
  <2>4. row.payload = TRUE /\ row.finished = 0
    BY RowColumns DEF GoodRow, Nonterminal, Terminal, NonterminalStates, TerminalStates
  <2>2. new \in Row
    BY <2>1 DEF Row, RequeuedRow, NonterminalStates
  <2>3. /\ new.state = "queued" /\ new.token = 0 /\ new.lease = 0 /\ new.manifest = 0
        /\ new.attempts = row.attempts /\ new.generation = row.generation
        /\ new.payload = TRUE /\ new.finished = 0 /\ new.reason = row.reason
    BY <2>1, <2>4 DEF Row, RequeuedRow
  <2> HIDE DEF new
  <2>. QED
    BY <2>2, <2>3
       DEF GoodRow, NonterminalStates, TerminalStates, AbsentStates, Nonterminal, Terminal,
           Active, Present
<1>2. PromiseOf(RequeuedRow(row)) = PromiseOf(row)
  BY DEF PromiseOf, PhaseOf, RequeuedRow, Terminal, TerminalStates, GoodRow, Row, Active
<1>. QED
  BY <1>0, <1>1, <1>2 DEF Sound, Advances

\* A renewal keeps the row's promise, and a publishing row's reserve.
LEMMA RenewedRowSound ==
    ASSUME NEW row, NEW runs \in 0..2, now \in Nat \ {0}, GoodRow(row), Active(row),
           HeartbeatCeiling(row) > now
    PROVE  Sound(row, RenewedRow(row, runs))
<1> DEFINE new == RenewedRow(row, runs)
           end == Earlier(now + LEASE, HeartbeatCeiling(row))
<1>0. Kept(row, RenewedRow(row, runs))
  BY DEF Kept, Present, AbsentStates, RenewedRow, Active
<1>1. HeartbeatCeiling(row) \in Int
  BY TimingAssumption DEF HeartbeatCeiling, PublishingCeiling, DeadlineAt, GoodRow, Row
<1>2. end \in Int \ {0} /\ end <= HeartbeatCeiling(row)
  BY <1>1, TimingAssumption DEF Earlier
<1>3. GoodRow(new)
  <2>1. row \in Row
    BY DEF GoodRow
  <2>2. new \in Row
    BY <1>2, <2>1 DEF Row, RenewedRow
  <2>3. /\ new.state = row.state /\ new.manifest = row.manifest /\ new.lease = end
        /\ new.attempts = row.attempts /\ new.generation = row.generation
        /\ new.payload = row.payload /\ new.finished = row.finished /\ new.reason = row.reason
        /\ new.token = row.token /\ new.created = row.created
    BY DEF RenewedRow
  <2>4. PublishingCeiling(new) = PublishingCeiling(row)
    BY <2>3 DEF PublishingCeiling, DeadlineAt
  <2>5. row.state = "publishing" => end <= PublishingCeiling(row)
    BY <1>2 DEF HeartbeatCeiling
  <2> HIDE DEF new, end
  <2>. QED
    BY <1>2, <2>2, <2>3, <2>4, <2>5
       DEF GoodRow, NonterminalStates, TerminalStates, AbsentStates, Nonterminal, Terminal,
           Active, Present
<1>4. PromiseOf(new) = PromiseOf(row)
  BY DEF PromiseOf, PhaseOf, Terminal, RenewedRow
<1>. QED
  BY <1>0, <1>3, <1>4 DEF Sound, Advances

\* Publication commits the execution that owns the lease.
LEMMA PublishingRowSound ==
    ASSUME NEW row, now \in Nat \ {0}, GoodRow(row), row.state = "leased",
           DeadlineAt(row) >= now + PUBLICATION_TIMEOUT + SETTLEMENT + RECONCILIATION_TIMEOUT
    PROVE  Sound(row, PublishingRow(row))
<1>0. Kept(row, PublishingRow(row))
  BY DEF Kept, Present, AbsentStates, PublishingRow
<1>1. /\ Earlier(now + LEASE, PublishingCeiling(row)) \in Int \ {0}
      /\ Earlier(now + LEASE, PublishingCeiling(row)) <= PublishingCeiling(row)
  BY TimingAssumption DEF Earlier, PublishingCeiling, DeadlineAt, GoodRow, Row
<1> DEFINE new == PublishingRow(row)
           end == Earlier(now + LEASE, PublishingCeiling(row))
<1>2. GoodRow(new)
  <2>1. row \in Row
    BY DEF GoodRow
  <2>5. row.payload = TRUE /\ row.finished = 0
    BY RowColumns DEF GoodRow, Nonterminal, Terminal, NonterminalStates, TerminalStates
  <2>2. new \in Row
    BY <1>1, <2>1 DEF Row, PublishingRow, NonterminalStates
  <2>3. /\ new.state = "publishing" /\ new.manifest = row.generation /\ new.lease = end
        /\ new.attempts = row.attempts /\ new.generation = row.generation
        /\ new.payload = TRUE /\ new.finished = 0 /\ new.reason = row.reason
        /\ new.token = row.token /\ new.created = row.created
    BY <2>1, <2>5 DEF Row, PublishingRow
  <2>4. PublishingCeiling(new) = PublishingCeiling(row)
    BY <2>3 DEF PublishingCeiling, DeadlineAt
  <2> HIDE DEF new
  <2>. QED
    BY <1>1, <2>2, <2>3, <2>4
       DEF GoodRow, NonterminalStates, TerminalStates, AbsentStates, Nonterminal, Terminal,
           Active, Present
<1>3. /\ PromiseOf(row) = Promise!Pending(row.attempts)
      /\ PromiseOf(PublishingRow(row)) = Promise!Committed(row.attempts)
  BY DEF PromiseOf, PhaseOf, PublishingRow, Promise!Pending, Promise!Committed, Terminal,
         TerminalStates, GoodRow, Row, Active
<1>4. row.attempts \in 1..MAX_ATTEMPTS
  BY LimitAssumption DEF GoodRow, Row, Active
<1>. QED
  BY <1>0, <1>2, <1>3, <1>4 DEF Sound, Advances, Promise!Evolves, Promise!Commit

\* An admission is accepted once, out of nothing.
LEMMA NewRowSound ==
    ASSUME NEW row, NEW created \in Int, GoodRow(row), row.state = "unborn"
    PROVE  Sound(row, NewRow(created))
<1>0. Kept(row, NewRow(created))
  BY DEF Kept, Present, AbsentStates, NewRow
<1>1. GoodRow(NewRow(created))
  BY LimitAssumption
     DEF GoodRow, Row, NewRow, NoRow, NonterminalStates, TerminalStates, AbsentStates, Reasons,
         Nonterminal, Terminal, Active, Present
<1>2. row = NoRow("unborn")
  BY DEF GoodRow, Present, AbsentStates
<1>3. /\ PromiseOf(row) = Promise!Unborn
      /\ PromiseOf(NewRow(created)) = Promise!Pending(0)
  BY <1>2 DEF PromiseOf, PhaseOf, NewRow, NoRow, Promise!Unborn, Promise!Pending, Terminal,
              TerminalStates
<1>. QED
  BY <1>0, <1>1, <1>3 DEF Sound, Advances, Promise!Evolves, Promise!Accept

-----------------------------------------------------------------------------
(* Mutations of the table.                                                 *)

\* Replacing one row by a sound one.
LEMMA OneRowSound ==
    ASSUME NEW j \in Jobs, NEW new, Inv, Sound(jobs[j], new),
           jobs' = [jobs EXCEPT ![j] = new]
    PROVE  TableSound
<1>1. new \in Row
  BY DEF Sound, GoodRow
<1>2. jobs' \in [Jobs -> Row]
  BY <1>1 DEF Inv
<1>3. ASSUME NEW k \in Jobs
      PROVE  Sound(jobs[k], jobs'[k])
  <2>1. CASE k = j
    BY <2>1 DEF Inv
  <2>2. CASE k # j
    BY <2>2, SameRowSound DEF Inv
  <2>. QED
    BY <2>1, <2>2
<1>. QED
  BY <1>2, <1>3 DEF TableSound

\* What deletions leave of the table: every row is untouched or was deleted,
\* and only a finished or purgeable one.
Swept(tab) ==
    /\ tab \in [Jobs -> Row]
    /\ \A j \in Jobs :
          \/ tab[j] = jobs[j]
          \/ /\ Present(jobs[j])
             /\ Nonterminal(jobs[j]) => PurgeAt(jobs[j]) <= now
             /\ tab[j] = NoRow("gone")

\* Deleting purgeable or finished rows leaves a swept table.
LEMMA WithoutSwept ==
    ASSUME NEW tab, NEW gone, Inv, Swept(tab), gone \subseteq Rows(tab),
           \A j \in gone : Nonterminal(tab[j]) => PurgeAt(tab[j]) <= now
    PROVE  Swept(Without(tab, gone))
<1>1. NoRow("gone") \in Row
  BY LimitAssumption
     DEF Row, NoRow, NonterminalStates, TerminalStates, AbsentStates, Reasons
<1>2. ~Present(NoRow("gone"))
  BY DEF Present, NoRow, AbsentStates
<1>3. Without(tab, gone) \in [Jobs -> Row]
  BY <1>1 DEF Without, Swept
<1>4. ASSUME NEW j \in Jobs, j \in gone
      PROVE  tab[j] = jobs[j] /\ Present(jobs[j])
  BY <1>2, <1>4 DEF Swept, Rows
<1>. QED
  BY <1>3, <1>4 DEF Swept, Without

\* Row eviction takes finished rows only.
LEMMA EvictedSwept ==
    ASSUME NEW tab, NEW target, Inv, Swept(tab)
    PROVE  Swept(EvictedTo(tab, target))
<1>1. Evictable(tab, target) \subseteq Rows(tab)
  BY DEF Evictable, Tombstones, Rows, Terminal, Present, TerminalStates, AbsentStates
<1>2. \A j \in Evictable(tab, target) : ~Nonterminal(tab[j])
  BY DEF Evictable, Tombstones, Terminal, Nonterminal, TerminalStates, NonterminalStates
<1>. QED
  BY <1>1, <1>2, WithoutSwept DEF EvictedTo

\* The retention pass leaves a swept table.
LEMMA MaintainedSwept ==
    ASSUME Inv
    PROVE  Swept(Maintained(jobs))
<1>1. Swept(jobs)
  BY DEF Swept, Inv
<1>2. Swept(Without(jobs, PastPurge(jobs)))
  BY <1>1, WithoutSwept DEF PastPurge, Rows
<1>. QED
  BY <1>2, EvictedSwept DEF Maintained

\* Every row of a swept table is sound for the row it replaces.
LEMMA SweptSound ==
    ASSUME NEW tab, Inv, Swept(tab), NEW j \in Jobs
    PROVE  Sound(jobs[j], tab[j])
<1>1. CASE tab[j] = jobs[j]
  BY <1>1, SameRowSound DEF Inv
<1>2. CASE tab[j] # jobs[j]
  BY <1>2, DeletedRowSound DEF Inv, Swept
<1>. QED
  BY <1>1, <1>2

\* Deletions leave every row of any table, or nothing of it.
LEMMA MaintainedRows ==
    ASSUME NEW tab
    PROVE  /\ Maintained(tab) = [j \in Jobs |-> Maintained(tab)[j]]
           /\ \A j \in Jobs :
                 \/ Maintained(tab)[j] = tab[j]
                 \/ Present(tab[j]) /\ Maintained(tab)[j] = NoRow("gone")
<1> DEFINE kept == Without(tab, PastPurge(tab))
           out == Evictable(kept, MAX_ROWS)
<1>1. \A j \in Jobs :
         kept[j] = tab[j] \/ (Present(tab[j]) /\ kept[j] = NoRow("gone"))
  BY DEF Without, PastPurge, Rows
<1>2. out \subseteq {j \in Jobs : Terminal(kept[j])}
  BY DEF Evictable, Tombstones
<1>3. Maintained(tab) = Without(kept, out)
  BY DEF Maintained, EvictedTo
<1> HIDE DEF kept, out
<1>4. \A j \in out : Present(kept[j])
  BY <1>2 DEF Terminal, TerminalStates, Present, AbsentStates
<1>5. ~Present(NoRow("gone"))
  BY DEF NoRow, Present, AbsentStates
<1>. QED
  BY <1>1, <1>3, <1>4, <1>5 DEF Without

-----------------------------------------------------------------------------
(* One lemma per mutation of the table.                                    *)

\* Admission: its preflight only sweeps, its commit adds one new row.
LEMMA AdmissionSound ==
    ASSUME Inv, NEW j \in Jobs, NEW created \in Int,
           PreflightAdmission(j) \/ AdmitDurableScanJob(j, created)
    PROVE  TableSound
<1>1. CASE PreflightAdmission(j)
  <2>1. Swept(EvictedTo(Maintained(jobs), MAX_ROWS - 1))
    BY MaintainedSwept, EvictedSwept
  <2>. QED
    BY <1>1, <2>1, SweptSound DEF PreflightAdmission, TableSound, Swept
<1>2. CASE AdmitDurableScanJob(j, created)
  <2> DEFINE room == EvictedTo(jobs, MAX_ROWS - 1)
  <2>1. Swept(room)
    BY EvictedSwept DEF Swept, Inv
  <2>2. Sound(jobs[j], NewRow(created))
    BY <1>2, NewRowSound DEF AdmitDurableScanJob, Inv
  <2>3. jobs' = [room EXCEPT ![j] = NewRow(created)]
    BY <1>2 DEF AdmitDurableScanJob
  <2> HIDE DEF room
  <2>4. NewRow(created) \in Row
    BY <2>2 DEF Sound, GoodRow
  <2>5. jobs' \in [Jobs -> Row]
    BY <2>1, <2>3, <2>4 DEF Swept
  <2>6. ASSUME NEW k \in Jobs
        PROVE  Sound(jobs[k], jobs'[k])
    <3>1. CASE k = j
      BY <2>1, <2>2, <2>3, <3>1 DEF Swept
    <3>2. CASE k # j
      BY <2>1, <2>3, <3>2, SweptSound DEF Swept
    <3>. QED
      BY <3>1, <3>2
  <2>. QED
    BY <2>5, <2>6 DEF TableSound
<1>. QED
  BY <1>1, <1>2

\* A claim leases some claimable rows and leaves the others.
LEMMA ClaimSound ==
    ASSUME Inv, ClaimDurableScanJobs
    PROVE  TableSound
<1>1. ASSUME NEW k \in Jobs
      PROVE  Sound(jobs[k], jobs'[k])
  <2>1. CASE k \in Claimed
    <3>1. k \in Claimable(jobs)
      BY <2>1 DEF Claimed
    <3>2. Sound(jobs[k], ClaimedRow(jobs[k]))
      BY <3>1, ClaimedRowSound DEF Inv, Claimable
    <3>. QED
      BY <2>1, <3>2 DEF ClaimDurableScanJobs
  <2>2. CASE k \notin Claimed
    BY <2>2, SameRowSound DEF Inv, ClaimDurableScanJobs
  <2>. QED
    BY <2>1, <2>2
<1>2. \A k \in Jobs : jobs'[k] \in Row
  BY <1>1 DEF Sound, GoodRow
<1>3. jobs' = [k \in Jobs |-> jobs'[k]]
  BY DEF ClaimDurableScanJobs
<1>4. jobs' \in [Jobs -> Row]
  BY <1>2, <1>3
<1>. QED
  BY <1>1, <1>4 DEF TableSound

\* Progress is a number of visits within the type of its column.
LEMMA AdvancedRunsType ==
    ASSUME Inv, NEW j \in Jobs, NEW reported \in Nat
    PROVE  AdvancedRuns(j, reported) \in 0..2
<1>1. jobs[j].runs \in 0..2
  BY RowColumns DEF Inv
<1>2. TotalRuns[j] \in {1, 2}
  BY JobsAssumption
<1>. QED
  BY <1>1, <1>2 DEF AdvancedRuns, Earlier

\* The mutations of a lease holder.
LEMMA LeaseHolderSound ==
    ASSUME Inv, NEW j \in Jobs, NEW generation \in Generations, NEW token \in Generations,
           LeaseHolderNext(j, generation, token)
    PROVE  TableSound
<1>1. GoodRow(jobs[j]) /\ now \in Nat \ {0}
  BY DEF Inv
<1>2. CASE \E reported \in 0..3 : HeartbeatDurableScanJob(j, generation, token, reported)
  <2>1. PICK reported \in 0..3 : HeartbeatDurableScanJob(j, generation, token, reported)
    BY <1>2
  <2>2. AdvancedRuns(j, reported) \in 0..2
    BY AdvancedRunsType
  <2>3. Active(jobs[j]) /\ HeartbeatCeiling(jobs[j]) > now
    BY <2>1 DEF HeartbeatDurableScanJob, HeartbeatAccepted, HoldsLease, Active
  <2>4. Sound(jobs[j], RenewedRow(jobs[j], AdvancedRuns(j, reported)))
    BY <1>1, <2>2, <2>3, RenewedRowSound
  <2>. QED
    BY <2>1, <2>4, OneRowSound DEF HeartbeatDurableScanJob
<1>3. CASE BeginPublishingDurableScanJob(j, generation, token)
  <2>1. Sound(jobs[j], PublishingRow(jobs[j]))
    BY <1>1, <1>3, PublishingRowSound
       DEF BeginPublishingDurableScanJob, BeginPublishingAccepted, HoldsLease
  <2>. QED
    BY <1>3, <2>1, OneRowSound DEF BeginPublishingDurableScanJob
<1>4. CASE \E r \in Resolutions : ResolveDurableScanJob(j, generation, token, r)
  <2>1. PICK r \in Resolutions : ResolveDurableScanJob(j, generation, token, r)
    BY <1>4
  <2>2. /\ r.outcome \in TerminalStates /\ r.reason \in Reasons /\ r.reason # "restart-limit"
        /\ r.from \in {"leased", "publishing"}
        /\ r.outcome = "succeeded" => r.from = "publishing"
        /\ r.outcome = "cancelled" => r.from = "leased"
    BY DEF Resolutions, TerminalStates, Reasons
  <2>3. jobs[j].state = r.from
    BY <2>1 DEF ResolveDurableScanJob, HoldsLease
  <2>4. Nonterminal(jobs[j])
    BY <2>2, <2>3 DEF Nonterminal, NonterminalStates
  <2>5. Sound(jobs[j], Terminalized(jobs[j], r.outcome, r.reason))
    BY <1>1, <2>2, <2>3, <2>4, TerminalizedRowSound
  <2>. QED
    BY <2>1, <2>5, OneRowSound DEF ResolveDurableScanJob
<1>. QED
  BY <1>2, <1>3, <1>4 DEF LeaseHolderNext

\* The mutations of recovery.
LEMMA RecoverySound ==
    ASSUME Inv, NEW j \in Jobs, NEW generation \in Generations, RecoveryNext(j, generation)
    PROVE  TableSound
<1>1. GoodRow(jobs[j]) /\ now \in Nat \ {0}
  BY DEF Inv
<1>2. CASE RequeueOrFailExpiredDurableScanJobLease(j, generation)
  <2>1. jobs[j].state = "leased" /\ jobs' = [jobs EXCEPT ![j] = RecoveredRow(jobs[j])]
    BY <1>2 DEF RequeueOrFailExpiredDurableScanJobLease
  <2>2. Nonterminal(jobs[j])
    BY <2>1 DEF Nonterminal, NonterminalStates
  <2>3. Sound(jobs[j], Terminalized(jobs[j], "expired", "deadline"))
    BY <1>1, <2>1, <2>2, TerminalizedRowSound DEF TerminalStates, Reasons
  <2>4. ASSUME jobs[j].attempts >= MAX_ATTEMPTS
        PROVE  Sound(jobs[j], Terminalized(jobs[j], "failed", "restart-limit"))
    <3>1. jobs[j].attempts = MAX_ATTEMPTS
      BY <1>1, <2>4, RowColumns, LimitAssumption DEF GoodRow
    <3>. QED
      BY <1>1, <2>1, <2>2, <3>1, TerminalizedRowSound DEF TerminalStates, Reasons
  <2>5. Sound(jobs[j], RequeuedRow(jobs[j]))
    BY <1>1, <2>1, RequeuedRowSound
  <2>6. Sound(jobs[j], RecoveredRow(jobs[j]))
    BY <2>3, <2>4, <2>5 DEF RecoveredRow
  <2>. QED
    BY <2>1, <2>6, OneRowSound
<1>3. CASE \E r \in Reconciliations :
             ReconcileExpiredPublishingDurableScanJob(j, generation, r)
  <2>1. PICK r \in Reconciliations : ReconcileExpiredPublishingDurableScanJob(j, generation, r)
    BY <1>3
  <2>2. /\ r.outcome \in TerminalStates \ {"cancelled"}
        /\ r.reason \in Reasons \ {"restart-limit"}
    BY DEF Reconciliations, TerminalStates, Reasons
  <2>3. jobs[j].state = "publishing"
    BY <2>1 DEF ReconcileExpiredPublishingDurableScanJob, ReconciliationAccepted
  <2>4. Nonterminal(jobs[j])
    BY <2>3 DEF Nonterminal, NonterminalStates
  <2>5. Sound(jobs[j], Terminalized(jobs[j], r.outcome, r.reason))
    BY <1>1, <2>2, <2>3, <2>4, TerminalizedRowSound
  <2>. QED
    BY <2>1, <2>5, OneRowSound DEF ReconcileExpiredPublishingDurableScanJob
<1>. QED
  BY <1>2, <1>3 DEF RecoveryNext

\* Cancellation and expiry end an unfinished, unpublished job.
LEMMA EndingSound ==
    ASSUME Inv, NEW j \in Jobs, CancelDurableScanJob(j) \/ ExpireDurableScanJob(j)
    PROVE  TableSound
<1>1. GoodRow(jobs[j]) /\ now \in Nat \ {0}
  BY DEF Inv
<1>2. jobs[j].state \in {"queued", "leased"}
  BY DEF CancelDurableScanJob, ExpireDurableScanJob
<1>3. Nonterminal(jobs[j]) /\ jobs[j].state # "publishing"
  BY <1>2 DEF Nonterminal, NonterminalStates
<1>4. /\ Sound(jobs[j], Terminalized(jobs[j], "cancelled", "cancelled"))
      /\ Sound(jobs[j], Terminalized(jobs[j], "expired", "deadline"))
  BY <1>1, <1>3, TerminalizedRowSound DEF TerminalStates, Reasons
<1>. QED
  BY <1>4, OneRowSound DEF CancelDurableScanJob, ExpireDurableScanJob

\* The retention pass.
LEMMA MaintenanceSound ==
    ASSUME Inv, SettleSynchronizeAndPurge
    PROVE  TableSound
BY MaintainedSwept, SweptSound DEF SettleSynchronizeAndPurge, TableSound, Swept

-----------------------------------------------------------------------------
(* The inductive invariant, and what follows from it.                      *)

\* An empty table satisfies the invariant.
LEMMA InvInit ==
    ASSUME StoreInit
    PROVE  Inv
<1>1. GoodRow(NoRow("unborn"))
  BY LimitAssumption
     DEF GoodRow, Row, NoRow, NonterminalStates, TerminalStates, AbsentStates, Reasons,
         Nonterminal, Terminal, Active, Present
<1>. QED
  BY <1>1 DEF StoreInit, Inv, GoodRow

\* Every mutation is sound, and only the clock moves time.
LEMMA NextSound ==
    ASSUME Inv, StoreNext
    PROVE  /\ TableSound \/ jobs' = jobs
           /\ now' \in Nat \ {0}
<1>1. now \in Nat \ {0}
  BY DEF Inv
<1>2. ASSUME NEW j \in Jobs, JobNext(j)
      PROVE  TableSound /\ now' = now
  <2>1. ASSUME NEW created \in (now - MAX_AGE)..(now + MAX_LEAD),
               AdmitDurableScanJob(j, created)
        PROVE  TableSound /\ now' = now
    <3>1. created \in Int
      BY <1>1, TimingAssumption
    <3>. QED
      BY <2>1, <3>1, AdmissionSound DEF AdmitDurableScanJob
  <2>2. CASE PreflightAdmission(j)
    BY <2>2, AdmissionSound DEF PreflightAdmission
  <2>3. ASSUME NEW generation \in Generations, NEW token \in Generations,
               LeaseHolderNext(j, generation, token)
        PROVE  TableSound /\ now' = now
    BY <2>3, LeaseHolderSound
       DEF LeaseHolderNext, HeartbeatDurableScanJob, BeginPublishingDurableScanJob,
           ResolveDurableScanJob
  <2>4. ASSUME NEW generation \in Generations, RecoveryNext(j, generation)
        PROVE  TableSound /\ now' = now
    BY <2>4, RecoverySound
       DEF RecoveryNext, RequeueOrFailExpiredDurableScanJobLease,
           ReconcileExpiredPublishingDurableScanJob
  <2>5. CASE CancelDurableScanJob(j) \/ ExpireDurableScanJob(j)
    BY <2>5, EndingSound DEF CancelDurableScanJob, ExpireDurableScanJob
  <2>. QED
    BY <1>2, <2>1, <2>2, <2>3, <2>4, <2>5 DEF JobNext
<1>3. CASE ClaimDurableScanJobs
  BY <1>1, <1>3, ClaimSound DEF ClaimDurableScanJobs
<1>4. CASE SettleSynchronizeAndPurge
  BY <1>1, <1>4, MaintenanceSound DEF SettleSynchronizeAndPurge
<1>5. CASE Tick
  BY <1>1, <1>5 DEF Tick
<1>. QED
  BY <1>1, <1>2, <1>3, <1>4, <1>5 DEF StoreNext

\* Every mutation keeps it, one case per mutation.
LEMMA InvStep ==
    ASSUME Inv, [StoreNext]_storeVars
    PROVE  Inv'
<1>1. CASE StoreNext
  <2>1. (TableSound \/ jobs' = jobs) /\ now' \in Nat \ {0}
    BY <1>1, NextSound
  <2>2. ASSUME NEW j \in Jobs
        PROVE  GoodRow(jobs'[j])
    BY <2>1 DEF TableSound, Sound, Inv
  <2>. QED
    BY <2>1, <2>2 DEF Inv, TableSound, GoodRow, PublishingCeiling, DeadlineAt
<1>2. CASE UNCHANGED storeVars
  BY <1>2 DEF Inv, storeVars
<1>. QED
  BY <1>1, <1>2

\* The inductive invariant implies each invariant of the table.
LEMMA InvImplies ==
    ASSUME Inv
    PROVE  TypeOK /\ CheckConstraints /\ PublicationReserve /\ AttemptAccounting
<1>1. \A j \in Jobs : GoodRow(jobs[j])
  BY DEF Inv
<1>2. TypeOK
  BY DEF Inv, TypeOK
<1>3. CheckConstraints
  BY <1>1, <1>2 DEF CheckConstraints, GoodRow
<1>4. PublicationReserve
  BY <1>1 DEF PublicationReserve, GoodRow
<1>5. AttemptAccounting
  BY <1>1 DEF AttemptAccounting, GoodRow
<1>. QED
  BY <1>2, <1>3, <1>4, <1>5

\* The retention pass is never blocked: a publication's lease ends before the
\* deadline, its settlement fence not after it, and the purge is not before it.
LEMMA InvUnblocked ==
    ASSUME Inv
    PROVE  MaintenanceNeverBlocked
<1> SUFFICES ASSUME NEW j \in PastPurge(jobs), jobs[j].state = "publishing"
             PROVE  jobs[j].lease <= now /\ SettlementAt(jobs[j]) <= now
  BY DEF MaintenanceNeverBlocked, MaintenanceAdmissible
<1>1. GoodRow(jobs[j]) /\ now \in Nat /\ PurgeAt(jobs[j]) <= now
  BY DEF Inv, PastPurge, Rows
<1>2. jobs[j].lease \in Int /\ jobs[j].created \in Int
  BY <1>1, RowColumns DEF GoodRow
<1>3. jobs[j].lease <= PublishingCeiling(jobs[j])
  BY <1>1 DEF GoodRow
<1>. QED
  BY <1>1, <1>2, <1>3, TimingAssumption DEF PublishingCeiling, DeadlineAt, PurgeAt, SettlementAt

\* Every step moves every promise along its path.
LEMMA PromiseStep ==
    ASSUME Inv, [StoreNext]_storeVars
    PROVE  [Promise!Next]_([j \in Jobs |-> PromiseOf(jobs[j])])
<1>1. CASE StoreNext /\ TableSound
  <2>1. \A j \in Jobs : Advances(jobs[j], jobs'[j])
    BY <1>1 DEF TableSound, Sound
  <2>. QED
    BY <2>1 DEF Advances, Promise!Next
<1>2. CASE jobs' = jobs
  BY <1>2
<1>. QED
  BY <1>1, <1>2, NextSound DEF storeVars

-----------------------------------------------------------------------------
(* Theorems.                                                               *)

\* The inductive invariant holds in every reachable state.
LEMMA Invariance == StoreSpec => []Inv
<1>1. StoreInit => Inv
  BY InvInit
<1>2. Inv /\ [StoreNext]_storeVars => Inv'
  BY InvStep
<1>. QED
  BY <1>1, <1>2, PTL DEF StoreSpec

\* The table is type-correct.
THEOREM TypeCorrectness == StoreSpec => []TypeOK
<1>1. Inv => TypeOK
  BY InvImplies
<1>. QED
  BY <1>1, Invariance, PTL

\* No mutation is refused by a CHECK of durable_scan_jobs: ciphertext, token,
\* lease, manifest and outcome time are present exactly in their states.
THEOREM CheckConstraintsHold == StoreSpec => []CheckConstraints
<1>1. Inv => CheckConstraints
  BY InvImplies
<1>. QED
  BY <1>1, Invariance, PTL

\* heartbeatDurableScanJob and beginPublishingDurableScanJob never let a
\* publishing lease eat the settlement window or the reconciliation.
THEOREM PublicationReserveHolds == StoreSpec => []PublicationReserve
<1>1. Inv => PublicationReserve
  BY InvImplies
<1>. QED
  BY <1>1, Invariance, PTL

\* Every live execution owns the newest generation, and "restart-limit" is
\* recorded only after the last attempt allowed.
THEOREM AttemptAccountingHolds == StoreSpec => []AttemptAccounting
<1>1. Inv => AttemptAccounting
  BY InvImplies
<1>. QED
  BY <1>1, Invariance, PTL

\* settlePastPurgeDurableScanJobs never throws, so the retention transaction
\* that every read and admission runs first never rolls back.
THEOREM RetentionNeverBlocked == StoreSpec => []MaintenanceNeverBlocked
<1>1. Inv => MaintenanceNeverBlocked
  BY InvUnblocked
<1>. QED
  BY <1>1, Invariance, PTL

\* Row pressure never deletes an unfinished job: evictTerminalRowsToTarget and
\* the purge only take finished rows, or rows past their purge horizon.
THEOREM AcceptedWorkKept == StoreSpec => NoAcceptedWorkDropped
<1> DEFINE Held == \A j \in Jobs :
                      Nonterminal(jobs[j]) /\ ~Present(jobs'[j]) => PurgeAt(jobs[j]) <= now
<1>1. Inv /\ [StoreNext]_storeVars => [Held]_storeVars
  <2> SUFFICES ASSUME Inv, StoreNext
               PROVE  Held \/ UNCHANGED storeVars
    OBVIOUS
  <2>1. CASE TableSound
    BY <2>1 DEF TableSound, Sound, Kept
  <2>2. CASE jobs' = jobs
    BY <2>2 DEF Nonterminal, Present, NonterminalStates, AbsentStates
  <2>. QED
    BY <2>1, <2>2, NextSound
<1>. QED
  BY <1>1, Invariance, PTL DEF StoreSpec, NoAcceptedWorkDropped

\* The table implements the promise made to whoever submitted the job: one
\* publisher, no retry or cancellation after it, success only through it, and
\* an outcome that never changes.
THEOREM PromiseKept == StoreSpec => KeepsThePromise
<1>1. StoreInit => Promise!Init
  BY DEF StoreInit, Promise!Init, Promise!Unborn, PromiseOf, PhaseOf, NoRow, Terminal,
         TerminalStates
<1>2. Inv /\ [StoreNext]_storeVars
        => [Promise!Next]_([j \in Jobs |-> PromiseOf(jobs[j])])
  BY PromiseStep
<1>. QED
  BY <1>1, <1>2, Invariance, PTL DEF StoreSpec, KeepsThePromise, Promise!Spec

-----------------------------------------------------------------------------
(***************************************************************************)
(* Limits are about numbers of rows.  Only a claim makes rows active, only *)
(* an admission makes rows present and unfinished; every other mutation    *)
(* leaves at most the rows there were.                                     *)
(***************************************************************************)

\* What a mutation other than a claim or an admission does to a row.
Fades(row, new) ==
    /\ Active(new) => Active(row)
    /\ Nonterminal(new) => Nonterminal(row)
    /\ Present(new) => Present(row)

TableFades == \A j \in Jobs : Fades(jobs[j], jobs'[j])

\* Creation order, as a relation on jobs.
CreationOrder(tab) == {p \in Jobs \X Jobs : CreatedBefore(tab, p[1], p[2])}

-----------------------------------------------------------------------------
(* Sets of rows.                                                           *)

\* Sets of jobs are finite.
LEMMA JobSetsFinite ==
    ASSUME NEW T \in SUBSET Jobs
    PROVE  IsFiniteSet(T) /\ Cardinality(T) \in Nat
BY JobsAssumption, FS_Subset, FS_CardinalityType

\* A smaller set of jobs does not exceed a bound that a larger one keeps.
LEMMA SubsetKeepsBound ==
    ASSUME NEW T \in SUBSET Jobs, NEW S \in SUBSET T, NEW n \in Nat, Cardinality(T) <= n
    PROVE  Cardinality(S) <= n
<1>1. Cardinality(S) <= Cardinality(T)
  BY JobSetsFinite, FS_Subset
<1>2. Cardinality(S) \in Nat /\ Cardinality(T) \in Nat
  BY JobSetsFinite
<1>. QED
  BY <1>1, <1>2

\* Two sets of jobs together are no larger than their sizes added up.
LEMMA UnionBound ==
    ASSUME NEW S \in SUBSET Jobs, NEW T \in SUBSET Jobs
    PROVE  Cardinality(S \cup T) <= Cardinality(S) + Cardinality(T)
<1>1. IsFiniteSet(S) /\ IsFiniteSet(T)
  BY JobSetsFinite
<1>2. Cardinality(S \cup T) = Cardinality(S) + Cardinality(T) - Cardinality(S \cap T)
  BY <1>1, FS_Union
<1>3. /\ Cardinality(S) \in Nat /\ Cardinality(T) \in Nat
      /\ Cardinality(S \cap T) \in Nat
  BY JobSetsFinite
<1>. QED
  BY <1>2, <1>3

\* A table whose rows fade keeps the limits.
LEMMA FadedKeepsLimits ==
    ASSUME LimitsHold, TableFades
    PROVE  LimitsHold'
<1>1. ActiveJobs(jobs') \in SUBSET ActiveJobs(jobs)
  BY DEF TableFades, Fades, ActiveJobs
<1>2. Unfinished(jobs') \in SUBSET Unfinished(jobs)
  BY DEF TableFades, Fades, Unfinished
<1>3. Rows(jobs') \in SUBSET Rows(jobs)
  BY DEF TableFades, Fades, Rows
<1>4. /\ ActiveJobs(jobs) \in SUBSET Jobs
      /\ Unfinished(jobs) \in SUBSET Jobs
      /\ Rows(jobs) \in SUBSET Jobs
  BY DEF ActiveJobs, Unfinished, Rows
<1>5. {EXECUTION_CAPACITY, MAX_NONTERMINAL, MAX_ROWS} \subseteq Nat
  BY LimitAssumption
<1>. QED
  BY <1>1, <1>2, <1>3, <1>4, <1>5, SubsetKeepsBound DEF LimitsHold

-----------------------------------------------------------------------------
(* Mutations under which rows fade.                                        *)

\* A replaced row among rows that stay.
LEMMA OneRowFades ==
    ASSUME NEW j \in Jobs, NEW new, jobs \in [Jobs -> Row],
           Fades(jobs[j], new), jobs' = [jobs EXCEPT ![j] = new]
    PROVE  TableFades
BY DEF TableFades, Fades

\* A swept table: rows were deleted and nothing else.
LEMMA SweptFades ==
    ASSUME NEW tab, Swept(tab), jobs' = tab
    PROVE  TableFades
BY DEF Swept, TableFades, Fades, Active, Nonterminal, Present, NonterminalStates,
       AbsentStates, NoRow

\* An outcome is recorded.
LEMMA TerminalizedFades ==
    ASSUME NEW row, NEW state \in TerminalStates, NEW reason, Present(row)
    PROVE  Fades(row, Terminalized(row, state, reason))
BY DEF Fades, Terminalized, Active, Nonterminal, TerminalStates, NonterminalStates

\* The lease holder's mutations.
LEMMA LeaseHolderFades ==
    ASSUME Inv, NEW j \in Jobs, NEW generation, NEW token,
           LeaseHolderNext(j, generation, token)
    PROVE  TableFades
<1>0. jobs \in [Jobs -> Row]
  BY DEF Inv
<1>1. ASSUME NEW reported \in 0..3, HeartbeatDurableScanJob(j, generation, token, reported)
      PROVE  TableFades
  <2>1. Fades(jobs[j], RenewedRow(jobs[j], AdvancedRuns(j, reported)))
    BY DEF Fades, RenewedRow, Active, Nonterminal, Present
  <2>. QED
    BY <1>0, <1>1, <2>1, OneRowFades DEF HeartbeatDurableScanJob
<1>2. CASE BeginPublishingDurableScanJob(j, generation, token)
  <2>1. jobs[j].state = "leased"
    BY <1>2 DEF BeginPublishingDurableScanJob, BeginPublishingAccepted, HoldsLease
  <2>2. Fades(jobs[j], PublishingRow(jobs[j]))
    BY <2>1 DEF Fades, PublishingRow, Active, Nonterminal, Present, NonterminalStates,
                AbsentStates
  <2>. QED
    BY <1>0, <1>2, <2>2, OneRowFades DEF BeginPublishingDurableScanJob
<1>3. ASSUME NEW r \in Resolutions, ResolveDurableScanJob(j, generation, token, r)
      PROVE  TableFades
  <2>1. jobs[j].state = r.from
    BY <1>3 DEF ResolveDurableScanJob, HoldsLease
  <2>2. r.from \in NonterminalStates /\ r.outcome \in TerminalStates
    BY DEF Resolutions, NonterminalStates, TerminalStates
  <2>3. Present(jobs[j])
    BY <2>1, <2>2 DEF Present, NonterminalStates, AbsentStates
  <2>4. Fades(jobs[j], Terminalized(jobs[j], r.outcome, r.reason))
    BY <2>2, <2>3, TerminalizedFades
  <2>. QED
    BY <1>0, <1>3, <2>4, OneRowFades DEF ResolveDurableScanJob
<1>. QED
  BY <1>1, <1>2, <1>3 DEF LeaseHolderNext

\* Recovery of expired leases and publications.
LEMMA RecoveryFades ==
    ASSUME Inv, NEW j \in Jobs, NEW generation, RecoveryNext(j, generation)
    PROVE  TableFades
<1>0. jobs \in [Jobs -> Row]
  BY DEF Inv
<1>1. CASE RequeueOrFailExpiredDurableScanJobLease(j, generation)
  <2>1. jobs[j].state = "leased"
    BY <1>1 DEF RequeueOrFailExpiredDurableScanJobLease
  <2>2. Present(jobs[j]) /\ Nonterminal(jobs[j])
    BY <2>1 DEF Present, Nonterminal, NonterminalStates, AbsentStates
  <2>3. Fades(jobs[j], RequeuedRow(jobs[j]))
    BY <2>2 DEF Fades, RequeuedRow, Active
  <2>4. /\ Fades(jobs[j], Terminalized(jobs[j], "expired", "deadline"))
        /\ Fades(jobs[j], Terminalized(jobs[j], "failed", "restart-limit"))
    BY <2>2, TerminalizedFades DEF TerminalStates
  <2>5. Fades(jobs[j], RecoveredRow(jobs[j]))
    BY <2>3, <2>4 DEF RecoveredRow
  <2>. QED
    BY <1>0, <1>1, <2>5, OneRowFades DEF RequeueOrFailExpiredDurableScanJobLease
<1>2. ASSUME NEW r \in Reconciliations,
             ReconcileExpiredPublishingDurableScanJob(j, generation, r)
      PROVE  TableFades
  <2>1. Present(jobs[j])
    BY <1>2 DEF ReconcileExpiredPublishingDurableScanJob, ReconciliationAccepted, Present,
                AbsentStates
  <2>2. r.outcome \in TerminalStates
    BY DEF Reconciliations, TerminalStates
  <2>3. Fades(jobs[j], Terminalized(jobs[j], r.outcome, r.reason))
    BY <2>1, <2>2, TerminalizedFades
  <2>. QED
    BY <1>0, <1>2, <2>3, OneRowFades DEF ReconcileExpiredPublishingDurableScanJob
<1>. QED
  BY <1>1, <1>2 DEF RecoveryNext

\* Cancellation and expiry.
LEMMA EndingFades ==
    ASSUME Inv, NEW j \in Jobs, CancelDurableScanJob(j) \/ ExpireDurableScanJob(j)
    PROVE  TableFades
<1>1. jobs \in [Jobs -> Row]
  BY DEF Inv
<1>2. Present(jobs[j])
  BY DEF CancelDurableScanJob, ExpireDurableScanJob, Present, AbsentStates
<1>3. /\ Fades(jobs[j], Terminalized(jobs[j], "cancelled", "cancelled"))
      /\ Fades(jobs[j], Terminalized(jobs[j], "expired", "deadline"))
  BY <1>2, TerminalizedFades DEF TerminalStates
<1>. QED
  BY <1>1, <1>3, OneRowFades DEF CancelDurableScanJob, ExpireDurableScanJob

-----------------------------------------------------------------------------
(* Admissions and claims.                                                  *)

\* The row of an admission finds room in every limit.
LEMMA AdmissionKeepsLimits ==
    ASSUME Inv, LimitsHold, NEW j \in Jobs, NEW created, AdmitDurableScanJob(j, created)
    PROVE  LimitsHold'
<1> DEFINE room == EvictedTo(jobs, MAX_ROWS - 1)
<1>1. Swept(room)
  BY EvictedSwept DEF Swept, Inv
<1>2. jobs' = [room EXCEPT ![j] = NewRow(created)] /\ AdmissionFits(jobs)
  BY DEF AdmitDurableScanJob
<1>3. Cardinality(Rows(room)) < MAX_ROWS /\ Cardinality(Unfinished(jobs)) < MAX_NONTERMINAL
  BY <1>2 DEF AdmissionFits
<1> HIDE DEF room
<1>4. \A k \in Jobs \ {j} : Fades(jobs[k], jobs'[k]) /\ jobs'[k] = room[k]
  BY <1>1, <1>2 DEF Swept, Fades, Active, Nonterminal, Present, NonterminalStates,
                    AbsentStates, NoRow
<1>5. ~Active(jobs'[j])
  BY <1>1, <1>2 DEF Swept, NewRow, Active
<1>6. ActiveJobs(jobs') \in SUBSET ActiveJobs(jobs)
  BY <1>4, <1>5 DEF ActiveJobs, Fades
<1>7. Unfinished(jobs') \in SUBSET (Unfinished(jobs) \cup {j})
  BY <1>4 DEF Unfinished, Fades
<1>8. Rows(jobs') \in SUBSET (Rows(room) \cup {j})
  BY <1>4 DEF Rows
<1>9. /\ ActiveJobs(jobs) \in SUBSET Jobs
      /\ Unfinished(jobs) \in SUBSET Jobs /\ Unfinished(jobs) \cup {j} \in SUBSET Jobs
      /\ Rows(room) \in SUBSET Jobs /\ Rows(room) \cup {j} \in SUBSET Jobs
      /\ {j} \in SUBSET Jobs
  BY DEF ActiveJobs, Unfinished, Rows
<1>10. EXECUTION_CAPACITY \in Nat /\ MAX_NONTERMINAL \in Nat /\ MAX_ROWS \in Nat
  BY LimitAssumption
<1>11. /\ Cardinality(Unfinished(jobs)) \in Nat /\ Cardinality(Rows(room)) \in Nat
       /\ Cardinality(Unfinished(jobs) \cup {j}) \in Nat
       /\ Cardinality(Rows(room) \cup {j}) \in Nat
  BY <1>9, JobSetsFinite
<1>12. Cardinality({j}) = 1
  BY FS_Singleton
<1>13. Cardinality(Unfinished(jobs) \cup {j}) <= MAX_NONTERMINAL
  <2>1. Cardinality(Unfinished(jobs) \cup {j}) <= Cardinality(Unfinished(jobs)) + 1
    BY <1>9, <1>12, UnionBound
  <2>. QED
    BY <2>1, <1>3, <1>10, <1>11
<1>14. Cardinality(Rows(room) \cup {j}) <= MAX_ROWS
  <2>1. Cardinality(Rows(room) \cup {j}) <= Cardinality(Rows(room)) + 1
    BY <1>9, <1>12, UnionBound
  <2>. QED
    BY <2>1, <1>3, <1>10, <1>11
<1>15. Cardinality(ActiveJobs(jobs')) <= EXECUTION_CAPACITY
  BY <1>6, <1>9, <1>10, SubsetKeepsBound DEF LimitsHold
<1>16. Cardinality(Unfinished(jobs')) <= MAX_NONTERMINAL
  BY <1>7, <1>9, <1>10, <1>13, SubsetKeepsBound
<1>17. Cardinality(Rows(jobs')) <= MAX_ROWS
  BY <1>8, <1>9, <1>10, <1>14, SubsetKeepsBound
<1>. QED
  BY <1>15, <1>16, <1>17 DEF LimitsHold

-----------------------------------------------------------------------------
(* The first n members of a finite set under a strict order are those with *)
(* fewer than n members before them, and they are at most n.  This is how  *)
(* the model writes ORDER BY ... LIMIT n.                                  *)

\* R orders S strictly and totally.
StrictlyOrders(R, S) ==
    /\ \A x \in S : <<x, x>> \notin R
    /\ \A x, y, z \in S : <<x, y>> \in R /\ <<y, z>> \in R => <<x, z>> \in R
    /\ \A x, y \in S : x = y \/ <<x, y>> \in R \/ <<y, x>> \in R

\* The members of S before x.
Before(R, S, x) == {y \in S : <<y, x>> \in R}

\* A finite set that is ordered has a last member.
LEMMA LastExists ==
    ASSUME NEW S, IsFiniteSet(S), S # {}, NEW R, StrictlyOrders(R, S)
    PROVE  \E x \in S : \A y \in S : y = x \/ <<y, x>> \in R
<1> DEFINE rest(x) == Cardinality(S) - Cardinality(Before(R, S, x))
<1>1. \A x \in S : /\ IsFiniteSet(Before(R, S, x))
                   /\ Cardinality(Before(R, S, x)) \in Nat
                   /\ rest(x) \in Nat
  <2> TAKE x \in S
  <2>1. Before(R, S, x) \in SUBSET S
    BY DEF Before
  <2>2. /\ IsFiniteSet(Before(R, S, x))
        /\ Cardinality(Before(R, S, x)) <= Cardinality(S)
    BY <2>1, FS_Subset
  <2>3. /\ Cardinality(Before(R, S, x)) \in Nat
        /\ Cardinality(S) \in Nat
    BY <2>2, FS_CardinalityType
  <2> QED
    BY <2>2, <2>3
<1>2. {rest(x) : x \in S} \subseteq Nat /\ {rest(x) : x \in S} # {}
  BY <1>1
<1>3. PICK n \in {rest(x) : x \in S} :
         \A m \in {rest(x) : x \in S} : <<m, n>> \notin OpToRel(<, Nat)
  BY <1>2, NatLessThanWellFounded, WFMin
<1>4. PICK x \in S : n = rest(x)
  BY <1>3
<1>5. ASSUME NEW y \in S PROVE ~ (rest(y) < rest(x))
  <2>1. rest(y) \in Nat /\ rest(x) \in Nat
    BY <1>1
  <2>2. <<rest(y), rest(x)>> \notin OpToRel(<, Nat)
    BY <1>3, <1>4
  <2> HIDE DEF rest
  <2> QED
    BY <2>1, <2>2 DEF OpToRel
<1>6. ASSUME NEW y \in S, y # x, <<y, x>> \notin R PROVE FALSE
  <2>1. <<x, y>> \in R
    BY <1>6 DEF StrictlyOrders
  <2>2. Before(R, S, x) \cup {x} \in SUBSET Before(R, S, y)
    BY <2>1 DEF Before, StrictlyOrders
  <2>3. x \notin Before(R, S, x)
    BY DEF Before, StrictlyOrders
  <2>4. Cardinality(Before(R, S, x) \cup {x}) = Cardinality(Before(R, S, x)) + 1
    BY <2>3, <1>1, FS_AddElement
  <2>5. Cardinality(Before(R, S, x) \cup {x}) <= Cardinality(Before(R, S, y))
    BY <2>2, <1>1, FS_Subset
  <2>6. Cardinality(S) \in Nat
    BY FS_CardinalityType
  <2> QED
    BY <2>4, <2>5, <2>6, <1>1, <1>5
<1> QED
  BY <1>6

\* No more than n members have fewer than n before them; there are none if n is not
\* positive.
LEMMA FirstFew ==
    ASSUME NEW S, IsFiniteSet(S), NEW R, StrictlyOrders(R, S), NEW n \in Int
    PROVE  LET first == {x \in S : Cardinality(Before(R, S, x)) < n}
           IN  /\ IsFiniteSet(first)
               /\ Cardinality(first) \in Nat
               /\ first = {} \/ Cardinality(first) <= n
<1> DEFINE first == {x \in S : Cardinality(Before(R, S, x)) < n}
<1>1. first \in SUBSET S
  OBVIOUS
<1>2. IsFiniteSet(first) /\ Cardinality(first) \in Nat
  BY <1>1, FS_Subset, FS_CardinalityType
<1>3. ASSUME first # {} PROVE Cardinality(first) <= n
  <2>1. StrictlyOrders(R, first)
    BY <1>1 DEF StrictlyOrders
  <2>2. PICK x \in first : \A y \in first : y = x \/ <<y, x>> \in R
    BY <1>2, <1>3, <2>1, LastExists
  <2>3. first \ {x} \in SUBSET Before(R, S, x)
    BY <1>1, <2>2 DEF Before
  <2>4. Before(R, S, x) \in SUBSET S
    BY DEF Before
  <2>5. IsFiniteSet(Before(R, S, x)) /\ Cardinality(Before(R, S, x)) \in Nat
    BY <2>4, FS_Subset, FS_CardinalityType
  <2>6. Cardinality(first \ {x}) <= Cardinality(Before(R, S, x))
    BY <2>3, <2>5, FS_Subset
  <2>7. Cardinality(first \ {x}) = Cardinality(first) - 1
    BY <1>2, FS_RemoveElement
  <2>8. Cardinality(Before(R, S, x)) < n
    BY <2>2
  <2> HIDE DEF first
  <2> QED
    BY <1>2, <2>5, <2>6, <2>7, <2>8
<1> QED
  BY <1>2, <1>3

\* A finite set that is ordered has a first member.
LEMMA FirstExists ==
    ASSUME NEW S, IsFiniteSet(S), S # {}, NEW R, StrictlyOrders(R, S)
    PROVE  \E x \in S : Before(R, S, x) = {}
<1> DEFINE Q == {p \in S \X S : <<p[2], p[1]>> \in R}
<1>1. \A x, y \in S : <<x, y>> \in Q <=> <<y, x>> \in R
  OBVIOUS
<1> HIDE DEF Q
<1>2. StrictlyOrders(Q, S)
  BY <1>1 DEF StrictlyOrders
<1>3. PICK x \in S : \A y \in S : y = x \/ <<y, x>> \in Q
  BY <1>2, LastExists
<1>4. \A y \in S : <<y, x>> \notin R
  BY <1>1, <1>3 DEF StrictlyOrders
<1> QED
  BY <1>4 DEF Before

-----------------------------------------------------------------------------
(* The claim.                                                              *)

\* Creation order is strict and total on the jobs that can be claimed.
LEMMA CreationOrders ==
    ASSUME Inv
    PROVE  StrictlyOrders(CreationOrder(jobs), Claimable(jobs))
<1>1. \A k \in Jobs : jobs[k].created \in Int /\ k \in Nat
  BY JobsAssumption, RowColumns DEF Inv
<1>2. Claimable(jobs) \in SUBSET Jobs
  BY DEF Claimable
<1>. QED
  BY <1>1, <1>2 DEF StrictlyOrders, CreationOrder, CreatedBefore

\* A claim takes no more rows than the active ones leave room for.
LEMMA ClaimKeepsLimits ==
    ASSUME Inv, LimitsHold, ClaimDurableScanJobs
    PROVE  LimitsHold'
<1> DEFINE room == EXECUTION_CAPACITY - Cardinality(ActiveJobs(jobs))
<1>1. /\ Claimable(jobs) \in SUBSET Jobs /\ ActiveJobs(jobs) \in SUBSET Jobs
      /\ Claimed \in SUBSET Jobs
  BY DEF Claimable, ActiveJobs, Claimed
<1>2. /\ IsFiniteSet(Claimable(jobs))
      /\ Cardinality(ActiveJobs(jobs)) \in Nat /\ Cardinality(Claimed) \in Nat
      /\ Cardinality(ActiveJobs(jobs) \cup Claimed) \in Nat
  BY <1>1, JobSetsFinite
<1>3. EXECUTION_CAPACITY \in Nat /\ room \in Int
  BY <1>2, LimitAssumption
<1>4. \A j \in Claimable(jobs) :
         {k \in Claimable(jobs) : CreatedBefore(jobs, k, j)}
           = Before(CreationOrder(jobs), Claimable(jobs), j)
  BY <1>1 DEF Before, CreationOrder
<1>5. Claimed = {j \in Claimable(jobs) :
                   Cardinality(Before(CreationOrder(jobs), Claimable(jobs), j)) < room}
  BY <1>4 DEF Claimed
<1>6. Claimed # {}
  BY DEF ClaimDurableScanJobs
<1>7. Cardinality(Claimed) <= room
  <2> HIDE DEF room
  <2>1. StrictlyOrders(CreationOrder(jobs), Claimable(jobs))
    BY CreationOrders
  <2>. QED
    BY <1>2, <1>3, <1>5, <1>6, <2>1, FirstFew
<1>8. jobs' = [k \in Jobs |-> IF k \in Claimed THEN ClaimedRow(jobs[k]) ELSE jobs[k]]
  BY DEF ClaimDurableScanJobs
<1>9. ActiveJobs(jobs') \in SUBSET (ActiveJobs(jobs) \cup Claimed)
  BY <1>8 DEF ActiveJobs
<1>10. \A k \in Claimed : jobs[k].state = "queued"
  BY DEF Claimed, Claimable
<1>11. Unfinished(jobs') \in SUBSET Unfinished(jobs)
  BY <1>8, <1>10 DEF Unfinished, Nonterminal, NonterminalStates
<1>12. Rows(jobs') \in SUBSET Rows(jobs)
  BY <1>8, <1>10 DEF Rows, Present, AbsentStates
<1>13. Cardinality(ActiveJobs(jobs) \cup Claimed) <= EXECUTION_CAPACITY
  <2>1. Cardinality(ActiveJobs(jobs) \cup Claimed)
          <= Cardinality(ActiveJobs(jobs)) + Cardinality(Claimed)
    BY <1>1, UnionBound
  <2>. QED
    BY <2>1, <1>2, <1>3, <1>7
<1>14. Cardinality(ActiveJobs(jobs')) <= EXECUTION_CAPACITY
  <2>1. ActiveJobs(jobs) \cup Claimed \in SUBSET Jobs
    BY <1>1
  <2>. QED
    BY <2>1, <1>3, <1>9, <1>13, SubsetKeepsBound
<1>15. /\ Unfinished(jobs) \in SUBSET Jobs /\ Rows(jobs) \in SUBSET Jobs
       /\ MAX_NONTERMINAL \in Nat /\ MAX_ROWS \in Nat
  BY LimitAssumption DEF Unfinished, Rows
<1>. QED
  BY <1>11, <1>12, <1>14, <1>15, SubsetKeepsBound DEF LimitsHold

-----------------------------------------------------------------------------
(* Every step keeps the limits.                                            *)

\* An empty table is within every limit.
LEMMA LimitsInit ==
    ASSUME StoreInit
    PROVE  LimitsHold
<1>1. ActiveJobs(jobs) = {} /\ Unfinished(jobs) = {} /\ Rows(jobs) = {}
  BY DEF StoreInit, NoRow, ActiveJobs, Unfinished, Rows, Active, Nonterminal, Present,
         NonterminalStates, AbsentStates
<1>. QED
  BY <1>1, FS_EmptySet, LimitAssumption DEF LimitsHold

\* Every mutation keeps the table within them: it fades, or it admits or claims.
LEMMA LimitsStep ==
    ASSUME Inv, LimitsHold, [StoreNext]_storeVars
    PROVE  LimitsHold'
<1>1. ASSUME NEW j \in Jobs, JobNext(j)
      PROVE  LimitsHold'
  <2>1. CASE PreflightAdmission(j)
    <3>1. Swept(EvictedTo(Maintained(jobs), MAX_ROWS - 1))
      BY MaintainedSwept, EvictedSwept
    <3>. QED
      BY <2>1, <3>1, SweptFades, FadedKeepsLimits DEF PreflightAdmission
  <2>2. ASSUME NEW created \in (now - MAX_AGE)..(now + MAX_LEAD),
               AdmitDurableScanJob(j, created)
        PROVE  LimitsHold'
    BY <2>2, AdmissionKeepsLimits
  <2>3. ASSUME NEW generation \in Generations, NEW token \in Generations,
               LeaseHolderNext(j, generation, token)
        PROVE  LimitsHold'
    BY <2>3, LeaseHolderFades, FadedKeepsLimits
  <2>4. ASSUME NEW generation \in Generations, RecoveryNext(j, generation)
        PROVE  LimitsHold'
    BY <2>4, RecoveryFades, FadedKeepsLimits
  <2>5. CASE CancelDurableScanJob(j) \/ ExpireDurableScanJob(j)
    BY <2>5, EndingFades, FadedKeepsLimits
  <2>. QED
    BY <1>1, <2>1, <2>2, <2>3, <2>4, <2>5 DEF JobNext
<1>2. CASE ClaimDurableScanJobs
  BY <1>2, ClaimKeepsLimits
<1>3. CASE SettleSynchronizeAndPurge
  BY <1>3, MaintainedSwept, SweptFades, FadedKeepsLimits DEF SettleSynchronizeAndPurge
<1>4. CASE Tick \/ UNCHANGED storeVars
  BY <1>4 DEF Tick, storeVars, LimitsHold
<1>. QED
  BY <1>1, <1>2, <1>3, <1>4 DEF StoreNext

-----------------------------------------------------------------------------
(* Progress.                                                               *)

\* No row shows more visits than its job admitted.
RunsBounded == \A j \in Jobs : jobs[j].runs <= TotalRuns[j]

\* The new row of a job shows no more than that, and no less than the old one
\* within one execution.
Progresses(j, new) ==
    /\ new.runs <= TotalRuns[j]
    /\ Active(jobs[j]) /\ Active(new) /\ new.generation = jobs[j].generation
         => jobs[j].runs <= new.runs

TableProgresses == \A j \in Jobs : Progresses(j, jobs'[j])

\* A row that keeps its count progresses, and so does one that is not active
\* and starts from none.
LEMMA CountKept ==
    ASSUME Inv, RunsBounded, NEW j \in Jobs, NEW new,
           \/ new.runs = jobs[j].runs
           \/ new.runs = 0 /\ ~ (Active(jobs[j]) /\ Active(new))
    PROVE  Progresses(j, new)
<1>1. jobs[j].runs \in 0..2 /\ TotalRuns[j] \in {1, 2}
  BY JobsAssumption, RowColumns DEF Inv
<1>. QED
  BY <1>1 DEF Progresses, RunsBounded

\* A replaced row among rows that stay.
LEMMA OneRowProgresses ==
    ASSUME Inv, RunsBounded, NEW j \in Jobs, NEW new, Progresses(j, new),
           jobs' = [jobs EXCEPT ![j] = new]
    PROVE  TableProgresses
<1>1. jobs \in [Jobs -> Row]
  BY DEF Inv
<1>2. \A k \in Jobs : Progresses(k, jobs[k])
  BY CountKept
<1>. QED
  BY <1>1, <1>2 DEF TableProgresses

\* A swept table.
LEMMA SweptProgresses ==
    ASSUME Inv, RunsBounded, NEW tab, Swept(tab), jobs' = tab
    PROVE  TableProgresses
<1>1. ASSUME NEW j \in Jobs
      PROVE  Progresses(j, tab[j])
  <2>1. CASE tab[j] = jobs[j]
    BY <2>1, CountKept
  <2>2. CASE tab[j] = NoRow("gone")
    <3>1. tab[j].runs = 0 /\ ~Active(tab[j])
      BY <2>2 DEF NoRow, Active
    <3>. QED
      BY <3>1, CountKept
  <2>. QED
    BY <2>1, <2>2 DEF Swept
<1>. QED
  BY <1>1 DEF TableProgresses

\* What a heartbeat stores is between what the row shows and what its job admitted.
LEMMA AdvancedRunsBounds ==
    ASSUME Inv, RunsBounded, NEW j \in Jobs, NEW reported \in 0..3
    PROVE  jobs[j].runs <= AdvancedRuns(j, reported) /\ AdvancedRuns(j, reported) <= TotalRuns[j]
<1>1. jobs[j].runs \in 0..2 /\ TotalRuns[j] \in {1, 2} /\ jobs[j].runs <= TotalRuns[j]
  BY JobsAssumption, RowColumns DEF Inv, RunsBounded
<1>. QED
  BY <1>1 DEF AdvancedRuns, Earlier

\* The lease holder's mutations.
LEMMA LeaseHolderProgresses ==
    ASSUME Inv, RunsBounded, NEW j \in Jobs, NEW generation, NEW token,
           LeaseHolderNext(j, generation, token)
    PROVE  TableProgresses
<1>1. ASSUME NEW reported \in 0..3, HeartbeatDurableScanJob(j, generation, token, reported)
      PROVE  TableProgresses
  <2>1. Progresses(j, RenewedRow(jobs[j], AdvancedRuns(j, reported)))
    BY AdvancedRunsBounds DEF Progresses, RenewedRow
  <2>. QED
    BY <1>1, <2>1, OneRowProgresses DEF HeartbeatDurableScanJob
<1>2. CASE BeginPublishingDurableScanJob(j, generation, token)
  <2>1. Progresses(j, PublishingRow(jobs[j]))
    BY CountKept DEF PublishingRow
  <2>. QED
    BY <1>2, <2>1, OneRowProgresses DEF BeginPublishingDurableScanJob
<1>3. ASSUME NEW r \in Resolutions, ResolveDurableScanJob(j, generation, token, r)
      PROVE  TableProgresses
  <2>1. Progresses(j, Terminalized(jobs[j], r.outcome, r.reason))
    BY CountKept DEF Terminalized
  <2>. QED
    BY <1>3, <2>1, OneRowProgresses DEF ResolveDurableScanJob
<1>. QED
  BY <1>1, <1>2, <1>3 DEF LeaseHolderNext

\* Recovery, cancellation and expiry.
LEMMA RecoveryProgresses ==
    ASSUME Inv, RunsBounded, NEW j \in Jobs, NEW generation,
           RecoveryNext(j, generation) \/ CancelDurableScanJob(j) \/ ExpireDurableScanJob(j)
    PROVE  TableProgresses
<1>1. \A state, reason : Progresses(j, Terminalized(jobs[j], state, reason))
  BY CountKept DEF Terminalized
<1>2. Progresses(j, RequeuedRow(jobs[j]))
  <2>1. RequeuedRow(jobs[j]).runs = 0 /\ ~Active(RequeuedRow(jobs[j]))
    BY DEF RequeuedRow, Active
  <2>. QED
    BY <2>1, CountKept
<1>3. Progresses(j, RecoveredRow(jobs[j]))
  BY <1>1, <1>2 DEF RecoveredRow
<1>4. CASE RequeueOrFailExpiredDurableScanJobLease(j, generation)
  BY <1>3, <1>4, OneRowProgresses DEF RequeueOrFailExpiredDurableScanJobLease
<1>5. ASSUME NEW r \in Reconciliations,
             ReconcileExpiredPublishingDurableScanJob(j, generation, r)
      PROVE  TableProgresses
  BY <1>1, <1>5, OneRowProgresses DEF ReconcileExpiredPublishingDurableScanJob
<1>6. CASE CancelDurableScanJob(j) \/ ExpireDurableScanJob(j)
  BY <1>1, <1>6, OneRowProgresses DEF CancelDurableScanJob, ExpireDurableScanJob
<1>. QED
  BY <1>4, <1>5, <1>6 DEF RecoveryNext

\* An admission starts a row at none.
LEMMA AdmissionProgresses ==
    ASSUME Inv, RunsBounded, NEW j \in Jobs, NEW created, AdmitDurableScanJob(j, created)
    PROVE  TableProgresses
<1> DEFINE room == EvictedTo(jobs, MAX_ROWS - 1)
<1>1. Swept(room)
  BY EvictedSwept DEF Swept, Inv
<1>2. jobs' = [room EXCEPT ![j] = NewRow(created)] /\ jobs[j].state = "unborn"
  BY DEF AdmitDurableScanJob
<1> HIDE DEF room
<1>3. \A k \in Jobs \ {j} : jobs'[k] = jobs[k] \/ jobs'[k] = NoRow("gone")
  BY <1>1, <1>2 DEF Swept
<1>4. \A k \in Jobs \ {j} : \/ jobs'[k].runs = jobs[k].runs
                            \/ jobs'[k].runs = 0 /\ ~Active(jobs'[k])
  BY <1>3 DEF NoRow, Active
<1>5. jobs'[j].runs = 0 /\ ~Active(jobs'[j])
  BY <1>1, <1>2 DEF Swept, NewRow, Active
<1>. QED
  BY <1>4, <1>5, CountKept DEF TableProgresses

\* A claim starts an execution at none.
LEMMA ClaimProgresses ==
    ASSUME Inv, RunsBounded, ClaimDurableScanJobs
    PROVE  TableProgresses
<1>1. ASSUME NEW j \in Jobs
      PROVE  Progresses(j, jobs'[j])
  <2>1. jobs'[j] = IF j \in Claimed THEN ClaimedRow(jobs[j]) ELSE jobs[j]
    BY DEF ClaimDurableScanJobs
  <2>2. CASE j \in Claimed
    <3>1. ~Active(jobs[j])
      BY <2>2 DEF Claimed, Claimable, Active
    <3>2. jobs'[j].runs = 0
      BY <2>1, <2>2 DEF ClaimedRow
    <3>. QED
      BY <3>1, <3>2, CountKept
  <2>3. CASE j \notin Claimed
    BY <2>1, <2>3, CountKept
  <2>. QED
    BY <2>2, <2>3
<1>. QED
  BY <1>1 DEF TableProgresses

\* Every mutation moves the progress of a job that stays forward, or not at all.
LEMMA ProgressStep ==
    ASSUME Inv, RunsBounded, [StoreNext]_storeVars
    PROVE  TableProgresses
<1>1. ASSUME NEW j \in Jobs, JobNext(j)
      PROVE  TableProgresses
  <2>1. CASE PreflightAdmission(j)
    <3>1. Swept(EvictedTo(Maintained(jobs), MAX_ROWS - 1))
      BY MaintainedSwept, EvictedSwept
    <3>. QED
      BY <2>1, <3>1, SweptProgresses DEF PreflightAdmission
  <2>2. ASSUME NEW created \in (now - MAX_AGE)..(now + MAX_LEAD),
               AdmitDurableScanJob(j, created)
        PROVE  TableProgresses
    BY <2>2, AdmissionProgresses
  <2>3. ASSUME NEW generation \in Generations, NEW token \in Generations,
               LeaseHolderNext(j, generation, token)
        PROVE  TableProgresses
    BY <2>3, LeaseHolderProgresses
  <2>4. ASSUME NEW generation \in Generations, RecoveryNext(j, generation)
        PROVE  TableProgresses
    BY <2>4, RecoveryProgresses
  <2>5. CASE CancelDurableScanJob(j) \/ ExpireDurableScanJob(j)
    BY <2>5, RecoveryProgresses
  <2>. QED
    BY <1>1, <2>1, <2>2, <2>3, <2>4, <2>5 DEF JobNext
<1>2. CASE ClaimDurableScanJobs
  BY <1>2, ClaimProgresses
<1>3. CASE SettleSynchronizeAndPurge
  BY <1>3, MaintainedSwept, SweptProgresses DEF SettleSynchronizeAndPurge
<1>4. CASE Tick \/ UNCHANGED storeVars
  <2>1. jobs' = jobs
    BY <1>4 DEF Tick, storeVars
  <2>. QED
    BY <2>1, CountKept DEF TableProgresses
<1>. QED
  BY <1>1, <1>2, <1>3, <1>4 DEF StoreNext

-----------------------------------------------------------------------------
(* The theorems.                                                           *)

\* claimDurableScanJobs never activates more rows than there are slots, and
\* admitDurableScanJob never exceeds the limits on unfinished rows and on rows.
THEOREM LimitsAlwaysHold == StoreSpec => []LimitsHold
<1>1. StoreInit => LimitsHold
  BY LimitsInit
<1>2. Inv /\ LimitsHold /\ [StoreNext]_storeVars => LimitsHold'
  BY LimitsStep
<1>. QED
  BY <1>1, <1>2, Invariance, PTL DEF StoreSpec

\* heartbeatDurableScanJob never lowers completed_runs within one execution and
\* never stores more than total_runs, whatever the executor reports.
THEOREM ProgressNeverBackwards == StoreSpec => ProgressMonotone
<1>1. StoreInit => RunsBounded
  <2>1. \A j \in Jobs : TotalRuns[j] \in {1, 2}
    BY JobsAssumption
  <2>. QED
    BY <2>1 DEF StoreInit, NoRow, RunsBounded
<1>2. Inv /\ RunsBounded /\ [StoreNext]_storeVars => TableProgresses
  BY ProgressStep
<1>3. TableProgresses => RunsBounded'
  BY DEF TableProgresses, Progresses, RunsBounded
<1>4. TableProgresses =>
        [\A j \in Jobs :
            Active(jobs[j]) /\ Active(jobs'[j]) /\ jobs'[j].generation = jobs[j].generation
              => jobs[j].runs <= jobs'[j].runs /\ jobs'[j].runs <= TotalRuns[j]]_storeVars
  BY DEF TableProgresses, Progresses
<1>. QED
  BY <1>1, <1>2, <1>3, <1>4, Invariance, PTL DEF StoreSpec, ProgressMonotone
=============================================================================
