------------------------- MODULE EncryptedWatchProofs -------------------------
(***************************************************************************)
(* Theorems about EncryptedWatch, for every set of watches and every choice *)
(* of the cadence, the lifetimes, the leases and the limits.                *)
(*                                                                         *)
(* What the history of a watch promises is said of one row, so the proof    *)
(* has one lemma per row transformation (the new row is good, and names the  *)
(* jobs that the old one did) and one per action that puts it into the      *)
(* table.                                                                  *)
(***************************************************************************)
EXTENDS EncryptedWatch, FiniteSetTheorems, TLAPS

Ends == {"none", "deadline", "succeeded", "cancelled"}

Run == [job : Nat, admitted : Nat, at : Nat, end : Ends]

WatchRow == [state : {"none", "active", "leased", "completed"}, created : Nat, next : Nat,
             count : Nat, generation : Nat, token : Nat, lease : Nat, runs : Seq(Run)]

JobRow == [state : {"none", "open", "ended", "gone"}, created : Nat, finished : Nat, end : Ends]

Claim == [watch : Watches, generation : Nat, token : Nat]

\* Runs that are a cadence apart.
Apart(runs) == \A i \in DOMAIN runs \ {1} : runs[i].at >= runs[i - 1].at + CADENCE

\* What the proof keeps about the row of a watch, at time t: it counts its runs and
\* its attempts, and may have its next run no earlier than a cadence after the last.
GoodWatch(row, t) ==
    /\ row \in WatchRow
    /\ row.state = "none" => Len(row.runs) = 0
    /\ row.state # "none" => Len(row.runs) = row.count /\ row.count # 0
    /\ row.state # "none" =>
         row.generation = IF row.state = "leased" THEN row.count ELSE row.count - 1
    /\ Apart(row.runs)
    /\ row.state = "active" => row.next >= row.runs[row.count].at + CADENCE
    /\ row.state = "leased" => t >= row.runs[row.count].at + CADENCE

\* A row keeps its watch, and its history names the same jobs.
SameHistory(row, new) ==
    /\ row.state # "none" /\ new.state # "none" /\ new.created = row.created
    /\ Len(new.runs) = Len(row.runs)
    /\ \A i \in DOMAIN row.runs : new.runs[i].job = row.runs[i].job

\* It gains one run, which names job k.
OneRunMore(row, new, k) ==
    /\ row.state # "none" /\ new.state # "none" /\ new.created = row.created
    /\ Len(new.runs) = Len(row.runs) + 1
    /\ \A i \in DOMAIN row.runs : new.runs[i].job = row.runs[i].job
    /\ new.runs[Len(new.runs)].job = k

\* A watch is created where there was none, or one of another time.
Created(row, new, k) ==
    /\ new.state # "none" /\ (row.state # "none" => new.created # row.created)
    /\ Len(new.runs) = 1 /\ new.runs[1].job = k

Dropped(new) == new.state = "none" /\ Len(new.runs) = 0

\* What a step that admits job k for this row (or none, if k is 0) does to it.
Moves(row, new, k) ==
    \/ Dropped(new)
    \/ SameHistory(row, new)
    \/ OneRunMore(row, new, 0)
    \/ OneRunMore(row, new, k)
    \/ Created(row, new, k) /\ k # 0

Sound(row, new, k) == GoodWatch(new, now) /\ Moves(row, new, k)

-----------------------------------------------------------------------------
(* Rows.                                                                   *)

\* What the assumption says of each constant.
LEMMA Constants ==
    /\ CADENCE \in Nat /\ CADENCE > 0 /\ LEASE \in Nat /\ DAY \in Nat /\ DAY > 0
    /\ DAILY_BUDGET \in Nat /\ CAPACITY \in Nat /\ PURGE \in Nat
    /\ MAX_JOBS \in Nat /\ MAX_AGE \in Nat /\ MAX_RUNS \in Nat /\ TTL \in Nat /\ TTL > 0
    /\ \A w \in Watches : w \in Nat /\ w # 0
BY WatchAssumption

\* The row of no watch is good, and records nothing.
LEMMA NoWatchGood ==
    ASSUME NEW t
    PROVE  GoodWatch(NoWatch, t) /\ Dropped(NoWatch)
BY DEF GoodWatch, NoWatch, WatchRow, Apart, Dropped

\* The columns of a row.
LEMMA Columns ==
    ASSUME NEW row \in WatchRow
    PROVE  /\ row.state \in {"none", "active", "leased", "completed"}
           /\ row.created \in Nat /\ row.next \in Nat /\ row.count \in Nat
           /\ row.generation \in Nat /\ row.token \in Nat /\ row.lease \in Nat
           /\ row.runs \in Seq(Run) /\ Len(row.runs) \in Nat
           /\ DOMAIN row.runs = 1..Len(row.runs)
           /\ \A i \in DOMAIN row.runs : /\ row.runs[i] \in Run /\ row.runs[i].job \in Nat
                                         /\ row.runs[i].at \in Nat
<1>1. /\ row.state \in {"none", "active", "leased", "completed"}
      /\ row.created \in Nat /\ row.next \in Nat /\ row.count \in Nat
      /\ row.generation \in Nat /\ row.token \in Nat /\ row.lease \in Nat
      /\ row.runs \in Seq(Run)
  BY DEF WatchRow
<1>2. /\ Len(row.runs) \in Nat /\ DOMAIN row.runs = 1..Len(row.runs)
      /\ \A i \in DOMAIN row.runs : row.runs[i] \in Run
  BY <1>1
<1>. QED
  BY <1>1, <1>2 DEF Run

\* A row that is good stays good with time.
LEMMA GoodLater ==
    ASSUME NEW row, NEW t \in Nat, NEW u \in Nat, GoodWatch(row, t), t <= u
    PROVE  GoodWatch(row, u)
<1>1. row.state = "leased" => row.count \in DOMAIN row.runs
  BY Columns DEF GoodWatch
<1>2. row.state = "leased" => row.runs[row.count].at + CADENCE \in Nat
  BY <1>1, Columns, Constants DEF GoodWatch
<1>. QED
  BY <1>2 DEF GoodWatch

\* A row whose runs have been told how their jobs ended.
LEMMA ToldRowGood ==
    ASSUME NEW row, NEW t, GoodWatch(row, t), NEW runs,
           DOMAIN runs = DOMAIN row.runs, runs = [i \in DOMAIN runs |-> runs[i]],
           \A i \in DOMAIN row.runs : /\ runs[i] \in Run
                                      /\ runs[i].job = row.runs[i].job
                                      /\ runs[i].at = row.runs[i].at
    PROVE  LET new == [row EXCEPT !.runs = runs]
           IN  /\ GoodWatch(new, t)
               /\ SameHistory(row, new) \/ Dropped(new)
<1> DEFINE new == [row EXCEPT !.runs = runs]
<1>1. row \in WatchRow
  BY DEF GoodWatch
<1>2. runs \in Seq(Run) /\ Len(runs) = Len(row.runs)
  BY <1>1, Columns
<1>3. /\ new \in WatchRow /\ new.runs = runs
      /\ new.state = row.state /\ new.created = row.created /\ new.next = row.next
      /\ new.count = row.count /\ new.generation = row.generation
  BY <1>1, <1>2 DEF WatchRow
<1> HIDE DEF new
<1>4. Apart(runs)
  <2>1. DOMAIN row.runs = 1..Len(row.runs)
    BY <1>1, Columns
  <2>2. \A i \in DOMAIN runs \ {1} : i \in DOMAIN row.runs /\ i - 1 \in DOMAIN row.runs
    BY <2>1, <1>1, Columns
  <2>. QED
    BY <2>2 DEF GoodWatch, Apart
<1>5. row.state # "none" => row.count \in DOMAIN row.runs
  BY <1>1, Columns DEF GoodWatch
<1>6. GoodWatch(new, t)
  BY <1>2, <1>3, <1>4, <1>5 DEF GoodWatch
<1>7. SameHistory(row, new) \/ Dropped(new)
  BY <1>2, <1>3 DEF GoodWatch, SameHistory, Dropped
<1>. QED
  BY <1>6, <1>7 DEF new


\* An expired watch is dropped and the others stay.
LEMMA PurgedRow ==
    ASSUME NEW tab, NEW t, NEW w \in Watches
    PROVE  Purged(tab, t)[w] = tab[w] \/ Purged(tab, t)[w] = NoWatch
BY DEF Purged

\* A watch that is claimed.
LEMMA LeasedRowGood ==
    ASSUME NEW row, now \in Nat, GoodWatch(row, now), row.state = "active", row.next <= now
    PROVE  GoodWatch(LeasedRow(row), now) /\ SameHistory(row, LeasedRow(row))
<1> DEFINE new == LeasedRow(row)
<1>1. row \in WatchRow
  BY DEF GoodWatch
<1>2. Least(now + LEASE, ExpiresAt(row)) \in Nat
  BY <1>1, Columns, Constants DEF Least, ExpiresAt
<1>3. /\ new \in WatchRow /\ new.runs = row.runs
      /\ new.state = "leased" /\ new.created = row.created
      /\ new.count = row.count /\ new.generation = row.generation + 1
  BY <1>1, <1>2 DEF WatchRow, LeasedRow
<1> HIDE DEF new
<1>4. row.count \in Nat /\ row.generation = row.count - 1 /\ row.next \in Nat
  BY <1>1, Columns DEF GoodWatch
<1>5. row.count \in DOMAIN row.runs
  BY <1>1, Columns DEF GoodWatch
<1>6. row.runs[row.count].at + CADENCE \in Nat
  BY <1>1, <1>5, Columns, Constants
<1>7. now >= row.runs[row.count].at + CADENCE
  BY <1>4, <1>6 DEF GoodWatch
<1>. QED
  BY <1>1, <1>3, <1>4, <1>7 DEF GoodWatch, SameHistory, new

\* A leased watch whose attempt becomes a run, admitted or failed.
LEMMA AdvancedRowGood ==
    ASSUME NEW row, now \in Nat, GoodWatch(row, now), row.state = "leased",
           NEW run \in Run, run.at = now
    PROVE  /\ GoodWatch(Advanced(row, now, run), now)
           /\ OneRunMore(row, Advanced(row, now, run), run.job)
<1> DEFINE new == Advanced(row, now, run)
           runs == Append(row.runs, run)
<1>1. row \in WatchRow
  BY DEF GoodWatch
<1>2. now + CADENCE \in Nat
  BY Constants
<1>3. /\ runs \in Seq(Run) /\ Len(runs) = Len(row.runs) + 1
      /\ \A i \in DOMAIN row.runs : runs[i] = row.runs[i]
      /\ runs[Len(row.runs) + 1] = run
  BY <1>1, Columns
<1>4. /\ new \in WatchRow /\ new.runs = runs
      /\ new.state \in {"active", "completed"}
      /\ new.state = "active" => new.next = now + CADENCE
      /\ new.created = row.created
      /\ new.count = row.count + 1 /\ new.generation = row.generation
  BY <1>1, <1>2, <1>3 DEF WatchRow, Advanced, NextRunAt
<1> HIDE DEF new, runs
<1>5. /\ row.count \in Nat /\ row.count = Len(row.runs) /\ row.generation = row.count
      /\ row.count # 0 /\ DOMAIN row.runs = 1..row.count
  BY <1>1, Columns DEF GoodWatch
<1>6. now >= row.runs[row.count].at + CADENCE
  BY DEF GoodWatch
<1>7. Apart(runs)
  <2>1. DOMAIN runs = 1..(row.count + 1)
    BY <1>3, <1>5
  <2>2. ASSUME NEW i \in DOMAIN runs \ {1}
        PROVE  runs[i].at >= runs[i - 1].at + CADENCE
    <3>1. CASE i = row.count + 1
      <4>1. runs[i] = run /\ runs[i - 1] = row.runs[row.count]
        BY <3>1, <1>3, <1>5
      <4>. QED
        BY <4>1, <1>6
    <3>2. CASE i # row.count + 1
      <4>1. i \in DOMAIN row.runs \ {1} /\ i - 1 \in DOMAIN row.runs
        BY <2>1, <2>2, <3>2, <1>5
      <4>. QED
        BY <4>1, <1>3 DEF GoodWatch, Apart
    <3>. QED
      BY <3>1, <3>2
  <2>. QED
    BY <2>2 DEF Apart
<1>8. new.runs[new.count] = run
  BY <1>3, <1>4, <1>5
<1>9. GoodWatch(new, now)
  BY <1>2, <1>3, <1>4, <1>5, <1>7, <1>8 DEF GoodWatch
<1>10. OneRunMore(row, new, run.job)
  BY <1>3, <1>4, <1>5 DEF OneRunMore
<1>. QED
  BY <1>9, <1>10 DEF new

\* A watch that is created with its first job.
LEMMA NewRowGood ==
    ASSUME NEW t \in Nat, NEW created \in Nat, NEW j \in Nat
    PROVE  LET new == [NoWatch EXCEPT !.state = "active", !.created = created,
                                      !.next = created + CADENCE, !.count = 1,
                                      !.runs = <<AdmittedRun(j, created, created)>>]
           IN  /\ GoodWatch(new, t)
               /\ new.state = "active" /\ new.created = created
               /\ Len(new.runs) = 1 /\ new.runs[1].job = j
<1> DEFINE new == [NoWatch EXCEPT !.state = "active", !.created = created,
                                  !.next = created + CADENCE, !.count = 1,
                                  !.runs = <<AdmittedRun(j, created, created)>>]
           runs == <<AdmittedRun(j, created, created)>>
<1>1. AdmittedRun(j, created, created) \in Run /\ AdmittedRun(j, created, created).job = j
      /\ AdmittedRun(j, created, created).at = created
  BY DEF AdmittedRun, Run, Ends
<1>2. runs \in Seq(Run) /\ Len(runs) = 1 /\ runs[1] = AdmittedRun(j, created, created)
      /\ DOMAIN runs = {1}
  BY <1>1
<1>3. created + CADENCE \in Nat
  BY Constants
<1>4. /\ new.state = "active" /\ new.created = created /\ new.next = created + CADENCE
      /\ new.count = 1 /\ new.generation = 0 /\ new.token = 0 /\ new.lease = 0
      /\ new.runs = runs
  BY DEF NoWatch
<1>5. new \in WatchRow
  BY <1>2, <1>3 DEF WatchRow, NoWatch
<1> HIDE DEF new, runs
<1>. QED
  BY <1>1, <1>2, <1>3, <1>4, <1>5 DEF GoodWatch, Apart, new

-----------------------------------------------------------------------------
(* The invariant of the rows.                                              *)

WInv ==
    /\ now \in Nat
    /\ watches \in [Watches -> WatchRow]
    /\ \A w \in Watches : GoodWatch(watches[w], now)
    /\ jobs \in [Jobs -> JobRow]
    /\ budget \in [day : Nat, used : Nat]
    /\ claims \in SUBSET Claim

\* A step that admits job k of watch v, or none, if they are 0, and claims no watch.
Settles(row, new, k) == Sound(row, new, k) /\ (new.state = "leased" => row.state = "leased")

TableSettles(k, v) ==
    /\ watches' \in [Watches -> WatchRow]
    /\ \A w \in Watches : Settles(watches[w], watches'[w], IF w = v THEN k ELSE 0)

TableSound(k, v) ==
    /\ watches' \in [Watches -> WatchRow]
    /\ \A w \in Watches : Sound(watches[w], watches'[w], IF w = v THEN k ELSE 0)

\* Jobs stay jobs, and only job k may be new.
JobsSound(k) ==
    /\ jobs' \in [Jobs -> JobRow]
    /\ \A j \in Jobs : (jobs'[j].state = "none") <=> (jobs[j].state = "none" /\ j # k)
    /\ k # 0 => k \in Jobs /\ jobs[k].state = "none"

\* A row that stays settles,
LEMMA SameRowSettles ==
    ASSUME WInv, NEW w \in Watches
    PROVE  Settles(watches[w], watches[w], 0)
<1>1. GoodWatch(watches[w], now)
  BY DEF WInv
<1>2. SameHistory(watches[w], watches[w]) \/ Dropped(watches[w])
  BY <1>1 DEF SameHistory, Dropped, GoodWatch
<1>. QED
  BY <1>1, <1>2 DEF Settles, Sound, Moves

\* and so does one that is deleted,
LEMMA NoWatchSettles ==
    ASSUME NEW row, NEW k
    PROVE  Settles(row, NoWatch, k)
BY NoWatchGood DEF Settles, Sound, Moves, NoWatch

\* or that a purge keeps or deletes.
LEMMA PurgedSettles ==
    ASSUME WInv, NEW t, NEW w \in Watches
    PROVE  /\ Settles(watches[w], Purged(watches, t)[w], 0)
           /\ Purged(watches, t)[w].state # "none" => Purged(watches, t)[w] = watches[w]
BY PurgedRow, SameRowSettles, NoWatchSettles DEF NoWatch

\* A failed attempt is a run that names no job.
LEMMA FailedRunIsRun ==
    ASSUME NEW t \in Nat
    PROVE  FailedRun(t) \in Run /\ FailedRun(t).job = 0 /\ FailedRun(t).at = t
BY DEF FailedRun, AdmittedRun, Run, Ends

\* An attempt of a watch that is leased becomes a run.
LEMMA AdvancedSettles ==
    ASSUME WInv, NEW w \in Watches, watches[w].state = "leased", NEW run \in Run, run.at = now
    PROVE  /\ Settles(watches[w], Advanced(watches[w], now, run), run.job)
           /\ OneRunMore(watches[w], Advanced(watches[w], now, run), run.job)
<1>1. now \in Nat /\ GoodWatch(watches[w], now)
  BY DEF WInv
<1>2. /\ GoodWatch(Advanced(watches[w], now, run), now)
      /\ OneRunMore(watches[w], Advanced(watches[w], now, run), run.job)
  BY <1>1, AdvancedRowGood
<1>. QED
  BY <1>2 DEF Settles, Sound, Moves

\* A lease that expired is recorded as a failed run, once.
LEMMA RecoveredSettles ==
    ASSUME WInv, NEW w \in Watches
    PROVE  Settles(watches[w], Recovered(watches, now)[w], 0)
<1> DEFINE kept == Purged(watches, now)
<1>1. CASE kept[w].state = "leased" /\ kept[w].lease <= now
  <2>1. kept[w] = watches[w]
    BY <1>1, PurgedSettles
  <2>2. Recovered(watches, now)[w] = Advanced(watches[w], now, FailedRun(now))
    BY <1>1, <2>1 DEF Recovered
  <2>. QED
    BY <1>1, <2>1, <2>2, AdvancedSettles, FailedRunIsRun DEF WInv
<1>2. CASE ~ (kept[w].state = "leased" /\ kept[w].lease <= now)
  <2>1. Recovered(watches, now)[w] = kept[w]
    BY <1>2 DEF Recovered
  <2>. QED
    BY <2>1, PurgedSettles
<1>. QED
  BY <1>1, <1>2

\* A good row that goes on with the same history has moved as far.
LEMMA MovesOn ==
    ASSUME NEW row, NEW mid, NEW new, Moves(row, mid, 0), SameHistory(mid, new),
           Len(mid.runs) \in Nat, DOMAIN mid.runs = 1..Len(mid.runs),
           Len(row.runs) \in Nat, DOMAIN row.runs = 1..Len(row.runs)
    PROVE  Moves(row, new, 0)
<1>1. ~Dropped(mid)
  BY DEF SameHistory, Dropped
<1>2. CASE SameHistory(row, mid)
  BY <1>2 DEF SameHistory, Moves
<1>3. CASE OneRunMore(row, mid, 0)
  <2>1. OneRunMore(row, new, 0)
    BY <1>3 DEF SameHistory, OneRunMore
  <2>. QED
    BY <2>1 DEF Moves
<1>. QED
  BY <1>1, <1>2, <1>3 DEF Moves

-----------------------------------------------------------------------------
(* The actions on the table of watches.                                    *)

\* What a step makes of a row is a row.
LEMMA RowTypes ==
    ASSUME NEW row, NEW new, NEW k, Settles(row, new, k) \/ Sound(row, new, k)
    PROVE  new \in WatchRow
BY DEF Settles, Sound, GoodWatch

\* A history that is told of the ends of jobs.
LEMMA ToldSettles ==
    ASSUME WInv, NEW w \in Watches, NEW row, row = watches[w] \/ row = NoWatch, NEW runs,
           DOMAIN runs = DOMAIN row.runs, runs = [i \in DOMAIN runs |-> runs[i]],
           \A i \in DOMAIN row.runs : /\ runs[i] \in Run
                                      /\ runs[i].job = row.runs[i].job
                                      /\ runs[i].at = row.runs[i].at
    PROVE  Settles(watches[w], [row EXCEPT !.runs = runs], 0)
<1> SUFFICES ASSUME NEW new, new = [row EXCEPT !.runs = runs]
             PROVE  Settles(watches[w], new, 0)
  OBVIOUS
<1>1. GoodWatch(row, now) /\ row \in WatchRow
  BY NoWatchGood DEF WInv, GoodWatch
<1>2. GoodWatch(new, now) /\ (SameHistory(row, new) \/ Dropped(new))
  BY <1>1, ToldRowGood
<1>3. new.state = row.state
  BY <1>1 DEF WatchRow
<1>4. CASE row = watches[w]
  BY <1>2, <1>3, <1>4 DEF Settles, Sound, Moves
<1>5. CASE row = NoWatch
  <2>1. row.state = "none"
    BY <1>5 DEF NoWatch
  <2>2. Dropped(new)
    BY <1>2, <2>1 DEF SameHistory
  <2>. QED
    BY <1>2, <1>3, <2>1, <2>2 DEF Settles, Sound, Moves
<1>. QED
  BY <1>4, <1>5

\* recordEncryptedWatchRunTerminalOutcome
LEMMA RecordedSettles ==
    ASSUME WInv, NEW j, NEW end \in Ends, NEW t, NEW w \in Watches
    PROVE  Settles(watches[w], RecordedSafely(watches, j, end, t)[w], 0)
<1> DEFINE row == Purged(watches, t)[w]
           ended(run) == IF run.job = j THEN [run EXCEPT !.end = end] ELSE run
           runs == [i \in DOMAIN row.runs |-> ended(row.runs[i])]
<1>1. row = watches[w] \/ row = NoWatch
  BY PurgedRow
<1>2. row \in WatchRow
  BY <1>1, NoWatchGood DEF WInv, GoodWatch
<1>3. \A run \in Run : ended(run) \in Run /\ ended(run).job = run.job /\ ended(run).at = run.at
  BY DEF Run
<1>4. \A i \in DOMAIN row.runs : row.runs[i] \in Run
  BY <1>2, Columns
<1>5. Recorded(watches, j, end, t)[w] = [row EXCEPT !.runs = runs]
  BY DEF Recorded
<1> HIDE DEF row, ended
<1>6. Settles(watches[w], [row EXCEPT !.runs = runs], 0)
  BY <1>1, <1>3, <1>4, ToldSettles
<1> USE DEF row
<1>. QED
  BY <1>5, <1>6, PurgedSettles DEF RecordedSafely

\* settleSynchronizeAndPurgeDurableScanJobs
LEMMA SettledJobsType ==
    ASSUME WInv
    PROVE  /\ SettledJobs \in [Jobs -> JobRow]
           /\ \A j \in Jobs : SettledJobs[j].state = "none" <=> jobs[j].state = "none"
<1>1. ASSUME NEW j \in Jobs
      PROVE  /\ SettledJobs[j] \in JobRow
             /\ SettledJobs[j].state = "none" <=> jobs[j].state = "none"
  BY DEF WInv, SettledJobs, Ended, JobRow, Ends
<1>. QED
  BY <1>1 DEF SettledJobs

\* A run that hears of its outcome is the same run.
LEMMA SynchronizedSettles ==
    ASSUME WInv, NEW w \in Watches
    PROVE  Settles(watches[w], Synchronized[w], 0)
<1> DEFINE tab == SettledJobs
           copied == ToCopy(tab)
           gone(row) == \E j \in copied : ExpiresAt(row) <= tab[j].finished
           told(run) == IF run.job \in copied THEN [run EXCEPT !.end = tab[run.job].end] ELSE run
           row == watches[w]
           runs == [i \in DOMAIN row.runs |-> told(row.runs[i])]
<1>1. copied \subseteq Jobs
  BY SettledJobsType DEF ToCopy, With
<1>2. \A j \in Jobs : tab[j].end \in Ends
  BY SettledJobsType DEF JobRow
<1>3. \A run \in Run : told(run) \in Run /\ told(run).job = run.job /\ told(run).at = run.at
  BY <1>1, <1>2 DEF Run
<1>4. \A i \in DOMAIN row.runs : row.runs[i] \in Run
  BY Columns DEF WInv
<1>5. Synchronized[w] = IF row.state # "none" /\ gone(row) THEN NoWatch
                        ELSE [row EXCEPT !.runs = runs]
  BY DEF Synchronized
<1> HIDE DEF row, told, gone, copied, tab
<1>6. Settles(watches[w], [row EXCEPT !.runs = runs], 0)
  BY <1>3, <1>4, ToldSettles DEF row
<1>. QED
  BY <1>5, <1>6, NoWatchSettles

-----------------------------------------------------------------------------
(* Every action, on the rows.                                              *)

\* A step that leaves the jobs alone admits none.
LEMMA SameJobsSound ==
    ASSUME WInv, jobs' = jobs
    PROVE  JobsSound(0)
BY Constants DEF WInv, JobsSound, Jobs

\* A table that has been built row by row.
LEMMA BuiltTableSettles ==
    ASSUME NEW k, NEW v, NEW f, watches' = f, f = [w \in Watches |-> f[w]],
           \A w \in Watches : Settles(watches[w], f[w], IF w = v THEN k ELSE 0)
    PROVE  TableSettles(k, v)
<1>1. \A w \in Watches : f[w] \in WatchRow
  BY RowTypes
<1>. QED
  BY <1>1 DEF TableSettles

\* The pass adds no run to any watch.
LEMMA RetentionSettles ==
    ASSUME WInv, watches' = Synchronized
    PROVE  TableSettles(0, 0)
<1>1. Synchronized = [w \in Watches |-> Synchronized[w]]
  BY DEF Synchronized
<1>. QED
  BY <1>1, SynchronizedSettles, BuiltTableSettles

\* A purge of jobs leaves rows of jobs, and brings none into being.
LEMMA PurgedJobsType ==
    ASSUME WInv, NEW tab, tab \in [Jobs -> JobRow]
    PROVE  /\ PurgedJobs(tab) \in [Jobs -> JobRow]
           /\ \A j \in Jobs : PurgedJobs(tab)[j].state = "none" <=> tab[j].state = "none"
<1>1. ASSUME NEW j \in Jobs
      PROVE  /\ PurgedJobs(tab)[j] \in JobRow
             /\ PurgedJobs(tab)[j].state = "none" <=> tab[j].state = "none"
  BY DEF PurgedJobs, JobRow, Ends
<1>. QED
  BY <1>1 DEF PurgedJobs

\* A job that Node has prepared is new.
LEMMA PreparedSound ==
    ASSUME WInv, NEW j, NEW created \in Nat, Prepared(j, created)
    PROVE  /\ j \in Jobs /\ j \in Nat /\ j # 0
           /\ JobsSound(j)
           /\ jobs'[j] = [state |-> "open", created |-> created, finished |-> 0, end |-> "none"]
<1>1. j \in Jobs /\ jobs[j].state = "none"
  BY DEF Prepared, Unborn, With, WInv
<1>2. j \in Nat /\ j # 0
  BY <1>1, Constants DEF Jobs
<1>4. jobs' = [jobs EXCEPT ![j] = [state |-> "open", created |-> created,
                                   finished |-> 0, end |-> "none"]]
  BY DEF Prepared
<1>5. [state |-> "open", created |-> created, finished |-> 0, end |-> "none"] \in JobRow
  BY DEF JobRow, Ends
<1>. QED
  BY <1>1, <1>2, <1>4, <1>5 DEF WInv, JobsSound

\* A new watch has one run, of the job that was admitted with it.
LEMMA CreateSettles ==
    ASSUME WInv, NEW w \in Watches, NEW j \in Jobs, NEW created \in Nat,
           CreateWatch(w, j, created)
    PROVE  /\ TableSettles(j, w) /\ JobsSound(j)
           /\ Created(watches[w], watches'[w], j)
           /\ watches'[w].state # "leased"
<1> DEFINE kept == Purged(watches, created)
           new == [NoWatch EXCEPT !.state = "active", !.created = created,
                                  !.next = created + CADENCE, !.count = 1,
                                  !.runs = <<AdmittedRun(j, created, created)>>]
<1>0. JobsSound(j) /\ j \in Nat /\ j # 0
  BY PreparedSound DEF CreateWatch
<1>1. /\ GoodWatch(new, now)
      /\ new.state = "active" /\ new.created = created
      /\ Len(new.runs) = 1 /\ new.runs[1].job = j
  <2>1. now \in Nat
    BY DEF WInv
  <2>. QED
    BY <1>0, <2>1, NewRowGood
<1>2. kept[w].state = "none" /\ watches' = [kept EXCEPT ![w] = new]
  BY DEF CreateWatch
<1>3. watches[w].state # "none" => created # watches[w].created
  <2>1. ASSUME watches[w].state # "none"
        PROVE  watches[w].created + TTL <= created
    BY <1>2, <2>1 DEF Purged, ExpiresAt
  <2>2. watches[w].created \in Nat
    BY Columns DEF WInv
  <2>. QED
    BY <2>1, <2>2, Constants
<1>4. kept = [v \in Watches |-> kept[v]]
  BY DEF Purged
<1>5. \A v \in Watches : Settles(watches[v], kept[v], 0)
  BY PurgedSettles
<1> HIDE DEF kept, new
<1>6. watches'[w] = new /\ \A v \in Watches \ {w} : watches'[v] = kept[v]
  BY <1>2, <1>4
<1>7. Created(watches[w], new, j)
  BY <1>1, <1>3 DEF Created
<1>8. Settles(watches[w], new, j)
  BY <1>0, <1>1, <1>7 DEF Settles, Sound, Moves
<1>9. \A v \in Watches : Settles(watches[v], watches'[v], IF v = w THEN j ELSE 0)
  BY <1>5, <1>6, <1>8
<1>10. watches' = [v \in Watches |-> watches'[v]]
  BY <1>2, <1>4
<1>11. TableSettles(j, w)
  BY <1>9, <1>10, BuiltTableSettles
<1>. QED
  BY <1>0, <1>1, <1>6, <1>7, <1>11

\* The attempt of a claim whose lease holds becomes a run.
LEMMA AttemptSettles ==
    ASSUME WInv, NEW c \in Claim, LeaseHolds(c), NEW run \in Run, run.at = now,
           watches' = [Purged(watches, now) EXCEPT ![c.watch] = Advanced(@, now, run)]
    PROVE  /\ TableSettles(run.job, c.watch)
           /\ OneRunMore(watches[c.watch], watches'[c.watch], run.job)
<1> DEFINE kept == Purged(watches, now)
           w == c.watch
<1>1. w \in Watches
  BY DEF Claim
<1>2. kept[w] = watches[w] /\ watches[w].state = "leased"
  BY <1>1, PurgedSettles DEF LeaseHolds
<1>3. kept = [v \in Watches |-> kept[v]]
  BY DEF Purged
<1>4. \A v \in Watches : Settles(watches[v], kept[v], 0)
  BY PurgedSettles
<1>5. watches' = [kept EXCEPT ![w] = Advanced(kept[w], now, run)]
  OBVIOUS
<1> HIDE DEF kept, w
<1>6. /\ watches'[w] = Advanced(watches[w], now, run)
      /\ \A v \in Watches \ {w} : watches'[v] = kept[v]
      /\ watches' = [v \in Watches |-> watches'[v]]
  BY <1>1, <1>2, <1>3, <1>5
<1>7. /\ Settles(watches[w], watches'[w], run.job)
      /\ OneRunMore(watches[w], watches'[w], run.job)
  BY <1>1, <1>2, <1>6, AdvancedSettles
<1>8. \A v \in Watches : Settles(watches[v], watches'[v], IF v = w THEN run.job ELSE 0)
  BY <1>4, <1>6, <1>7
<1>9. \A v \in Watches : watches'[v] \in WatchRow
  BY <1>8, RowTypes
<1>10. TableSettles(run.job, w)
  BY <1>6, <1>8, <1>9 DEF TableSettles
<1>. QED
  BY <1>7, <1>10 DEF w

\* An admitted run is one more in the history of its watch, and of no other.
LEMMA AdmitSettles ==
    ASSUME WInv, NEW c \in claims, NEW j \in Jobs, NEW created \in Nat, AdmitRun(c, j, created)
    PROVE  /\ TableSettles(j, c.watch) /\ JobsSound(j) /\ c.watch \in Watches
           /\ OneRunMore(watches[c.watch], watches'[c.watch], j)
<1> DEFINE run == AdmittedRun(j, created, now)
<1>1. c \in Claim /\ c.watch \in Watches
  BY DEF WInv, Claim
<1>2. JobsSound(j) /\ j \in Nat
  BY PreparedSound DEF AdmitRun
<1>3. run \in Run /\ run.at = now /\ run.job = j
  BY <1>2 DEF AdmittedRun, Run, Ends, WInv
<1>4. LeaseHolds(c) /\ watches' = [Purged(watches, now) EXCEPT ![c.watch] = Advanced(@, now, run)]
  BY DEF AdmitRun
<1> HIDE DEF run
<1>5. /\ TableSettles(run.job, c.watch)
      /\ OneRunMore(watches[c.watch], watches'[c.watch], run.job)
  BY <1>1, <1>3, <1>4, AttemptSettles
<1>. QED
  BY <1>1, <1>2, <1>3, <1>5

\* A table whose rows settle with no job named.
LEMMA NoJobNamed ==
    ASSUME NEW v \in Watches, TableSettles(0, v)
    PROVE  TableSettles(0, 0)
BY DEF TableSettles

\* A step that leaves the watches alone adds no run.
LEMMA SameTableSettles ==
    ASSUME WInv, watches' = watches
    PROVE  TableSettles(0, 0)
BY SameRowSettles DEF TableSettles, WInv

\* A failed attempt names no job.
LEMMA FailSettles ==
    ASSUME WInv, NEW c \in claims, FailRun(c)
    PROVE  TableSettles(0, 0) /\ JobsSound(0)
<1>1. c \in Claim /\ c.watch \in Watches
  BY DEF WInv, Claim
<1>2. JobsSound(0)
  BY SameJobsSound DEF FailRun
<1>3. CASE LeaseHolds(c)
  <2>1. FailedRun(now) \in Run /\ FailedRun(now).at = now /\ FailedRun(now).job = 0
    BY FailedRunIsRun DEF WInv
  <2>2. watches' = [Purged(watches, now) EXCEPT ![c.watch] = Advanced(@, now, FailedRun(now))]
    BY <1>3 DEF FailRun
  <2>3. TableSettles(0, c.watch)
    BY <1>1, <1>3, <2>1, <2>2, AttemptSettles
  <2>. QED
    BY <1>1, <1>2, <2>3, NoJobNamed
<1>4. CASE ~LeaseHolds(c)
  BY <1>2, <1>4, SameTableSettles DEF FailRun
<1>. QED
  BY <1>3, <1>4

\* A job that ends tells its run, and adds none.
LEMMA EndJobSettles ==
    ASSUME WInv, NEW j \in Jobs, NEW end \in Ends, EndJob(j, end)
    PROVE  TableSettles(0, 0) /\ JobsSound(0)
<1>1. RecordedSafely(watches, j, end, now)
        = [w \in Watches |-> RecordedSafely(watches, j, end, now)[w]]
  BY DEF RecordedSafely, Recorded, Purged
<1>2. TableSettles(0, 0)
  BY <1>1, RecordedSettles, BuiltTableSettles DEF EndJob
<1>3. JobsSound(0)
  <2>1. CASE jobs[j].state = "open"
    <3>1. jobs' = [jobs EXCEPT ![j] = Ended(jobs[j], end, now)]
      BY <2>1 DEF EndJob
    <3>2. Ended(jobs[j], end, now) \in JobRow /\ Ended(jobs[j], end, now).state = "ended"
      BY DEF WInv, JobRow, Ended
    <3>. QED
      BY <2>1, <3>1, <3>2, Constants DEF JobsSound, WInv, Jobs
  <2>2. CASE jobs[j].state # "open"
    BY <2>2, SameJobsSound DEF EndJob
  <2>. QED
    BY <2>1, <2>2
<1>. QED
  BY <1>2, <1>3

\* The handlers that run the pass: a read of jobs,
LEMMA RetentionPassSettles ==
    ASSUME WInv, RetentionPass
    PROVE  TableSettles(0, 0) /\ JobsSound(0)
<1>1. TableSettles(0, 0)
  BY RetentionSettles DEF RetentionPass
<1>2. /\ PurgedJobs(SettledJobs) \in [Jobs -> JobRow]
      /\ \A j \in Jobs : PurgedJobs(SettledJobs)[j].state = "none" <=> jobs[j].state = "none"
  BY SettledJobsType, PurgedJobsType
<1>3. JobsSound(0)
  BY <1>2, Constants DEF RetentionPass, JobsSound, Jobs
<1>. QED
  BY <1>1, <1>3

\* the start of a turn, which settles what is done,
LEMMA StartTurnSettles ==
    ASSUME WInv, NEW done, StartTurn(done)
    PROVE  TableSettles(0, 0) /\ JobsSound(0)
<1> DEFINE tab == PurgedJobs(SettledJobs)
<1>1. TableSettles(0, 0)
  BY RetentionSettles DEF StartTurn
<1>2. /\ tab \in [Jobs -> JobRow]
      /\ \A j \in Jobs : tab[j].state = "none" <=> jobs[j].state = "none"
  BY SettledJobsType, PurgedJobsType
<1>3. \A j \in done : j \in Jobs /\ jobs[j].state # "none"
  BY SettledJobsType DEF StartTurn, With
<1>4. jobs' = [j \in Jobs |-> IF j \in done THEN Ended(tab[j], "deadline", now) ELSE tab[j]]
  BY DEF StartTurn
<1> HIDE DEF tab
<1>5. \A row \in JobRow : /\ Ended(row, "deadline", now) \in JobRow
                          /\ Ended(row, "deadline", now).state = "ended"
  BY DEF Ended, JobRow, WInv, Ends
<1>6. JobsSound(0)
  BY <1>2, <1>3, <1>4, <1>5, Constants DEF JobsSound, Jobs
<1>. QED
  BY <1>1, <1>6

\* and the deletions, by expiry or by the owner.
LEMMA DeletionSettles ==
    ASSUME WInv, NEW w \in Watches, ReadWatch(w) \/ DeleteWatch(w)
    PROVE  TableSettles(0, 0) /\ JobsSound(0)
<1>1. JobsSound(0)
  BY SameJobsSound DEF ReadWatch, DeleteWatch
<1>2. watches' = watches \/ watches' = [watches EXCEPT ![w] = NoWatch]
  BY DEF ReadWatch, DeleteWatch
<1>3. ASSUME watches' = [watches EXCEPT ![w] = NoWatch]
      PROVE  TableSettles(0, 0)
  <2>1. \A v \in Watches : Settles(watches[v], watches'[v], 0)
    BY <1>3, SameRowSettles, NoWatchSettles DEF WInv
  <2>2. watches' = [v \in Watches |-> watches'[v]]
    BY <1>3 DEF WInv
  <2>. QED
    BY <2>1, <2>2, BuiltTableSettles
<1>. QED
  BY <1>1, <1>2, <1>3, SameTableSettles

\* Maintenance recovers expired leases and admits nothing.
LEMMA MaintainSettles ==
    ASSUME WInv, MaintainOnly
    PROVE  TableSettles(0, 0) /\ JobsSound(0)
<1>1. Recovered(watches, now) = [w \in Watches |-> Recovered(watches, now)[w]]
  BY DEF Recovered
<1>. QED
  BY <1>1, RecoveredSettles, BuiltTableSettles, SameJobsSound DEF MaintainOnly

\* A claim leases watches that are due, and settles the others.
LEMMA ListSound ==
    ASSUME WInv, NEW n, ListItems(n)
    PROVE  TableSound(0, 0) /\ JobsSound(0)
<1> DEFINE tab == Recovered(watches, now)
           chosen == Chosen(tab, n)
<1>1. watches' = [w \in Watches |-> IF w \in chosen THEN LeasedRow(tab[w]) ELSE tab[w]]
  BY DEF ListItems
<1>2. \A w \in Watches : Settles(watches[w], tab[w], 0)
  BY RecoveredSettles
<1>3. \A w \in chosen : w \in Watches /\ tab[w].state = "active" /\ tab[w].next <= now
  BY DEF Chosen, Due, With, Recovered
<1> HIDE DEF tab, chosen
<1>4. ASSUME NEW w \in Watches
      PROVE  Sound(watches[w], watches'[w], 0)
  <2>1. CASE w \in chosen
    <3>1. GoodWatch(tab[w], now) /\ Moves(watches[w], tab[w], 0)
      BY <1>2 DEF Settles, Sound
    <3>2. GoodWatch(LeasedRow(tab[w]), now) /\ SameHistory(tab[w], LeasedRow(tab[w]))
      BY <1>3, <2>1, <3>1, LeasedRowGood DEF WInv
    <3>3. watches[w] \in WatchRow /\ tab[w] \in WatchRow
      BY <3>1 DEF WInv, GoodWatch
    <3>4. Moves(watches[w], LeasedRow(tab[w]), 0)
      BY <3>1, <3>2, <3>3, Columns, MovesOn
    <3>. QED
      BY <1>1, <2>1, <3>2, <3>4 DEF Sound
  <2>2. CASE w \notin chosen
    BY <1>1, <1>2, <2>2 DEF Settles
  <2>. QED
    BY <2>1, <2>2
<1>5. watches' \in [Watches -> WatchRow]
  BY <1>1, <1>4, RowTypes
<1>. QED
  BY <1>4, <1>5, SameJobsSound DEF TableSound, ListItems

-----------------------------------------------------------------------------
(* Every step, and the invariant of the rows.                              *)

\* A step admits job k of watch v, or none.
Step(k, v) ==
    /\ TableSound(k, v) /\ JobsSound(k) /\ Links(v)
    /\ k = 0 => v = 0
    /\ k # 0 => /\ v \in Watches
                /\ \/ OneRunMore(watches[v], watches'[v], k)
                   \/ Created(watches[v], watches'[v], k)

SomeStep == \E k, v : Step(k, v)

\* A table that settles is sound.
LEMMA SettlesIsSound ==
    ASSUME NEW k, NEW v, TableSettles(k, v)
    PROVE  TableSound(k, v)
BY DEF TableSettles, TableSound, Settles

\* A step that admits no job links none.
LEMMA QuietStep ==
    ASSUME TableSettles(0, 0), JobsSound(0), Links(0)
    PROVE  SomeStep
BY SettlesIsSound DEF SomeStep, Step

\* What the theorem about bursts needs of a step: only a claim leases watches.
OnlyClaimsLease ==
    \/ \E n \in 1..CAPACITY : ListItems(n)
    \/ \A w \in Watches : watches'[w].state = "leased" => watches[w].state = "leased"

\* Nor does a table that settles lease a watch.
LEMMA SettlesLeasesNone ==
    ASSUME NEW k, NEW v, TableSettles(k, v)
    PROVE  OnlyClaimsLease
BY DEF TableSettles, Settles, OnlyClaimsLease

\* Every action is a step of that kind, and only a claim leases.
LEMMA NextSteps ==
    ASSUME WInv, Next
    PROVE  SomeStep /\ OnlyClaimsLease /\ now \in Nat /\ now' \in Nat /\ now <= now'
<1>0. now \in Nat
  BY DEF WInv
<1>1. ASSUME NEW w \in Watches, NEW j \in Jobs, NEW t \in Moments, CreateWatch(w, j, t)
      PROVE  SomeStep /\ OnlyClaimsLease /\ now' = now
  <2>1. t \in Nat
    BY DEF Moments
  <2>2. /\ TableSettles(j, w) /\ JobsSound(j) /\ Created(watches[w], watches'[w], j)
        /\ j # 0
    BY <1>1, <2>1, CreateSettles, PreparedSound DEF CreateWatch
  <2>3. Links(w) /\ now' = now
    BY <1>1 DEF CreateWatch
  <2>4. Step(j, w)
    BY <2>2, <2>3, SettlesIsSound DEF Step
  <2>. QED
    BY <2>2, <2>3, <2>4, SettlesLeasesNone DEF SomeStep
<1>2. ASSUME NEW c \in claims, NEW j \in Jobs, NEW t \in Moments, AdmitRun(c, j, t)
      PROVE  SomeStep /\ OnlyClaimsLease /\ now' = now
  <2>1. t \in Nat
    BY DEF Moments
  <2>2. /\ TableSettles(j, c.watch) /\ JobsSound(j) /\ c.watch \in Watches /\ j # 0
        /\ OneRunMore(watches[c.watch], watches'[c.watch], j)
    BY <1>2, <2>1, AdmitSettles, PreparedSound DEF AdmitRun
  <2>3. Links(c.watch) /\ now' = now
    BY <1>2 DEF AdmitRun, Done
  <2>4. Step(j, c.watch)
    BY <2>2, <2>3, SettlesIsSound DEF Step
  <2>. QED
    BY <2>2, <2>3, <2>4, SettlesLeasesNone DEF SomeStep
<1>3. ASSUME NEW w \in Watches, ReadWatch(w) \/ DeleteWatch(w)
      PROVE  SomeStep /\ OnlyClaimsLease /\ now' = now
  <2>1. TableSettles(0, 0) /\ JobsSound(0)
    BY <1>3, DeletionSettles
  <2>2. Links(0) /\ now' = now
    BY <1>3 DEF ReadWatch, DeleteWatch
  <2>. QED
    BY <2>1, <2>2, QuietStep, SettlesLeasesNone
<1>4. ASSUME NEW j \in Jobs, NEW end \in {"succeeded", "cancelled"}, EndJob(j, end)
      PROVE  SomeStep /\ OnlyClaimsLease /\ now' = now
  <2>1. TableSettles(0, 0) /\ JobsSound(0)
    BY <1>4, EndJobSettles DEF Ends
  <2>2. Links(0) /\ now' = now
    BY <1>4 DEF EndJob
  <2>. QED
    BY <2>1, <2>2, QuietStep, SettlesLeasesNone
<1>5. ASSUME NEW done, StartTurn(done)
      PROVE  SomeStep /\ OnlyClaimsLease /\ now' = now
  <2>1. TableSettles(0, 0) /\ JobsSound(0)
    BY <1>5, StartTurnSettles
  <2>2. Links(0) /\ now' = now
    BY <1>5 DEF StartTurn
  <2>. QED
    BY <2>1, <2>2, QuietStep, SettlesLeasesNone
<1>6. ASSUME NEW n \in 1..CAPACITY, ListItems(n)
      PROVE  SomeStep /\ OnlyClaimsLease /\ now' = now
  <2>1. TableSound(0, 0) /\ JobsSound(0)
    BY <1>6, ListSound
  <2>2. Links(0) /\ now' = now
    BY <1>6 DEF ListItems
  <2>. QED
    BY <1>6, <2>1, <2>2 DEF SomeStep, Step, OnlyClaimsLease
<1>7. ASSUME NEW c \in claims, FailRun(c)
      PROVE  SomeStep /\ OnlyClaimsLease /\ now' = now
  <2>1. TableSettles(0, 0) /\ JobsSound(0)
    BY <1>7, FailSettles
  <2>2. Links(0) /\ now' = now
    BY <1>7 DEF FailRun, Done
  <2>. QED
    BY <2>1, <2>2, QuietStep, SettlesLeasesNone
<1>8. CASE RetentionPass
  <2>1. TableSettles(0, 0) /\ JobsSound(0)
    BY <1>8, RetentionPassSettles
  <2>2. Links(0) /\ now' = now
    BY <1>8 DEF RetentionPass
  <2>. QED
    BY <1>0, <2>1, <2>2, QuietStep, SettlesLeasesNone
<1>9. CASE MaintainOnly
  <2>1. TableSettles(0, 0) /\ JobsSound(0)
    BY <1>9, MaintainSettles
  <2>2. Links(0) /\ now' = now
    BY <1>9 DEF MaintainOnly
  <2>. QED
    BY <1>0, <2>1, <2>2, QuietStep, SettlesLeasesNone
<1>10. CASE AbandonTurn \/ Tick
  <2>1. watches' = watches /\ jobs' = jobs /\ Links(0) /\ now' \in {now, now + 1}
    BY <1>10 DEF AbandonTurn, Tick
  <2>2. TableSettles(0, 0) /\ JobsSound(0)
    BY <2>1, SameTableSettles, SameJobsSound
  <2>. QED
    BY <1>0, <2>1, <2>2, QuietStep, SettlesLeasesNone
<1>. QED
  BY <1>0, <1>1, <1>2, <1>3, <1>4, <1>5, <1>6, <1>7, <1>8, <1>9, <1>10 DEF Next

\* The claims of a turn, and the budget of a day.
LEMMA TurnTypes ==
    ASSUME WInv, Next
    PROVE  claims' \in SUBSET Claim /\ budget' \in [day : Nat, used : Nat]
<1>1. ASSUME NEW n \in 1..CAPACITY, ListItems(n)
      PROVE  claims' \in SUBSET Claim /\ budget' \in [day : Nat, used : Nat]
  <2> DEFINE tab == Recovered(watches, now)
             chosen == Chosen(tab, n)
  <2>1. \A w \in Watches : tab[w].generation \in Nat
    BY RecoveredSettles, RowTypes, Columns
  <2>2. chosen \subseteq Watches /\ IsFiniteSet(Watches)
    BY WatchAssumption DEF Chosen, Due, With, Recovered
  <2>3. Cardinality(chosen) \in Nat
    BY <2>2, FS_Subset, FS_CardinalityType
  <2>4. Today \in Nat /\ Used \in Nat
    BY Constants DEF WInv, Today, Used
  <2>5. /\ claims' = {[watch |-> w, generation |-> tab[w].generation + 1, token |-> now] : w \in chosen}
        /\ budget' = IF chosen = {} THEN budget
                     ELSE [day |-> Today, used |-> Used + Cardinality(chosen)]
    BY <1>1 DEF ListItems
  <2> HIDE DEF tab, chosen
  <2>6. claims' \in SUBSET Claim
    BY <2>1, <2>2, <2>5 DEF Claim, WInv
  <2>7. budget' \in [day : Nat, used : Nat]
    BY <2>3, <2>4, <2>5 DEF WInv
  <2>. QED
    BY <2>6, <2>7
<1>2. ASSUME ~ (\E n \in 1..CAPACITY : ListItems(n))
      PROVE  claims' \subseteq claims /\ budget' = budget
  BY <1>2
     DEF Next, CreateWatch, AdmitRun, ReadWatch, DeleteWatch, EndJob, StartTurn, FailRun, Done,
         RetentionPass, MaintainOnly, AbandonTurn, Tick
<1>. QED
  BY <1>1, <1>2 DEF WInv

\* No watch and no job: every row is good.
LEMMA WInvInit == Init => WInv
BY NoWatchGood, Constants
   DEF Init, WInv, GoodWatch, NoJob, JobRow, Ends, Claim

\* Every step keeps every row good.
LEMMA WInvStep == WInv /\ [Next]_vars => WInv'
<1>1. ASSUME WInv, Next
      PROVE  WInv'
  <2>1. SomeStep /\ now \in Nat /\ now' \in Nat /\ now <= now'
    BY <1>1, NextSteps
  <2>2. PICK k, v : Step(k, v)
    BY <2>1 DEF SomeStep
  <2>3. watches' \in [Watches -> WatchRow] /\ \A w \in Watches : GoodWatch(watches'[w], now)
    BY <2>2 DEF Step, TableSound, Sound
  <2>4. \A w \in Watches : GoodWatch(watches'[w], now')
    BY <2>1, <2>3, GoodLater
  <2>5. jobs' \in [Jobs -> JobRow]
    BY <2>2 DEF Step, JobsSound
  <2>. QED
    BY <1>1, <2>1, <2>3, <2>4, <2>5, TurnTypes DEF WInv
<1>2. WInv /\ UNCHANGED vars => WInv'
  BY DEF WInv, vars, GoodWatch
<1>. QED
  BY <1>1, <1>2

\* In every reachable state the rows are good.
LEMMA WInvariance == Spec => []WInv
BY WInvInit, WInvStep, PTL DEF Spec

-----------------------------------------------------------------------------
(* Jobs and the runs that name them.                                       *)

NamedOnce(runs, j) == \E i \in DOMAIN runs : \A k \in DOMAIN runs : runs[k].job = j <=> k = i
NeverNamed(runs, j) == \A k \in DOMAIN runs : runs[k].job # j

LinkInv ==
    /\ linked \in [Jobs -> Watches \cup {0}]
    /\ \A j \in Jobs : linked[j] # 0 => jobs[j].state # "none"
    /\ \A j \in Jobs, w \in Watches :
          IF linked[j] = w THEN NamedOnce(watches[w].runs, j) ELSE NeverNamed(watches[w].runs, j)

\* Histories are numbered from 1 to their length.
LEMMA RunDomains ==
    ASSUME WInv, NEW w \in Watches
    PROVE  /\ Len(watches[w].runs) \in Nat
           /\ DOMAIN watches[w].runs = 1..Len(watches[w].runs)
BY Columns DEF WInv

\* A row that goes on names the jobs that it named.
LEMMA GoesOn ==
    ASSUME NEW row \in WatchRow, NEW new \in WatchRow, NEW k \in Nat, NEW j \in Nat, j # 0, j # k,
           SameHistory(row, new) \/ OneRunMore(row, new, 0) \/ OneRunMore(row, new, k)
    PROVE  /\ new.state # "none" /\ new.created = row.created
           /\ NamedOnce(row.runs, j) => NamedOnce(new.runs, j)
           /\ NeverNamed(row.runs, j) => NeverNamed(new.runs, j)
<1> DEFINE n == Len(row.runs)
<1>1. n \in Nat /\ DOMAIN row.runs = 1..n
  BY Columns
<1>2. Len(new.runs) \in Nat /\ DOMAIN new.runs = 1..Len(new.runs)
  BY Columns
<1>3. /\ new.state # "none" /\ new.created = row.created
      /\ \A i \in 1..n : i \in DOMAIN new.runs /\ new.runs[i].job = row.runs[i].job
      /\ \A i \in DOMAIN new.runs : i \notin 1..n => new.runs[i].job # j
  BY <1>1, <1>2 DEF SameHistory, OneRunMore
<1> HIDE DEF n
<1>4. ASSUME NamedOnce(row.runs, j)
      PROVE  NamedOnce(new.runs, j)
  <2>1. PICK i \in DOMAIN row.runs : \A m \in DOMAIN row.runs : row.runs[m].job = j <=> m = i
    BY <1>4 DEF NamedOnce
  <2>2. i \in 1..n /\ \A m \in DOMAIN new.runs : new.runs[m].job = j <=> m = i
    BY <1>1, <1>3, <2>1
  <2>. QED
    BY <1>3, <2>1, <2>2 DEF NamedOnce
<1>5. ASSUME NeverNamed(row.runs, j)
      PROVE  NeverNamed(new.runs, j)
  BY <1>1, <1>3, <1>5 DEF NeverNamed
<1>. QED
  BY <1>3, <1>4, <1>5

\* The job of an admission is named by the run that it adds, and by no other.
LEMMA NamesNew ==
    ASSUME NEW row \in WatchRow, NEW new \in WatchRow, NEW k \in Nat, k # 0,
           NeverNamed(row.runs, k), OneRunMore(row, new, k) \/ Created(row, new, k)
    PROVE  NamedOnce(new.runs, k)
<1>1. Len(row.runs) \in Nat /\ DOMAIN row.runs = 1..Len(row.runs)
  BY Columns
<1>2. Len(new.runs) \in Nat /\ DOMAIN new.runs = 1..Len(new.runs)
  BY Columns
<1>3. CASE OneRunMore(row, new, k)
  <2>1. /\ Len(new.runs) = Len(row.runs) + 1 /\ new.runs[Len(new.runs)].job = k
        /\ \A i \in DOMAIN row.runs : new.runs[i].job # k
    BY <1>3 DEF OneRunMore, NeverNamed
  <2>2. /\ Len(new.runs) \in DOMAIN new.runs
        /\ \A m \in DOMAIN new.runs : new.runs[m].job = k <=> m = Len(new.runs)
    BY <1>1, <1>2, <2>1
  <2>. QED
    BY <2>2 DEF NamedOnce
<1>4. CASE Created(row, new, k)
  <2>1. DOMAIN new.runs = {1} /\ new.runs[1].job = k
    BY <1>2, <1>4 DEF Created
  <2>. QED
    BY <2>1 DEF NamedOnce
<1>. QED
  BY <1>3, <1>4

\* The runs of a row that is dropped, or created for another job.
LEMMA ForgetsOthers ==
    ASSUME NEW row, NEW new \in WatchRow, NEW k, NEW j, j # k,
           Dropped(new) \/ Created(row, new, k)
    PROVE  NeverNamed(new.runs, j)
<1>1. Len(new.runs) \in Nat /\ DOMAIN new.runs = 1..Len(new.runs)
  BY Columns
<1>. QED
  BY <1>1 DEF Dropped, Created, NeverNamed

\* A step of that kind keeps each job named by one run at most.
LEMMA LinkStep ==
    ASSUME WInv, LinkInv, NEW k, NEW v, Step(k, v)
    PROVE  LinkInv'
<1>0. k \in Nat /\ (k # 0 => k \in Jobs /\ jobs[k].state = "none" /\ v \in Watches)
  <2>1. k # 0 => k \in Jobs
    BY DEF Step, JobsSound
  <2>. QED
    BY <2>1, Constants DEF Step, JobsSound, Jobs
<1>1. \A j \in Jobs : j \in Nat /\ j # 0
  BY Constants DEF Jobs
<1>2. \A w \in Watches : /\ watches[w] \in WatchRow /\ watches'[w] \in WatchRow
                         /\ Moves(watches[w], watches'[w], IF w = v THEN k ELSE 0)
  BY DEF Step, TableSound, Sound, WInv
<1>3. ASSUME NEW j \in Jobs
      PROVE  linked'[j] = IF jobs[j].state = "none" /\ jobs'[j].state # "none" THEN v
               ELSE IF linked[j] # 0 /\ watches'[linked[j]].created = watches[linked[j]].created
                                     /\ watches'[linked[j]].state # "none"
               THEN linked[j] ELSE 0
  BY <1>3 DEF Step, Links
<1>4. \A j \in Jobs : (jobs[j].state = "none" /\ jobs'[j].state # "none") <=> j = k
  BY <1>0, <1>1 DEF Step, JobsSound
<1>5. ASSUME NEW j \in Jobs, j # k, NEW w \in Watches, linked'[j] = w
      PROVE  NamedOnce(watches'[w].runs, j)
  <2>1. /\ linked[j] = w /\ watches'[w].created = watches[w].created
        /\ watches'[w].state # "none"
    BY <1>3, <1>4, <1>5, Constants
  <2>2. NamedOnce(watches[w].runs, j)
    BY <2>1 DEF LinkInv
  <2>3. watches[w].state # "none"
    <3>1. DOMAIN watches[w].runs # {}
      BY <2>2 DEF NamedOnce
    <3>. QED
      BY <3>1, RunDomains DEF WInv, GoodWatch
  <2>4. \/ SameHistory(watches[w], watches'[w]) \/ OneRunMore(watches[w], watches'[w], 0)
        \/ OneRunMore(watches[w], watches'[w], k)
    BY <1>2, <2>1, <2>3 DEF Moves, Dropped, Created
  <2>. QED
    BY <1>0, <1>1, <1>2, <1>5, <2>2, <2>4, GoesOn
<1>6. ASSUME NEW j \in Jobs, j # k, NEW w \in Watches, linked'[j] # w
      PROVE  NeverNamed(watches'[w].runs, j)
  <2>1. CASE Dropped(watches'[w]) \/ Created(watches[w], watches'[w], k)
    BY <1>2, <1>6, <2>1, ForgetsOthers
  <2>2. CASE \/ SameHistory(watches[w], watches'[w]) \/ OneRunMore(watches[w], watches'[w], 0)
             \/ OneRunMore(watches[w], watches'[w], k)
    <3>1. /\ watches'[w].state # "none" /\ watches'[w].created = watches[w].created
          /\ NeverNamed(watches[w].runs, j) => NeverNamed(watches'[w].runs, j)
      BY <1>0, <1>1, <1>2, <1>6, <2>2, GoesOn
    <3>2. linked[j] # w
      BY <1>3, <1>4, <1>6, <3>1, Constants
    <3>. QED
      BY <3>1, <3>2 DEF LinkInv
  <2>. QED
    BY <1>2, <2>1, <2>2 DEF Moves
<1>7. ASSUME k # 0
      PROVE  /\ linked'[k] = v
             /\ \A w \in Watches : IF w = v THEN NamedOnce(watches'[w].runs, k)
                                            ELSE NeverNamed(watches'[w].runs, k)
  <2>1. linked'[k] = v
    BY <1>0, <1>3, <1>4, <1>7
  <2>2. linked[k] = 0
    BY <1>0, <1>7 DEF LinkInv
  <2>3. \A w \in Watches : NeverNamed(watches[w].runs, k)
    BY <1>0, <1>7, <2>2, Constants DEF LinkInv
  <2>4. OneRunMore(watches[v], watches'[v], k) \/ Created(watches[v], watches'[v], k)
    BY <1>7 DEF Step
  <2>5. NamedOnce(watches'[v].runs, k)
    BY <1>0, <1>2, <1>7, <2>3, <2>4, NamesNew
  <2>6. ASSUME NEW w \in Watches, w # v
        PROVE  NeverNamed(watches'[w].runs, k)
    <3>1. Moves(watches[w], watches'[w], 0)
      BY <1>2, <2>6
    <3>2. CASE Dropped(watches'[w])
      BY <1>2, <1>7, <3>2, ForgetsOthers
    <3>3. CASE SameHistory(watches[w], watches'[w]) \/ OneRunMore(watches[w], watches'[w], 0)
      BY <1>0, <1>2, <1>7, <2>3, <3>3, GoesOn
    <3>. QED
      BY <3>1, <3>2, <3>3 DEF Moves
  <2>. QED
    BY <2>1, <2>5, <2>6
<1>8. linked' \in [Jobs -> Watches \cup {0}]
  <2>1. linked' = [j \in Jobs |-> linked'[j]]
    BY DEF Step, Links
  <2>2. \A j \in Jobs : linked'[j] \in Watches \cup {0}
    BY <1>0, <1>3, <1>4 DEF LinkInv, Step
  <2>. QED
    BY <2>1, <2>2
<1>9. \A j \in Jobs : linked'[j] # 0 => jobs'[j].state # "none"
  BY <1>0, <1>3, <1>4 DEF LinkInv, Step, JobsSound
<1>10. ASSUME NEW j \in Jobs, NEW w \in Watches
       PROVE  IF linked'[j] = w THEN NamedOnce(watches'[w].runs, j)
                                ELSE NeverNamed(watches'[w].runs, j)
  <2>1. CASE j = k
    BY <1>1, <1>7, <2>1
  <2>2. CASE j # k
    BY <1>5, <1>6, <2>2
  <2>. QED
    BY <2>1, <2>2
<1>. QED
  BY <1>8, <1>9, <1>10 DEF LinkInv

\* At the start no run names a job.
LEMMA LinkInvInit == Init => LinkInv
BY Constants DEF Init, LinkInv, NoWatch, NeverNamed, NamedOnce

\* Every step keeps each job named by one run at most.
LEMMA LinkInvStep == WInv /\ LinkInv /\ [Next]_vars => LinkInv'
<1>1. ASSUME WInv, LinkInv, Next
      PROVE  LinkInv'
  BY <1>1, NextSteps, LinkStep DEF SomeStep
<1>2. LinkInv /\ UNCHANGED vars => LinkInv'
  BY DEF LinkInv, vars
<1>. QED
  BY <1>1, <1>2

\* claimDueEncryptedWatches, advanceAfterRun and recoverExpiredEncryptedWatchLeases: every
\* lease of a watch becomes one run, and every job of a watch is named by one of its runs,
\* whatever turns are abandoned and whatever watches are deleted and created anew.
THEOREM AttemptsRecordedOnce == Spec => []EveryAttemptIsOneRun
<1>1. WInv /\ LinkInv => EveryAttemptIsOneRun
  BY DEF WInv, LinkInv, GoodWatch, EveryAttemptIsOneRun, NamedOnce, NeverNamed, Present
<1>. QED
  BY <1>1, WInvariance, LinkInvInit, LinkInvStep, PTL DEF Spec

-----------------------------------------------------------------------------
(* Leases at a time.                                                       *)

LeaseBound == Cardinality(With(watches, "leased")) <= CAPACITY

\* Sets of watches are finite,
LEMMA WatchSetsFinite ==
    ASSUME NEW S \in SUBSET Watches
    PROVE  IsFiniteSet(S) /\ Cardinality(S) \in Nat
BY WatchAssumption, FS_Subset, FS_CardinalityType

\* and a smaller one has fewer members.
LEMMA FewerWatches ==
    ASSUME NEW T \in SUBSET Watches, NEW S \in SUBSET T
    PROVE  Cardinality(S) <= Cardinality(T)
BY WatchSetsFinite, FS_Subset

\* A due watch's place in the order of claims: how many come before it.
Places(tab) == [w \in Due(tab) |-> Cardinality({v \in Due(tab) : DueBefore(tab, v, w)})]

\* Places are numbers below the number of due watches, and no two watches share one.
LEMMA PlacesDiffer ==
    ASSUME NEW tab \in [Watches -> WatchRow]
    PROVE  /\ \A w \in Due(tab) : Places(tab)[w] \in Nat /\ Places(tab)[w] < Cardinality(Due(tab))
           /\ \A v, w \in Due(tab) : Places(tab)[v] = Places(tab)[w] => v = w
<1> DEFINE S == Due(tab)
           before(w) == {v \in S : DueBefore(tab, v, w)}
<1>1. \A w \in Watches : tab[w].next \in Nat /\ tab[w].created \in Nat /\ w \in Nat
  BY Columns, Constants
<1>2. S \in SUBSET Watches
  BY DEF Due, With
<1>3. \A w \in S : before(w) \in SUBSET S /\ w \notin before(w) /\ Places(tab)[w] = Cardinality(before(w))
  BY <1>1, <1>2 DEF Places, DueBefore
<1>4. \A T \in SUBSET S : IsFiniteSet(T) /\ Cardinality(T) \in Nat
  BY <1>2, WatchSetsFinite
<1>5. ASSUME NEW w \in S
      PROVE  Places(tab)[w] \in Nat /\ Places(tab)[w] < Cardinality(S)
  <2>1. before(w) \in SUBSET (S \ {w})
    BY <1>3
  <2>2. Cardinality(S \ {w}) = Cardinality(S) - 1 /\ IsFiniteSet(S \ {w})
    BY <1>4, FS_RemoveElement
  <2>3. Cardinality(before(w)) <= Cardinality(S) - 1
    BY <2>1, <2>2, FS_Subset
  <2>4. Cardinality(before(w)) \in Nat /\ Cardinality(S) \in Nat
    BY <1>3, <1>4
  <2>. QED
    BY <1>3, <2>3, <2>4
<1>6. ASSUME NEW v \in S, NEW w \in S, DueBefore(tab, v, w)
      PROVE  Places(tab)[v] < Places(tab)[w]
  <2>1. before(v) \cup {v} \in SUBSET before(w)
    BY <1>1, <1>2, <1>6 DEF DueBefore
  <2>2. v \notin before(v)
    BY <1>3
  <2>3. Cardinality(before(v) \cup {v}) = Cardinality(before(v)) + 1
    BY <1>3, <1>4, <2>2, FS_AddElement
  <2>4. Cardinality(before(v) \cup {v}) <= Cardinality(before(w))
    BY <1>3, <1>4, <2>1, FS_Subset
  <2>5. Cardinality(before(v)) \in Nat /\ Cardinality(before(w)) \in Nat
    BY <1>3, <1>4
  <2>. QED
    BY <1>3, <2>3, <2>4, <2>5
<1>7. \A v, w \in S : v = w \/ DueBefore(tab, v, w) \/ DueBefore(tab, w, v)
  BY <1>1, <1>2 DEF DueBefore
<1>. HIDE DEF S
<1>8. \A v, w \in S : Places(tab)[v] = Places(tab)[w] => v = w
  <2>. SUFFICES ASSUME NEW v \in S, NEW w \in S, Places(tab)[v] = Places(tab)[w], v # w
                PROVE  FALSE
    OBVIOUS
  <2>1. Places(tab)[v] < Places(tab)[w] \/ Places(tab)[w] < Places(tab)[v]
    BY <1>6, <1>7
  <2>. QED
    BY <1>5, <2>1
<1>. QED
  BY <1>5, <1>8 DEF S

\* So the first n places are taken by at most n, and the first one is taken.
LEMMA FirstPlaces ==
    ASSUME NEW tab \in [Watches -> WatchRow]
    PROVE  /\ \A n \in Int : LET first == {w \in Due(tab) : Places(tab)[w] < n}
                              IN  first = {} \/ Cardinality(first) <= n
           /\ Due(tab) # {} => \E w \in Due(tab) : Places(tab)[w] = 0
<1>1. Due(tab) \in SUBSET Watches
  BY DEF Due, With
<1>2. /\ IsFiniteSet(Due(tab)) /\ Cardinality(Due(tab)) \in Nat
      /\ \A w \in Due(tab) : Places(tab)[w] \in Nat /\ Places(tab)[w] < Cardinality(Due(tab))
      /\ \A v, w \in Due(tab) : Places(tab)[v] = Places(tab)[w] => v = w
  BY <1>1, WatchSetsFinite, PlacesDiffer
<1>3. ASSUME NEW low \in Nat, NEW high \in Nat, NEW T \in SUBSET Due(tab),
             \A w \in T : low <= Places(tab)[w] /\ Places(tab)[w] < high, low <= high
      PROVE  Cardinality(T) <= high - low
  <2> DEFINE f == [w \in T |-> Places(tab)[w]]
             room == low..(high - 1)
  <2>1. f \in [T -> room]
    BY <1>2, <1>3
  <2>2. \A v, w \in T : f[v] = f[w] => v = w
    BY <1>2
  <2>3. IsFiniteSet(room) /\ Cardinality(room) = high - low
    <3>1. low > high - 1 \/ low <= high - 1
      OBVIOUS
    <3>2. high - 1 \in Int /\ low \in Int
      OBVIOUS
    <3>. QED
      BY <1>3, <3>1, <3>2, FS_Interval
  <2>. HIDE DEF f, room
  <2>4. f \in Injection(T, room)
    BY <2>1, <2>2 DEF Injection, IsInjective
  <2>5. Cardinality(T) <= Cardinality(room)
    BY <2>3, <2>4, FS_Injection
  <2>. QED
    BY <2>3, <2>5
<1>4. ASSUME NEW n \in Int
      PROVE  \/ {w \in Due(tab) : Places(tab)[w] < n} = {}
             \/ Cardinality({w \in Due(tab) : Places(tab)[w] < n}) <= n
  <2> DEFINE first == {w \in Due(tab) : Places(tab)[w] < n}
  <2>1. CASE n \in Nat
    <3>1. \A w \in first : 0 <= Places(tab)[w] /\ Places(tab)[w] < n
      BY <1>2
    <3>2. first \in SUBSET Due(tab)
      OBVIOUS
    <3>. HIDE DEF first
    <3>3. Cardinality(first) <= n - 0
      BY <1>3, <2>1, <3>1, <3>2
    <3>. QED
      BY <2>1, <3>3 DEF first
  <2>2. CASE n \notin Nat
    BY <1>2, <2>2
  <2>. QED
    BY <2>1, <2>2
<1>5. ASSUME Due(tab) # {}, \A w \in Due(tab) : Places(tab)[w] # 0
      PROVE  FALSE
  <2>1. Cardinality(Due(tab)) # 0
    BY <1>2, <1>5, FS_EmptySet
  <2>2. \A w \in Due(tab) : 1 <= Places(tab)[w] /\ Places(tab)[w] < Cardinality(Due(tab))
    BY <1>2, <1>5
  <2>3. Cardinality(Due(tab)) <= Cardinality(Due(tab)) - 1
    BY <1>2, <1>3, <2>1, <2>2
  <2>. QED
    BY <1>2, <2>3
<1>. QED
  BY <1>4, <1>5

\* A claim takes no more watches than it may.
LEMMA ChosenFew ==
    ASSUME NEW tab \in [Watches -> WatchRow], NEW n \in Nat, WInv
    PROVE  LET chosen == Chosen(tab, n)
           IN  /\ chosen \in SUBSET Watches
               /\ chosen = {} \/ Cardinality(chosen) <= n - Cardinality(With(tab, "leased"))
<1> DEFINE room == Least(n - Cardinality(With(tab, "leased")), DAILY_BUDGET - Used)
           chosen == Chosen(tab, n)
<1>1. Due(tab) \in SUBSET Watches /\ With(tab, "leased") \in SUBSET Watches
  BY DEF Due, With
<1>2. Cardinality(With(tab, "leased")) \in Nat /\ Used \in Nat
  BY <1>1, WatchSetsFinite DEF WInv, Used
<1>3. room \in Int /\ room <= n - Cardinality(With(tab, "leased"))
  BY <1>2, Constants DEF Least
<1>4. \A w \in Due(tab) : Cardinality({v \in Due(tab) : DueBefore(tab, v, w)}) = Places(tab)[w]
  BY DEF Places
<1>5. chosen = {w \in Due(tab) : Places(tab)[w] < room}
  BY <1>4 DEF Chosen
<1>6. chosen \in SUBSET Watches
  BY <1>1, <1>5
<1>7. Cardinality(chosen) \in Nat
  BY <1>6, WatchSetsFinite
<1>8. chosen = {} \/ Cardinality(chosen) <= room
  <2> HIDE DEF room
  <2>. QED
    BY <1>3, <1>5, FirstPlaces
<1> HIDE DEF room, chosen
<1>9. chosen = {} \/ Cardinality(chosen) <= n - Cardinality(With(tab, "leased"))
  BY <1>2, <1>3, <1>7, <1>8
<1>. QED
  BY <1>6, <1>9 DEF chosen

\* A claim leases as many watches as the capacity has left.
LEMMA ClaimKeepsBound ==
    ASSUME WInv, LeaseBound, NEW n \in 1..CAPACITY, ListItems(n)
    PROVE  LeaseBound'
<1> DEFINE tab == Recovered(watches, now)
           chosen == Chosen(tab, n)
           before == With(tab, "leased")
           after == With(watches', "leased")
<1>1. watches' = [w \in Watches |-> IF w \in chosen THEN LeasedRow(tab[w]) ELSE tab[w]]
  BY DEF ListItems
<1>2. \A w \in Watches : Settles(watches[w], tab[w], 0)
  BY RecoveredSettles
<1>3. tab \in [Watches -> WatchRow]
  BY <1>2, RowTypes DEF Recovered
<1>4. n \in Nat /\ n <= CAPACITY /\ CAPACITY \in Nat
  BY Constants
<1>5. chosen \in SUBSET Watches /\ (chosen = {} \/ Cardinality(chosen) <= n - Cardinality(before))
  BY <1>3, <1>4, ChosenFew
<1> HIDE DEF tab, chosen
<1>6. before \in SUBSET With(watches, "leased")
  BY <1>2, <1>3 DEF With, Settles, WInv
<1>7. With(watches, "leased") \in SUBSET Watches /\ before \in SUBSET Watches
  BY <1>3 DEF With, WInv
<1>8. after \in SUBSET (before \cup chosen)
  BY <1>1, <1>3 DEF With
<1>9. /\ IsFiniteSet(before) /\ IsFiniteSet(chosen)
      /\ Cardinality(before) \in Nat /\ Cardinality(chosen) \in Nat
      /\ Cardinality(before \cap chosen) \in Nat
      /\ Cardinality(before \cup chosen) \in Nat
  BY <1>5, <1>7, WatchSetsFinite
<1>10. Cardinality(before \cup chosen) =
         Cardinality(before) + Cardinality(chosen) - Cardinality(before \cap chosen)
  BY <1>9, FS_Union
<1>11. before \cup chosen \in SUBSET Watches
  BY <1>5, <1>7
<1> HIDE DEF before, after
<1>12. Cardinality(after) <= Cardinality(before \cup chosen)
  BY <1>8, <1>11, FewerWatches
<1>13. Cardinality(after) \in Nat
  BY <1>8, <1>11, WatchSetsFinite
<1>14. CASE chosen = {}
  <2>1. after \in SUBSET With(watches, "leased")
    BY <1>6, <1>8, <1>14
  <2>2. Cardinality(after) <= Cardinality(With(watches, "leased"))
    BY <1>7, <2>1, FewerWatches
  <2>3. Cardinality(With(watches, "leased")) \in Nat
    BY <1>7, WatchSetsFinite
  <2>. QED
    BY <1>4, <1>13, <2>2, <2>3 DEF LeaseBound, after
<1>15. CASE Cardinality(chosen) <= n - Cardinality(before)
  <2>1. Cardinality(after) <= CAPACITY
    BY <1>4, <1>9, <1>10, <1>12, <1>13, <1>15
  <2>. QED
    BY <2>1 DEF LeaseBound, after
<1>. QED
  BY <1>5, <1>14, <1>15

\* No other step leases any, so the bound on leases holds throughout.
LEMMA LeaseBoundStep == WInv /\ LeaseBound /\ [Next]_vars => LeaseBound'
<1>1. ASSUME WInv, LeaseBound, Next
      PROVE  LeaseBound'
  <2>1. CASE \E n \in 1..CAPACITY : ListItems(n)
    BY <1>1, <2>1, ClaimKeepsBound
  <2>2. CASE \A w \in Watches : watches'[w].state = "leased" => watches[w].state = "leased"
    <3>1. watches' \in [Watches -> WatchRow] /\ watches \in [Watches -> WatchRow]
      BY <1>1, WInvStep DEF WInv
    <3>2. With(watches', "leased") \in SUBSET With(watches, "leased")
      BY <2>2, <3>1 DEF With
    <3>3. With(watches, "leased") \in SUBSET Watches
      BY <3>1 DEF With
    <3>4. Cardinality(With(watches', "leased")) <= Cardinality(With(watches, "leased"))
      BY <3>2, <3>3, FewerWatches
    <3>5. /\ Cardinality(With(watches', "leased")) \in Nat
          /\ Cardinality(With(watches, "leased")) \in Nat /\ CAPACITY \in Nat
      BY <3>2, <3>3, WatchSetsFinite, Constants
    <3>. QED
      BY <1>1, <3>4, <3>5 DEF LeaseBound
  <2>. QED
    BY <1>1, <2>1, <2>2, NextSteps DEF OnlyClaimsLease
<1>2. LeaseBound /\ UNCHANGED vars => LeaseBound'
  BY DEF LeaseBound, vars
<1>. QED
  BY <1>1, <1>2

\* At the start nothing is leased.
LEMMA LeaseBoundInit == Init => LeaseBound
<1>1. Init => With(watches, "leased") = {}
  BY DEF Init, With, NoWatch
<1>. QED
  BY <1>1, FS_EmptySet, Constants DEF LeaseBound

\* advanceAfterRun and claimDueEncryptedWatches: the runs of a watch are a cadence apart
\* and leases stay within the capacity, however long the pump was down.
THEOREM NoBurstEver == Spec => []NoBurst
<1>1. WInv /\ LeaseBound => NoBurst
  BY DEF WInv, LeaseBound, NoBurst, GoodWatch, Apart
<1>. QED
  BY <1>1, WInvariance, LeaseBoundInit, LeaseBoundStep, PTL DEF Spec

-----------------------------------------------------------------------------
(* Outcomes.                                                               *)

\* A job ends after its creation, and has no outcome before.
JobTrue(job) ==
    /\ job.state = "open" => job.created <= now /\ job.end = "none"
    /\ job.state = "ended" => job.created <= job.finished

\* A run is of the job's admission, and knows the outcome when the job is gone.
RunTrue(run, job) ==
    /\ job.state # "none"
    /\ job.state # "gone" => run.admitted = job.created /\ run.end \in {"none", job.end}
    /\ job.state = "gone" => run.end = job.end

HistoryTrue(runs, tab) ==
    \A i \in DOMAIN runs : runs[i].job \in Jobs => RunTrue(runs[i], tab[runs[i].job])

TruthInv ==
    /\ \A j \in Jobs : JobTrue(jobs[j])
    /\ \A w \in Watches : HistoryTrue(watches[w].runs, jobs)

\* The runs of a row are those it had, runs without a job, and one run more.
RunsKept(row, new, run) ==
    \A i \in DOMAIN new.runs :
        \/ new.runs[i].job = 0 \/ new.runs[i] = run
        \/ \E m \in DOMAIN row.runs : new.runs[i] = row.runs[m]

\* The runs of a deleted row are among those it had,
LEMMA NoWatchKept ==
    ASSUME NEW row, NEW run
    PROVE  RunsKept(row, NoWatch, run)
<1>1. DOMAIN NoWatch.runs = {}
  BY DEF NoWatch
<1>. QED
  BY <1>1 DEF RunsKept

\* and so are those that a purge leaves,
LEMMA PurgedKept ==
    ASSUME NEW t, NEW w \in Watches, NEW run
    PROVE  RunsKept(watches[w], Purged(watches, t)[w], run)
<1>1. RunsKept(watches[w], watches[w], run)
  BY DEF RunsKept
<1>. QED
  BY <1>1, NoWatchKept, PurgedRow

\* those of a row that took up a run, but for that run,
LEMMA AdvancedKept ==
    ASSUME NEW row \in WatchRow, NEW run
    PROVE  RunsKept(row, Advanced(row, now, run), run)
<1>1. Advanced(row, now, run).runs = Append(row.runs, run)
  BY DEF Advanced
<1>2. row.runs \in Seq(Run) /\ Len(row.runs) \in Nat /\ DOMAIN row.runs = 1..Len(row.runs)
  BY Columns
<1>3. /\ DOMAIN Append(row.runs, run) = 1..(Len(row.runs) + 1)
      /\ \A i \in 1..Len(row.runs) : Append(row.runs, run)[i] = row.runs[i]
      /\ Append(row.runs, run)[Len(row.runs) + 1] = run
  BY <1>2
<1>. QED
  BY <1>1, <1>2, <1>3 DEF RunsKept

\* and those of a row whose lease expired, but for a failed one.
LEMMA RecoveredKept ==
    ASSUME WInv, NEW w \in Watches, NEW run
    PROVE  RunsKept(watches[w], Recovered(watches, now)[w], run)
<1> DEFINE kept == Purged(watches, now)
<1>1. CASE kept[w].state = "leased" /\ kept[w].lease <= now
  <2>1. kept[w] = watches[w]
    BY <1>1, PurgedSettles
  <2>2. Recovered(watches, now)[w] = Advanced(watches[w], now, FailedRun(now))
    BY <1>1, <2>1 DEF Recovered
  <2>3. RunsKept(watches[w], Advanced(watches[w], now, FailedRun(now)), FailedRun(now))
    BY AdvancedKept DEF WInv
  <2>4. FailedRun(now).job = 0
    BY FailedRunIsRun DEF WInv
  <2>. QED
    BY <2>2, <2>3, <2>4 DEF RunsKept
<1>2. CASE ~ (kept[w].state = "leased" /\ kept[w].lease <= now)
  <2>1. Recovered(watches, now)[w] = kept[w]
    BY <1>2 DEF Recovered
  <2>. QED
    BY <2>1, PurgedKept
<1>. QED
  BY <1>1, <1>2

\* Every history keeps its runs, but for one run more of the job that the step admits.
LEMMA KeptStep ==
    ASSUME WInv, WInv', TruthInv, now' = now, NEW run,
           \A w \in Watches : RunsKept(watches[w], watches'[w], run),
           \A j \in Jobs : jobs[j].state # "none" => jobs'[j] = jobs[j],
           \A j \in Jobs : jobs[j].state = "none" => JobTrue(jobs'[j]),
           run.job \in Jobs => RunTrue(run, jobs'[run.job])
    PROVE  TruthInv'
<1>1. ASSUME NEW w \in Watches, NEW i \in DOMAIN watches'[w].runs,
             watches'[w].runs[i].job \in Jobs
      PROVE  RunTrue(watches'[w].runs[i], jobs'[watches'[w].runs[i].job])
  <2>1. watches'[w].runs[i].job # 0
    BY <1>1, Constants DEF Jobs
  <2>2. CASE watches'[w].runs[i] = run
    BY <1>1, <2>2
  <2>3. CASE \E m \in DOMAIN watches[w].runs : watches'[w].runs[i] = watches[w].runs[m]
    <3>1. RunTrue(watches'[w].runs[i], jobs[watches'[w].runs[i].job])
      BY <1>1, <2>3 DEF TruthInv, HistoryTrue
    <3>2. jobs'[watches'[w].runs[i].job] = jobs[watches'[w].runs[i].job]
      BY <1>1, <3>1 DEF RunTrue
    <3>. QED
      BY <3>1, <3>2
  <2>. QED
    BY <2>1, <2>2, <2>3 DEF RunsKept
<1>2. \A j \in Jobs : JobTrue(jobs'[j])
  BY DEF TruthInv
<1>. QED
  BY <1>1, <1>2 DEF TruthInv, HistoryTrue, JobTrue

\* A step that leaves jobs alone and keeps the runs.
LEMMA QuietTruth ==
    ASSUME WInv, WInv', TruthInv, now' = now, jobs' = jobs,
           \A w \in Watches : RunsKept(watches[w], watches'[w], FailedRun(now))
    PROVE  TruthInv'
<1>1. FailedRun(now).job \notin Jobs
  BY FailedRunIsRun, Constants DEF WInv, Jobs
<1>2. \A j \in Jobs : JobTrue(jobs[j])
  BY DEF TruthInv
<1>. QED
  BY <1>1, <1>2, KeptStep

\* The admissions: the job is new, and its run is of this admission.
LEMMA CreateTruth ==
    ASSUME WInv, WInv', TruthInv, NEW w \in Watches, NEW j \in Jobs, NEW created \in Nat,
           CreateWatch(w, j, created)
    PROVE  TruthInv'
<1> DEFINE run == AdmittedRun(j, created, created)
           kept == Purged(watches, created)
           new == [NoWatch EXCEPT !.state = "active", !.created = created,
                                  !.next = created + CADENCE, !.count = 1, !.runs = <<run>>]
<1>1. /\ jobs'[j] = [state |-> "open", created |-> created, finished |-> 0, end |-> "none"]
      /\ jobs[j].state = "none" /\ jobs' = [jobs EXCEPT ![j] = jobs'[j]]
  BY PreparedSound DEF CreateWatch, JobsSound, Prepared
<1>2. created <= now /\ now' = now
  BY DEF CreateWatch, WithinSkew
<1>3. RunTrue(run, jobs'[j]) /\ run.job = j
  BY <1>1 DEF RunTrue, AdmittedRun
<1>4. \A k \in Jobs : jobs[k].state # "none" => jobs'[k] = jobs[k]
  BY <1>1 DEF WInv
<1>5. \A k \in Jobs : jobs[k].state = "none" => JobTrue(jobs'[k])
  BY <1>1, <1>2 DEF TruthInv, JobTrue, WInv
<1>6. ASSUME NEW v \in Watches
      PROVE  RunsKept(watches[v], watches'[v], run)
  <2>1. watches' = [kept EXCEPT ![w] = new]
    BY DEF CreateWatch
  <2>2. kept = [u \in Watches |-> kept[u]]
    BY DEF Purged
  <2>3. new.runs = <<run>>
    BY DEF NoWatch
  <2> HIDE DEF new, kept, run
  <2>4. CASE v = w
    BY <2>1, <2>2, <2>3, <2>4 DEF RunsKept
  <2>5. CASE v # w
    <3>1. watches'[v] = kept[v]
      BY <2>1, <2>2, <2>5
    <3>. QED
      BY <3>1, PurgedKept DEF kept
  <2>. QED
    BY <2>4, <2>5
<1> HIDE DEF run, kept, new
<1>. QED
  BY <1>2, <1>3, <1>4, <1>5, <1>6, KeptStep

\* An attempt adds its run to the watch it was claimed for.
LEMMA AttemptKept ==
    ASSUME WInv, NEW c \in Claim, LeaseHolds(c), NEW run,
           watches' = [Purged(watches, now) EXCEPT ![c.watch] = Advanced(@, now, run)]
    PROVE  \A v \in Watches : RunsKept(watches[v], watches'[v], run)
<1> DEFINE kept == Purged(watches, now)
<1>1. c.watch \in Watches
  BY DEF Claim
<1>2. kept[c.watch] = watches[c.watch]
  BY <1>1, PurgedSettles DEF LeaseHolds
<1>3. kept = [v \in Watches |-> kept[v]]
  BY DEF Purged
<1>4. watches' = [kept EXCEPT ![c.watch] = Advanced(kept[c.watch], now, run)]
  OBVIOUS
<1>5. \A v \in Watches : RunsKept(watches[v], kept[v], run)
  BY PurgedKept
<1> HIDE DEF kept
<1>6. /\ watches'[c.watch] = Advanced(watches[c.watch], now, run)
      /\ \A v \in Watches : v # c.watch => watches'[v] = kept[v]
  BY <1>1, <1>2, <1>3, <1>4
<1>7. RunsKept(watches[c.watch], watches'[c.watch], run)
  BY <1>1, <1>6, AdvancedKept DEF WInv
<1>. QED
  BY <1>5, <1>6, <1>7

\* A run that is admitted is of the admission of its job, and knows no end yet.
LEMMA AdmitTruth ==
    ASSUME WInv, WInv', TruthInv, NEW c \in claims, NEW j \in Jobs, NEW created \in Nat,
           AdmitRun(c, j, created)
    PROVE  TruthInv'
<1> DEFINE run == AdmittedRun(j, created, now)
<1>1. /\ jobs'[j] = [state |-> "open", created |-> created, finished |-> 0, end |-> "none"]
      /\ jobs[j].state = "none" /\ jobs' = [jobs EXCEPT ![j] = jobs'[j]]
  BY PreparedSound DEF AdmitRun, JobsSound, Prepared
<1>2. created <= now /\ now' = now
  BY DEF AdmitRun, WithinSkew, Done
<1>3. RunTrue(run, jobs'[j]) /\ run.job = j
  BY <1>1 DEF RunTrue, AdmittedRun
<1>4. \A k \in Jobs : jobs[k].state # "none" => jobs'[k] = jobs[k]
  BY <1>1 DEF WInv
<1>5. \A k \in Jobs : jobs[k].state = "none" => JobTrue(jobs'[k])
  BY <1>1, <1>2 DEF TruthInv, JobTrue, WInv
<1>6. \A v \in Watches : RunsKept(watches[v], watches'[v], run)
  BY AttemptKept DEF AdmitRun, WInv
<1> HIDE DEF run
<1>. QED
  BY <1>2, <1>3, <1>4, <1>5, <1>6, KeptStep

\* A failed attempt says nothing of a job.
LEMMA FailTruth ==
    ASSUME WInv, WInv', TruthInv, NEW c \in claims, FailRun(c)
    PROVE  TruthInv'
<1>1. now' = now /\ jobs' = jobs
  BY DEF FailRun, Done
<1>2. CASE LeaseHolds(c)
  <2>1. watches' = [Purged(watches, now) EXCEPT ![c.watch] = Advanced(@, now, FailedRun(now))]
    BY <1>2 DEF FailRun
  <2>. QED
    BY <1>1, <1>2, <2>1, AttemptKept, QuietTruth DEF WInv
<1>3. CASE ~LeaseHolds(c)
  <2>1. \A w \in Watches : RunsKept(watches[w], watches'[w], FailedRun(now))
    BY <1>3 DEF FailRun, RunsKept
  <2>. QED
    BY <1>1, <2>1, QuietTruth
<1>. QED
  BY <1>2, <1>3

\* The steps on watches alone.
LEMMA DeletionTruth ==
    ASSUME WInv, WInv', TruthInv, NEW w \in Watches, ReadWatch(w) \/ DeleteWatch(w)
    PROVE  TruthInv'
<1>1. now' = now /\ jobs' = jobs
  BY DEF ReadWatch, DeleteWatch
<1>2. watches' = watches \/ watches' = [watches EXCEPT ![w] = NoWatch]
  BY DEF ReadWatch, DeleteWatch
<1>3. \A v \in Watches : watches'[v] = watches[v] \/ watches'[v] = NoWatch
  BY <1>2 DEF WInv
<1>4. \A v \in Watches : RunsKept(watches[v], watches[v], FailedRun(now))
  BY DEF RunsKept
<1>. QED
  BY <1>1, <1>3, <1>4, NoWatchKept, QuietTruth

\* Maintenance records failed attempts, which say nothing of a job.
LEMMA MaintainTruth ==
    ASSUME WInv, WInv', TruthInv, MaintainOnly
    PROVE  TruthInv'
BY RecoveredKept, QuietTruth DEF MaintainOnly

\* A claim changes no run.
LEMMA ListTruth ==
    ASSUME WInv, WInv', TruthInv, NEW n, ListItems(n)
    PROVE  TruthInv'
<1> DEFINE tab == Recovered(watches, now)
           chosen == Chosen(tab, n)
<1>1. /\ watches' = [w \in Watches |-> IF w \in chosen THEN LeasedRow(tab[w]) ELSE tab[w]]
      /\ now' = now /\ jobs' = jobs
  BY DEF ListItems
<1>2. \A w \in Watches : RunsKept(watches[w], tab[w], FailedRun(now))
  BY RecoveredKept
<1> HIDE DEF tab, chosen
<1>3. \A w \in Watches : watches'[w].runs = tab[w].runs
  BY <1>1 DEF LeasedRow
<1>4. \A w \in Watches : RunsKept(watches[w], watches'[w], FailedRun(now))
  BY <1>2, <1>3 DEF RunsKept
<1>. QED
  BY <1>1, <1>4, QuietTruth

\* A job that ends tells its runs, if they will hear it.
LEMMA EndJobTruth ==
    ASSUME WInv, WInv', TruthInv, NEW j \in Jobs, NEW end \in Ends, EndJob(j, end)
    PROVE  TruthInv'
<1>1. now' = now
  BY DEF EndJob
<1>2. /\ \A k \in Jobs : k # j => jobs'[k] = jobs[k]
      /\ jobs[j].state \in {"open", "ended"}
      /\ jobs'[j].state = "ended" /\ jobs'[j].end = end
      /\ jobs'[j].created = jobs[j].created
      /\ JobTrue(jobs'[j])
      /\ jobs[j].end \in {"none", end}
  <2>1. CASE jobs[j].state = "open"
    <3>1. jobs' = [jobs EXCEPT ![j] = Ended(jobs[j], end, now)]
      BY <2>1 DEF EndJob
    <3>2. jobs[j].created <= now /\ jobs[j].end = "none" /\ jobs[j] \in JobRow
      BY <2>1 DEF TruthInv, JobTrue, WInv
    <3>3. LET new == Ended(jobs[j], end, now)
          IN  new.state = "ended" /\ new.end = end /\ new.created = jobs[j].created /\ new.finished = now
      BY <3>2 DEF Ended, JobRow
    <3>. QED
      BY <2>1, <3>1, <3>2, <3>3 DEF WInv, JobTrue
  <2>2. CASE jobs[j].state # "open"
    BY <2>2 DEF EndJob, TruthInv, WInv
  <2>. QED
    BY <2>1, <2>2
<1>3. ASSUME NEW w \in Watches, NEW i \in DOMAIN watches'[w].runs,
             watches'[w].runs[i].job \in Jobs
      PROVE  RunTrue(watches'[w].runs[i], jobs'[watches'[w].runs[i].job])
  <2> DEFINE row == Purged(watches, now)[w]
             ended(run) == IF run.job = j THEN [run EXCEPT !.end = end] ELSE run
             runs == [m \in DOMAIN row.runs |-> ended(row.runs[m])]
  <2>1. row = watches[w] \/ row = NoWatch
    BY PurgedRow
  <2>2. row \in WatchRow
    BY <2>1, NoWatchGood DEF WInv, GoodWatch
  <2>3. Recorded(watches, j, end, now)[w] = [row EXCEPT !.runs = runs]
    BY DEF Recorded
  <2>4. watches'[w] = row \/ watches'[w] = [row EXCEPT !.runs = runs]
    BY <2>3 DEF EndJob, RecordedSafely
  <2> HIDE DEF ended, row
  <2>5. watches'[w].runs = row.runs \/ watches'[w].runs = runs
    BY <2>2, <2>4 DEF WatchRow
  <2>6. i \in DOMAIN row.runs /\ row.runs[i] \in Run
    BY <1>3, <2>2, <2>5, Columns
  <2>7. watches'[w].runs[i] = row.runs[i] \/ watches'[w].runs[i] = ended(row.runs[i])
    BY <2>5, <2>6
  <2>8. /\ ended(row.runs[i]).job = row.runs[i].job
        /\ ended(row.runs[i]).admitted = row.runs[i].admitted
        /\ row.runs[i].job = j => ended(row.runs[i]).end = end
        /\ row.runs[i].job # j => ended(row.runs[i]) = row.runs[i]
    BY <2>6 DEF ended, Run
  <2>9. row.runs[i].job \in Jobs
    BY <1>3, <2>7, <2>8
  <2>10. RunTrue(row.runs[i], jobs[row.runs[i].job])
    <3>1. row = watches[w]
      BY <2>1, <2>6 DEF NoWatch
    <3>. QED
      BY <2>6, <2>9, <3>1 DEF TruthInv, HistoryTrue
  <2>11. CASE row.runs[i].job = j
    BY <1>2, <2>7, <2>8, <2>10, <2>11 DEF RunTrue
  <2>12. CASE row.runs[i].job # j
    BY <1>2, <2>7, <2>8, <2>9, <2>10, <2>12
  <2>. QED
    BY <2>11, <2>12
<1>4. \A k \in Jobs : JobTrue(jobs'[k])
  BY <1>2 DEF TruthInv
<1>. QED
  BY <1>1, <1>3, <1>4 DEF TruthInv, HistoryTrue, JobTrue

\* What the pass does to one job, and what a turn may do to it after.
LEMMA PassOnJob ==
    ASSUME WInv, TruthInv, NEW j \in Jobs
    PROVE  LET mid == SettledJobs[j]
               new == PurgedJobs(SettledJobs)[j]
           IN  /\ mid \in JobRow /\ JobTrue(mid)
               /\ mid = jobs[j] \/ (/\ jobs[j].state = "open" /\ mid.state = "ended"
                                    /\ mid.created = jobs[j].created)
               /\ JobTrue(new)
               /\ new = mid \/ (mid.state = "ended" /\ new.state = "gone" /\ new.end = mid.end)
<1> DEFINE mid == SettledJobs[j]
           new == PurgedJobs(SettledJobs)[j]
<1>1. jobs[j] \in JobRow /\ JobTrue(jobs[j])
  BY DEF WInv, TruthInv
<1>2. mid = IF jobs[j].state = "open" /\ jobs[j].created + PURGE <= now
            THEN Ended(jobs[j], "deadline", now) ELSE jobs[j]
  BY DEF SettledJobs
<1>3. LET ended == Ended(jobs[j], "deadline", now)
      IN  /\ ended \in JobRow /\ ended.state = "ended" /\ ended.created = jobs[j].created
          /\ ended.finished = now
  BY <1>1 DEF Ended, JobRow, WInv, Ends
<1>4. mid \in JobRow
  BY <1>1, <1>2, <1>3
<1>5. JobTrue(mid) /\ (mid = jobs[j] \/ (/\ jobs[j].state = "open" /\ mid.state = "ended"
                                         /\ mid.created = jobs[j].created))
  BY <1>1, <1>2, <1>3 DEF JobTrue
<1>6. new = IF mid.state = "ended" /\ mid.created + PURGE <= now
            THEN [state |-> "gone", created |-> 0, finished |-> 0, end |-> mid.end] ELSE mid
  BY DEF PurgedJobs
<1> HIDE DEF mid, new
<1>7. JobTrue(new) /\ (new = mid \/ (mid.state = "ended" /\ new.state = "gone" /\ new.end = mid.end))
  BY <1>5, <1>6 DEF JobTrue
<1>. QED
  BY <1>4, <1>5, <1>7 DEF mid, new

\* After the pass every history is true to the jobs that it leaves.
LEMMA PassTruth ==
    ASSUME WInv, TruthInv, NEW w \in Watches
    PROVE  HistoryTrue(Synchronized[w].runs, PurgedJobs(SettledJobs))
<1> DEFINE tab == SettledJobs
           copied == ToCopy(tab)
           gone(row) == \E j \in copied : ExpiresAt(row) <= tab[j].finished
           told(run) == IF run.job \in copied THEN [run EXCEPT !.end = tab[run.job].end] ELSE run
           row == watches[w]
           runs == [i \in DOMAIN row.runs |-> told(row.runs[i])]
           after == PurgedJobs(tab)
<1>1. Synchronized[w] = IF row.state # "none" /\ gone(row) THEN NoWatch
                        ELSE [row EXCEPT !.runs = runs]
  BY DEF Synchronized
<1>2. row \in WatchRow
  BY DEF WInv
<1>3. ASSUME NEW i \in DOMAIN row.runs, row.runs[i].job \in Jobs
      PROVE  RunTrue(told(row.runs[i]), after[row.runs[i].job])
  <2> DEFINE run == row.runs[i]
             j == row.runs[i].job
  <2>1. run \in Run /\ run \in RunsOf(row)
    BY <1>2, <1>3, Columns DEF RunsOf
  <2>2. RunTrue(run, jobs[j])
    BY <1>3 DEF TruthInv, HistoryTrue
  <2>3. /\ tab[j] = jobs[j] \/ (/\ jobs[j].state = "open" /\ tab[j].state = "ended"
                                /\ tab[j].created = jobs[j].created)
        /\ after[j] = tab[j] \/ (/\ tab[j].state = "ended" /\ after[j].state = "gone"
                                 /\ after[j].end = tab[j].end)
    BY <1>3, PassOnJob
  <2>4. tab[j].state = "ended" <=> j \in copied
    BY <1>3, <2>1, SettledJobsType DEF ToCopy, With
  <2>5. /\ told(run).admitted = run.admitted
        /\ j \in copied => told(run).end = tab[j].end
        /\ j \notin copied => told(run) = run
    BY <2>1 DEF Run
  <2>6. (tab[j].state = "ended" => told(run).end = tab[j].end) /\ (tab[j].state # "ended" => told(run) = run)
    BY <2>4, <2>5
  <2> HIDE DEF told, copied, tab, after
  <2>. QED
    BY <2>2, <2>3, <2>5, <2>6 DEF RunTrue
<1>4. \A i \in DOMAIN row.runs : told(row.runs[i]).job = row.runs[i].job
  BY <1>2, Columns DEF Run
<1> HIDE DEF told, gone, copied, after, tab
<1>5. HistoryTrue(runs, after)
  BY <1>3, <1>4 DEF HistoryTrue
<1>6. [row EXCEPT !.runs = runs].runs = runs
  BY <1>2 DEF WatchRow
<1>7. HistoryTrue(NoWatch.runs, after)
  BY DEF HistoryTrue, NoWatch
<1>. QED
  BY <1>1, <1>5, <1>6, <1>7 DEF after, tab

\* A pass copies outcomes before it deletes jobs, so what runs know stays true.
LEMMA RetentionTruth ==
    ASSUME WInv, TruthInv, RetentionPass
    PROVE  TruthInv'
<1> DEFINE tab == PurgedJobs(SettledJobs)
<1>1. jobs' = tab /\ watches' = Synchronized /\ now' = now
  BY DEF RetentionPass
<1>2. (\A j \in Jobs : JobTrue(tab[j])) /\ \A w \in Watches : HistoryTrue(watches'[w].runs, tab)
  BY <1>1, PassOnJob, PassTruth
<1> HIDE DEF tab
<1>3. \A j \in Jobs : JobTrue(jobs'[j])
  BY <1>1, <1>2
<1>4. \A j \in Jobs : JobTrue(jobs[j])'
  BY <1>1, <1>3 DEF JobTrue
<1>5. \A w \in Watches : HistoryTrue(watches[w].runs, jobs)'
  BY <1>1, <1>2 DEF HistoryTrue, RunTrue
<1>. QED
  BY <1>4, <1>5 DEF TruthInv

\* So does a turn that settles jobs right after the pass.
LEMMA StartTurnTruth ==
    ASSUME WInv, TruthInv, NEW done, StartTurn(done)
    PROVE  TruthInv'
<1> DEFINE tab == PurgedJobs(SettledJobs)
<1>1. /\ jobs' = [j \in Jobs |-> IF j \in done THEN Ended(tab[j], "deadline", now) ELSE tab[j]]
      /\ watches' = Synchronized /\ now' = now
  BY DEF StartTurn
<1>2. ASSUME NEW j \in done
      PROVE  j \in Jobs /\ tab[j] = jobs[j] /\ jobs[j].state = "open" /\ jobs[j] \in JobRow
  <2>1. j \in Jobs /\ SettledJobs[j].state = "open"
    BY SettledJobsType DEF StartTurn, With
  <2>. QED
    BY <2>1, PassOnJob
<1>3. \A j \in Jobs : JobTrue(tab[j])
  BY PassOnJob
<1>4. \A w \in Watches : HistoryTrue(watches'[w].runs, tab)
  BY <1>1, PassTruth
<1> HIDE DEF tab
<1>5. ASSUME NEW j \in done
      PROVE  /\ jobs'[j].state = "ended" /\ jobs'[j].created = tab[j].created
             /\ jobs'[j].finished = now /\ tab[j].created <= now /\ tab[j].end = "none"
             /\ tab[j].state = "open"
  <2>1. j \in Jobs /\ tab[j] = jobs[j] /\ jobs[j].state = "open" /\ jobs[j] \in JobRow
    BY <1>2, <1>5
  <2>2. jobs[j].created <= now /\ jobs[j].end = "none"
    BY <2>1 DEF TruthInv, JobTrue
  <2>3. jobs'[j] = Ended(jobs[j], "deadline", now)
    BY <1>1, <1>5, <2>1
  <2>. QED
    BY <2>1, <2>2, <2>3 DEF Ended, JobRow
<1>6. \A j \in Jobs : j \notin done => jobs'[j] = tab[j]
  BY <1>1
<1>7. \A j \in Jobs : JobTrue(jobs'[j])
  BY <1>3, <1>5, <1>6 DEF JobTrue
<1>8. ASSUME NEW j \in Jobs, NEW run, RunTrue(run, tab[j])
      PROVE  RunTrue(run, jobs'[j])
  BY <1>5, <1>6, <1>8 DEF RunTrue
<1>. QED
  BY <1>1, <1>4, <1>7, <1>8 DEF TruthInv, JobTrue, HistoryTrue

\* Every step keeps the histories true to the jobs.
LEMMA TruthStep == WInv /\ WInv' /\ TruthInv /\ [Next]_vars => TruthInv'
<1>1. ASSUME WInv, WInv', TruthInv, Next
      PROVE  TruthInv'
  <2>1. ASSUME NEW w \in Watches, NEW j \in Jobs, NEW t \in Moments, CreateWatch(w, j, t)
        PROVE  TruthInv'
    BY <1>1, <2>1, CreateTruth DEF Moments
  <2>2. ASSUME NEW c \in claims, NEW j \in Jobs, NEW t \in Moments, AdmitRun(c, j, t)
        PROVE  TruthInv'
    BY <1>1, <2>2, AdmitTruth DEF Moments
  <2>3. ASSUME NEW w \in Watches, ReadWatch(w) \/ DeleteWatch(w)
        PROVE  TruthInv'
    BY <1>1, <2>3, DeletionTruth
  <2>4. ASSUME NEW j \in Jobs, NEW end \in {"succeeded", "cancelled"}, EndJob(j, end)
        PROVE  TruthInv'
    BY <1>1, <2>4, EndJobTruth DEF Ends
  <2>5. ASSUME NEW done, StartTurn(done)
        PROVE  TruthInv'
    BY <1>1, <2>5, StartTurnTruth
  <2>6. ASSUME NEW n, ListItems(n)
        PROVE  TruthInv'
    BY <1>1, <2>6, ListTruth
  <2>7. ASSUME NEW c \in claims, FailRun(c)
        PROVE  TruthInv'
    BY <1>1, <2>7, FailTruth
  <2>8. CASE RetentionPass
    BY <1>1, <2>8, RetentionTruth
  <2>9. CASE MaintainOnly
    BY <1>1, <2>9, MaintainTruth
  <2>10. CASE AbandonTurn \/ Tick
    <3>1. watches' = watches /\ jobs' = jobs /\ now' \in {now, now + 1}
      BY <2>10 DEF AbandonTurn, Tick
    <3>2. \A j \in Jobs : jobs[j].state = "open" => jobs[j].created <= now'
      <4>1. \A j \in Jobs : jobs[j].created \in Nat
        BY <1>1 DEF WInv, JobRow
      <4>. QED
        BY <1>1, <3>1, <4>1 DEF TruthInv, JobTrue, WInv
    <3>. QED
      BY <1>1, <3>1, <3>2 DEF TruthInv, JobTrue, HistoryTrue
  <2>. QED
    BY <1>1, <2>1, <2>2, <2>3, <2>4, <2>5, <2>6, <2>7, <2>8, <2>9, <2>10 DEF Next
<1>2. TruthInv /\ UNCHANGED vars => TruthInv'
  BY DEF TruthInv, vars, JobTrue, HistoryTrue
<1>. QED
  BY <1>1, <1>2

\* At the start there is nothing to be true to.
LEMMA TruthInit == Init => TruthInv
BY DEF Init, TruthInv, NoJob, NoWatch, JobTrue, HistoryTrue

\* Histories that are true to the jobs tell the outcome of those that are gone.
LEMMA TruthIsTold ==
    ASSUME WInv, TruthInv
    PROVE  TruthOutlivesJob
<1>1. ASSUME NEW w \in Watches, NEW r \in RunsOf(watches[w]), r.job \in Jobs
      PROVE  RunTrue(r, jobs[r.job])
  BY <1>1 DEF TruthInv, HistoryTrue, RunsOf
<1>2. ASSUME NEW w \in Watches, NEW r \in RunsOf(watches[w])
      PROVE  r \in Run
  BY <1>2, Columns DEF WInv, RunsOf
<1>3. ASSUME RetentionRefused
      PROVE  FALSE
  <2>1. PICK j \in With(SettledJobs, "ended") :
               RecordRefused(watches, j, SettledJobs[j].end, SettledJobs[j].finished)
    BY <1>3 DEF RetentionRefused
  <2>2. PICK w \in Watches : \E r \in RunsOf(watches[w]) :
               /\ r.job = j
               /\ r.admitted > SettledJobs[j].finished \/ r.end \notin {"none", SettledJobs[j].end}
    BY <2>1 DEF RecordRefused
  <2>0. PICK r \in RunsOf(watches[w]) :
               /\ r.job = j
               /\ r.admitted > SettledJobs[j].finished \/ r.end \notin {"none", SettledJobs[j].end}
    BY <2>2
  <2>3. j \in Jobs /\ SettledJobs[j].state = "ended"
    BY <2>1, SettledJobsType DEF With
  <2>4. /\ SettledJobs[j] \in JobRow /\ JobTrue(SettledJobs[j])
        /\ \/ SettledJobs[j] = jobs[j]
           \/ /\ jobs[j].state = "open" /\ SettledJobs[j].created = jobs[j].created
    BY <2>3, PassOnJob
  <2>5. RunTrue(r, jobs[j]) /\ jobs[j].state # "gone"
    BY <1>1, <2>0, <2>3, <2>4
  <2>6. jobs[j].state = "open" => jobs[j].end = "none"
    BY <2>3 DEF TruthInv, JobTrue
  <2>7. r.admitted = SettledJobs[j].created /\ r.end \in {"none", SettledJobs[j].end}
    BY <2>4, <2>5, <2>6 DEF RunTrue
  <2>8. SettledJobs[j].created <= SettledJobs[j].finished
    BY <2>3, <2>4 DEF JobTrue
  <2>9. SettledJobs[j].created \in Nat /\ SettledJobs[j].finished \in Nat
    BY <2>4 DEF JobRow
  <2>. QED
    BY <2>0, <2>7, <2>8, <2>9
<1>4. \A j \in With(jobs, "gone") : j \in Jobs /\ jobs[j].state = "gone"
  BY DEF With, WInv
<1>. QED
  BY <1>1, <1>3, <1>4 DEF TruthOutlivesJob, RunTrue

\* settleSynchronizeAndPurgeDurableScanJobs: when the row of a job is deleted, the history
\* of its watch has its outcome, and no history ever refuses one.
THEOREM OutcomesOutliveJobs == Spec => []TruthOutlivesJob
<1>1. WInv /\ TruthInv => TruthOutlivesJob
  BY TruthIsTold
<1>. QED
  BY <1>1, WInvariance, TruthInit, TruthStep, PTL DEF Spec

-----------------------------------------------------------------------------
(* Wakes.                                                                  *)

\* A row that recovery and purge leave as it is needed neither.
LEMMA RecoveredAlternatives ==
    ASSUME WInv, NEW w \in Watches
    PROVE  LET row == watches[w]
               new == Recovered(watches, now)[w]
           IN  /\ \/ new = row \/ new = NoWatch
                  \/ new = Advanced(row, now, FailedRun(now)) /\ row.state = "leased"
               /\ new = row /\ row.state # "none" => ExpiresAt(row) > now
               /\ new = row /\ row.state = "leased" => row.lease > now
<1> DEFINE row == watches[w]
           kept == Purged(watches, now)
           new == Recovered(watches, now)[w]
<1>1. /\ row \in WatchRow /\ row.created \in Nat /\ row.lease \in Nat /\ now \in Nat
      /\ ExpiresAt(row) \in Nat
  BY Columns, Constants DEF WInv, ExpiresAt
<1>2. kept[w] = IF row.state # "none" /\ ExpiresAt(row) <= now THEN NoWatch ELSE row
  BY DEF Purged
<1>3. new = IF kept[w].state = "leased" /\ kept[w].lease <= now
            THEN Advanced(kept[w], now, FailedRun(now)) ELSE kept[w]
  BY DEF Recovered
<1>4. NoWatch.state = "none" /\ Advanced(row, now, FailedRun(now)).state # "leased"
  BY DEF NoWatch, Advanced
<1> HIDE DEF row, kept, new
<1>5. /\ \/ new = row \/ new = NoWatch
         \/ new = Advanced(row, now, FailedRun(now)) /\ row.state = "leased"
      /\ new = row /\ row.state # "none" => ExpiresAt(row) > now
      /\ new = row /\ row.state = "leased" => row.lease > now
  <2>1. CASE row.state # "none" /\ ExpiresAt(row) <= now
    BY <1>2, <1>3, <1>4, <2>1
  <2>2. CASE ~ (row.state # "none" /\ ExpiresAt(row) <= now)
    BY <1>1, <1>2, <1>3, <1>4, <2>2
  <2>. QED
    BY <2>1, <2>2
<1>. QED
  BY <1>5 DEF row, new

\* If watches are due and there is room for one, one is chosen.
LEMMA SomeChosen ==
    ASSUME WInv, NEW tab \in [Watches -> WatchRow], NEW n \in Nat, Due(tab) # {},
           Cardinality(With(tab, "leased")) < n, Used < DAILY_BUDGET
    PROVE  Chosen(tab, n) # {}
<1>1. Due(tab) \in SUBSET Watches /\ With(tab, "leased") \in SUBSET Watches
  BY DEF Due, With
<1>2. PICK w \in Due(tab) : Places(tab)[w] = 0
  BY FirstPlaces
<1>3. Cardinality({v \in Due(tab) : DueBefore(tab, v, w)}) = 0
  BY <1>2 DEF Places
<1>4. Cardinality(With(tab, "leased")) \in Nat /\ Used \in Nat /\ DAILY_BUDGET \in Nat
  BY <1>1, WatchSetsFinite, Constants DEF WInv, Used
<1>5. 0 < Least(n - Cardinality(With(tab, "leased")), DAILY_BUDGET - Used)
  BY <1>4 DEF Least
<1>. QED
  BY <1>3, <1>4, <1>5 DEF Chosen

\* A claim that finds room takes the first watch that is due.
LEMMA WakeIsUsed ==
    ASSUME WInv, NEW n \in 1..CAPACITY, ListItems(n), WakeIsDue,
           Cardinality(With(watches, "leased")) < n
    PROVE  watches' # watches
<1> SUFFICES ASSUME watches' = watches
             PROVE  FALSE
  OBVIOUS
<1> DEFINE tab == Recovered(watches, now)
           chosen == Chosen(tab, n)
<1>1. \A w \in Watches : watches[w] = IF w \in chosen THEN LeasedRow(tab[w]) ELSE tab[w]
  BY DEF ListItems
<1>2. \A w \in chosen : w \in Watches /\ tab[w].state = "active"
  BY DEF Chosen, Due, With, Recovered
<1>3. ASSUME NEW w \in chosen
      PROVE  FALSE
  <2>1. watches[w] = LeasedRow(tab[w]) /\ tab[w].state = "active" /\ w \in Watches
    BY <1>1, <1>2, <1>3
  <2>2. watches[w].state = "leased" /\ watches[w].runs = tab[w].runs
    BY <2>1 DEF LeasedRow
  <2>3. tab[w] = Advanced(watches[w], now, FailedRun(now))
    BY <2>1, <2>2, RecoveredAlternatives DEF NoWatch
  <2>4. tab[w].runs = Append(watches[w].runs, FailedRun(now))
    BY <2>3 DEF Advanced
  <2>5. watches[w].runs \in Seq(Run) /\ FailedRun(now) \in Run
    BY <2>1, Columns, FailedRunIsRun DEF WInv
  <2>6. Len(Append(watches[w].runs, FailedRun(now))) = Len(watches[w].runs) + 1
        /\ Len(watches[w].runs) \in Nat
    BY <2>5
  <2>. QED
    BY <2>2, <2>4, <2>6
<1>4. chosen = {} /\ \A w \in Watches : tab[w] = watches[w]
  BY <1>1, <1>3
<1>5. tab = watches
  BY <1>4 DEF Recovered, WInv
<1>6. PICK w \in Watches :
         \/ watches[w].state = "active" /\ watches[w].next <= now /\ Used < DAILY_BUDGET
         \/ watches[w].state = "leased" /\ watches[w].lease <= now
         \/ Present(w) /\ ExpiresAt(watches[w]) <= now
  BY DEF WakeIsDue
<1>7. /\ watches[w].state # "none" => ExpiresAt(watches[w]) > now
      /\ watches[w].state = "leased" => watches[w].lease > now
  BY <1>4, RecoveredAlternatives
<1>8. watches[w] \in WatchRow /\ now \in Nat /\ ExpiresAt(watches[w]) \in Nat
      /\ watches[w].lease \in Nat
  BY Columns, Constants DEF WInv, ExpiresAt
<1>9. watches[w].state = "active" /\ watches[w].next <= now /\ Used < DAILY_BUDGET
  BY <1>6, <1>7, <1>8 DEF Present
<1>10. Due(watches) # {} /\ watches \in [Watches -> WatchRow] /\ n \in Nat
  BY <1>9, Constants DEF Due, With, WInv
<1>11. Chosen(watches, n) # {}
  BY <1>9, <1>10, SomeChosen
<1>. QED
  BY <1>4, <1>5, <1>11

\* nextEncryptedWatchWakeAt and claimDueEncryptedWatches: a turn that the watches asked
\* for finds something to do for them, if the leases leave it room.
THEOREM WakesAreUsed == Spec => NoIdleWake
<1>1. WInv => [\A n \in 1..CAPACITY :
                 ListItems(n) /\ WakeIsDue /\ Cardinality(With(watches, "leased")) < n
                   => watches' # watches]_vars
  BY WakeIsUsed
<1>. QED
  BY <1>1, WInvariance, PTL DEF NoIdleWake

=============================================================================
