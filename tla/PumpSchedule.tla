---------------------------- MODULE PumpSchedule ----------------------------
(***************************************************************************)
(* How the coordinator's pump is woken: the rows of container_schedules    *)
(* whose callback is pumpDurableScanJobs, the driver row that names the    *)
(* epoch in force, and the handlers that write them.                       *)
(*                                                                         *)
(* A schedule row is one-shot: the Container base class calls back when it *)
(* is due and deletes it afterwards, whatever happened.  So a turn has to  *)
(* leave a successor behind, at every point at which the Durable Object    *)
(* may stop, and public handlers that rewrite the schedule meanwhile must  *)
(* not take a wake away from work that was accepted.                       *)
(*                                                                         *)
(* Every handler is cut at its awaits.  Time is relative: a row holds the  *)
(* whole seconds until it is due, a boundary the ticks until it is due, so *)
(* that the model has no horizon.                                          *)
(***************************************************************************)
EXTENDS Integers, FiniteSets, Sequences, FiniteSetsExt, SequencesExt

CONSTANTS
    SECOND,         \* ticks in a second; schedule rows hold whole seconds
    PARK,           \* ticks between two wakes of a disabled pump
    MAX_BOUND,      \* the farthest boundary a stored row has, in ticks
    MAX_ROW_ID,     \* bound on the row ids in use at once
    MAX_TROUBLE,    \* bound on restarts and failed writes
    MAX_REARMS      \* bound on re-arms of public handlers under way

ASSUME TicksAssumption ==
    /\ SECOND \in Nat \ {0}
    /\ PARK \in Nat /\ PARK >= SECOND
    /\ MAX_BOUND \in Nat \ {0}
    /\ MAX_ROW_ID \in Nat \ {0}
    /\ MAX_TROUBLE \in Nat /\ MAX_REARMS \in Nat

VARIABLES
    phase,      \* ticks since the current second began
    rows,       \* the schedule rows of the pump
    driver,     \* the row the driver table names, 0 if it is empty
    prearm,     \* durablePumpPrearmTaskId, in memory, 0 for null
    pump,       \* the alarm handler and the callback it runs
    batch,      \* the due rows the alarm handler has still to call back
    awaits,     \* the storage awaits under way, in the order they began
    enabled,    \* whether the instance runs with durable jobs configured
    queued,     \* some job is queued
    full,       \* the active jobs take all of the capacity
    bound,      \* ticks until the earliest boundary of a stored job
    accepted,   \* a job was accepted into free capacity and is still to be dispatched
    unarmed,    \* a public handler failed to re-arm since the last callback
    trouble     \* restarts and failed writes so far

schedule == <<rows, driver, prearm>>
jobs == <<queued, full, bound, accepted, unarmed>>
vars == <<phase, rows, driver, prearm, pump, batch, awaits, enabled,
          queued, full, bound, accepted, unarmed, trouble>>

FOREVER == MAX_BOUND + 1
Stored == bound # FOREVER

\* A row is payload-free (raw) or carries the epoch that is its own id: an epoch
\* and its task are created, published and deleted together.
RowIds == 1 .. MAX_ROW_ID

Awaiting == {awaits[i].id : i \in DOMAIN awaits}
UsedIds == {r.id : r \in rows \cup batch} \cup Awaiting \cup {driver, prearm, pump.cur}
FreeId == RowIds \ UsedIds # {}
NewId == Min(RowIds \ UsedIds)

RawRows == {r \in rows : r.raw}
EpochRows == rows \ RawRows
Without(set, id) == {r \in set : r.id # id}
Live(r) == r.raw \/ r.id = driver

\* Ticks until a row is due, and the whole seconds of a time so many ticks ahead.
TicksOf(r) == Max({0, r.sec * SECOND - phase})
SecondsOf(ticks) == (phase + ticks) \div SECOND
SoonSecond == SecondsOf(SECOND)

Earliest(set) == {r \in set : \A o \in set : r.sec <= o.sec}

-----------------------------------------------------------------------------
Idle == [pc |-> "idle", cur |-> 0, retried |-> FALSE]

Init ==
    /\ phase = 0 /\ rows = {} /\ driver = 0 /\ prearm = 0
    /\ pump = Idle /\ batch = {} /\ awaits = <<>>
    /\ enabled = TRUE /\ queued = FALSE /\ full = FALSE /\ bound = FOREVER
    /\ accepted = FALSE /\ unarmed = FALSE /\ trouble = 0

\* A storage await.  The storage confirms writes in the order they were made, so
\* awaits end in that order, and nothing else is delivered meanwhile: the input
\* gate of a Durable Object is closed while it waits for its storage.
Await(by, id, sec) ==
    awaits' = Append(awaits, [by |-> by, id |-> id, sec |-> sec])
Confirmed(by) == awaits # <<>> /\ Head(awaits).by = by
Open == awaits = <<>>

Fails == trouble < MAX_TROUBLE /\ trouble' = trouble + 1
Works == UNCHANGED trouble

-----------------------------------------------------------------------------
(***************************************************************************)
(* The writes shared by the handlers.                                      *)
(***************************************************************************)

\* persistImmediateDurablePumpFallbackSchedule: one raw row replaces every row.
PersistFallback ==
    /\ FreeId
    /\ rows' = {[id |-> NewId, raw |-> TRUE, sec |-> SecondsOf(0) + 1]}
    /\ driver' = 0
    /\ prearm' = NewId

\* Container.schedule() inserts, then writes the alarm.
InsertRow(raw, sec) ==
    /\ FreeId
    /\ rows' = rows \cup {[id |-> NewId, raw |-> raw, sec |-> sec]}
    /\ UNCHANGED <<driver, prearm>>

\* The publication of an epoch row: older epoch rows and one more row go.
Publish(id, old) ==
    /\ driver' = id
    /\ rows' = {r \in rows : (r.raw \/ r.id = id) /\ (r.id = old => r.id = id)}

\* discardDurablePumpPrearmSchedule
PrearmDiscarded ==
    /\ driver' = IF driver = prearm THEN 0 ELSE driver
    /\ rows' = Without(rows, prearm)
    /\ prearm' = 0

\* The wake that stored jobs ask for, in ticks from now; FOREVER if none is stored.
WakeOf(someQueued, capacityFull, boundary) ==
    IF someQueued /\ ~capacityFull THEN 0 ELSE boundary
Wake == WakeOf(queued, full, bound)

Target(wake) == Max({wake, SECOND})

\* Faulty: relies on the very row that is discarded next.
ReusablePrearm(target) == {r \in rows : Live(r) /\ r.sec * SECOND - phase <= target}

Reusable(target) ==
    {r \in rows : Live(r) /\ r.id # prearm /\ r.sec * SECOND - phase <= target}

\* Faulty: returns early and leaves the one-second successor of the turn behind.
NothingToDiscard == UNCHANGED schedule

\* scheduleNextDurablePump with nothing stored: admission wakes stay.
NothingToSchedule ==
    /\ driver' = 0
    /\ rows' = Without(RawRows, prearm)
    /\ prearm' = 0

\* ... with a wake that another live row already provides.
Reuse(r, wake) ==
    /\ wake # FOREVER
    /\ r \in Earliest(Reusable(Target(wake)))
    /\ PrearmDiscarded

\* ... and otherwise: a new epoch row is inserted, to be published after the await.
ScheduleEpoch(wake) ==
    /\ wake # FOREVER
    /\ Reusable(Target(wake)) = {}
    /\ InsertRow(FALSE, SecondsOf(Target(wake)))

\* After the await.  A candidate that was compacted meanwhile is not published;
\* prearm is read only now.
PublishScheduled(id) ==
    IF \E r \in rows : r.id = id
      THEN /\ Publish(id, prearm)
           /\ prearm' = IF prearm = id THEN id ELSE 0
      ELSE UNCHANGED schedule

-----------------------------------------------------------------------------
(***************************************************************************)
(* The alarm handler of the base class and the callback it makes.          *)
(***************************************************************************)
At(pc) == pump' = [pump EXCEPT !.pc = pc]
Rest == Tail(awaits)
ToAwait(rest, by, id, sec) == awaits' = Append(rest, [by |-> by, id |-> id, sec |-> sec])

AlarmScan ==
    /\ Open /\ pump = Idle
    /\ batch' = {r \in rows : r.sec = 0}
    /\ batch' # {}
    /\ At("scan")
    /\ UNCHANGED <<phase, schedule, awaits, enabled, jobs, trouble>>

\* A row whose epoch is not the driver's is consumed without a turn.
SkipStale(r) ==
    /\ pump.pc = "scan" /\ r \in batch
    /\ ~Live(r)
    /\ rows' = Without(rows, r.id)
    /\ batch' = batch \ {r}
    /\ pump' = IF batch' = {} THEN Idle ELSE pump
    /\ UNCHANGED <<phase, driver, prearm, awaits, enabled, jobs, trouble>>

\* Callback entry: the successor is inserted, or the fallback if that fails.
StartCallback(r) ==
    /\ pump.pc = "scan" /\ r \in batch
    /\ Live(r)
    /\ batch' = batch \ {r}
    /\ pump' = [pc |-> "await", cur |-> r.id, retried |-> FALSE]
    /\ \/ Works /\ InsertRow(FALSE, SoonSecond) /\ Await("prearm", NewId, SoonSecond)
       \/ Fails /\ PersistFallback /\ Await("prearmKick", 0, 0)
    /\ UNCHANGED <<phase, enabled, jobs>>

FinishPrearm ==
    /\ Confirmed("prearm")
    /\ LET id == Head(awaits).id
           found == \E r \in rows : r.id = id
       IN \/ /\ found /\ Works
             /\ Publish(id, pump.cur)
             /\ prearm' = id
             /\ awaits' = Rest /\ At("turn")
          \/ /\ IF found THEN Fails ELSE Works
             /\ PersistFallback
             /\ ToAwait(Rest, "prearmKick", 0, 0)
             /\ UNCHANGED pump
    /\ unarmed' = FALSE
    /\ UNCHANGED <<phase, batch, enabled, queued, full, bound, accepted>>

FinishPrearmKick ==
    /\ Confirmed("prearmKick")
    /\ awaits' = Rest /\ At("turn")
    /\ UNCHANGED <<phase, schedule, batch, enabled, jobs, trouble>>

\* What a turn does to the jobs: expired rows are settled, queued ones claimed as
\* far as the capacity goes; only a claim makes a boundary, its lease, that is
\* nearer than those before.  A turn may also fail to do any of it.
TurnWork ==
    /\ Open /\ pump.pc = "turn" /\ Stored
    /\ queued' \in BOOLEAN /\ full' \in BOOLEAN /\ bound' \in 1 .. FOREVER
    /\ queued' \/ full' => (queued \/ full) /\ bound' # FOREVER
    /\ IF enabled
         THEN (queued' => full') /\ (Wake = 0 \/ bound' >= bound)
         ELSE (queued' => queued) /\ (full' => full) /\ bound = 0
    /\ accepted' = (accepted /\ queued' /\ ~full')
    /\ UNCHANGED <<phase, schedule, pump, batch, awaits, enabled, unarmed, trouble>>

\* rearmDurablePumpAfterCallback: scheduleNextDurablePump, once again if it fails,
\* and then the fallback, which may fail as well.  One trouble may fail them all.
PumpRearm(rest, retried) ==
    \/ /\ Wake = FOREVER /\ NothingToSchedule
       /\ awaits' = rest /\ At("done")
    \/ \E r \in rows :
         /\ Reuse(r, Wake)
         /\ IF r.sec = 0
              THEN /\ ToAwait(rest, "rearmKick", 0, 0)
                   /\ pump' = [pump EXCEPT !.pc = "await", !.retried = retried]
              ELSE awaits' = rest /\ At("done")
    \/ /\ ScheduleEpoch(Wake)
       /\ ToAwait(rest, "rearm", NewId, SecondsOf(Target(Wake)))
       /\ pump' = [pump EXCEPT !.pc = "await", !.retried = retried]

LastFallback(rest) ==
    \/ PersistFallback /\ ToAwait(rest, "lastKick", 0, 0) /\ At("await")
    \/ UNCHANGED schedule /\ awaits' = rest /\ At("done")

RearmFails(rest) ==
    /\ Fails
    /\ LastFallback(rest) \/ (~pump.retried /\ PumpRearm(rest, TRUE))

\* A turn that yields persists an immediate successor first.
Yield ==
    /\ PersistFallback
    /\ ToAwait(awaits, "yieldKick", 0, 0)
    /\ At("await")

\* Faulty: parks past a nearer boundary.
ParkAlways == IF queued \/ full THEN PARK ELSE bound

\* parkDisabledDurablePump, once again if it fails, and then the fallback.
ParkAt == IF queued \/ full THEN Min({PARK, bound}) ELSE bound
PumpPark(rest, retried) ==
    IF Stored
      THEN /\ FreeId
           /\ rows' = {[id |-> NewId, raw |-> TRUE, sec |-> SecondsOf(Target(ParkAt))]}
           /\ driver' = 0 /\ prearm' = 0
           /\ ToAwait(rest, "park", NewId, 0)
           /\ pump' = [pump EXCEPT !.pc = "await", !.retried = retried]
      ELSE /\ rows' = {} /\ driver' = 0 /\ prearm' = 0
           /\ awaits' = rest /\ At("done")

ParkFails(rest) ==
    /\ Fails
    /\ LastFallback(rest) \/ (~pump.retried /\ PumpPark(rest, TRUE))

EndTurn ==
    /\ Open /\ pump.pc = "turn"
    /\ IF enabled
         THEN /\ \/ Works /\ (PumpRearm(awaits, FALSE) \/ Yield)
                 \/ RearmFails(awaits)
              /\ UNCHANGED accepted
         ELSE /\ \/ Works /\ PumpPark(awaits, FALSE)
                 \/ ParkFails(awaits)
              /\ accepted' = FALSE
    /\ UNCHANGED <<phase, batch, enabled, queued, full, bound, unarmed>>

FinishYieldKick ==
    /\ Confirmed("yieldKick")
    /\ (Works /\ PumpRearm(Rest, FALSE)) \/ RearmFails(Rest)
    /\ UNCHANGED <<phase, batch, enabled, jobs>>

FinishRearm ==
    /\ Confirmed("rearm")
    /\ \/ Works /\ PublishScheduled(Head(awaits).id) /\ awaits' = Rest /\ At("done")
       \/ RearmFails(Rest)
    /\ UNCHANGED <<phase, batch, enabled, jobs>>

\* The alarm is written: for a reused row, a parked row, or the last fallback.
FinishAlarmWrite ==
    /\ \/ /\ \E by \in {"rearmKick", "park", "lastKick"} : Confirmed(by)
          /\ Works /\ awaits' = Rest /\ At("done") /\ UNCHANGED schedule
       \/ Confirmed("rearmKick") /\ RearmFails(Rest)
       \/ Confirmed("park") /\ ParkFails(Rest)
    /\ UNCHANGED <<phase, batch, enabled, jobs>>

\* The base class deletes the row it called back.
Consume ==
    /\ pump.pc = "done"
    /\ rows' = Without(rows, pump.cur)
    /\ pump' = IF batch = {} THEN Idle ELSE [Idle EXCEPT !.pc = "scan"]
    /\ UNCHANGED <<phase, driver, prearm, batch, awaits, enabled, jobs, trouble>>

-----------------------------------------------------------------------------
(***************************************************************************)
(* The public handlers.                                                    *)
(***************************************************************************)

\* The commit of an admission, which writes no schedule row.
CommitJob ==
    /\ queued' = TRUE /\ UNCHANGED <<full, unarmed>>
    /\ bound' \in {b \in 0 .. MAX_BOUND : b = bound \/ (0 < b /\ b < bound)}
    /\ accepted' = (accepted \/ ~full)

\* Faulty: relies on any live row, however far.
AnyLiveRows == {r \in rows : Live(r)}

\* ensureImmediateDurablePumpWake, and the commit right after it if nothing has to
\* be awaited: a live row of this second or the next is relied on.
SoonRows == {r \in rows : Live(r) /\ r.sec <= SoonSecond}
Admit ==
    /\ Open /\ enabled
    /\ \A i \in DOMAIN awaits : awaits[i].by # "admission"
    /\ \/ \E r \in Earliest(SoonRows) :
            /\ IF r.sec = 0
                 THEN Await("admission", 0, 0) /\ UNCHANGED jobs
                 ELSE CommitJob /\ UNCHANGED awaits
            /\ UNCHANGED schedule
       \/ /\ SoonRows = {}
          /\ InsertRow(TRUE, SoonSecond)
          /\ Await("admission", NewId, SoonSecond)
          /\ UNCHANGED jobs
    /\ UNCHANGED <<phase, pump, batch, enabled, trouble>>

\* The admission goes on, or is refused by its deadline, its quota or the alarm.
FinishAdmission ==
    /\ Confirmed("admission")
    /\ CommitJob \/ UNCHANGED jobs
    /\ awaits' = Rest
    /\ UNCHANGED <<phase, schedule, pump, batch, enabled, trouble>>

\* A heartbeat, a publication fence, a resolution, a cancellation, a deleted watch,
\* or the health check of the watches: jobs change, then the pump is re-armed behind the answer.
Rearms == Cardinality({i \in DOMAIN awaits : awaits[i].by = "mutation"})
MutateAndRearm ==
    /\ Open /\ Stored
    /\ full' \in {FALSE, full} /\ queued' \in {FALSE, queued}
    /\ bound' \in bound .. FOREVER
    /\ queued' \/ full' => bound' # FOREVER
    /\ accepted' = (accepted /\ queued')
    /\ LET wake == WakeOf(queued', full', bound')
       IN \/ /\ wake = FOREVER /\ NothingToSchedule
             /\ Works /\ UNCHANGED <<awaits, unarmed>>
          \/ /\ \E r \in rows : Reuse(r, wake)
             /\ Works /\ UNCHANGED <<awaits, unarmed>>
          \/ /\ Rearms < MAX_REARMS
             /\ ScheduleEpoch(wake)
             /\ Await("mutation", NewId, SecondsOf(Target(wake)))
             /\ Works /\ UNCHANGED unarmed
          \/ Fails /\ unarmed' = TRUE /\ UNCHANGED <<schedule, awaits>>
    /\ UNCHANGED <<phase, pump, batch, enabled>>

FinishMutation ==
    /\ Confirmed("mutation")
    /\ \/ Works /\ PublishScheduled(Head(awaits).id) /\ UNCHANGED unarmed
       \/ Fails /\ unarmed' = TRUE /\ UNCHANGED schedule
    /\ awaits' = Rest
    /\ UNCHANGED <<phase, pump, batch, enabled, queued, full, bound, accepted>>

\* A read runs the retention pass, which settles and purges rows past their horizon.
ReadPurges ==
    /\ Open /\ Stored /\ bound = 0
    /\ full' \in {FALSE, full} /\ queued' \in {FALSE, queued}
    /\ bound' \in 1 .. FOREVER
    /\ queued' \/ full' => bound' # FOREVER
    /\ accepted' = (accepted /\ queued')
    /\ UNCHANGED <<phase, schedule, pump, batch, awaits, enabled, unarmed, trouble>>

-----------------------------------------------------------------------------
\* The Durable Object restarts, perhaps with another configuration: memory and
\* handlers are gone, the tables stay.
Restart ==
    /\ Fails
    /\ pump' = Idle /\ batch' = {} /\ awaits' = <<>> /\ prearm' = 0
    /\ enabled' \in BOOLEAN
    /\ UNCHANGED <<phase, rows, driver, jobs>>

Sooner(sec) == IF sec = 0 THEN 0 ELSE sec - 1
Pass ==
    /\ phase' = (phase + 1) % SECOND
    /\ bound' = IF bound \in {0, FOREVER} THEN bound ELSE bound - 1
    /\ IF phase' = 0
         THEN /\ rows' = {[r EXCEPT !.sec = Sooner(@)] : r \in rows}
              /\ awaits' = [i \in DOMAIN awaits |-> [awaits[i] EXCEPT !.sec = Sooner(@)]]
         ELSE UNCHANGED <<rows, awaits>>
    /\ UNCHANGED <<driver, prearm, pump, batch, enabled, queued, full, accepted, unarmed,
                   trouble>>

CallBack == \E r \in batch : SkipStale(r) \/ StartCallback(r)
AwaitEnds ==
    \/ FinishPrearm \/ FinishPrearmKick \/ FinishYieldKick
    \/ FinishRearm \/ FinishAlarmWrite
    \/ FinishAdmission \/ FinishMutation

Next ==
    \/ AlarmScan \/ CallBack \/ TurnWork \/ EndTurn \/ Consume
    \/ AwaitEnds
    \/ Admit \/ MutateAndRearm \/ ReadPurges
    \/ Restart \/ Pass

Spec == Init /\ [][Next]_vars

\* Time goes on, awaits end, the alarm handler and a turn get on.  An event that
\* waits for a storage await of others is delivered in the end: strong fairness.
Fairness ==
    /\ WF_vars(Pass) /\ WF_vars(AwaitEnds)
    /\ WF_vars(CallBack) /\ WF_vars(Consume)
    /\ SF_vars(AlarmScan) /\ SF_vars(EndTurn)

FairSpec == Spec /\ Fairness

-----------------------------------------------------------------------------
(***************************************************************************)
(* Properties.                                                             *)
(***************************************************************************)
Covered(ticks) == \E r \in rows : Live(r) /\ TicksOf(r) <= ticks

\* Whatever is stored, some live row will wake the pump at its next boundary, or
\* within a second if that has passed, and within a second a job that was accepted
\* while there is capacity: at every await, after every restart and every failed write.
\* After a public handler failed to re-arm, which it reports to nobody, the rows that
\* were there remain until the next callback.
WakeSurvives ==
    /\ Stored => IF unarmed THEN \E r \in rows : Live(r) ELSE Covered(Target(bound))
    /\ accepted => Covered(SECOND)

\* Work that is due gets a turn, without any request.
TurnRecurs == (Wake = 0) ~> (Wake # 0 \/ pump.pc = "turn")

\* When nothing is stored any more, and nothing is submitted, the pump falls asleep:
\* its one-second successors and fallbacks do not keep themselves alive.
Quiet == ~Stored /\ \A i \in DOMAIN awaits : awaits[i].by # "admission"
PumpFallsAsleep == <>[]Quiet => <>[](rows = {})
=============================================================================
