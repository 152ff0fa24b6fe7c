-------------------------- MODULE PumpScheduleProofs --------------------------
(***************************************************************************)
(* Theorems about PumpSchedule, for every length of a second, every        *)
(* parking time and boundary, and every number of row ids, restarts and    *)
(* failed writes.                                                          *)
(*                                                                         *)
(* That some live row will wake the pump in time is not inductive: at an   *)
(* await the row to come is not live yet, or the row that is live is about *)
(* to go.  The invariant says what each handler relies on while it waits:  *)
(* what the row it inserted is good for, and that the handlers between its *)
(* two steps leave it alone or leave a row at least as near.               *)
(***************************************************************************)
EXTENDS PumpSchedule, SequenceTheorems, WellFoundedInduction, TLAPS

Row == [id : RowIds, raw : BOOLEAN, sec : Nat]

\* The awaits of public handlers, of a callback before its turn, and after it.
Public == {"admission", "mutation"}
Entering == {"prearm", "prearmKick"}
Leaving == {"rearm", "rearmKick", "park", "lastKick", "yieldKick"}

Ids == 0 .. MAX_ROW_ID
Entry == [by : Public \cup Entering \cup Leaving, id : Ids, sec : Nat]
Phases == {"idle", "scan", "await", "turn", "done"}

\* Ticks until a row is due, negative in the second in which it is.
Due(r) == r.sec * SECOND - phase

TypeOK ==
    /\ phase \in 0 .. (SECOND - 1)
    /\ rows \subseteq Row /\ batch \subseteq Row
    /\ driver \in Ids /\ prearm \in Ids
    /\ pump \in [pc : Phases, cur : Ids, retried : BOOLEAN]
    /\ awaits \in Seq(Entry)
    /\ enabled \in BOOLEAN /\ queued \in BOOLEAN /\ full \in BOOLEAN
    /\ accepted \in BOOLEAN /\ unarmed \in BOOLEAN
    /\ bound \in 0 .. FOREVER

\* What a row is does not change while its id is in use.
SameIds == \A r, o \in rows \cup batch : r.id = o.id => r.raw = o.raw

\* At most one public handler waits for the storage, and the pump only behind it.
Turns ==
    \/ awaits = <<>> /\ pump.pc # "await"
    \/ Len(awaits) = 1 /\ awaits[1].by \in Public /\ pump.pc # "await"
    \/ Len(awaits) = 1 /\ awaits[1].by \notin Public /\ pump.pc = "await"
    \/ /\ Len(awaits) = 2 /\ awaits[1].by \in Public /\ awaits[2].by \in Entering
       /\ pump.pc = "await"

\* The row that called back is gone before the turn begins.
Gone == \A r \in rows : r.id # pump.cur
CurrentGone ==
    \/ pump.pc \in {"idle", "scan"}
    \/ \E i \in 1 .. Len(awaits) : awaits[i].by = "prearm"
    \/ Gone

JobsOK ==
    /\ accepted => queued /\ ~full
    /\ queued \/ full => Stored

Shape == TypeOK /\ SameIds /\ Turns /\ CurrentGone /\ JobsOK

\* A live row is due within so many ticks, if anything is stored; any live row
\* will do while a failed re-arm is to be made up for.
Within(ticks) == \E r \in rows : Live(r) /\ Due(r) <= ticks
Armed(ticks) == Stored => IF unarmed THEN \E r \in rows : Live(r) ELSE Within(ticks)

\* What the handlers under way rely on.
Relied(a) ==
    /\ a.by = "prearm" =>
          a.id # pump.cur /\ \A r \in rows : r.id = a.id => Due(r) <= SECOND
    /\ a.by \in {"mutation", "rearm"} =>
          \A r \in rows : r.id = a.id => Due(r) <= Target(Wake)
    /\ a.by = "mutation" /\ pump.pc = "turn" => \E r \in rows : r.id = a.id
    /\ a.by = "admission" => Within(SECOND)
    /\ a.by = "prearmKick" => Armed(Target(Wake))
    /\ a.by = "park" => ~accepted
AllRelied == \A i \in 1 .. Len(awaits) : Relied(awaits[i])

\* What is there at every step.
Promised ==
    /\ Armed(Target(bound))
    /\ accepted => Within(SECOND)
    /\ pump.pc = "turn" /\ awaits = <<>> /\ enabled => Armed(Target(Wake))

WakeInv == Shape /\ AllRelied /\ Promised

-----------------------------------------------------------------------------
(***************************************************************************)
(* Times and row ids.                                                      *)
(***************************************************************************)

\* A target is the wake, but a second ahead at least.
LEMMA Targets ==
    \A w \in Nat : /\ Target(w) \in Nat
                   /\ Target(w) >= SECOND /\ Target(w) >= w
                   /\ Target(w) = w \/ Target(w) = SECOND
<1>. TAKE w \in Nat
<1>1. w \in Int /\ SECOND \in Nat \ {0}
  BY TicksAssumption
<1>2. \E x \in {w, SECOND} : \A y \in {w, SECOND} : x >= y
  <2>1. CASE w >= SECOND
    BY <1>1, <2>1
  <2>2. CASE SECOND >= w
    BY <1>1, <2>2
  <2>. QED
    BY <1>1, <2>1, <2>2
<1>3. Target(w) \in {w, SECOND} /\ \A y \in {w, SECOND} : Target(w) >= y
  BY <1>2 DEF Target, Max
<1>. QED
  BY <1>1, <1>3

\* A nearer wake has no farther target.
LEMMA NearerTarget ==
    ASSUME NEW v \in Nat, NEW w \in Nat, v <= w
    PROVE  Target(v) <= Target(w)
<1>1. SECOND \in Nat
  BY TicksAssumption
<1>2. /\ Target(v) \in Nat /\ (Target(v) = v \/ Target(v) = SECOND)
      /\ Target(w) \in Nat /\ Target(w) >= SECOND /\ Target(w) >= w
  BY Targets
<1>. QED
  BY <1>1, <1>2

\* A row for a time so many ticks ahead is due no later.
LEMMA SecondsInTime ==
    ASSUME phase \in 0 .. (SECOND - 1), NEW t \in Nat
    PROVE  /\ SecondsOf(t) \in Nat
           /\ SecondsOf(t) * SECOND - phase <= t
<1>1. SECOND \in Nat /\ SECOND > 0 /\ phase \in Nat /\ phase + t \in Nat
  BY TicksAssumption
<1>2. (phase + t) \div SECOND \in Nat
      /\ phase + t = SECOND * ((phase + t) \div SECOND) + ((phase + t) % SECOND)
      /\ (phase + t) % SECOND \in Nat
  BY <1>1
<1>3. ((phase + t) \div SECOND) * SECOND = SECOND * ((phase + t) \div SECOND)
  BY <1>1, <1>2
<1>. QED
  BY <1>1, <1>2, <1>3 DEF SecondsOf

\* The next second begins within a second.
LEMMA NextSecondInTime ==
    ASSUME phase \in 0 .. (SECOND - 1)
    PROVE  /\ SecondsOf(0) + 1 \in Nat
           /\ (SecondsOf(0) + 1) * SECOND - phase <= SECOND
<1>1. SECOND \in Nat /\ SecondsOf(0) \in Nat /\ SecondsOf(0) * SECOND - phase <= 0
  BY SecondsInTime, TicksAssumption
<1>2. (SecondsOf(0) + 1) * SECOND = SecondsOf(0) * SECOND + SECOND
  BY <1>1
<1>. QED
  BY <1>1, <1>2

\* A new id is that of no row, await or field.
LEMMA FreshId ==
    ASSUME FreeId
    PROVE  NewId \in RowIds \ UsedIds
<1> DEFINE free == RowIds \ UsedIds
<1>1. free \subseteq Nat /\ free # {}
  BY TicksAssumption DEF FreeId, RowIds
<1>2. \E n \in free : \A m \in free : ~ (m < n)
  <2>1. PICK n \in free : \A m \in free : <<m, n>> \notin OpToRel(<, Nat)
    BY <1>1, NatLessThanWellFounded, WFMin
  <2>2. ASSUME NEW m \in free PROVE ~ (m < n)
    <3>1. <<m, n>> \notin OpToRel(<, Nat) /\ m \in Nat /\ n \in Nat
      BY <1>1, <2>1
    <3>. HIDE DEF free
    <3>. QED
      BY <3>1 DEF OpToRel
  <2>. QED
    BY <2>2
<1>3. \E n \in free : \A m \in free : n <= m
  BY <1>1, <1>2
<1>. HIDE DEF free
<1>4. Min(free) \in free
  BY <1>3 DEF Min
<1>. QED
  BY <1>4 DEF NewId, free

\* What a new id differs from.
LEMMA FreshIds ==
    ASSUME TypeOK, FreeId
    PROVE  /\ NewId \in RowIds /\ NewId \in Ids
           /\ \A r \in rows \cup batch : r.id # NewId
           /\ \A i \in 1 .. Len(awaits) : awaits[i].id # NewId
           /\ NewId # pump.cur /\ NewId # driver /\ NewId # prearm
<1>1. NewId \in RowIds \ UsedIds
  BY FreshId
<1>2. DOMAIN awaits = 1 .. Len(awaits)
  BY LenProperties DEF TypeOK
<1>. QED
  BY <1>1, <1>2, TicksAssumption DEF UsedIds, Awaiting, RowIds, Ids

-----------------------------------------------------------------------------
(***************************************************************************)
(* What the writes leave behind.                                           *)
(***************************************************************************)

\* The rows and ids in use are of their types, and rows are told apart by their ids.
RowsOK ==
    /\ rows \subseteq Row /\ batch \subseteq Row
    /\ driver \in Ids /\ prearm \in Ids
    /\ SameIds

\* Fewer rows and fewer called back are still told apart.
LEMMA FewerRows ==
    ASSUME RowsOK, rows' \subseteq rows, batch' \subseteq batch, driver' \in Ids, prearm' \in Ids
    PROVE  RowsOK'
BY DEF RowsOK, SameIds

\* The fallback leaves one live row, with an id that nothing else has.
LEMMA FallbackLeaves ==
    ASSUME TypeOK, RowsOK, PersistFallback, UNCHANGED phase, batch' \subseteq batch
    PROVE  /\ RowsOK'
           /\ Within(SECOND)'
           /\ \A r \in rows' : /\ r.id # pump.cur
                               /\ \A i \in 1 .. Len(awaits) : awaits[i].id # r.id
<1> DEFINE row == [id |-> NewId, raw |-> TRUE, sec |-> SecondsOf(0) + 1]
<1>1. rows' = {row} /\ driver' = 0 /\ prearm' = NewId /\ phase' = phase
  BY DEF PersistFallback
<1>2. /\ NewId \in RowIds /\ NewId \in Ids /\ NewId # pump.cur
      /\ \A r \in rows \cup batch : r.id # NewId
      /\ \A i \in 1 .. Len(awaits) : awaits[i].id # NewId
  BY FreshIds DEF PersistFallback
<1>3. SecondsOf(0) + 1 \in Nat /\ (SecondsOf(0) + 1) * SECOND - phase <= SECOND
  BY NextSecondInTime DEF TypeOK
<1>4. row \in Row
  BY <1>2, <1>3 DEF Row
<1>5. row.id = NewId /\ row.raw /\ row.sec = SecondsOf(0) + 1
  OBVIOUS
<1>. HIDE DEF row
<1>6. Within(SECOND)'
  BY <1>1, <1>3, <1>5 DEF Within, Live, Due
<1>7. SameIds'
  BY <1>1, <1>2, <1>5 DEF RowsOK, SameIds
<1>8. 0 \in Ids
  BY TicksAssumption DEF Ids
<1>. QED
  BY <1>1, <1>2, <1>4, <1>5, <1>6, <1>7, <1>8 DEF RowsOK

\* An insertion leaves what was there, and a row with an id that nothing else has.
LEMMA InsertionLeaves ==
    ASSUME TypeOK, RowsOK, NEW raw \in BOOLEAN, NEW t \in Nat,
           InsertRow(raw, SecondsOf(t)), UNCHANGED phase, batch' \subseteq batch
    PROVE  /\ RowsOK'
           /\ NewId \in Ids /\ SecondsOf(t) \in Nat
           /\ rows \subseteq rows' /\ UNCHANGED <<driver, prearm>>
           /\ [id |-> NewId, raw |-> raw, sec |-> SecondsOf(t)] \in rows'
           /\ \A r \in rows' : r \in rows \/ r.id = NewId
           /\ \A r \in rows' : r.id = NewId => Due(r)' <= t
           /\ raw => Within(t)'
           /\ NewId # pump.cur /\ \A i \in 1 .. Len(awaits) : awaits[i].id # NewId
           /\ \A r \in batch : r.id # NewId
<1>0. PICK row : row = [id |-> NewId, raw |-> raw, sec |-> SecondsOf(t)]
  OBVIOUS
<1>1. rows' = rows \cup {row} /\ driver' = driver /\ prearm' = prearm /\ phase' = phase
  BY <1>0 DEF InsertRow
<1>2. /\ NewId \in RowIds /\ NewId \in Ids /\ NewId # pump.cur
      /\ \A r \in rows \cup batch : r.id # NewId
      /\ \A i \in 1 .. Len(awaits) : awaits[i].id # NewId
  BY FreshIds DEF InsertRow
<1>3. SecondsOf(t) \in Nat /\ SecondsOf(t) * SECOND - phase <= t
  BY SecondsInTime DEF TypeOK
<1>4. row \in Row
  BY <1>0, <1>2, <1>3 DEF Row
<1>5. row.id = NewId /\ row.raw = raw /\ row.sec = SecondsOf(t)
  BY <1>0
<1>6. row \in rows'
  BY <1>1
<1>7. \A r \in rows' : r \in rows \/ r = row
  BY <1>1
<1>8. Due(row)' <= t
  BY <1>1, <1>3, <1>5 DEF Due
<1>9. \A r \in rows' : r.id = NewId => Due(r)' <= t
  BY <1>2, <1>7, <1>8
<1>10. raw => Within(t)'
  BY <1>5, <1>6, <1>8 DEF Within, Live
<1>11. SameIds'
  BY <1>1, <1>2, <1>5, <1>7 DEF RowsOK, SameIds
<1>12. RowsOK'
  BY <1>1, <1>4, <1>11 DEF RowsOK
<1>. QED
  BY <1>0, <1>1, <1>2, <1>3, <1>5, <1>6, <1>7, <1>9, <1>10, <1>12

\* A wake that was there is still there when rows are only added.
LEMMA WithinStays ==
    ASSUME rows \subseteq rows', UNCHANGED <<phase, driver>>
    PROVE  /\ \A t \in Int : Within(t) => Within(t)'
           /\ (\E r \in rows : Live(r)) => (\E r \in rows : Live(r))'
BY DEF Within, Live, Due

\* A nearer wake is a wake.
LEMMA WithinFarther ==
    ASSUME RowsOK, phase \in Int, NEW t \in Int, NEW u \in Int, t <= u, Within(t)
    PROVE  Within(u)
<1>1. \A r \in rows : Due(r) \in Int
  BY TicksAssumption DEF RowsOK, Row, Due
<1>. QED
  BY <1>1 DEF Within

\* The same of the wake that a step leaves, which arms the pump.
LEMMA WithinArms ==
    ASSUME RowsOK', phase' \in Int, NEW t \in Int, NEW u \in Int, t <= u, Within(t)'
    PROVE  Within(u)' /\ Armed(u)'
<1>1. \A r \in rows' : Due(r)' \in Int
  BY TicksAssumption DEF RowsOK, Row, Due
<1>2. Within(u)'
  BY <1>1 DEF Within
<1>. QED
  BY <1>2 DEF Within, Armed

\* A farther target is armed by what arms a nearer one.
LEMMA ArmedFarther ==
    ASSUME RowsOK, phase \in Int, NEW t \in Int, NEW u \in Int, t <= u, Armed(t)
    PROVE  Armed(u)
BY WithinFarther DEF Armed

\* The wake is not later than the earliest boundary.
LEMMA WakeIsNear ==
    ASSUME TypeOK
    PROVE  /\ bound \in Nat /\ Wake \in Nat /\ Wake <= bound
           /\ Target(bound) \in Nat /\ Target(Wake) \in Nat
           /\ Target(Wake) <= Target(bound)
           /\ SECOND <= Target(Wake) /\ SECOND <= Target(bound)
           /\ Target(0) = SECOND
           /\ queued /\ ~full => Target(Wake) = SECOND
<1>1. bound \in Nat /\ FOREVER \in Nat
  BY TicksAssumption DEF TypeOK, FOREVER
<1>2. Wake \in Nat /\ Wake <= bound /\ (queued /\ ~full => Wake = 0)
  BY <1>1 DEF Wake, WakeOf
<1>3. SECOND \in Nat \ {0} /\ 0 \in Nat
  BY TicksAssumption
<1>4. Target(0) = SECOND
  BY <1>3, Targets
<1>. QED
  BY <1>1, <1>2, <1>3, <1>4, Targets, NearerTarget

\* A row that is relied on instead of the prearm row stays, and stays live.
LEMMA ReuseLeaves ==
    ASSUME RowsOK, NEW r \in rows, NEW w \in Nat, Reuse(r, w),
           UNCHANGED phase, batch' \subseteq batch
    PROVE  RowsOK' /\ rows' \subseteq rows /\ Within(Target(w))'
<1>1. Live(r) /\ r.id # prearm /\ Due(r) <= Target(w)
  BY DEF Reuse, Earliest, Reusable, Due
<1>2. /\ rows' \subseteq rows /\ r \in rows'
      /\ driver' = IF driver = prearm THEN 0 ELSE driver
      /\ prearm' = 0
  BY <1>1 DEF Reuse, PrearmDiscarded, Without
<1>3. driver' \in Ids /\ prearm' \in Ids
  BY <1>2, TicksAssumption DEF RowsOK, Ids
<1>4. RowsOK'
  BY <1>2, <1>3, FewerRows
<1>5. Live(r)'
  BY <1>1, <1>2 DEF Live
<1>6. Due(r)' = Due(r)
  BY DEF Due
<1>. QED
  BY <1>1, <1>2, <1>4, <1>5, <1>6 DEF Within

\* A row that is published becomes live, and the row that called back goes.
LEMMA PublishLeaves ==
    ASSUME RowsOK, NEW id \in Ids, NEW old, NEW t, Publish(id, old),
           \E r \in rows : r.id = id,
           \A r \in rows : r.id = id => Due(r) <= t,
           UNCHANGED phase, batch' \subseteq batch, prearm' \in Ids
    PROVE  /\ RowsOK' /\ rows' \subseteq rows /\ Within(t)'
           /\ old # id => \A r \in rows' : r.id # old
<1>1. /\ driver' = id
      /\ rows' = {r \in rows : (r.raw \/ r.id = id) /\ (r.id = old => r.id = id)}
  BY DEF Publish
<1>2. RowsOK' /\ rows' \subseteq rows
  BY <1>1, FewerRows
<1>3. PICK r \in rows : r.id = id
  OBVIOUS
<1>4. r \in rows' /\ Live(r)' /\ Due(r)' = Due(r) /\ Due(r) <= t
  BY <1>1, <1>3 DEF Live, Due
<1>. QED
  BY <1>1, <1>2, <1>4 DEF Within

\* What the stop of the pump with nothing to schedule leaves.
LEMMA NothingLeaves ==
    ASSUME RowsOK, NothingToSchedule, batch' \subseteq batch
    PROVE  RowsOK' /\ rows' \subseteq rows
<1>1. rows' \subseteq rows /\ driver' = 0 /\ prearm' = 0
  BY DEF NothingToSchedule, RawRows, Without
<1>. QED
  BY <1>1, FewerRows, TicksAssumption DEF Ids

\* A parked pump has one live row, which is not later than the earliest boundary.
LEMMA ParkLeaves ==
    ASSUME TypeOK, RowsOK, FreeId, UNCHANGED <<phase, bound>>, batch' \subseteq batch,
           rows' = {[id |-> NewId, raw |-> TRUE, sec |-> SecondsOf(Target(ParkAt))]},
           driver' = 0, prearm' = 0
    PROVE  /\ RowsOK' /\ NewId \in Ids
           /\ Within(Target(bound))'
           /\ \A r \in rows' : r.id # pump.cur
<1>1. bound \in Nat /\ PARK \in Nat
  BY TicksAssumption DEF TypeOK, FOREVER
<1>2. Min({PARK, bound}) \in Nat /\ Min({PARK, bound}) <= bound
  <2>1. \E x \in {PARK, bound} : \A y \in {PARK, bound} : x <= y
    <3>1. CASE PARK <= bound
      BY <1>1, <3>1
    <3>2. CASE bound <= PARK
      BY <1>1, <3>2
    <3>. QED
      BY <1>1, <3>1, <3>2
  <2>2. /\ Min({PARK, bound}) \in {PARK, bound}
        /\ \A y \in {PARK, bound} : Min({PARK, bound}) <= y
    BY <2>1 DEF Min
  <2>. QED
    BY <1>1, <2>2
<1>3. ParkAt \in Nat /\ ParkAt <= bound
  BY <1>1, <1>2 DEF ParkAt
<1>4. PICK at : at = ParkAt
  OBVIOUS
<1>5. /\ Target(at) \in Nat /\ Target(at) <= Target(bound)
  BY <1>1, <1>3, <1>4, Targets, NearerTarget
<1>6. /\ SecondsOf(Target(at)) \in Nat
      /\ SecondsOf(Target(at)) * SECOND - phase <= Target(at)
  BY <1>5, SecondsInTime DEF TypeOK
<1>7. PICK row : row = [id |-> NewId, raw |-> TRUE, sec |-> SecondsOf(Target(at))]
  OBVIOUS
<1>8. row.id = NewId /\ row.raw /\ row.sec = SecondsOf(Target(at)) /\ rows' = {row}
  BY <1>4, <1>7
<1>9. /\ NewId \in RowIds /\ NewId \in Ids /\ NewId # pump.cur
      /\ \A r \in rows \cup batch : r.id # NewId
  BY FreshIds
<1>10. row \in Row
  BY <1>6, <1>7, <1>9 DEF Row
<1>11. RowsOK'
  <2>1. SameIds'
    BY <1>8, <1>9 DEF RowsOK, SameIds
  <2>. QED
    BY <1>8, <1>10, <2>1, TicksAssumption DEF RowsOK, Ids
<1>12. Due(row)' <= Target(at) /\ Due(row)' \in Int
  BY <1>6, <1>8, TicksAssumption DEF Due, TypeOK
<1>13. Target(bound) \in Nat /\ Target(bound)' = Target(bound)
  BY <1>1, Targets
<1>14. Due(row)' <= Target(bound)'
  BY <1>5, <1>12, <1>13
<1>15. Within(Target(bound))'
  BY <1>8, <1>14 DEF Within, Live
<1>. QED
  BY <1>8, <1>9, <1>11, <1>15

-----------------------------------------------------------------------------
(***************************************************************************)
(* The awaits under way.                                                   *)
(***************************************************************************)

\* With one await under way, none is left when it ends.
LEMMA LastAwait ==
    ASSUME TypeOK, Len(awaits) = 1
    PROVE  awaits # <<>> /\ Head(awaits) = awaits[1] /\ awaits[1] \in Entry /\ Rest = <<>>
<1>0. Len(<<>>) = 0 /\ awaits \in Seq(Entry)
  BY DEF TypeOK
<1>1. awaits # <<>> /\ awaits \in Seq(Entry)
  BY <1>0
<1>2. Rest \in Seq(Entry) /\ Len(Rest) = 0
  BY <1>1, HeadTailProperties DEF Rest
<1>3. Rest = <<>>
  BY <1>2, EmptySeq
<1>4. Head(awaits) = awaits[1] /\ Head(awaits) \in Entry
  BY <1>1, HeadTailProperties
<1>. QED
  BY <1>1, <1>3, <1>4

\* With two, the second is left.
LEMMA FirstOfTwo ==
    ASSUME TypeOK, Len(awaits) = 2
    PROVE  /\ awaits # <<>> /\ Head(awaits) = awaits[1]
           /\ awaits[1] \in Entry /\ awaits[2] \in Entry
           /\ Rest \in Seq(Entry) /\ Len(Rest) = 1 /\ Rest[1] = awaits[2]
<1>0. Len(<<>>) = 0 /\ awaits \in Seq(Entry)
  BY DEF TypeOK
<1>1. awaits # <<>> /\ awaits \in Seq(Entry)
  BY <1>0
<1>2. Rest \in Seq(Entry) /\ Len(Rest) = 1 /\ Rest[1] = awaits[2]
  BY <1>1, HeadTailProperties DEF Rest
<1>. QED
  BY <1>1, <1>2

\* An await of the pump that is confirmed is the only one.
LEMMA PumpConfirmed ==
    ASSUME Shape, NEW by \in Entering \cup Leaving, Confirmed(by)
    PROVE  /\ Len(awaits) = 1 /\ awaits[1].by = by /\ Head(awaits) = awaits[1]
           /\ awaits[1] \in Entry
           /\ Rest = <<>> /\ pump.pc = "await"
<1>1. awaits \in Seq(Entry) /\ awaits # <<>> /\ Head(awaits).by = by /\ by \notin Public
  BY DEF Shape, TypeOK, Confirmed, Entering, Leaving, Public
<1>2. Head(awaits) = awaits[1]
  BY <1>1
<1>3. Len(awaits) = 1 /\ pump.pc = "await"
  BY <1>1, <1>2 DEF Shape, Turns
<1>. QED
  BY <1>1, <1>2, <1>3, LastAwait DEF Shape

\* One that is no callback's before its turn: the row that called back is gone.
LEMMA GoneByNow ==
    ASSUME Shape, pump.pc \notin {"idle", "scan"},
           pump.pc = "await" => Len(awaits) = 1 /\ awaits[1].by # "prearm"
    PROVE  Gone
BY DEF Shape, Turns, CurrentGone, Public

\* A single await that begins, behind nothing.
LEMMA SingleAwait ==
    ASSUME NEW e \in Entry, awaits' = Append(<<>>, e)
    PROVE  awaits' \in Seq(Entry) /\ Len(awaits') = 1 /\ awaits'[1] = e
<1>1. <<>> \in Seq(Entry) /\ Len(<<>>) = 0
  BY EmptySeq
<1>. QED
  BY <1>1, AppendProperties

\* The rows of a good state.
LEMMA ShapeRows ==
    ASSUME Shape
    PROVE  RowsOK /\ TypeOK /\ phase \in Int /\ JobsOK
BY TicksAssumption DEF Shape, RowsOK, TypeOK

-----------------------------------------------------------------------------
(***************************************************************************)
(* The pump, once its turn has begun.                                      *)
(***************************************************************************)

\* The pump waits for one write of its own, or is done.
PumpLeaves ==
    \/ awaits' = <<>> /\ pump'.pc = "done"
    \/ \E e \in Entry : /\ awaits' = Append(<<>>, e)
                        /\ e.by \in Leaving /\ pump'.pc = "await"
                        /\ Relied(e)'

\* The jobs stay, but a pump that is parked serves no accepted one.
JobsStay ==
    /\ UNCHANGED <<queued, full, bound, unarmed>>
    /\ accepted' \in BOOLEAN /\ (accepted' => accepted)

LEMMA PumpGoesOn ==
    ASSUME Shape, RowsOK', UNCHANGED <<phase, enabled>>, JobsStay, PumpLeaves,
           pump' \in [pc : Phases, cur : Ids, retried : BOOLEAN],
           \A r \in rows' : r.id # pump'.cur,
           Armed(Target(bound))', accepted' => Within(SECOND)'
    PROVE  WakeInv'
<1>1. TypeOK'
  <2>1. awaits' \in Seq(Entry)
    <3>1. CASE awaits' = <<>>
      BY <3>1, EmptySeq
    <3>2. CASE \E e \in Entry : awaits' = Append(<<>>, e)
      BY <3>2, SingleAwait
    <3>. QED
      BY <3>1, <3>2 DEF PumpLeaves
  <2>. QED
    BY <2>1, ShapeRows DEF JobsStay, RowsOK, TypeOK
<1>2. Turns' /\ AllRelied'
  <2>1. CASE awaits' = <<>> /\ pump'.pc = "done"
    <3>1. Len(awaits') = 0
      BY <2>1
    <3>. QED
      BY <2>1, <3>1 DEF Turns, AllRelied
  <2>2. ASSUME NEW e \in Entry, awaits' = Append(<<>>, e), e.by \in Leaving,
               pump'.pc = "await", Relied(e)'
        PROVE  Turns' /\ AllRelied'
    <3>1. Len(awaits') = 1 /\ awaits'[1] = e
      BY <2>2, SingleAwait
    <3>2. e.by \notin Public
      BY <2>2 DEF Public, Leaving
    <3>3. Turns'
      BY <2>2, <3>1, <3>2 DEF Turns
    <3>4. AllRelied'
      BY <2>2, <3>1 DEF AllRelied
    <3>. QED
      BY <3>3, <3>4
  <2>. QED
    BY <2>1, <2>2 DEF PumpLeaves
<1>3. SameIds' /\ CurrentGone'
  BY DEF RowsOK, CurrentGone, Gone
<1>4. JobsOK'
  BY DEF JobsStay, Shape, JobsOK, Stored
<1>5. pump'.pc # "turn"
  BY DEF PumpLeaves
<1>. QED
  BY <1>1, <1>2, <1>3, <1>4, <1>5 DEF WakeInv, Shape, Promised

\* The next turn is scheduled: by nothing, by a row that is there, or by a new one.
LEMMA PumpRearms ==
    ASSUME Shape, Promised, Gone, NEW retried \in BOOLEAN, PumpRearm(<<>>, retried),
           UNCHANGED <<phase, batch, enabled, jobs>>
    PROVE  WakeInv'
<1>0. RowsOK /\ TypeOK /\ phase \in Int /\ JobsOK /\ JobsStay
  BY ShapeRows DEF JobsStay, jobs, TypeOK
<1>1. PICK w \in Nat : w = Wake
  BY <1>0, WakeIsNear
<1>2. /\ Target(w) \in Nat /\ Target(bound) \in Nat /\ Target(w) <= Target(bound)
      /\ accepted => Target(w) = SECOND
      /\ FOREVER \in Nat \ {0}
  BY <1>0, <1>1, WakeIsNear, TicksAssumption DEF JobsOK, FOREVER
<1>3. Wake' = w /\ bound' = bound /\ accepted' = accepted /\ unarmed' = unarmed
  BY <1>1 DEF jobs, Wake
<1>4. Target(Wake)' = Target(w) /\ Target(bound)' = Target(bound)
  BY <1>3
<1>5. PICK cur : cur = pump.cur
  OBVIOUS
<1>6. CASE Wake = FOREVER /\ NothingToSchedule /\ awaits' = <<>> /\ At("done")
  <2>1. RowsOK' /\ rows' \subseteq rows
    BY <1>0, <1>6, NothingLeaves
  <2>2. ~ Stored' /\ ~ accepted'
    BY <1>0, <1>2, <1>3, <1>6 DEF Wake, WakeOf, Stored, JobsOK
  <2>3. pump' \in [pc : Phases, cur : Ids, retried : BOOLEAN] /\ pump'.cur = cur /\ pump'.pc = "done"
    BY <1>0, <1>5, <1>6 DEF TypeOK, At, Phases
  <2>4. Armed(Target(bound))'
    BY <2>2 DEF Armed
  <2>5. \A r \in rows' : r.id # pump'.cur
    BY <1>5, <2>1, <2>3 DEF Gone
  <2>6. PumpLeaves
    BY <1>6, <2>3 DEF PumpLeaves
  <2>. QED
    BY <1>0, <2>1, <2>2, <2>3, <2>4, <2>5, <2>6, PumpGoesOn
<1>7. ASSUME NEW r \in rows, Reuse(r, Wake),
             IF r.sec = 0
               THEN /\ ToAwait(<<>>, "rearmKick", 0, 0)
                    /\ pump' = [pump EXCEPT !.pc = "await", !.retried = retried]
               ELSE awaits' = <<>> /\ At("done")
      PROVE  WakeInv'
  <2>0. Reuse(r, w)
    BY <1>1, <1>7
  <2>1. RowsOK' /\ rows' \subseteq rows /\ Within(Target(w))'
    BY <1>0, <2>0, ReuseLeaves
  <2>2. phase' \in Int /\ SECOND \in Int
    BY <1>0, TicksAssumption
  <2>3. Armed(Target(bound))'
    <3>1. PICK t \in Nat : t = Target(bound)
      BY <1>2
    <3>2. Armed(t)'
      BY <1>2, <2>1, <2>2, <3>1, WithinArms
    <3>. QED
      BY <1>4, <3>1, <3>2
  <2>4. accepted' => Within(SECOND)'
    BY <1>2, <1>3, <2>1
  <2>5. /\ pump' \in [pc : Phases, cur : Ids, retried : BOOLEAN] /\ pump'.cur = cur
        /\ IF r.sec = 0 THEN pump'.pc = "await" ELSE pump'.pc = "done"
    BY <1>0, <1>5, <1>7 DEF TypeOK, At, Phases
  <2>6. \A o \in rows' : o.id # pump'.cur
    BY <1>5, <2>1, <2>5 DEF Gone
  <2>7. PumpLeaves
    <3>1. CASE r.sec = 0
      <4>1. PICK e : e = [by |-> "rearmKick", id |-> 0, sec |-> 0]
        OBVIOUS
      <4>2. e \in Entry /\ e.by = "rearmKick"
        BY <4>1, TicksAssumption DEF Entry, Ids, Leaving
      <4>3. awaits' = Append(<<>>, e)
        BY <1>7, <3>1, <4>1 DEF ToAwait
      <4>4. Relied(e)'
        BY <4>2 DEF Relied
      <4>. QED
        BY <2>5, <3>1, <4>2, <4>3, <4>4 DEF PumpLeaves, Leaving
    <3>2. CASE r.sec # 0
      BY <1>7, <2>5, <3>2 DEF PumpLeaves
    <3>. QED
      BY <3>1, <3>2
  <2>. QED
    BY <1>0, <2>1, <2>3, <2>4, <2>5, <2>6, <2>7, PumpGoesOn
<1>8. CASE /\ ScheduleEpoch(Wake)
           /\ ToAwait(<<>>, "rearm", NewId, SecondsOf(Target(Wake)))
           /\ pump' = [pump EXCEPT !.pc = "await", !.retried = retried]
  <2>1. InsertRow(FALSE, SecondsOf(Target(w)))
    BY <1>1, <1>8 DEF ScheduleEpoch
  <2>0. UNCHANGED phase /\ batch' \subseteq batch
    OBVIOUS
  <2>2. /\ RowsOK' /\ rows \subseteq rows' /\ UNCHANGED driver
        /\ NewId \in Ids /\ SecondsOf(Target(w)) \in Nat
        /\ \A r \in rows' : r.id = NewId => Due(r)' <= Target(w)
        /\ \A r \in rows' : r \in rows \/ r.id = NewId
        /\ NewId # pump.cur
    BY <1>0, <1>2, <2>0, <2>1, InsertionLeaves
  <2>3. Armed(Target(bound))'
    <3>1. PICK t \in Nat : t = Target(bound)
      BY <1>2
    <3>2. Armed(t)
      BY <3>1 DEF Promised
    <3>3. Armed(t)'
      BY <1>3, <2>2, <3>2, WithinStays DEF Armed, Stored
    <3>. QED
      BY <1>4, <3>1, <3>3
  <2>4. accepted' => Within(SECOND)'
    BY <1>3, <2>2, WithinStays, TicksAssumption DEF Promised
  <2>5. /\ pump' \in [pc : Phases, cur : Ids, retried : BOOLEAN] /\ pump'.cur = cur
        /\ pump'.pc = "await"
    BY <1>0, <1>5, <1>8 DEF TypeOK, Phases
  <2>6. \A r \in rows' : r.id # pump'.cur
    BY <1>5, <2>2, <2>5 DEF Gone
  <2>7. PumpLeaves
    <3>1. PICK e : e = [by |-> "rearm", id |-> NewId, sec |-> SecondsOf(Target(w))]
      OBVIOUS
    <3>2. e \in Entry /\ e.by = "rearm" /\ e.id = NewId
      BY <2>2, <3>1 DEF Entry, Leaving
    <3>3. awaits' = Append(<<>>, e)
      BY <1>1, <1>8, <3>1 DEF ToAwait
    <3>4. \A r \in rows' : r.id = e.id => Due(r)' <= Target(Wake)'
      BY <1>4, <2>2, <3>2
    <3>5. Relied(e)'
      BY <3>2, <3>4 DEF Relied
    <3>. QED
      BY <2>5, <3>2, <3>3, <3>5 DEF PumpLeaves, Leaving
  <2>. QED
    BY <1>0, <2>2, <2>3, <2>4, <2>5, <2>6, <2>7, PumpGoesOn
<1>. QED
  BY <1>6, <1>7, <1>8 DEF PumpRearm

\* The pump gives up, or its alarm is written, and leaves the schedule as it is.
LEMMA PumpStops ==
    ASSUME Shape, Promised, Gone, JobsStay, awaits' = <<>>, At("done"),
           UNCHANGED <<phase, schedule, batch, enabled>>
    PROVE  WakeInv'
<1>0. RowsOK /\ TypeOK
  BY ShapeRows
<1>1. RowsOK'
  BY <1>0, FewerRows DEF schedule, RowsOK
<1>2. pump' \in [pc : Phases, cur : Ids, retried : BOOLEAN] /\ pump'.cur = pump.cur /\ pump'.pc = "done"
  BY <1>0 DEF TypeOK, At, Phases
<1>3. \A r \in rows' : r.id # pump'.cur
  BY <1>2 DEF Gone, schedule
<1>4. UNCHANGED <<phase, driver>> /\ rows \subseteq rows'
  BY DEF schedule
<1>5. accepted' => Within(SECOND)'
  BY <1>4, WithinStays, TicksAssumption DEF JobsStay, Promised
<1>6. Armed(Target(bound))'
  <2>1. PICK t \in Nat : t = Target(bound) /\ t = Target(bound)'
    BY <1>0, WakeIsNear DEF JobsStay
  <2>2. Armed(t)'
    BY <1>4, <2>1, WithinStays DEF Promised, Armed, Stored, JobsStay
  <2>. QED
    BY <2>1, <2>2
<1>7. PumpLeaves
  BY <1>2 DEF PumpLeaves
<1>. QED
  BY <1>1, <1>2, <1>3, <1>5, <1>6, <1>7, PumpGoesOn

\* The fallback of the pump, before or after what it could not do.
LEMMA PumpFallsBack ==
    ASSUME Shape, JobsStay, PersistFallback, NEW by \in {"lastKick", "yieldKick"},
           ToAwait(<<>>, by, 0, 0), At("await"), UNCHANGED <<phase, batch, enabled>>
    PROVE  WakeInv'
<1>0. RowsOK /\ TypeOK /\ phase' \in Int /\ SECOND \in Int
  BY ShapeRows, TicksAssumption
<1>1. batch' \subseteq batch /\ UNCHANGED phase
  OBVIOUS
<1>2. RowsOK' /\ Within(SECOND)' /\ \A r \in rows' : r.id # pump.cur
  BY <1>0, <1>1, FallbackLeaves
<1>3. pump' \in [pc : Phases, cur : Ids, retried : BOOLEAN] /\ pump'.cur = pump.cur /\ pump'.pc = "await"
  BY <1>0 DEF TypeOK, At, Phases
<1>4. Armed(Target(bound))'
  <2>1. PICK t \in Nat : t = Target(bound) /\ t = Target(bound)' /\ SECOND <= t
    BY <1>0, WakeIsNear DEF JobsStay
  <2>2. Armed(t)'
    BY <1>0, <1>2, <2>1, WithinArms
  <2>. QED
    BY <2>1, <2>2
<1>5. PumpLeaves
  <2>1. PICK e : e = [by |-> by, id |-> 0, sec |-> 0]
    OBVIOUS
  <2>2. e \in Entry /\ e.by \in {"lastKick", "yieldKick"}
    BY <2>1, TicksAssumption DEF Entry, Ids, Leaving
  <2>3. awaits' = Append(<<>>, e)
    BY <2>1 DEF ToAwait
  <2>4. Relied(e)'
    BY <2>2 DEF Relied
  <2>. QED
    BY <1>3, <2>2, <2>3, <2>4 DEF PumpLeaves, Leaving
<1>6. \A r \in rows' : r.id # pump'.cur
  BY <1>2, <1>3
<1>. QED
  BY <1>0, <1>2, <1>3, <1>4, <1>5, <1>6, PumpGoesOn

\* A disabled pump is parked.
LEMMA PumpParks ==
    ASSUME Shape, JobsStay, ~ accepted', NEW retried \in BOOLEAN, PumpPark(<<>>, retried),
           UNCHANGED <<phase, batch, enabled>>
    PROVE  WakeInv'
<1>0. RowsOK /\ TypeOK /\ phase' \in Int
  BY ShapeRows
<1>1. batch' \subseteq batch /\ UNCHANGED <<phase, bound>>
  BY DEF JobsStay
<1>2. CASE Stored
  <2>1. /\ FreeId
        /\ rows' = {[id |-> NewId, raw |-> TRUE, sec |-> SecondsOf(Target(ParkAt))]}
        /\ driver' = 0 /\ prearm' = 0
        /\ ToAwait(<<>>, "park", NewId, 0)
        /\ pump' = [pump EXCEPT !.pc = "await", !.retried = retried]
    BY <1>2 DEF PumpPark
  <2>2. RowsOK' /\ NewId \in Ids /\ Within(Target(bound))' /\ \A r \in rows' : r.id # pump.cur
    BY <1>0, <1>1, <2>1, ParkLeaves
  <2>3. /\ pump' \in [pc : Phases, cur : Ids, retried : BOOLEAN]
        /\ pump'.cur = pump.cur /\ pump'.pc = "await"
    BY <1>0, <2>1 DEF TypeOK, Phases
  <2>4. Armed(Target(bound))'
    BY <2>2 DEF Within, Armed
  <2>5. PumpLeaves
    <3>1. PICK e : e = [by |-> "park", id |-> NewId, sec |-> 0]
      OBVIOUS
    <3>2. e \in Entry /\ e.by = "park"
      BY <2>2, <3>1 DEF Entry, Leaving
    <3>3. awaits' = Append(<<>>, e)
      BY <2>1, <3>1 DEF ToAwait
    <3>4. Relied(e)'
      BY <3>2 DEF Relied
    <3>. QED
      BY <2>3, <3>2, <3>3, <3>4 DEF PumpLeaves, Leaving
  <2>6. \A r \in rows' : r.id # pump'.cur
    BY <2>2, <2>3
  <2>. QED
    BY <2>2, <2>3, <2>4, <2>5, <2>6, PumpGoesOn
<1>3. CASE ~ Stored
  <2>1. rows' = {} /\ driver' = 0 /\ prearm' = 0 /\ awaits' = <<>> /\ At("done")
    BY <1>3 DEF PumpPark
  <2>2. RowsOK' /\ \A r \in rows' : r.id # pump'.cur
    BY <1>0, <1>1, <2>1, FewerRows, TicksAssumption DEF Ids
  <2>3. pump' \in [pc : Phases, cur : Ids, retried : BOOLEAN] /\ pump'.pc = "done"
    BY <1>0, <2>1 DEF TypeOK, At, Phases
  <2>4. Armed(Target(bound))'
    BY <1>1, <1>3 DEF Armed, Stored
  <2>5. PumpLeaves
    BY <2>1, <2>3 DEF PumpLeaves
  <2>. QED
    BY <2>2, <2>3, <2>4, <2>5, PumpGoesOn
<1>. QED
  BY <1>2, <1>3

\* What fails is made up for by the fallback, once by another try, or not at all.
LEMMA PumpFails ==
    ASSUME Shape, Promised, Gone, UNCHANGED <<phase, batch, enabled>>, JobsStay,
           \/ RearmFails(<<>>) /\ UNCHANGED jobs
           \/ ParkFails(<<>>) /\ ~ accepted'
    PROVE  WakeInv'
<1>1. CASE LastFallback(<<>>)
  <2>1. CASE PersistFallback /\ ToAwait(<<>>, "lastKick", 0, 0) /\ At("await")
    BY <2>1, PumpFallsBack
  <2>2. CASE UNCHANGED schedule /\ awaits' = <<>> /\ At("done")
    BY <2>2, PumpStops
  <2>. QED
    BY <1>1, <2>1, <2>2 DEF LastFallback
<1>2. CASE PumpRearm(<<>>, TRUE) /\ UNCHANGED jobs
  BY <1>2, PumpRearms
<1>3. CASE PumpPark(<<>>, TRUE) /\ ~ accepted'
  BY <1>3, PumpParks
<1>. QED
  BY <1>1, <1>2, <1>3 DEF RearmFails, ParkFails

-----------------------------------------------------------------------------
(***************************************************************************)
(* The actions of the pump from its turn on.                               *)
(***************************************************************************)

LEMMA JobsSame ==
    ASSUME TypeOK, UNCHANGED jobs
    PROVE  JobsStay
BY DEF JobsStay, jobs, TypeOK

LEMMA EndTurnStep ==
    ASSUME WakeInv, EndTurn
    PROVE  WakeInv'
<1>0. /\ Shape /\ Promised /\ TypeOK
      /\ awaits = <<>> /\ pump.pc = "turn"
      /\ UNCHANGED <<phase, batch, enabled>>
  BY ShapeRows DEF WakeInv, EndTurn, Open
<1>1. Gone
  BY <1>0, GoneByNow
<1>2. CASE enabled
  <2>1. UNCHANGED jobs
    BY <1>2 DEF EndTurn, jobs
  <2>2. JobsStay
    BY <1>0, <2>1, JobsSame
  <2>3. CASE PumpRearm(<<>>, FALSE)
    BY <1>0, <1>1, <2>1, <2>3, PumpRearms
  <2>4. CASE PersistFallback /\ ToAwait(<<>>, "yieldKick", 0, 0) /\ At("await")
    BY <1>0, <2>2, <2>4, PumpFallsBack
  <2>5. CASE RearmFails(<<>>)
    BY <1>0, <1>1, <2>1, <2>2, <2>5, PumpFails
  <2>. QED
    BY <1>0, <1>2, <2>3, <2>4, <2>5 DEF EndTurn, Yield
<1>3. CASE ~ enabled
  <2>1. JobsStay /\ ~ accepted'
    BY <1>3 DEF EndTurn, JobsStay
  <2>2. CASE PumpPark(<<>>, FALSE)
    BY <1>0, <2>1, <2>2, PumpParks
  <2>3. CASE ParkFails(<<>>)
    BY <1>0, <1>1, <2>1, <2>3, PumpFails
  <2>. QED
    BY <1>0, <1>3, <2>2, <2>3 DEF EndTurn
<1>. QED
  BY <1>2, <1>3

\* What the end of an await of the pump after its turn starts from.
LEMMA LeavingAwaitEnds ==
    ASSUME WakeInv, NEW by \in Leaving, Confirmed(by)
    PROVE  /\ Shape /\ Promised /\ Gone /\ TypeOK /\ RowsOK
           /\ Rest = <<>> /\ Head(awaits).by = by
           /\ Head(awaits) \in Entry /\ Relied(Head(awaits))
           /\ pump.pc = "await"
<1>1. Shape /\ Promised /\ AllRelied /\ TypeOK /\ RowsOK
  BY ShapeRows DEF WakeInv
<1>2. /\ Len(awaits) = 1 /\ awaits[1].by = by /\ Head(awaits) = awaits[1]
      /\ awaits[1] \in Entry /\ Rest = <<>> /\ pump.pc = "await"
  BY <1>1, PumpConfirmed
<1>3. Gone
  <2>1. by # "prearm"
    BY DEF Leaving
  <2>. QED
    BY <1>1, <1>2, <2>1, GoneByNow
<1>4. Relied(awaits[1])
  BY <1>1, <1>2 DEF AllRelied
<1>. QED
  BY <1>1, <1>2, <1>3, <1>4

LEMMA FinishYieldKickStep ==
    ASSUME WakeInv, FinishYieldKick
    PROVE  WakeInv'
<1>1. /\ Shape /\ Promised /\ Gone /\ TypeOK /\ Rest = <<>>
      /\ UNCHANGED <<phase, batch, enabled, jobs>>
  BY LeavingAwaitEnds DEF FinishYieldKick, Leaving
<1>2. JobsStay
  BY <1>1, JobsSame
<1>3. CASE PumpRearm(<<>>, FALSE)
  BY <1>1, <1>3, PumpRearms
<1>4. CASE RearmFails(<<>>)
  BY <1>1, <1>2, <1>4, PumpFails
<1>. QED
  BY <1>1, <1>3, <1>4 DEF FinishYieldKick

LEMMA FinishAlarmWriteStep ==
    ASSUME WakeInv, FinishAlarmWrite
    PROVE  WakeInv'
<1>1. PICK by \in {"rearmKick", "park", "lastKick"} : Confirmed(by)
  BY DEF FinishAlarmWrite
<1>2. /\ Shape /\ Promised /\ Gone /\ TypeOK /\ Rest = <<>>
      /\ Head(awaits).by = by /\ Relied(Head(awaits))
      /\ UNCHANGED <<phase, batch, enabled, jobs>>
  BY <1>1, LeavingAwaitEnds DEF FinishAlarmWrite, Leaving
<1>3. JobsStay
  BY <1>2, JobsSame
<1>4. CASE awaits' = Rest /\ At("done") /\ UNCHANGED schedule
  BY <1>2, <1>3, <1>4, PumpStops
<1>5. CASE RearmFails(Rest)
  BY <1>2, <1>3, <1>5, PumpFails
<1>6. CASE Confirmed("park") /\ ParkFails(Rest)
  <2>1. ~ accepted
    BY <1>2, <1>6 DEF Confirmed, Relied
  <2>2. ~ accepted'
    BY <1>2, <2>1 DEF jobs
  <2>. QED
    BY <1>2, <1>3, <1>6, <2>2, PumpFails
<1>. QED
  BY <1>4, <1>5, <1>6 DEF FinishAlarmWrite

LEMMA FinishRearmStep ==
    ASSUME WakeInv, FinishRearm
    PROVE  WakeInv'
<1>1. /\ Shape /\ Promised /\ Gone /\ TypeOK /\ RowsOK /\ Rest = <<>>
      /\ Head(awaits).by = "rearm" /\ Head(awaits) \in Entry /\ Relied(Head(awaits))
      /\ UNCHANGED <<phase, batch, enabled, jobs>>
  BY LeavingAwaitEnds DEF FinishRearm, Leaving
<1>2. JobsStay
  BY <1>1, JobsSame
<1>3. CASE RearmFails(Rest)
  BY <1>1, <1>2, <1>3, PumpFails
<1>4. CASE PublishScheduled(Head(awaits).id) /\ awaits' = Rest /\ At("done")
  <2>1. PICK id : id = Head(awaits).id
    OBVIOUS
  <2>2. CASE ~ \E r \in rows : r.id = id
    BY <1>1, <1>2, <1>4, <2>1, <2>2, PumpStops DEF PublishScheduled
  <2>3. CASE \E r \in rows : r.id = id
    <3>1. PICK old : old = prearm
      OBVIOUS
    <3>2. PICK t \in Nat : t = Target(Wake) /\ t <= Target(bound) /\ Target(bound) \in Nat
      BY <1>1, WakeIsNear
    <3>3. id \in Ids /\ \A r \in rows : r.id = id => Due(r) <= t
      BY <1>1, <2>1, <3>2 DEF Relied, Entry
    <3>4. Publish(id, old) /\ prearm' = IF prearm = id THEN id ELSE 0
      BY <1>4, <2>1, <2>3, <3>1 DEF PublishScheduled
    <3>5. prearm' \in Ids /\ UNCHANGED phase /\ batch' \subseteq batch
      BY <1>1, <3>3, <3>4, TicksAssumption DEF Ids
    <3>6. RowsOK' /\ rows' \subseteq rows /\ Within(t)'
      BY <1>1, <2>3, <3>3, <3>4, <3>5, PublishLeaves
    <3>7. phase' \in Int /\ bound' = bound /\ accepted' = accepted
      BY <1>1, ShapeRows DEF jobs
    <3>8. Armed(Target(bound))'
      <4>1. PICK u \in Nat : u = Target(bound) /\ u = Target(bound)'
        BY <3>2, <3>7
      <4>2. Armed(u)'
        BY <3>2, <3>6, <3>7, <4>1, WithinArms
      <4>. QED
        BY <4>1, <4>2
    <3>9. accepted' => Within(SECOND)'
      BY <1>1, <3>2, <3>6, <3>7, WakeIsNear, ShapeRows DEF JobsOK
    <3>10. /\ pump' \in [pc : Phases, cur : Ids, retried : BOOLEAN]
           /\ pump'.cur = pump.cur /\ pump'.pc = "done"
      BY <1>1, <1>4 DEF TypeOK, At, Phases
    <3>11. \A r \in rows' : r.id # pump'.cur
      BY <1>1, <3>6, <3>10 DEF Gone
    <3>12. PumpLeaves
      BY <1>1, <1>4, <3>10 DEF PumpLeaves
    <3>. QED
      BY <1>1, <1>2, <3>6, <3>8, <3>9, <3>10, <3>11, <3>12, PumpGoesOn
  <2>. QED
    BY <2>2, <2>3
<1>. QED
  BY <1>3, <1>4 DEF FinishRearm

-----------------------------------------------------------------------------
(***************************************************************************)
(* The alarm handler, and the callback until its turn.                     *)
(***************************************************************************)

\* A state that differs in no row, await or job from a good one.
LEMMA RowsAndJobsSame ==
    ASSUME WakeInv, UNCHANGED <<phase, schedule, awaits, enabled, jobs>>,
           batch' \subseteq rows,
           pump.pc \notin {"turn", "await"}, pump' = [pump EXCEPT !.pc = "scan"]
    PROVE  WakeInv'
<1>1. /\ phase' = phase /\ rows' = rows /\ driver' = driver /\ prearm' = prearm
      /\ awaits' = awaits /\ enabled' = enabled
      /\ queued' = queued /\ full' = full /\ bound' = bound
      /\ accepted' = accepted /\ unarmed' = unarmed
  BY DEF schedule, jobs
<1>2. pump'.pc = "scan" /\ pump'.cur = pump.cur
  BY DEF WakeInv, Shape, TypeOK
<1>3. TypeOK'
  BY <1>1 DEF WakeInv, Shape, TypeOK, Phases
<1>4. SameIds' /\ CurrentGone'
  BY <1>1, <1>2 DEF WakeInv, Shape, SameIds, CurrentGone
<1>5. Turns' /\ JobsOK'
  BY <1>1, <1>2 DEF WakeInv, Shape, Turns, JobsOK, Stored
<1>6. AllRelied'
  BY <1>1, <1>2 DEF WakeInv, AllRelied, Relied, Due, Wake, Within, Live, Armed, Stored
<1>7. Promised'
  BY <1>1, <1>2 DEF WakeInv, Promised, Within, Due, Live, Armed, Stored
<1>. QED
  BY <1>3, <1>4, <1>5, <1>6, <1>7 DEF WakeInv, Shape

LEMMA AlarmScanStep ==
    ASSUME WakeInv, AlarmScan
    PROVE  WakeInv'
<1>1. /\ UNCHANGED <<phase, schedule, awaits, enabled, jobs>>
      /\ batch' \subseteq rows /\ pump' = [pump EXCEPT !.pc = "scan"]
      /\ pump.pc = "idle"
  BY DEF AlarmScan, At, Idle
<1>. QED
  BY <1>1, RowsAndJobsSame

\* When the callback returns its row is gone already: nothing changes but the pump.
LEMMA ConsumeStep ==
    ASSUME WakeInv, Consume
    PROVE  WakeInv'
<1>0. Shape /\ pump.pc = "done"
  BY DEF WakeInv, Consume
<1>1. Gone
  BY <1>0, GoneByNow
<1>2. /\ phase' = phase /\ rows' = rows /\ driver' = driver /\ prearm' = prearm
      /\ awaits' = awaits /\ enabled' = enabled /\ batch' = batch
      /\ queued' = queued /\ full' = full /\ bound' = bound
      /\ accepted' = accepted /\ unarmed' = unarmed
  BY <1>1 DEF Consume, Without, Gone, jobs
<1>3. pump' \in [pc : Phases, cur : Ids, retried : BOOLEAN] /\ pump'.pc \in {"idle", "scan"}
  <2>1. pump' = Idle \/ pump' = [Idle EXCEPT !.pc = "scan"]
    BY DEF Consume
  <2>2. /\ Idle \in [pc : Phases, cur : Ids, retried : BOOLEAN] /\ Idle.pc = "idle"
    BY TicksAssumption DEF Idle, Phases, Ids
  <2>3. /\ [Idle EXCEPT !.pc = "scan"] \in [pc : Phases, cur : Ids, retried : BOOLEAN]
        /\ [Idle EXCEPT !.pc = "scan"].pc = "scan"
    BY <2>2 DEF Phases
  <2>. QED
    BY <2>1, <2>2, <2>3
<1>4. TypeOK'
  BY <1>0, <1>2, <1>3 DEF Shape, TypeOK
<1>5. SameIds' /\ CurrentGone'
  BY <1>0, <1>2, <1>3 DEF Shape, SameIds, CurrentGone
<1>6. Turns' /\ JobsOK'
  BY <1>0, <1>2, <1>3 DEF Shape, Turns, JobsOK, Stored
<1>7. AllRelied'
  <2>1. \A i \in 1 .. Len(awaits) : awaits[i].by \notin {"prearm", "prearmKick"}
    BY <1>0 DEF Shape, Turns, Public
  <2>. QED
    BY <1>2, <1>3, <2>1 DEF WakeInv, AllRelied, Relied, Due, Wake, Within, Live
<1>8. Promised'
  BY <1>2, <1>3 DEF WakeInv, Promised, Within, Due, Live, Armed, Stored
<1>. QED
  BY <1>4, <1>5, <1>6, <1>7, <1>8 DEF WakeInv, Shape

\* A row that is skipped is not live, nor is any with its id.
LEMMA SkipStaleStep ==
    ASSUME WakeInv, NEW s \in batch, SkipStale(s)
    PROVE  WakeInv'
<1>0. Shape /\ RowsOK /\ TypeOK /\ pump.pc = "scan"
  BY ShapeRows DEF WakeInv, SkipStale
<1>1. /\ phase' = phase /\ driver' = driver /\ prearm' = prearm
      /\ rows' = {r \in rows : r.id # s.id} /\ batch' \subseteq batch
      /\ awaits' = awaits /\ enabled' = enabled
      /\ queued' = queued /\ full' = full /\ bound' = bound
      /\ accepted' = accepted /\ unarmed' = unarmed
  BY DEF SkipStale, Without, jobs
<1>2. pump' \in [pc : Phases, cur : Ids, retried : BOOLEAN] /\ pump'.pc \in {"idle", "scan"}
  <2>1. /\ Idle \in [pc : Phases, cur : Ids, retried : BOOLEAN] /\ Idle.pc = "idle"
    BY TicksAssumption DEF Idle, Phases, Ids
  <2>2. pump' = Idle \/ pump' = pump
    BY DEF SkipStale
  <2>. QED
    BY <1>0, <2>1, <2>2 DEF TypeOK
<1>3. \A r \in rows : Live(r) => r \in rows' /\ Live(r)'
  BY <1>0, <1>1 DEF SkipStale, Live, RowsOK, SameIds
<1>4. RowsOK'
  BY <1>0, <1>1, FewerRows DEF RowsOK
<1>5. \A r \in rows : Due(r)' = Due(r)
  BY <1>1 DEF Due
<1>6. \A t : Within(t) => Within(t)'
  BY <1>3, <1>5 DEF Within
<1>7. \A t : Armed(t) => Armed(t)'
  BY <1>1, <1>3, <1>6 DEF Armed, Stored
<1>8. TypeOK' /\ SameIds'
  BY <1>0, <1>1, <1>2, <1>4 DEF TypeOK, RowsOK
<1>9. Turns' /\ CurrentGone' /\ JobsOK'
  BY <1>0, <1>1, <1>2 DEF Shape, Turns, CurrentGone, JobsOK, Stored
<1>10. AllRelied'
  <2>1. \A i \in 1 .. Len(awaits) : awaits[i].by \notin {"prearm", "prearmKick"}
    BY <1>0 DEF Shape, Turns, Public
  <2>. QED
    BY <1>1, <1>2, <1>6, <2>1 DEF WakeInv, AllRelied, Relied, Due, Wake
<1>11. Promised'
  BY <1>1, <1>2, <1>6, <1>7 DEF WakeInv, Promised
<1>. QED
  BY <1>8, <1>9, <1>10, <1>11 DEF WakeInv, Shape

\* The callback waits, perhaps behind a public handler.
LEMMA CallbackWaits ==
    ASSUME WakeInv, pump.pc = "scan", NEW e \in Entry, e.by \in Entering,
           awaits' = Append(awaits, e), Relied(e)',
           UNCHANGED <<phase, enabled, jobs>>,
           pump' \in [pc : Phases, cur : Ids, retried : BOOLEAN], pump'.pc = "await",
           e.by = "prearm" \/ \A r \in rows' : r.id # pump'.cur,
           RowsOK', \A r \in rows' : r \in rows \/ \A i \in 1 .. Len(awaits) : awaits[i].id # r.id,
           Within(SECOND) => Within(SECOND)', Armed(Target(bound))'
    PROVE  WakeInv'
<1>0. /\ phase' = phase /\ enabled' = enabled /\ queued' = queued /\ full' = full
      /\ bound' = bound /\ accepted' = accepted /\ unarmed' = unarmed
  BY DEF jobs
<1>1. /\ awaits' \in Seq(Entry) /\ Len(awaits) \in Nat /\ Len(awaits') = Len(awaits) + 1
      /\ \A i \in 1 .. Len(awaits) : awaits'[i] = awaits[i] /\ awaits[i] \in Entry
      /\ awaits'[Len(awaits) + 1] = e
  BY AppendProperties, LenProperties DEF WakeInv, Shape, TypeOK
<1>2. CASE awaits = <<>>
  <2>1. Len(awaits) = 0
    BY <1>2
  <2>. QED
    <3>1. Len(awaits') = 1 /\ awaits'[1] = e /\ e.by \notin Public
      BY <1>1, <2>1 DEF Entering, Public
    <3>2. Turns'
      BY <3>1 DEF Turns
    <3>3. AllRelied'
      BY <3>1 DEF AllRelied
    <3>4. CurrentGone'
      BY <3>1 DEF CurrentGone, Gone
    <3>5. TypeOK' /\ SameIds'
      BY <1>0, <1>1 DEF WakeInv, Shape, TypeOK, RowsOK
    <3>6. JobsOK' /\ Promised'
      BY <1>0 DEF WakeInv, Shape, JobsOK, Promised, Stored
    <3>. QED
      BY <3>2, <3>3, <3>4, <3>5, <3>6 DEF WakeInv, Shape
<1>3. CASE Len(awaits) = 1 /\ awaits[1].by \in Public
  <2>1. /\ Len(awaits') = 2 /\ awaits'[1] = awaits[1] /\ awaits'[2] = e
        /\ awaits[1] \in Entry
    BY <1>1, <1>3
  <2>2. Turns'
    BY <1>3, <2>1 DEF Turns
  <2>3. PICK a \in Entry : a = awaits[1]
    BY <2>1
  <2>4. Relied(a)'
    <3>1. Relied(a) /\ a.by \in Public
      BY <1>3, <2>3 DEF WakeInv, AllRelied
    <3>2. \A r \in rows' : r.id = a.id => r \in rows
      BY <1>3, <2>3
    <3>3. \A r : Due(r)' = Due(r)
      BY <1>0 DEF Due
    <3>4. Wake' = Wake
      BY <1>0 DEF Wake
    <3>5. a.by \notin {"prearm", "prearmKick", "rearm", "park"}
      BY <3>1 DEF Public
    <3>6. \A r \in rows' : a.by \in {"mutation", "rearm"} /\ r.id = a.id => Due(r)' <= Target(Wake)'
      BY <3>1, <3>2, <3>3, <3>4 DEF Relied
    <3>7. a.by = "admission" => Within(SECOND)'
      BY <3>1 DEF Relied
    <3>. QED
      BY <3>5, <3>6, <3>7 DEF Relied
  <2>5. AllRelied'
    <3>1. awaits'[1] = a /\ 1 .. Len(awaits') = {1, 2}
      BY <2>1, <2>3
    <3>. QED
      BY <2>1, <2>4, <3>1 DEF AllRelied
  <2>6. CurrentGone'
    BY <2>1 DEF CurrentGone, Gone, Entering
  <2>7. TypeOK' /\ SameIds'
    BY <1>0, <1>1 DEF WakeInv, Shape, TypeOK, RowsOK
  <2>8. JobsOK' /\ Promised'
    BY <1>0 DEF WakeInv, Shape, JobsOK, Promised, Stored
  <2>. QED
    BY <2>2, <2>5, <2>6, <2>7, <2>8 DEF WakeInv, Shape
<1>. QED
  BY <1>2, <1>3 DEF WakeInv, Shape, Turns

LEMMA StartCallbackStep ==
    ASSUME WakeInv, NEW s \in batch, StartCallback(s)
    PROVE  WakeInv'
<1>0. /\ Shape /\ RowsOK /\ TypeOK /\ Promised /\ phase' \in Int /\ pump.pc = "scan"
      /\ s \in Row /\ s.id \in Ids /\ SECOND \in Nat
      /\ UNCHANGED <<phase, enabled, jobs>> /\ batch' \subseteq batch
  BY ShapeRows, TicksAssumption DEF WakeInv, StartCallback, RowsOK, Row, RowIds, Ids
<1>1. /\ pump' \in [pc : Phases, cur : Ids, retried : BOOLEAN]
      /\ pump'.pc = "await" /\ pump'.cur = s.id
  BY <1>0 DEF StartCallback, Phases
<1>2. bound' = bound /\ unarmed' = unarmed
  BY <1>0 DEF jobs
<1>3. PICK t \in Nat : t = Target(bound) /\ t = Target(bound)' /\ SECOND <= t
  BY <1>0, <1>2, WakeIsNear
<1>4. CASE InsertRow(FALSE, SoonSecond) /\ Await("prearm", NewId, SoonSecond)
  <2>1. InsertRow(FALSE, SecondsOf(SECOND))
    BY <1>4 DEF SoonSecond
  <2>2. /\ RowsOK' /\ NewId \in Ids /\ SecondsOf(SECOND) \in Nat
        /\ rows \subseteq rows' /\ UNCHANGED driver
        /\ \A r \in rows' : r \in rows \/ r.id = NewId
        /\ \A r \in rows' : r.id = NewId => Due(r)' <= SECOND
        /\ \A i \in 1 .. Len(awaits) : awaits[i].id # NewId
        /\ \A r \in batch : r.id # NewId
    BY <1>0, <2>1, InsertionLeaves
  <2>3. PICK e : e = [by |-> "prearm", id |-> NewId, sec |-> SoonSecond]
    OBVIOUS
  <2>4. e \in Entry /\ e.by = "prearm" /\ e.id = NewId
    BY <2>2, <2>3 DEF Entry, Entering, SoonSecond
  <2>5. awaits' = Append(awaits, e)
    BY <1>4, <2>3 DEF Await
  <2>6. Relied(e)'
    <3>1. e.id # pump'.cur /\ \A r \in rows' : r.id = e.id => Due(r)' <= SECOND
      BY <1>1, <2>2, <2>4
    <3>. QED
      BY <2>4, <3>1 DEF Relied
  <2>7. Armed(t)'
    BY <1>0, <1>2, <1>3, <2>2, WithinStays DEF Promised, Armed, Stored
  <2>8. Within(SECOND) => Within(SECOND)'
    BY <1>0, <2>2, WithinStays
  <2>9. \A r \in rows' : r \in rows \/ \A i \in 1 .. Len(awaits) : awaits[i].id # r.id
    BY <2>2
  <2>. QED
    BY <1>0, <1>1, <1>3, <2>2, <2>4, <2>5, <2>6, <2>7, <2>8, <2>9, CallbackWaits DEF Entering
<1>5. CASE PersistFallback /\ Await("prearmKick", 0, 0)
  <2>1. /\ RowsOK' /\ Within(SECOND)'
        /\ \A r \in rows' : \A i \in 1 .. Len(awaits) : awaits[i].id # r.id
    BY <1>0, <1>5, FallbackLeaves
  <2>2. \A r \in rows' : r.id # s.id
    BY <1>0, <1>5, FreshIds DEF PersistFallback
  <2>3. PICK e : e = [by |-> "prearmKick", id |-> 0, sec |-> 0]
    OBVIOUS
  <2>4. e \in Entry /\ e.by = "prearmKick"
    BY <2>3, TicksAssumption DEF Entry, Entering, Ids
  <2>5. awaits' = Append(awaits, e)
    BY <1>5, <2>3 DEF Await
  <2>6. Armed(t)'
    BY <1>0, <1>3, <2>1, WithinArms
  <2>7. Relied(e)'
    <3>1. PICK u \in Nat : u = Target(Wake) /\ u = Target(Wake)' /\ SECOND <= u
      BY <1>0, WakeIsNear DEF jobs, Wake
    <3>2. Armed(u)'
      BY <1>0, <2>1, <3>1, WithinArms
    <3>. QED
      BY <2>4, <3>1, <3>2 DEF Relied
  <2>. QED
    BY <1>0, <1>1, <1>3, <2>1, <2>2, <2>4, <2>5, <2>6, <2>7, CallbackWaits DEF Entering
<1>. QED
  BY <1>4, <1>5 DEF StartCallback

\* The turn begins with a successor.
LEMMA TurnBegins ==
    ASSUME Shape, RowsOK', awaits' = <<>>, At("turn"),
           UNCHANGED <<phase, enabled, queued, full, bound, accepted>>, unarmed' \in BOOLEAN,
           \A r \in rows' : r.id # pump.cur,
           Armed(Target(bound))', Armed(Target(Wake))', accepted => Within(SECOND)'
    PROVE  WakeInv'
<1>1. pump' \in [pc : Phases, cur : Ids, retried : BOOLEAN] /\ pump'.pc = "turn" /\ pump'.cur = pump.cur
  BY DEF At, Shape, TypeOK, Phases
<1>2. TypeOK' /\ SameIds'
  BY <1>1, EmptySeq DEF Shape, TypeOK, RowsOK
<1>3. Turns' /\ CurrentGone'
  BY <1>1 DEF Turns, CurrentGone, Gone
<1>4. JobsOK' /\ Promised'
  BY DEF Shape, JobsOK, Promised, Stored
<1>5. AllRelied'
  <2>1. Len(awaits') = 0
    OBVIOUS
  <2>. QED
    BY <2>1 DEF AllRelied
<1>. QED
  BY <1>2, <1>3, <1>4, <1>5 DEF WakeInv, Shape

LEMMA FinishPrearmKickStep ==
    ASSUME WakeInv, FinishPrearmKick
    PROVE  WakeInv'
<1>0. /\ Shape /\ Promised /\ TypeOK /\ RowsOK /\ Confirmed("prearmKick")
      /\ UNCHANGED <<phase, schedule, batch, enabled, jobs>> /\ awaits' = Rest /\ At("turn")
  BY ShapeRows DEF WakeInv, FinishPrearmKick
<1>1. Len(awaits) = 1 /\ awaits[1].by = "prearmKick" /\ Rest = <<>> /\ pump.pc = "await"
  BY <1>0, PumpConfirmed DEF Entering
<1>2. Gone
  BY <1>0, <1>1, GoneByNow
<1>3. Armed(Target(Wake))
  BY <1>1 DEF WakeInv, AllRelied, Relied
<1>4. /\ phase' = phase /\ rows' = rows /\ driver' = driver /\ prearm' = prearm
      /\ batch' = batch /\ enabled' = enabled
      /\ queued' = queued /\ full' = full /\ bound' = bound
      /\ accepted' = accepted /\ unarmed' = unarmed
  BY <1>0 DEF schedule, jobs
<1>5. RowsOK'
  BY <1>0, <1>4, FewerRows DEF RowsOK
<1>6. Armed(Target(Wake))' /\ Armed(Target(bound))' /\ (accepted => Within(SECOND)')
  BY <1>0, <1>3, <1>4 DEF Promised, Armed, Within, Due, Live, Stored, Wake
<1>7. unarmed' \in BOOLEAN /\ \A r \in rows' : r.id # pump.cur
  BY <1>0, <1>2, <1>4 DEF TypeOK, Gone
<1>. QED
  BY <1>0, <1>1, <1>4, <1>5, <1>6, <1>7, TurnBegins

LEMMA FinishPrearmStep ==
    ASSUME WakeInv, FinishPrearm
    PROVE  WakeInv'
<1>0. /\ Shape /\ Promised /\ TypeOK /\ RowsOK /\ Confirmed("prearm")
      /\ UNCHANGED <<phase, batch, enabled, queued, full, bound, accepted>>
      /\ unarmed' = FALSE /\ phase' \in Int /\ SECOND \in Nat /\ batch' \subseteq batch
  BY ShapeRows, TicksAssumption DEF WakeInv, FinishPrearm
<1>1. /\ Len(awaits) = 1 /\ awaits[1].by = "prearm" /\ Head(awaits) = awaits[1]
      /\ awaits[1] \in Entry /\ Rest = <<>> /\ pump.pc = "await"
  BY <1>0, PumpConfirmed DEF Entering
<1>2. PICK id \in Ids : id = Head(awaits).id
  BY <1>1 DEF Entry
<1>3. PICK cur : cur = pump.cur
  OBVIOUS
<1>4. id # cur /\ \A r \in rows : r.id = id => Due(r) <= SECOND
  BY <1>1, <1>2, <1>3 DEF WakeInv, AllRelied, Relied
<1>5. PICK t \in Nat : t = Target(bound) /\ t = Target(bound)' /\ SECOND <= t
  BY <1>0, WakeIsNear
<1>6. PICK u \in Nat : u = Target(Wake) /\ u = Target(Wake)' /\ SECOND <= u
  BY <1>0, WakeIsNear DEF Wake
<1>7. CASE /\ \E r \in rows : r.id = id
           /\ Publish(id, cur) /\ prearm' = id /\ awaits' = Rest /\ At("turn")
  <2>1. RowsOK' /\ Within(SECOND)' /\ \A r \in rows' : r.id # cur
    BY <1>0, <1>4, <1>7, PublishLeaves
  <2>2. Armed(t)' /\ Armed(u)'
    BY <1>0, <1>5, <1>6, <2>1, WithinArms
  <2>. QED
    BY <1>0, <1>1, <1>3, <1>5, <1>6, <1>7, <2>1, <2>2, TurnBegins
<1>8. CASE PersistFallback /\ ToAwait(Rest, "prearmKick", 0, 0) /\ UNCHANGED pump
  <2>1. RowsOK' /\ Within(SECOND)' /\ \A r \in rows' : r.id # cur
    BY <1>0, <1>3, <1>8, FallbackLeaves
  <2>2. Armed(t)' /\ Armed(u)'
    BY <1>0, <1>5, <1>6, <2>1, WithinArms
  <2>3. PICK e : e = [by |-> "prearmKick", id |-> 0, sec |-> 0]
    OBVIOUS
  <2>4. e \in Entry /\ e.by = "prearmKick"
    BY <2>3, TicksAssumption DEF Entry, Entering, Ids
  <2>5. awaits' \in Seq(Entry) /\ Len(awaits') = 1 /\ awaits'[1] = e
    BY <1>1, <1>8, <2>3, <2>4, SingleAwait DEF ToAwait
  <2>6. Relied(e)'
    BY <1>6, <2>2, <2>4 DEF Relied
  <2>7. AllRelied' /\ Turns' /\ CurrentGone'
    <3>1. AllRelied'
      BY <2>5, <2>6 DEF AllRelied
    <3>2. Turns'
      BY <1>1, <1>8, <2>4, <2>5 DEF Turns, Public
    <3>3. CurrentGone'
      BY <1>3, <1>8, <2>1 DEF CurrentGone, Gone
    <3>. QED
      BY <3>1, <3>2, <3>3
  <2>8. TypeOK' /\ SameIds'
    BY <1>0, <1>8, <2>1, <2>5 DEF TypeOK, RowsOK
  <2>9. JobsOK'
    BY <1>0 DEF Shape, JobsOK, Stored
  <2>10. Promised'
    BY <1>1, <1>5, <1>8, <2>1, <2>2 DEF Promised
  <2>. QED
    BY <2>7, <2>8, <2>9, <2>10 DEF WakeInv, Shape
<1>. QED
  BY <1>2, <1>3, <1>7, <1>8 DEF FinishPrearm

-----------------------------------------------------------------------------
(***************************************************************************)
(* Steps that find no handler under way.                                   *)
(***************************************************************************)

JobsTyped ==
    /\ queued \in BOOLEAN /\ full \in BOOLEAN /\ accepted \in BOOLEAN /\ unarmed \in BOOLEAN
    /\ bound \in 0 .. FOREVER

\* What arms the pump for some time does so after a step that takes no row from it,
\* for that time and for any after it.
LEMMA ArmedMoves ==
    ASSUME RowsOK, phase \in Int, NEW t \in Int, NEW u \in Int, t <= u, Stored, Armed(t),
           rows \subseteq rows', UNCHANGED <<phase, driver, unarmed>>
    PROVE  Armed(u)'
<1>1. Armed(u)
  BY ArmedFarther
<1>. QED
  BY <1>1, WithinStays DEF Armed

\* A step that awaits nothing.
LEMMA JobsMove ==
    ASSUME WakeInv, awaits = <<>>, awaits' = <<>>, UNCHANGED <<phase, pump, enabled>>,
           RowsOK', \A r \in rows' : r \in rows \/ r.id # pump.cur,
           JobsTyped', JobsOK',
           Armed(Target(bound))', accepted' => Within(SECOND)',
           pump.pc = "turn" /\ enabled => Armed(Target(Wake))'
    PROVE  WakeInv'
<1>1. TypeOK' /\ SameIds'
  BY EmptySeq DEF WakeInv, Shape, TypeOK, RowsOK, JobsTyped
<1>2. Len(awaits) = 0
  OBVIOUS
<1>3. Turns' /\ CurrentGone' /\ AllRelied'
  BY <1>2 DEF WakeInv, Shape, Turns, CurrentGone, Gone, AllRelied
<1>. QED
  BY <1>1, <1>3 DEF WakeInv, Shape, Promised

\* A step after which a public handler waits.
LEMMA PublicWaits ==
    ASSUME WakeInv, awaits = <<>>, UNCHANGED <<phase, pump, enabled>>,
           NEW e \in Entry, awaits' = Append(<<>>, e), e.by \in Public, Relied(e)',
           RowsOK', \A r \in rows' : r \in rows \/ r.id # pump.cur,
           JobsTyped', JobsOK',
           Armed(Target(bound))', accepted' => Within(SECOND)'
    PROVE  WakeInv'
<1>1. awaits' \in Seq(Entry) /\ Len(awaits') = 1 /\ awaits'[1] = e
  BY SingleAwait
<1>2. TypeOK' /\ SameIds'
  BY <1>1 DEF WakeInv, Shape, TypeOK, RowsOK, JobsTyped
<1>3. Len(awaits) = 0
  OBVIOUS
<1>4. Turns' /\ CurrentGone'
  BY <1>1, <1>3 DEF WakeInv, Shape, Turns, CurrentGone, Gone
<1>5. AllRelied'
  BY <1>1 DEF AllRelied
<1>6. awaits' # <<>>
  BY <1>1, <1>3
<1>. QED
  BY <1>2, <1>4, <1>5, <1>6 DEF WakeInv, Shape, Promised

LEMMA TurnWorkStep ==
    ASSUME WakeInv, TurnWork
    PROVE  WakeInv'
<1>0. /\ Shape /\ Promised /\ TypeOK /\ RowsOK /\ phase \in Int /\ Stored
      /\ awaits = <<>> /\ awaits' = <<>> /\ pump.pc = "turn"
      /\ UNCHANGED <<phase, pump, batch, enabled, unarmed>>
      /\ rows' = rows /\ driver' = driver /\ prearm' = prearm
      /\ FOREVER \in Nat /\ SECOND \in Nat
  BY ShapeRows, TicksAssumption DEF WakeInv, TurnWork, Open, schedule, FOREVER
<1>1. RowsOK'
  BY <1>0, FewerRows DEF RowsOK
<1>2. JobsTyped' /\ bound' \in Nat
  BY <1>0 DEF TurnWork, JobsTyped, TypeOK
<1>3. JobsOK'
  BY DEF TurnWork, JobsOK, Stored
<1>4. accepted' => Within(SECOND)'
  <2>1. accepted' => accepted
    BY DEF TurnWork
  <2>. QED
    BY <1>0, <2>1, WithinStays DEF Promised
<1>5. PICK t \in Nat : t = Target(bound)'
  BY <1>2, Targets
<1>6. SECOND <= t
  BY <1>2, <1>5, Targets
<1>7. Armed(t)'
  <2>1. CASE bound' >= bound
    <3>1. PICK s \in Nat : s = Target(bound) /\ bound \in Nat
      BY <1>0, WakeIsNear
    <3>2. s <= t
      BY <1>2, <1>5, <2>1, <3>1, NearerTarget
    <3>3. Armed(s)
      BY <3>1 DEF WakeInv, Promised
    <3>. QED
      BY <1>0, <3>1, <3>2, <3>3, ArmedMoves
  <2>2. CASE enabled /\ Wake = 0
    <3>1. Armed(Target(0))
      BY <1>0, <2>2 DEF Promised
    <3>2. Armed(SECOND)
      BY <1>0, <3>1, WakeIsNear
    <3>. QED
      BY <1>0, <1>6, <3>2, ArmedMoves
  <2>3. CASE ~ enabled /\ bound = 0
    <3>1. Armed(Target(0))
      BY <1>0, <2>3 DEF Promised
    <3>2. Armed(SECOND)
      BY <1>0, <3>1, WakeIsNear
    <3>. QED
      BY <1>0, <1>6, <3>2, ArmedMoves
  <2>. QED
    BY <2>1, <2>2, <2>3 DEF TurnWork
<1>8. Armed(Target(bound))'
  BY <1>5, <1>7
<1>9. enabled => Wake' = bound'
  BY DEF TurnWork, Wake, WakeOf
<1>10. enabled => Armed(Target(Wake))'
  <2>1. ASSUME enabled PROVE Target(Wake)' = t
    BY <1>5, <1>9, <2>1
  <2>. QED
    BY <1>7, <2>1
<1>. QED
  BY <1>0, <1>1, <1>2, <1>3, <1>4, <1>8, <1>10, JobsMove

LEMMA ReadPurgesStep ==
    ASSUME WakeInv, ReadPurges
    PROVE  WakeInv'
<1>0. /\ Shape /\ Promised /\ TypeOK /\ RowsOK /\ phase \in Int /\ Stored /\ bound = 0
      /\ awaits = <<>> /\ awaits' = <<>>
      /\ UNCHANGED <<phase, pump, batch, enabled, unarmed>>
      /\ rows' = rows /\ driver' = driver /\ prearm' = prearm
      /\ FOREVER \in Nat /\ SECOND \in Nat
  BY ShapeRows, TicksAssumption DEF WakeInv, ReadPurges, Open, schedule, FOREVER
<1>1. RowsOK'
  BY <1>0, FewerRows DEF RowsOK
<1>2. JobsTyped' /\ bound' \in Nat
  <2>1. full' \in BOOLEAN /\ queued' \in BOOLEAN /\ unarmed' \in BOOLEAN
    BY <1>0 DEF ReadPurges, TypeOK
  <2>2. accepted' \in BOOLEAN
    BY DEF ReadPurges
  <2>3. bound' \in 0 .. FOREVER /\ bound' \in Nat
    BY <1>0 DEF ReadPurges
  <2>. QED
    BY <2>1, <2>2, <2>3 DEF JobsTyped
<1>3. JobsOK' /\ (accepted' => accepted)
  <2>1. accepted' => accepted /\ queued'
    BY DEF ReadPurges
  <2>2. full' => full
    BY DEF ReadPurges
  <2>3. queued' \/ full' => bound' # FOREVER
    BY DEF ReadPurges
  <2>4. accepted => ~ full
    BY <1>0 DEF Shape, JobsOK
  <2>. QED
    BY <2>1, <2>2, <2>3, <2>4 DEF JobsOK, Stored
<1>4. accepted' => Within(SECOND)'
  BY <1>0, <1>3, WithinStays DEF Promised
<1>5. Wake' \in Nat
  BY <1>2 DEF Wake, WakeOf
<1>6. Armed(SECOND)
  BY <1>0, WakeIsNear DEF Promised
<1>7. PICK t \in Nat, u \in Nat : /\ t = Target(bound)' /\ SECOND <= t
                                  /\ u = Target(Wake)' /\ SECOND <= u
  BY <1>2, <1>5, Targets
<1>8. Armed(t)' /\ Armed(u)'
  BY <1>0, <1>6, <1>7, ArmedMoves
<1>. QED
  BY <1>0, <1>1, <1>2, <1>3, <1>4, <1>7, <1>8, JobsMove

-----------------------------------------------------------------------------
(***************************************************************************)
(* The public handlers.                                                    *)
(***************************************************************************)

\* A job that is committed while a row is due within a second is armed for.
LEMMA CommitLeaves ==
    ASSUME Shape, CommitJob, Within(SECOND)', RowsOK', UNCHANGED phase
    PROVE  /\ JobsTyped' /\ JobsOK'
           /\ Armed(Target(bound))' /\ Armed(Target(Wake))'
<1>0. TypeOK /\ JobsOK /\ phase' \in Int /\ FOREVER \in Nat /\ SECOND \in Nat /\ MAX_BOUND \in Nat
  BY ShapeRows, TicksAssumption DEF FOREVER
<1>1. queued' = TRUE /\ full' = full /\ unarmed' = unarmed /\ bound' \in 0 .. MAX_BOUND
  BY DEF CommitJob
<1>2. accepted' \in BOOLEAN /\ (accepted' => ~ full)
  BY <1>0 DEF CommitJob, JobsOK
<1>3. bound' \in Nat /\ bound' \in 0 .. FOREVER /\ bound' # FOREVER
  BY <1>0, <1>1 DEF FOREVER
<1>4. JobsTyped' /\ JobsOK'
  BY <1>0, <1>1, <1>2, <1>3 DEF JobsTyped, JobsOK, TypeOK, Stored
<1>5. Wake' \in Nat
  BY <1>3 DEF Wake, WakeOf
<1>6. PICK t \in Nat, u \in Nat : /\ t = Target(bound)' /\ SECOND <= t
                                  /\ u = Target(Wake)' /\ SECOND <= u
  BY <1>3, <1>5, Targets
<1>7. Armed(t)' /\ Armed(u)'
  BY <1>0, <1>6, WithinArms
<1>. QED
  BY <1>4, <1>6, <1>7

\* Without a change of the jobs and of what arms the pump.
LEMMA JobsUnchanged ==
    ASSUME Shape, Promised, UNCHANGED <<phase, jobs>>, rows \subseteq rows', UNCHANGED driver
    PROVE  /\ JobsTyped' /\ JobsOK'
           /\ Armed(Target(bound))' /\ (accepted' => Within(SECOND)')
<1>1. /\ phase' = phase /\ driver' = driver
      /\ queued' = queued /\ full' = full /\ bound' = bound
      /\ accepted' = accepted /\ unarmed' = unarmed
  BY DEF jobs
<1>2. JobsTyped' /\ JobsOK'
  BY <1>1 DEF JobsTyped, JobsOK, Shape, TypeOK, Stored
<1>3. PICK t \in Nat : t = Target(bound) /\ t = Target(bound)'
  BY <1>1, ShapeRows, WakeIsNear
<1>4. Armed(t)'
  BY <1>1, <1>3, WithinStays DEF Promised, Armed, Stored
<1>5. accepted' => Within(SECOND)'
  BY <1>1, WithinStays, TicksAssumption DEF Promised
<1>. QED
  BY <1>2, <1>3, <1>4, <1>5

\* A live row of this second or the next is due within a second.
LEMMA SoonIsWithin ==
    ASSUME TypeOK, RowsOK, NEW r \in SoonRows
    PROVE  Within(SECOND)
<1>1. /\ r \in rows /\ Live(r) /\ r.sec <= SoonSecond /\ r.sec \in Nat
      /\ SECOND \in Nat /\ phase \in Int
  BY TicksAssumption DEF SoonRows, RowsOK, Row, TypeOK
<1>2. SoonSecond \in Nat /\ SoonSecond * SECOND - phase <= SECOND
  BY <1>1, SecondsInTime DEF SoonSecond, TypeOK
<1>3. r.sec * SECOND <= SoonSecond * SECOND
  BY <1>1, <1>2
<1>4. Due(r) <= SECOND
  BY <1>1, <1>2, <1>3 DEF Due
<1>. QED
  BY <1>1, <1>4 DEF Within

LEMMA AdmitStep ==
    ASSUME WakeInv, Admit
    PROVE  WakeInv'
<1>0. /\ Shape /\ Promised /\ TypeOK /\ RowsOK /\ phase \in Int /\ SECOND \in Nat
      /\ awaits = <<>> /\ UNCHANGED <<phase, pump, batch, enabled>>
      /\ batch' \subseteq batch
  BY ShapeRows, TicksAssumption DEF WakeInv, Admit, Open
<1>1. ASSUME NEW r \in SoonRows, UNCHANGED schedule,
             IF r.sec = 0
               THEN Await("admission", 0, 0) /\ UNCHANGED jobs
               ELSE CommitJob /\ UNCHANGED awaits
      PROVE  WakeInv'
  <2>1. rows' = rows /\ driver' = driver /\ prearm' = prearm
    BY <1>1 DEF schedule
  <2>2. RowsOK' /\ \A o \in rows' : o \in rows \/ o.id # pump.cur
    BY <1>0, <2>1, FewerRows DEF RowsOK
  <2>3. Within(SECOND)'
    BY <1>0, <1>1, <2>1, SoonIsWithin, WithinStays
  <2>4. CASE r.sec = 0
    <3>1. PICK e : e = [by |-> "admission", id |-> 0, sec |-> 0]
      OBVIOUS
    <3>2. e \in Entry /\ e.by = "admission"
      BY <3>1, TicksAssumption DEF Entry, Public, Ids
    <3>3. awaits' = Append(<<>>, e)
      BY <1>0, <1>1, <2>4, <3>1 DEF Await
    <3>4. Relied(e)'
      BY <2>3, <3>2 DEF Relied
    <3>5. /\ JobsTyped' /\ JobsOK'
          /\ Armed(Target(bound))' /\ (accepted' => Within(SECOND)')
      BY <1>0, <1>1, <2>1, <2>4, JobsUnchanged
    <3>. QED
      BY <1>0, <2>2, <3>2, <3>3, <3>4, <3>5, PublicWaits DEF Public
  <2>5. CASE r.sec # 0
    <3>1. CommitJob /\ awaits' = <<>>
      BY <1>0, <1>1, <2>5
    <3>2. JobsTyped' /\ JobsOK' /\ Armed(Target(bound))' /\ Armed(Target(Wake))'
      BY <1>0, <2>2, <2>3, <3>1, CommitLeaves
    <3>. QED
      BY <1>0, <2>2, <2>3, <3>1, <3>2, JobsMove
  <2>. QED
    BY <2>4, <2>5
<1>2. CASE /\ InsertRow(TRUE, SoonSecond)
           /\ Await("admission", NewId, SoonSecond)
           /\ UNCHANGED jobs
  <2>1. InsertRow(TRUE, SecondsOf(SECOND))
    BY <1>2 DEF SoonSecond
  <2>2. /\ RowsOK' /\ NewId \in Ids /\ SecondsOf(SECOND) \in Nat
        /\ rows \subseteq rows' /\ UNCHANGED driver
        /\ \A r \in rows' : r \in rows \/ r.id = NewId
        /\ Within(SECOND)' /\ NewId # pump.cur
    BY <1>0, <2>1, InsertionLeaves
  <2>3. PICK e : e = [by |-> "admission", id |-> NewId, sec |-> SoonSecond]
    OBVIOUS
  <2>4. e \in Entry /\ e.by = "admission"
    BY <2>2, <2>3 DEF Entry, Public, SoonSecond
  <2>5. awaits' = Append(<<>>, e)
    BY <1>0, <1>2, <2>3 DEF Await
  <2>6. Relied(e)'
    BY <2>2, <2>4 DEF Relied
  <2>7. /\ JobsTyped' /\ JobsOK'
        /\ Armed(Target(bound))' /\ (accepted' => Within(SECOND)')
    BY <1>0, <1>2, <2>2, JobsUnchanged
  <2>8. \A r \in rows' : r \in rows \/ r.id # pump.cur
    BY <2>2
  <2>. QED
    BY <1>0, <2>2, <2>4, <2>5, <2>6, <2>7, <2>8, PublicWaits DEF Public
<1>. QED
  BY <1>1, <1>2 DEF Admit, Earliest

\* A public handler is answered: the callback behind it, if there is one, goes on.
LEMMA PublicEnds ==
    ASSUME WakeInv, NEW by \in Public, Confirmed(by), awaits' = Rest,
           UNCHANGED <<phase, pump, enabled>>,
           RowsOK', rows' \subseteq rows, JobsTyped', JobsOK',
           Armed(Target(bound))', accepted' => Within(SECOND)',
           pump.pc = "turn" /\ enabled => Armed(Target(Wake))',
           Armed(Target(Wake)) => Armed(Target(Wake))'
    PROVE  WakeInv'
<1>0. Shape /\ TypeOK /\ awaits # <<>> /\ Head(awaits) = awaits[1] /\ awaits[1].by \in Public
  BY ShapeRows DEF WakeInv, Confirmed, Shape, TypeOK
<1>1. CASE Len(awaits) = 1 /\ pump.pc # "await"
  <2>1. awaits' = <<>>
    BY <1>0, <1>1, LastAwait
  <2>2. Len(awaits') = 0
    BY <2>1
  <2>3. TypeOK' /\ SameIds'
    BY <1>0, <2>1, EmptySeq DEF TypeOK, RowsOK, JobsTyped
  <2>4. Gone \/ pump.pc \in {"idle", "scan"}
    BY <1>0, <1>1 DEF Shape, CurrentGone, Public
  <2>5. Turns' /\ CurrentGone' /\ AllRelied'
    BY <1>1, <2>1, <2>2, <2>4 DEF Turns, CurrentGone, Gone, AllRelied
  <2>. QED
    BY <2>3, <2>5 DEF WakeInv, Shape, Promised
<1>2. CASE Len(awaits) = 2 /\ awaits[2].by \in Entering /\ pump.pc = "await"
  <2>1. PICK a \in Entry : a = awaits[2]
    BY <1>0, <1>2, FirstOfTwo
  <2>2. awaits' \in Seq(Entry) /\ Len(awaits') = 1 /\ awaits'[1] = a
    BY <1>0, <1>2, <2>1, FirstOfTwo
  <2>3. TypeOK' /\ SameIds'
    BY <1>0, <2>2 DEF TypeOK, RowsOK, JobsTyped
  <2>4. Relied(a) /\ a.by \in Entering /\ a.by \notin Public
    BY <1>2, <2>1 DEF WakeInv, AllRelied, Entering, Public
  <2>5. Relied(a)'
    <3>1. \A r : Due(r)' = Due(r)
      BY DEF Due
    <3>2. /\ a.by \in {"prearm", "prearmKick"}
          /\ a.by = "prearm" => /\ a.id # pump'.cur
                                /\ \A r \in rows' : r.id = a.id => Due(r)' <= SECOND
      BY <2>4, <3>1 DEF Relied, Entering
    <3>3. a.by = "prearmKick" => Armed(Target(Wake))'
      BY <2>4 DEF Relied
    <3>. QED
      BY <3>2, <3>3 DEF Relied
  <2>6. AllRelied'
    BY <2>2, <2>5 DEF AllRelied
  <2>7. Turns'
    BY <1>2, <2>2, <2>4 DEF Turns
  <2>8. CurrentGone'
    <3>1. CASE a.by = "prearm"
      BY <2>2, <3>1 DEF CurrentGone
    <3>2. CASE a.by # "prearm"
      <4>1. 1 .. Len(awaits) = {1, 2} /\ awaits[1].by # "prearm" /\ awaits[2].by # "prearm"
        BY <1>0, <1>2, <2>1, <3>2 DEF Public
      <4>2. Gone
        BY <1>0, <1>2, <4>1 DEF Shape, CurrentGone
      <4>. QED
        BY <4>2 DEF CurrentGone, Gone
    <3>. QED
      BY <3>1, <3>2
  <2>. QED
    BY <1>2, <2>3, <2>6, <2>7, <2>8 DEF WakeInv, Shape, Promised
<1>. QED
  BY <1>0, <1>1, <1>2 DEF Shape, Turns

\* The handler that is answered, and what it relies on.
LEMMA PublicConfirmed ==
    ASSUME WakeInv, NEW by \in Public, Confirmed(by)
    PROVE  /\ Shape /\ Promised /\ TypeOK /\ RowsOK /\ phase \in Int
           /\ Head(awaits) \in Entry /\ Head(awaits).by = by /\ Relied(Head(awaits))
<1>1. awaits \in Seq(Entry) /\ awaits # <<>> /\ Head(awaits).by = by
  BY DEF WakeInv, Shape, TypeOK, Confirmed
<1>2. Head(awaits) = awaits[1] /\ Head(awaits) \in Entry /\ 1 \in 1 .. Len(awaits)
  BY <1>1, HeadTailProperties, EmptySeq
<1>. QED
  BY <1>1, <1>2, ShapeRows DEF WakeInv, AllRelied

LEMMA FinishAdmissionStep ==
    ASSUME WakeInv, FinishAdmission
    PROVE  WakeInv'
<1>0. /\ Confirmed("admission") /\ awaits' = Rest
      /\ UNCHANGED <<phase, pump, batch, enabled>>
      /\ rows' = rows /\ driver' = driver /\ prearm' = prearm
  BY DEF FinishAdmission, schedule
<1>1. /\ Shape /\ Promised /\ TypeOK /\ RowsOK /\ phase \in Int /\ Within(SECOND)
  BY <1>0, PublicConfirmed DEF Public, Relied
<1>2. RowsOK'
  BY <1>0, <1>1, FewerRows DEF RowsOK
<1>3. Within(SECOND)' /\ phase' \in Int /\ SECOND \in Nat
  BY <1>0, <1>1, WithinStays, TicksAssumption
<1>4. JobsTyped' /\ JobsOK' /\ Armed(Target(bound))' /\ Armed(Target(Wake))'
  <2>1. CASE CommitJob
    BY <1>0, <1>1, <1>2, <1>3, <2>1, CommitLeaves
  <2>2. CASE UNCHANGED jobs
    <3>1. JobsTyped' /\ JobsOK' /\ Armed(Target(bound))'
      BY <1>0, <1>1, <2>2, JobsUnchanged
    <3>2. PICK u \in Nat : u = Target(Wake) /\ u = Target(Wake)' /\ SECOND <= u
      BY <1>1, <2>2, WakeIsNear DEF jobs, Wake
    <3>3. Armed(u)'
      BY <1>2, <1>3, <3>2, WithinArms
    <3>. QED
      BY <3>1, <3>2, <3>3
  <2>. QED
    BY <2>1, <2>2 DEF FinishAdmission
<1>. QED
  BY <1>0, <1>2, <1>3, <1>4, PublicEnds DEF Public

LEMMA FinishMutationStep ==
    ASSUME WakeInv, FinishMutation
    PROVE  WakeInv'
<1>0. /\ Confirmed("mutation") /\ awaits' = Rest
      /\ UNCHANGED <<phase, pump, batch, enabled, queued, full, bound, accepted>>
  BY DEF FinishMutation
<1>1. /\ Shape /\ Promised /\ TypeOK /\ RowsOK /\ phase \in Int /\ phase' \in Int
      /\ Head(awaits) \in Entry /\ Head(awaits).by = "mutation" /\ Relied(Head(awaits))
  BY <1>0, PublicConfirmed DEF Public
<1>2. PICK id \in Ids : id = Head(awaits).id
  BY <1>1 DEF Entry
<1>3. PICK t \in Nat : t = Target(bound) /\ t = Target(bound)'
  BY <1>0, <1>1, WakeIsNear
<1>4. PICK u \in Nat : u = Target(Wake) /\ u = Target(Wake)' /\ u <= t
  BY <1>0, <1>1, <1>3, WakeIsNear DEF Wake
<1>5. JobsOK'
  BY <1>0, <1>1 DEF Shape, JobsOK, Stored
<1>6. Stored' = Stored
  BY <1>0 DEF Stored
<1>7. CASE PublishScheduled(Head(awaits).id) /\ UNCHANGED unarmed /\ \E r \in rows : r.id = id
  <2>1. PICK old : old = prearm
    OBVIOUS
  <2>2. \A r \in rows : r.id = id => Due(r) <= u
    BY <1>1, <1>2, <1>4 DEF Relied
  <2>3. Publish(id, old) /\ prearm' = IF prearm = id THEN id ELSE 0
    BY <1>2, <1>7, <2>1 DEF PublishScheduled
  <2>4. prearm' \in Ids /\ UNCHANGED phase /\ batch' \subseteq batch
    BY <1>0, <1>2, <2>3, TicksAssumption DEF Ids
  <2>5. RowsOK' /\ rows' \subseteq rows /\ Within(u)'
    BY <1>1, <1>7, <2>2, <2>3, <2>4, PublishLeaves
  <2>6. Armed(t)' /\ Armed(u)'
    BY <1>1, <1>4, <2>5, WithinArms
  <2>7. accepted' => Within(SECOND)'
    BY <1>0, <1>1, <1>4, <2>5, WakeIsNear, ShapeRows DEF JobsOK
  <2>8. JobsTyped'
    BY <1>0, <1>1, <1>7 DEF JobsTyped, TypeOK
  <2>. QED
    BY <1>0, <1>3, <1>4, <1>5, <2>5, <2>6, <2>7, <2>8, PublicEnds DEF Public
<1>8. CASE PublishScheduled(Head(awaits).id) /\ UNCHANGED unarmed /\ ~ \E r \in rows : r.id = id
  <2>1. rows' = rows /\ driver' = driver /\ prearm' = prearm
    BY <1>2, <1>8 DEF PublishScheduled, schedule
  <2>2. pump.pc # "turn"
    BY <1>1, <1>2, <1>8 DEF Relied
  <2>3. RowsOK'
    BY <1>0, <1>1, <2>1, FewerRows DEF RowsOK
  <2>4. Armed(t)' /\ (Armed(u) => Armed(u)')
    BY <1>0, <1>1, <1>3, <1>6, <1>8, <2>1, WithinStays DEF Promised, Armed
  <2>5. accepted' => Within(SECOND)'
    BY <1>0, <1>1, <2>1, WithinStays, TicksAssumption DEF Promised
  <2>6. JobsTyped'
    BY <1>0, <1>1, <1>8 DEF JobsTyped, TypeOK
  <2>. QED
    BY <1>0, <1>3, <1>4, <1>5, <2>1, <2>2, <2>3, <2>4, <2>5, <2>6, PublicEnds DEF Public
<1>9. CASE unarmed' = TRUE /\ UNCHANGED schedule
  <2>1. rows' = rows /\ driver' = driver /\ prearm' = prearm
    BY <1>9 DEF schedule
  <2>2. RowsOK'
    BY <1>0, <1>1, <2>1, FewerRows DEF RowsOK
  <2>3. Stored => \E r \in rows : Live(r)
    BY <1>1 DEF Promised, Armed, Within
  <2>4. Stored' => (\E r \in rows : Live(r))'
    BY <1>6, <2>1, <2>3 DEF Live
  <2>5. Armed(t)' /\ Armed(u)'
    BY <1>9, <2>4 DEF Armed
  <2>6. accepted' => Within(SECOND)'
    BY <1>0, <1>1, <2>1, WithinStays, TicksAssumption DEF Promised
  <2>7. JobsTyped'
    BY <1>0, <1>1, <1>9 DEF JobsTyped, TypeOK
  <2>. QED
    BY <1>0, <1>3, <1>4, <1>5, <2>1, <2>2, <2>5, <2>6, <2>7, PublicEnds DEF Public
<1>. QED
  BY <1>7, <1>8, <1>9 DEF FinishMutation

LEMMA MutateAndRearmStep ==
    ASSUME WakeInv, MutateAndRearm
    PROVE  WakeInv'
<1>0. /\ Shape /\ Promised /\ TypeOK /\ RowsOK /\ phase \in Int /\ phase' \in Int /\ Stored
      /\ awaits = <<>> /\ UNCHANGED <<phase, pump, batch, enabled>>
      /\ batch' \subseteq batch /\ FOREVER \in Nat \ {0} /\ SECOND \in Nat
  BY ShapeRows, TicksAssumption DEF WakeInv, MutateAndRearm, Open, FOREVER
<1>1. /\ full' \in BOOLEAN /\ queued' \in BOOLEAN /\ accepted' \in BOOLEAN
      /\ full' => full
      /\ accepted' => accepted
      /\ accepted' => queued'
  <2>1. full' \in {FALSE, full} /\ queued' \in {FALSE, queued}
    BY DEF MutateAndRearm
  <2>2. accepted' = (accepted /\ queued')
    BY DEF MutateAndRearm
  <2>3. full' => full
    BY DEF MutateAndRearm
  <2>4. full' \in BOOLEAN /\ queued' \in BOOLEAN
    BY <1>0, <2>1 DEF TypeOK
  <2>5. accepted' \in BOOLEAN /\ (accepted' => accepted) /\ (accepted' => queued')
    BY <2>2
  <2>. QED
    BY <2>3, <2>4, <2>5
<1>2. bound \in Nat /\ bound' \in 0 .. FOREVER /\ bound' \in Nat /\ bound <= bound'
  BY <1>0 DEF MutateAndRearm, TypeOK
<1>3. JobsOK'
  <2>1. queued' \/ full' => bound' # FOREVER
    BY DEF MutateAndRearm
  <2>2. accepted => ~ full
    BY <1>0 DEF Shape, JobsOK
  <2>. QED
    BY <1>1, <2>1, <2>2 DEF JobsOK, Stored
<1>4. PICK w : w = WakeOf(queued', full', bound')
  OBVIOUS
<1>5. w \in Nat /\ w = Wake' /\ w <= bound' /\ (accepted' => w = 0)
  BY <1>1, <1>2, <1>3, <1>4 DEF Wake, WakeOf, JobsOK
<1>6. PICK s \in Nat, t \in Nat, u \in Nat :
         /\ s = Target(bound) /\ t = Target(bound)' /\ u = Target(w) /\ u = Target(Wake)'
         /\ s <= t /\ u <= t
         /\ accepted' => u = SECOND
  <2>1. Target(bound) \in Nat /\ Target(bound') \in Nat /\ Target(w) \in Nat
    BY <1>2, <1>5, Targets
  <2>2. Target(bound) <= Target(bound') /\ Target(w) <= Target(bound')
    BY <1>2, <1>5, NearerTarget
  <2>3. w = 0 => Target(w) = SECOND
    BY <1>0, WakeIsNear
  <2>. QED
    BY <1>5, <2>1, <2>2, <2>3
<1>7. Armed(s)
  BY <1>0, <1>6 DEF Promised
<1>8. CASE w = FOREVER /\ NothingToSchedule /\ UNCHANGED <<awaits, unarmed>>
  <2>1. RowsOK' /\ rows' \subseteq rows
    BY <1>0, <1>8, NothingLeaves
  <2>2. ~ Stored' /\ ~ accepted'
    BY <1>0, <1>2, <1>5, <1>8, <1>4 DEF WakeOf, Stored
  <2>3. Armed(t)' /\ Armed(u)'
    BY <2>2 DEF Armed
  <2>4. JobsTyped'
    BY <1>0, <1>1, <1>2, <1>8 DEF JobsTyped, TypeOK
  <2>. QED
    BY <1>0, <1>3, <1>6, <1>8, <2>1, <2>2, <2>3, <2>4, JobsMove
<1>9. ASSUME NEW r \in rows, Reuse(r, w), UNCHANGED <<awaits, unarmed>>
      PROVE  WakeInv'
  <2>1. RowsOK' /\ rows' \subseteq rows /\ Within(u)'
    BY <1>0, <1>5, <1>6, <1>9, ReuseLeaves
  <2>2. Armed(t)' /\ Armed(u)'
    BY <1>0, <1>6, <2>1, WithinArms
  <2>3. accepted' => Within(SECOND)'
    BY <1>6, <2>1
  <2>4. JobsTyped'
    BY <1>0, <1>1, <1>2, <1>9 DEF JobsTyped, TypeOK
  <2>. QED
    BY <1>0, <1>3, <1>6, <1>9, <2>1, <2>2, <2>3, <2>4, JobsMove
<1>10. CASE /\ ScheduleEpoch(w) /\ Await("mutation", NewId, SecondsOf(Target(w)))
            /\ UNCHANGED unarmed
  <2>1. InsertRow(FALSE, SecondsOf(u))
    BY <1>6, <1>10 DEF ScheduleEpoch
  <2>2. /\ RowsOK' /\ NewId \in Ids /\ SecondsOf(u) \in Nat
        /\ rows \subseteq rows' /\ UNCHANGED driver
        /\ [id |-> NewId, raw |-> FALSE, sec |-> SecondsOf(u)] \in rows'
        /\ \A r \in rows' : r \in rows \/ r.id = NewId
        /\ \A r \in rows' : r.id = NewId => Due(r)' <= u
        /\ NewId # pump.cur
    BY <1>0, <1>6, <2>1, InsertionLeaves
  <2>3. PICK e : e = [by |-> "mutation", id |-> NewId, sec |-> SecondsOf(u)]
    OBVIOUS
  <2>4. e \in Entry /\ e.by = "mutation" /\ e.id = NewId
    BY <2>2, <2>3 DEF Entry, Public
  <2>5. awaits' = Append(<<>>, e)
    BY <1>0, <1>6, <1>10, <2>3 DEF Await
  <2>6. Relied(e)'
    <3>1. \A r \in rows' : r.id = e.id => Due(r)' <= Target(Wake)'
      BY <1>6, <2>2, <2>4
    <3>2. \E r \in rows' : r.id = e.id
      BY <2>2, <2>4
    <3>. QED
      BY <2>4, <3>1, <3>2 DEF Relied
  <2>7. Armed(t)'
    BY <1>0, <1>6, <1>7, <1>10, <2>2, ArmedMoves
  <2>8. accepted' => Within(SECOND)'
    BY <1>0, <1>1, <2>2, WithinStays DEF Promised
  <2>9. JobsTyped'
    BY <1>0, <1>1, <1>2, <1>10 DEF JobsTyped, TypeOK
  <2>10. \A r \in rows' : r \in rows \/ r.id # pump.cur
    BY <2>2
  <2>. QED
    BY <1>0, <1>3, <1>6, <2>2, <2>4, <2>5, <2>6, <2>7, <2>8, <2>9, <2>10, PublicWaits DEF Public
<1>11. CASE unarmed' = TRUE /\ UNCHANGED <<schedule, awaits>>
  <2>1. rows' = rows /\ driver' = driver /\ prearm' = prearm /\ awaits' = <<>>
    BY <1>0, <1>11 DEF schedule
  <2>2. RowsOK'
    BY <1>0, <2>1, FewerRows DEF RowsOK
  <2>3. \E r \in rows : Live(r)
    BY <1>0, <1>7 DEF Armed, Within
  <2>4. (\E r \in rows : Live(r))'
    BY <2>1, <2>3 DEF Live
  <2>5. Armed(t)' /\ Armed(u)'
    BY <1>11, <2>4 DEF Armed
  <2>6. accepted' => Within(SECOND)'
    BY <1>0, <1>1, <2>1, WithinStays DEF Promised
  <2>7. JobsTyped'
    BY <1>1, <1>2, <1>11 DEF JobsTyped
  <2>. QED
    BY <1>0, <1>3, <1>6, <2>1, <2>2, <2>5, <2>6, <2>7, JobsMove
<1>12. \/ w = FOREVER /\ NothingToSchedule /\ UNCHANGED <<awaits, unarmed>>
       \/ \E r \in rows : Reuse(r, w) /\ UNCHANGED <<awaits, unarmed>>
       \/ /\ ScheduleEpoch(w) /\ Await("mutation", NewId, SecondsOf(Target(w)))
          /\ UNCHANGED unarmed
       \/ unarmed' = TRUE /\ UNCHANGED <<schedule, awaits>>
  BY <1>4 DEF MutateAndRearm
<1>. QED
  BY <1>8, <1>9, <1>10, <1>11, <1>12

-----------------------------------------------------------------------------
(***************************************************************************)
(* Restarts and the time.                                                  *)
(***************************************************************************)

LEMMA RestartStep ==
    ASSUME WakeInv, Restart
    PROVE  WakeInv'
<1>0. /\ Shape /\ Promised /\ TypeOK /\ RowsOK
      /\ pump' = Idle /\ batch' = {} /\ awaits' = <<>> /\ prearm' = 0 /\ enabled' \in BOOLEAN
      /\ phase' = phase /\ rows' = rows /\ driver' = driver
      /\ queued' = queued /\ full' = full /\ bound' = bound
      /\ accepted' = accepted /\ unarmed' = unarmed
  BY ShapeRows DEF WakeInv, Restart, jobs
<1>1. RowsOK'
  BY <1>0, FewerRows, TicksAssumption DEF RowsOK, Ids
<1>2. Idle \in [pc : Phases, cur : Ids, retried : BOOLEAN] /\ Idle.pc = "idle"
  BY TicksAssumption DEF Idle, Phases, Ids
<1>3. Len(awaits') = 0
  BY <1>0
<1>4. TypeOK' /\ SameIds'
  BY <1>0, <1>1, <1>2, EmptySeq DEF TypeOK, RowsOK
<1>5. Turns' /\ CurrentGone' /\ AllRelied'
  BY <1>0, <1>2, <1>3 DEF Turns, CurrentGone, AllRelied
<1>6. JobsOK'
  BY <1>0 DEF Shape, JobsOK, Stored
<1>7. Promised'
  BY <1>0, <1>2 DEF Promised, Armed, Within, Due, Live, Stored
<1>. QED
  BY <1>4, <1>5, <1>6, <1>7 DEF WakeInv, Shape

\* What a tick does to a row: it is a tick nearer, or due and stays so.
Aged(r) == IF phase' = 0 THEN [r EXCEPT !.sec = Sooner(@)] ELSE r

LEMMA TickAges ==
    ASSUME TypeOK, Pass, NEW r \in Row
    PROVE  /\ phase' \in 0 .. (SECOND - 1)
           /\ \E o \in Row : /\ o = Aged(r) /\ o.id = r.id /\ o.raw = r.raw
                             /\ Due(o)' <= Due(r) - 1 \/ Due(o)' <= 0
<1>1. SECOND \in Nat /\ SECOND > 0 /\ phase \in 0 .. (SECOND - 1) /\ r.sec \in Nat /\ r \in Row
  BY TicksAssumption DEF TypeOK, Row
<1>2. phase' = IF phase + 1 = SECOND THEN 0 ELSE phase + 1
  <2>1. phase' = (phase + 1) % SECOND
    BY DEF Pass
  <2>2. CASE phase + 1 = SECOND
    BY <1>1, <2>1, <2>2
  <2>3. CASE phase + 1 < SECOND
    BY <1>1, <2>1, <2>3
  <2>. QED
    BY <1>1, <2>2, <2>3
<1>3. phase' \in 0 .. (SECOND - 1)
  BY <1>1, <1>2
<1>4. PICK o : o = Aged(r)
  OBVIOUS
<1>5. CASE phase' = 0
  <2>1. o = [r EXCEPT !.sec = Sooner(r.sec)]
    BY <1>4, <1>5 DEF Aged, Row
  <2>2. Sooner(r.sec) \in Nat
    BY <1>1 DEF Sooner
  <2>3. o \in Row /\ o.id = r.id /\ o.raw = r.raw /\ o.sec = Sooner(r.sec)
    BY <2>1, <2>2 DEF Row
  <2>4. phase = SECOND - 1
    BY <1>1, <1>2, <1>5
  <2>5. CASE r.sec = 0
    <3>1. o.sec = 0
      BY <2>3, <2>5 DEF Sooner
    <3>2. Due(o)' = 0
      BY <1>1, <1>5, <3>1 DEF Due
    <3>. QED
      BY <1>3, <1>4, <2>3, <3>2
  <2>6. CASE r.sec # 0
    <3>1. o.sec = r.sec - 1
      BY <2>3, <2>6 DEF Sooner
    <3>2. (r.sec - 1) * SECOND = r.sec * SECOND - SECOND /\ r.sec * SECOND \in Int
      BY <1>1
    <3>3. Due(o)' = Due(r) - 1
      BY <1>1, <1>5, <2>4, <3>1, <3>2 DEF Due
    <3>. QED
      BY <1>1, <1>3, <1>4, <2>3, <3>2, <3>3 DEF Due
  <2>. QED
    BY <2>5, <2>6
<1>6. CASE phase' # 0
  <2>1. o = r
    BY <1>4, <1>6 DEF Aged
  <2>2. Due(o)' = Due(r) - 1 /\ Due(r) \in Int
    BY <1>1, <1>2, <1>6, <2>1 DEF Due
  <2>. QED
    BY <1>1, <1>3, <1>4, <2>1, <2>2
<1>. QED
  BY <1>5, <1>6

\* The rows after a tick are the aged rows.
LEMMA TickRows ==
    ASSUME TypeOK, Pass
    PROVE  /\ \A r \in rows : \E o \in rows' : /\ o.id = r.id /\ o.raw = r.raw
                                               /\ Due(o)' <= Due(r) - 1 \/ Due(o)' <= 0
           /\ \A o \in rows' : \E r \in rows : /\ o \in Row /\ o.id = r.id /\ o.raw = r.raw
                                               /\ Due(o)' <= Due(r) - 1 \/ Due(o)' <= 0
<1>1. rows' = {Aged(r) : r \in rows}
  <2>1. CASE phase' = 0
    BY <2>1 DEF Pass, Aged
  <2>2. CASE phase' # 0
    <3>1. rows' = rows
      BY <2>2 DEF Pass
    <3>2. \A r \in rows : Aged(r) = r
      BY <2>2 DEF Aged
    <3>. QED
      BY <3>1, <3>2
  <2>. QED
    BY <2>1, <2>2
<1>2. rows \subseteq Row
  BY DEF TypeOK
<1>3. \A r \in rows : \E o \in Row : /\ o = Aged(r) /\ o.id = r.id /\ o.raw = r.raw
                                     /\ Due(o)' <= Due(r) - 1 \/ Due(o)' <= 0
  BY <1>2, TickAges
<1>. QED
  BY <1>1, <1>3

\* The awaits after a tick are those before it, but for the seconds they carry.
LEMMA TickAwaits ==
    ASSUME TypeOK, Pass
    PROVE  /\ awaits' \in Seq(Entry) /\ Len(awaits') = Len(awaits)
           /\ \A i \in 1 .. Len(awaits) : awaits'[i].by = awaits[i].by /\ awaits'[i].id = awaits[i].id
<1>1. /\ awaits \in Seq(Entry) /\ Len(awaits) \in Nat /\ DOMAIN awaits = 1 .. Len(awaits)
      /\ \A i \in 1 .. Len(awaits) : awaits[i] \in Entry
  BY LenProperties DEF TypeOK
<1>2. CASE phase' # 0
  BY <1>1, <1>2 DEF Pass
<1>3. CASE phase' = 0
  <2>1. awaits' = [i \in 1 .. Len(awaits) |-> [awaits[i] EXCEPT !.sec = Sooner(@)]]
    BY <1>1, <1>3 DEF Pass
  <2>2. \A i \in 1 .. Len(awaits) :
           LET o == [awaits[i] EXCEPT !.sec = Sooner(@)]
           IN  o \in Entry /\ o.by = awaits[i].by /\ o.id = awaits[i].id
    <3>1. TAKE i \in 1 .. Len(awaits)
    <3>2. awaits[i] \in Entry /\ awaits[i].sec \in Nat
      BY <1>1 DEF Entry
    <3>3. Sooner(awaits[i].sec) \in Nat
      BY <3>2 DEF Sooner
    <3>. QED
      BY <3>2, <3>3 DEF Entry
  <2>3. \A i \in 1 .. Len(awaits) :
           awaits'[i] \in Entry /\ awaits'[i].by = awaits[i].by /\ awaits'[i].id = awaits[i].id
    BY <2>1, <2>2
  <2>4. awaits' \in [1 .. Len(awaits) -> Entry]
    BY <2>1, <2>2
  <2>5. awaits' \in Seq(Entry) /\ Len(awaits') = Len(awaits)
    <3>1. awaits' \in Seq(Entry)
      <4>1. Len(awaits) \in Nat
        BY <1>1
      <4>. QED
        BY <2>4, <4>1, SeqDef
    <3>2. Len(awaits') \in Nat /\ DOMAIN awaits' = 1 .. Len(awaits')
      BY <3>1, LenProperties
    <3>3. Len(awaits') = Len(awaits)
      <4>1. DOMAIN awaits' = 1 .. Len(awaits)
        BY <2>4
      <4>2. Len(awaits) \in Nat
        BY <1>1
      <4>. QED
        BY <3>2, <4>1, <4>2
    <3>. QED
      BY <3>1, <3>3
  <2>. QED
    BY <2>3, <2>5
<1>. QED
  BY <1>2, <1>3

\* What arms the pump for some time does so a tick later for one tick less.
LEMMA TickArms ==
    ASSUME TypeOK, Pass, NEW t \in Int, NEW u \in Int, t - 1 <= u, SECOND <= u
    PROVE  /\ Within(t) => Within(u)'
           /\ Armed(t) => Armed(u)'
<1>1. /\ driver' = driver /\ unarmed' = unarmed /\ FOREVER \in Nat \ {0}
      /\ SECOND \in Nat /\ phase \in Int /\ phase' \in Int
  <2>1. phase' \in Int
    BY TicksAssumption DEF Pass, TypeOK
  <2>2. driver' = driver /\ unarmed' = unarmed
    BY DEF Pass
  <2>3. phase \in Int
    BY TicksAssumption DEF TypeOK
  <2>4. FOREVER \in Nat \ {0} /\ SECOND \in Nat
    BY TicksAssumption DEF FOREVER
  <2>. QED
    BY <2>1, <2>2, <2>3, <2>4
<1>2. Stored' => Stored
  BY <1>1 DEF Pass, Stored, TypeOK
<1>3. \A r \in rows : \E o \in rows' : /\ Live(r) => Live(o)'
                                       /\ Due(r) <= t => Due(o)' <= u
  <2>1. TAKE r \in rows
  <2>2. PICK o \in rows' : /\ o.id = r.id /\ o.raw = r.raw
                           /\ Due(o)' <= Due(r) - 1 \/ Due(o)' <= 0
    BY TickRows
  <2>3. Live(r) => Live(o)'
    BY <1>1, <2>2 DEF Live
  <2>4. Due(r) \in Int /\ Due(o)' \in Int
    <3>1. r \in Row /\ o \in Row
      BY TickRows DEF TypeOK
    <3>. QED
      BY <1>1, <3>1 DEF Row, Due
  <2>5. Due(r) <= t => Due(o)' <= u
    BY <1>1, <2>2, <2>4
  <2>. QED
    BY <2>3, <2>5
<1>4. Within(t) => Within(u)'
  BY <1>3 DEF Within
<1>5. (\E r \in rows : Live(r)) => (\E r \in rows : Live(r))'
  BY <1>3
<1>. QED
  BY <1>1, <1>2, <1>4, <1>5 DEF Armed

LEMMA PassStep ==
    ASSUME WakeInv, Pass
    PROVE  WakeInv'
<1>0. /\ Shape /\ Promised /\ TypeOK /\ RowsOK /\ SECOND \in Nat \ {0}
      /\ driver' = driver /\ prearm' = prearm /\ pump' = pump /\ batch' = batch
      /\ enabled' = enabled /\ queued' = queued /\ full' = full
      /\ accepted' = accepted /\ unarmed' = unarmed
      /\ bound \in Nat /\ FOREVER \in Nat \ {0}
  BY ShapeRows, WakeIsNear, TicksAssumption DEF WakeInv, Pass, FOREVER
<1>1. /\ bound' \in 0 .. FOREVER /\ bound' \in Nat
      /\ bound - 1 <= bound' /\ (bound = FOREVER <=> bound' = FOREVER)
  BY <1>0 DEF Pass, TypeOK
<1>2. /\ awaits' \in Seq(Entry) /\ Len(awaits') = Len(awaits)
      /\ \A i \in 1 .. Len(awaits) :
            /\ awaits[i] \in Entry /\ awaits'[i] \in Entry
            /\ awaits'[i].by = awaits[i].by /\ awaits'[i].id = awaits[i].id
  <2>1. /\ awaits' \in Seq(Entry) /\ Len(awaits') = Len(awaits)
        /\ \A i \in 1 .. Len(awaits) : awaits'[i].by = awaits[i].by /\ awaits'[i].id = awaits[i].id
    BY <1>0, TickAwaits
  <2>2. awaits \in Seq(Entry)
    BY <1>0 DEF TypeOK
  <2>. QED
    BY <2>1, <2>2
<1>3. /\ \A o \in rows' : \E r \in rows : /\ o \in Row /\ o.id = r.id /\ o.raw = r.raw
                                          /\ Due(o)' <= Due(r) - 1 \/ Due(o)' <= 0
      /\ \A r \in rows : \E o \in rows' : o.id = r.id
  BY <1>0, TickRows
<1>4. TypeOK'
  <2>1. phase' \in 0 .. (SECOND - 1)
    BY <1>0 DEF Pass, TypeOK
  <2>2. rows' \subseteq Row
    BY <1>3
  <2>. QED
    BY <1>0, <1>1, <1>2, <2>1, <2>2 DEF TypeOK
<1>5. SameIds'
  BY <1>0, <1>3 DEF RowsOK, SameIds
<1>6. Turns' /\ CurrentGone'
  <2>1. (awaits' = <<>>) <=> (awaits = <<>>)
    BY <1>0, <1>2, EmptySeq DEF TypeOK
  <2>2. Turns'
    BY <1>0, <1>2, <2>1 DEF Shape, Turns
  <2>3. Gone => Gone'
    BY <1>0, <1>3 DEF Gone
  <2>4. CurrentGone'
    BY <1>0, <1>2, <2>3 DEF Shape, CurrentGone
  <2>. QED
    BY <2>2, <2>4
<1>7. JobsOK'
  BY <1>0, <1>1 DEF Shape, JobsOK, Stored
<1>8. Wake \in Nat /\ Wake' \in Nat /\ Wake - 1 <= Wake'
  BY <1>0, <1>1 DEF Wake, WakeOf
<1>9. PICK s \in Nat, t \in Nat, v \in Nat, w \in Nat :
         /\ s = Target(bound) /\ t = Target(bound)' /\ s - 1 <= t /\ SECOND <= t
         /\ v = Target(Wake) /\ w = Target(Wake)' /\ v - 1 <= w /\ SECOND <= w
  <2>1. \A x, y \in Nat : x - 1 <= y => /\ Target(x) \in Nat /\ Target(y) \in Nat
                                        /\ Target(x) - 1 <= Target(y) /\ SECOND <= Target(y)
    BY <1>0, Targets
  <2>2. /\ Target(bound) \in Nat /\ Target(bound') \in Nat
        /\ Target(bound) - 1 <= Target(bound') /\ SECOND <= Target(bound')
    BY <1>0, <1>1, <2>1
  <2>3. /\ Target(Wake) \in Nat /\ Target(Wake') \in Nat
        /\ Target(Wake) - 1 <= Target(Wake') /\ SECOND <= Target(Wake')
    BY <1>8, <2>1
  <2>. QED
    BY <2>2, <2>3
<1>10. /\ Armed(s) => Armed(t)'
       /\ Armed(v) => Armed(w)'
       /\ Within(SECOND) => Within(SECOND)'
  BY <1>0, <1>9, TickArms
<1>11. Promised'
  <2>1. (awaits' = <<>>) <=> (awaits = <<>>)
    BY <1>0, <1>2, EmptySeq DEF TypeOK
  <2>. QED
    BY <1>0, <1>9, <1>10, <2>1 DEF Promised
<1>12. AllRelied'
  <2>1. ASSUME NEW i \in 1 .. Len(awaits), NEW o \in Entry, o = awaits'[i]
        PROVE  Relied(o)'
    <3>1. PICK a \in Entry : a = awaits[i] /\ a.by = o.by /\ a.id = o.id
      BY <1>2, <2>1
    <3>2. Relied(a)
      BY <3>1 DEF WakeInv, AllRelied
    <3>3. ASSUME NEW r \in rows', NEW c \in Nat, NEW d \in Nat, c - 1 <= d, SECOND <= d,
                 \A q \in rows : q.id = a.id => Due(q) <= c, r.id = o.id
          PROVE  Due(r)' <= d
      <4>1. PICK q \in rows : /\ r \in Row /\ r.id = q.id
                              /\ Due(r)' <= Due(q) - 1 \/ Due(r)' <= 0
        BY <1>3, <3>3
      <4>2. Due(q) <= c
        BY <3>1, <3>3, <4>1
      <4>3. Due(q) \in Int /\ Due(r)' \in Int
        BY <1>0, <1>4, <4>1 DEF TypeOK, Row, Due
      <4>. QED
        BY <1>0, <3>3, <4>1, <4>2, <4>3
    <3>4. o.by = "prearm" =>
             o.id # pump'.cur /\ \A r \in rows' : r.id = o.id => Due(r)' <= SECOND
      <4>1. SECOND \in Nat /\ SECOND - 1 <= SECOND
        BY <1>0
      <4>. QED
        BY <1>0, <3>1, <3>2, <3>3, <4>1 DEF Relied
    <3>5. o.by \in {"mutation", "rearm"} =>
             \A r \in rows' : r.id = o.id => Due(r)' <= Target(Wake)'
      BY <1>9, <3>1, <3>2, <3>3 DEF Relied
    <3>6. o.by = "mutation" /\ pump'.pc = "turn" => \E r \in rows' : r.id = o.id
      BY <1>0, <1>3, <3>1, <3>2 DEF Relied
    <3>7. /\ o.by = "admission" => Within(SECOND)'
          /\ o.by = "prearmKick" => Armed(Target(Wake))'
          /\ o.by = "park" => ~ accepted'
      BY <1>0, <1>9, <1>10, <3>1, <3>2 DEF Relied
    <3>. QED
      BY <3>4, <3>5, <3>6, <3>7 DEF Relied
  <2>2. \A i \in 1 .. Len(awaits) : \E o \in Entry : o = awaits'[i]
    BY <1>2
  <2>. QED
    BY <1>2, <2>1, <2>2 DEF AllRelied
<1>. QED
  BY <1>4, <1>5, <1>6, <1>7, <1>11, <1>12 DEF WakeInv, Shape

-----------------------------------------------------------------------------
(***************************************************************************)
(* The invariant.                                                          *)
(***************************************************************************)

LEMMA InitWakes ==
    ASSUME Init
    PROVE  WakeInv
<1>1. Idle \in [pc : Phases, cur : Ids, retried : BOOLEAN] /\ Idle.pc = "idle"
  BY TicksAssumption DEF Idle, Phases, Ids
<1>2. /\ phase = 0 /\ rows = {} /\ driver = 0 /\ prearm = 0
      /\ pump = Idle /\ batch = {} /\ awaits = <<>>
      /\ enabled = TRUE /\ queued = FALSE /\ full = FALSE /\ bound = FOREVER
      /\ accepted = FALSE /\ unarmed = FALSE
  BY DEF Init
<1>3. TypeOK
  <2>1. awaits \in Seq(Entry)
    BY <1>2, EmptySeq
  <2>2. phase \in 0 .. (SECOND - 1) /\ driver \in Ids /\ prearm \in Ids /\ bound \in 0 .. FOREVER
    BY <1>2, TicksAssumption DEF FOREVER, Ids
  <2>3. pump \in [pc : Phases, cur : Ids, retried : BOOLEAN]
    BY <1>1, <1>2
  <2>4. rows \subseteq Row /\ batch \subseteq Row
    BY <1>2
  <2>5. /\ enabled \in BOOLEAN /\ queued \in BOOLEAN /\ full \in BOOLEAN
        /\ accepted \in BOOLEAN /\ unarmed \in BOOLEAN
    BY <1>2
  <2>. QED
    BY <2>1, <2>2, <2>3, <2>4, <2>5 DEF TypeOK
<1>4. Len(awaits) = 0
  BY <1>2
<1>5. SameIds /\ Turns /\ CurrentGone /\ JobsOK
  BY <1>1, <1>2 DEF SameIds, Turns, CurrentGone, JobsOK
<1>6. AllRelied /\ Promised
  BY <1>1, <1>2, <1>4 DEF AllRelied, Promised, Armed, Stored
<1>. QED
  BY <1>3, <1>5, <1>6 DEF WakeInv, Shape

LEMMA StutterWakes ==
    ASSUME WakeInv, UNCHANGED vars
    PROVE  WakeInv'
<1>1. /\ phase' = phase /\ rows' = rows /\ driver' = driver /\ prearm' = prearm
      /\ pump' = pump /\ batch' = batch /\ awaits' = awaits /\ enabled' = enabled
      /\ queued' = queued /\ full' = full /\ bound' = bound
      /\ accepted' = accepted /\ unarmed' = unarmed
  BY DEF vars
<1>2. TypeOK'
  BY <1>1 DEF WakeInv, Shape, TypeOK
<1>3. SameIds' /\ Turns' /\ CurrentGone' /\ JobsOK'
  BY <1>1 DEF WakeInv, Shape, SameIds, Turns, CurrentGone, Gone, JobsOK, Stored
<1>4. AllRelied'
  BY <1>1 DEF WakeInv, AllRelied, Relied, Due, Wake, Within, Live, Armed, Stored
<1>5. Promised'
  BY <1>1 DEF WakeInv, Promised, Due, Wake, Within, Live, Armed, Stored
<1>. QED
  BY <1>2, <1>3, <1>4, <1>5 DEF WakeInv, Shape

LEMMA NextWakes ==
    ASSUME WakeInv, [Next]_vars
    PROVE  WakeInv'
<1>1. CASE AlarmScan
  BY <1>1, AlarmScanStep
<1>2. CASE CallBack
  BY <1>2, SkipStaleStep, StartCallbackStep DEF CallBack
<1>3. CASE TurnWork
  BY <1>3, TurnWorkStep
<1>4. CASE EndTurn
  BY <1>4, EndTurnStep
<1>5. CASE Consume
  BY <1>5, ConsumeStep
<1>6. CASE AwaitEnds
  BY <1>6, FinishPrearmStep, FinishPrearmKickStep, FinishYieldKickStep, FinishRearmStep,
     FinishAlarmWriteStep, FinishAdmissionStep, FinishMutationStep DEF AwaitEnds
<1>7. CASE Admit
  BY <1>7, AdmitStep
<1>8. CASE MutateAndRearm
  BY <1>8, MutateAndRearmStep
<1>9. CASE ReadPurges
  BY <1>9, ReadPurgesStep
<1>10. CASE Restart
  BY <1>10, RestartStep
<1>11. CASE Pass
  BY <1>11, PassStep
<1>12. CASE UNCHANGED vars
  BY <1>12, StutterWakes
<1>. QED
  BY <1>1, <1>2, <1>3, <1>4, <1>5, <1>6, <1>7, <1>8, <1>9, <1>10, <1>11, <1>12 DEF Next

\* Every reachable state satisfies the invariant.
THEOREM WakesAreReliedOn == Spec => []WakeInv
<1>1. Init => WakeInv
  BY InitWakes
<1>2. WakeInv /\ [Next]_vars => WakeInv'
  BY NextWakes
<1>. QED
  BY <1>1, <1>2, PTL DEF Spec

\* A live row that is due in time covers the boundary.
LEMMA WithinCovers ==
    ASSUME TypeOK, NEW t \in Nat, Within(t)
    PROVE  Covered(t)
<1>1. PICK r \in rows : Live(r) /\ Due(r) <= t
  BY DEF Within
<1>2. Due(r) \in Int /\ r.sec * SECOND - phase = Due(r)
  BY TicksAssumption DEF TypeOK, Row, Due
<1>3. PICK d \in Int : d = Due(r)
  BY <1>2
<1>4. Max({0, d}) <= t
  <2>1. \E x \in {0, d} : \A y \in {0, d} : x >= y
    <3>1. CASE d >= 0
      BY <1>3, <3>1
    <3>2. CASE 0 >= d
      BY <1>3, <3>2
    <3>. QED
      BY <1>3, <3>1, <3>2
  <2>2. Max({0, d}) \in {0, d}
    BY <2>1 DEF Max
  <2>. QED
    BY <1>1, <1>3, <2>2
<1>5. TicksOf(r) <= t
  BY <1>2, <1>3, <1>4 DEF TicksOf
<1>. QED
  BY <1>1, <1>5 DEF Covered

\* Whatever is stored, some live row wakes the pump in time, at every await, after
\* every restart and every failed write.
THEOREM WakesSurvive == Spec => []WakeSurvives
<1>1. WakeInv => WakeSurvives
  <2>1. SUFFICES ASSUME WakeInv PROVE WakeSurvives
    OBVIOUS
  <2>2. TypeOK /\ Promised
    BY <2>1, ShapeRows DEF WakeInv
  <2>3. PICK t \in Nat : t = Target(bound)
    BY <2>2, WakeIsNear
  <2>4. Within(t) => Covered(t)
    BY <2>2, WithinCovers
  <2>5. Within(SECOND) => Covered(SECOND)
    BY <2>2, WithinCovers, TicksAssumption
  <2>. QED
    BY <2>2, <2>3, <2>4, <2>5 DEF Promised, Armed, WakeSurvives
<1>. QED
  BY <1>1, WakesAreReliedOn, PTL
=============================================================================
