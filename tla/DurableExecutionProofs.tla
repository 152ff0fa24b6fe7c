------------------------ MODULE DurableExecutionProofs ------------------------
(***************************************************************************)
(* Theorems about DurableExecution, for every set of jobs, every number of *)
(* slots and attempts, and every choice of the durations.                  *)
(*                                                                         *)
(* The invariants build on each other.  Inv, of the store's own proofs,    *)
(* says that every row is good.  SlotInv is about Node's memory: what is   *)
(* queued or alive is the execution the job's record names, and slots are  *)
(* neither lost nor overdrawn.  IssuedInv relates Node to the rows: no     *)
(* execution is seen before its lease was granted, so a claim hands out a  *)
(* new one.  CancelInv is about what Node was told is cancelled.           *)
(*                                                                         *)
(* The proof says once what every step does to Node (NodeMoves) and to the *)
(* table (TableMoves), action by action; whatever is proved of the system  *)
(* follows from these two.                                                 *)
(***************************************************************************)
EXTENDS DurableExecution, DurableScanJobStoreProofs, FiniteSetTheorems, SequenceTheorems

Phases == WorkerPhases \cup {"none", "activating", "queued", "ended"}

Execution == [phase : Phases, aborted : BOOLEAN, reserved : BOOLEAN,
              answer : {"none", "accepted", "refused"}, due : Nat]

Distinct(q) == \A i, k \in 1..Len(q) : q[i] = q[k] => i = k
AllQueued(e, q) == \A i \in 1..Len(q) : e[q[i]].phase = "queued"

\* An execution that waits for a slot, or works and was not given up.
Alive(x) == Live(x) \/ exec[x].phase = "queued"

\* Node's memory: what waits is queued once, only workers are aborted, what is
\* alive is what the job's record names, what is still to be activated was not
\* activated before, and no slot is overdrawn or lost.
SlotInv ==
    /\ handed \subseteq Executions
    /\ exec \in [Executions -> Execution]
    /\ local \in [Jobs -> 0..MAX_ATTEMPTS]
    /\ queue \in Seq(Executions)
    /\ Distinct(queue) /\ AllQueued(exec, queue)
    /\ \A x \in Executions : exec[x].aborted => exec[x].phase \in WorkerPhases
    /\ \A x \in Executions : Alive(x) => local[x[1]] = x[2]
    /\ \A x \in handed : exec[x].phase = "none"
    /\ Cardinality(Busy(exec)) <= MAX_CONCURRENT_SCANS
    /\ queue # <<>> => Cardinality(Busy(exec)) = MAX_CONCURRENT_SCANS

\* The row of x is being published by x; x may send PUTs.
Publishing(x) == jobs[x[1]].state = "publishing" /\ jobs[x[1]].generation = x[2]
Publishes(x) ==
    exec[x].phase \in PublicationPhases \/ (exec[x].phase = "begin" /\ exec[x].answer = "accepted")

\* The activation of x was accepted, and is not installed yet.
Accepted(x) == exec[x].phase = "activating" /\ exec[x].answer = "accepted"

\* The lease of x is renewed, to its full length or up to the deadline.
Renewed(x) ==
    /\ Active(jobs[x[1]]) /\ jobs[x[1]].generation = x[2]
    /\ jobs'[x[1]].state = jobs[x[1]].state
    /\ jobs'[x[1]].state = "leased" =>
          jobs'[x[1]].lease = Earlier(now + LEASE, DeadlineAt(jobs'[x[1]]))

\* What every step does to an execution: it appears once, for its activation;
\* it publishes only after its call was accepted, under one deadline, and
\* writes the sidecar after the report; it waits for one acceptance at a time;
\* it sets to work when its accepted activation is installed, and what was told
\* to stop is not told otherwise.
Steady(x) ==
    /\ exec'[x].phase # "none" => exec[x].phase # "none" \/ x \in handed
    /\ exec'[x].phase \in PublicationPhases =>
          \/ /\ exec[x].phase \in PublicationPhases /\ exec'[x].due = exec[x].due
             /\ exec'[x].phase = "sidecar" =>
                   exec[x].phase = "sidecar" \/ stored[x[1]].primary = x[2]
          \/ /\ exec[x].phase = "begin" /\ exec[x].answer = "accepted"
             /\ exec'[x].phase = "primary" /\ exec'[x].due = now + PUBLICATION_TIMEOUT
    /\ exec'[x].phase = "begin" =>
          \/ /\ exec[x].phase = "begin" /\ exec'[x].due = exec[x].due
             /\ exec'[x].answer = "accepted" =>
                   exec[x].answer = "accepted" \/ (Publishing(x)' /\ ~Publishing(x))
          \/ exec'[x].answer = "none" /\ exec'[x].due = now + REQUEST_TIMEOUT
    /\ exec'[x].phase = "activating" =>
          \/ /\ exec[x].phase = "activating" /\ exec'[x].due = exec[x].due
             /\ exec'[x].answer = "accepted" => exec[x].answer = "accepted" \/ Renewed(x)
          \/ exec'[x].answer = "none" /\ exec'[x].due = now + REQUEST_TIMEOUT
    /\ AtWork(x)' =>
          \/ AtWork(x) /\ (exec[x].aborted => exec'[x].aborted)
          \/ Accepted(x) /\ ~exec'[x].aborted

\* No step but an installation revives an execution.
Calm(x) == (Alive(x)' => Alive(x)) /\ Steady(x)

AllCalm == \A x \in Executions : Calm(x)

-----------------------------------------------------------------------------
(* Executions, slots and the queue.                                        *)

\* An execution is a job and a generation.
LEMMA ExecutionPairs ==
    ASSUME NEW x \in Executions
    PROVE  /\ x[1] \in Jobs /\ x[2] \in 1..MAX_ATTEMPTS /\ x[2] \in Nat /\ x[2] # 0
           /\ x = <<x[1], x[2]>>
BY LimitAssumption DEF Executions, Generations

\* The records that steps write.
LEMMA Records ==
    /\ Idle \in Execution /\ Idle.phase = "none" /\ Idle.aborted = FALSE /\ Idle.due = 0
    /\ Idle.answer = "none" /\ Idle.reserved = FALSE
    /\ \A phase \in Phases :
          /\ In(phase) \in Execution /\ In(phase).phase = phase /\ In(phase).aborted = FALSE
          /\ In(phase).due = 0 /\ In(phase).answer = "none"
    /\ \A phase \in Phases : \A due \in Nat :
          /\ Until(phase, due) \in Execution /\ Until(phase, due).phase = phase
          /\ Until(phase, due).aborted = FALSE /\ Until(phase, due).due = due
          /\ Until(phase, due).answer = "none"
BY DEF Idle, In, Until, Execution, Phases, WorkerPhases, RunningPhases, PublicationPhases

\* Sets of executions are finite.
LEMMA ExecutionSetsFinite ==
    ASSUME NEW T \in SUBSET Executions
    PROVE  IsFiniteSet(T) /\ Cardinality(T) \in Nat
<1>1. IsFiniteSet(Generations)
  BY FS_Interval, LimitAssumption DEF Generations
<1>2. IsFiniteSet(Executions)
  BY <1>1, JobsAssumption, FS_Product DEF Executions
<1>. QED
  BY <1>2, FS_Subset, FS_CardinalityType

\* As many members as positions: the first n entries of a sequence of distinct
\* executions.
LEMMA FirstEntries ==
    ASSUME NEW q \in Seq(Executions), Distinct(q), NEW n \in 0..Len(q)
    PROVE  Cardinality({q[i] : i \in 1..n}) = n
<1> DEFINE T == {q[i] : i \in 1..n}
           f == [i \in 1..n |-> q[i]]
<1>0. Len(q) \in Nat /\ 1..n \subseteq 1..Len(q)
  BY LenProperties
<1>1. f \in [1..n -> T]
  OBVIOUS
<1>2. \A i, k \in 1..n : f[i] = f[k] => i = k
  BY <1>0 DEF Distinct
<1>3. \A t \in T : \E i \in 1..n : f[i] = t
  OBVIOUS
<1>4. f \in Bijection(1..n, T)
  BY <1>1, <1>2, <1>3 DEF Bijection, Injection, Surjection, IsInjective
<1>5. ExistsBijection(1..n, T)
  BY <1>4 DEF ExistsBijection
<1>. QED
  BY <1>5, FS_CountingElements, <1>0

\* kickScanJobWorkers keeps the queue in order, never overdraws the slots and
\* leaves none free while something waits.
LEMMA KickWorks ==
    ASSUME NEW e \in [Executions -> Execution], NEW q \in Seq(Executions),
           Distinct(q), AllQueued(e, q), Cardinality(Busy(e)) <= MAX_CONCURRENT_SCANS,
           Kick(e, q)
    PROVE  /\ exec' \in [Executions -> Execution] /\ queue' \in Seq(Executions)
           /\ Distinct(queue') /\ AllQueued(exec', queue')
           /\ Cardinality(Busy(exec')) <= MAX_CONCURRENT_SCANS
           /\ queue' # <<>> => Cardinality(Busy(exec')) = MAX_CONCURRENT_SCANS
           /\ \A x \in Executions :
                 exec'[x] = e[x] \/ (e[x].phase = "queued" /\ exec'[x] = In("scan"))
<1> DEFINE busy == Cardinality(Busy(e))
           taken == Earlier(MAX_CONCURRENT_SCANS - Cardinality(Busy(e)), Len(q))
           started == {q[i] : i \in 1..taken}
<1>1. busy \in Nat /\ IsFiniteSet(Busy(e))
  BY ExecutionSetsFinite DEF Busy
<1>2. Len(q) \in Nat /\ \A i \in 1..Len(q) : q[i] \in Executions
  BY LenProperties, ElementOfSeq
<1>3. /\ taken \in 0..Len(q) /\ busy + taken <= MAX_CONCURRENT_SCANS
      /\ taken < Len(q) => busy + taken = MAX_CONCURRENT_SCANS
  BY <1>1, <1>2, NodeAssumption DEF Earlier
<1>4. /\ exec' = [x \in Executions |-> IF x \in started THEN In("scan") ELSE e[x]]
      /\ queue' = SubSeq(q, taken + 1, Len(q))
  BY DEF Kick
<1> HIDE DEF taken
<1>5. Cardinality(started) = taken /\ started \subseteq Executions /\ IsFiniteSet(started)
  BY <1>2, <1>3, FirstEntries, ExecutionSetsFinite
<1>6. /\ queue' \in Seq(Executions) /\ Len(queue') = Len(q) - taken
      /\ \A i \in 1..Len(queue') : queue'[i] = q[taken + i]
  <2>1. \A i \in (taken + 1)..Len(q) : q[i] \in Executions
    BY <1>2, <1>3
  <2>2. taken + 1 \in Int /\ Len(q) \in Int
    BY <1>2, <1>3
  <2>3. /\ queue' \in Seq(Executions)
        /\ Len(queue') = IF taken + 1 <= Len(q) THEN Len(q) - (taken + 1) + 1 ELSE 0
        /\ \A i \in 1..(Len(q) - (taken + 1) + 1) : queue'[i] = q[taken + 1 + i - 1]
    BY <1>4, <2>1, <2>2, SubSeqProperties
  <2>4. Len(queue') = Len(q) - taken
    BY <1>2, <1>3, <2>3
  <2>. QED
    BY <1>2, <1>3, <2>3, <2>4
<1>7. \A x \in started : e[x].phase = "queued"
  BY <1>2, <1>3 DEF AllQueued
<1>8. \A i \in 1..Len(queue') : queue'[i] \notin started
  BY <1>2, <1>3, <1>6 DEF Distinct
<1>9. Distinct(queue') /\ AllQueued(exec', queue')
  <2>1. Distinct(queue')
    BY <1>2, <1>3, <1>6 DEF Distinct
  <2>2. ASSUME NEW i \in 1..Len(queue')
        PROVE  exec'[queue'[i]].phase = "queued"
    <3>1. queue'[i] = q[taken + i] /\ taken + i \in 1..Len(q)
      BY <1>2, <1>3, <1>6
    <3>2. exec'[queue'[i]] = e[queue'[i]]
      BY <1>2, <1>4, <1>8, <3>1
    <3>. QED
      BY <3>1, <3>2 DEF AllQueued
  <2>. QED
    BY <2>1, <2>2 DEF AllQueued
<1>10. "scan" \in Phases /\ "scan" \in WorkerPhases /\ "queued" \notin WorkerPhases
  BY DEF Phases, WorkerPhases, RunningPhases, PublicationPhases
<1>11. Busy(exec') = Busy(e) \cup started /\ Busy(e) \cap started = {}
  BY <1>4, <1>5, <1>7, <1>10, Records DEF Busy
<1>12. Cardinality(Busy(exec')) = busy + taken
  <2>1. Cardinality(Busy(e) \cup started)
          = Cardinality(Busy(e)) + Cardinality(started) - Cardinality(Busy(e) \cap started)
    BY <1>1, <1>5, FS_Union
  <2>2. Cardinality(Busy(e) \cap started) = 0
    BY <1>11, FS_EmptySet
  <2> HIDE DEF started
  <2>. QED
    BY <1>1, <1>3, <1>5, <1>11, <2>1, <2>2
<1>13. /\ Cardinality(Busy(exec')) <= MAX_CONCURRENT_SCANS
       /\ queue' # <<>> => Cardinality(Busy(exec')) = MAX_CONCURRENT_SCANS
  <2>1. queue' # <<>> => taken < Len(q)
    BY <1>2, <1>3, <1>6, EmptySeq
  <2>. QED
    BY <1>3, <1>12, <2>1
<1>14. exec' \in [Executions -> Execution]
  BY <1>4, <1>10, Records
<1>15. \A x \in Executions : exec'[x] = e[x] \/ (e[x].phase = "queued" /\ exec'[x] = In("scan"))
  BY <1>4, <1>7
<1>. QED
  BY <1>6, <1>9, <1>13, <1>14, <1>15

\* Cutting an execution out of the queue.
LEMMA DequeuedWorks ==
    ASSUME NEW x, SlotInv
    PROVE  /\ Dequeued(x) \in Seq(Executions) /\ Distinct(Dequeued(x))
           /\ \A i \in 1..Len(Dequeued(x)) :
                 Dequeued(x)[i] # x /\ \E k \in 1..Len(queue) : Dequeued(x)[i] = queue[k]
           /\ Dequeued(x) # <<>> => queue # <<>>
<1>1. /\ queue \in Seq(Executions) /\ Len(queue) \in Nat
      /\ \A i \in 1..Len(queue) : queue[i] \in Executions
      /\ \A i, k \in 1..Len(queue) : queue[i] = queue[k] => i = k
  BY LenProperties, ElementOfSeq DEF SlotInv, Distinct
<1>2. CASE \E i \in 1..Len(queue) : queue[i] = x
  <2>1. \E i \in 1..Len(queue) : queue[i] = x /\ \A k \in 1..(i - 1) : queue[k] # x
    BY <1>1, <1>2
  <2>2. PICK at \in 1..Len(queue) :
           /\ queue[at] = x
           /\ Dequeued(x) = SubSeq(queue, 1, at - 1) \o SubSeq(queue, at + 1, Len(queue))
    BY <1>2, <2>1 DEF Dequeued
  <2> DEFINE front == SubSeq(queue, 1, at - 1)
             rear == SubSeq(queue, at + 1, Len(queue))
  <2>3. /\ front \in Seq(Executions) /\ Len(front) = at - 1
        /\ \A i \in 1..(at - 1) : front[i] = queue[i]
    <3>1. \A i \in 1..(at - 1) : queue[i] \in Executions
      BY <1>1
    <3>2. /\ front \in Seq(Executions)
          /\ Len(front) = IF 1 <= at - 1 THEN at - 1 - 1 + 1 ELSE 0
          /\ \A i \in 1..(at - 1 - 1 + 1) : front[i] = queue[1 + i - 1]
      BY <1>1, <3>1, SubSeqProperties
    <3>. QED
      BY <3>2
  <2>4. /\ rear \in Seq(Executions) /\ Len(rear) = Len(queue) - at
        /\ \A i \in 1..(Len(queue) - at) : rear[i] = queue[at + i]
    <3>1. \A i \in (at + 1)..Len(queue) : queue[i] \in Executions
      BY <1>1
    <3>2. /\ rear \in Seq(Executions)
          /\ Len(rear) = IF at + 1 <= Len(queue) THEN Len(queue) - (at + 1) + 1 ELSE 0
          /\ \A i \in 1..(Len(queue) - (at + 1) + 1) : rear[i] = queue[at + 1 + i - 1]
      BY <1>1, <3>1, SubSeqProperties
    <3>. QED
      BY <1>1, <3>2
  <2> HIDE DEF front, rear
  <2>5. /\ front \o rear \in Seq(Executions)
        /\ Len(front \o rear) = Len(queue) - 1
        /\ \A i \in 1..(Len(queue) - 1) :
              (front \o rear)[i] = IF i < at THEN queue[i] ELSE queue[i + 1]
    <3>1. /\ front \o rear \in Seq(Executions)
          /\ Len(front \o rear) = Len(front) + Len(rear)
          /\ \A i \in 1..(Len(front) + Len(rear)) :
                (front \o rear)[i] = IF i <= Len(front) THEN front[i] ELSE rear[i - Len(front)]
      BY <2>3, <2>4, ConcatProperties
    <3>2. ASSUME NEW i \in 1..(Len(queue) - 1)
          PROVE  (front \o rear)[i] = IF i < at THEN queue[i] ELSE queue[i + 1]
      <4>1. (front \o rear)[i] = IF i <= at - 1 THEN front[i] ELSE rear[i - (at - 1)]
        BY <1>1, <2>3, <2>4, <3>1
      <4>2. CASE i < at
        BY <2>3, <4>1, <4>2
      <4>3. CASE ~(i < at)
        <5>1. rear[i - (at - 1)] = queue[at + (i - (at - 1))]
          BY <1>1, <2>4, <4>3
        <5>. QED
          BY <4>1, <4>3, <5>1
      <4>. QED
        BY <4>2, <4>3
    <3>. QED
      BY <1>1, <2>3, <2>4, <3>1, <3>2
  <2>6. Dequeued(x) = front \o rear
    BY <2>2 DEF front, rear
  <2> DEFINE rest == front \o rear
  <2>7. \A i \in 1..Len(rest) :
           \E k \in 1..Len(queue) : k # at /\ rest[i] = queue[k] /\ k = (IF i < at THEN i ELSE i + 1)
    BY <1>1, <2>5
  <2>8. Distinct(rest)
    <3>1. SUFFICES ASSUME NEW i \in 1..Len(rest), NEW k \in 1..Len(rest), rest[i] = rest[k]
                   PROVE  i = k
      BY DEF Distinct
    <3>2. PICK a \in 1..Len(queue) : rest[i] = queue[a] /\ a = (IF i < at THEN i ELSE i + 1)
      BY <2>7
    <3>3. PICK b \in 1..Len(queue) : rest[k] = queue[b] /\ b = (IF k < at THEN k ELSE k + 1)
      BY <2>7
    <3>4. queue[a] = queue[b]
      BY <3>1, <3>2, <3>3
    <3>5. a = b
      BY <1>1, <3>4 DEF Distinct
    <3>6. at \in Int /\ i \in Int /\ k \in Int
      BY <1>1, <2>5
    <3>. HIDE DEF rest
    <3>. QED
      BY <3>2, <3>3, <3>5, <3>6
  <2>9. \A i \in 1..Len(rest) : rest[i] # x /\ \E k \in 1..Len(queue) : rest[i] = queue[k]
    BY <1>1, <2>2, <2>7
  <2>10. queue # <<>>
    BY <2>2, EmptySeq
  <2> HIDE DEF rest
  <2>11. rest = Dequeued(x) /\ rest \in Seq(Executions)
    BY <2>5, <2>6 DEF rest
  <2>. QED
    BY <2>8, <2>9, <2>10, <2>11
<1>3. CASE ~\E i \in 1..Len(queue) : queue[i] = x
  <2>1. Dequeued(x) = queue
    BY <1>3 DEF Dequeued
  <2>. QED
    BY <1>1, <1>3, <2>1 DEF Distinct
<1>. QED
  BY <1>2, <1>3

-----------------------------------------------------------------------------
(* What the steps of Node do to its executions and slots.                  *)

\* Phases that are told apart.
LEMMA PhaseSets ==
    /\ WorkerPhases = {"scan", "begin", "primary", "sidecar", "readback", "resolve"}
    /\ RunningPhases = {"scan", "begin", "primary", "sidecar", "readback"}
    /\ PublicationPhases = {"primary", "sidecar", "readback"}
    /\ Phases = {"scan", "begin", "primary", "sidecar", "readback", "resolve",
                 "none", "activating", "queued", "ended"}
BY DEF Phases, WorkerPhases, RunningPhases, PublicationPhases

\* A worker that goes on with its work, or hears an answer, keeps its slot.
LEMMA WorkGoesOn ==
    ASSUME SlotInv, NEW x \in Executions, NEW r \in Execution,
           exec' = [exec EXCEPT ![x] = r], UNCHANGED <<handed, local, queue>>,
           \/ r.phase = exec[x].phase /\ r.aborted = exec[x].aborted
              /\ r.reserved = exec[x].reserved
           \/ /\ exec[x].phase \in WorkerPhases /\ r.phase \in WorkerPhases /\ ~r.aborted
              /\ r.phase \in RunningPhases => Live(x)
    PROVE  SlotInv' /\ \A y \in Executions : Alive(y)' => Alive(y)
<1>1. /\ exec' \in [Executions -> Execution] /\ exec'[x] = r
      /\ \A y \in Executions : y # x => exec'[y] = exec[y]
  BY DEF SlotInv
<1>2. Busy(exec') = Busy(exec)
  BY <1>1, PhaseSets DEF Busy
<1>3. \A y \in Executions : Alive(y)' => Alive(y)
  BY <1>1, PhaseSets DEF Alive, Live
<1>4. AllQueued(exec', queue')
  <2>1. \A i \in 1..Len(queue) : queue[i] \in Executions
    BY ElementOfSeq DEF SlotInv
  <2>. QED
    BY <1>1, <2>1, PhaseSets DEF AllQueued, SlotInv
<1>5. \A y \in Executions : exec'[y].aborted => exec'[y].phase \in WorkerPhases
  BY <1>1 DEF SlotInv
<1>6. \A y \in handed' : exec'[y].phase = "none"
  BY <1>1, PhaseSets DEF SlotInv
<1>. QED
  BY <1>1, <1>2, <1>3, <1>4, <1>5, <1>6 DEF SlotInv

\* A worker or an activation that ends gives its slot to the queue.
LEMMA SlotGivenBack ==
    ASSUME SlotInv, NEW x \in Executions, NEW r \in {Idle, In("ended")},
           exec[x].phase \in WorkerPhases \cup {"activating"},
           Kick([exec EXCEPT ![x] = r], queue), UNCHANGED <<handed, local>>
    PROVE  SlotInv' /\ AllCalm
<1> DEFINE e == [exec EXCEPT ![x] = r]
<1>1. /\ r \in Execution /\ r.phase \in {"none", "ended"} /\ r.aborted = FALSE /\ r.due = 0
  BY Records, PhaseSets
<1>2. /\ e \in [Executions -> Execution] /\ e[x] = r
      /\ \A y \in Executions : y # x => e[y] = exec[y]
  BY <1>1 DEF SlotInv
<1>3. queue \in Seq(Executions) /\ \A i \in 1..Len(queue) : queue[i] \in Executions
  BY ElementOfSeq DEF SlotInv
<1>4. AllQueued(e, queue) /\ Distinct(queue)
  BY <1>2, <1>3, PhaseSets DEF AllQueued, SlotInv
<1>5. Cardinality(Busy(e)) <= MAX_CONCURRENT_SCANS
  <2>1. Busy(e) \in SUBSET Busy(exec)
    BY <1>1, <1>2, PhaseSets DEF Busy
  <2>2. Cardinality(Busy(e)) <= Cardinality(Busy(exec))
    BY <2>1, ExecutionSetsFinite, FS_Subset DEF Busy
  <2>. QED
    BY <2>2, ExecutionSetsFinite, NodeAssumption DEF SlotInv, Busy
<1> HIDE DEF e
<1>6. Kick(e, queue)
  BY DEF e
<1>7. /\ exec' \in [Executions -> Execution] /\ queue' \in Seq(Executions)
      /\ Distinct(queue') /\ AllQueued(exec', queue')
      /\ Cardinality(Busy(exec')) <= MAX_CONCURRENT_SCANS
      /\ queue' # <<>> => Cardinality(Busy(exec')) = MAX_CONCURRENT_SCANS
      /\ \A y \in Executions : exec'[y] = e[y] \/ (e[y].phase = "queued" /\ exec'[y] = In("scan"))
  BY <1>2, <1>3, <1>4, <1>5, <1>6, KickWorks
<1>8. \A y \in Executions :
         \/ y = x /\ exec'[y] = r
         \/ y # x /\ exec'[y] = exec[y]
         \/ y # x /\ exec[y].phase = "queued" /\ exec'[y] = In("scan")
  BY <1>1, <1>2, <1>7
<1>9. AllCalm
  <2> SUFFICES ASSUME NEW y \in Executions PROVE Calm(y)
    BY DEF AllCalm
  <2>. QED
    BY <1>1, <1>8, Records, PhaseSets DEF SlotInv, Calm, Steady, AtWork, Accepted, Alive, Live
<1>10. \A y \in Executions : exec'[y].aborted => exec'[y].phase \in WorkerPhases
  BY <1>1, <1>8, Records, PhaseSets DEF SlotInv
<1>11. \A y \in Executions : Alive(y)' => local'[y[1]] = y[2]
  BY <1>9 DEF SlotInv, AllCalm, Calm
<1>12. \A y \in handed' : exec'[y].phase = "none"
  BY <1>8, PhaseSets DEF SlotInv
<1>. QED
  BY <1>7, <1>9, <1>10, <1>11, <1>12 DEF SlotInv

\* An execution that is fenced or cancelled waits and lives no longer.
LEMMA AbortWorks ==
    ASSUME SlotInv, NEW x \in Executions, Beating(x), Abort(x), UNCHANGED <<handed, local>>
    PROVE  SlotInv' /\ AllCalm /\ ~Alive(x)'
<1> DEFINE r == IF exec[x].phase = "queued" THEN Over(x) ELSE [exec[x] EXCEPT !.aborted = TRUE]
<1>1. /\ r \in Execution
      /\ \/ exec[x].phase = "queued" /\ r.phase \in {"none", "ended"} /\ r.aborted = FALSE
            /\ r.due = 0
         \/ exec[x].phase \in WorkerPhases /\ r.phase = exec[x].phase /\ r.aborted = TRUE
            /\ r.due = exec[x].due /\ r.answer = exec[x].answer
  <2>1. exec[x] \in Execution
    BY DEF SlotInv
  <2>2. CASE exec[x].phase = "queued"
    BY <2>2, Records, PhaseSets DEF Over
  <2>3. CASE exec[x].phase # "queued"
    BY <2>1, <2>3 DEF Beating, Runs, Execution
  <2>. QED
    BY <2>2, <2>3
<1>2. exec' = [exec EXCEPT ![x] = r] /\ queue' = Dequeued(x)
  BY DEF Abort
<1> HIDE DEF r
<1>3. /\ exec' \in [Executions -> Execution] /\ exec'[x] = r
      /\ \A y \in Executions : y # x => exec'[y] = exec[y]
  BY <1>1, <1>2 DEF SlotInv
<1>4. Busy(exec') = Busy(exec)
  BY <1>1, <1>3, PhaseSets DEF Busy
<1>5. /\ queue' \in Seq(Executions) /\ Distinct(queue')
      /\ \A i \in 1..Len(queue') : queue'[i] # x /\ \E k \in 1..Len(queue) : queue'[i] = queue[k]
      /\ queue' # <<>> => queue # <<>>
  BY <1>2, DequeuedWorks
<1>6. AllQueued(exec', queue')
  <2>1. \A i \in 1..Len(queue') : queue'[i] \in Executions
    BY <1>5, ElementOfSeq
  <2>. QED
    BY <1>3, <1>5, <2>1 DEF AllQueued, SlotInv
<1>7. AllCalm /\ ~Alive(x)'
  BY <1>1, <1>3, PhaseSets DEF AllCalm, Calm, Steady, AtWork, Accepted, Alive, Live
<1>8. \A y \in Executions : exec'[y].aborted => exec'[y].phase \in WorkerPhases
  BY <1>1, <1>3 DEF SlotInv
<1>9. \A y \in Executions : Alive(y)' => local'[y[1]] = y[2]
  BY <1>7 DEF SlotInv, AllCalm, Calm
<1>10. \A y \in handed' : exec'[y].phase = "none"
  BY <1>1, <1>3, PhaseSets DEF SlotInv
<1>. QED
  BY <1>3, <1>4, <1>5, <1>6, <1>7, <1>8, <1>9, <1>10 DEF SlotInv

\* An activation that is admitted gets a fresh record, and perhaps a slot.
LEMMA DeliverWorks ==
    ASSUME SlotInv, now \in Nat, NEW x \in Executions, DeliverActivation(x)
    PROVE  SlotInv' /\ AllCalm
<1> DEFINE first == local[x[1]] = 0
           r == [Until("activating", now + REQUEST_TIMEOUT) EXCEPT !.reserved = first]
<1>1. r \in Execution /\ r.phase = "activating" /\ r.aborted = FALSE /\ r.answer = "none"
      /\ r.due = now + REQUEST_TIMEOUT /\ r.reserved = first
  <2>1. first \in BOOLEAN
    OBVIOUS
  <2> HIDE DEF first
  <2>2. now + REQUEST_TIMEOUT \in Nat /\ now <= now + REQUEST_TIMEOUT
    BY NodeAssumption
  <2>. QED
    BY <2>1, <2>2, PhaseSets DEF Until, Idle, Execution
<1>2. exec' = [exec EXCEPT ![x] = r] /\ handed' = handed \ {x} /\ UNCHANGED <<local, queue>>
  BY DEF DeliverActivation
<1> HIDE DEF r
<1>3. exec[x].phase = "none"
  BY DEF DeliverActivation, SlotInv
<1>4. /\ exec' \in [Executions -> Execution] /\ exec'[x] = r
      /\ \A y \in Executions : y # x => exec'[y] = exec[y]
  BY <1>1, <1>2 DEF SlotInv
<1>5. /\ Cardinality(Busy(exec')) <= MAX_CONCURRENT_SCANS
      /\ queue' # <<>> => Cardinality(Busy(exec')) = MAX_CONCURRENT_SCANS
  <2>0. IsFiniteSet(Busy(exec)) /\ Cardinality(Busy(exec)) \in Nat
    BY ExecutionSetsFinite DEF Busy
  <2>1. CASE local[x[1]] = 0
    <3>1. Busy(exec') = Busy(exec) \cup {x} /\ x \notin Busy(exec)
      BY <1>1, <1>3, <1>4, <2>1, PhaseSets DEF Busy
    <3>2. Cardinality(Busy(exec')) = Cardinality(Busy(exec)) + 1
      BY <2>0, <3>1, FS_AddElement
    <3>3. Cardinality(Busy(exec)) < MAX_CONCURRENT_SCANS
      BY <2>1 DEF DeliverActivation
    <3>4. queue = <<>>
      BY <2>0, <3>3, NodeAssumption DEF SlotInv
    <3>. QED
      BY <1>2, <2>0, <3>2, <3>3, <3>4, NodeAssumption
  <2>2. CASE local[x[1]] # 0
    <3>1. Busy(exec') = Busy(exec)
      BY <1>1, <1>3, <1>4, <2>2, PhaseSets DEF Busy
    <3>. QED
      BY <1>2, <3>1 DEF SlotInv
  <2>. QED
    BY <2>1, <2>2
<1>6. AllCalm
  <2>1. x \in handed
    BY DEF DeliverActivation
  <2>. QED
    BY <1>1, <1>3, <1>4, <2>1, PhaseSets DEF AllCalm, Calm, Steady, AtWork, Accepted, Alive, Live
<1>7. AllQueued(exec', queue')
  <2>1. \A i \in 1..Len(queue) : queue[i] \in Executions
    BY ElementOfSeq DEF SlotInv
  <2>. QED
    BY <1>2, <1>3, <1>4, <2>1 DEF AllQueued, SlotInv
<1>8. /\ \A y \in Executions : exec'[y].aborted => exec'[y].phase \in WorkerPhases
      /\ \A y \in handed' : exec'[y].phase = "none"
  BY <1>1, <1>2, <1>4 DEF SlotInv
<1>9. \A y \in Executions : Alive(y)' => local'[y[1]] = y[2]
  BY <1>2, <1>6 DEF SlotInv, AllCalm, Calm
<1>. QED
  BY <1>2, <1>4, <1>5, <1>6, <1>7, <1>8, <1>9 DEF SlotInv

\* An activation that is installed takes the record of its job, and whatever
\* the record named before is given up.
LEMMA InstallWorks ==
    ASSUME SlotInv, NEW x \in Executions, InstallActivation(x)
    PROVE  /\ SlotInv' /\ \A y \in Executions : y # x /\ Alive(y)' => Alive(y)
           /\ \A y \in Executions : y # x => Calm(y)
           /\ \A y \in Executions : Steady(y)
<1> DEFINE j == x[1]
           old == <<j, local[j]>>
           gone == Superseded(j, exec)
           e == [gone EXCEPT ![x] = In("queued")]
           others == IF local[j] = 0 THEN queue ELSE Dequeued(old)
           q == Append(others, x)
<1>1. /\ local' = [local EXCEPT ![j] = x[2]] /\ handed' = handed
      /\ Kick(e, q) /\ local[j] < x[2]
      /\ exec[x].phase = "activating" /\ exec[x].answer = "accepted"
  BY DEF InstallActivation, Installable
<1>2. /\ j \in Jobs /\ x[2] \in 1..MAX_ATTEMPTS /\ x = <<j, x[2]>>
      /\ local[j] \in 0..MAX_ATTEMPTS /\ local' \in [Jobs -> 0..MAX_ATTEMPTS]
  BY <1>1, ExecutionPairs, LimitAssumption DEF SlotInv
<1>3. \A y \in Executions :
         \/ y # old /\ gone[y] = exec[y]
         \/ y = old /\ exec[y].phase \in WorkerPhases /\ gone[y] = [exec[y] EXCEPT !.aborted = TRUE]
         \/ y = old /\ exec[y].phase \notin WorkerPhases /\ gone[y] = Idle
  BY ExecutionPairs DEF Superseded
<1>4. gone \in [Executions -> Execution]
  <2>1. ASSUME NEW y \in Executions
        PROVE  gone[y] \in Execution
    <3>1. exec[y] \in Execution
      BY DEF SlotInv
    <3>2. [exec[y] EXCEPT !.aborted = TRUE] \in Execution
      BY <3>1 DEF Execution
    <3> HIDE DEF gone
    <3>. QED
      BY <1>3, <3>1, <3>2, Records
  <2>2. gone = [y \in Executions |-> gone[y]]
    BY DEF Superseded
  <2> HIDE DEF gone
  <2>. QED
    BY <2>1, <2>2
<1>5. old # x
  BY <1>1, <1>2
<1>6. /\ e \in [Executions -> Execution] /\ e[x] = In("queued")
      /\ \A y \in Executions : y # x => e[y] = gone[y]
  BY <1>4, Records, PhaseSets
<1> HIDE DEF e, gone
<1>7. \A y \in Executions :
         \/ y = x /\ e[y] = In("queued")
         \/ y # x /\ y # old /\ e[y] = exec[y]
         \/ y # x /\ y = old /\ exec[y].phase \in WorkerPhases
            /\ e[y] = [exec[y] EXCEPT !.aborted = TRUE]
            /\ e[y].aborted = TRUE /\ e[y].phase = exec[y].phase /\ e[y].reserved = exec[y].reserved
         \/ y # x /\ y = old /\ exec[y].phase \notin WorkerPhases /\ e[y] = Idle
  <2> SUFFICES ASSUME NEW y \in Executions, y # x, y = old, exec[y].phase \in WorkerPhases
               PROVE  /\ e[y] = [exec[y] EXCEPT !.aborted = TRUE]
                      /\ e[y].aborted = TRUE /\ e[y].phase = exec[y].phase
                      /\ e[y].reserved = exec[y].reserved
    BY <1>3, <1>5, <1>6
  <2>1. e[y] = [exec[y] EXCEPT !.aborted = TRUE]
    BY <1>3, <1>6
  <2>2. exec[y] \in Execution
    BY DEF SlotInv
  <2>. QED
    BY <2>1, <2>2 DEF Execution
<1>8. /\ others \in Seq(Executions) /\ Distinct(others)
      /\ \A i \in 1..Len(others) :
            others[i] \in Executions \ {x, old} /\ exec[others[i]].phase = "queued"
  <2>1. \A i \in 1..Len(queue) : queue[i] \in Executions /\ exec[queue[i]].phase = "queued"
    BY ElementOfSeq DEF SlotInv, AllQueued
  <2>2. exec[x].phase # "queued"
    BY <1>1
  <2>3. CASE local[j] = 0
    <3>1. \A y \in Executions : y # old
      BY <2>3, ExecutionPairs
    <3>. QED
      BY <2>1, <2>2, <2>3, <3>1 DEF SlotInv
  <2>4. CASE local[j] # 0
    BY <2>1, <2>2, <2>4, DequeuedWorks
  <2>. QED
    BY <2>3, <2>4
<1> HIDE DEF others
<1>9. /\ q \in Seq(Executions) /\ Len(q) = Len(others) + 1 /\ Len(others) \in Nat
      /\ \A i \in 1..Len(others) : q[i] = others[i]
      /\ q[Len(others) + 1] = x
  BY <1>8, AppendProperties, LenProperties
<1>10. Distinct(q) /\ AllQueued(e, q)
  <2>1. \A i \in 1..Len(q) : i \in 1..Len(others) \/ i = Len(others) + 1
    BY <1>9
  <2>2. Distinct(q)
    BY <1>8, <1>9, <2>1 DEF Distinct
  <2>3. \A i \in 1..Len(others) : e[others[i]].phase = "queued"
    BY <1>7, <1>8
  <2>4. e[x].phase = "queued"
    BY <1>6, Records, PhaseSets
  <2>5. AllQueued(e, q)
    BY <1>9, <2>1, <2>3, <2>4 DEF AllQueued
  <2>. QED
    BY <2>2, <2>5
<1> HIDE DEF q
<1>11. Cardinality(Busy(e)) <= MAX_CONCURRENT_SCANS
  <2>1. Busy(e) \in SUBSET Busy(exec)
    <3>1. ASSUME NEW y \in Executions, y \in Busy(e)
          PROVE  y \in Busy(exec)
      <4>1. e[y].phase \in WorkerPhases \/ (e[y].phase = "activating" /\ e[y].reserved)
        BY <3>1 DEF Busy
      <4>2. y # x /\ e[y] # Idle
        BY <1>6, <4>1, Records, PhaseSets
      <4>3. e[y] = exec[y] \/ exec[y].phase \in WorkerPhases
        BY <1>7, <4>2
      <4>. QED
        BY <4>1, <4>3 DEF Busy
    <3>. QED
      BY <3>1 DEF Busy
  <2>2. Cardinality(Busy(e)) <= Cardinality(Busy(exec))
    BY <2>1, ExecutionSetsFinite, FS_Subset DEF Busy
  <2>. QED
    BY <2>2, ExecutionSetsFinite, NodeAssumption DEF SlotInv, Busy
<1>12. /\ exec' \in [Executions -> Execution] /\ queue' \in Seq(Executions)
       /\ Distinct(queue') /\ AllQueued(exec', queue')
       /\ Cardinality(Busy(exec')) <= MAX_CONCURRENT_SCANS
       /\ queue' # <<>> => Cardinality(Busy(exec')) = MAX_CONCURRENT_SCANS
       /\ \A y \in Executions : exec'[y] = e[y] \/ (e[y].phase = "queued" /\ exec'[y] = In("scan"))
  <2>1. Distinct(q) /\ AllQueued(e, q) /\ Kick(e, q)
    BY <1>1, <1>10 DEF q, e, others, gone
  <2>. QED
    BY <1>6, <1>9, <1>11, <2>1, KickWorks
<1>13. /\ exec'[x] \in {In("queued"), In("scan")}
       /\ \A y \in Executions : y # x =>
            \/ exec'[y] = exec[y]
            \/ exec[y].phase = "queued" /\ exec'[y] = In("scan")
            \/ exec[y].phase \in WorkerPhases /\ exec'[y] = [exec[y] EXCEPT !.aborted = TRUE]
            \/ y = old /\ exec[y].phase \notin WorkerPhases /\ exec'[y] = Idle
  <2>1. exec'[x] \in {In("queued"), In("scan")}
    BY <1>6, <1>12
  <2>2. ASSUME NEW y \in Executions, y # x
        PROVE  \/ exec'[y] = exec[y]
               \/ exec[y].phase = "queued" /\ exec'[y] = In("scan")
               \/ exec[y].phase \in WorkerPhases /\ exec'[y] = [exec[y] EXCEPT !.aborted = TRUE]
               \/ y = old /\ exec[y].phase \notin WorkerPhases /\ exec'[y] = Idle
    <3>1. exec'[y] = e[y] \/ (e[y].phase = "queued" /\ exec'[y] = In("scan"))
      BY <1>12
    <3>. QED
      BY <1>7, <2>2, <3>1, Records, PhaseSets
  <2>. QED
    BY <2>1, <2>2
<1>14. \A y \in Executions :
          exec[y].phase \in WorkerPhases /\ exec'[y] = [exec[y] EXCEPT !.aborted = TRUE]
            => /\ exec'[y].aborted = TRUE /\ exec'[y].phase = exec[y].phase
               /\ exec'[y].answer = exec[y].answer /\ exec'[y].due = exec[y].due
  <2> SUFFICES ASSUME NEW y \in Executions, exec'[y] = [exec[y] EXCEPT !.aborted = TRUE]
               PROVE  /\ exec'[y].aborted = TRUE /\ exec'[y].phase = exec[y].phase
                      /\ exec'[y].answer = exec[y].answer /\ exec'[y].due = exec[y].due
    OBVIOUS
  <2>1. exec[y] \in Execution
    BY DEF SlotInv
  <2>. QED
    BY <2>1 DEF Execution
<1>15. \A y \in Executions : y # x /\ Alive(y)' => Alive(y) /\ y # old
  <2> SUFFICES ASSUME NEW y \in Executions, y # x, Alive(y)'
               PROVE  Alive(y) /\ y # old
    OBVIOUS
  <2>1. exec'[y] = e[y] \/ (e[y].phase = "queued" /\ exec'[y] = In("scan"))
    BY <1>12
  <2>2. CASE y # old
    <3>1. e[y] = exec[y]
      BY <1>7, <2>2
    <3>. QED
      BY <2>1, <2>2, <3>1 DEF Alive, Live
  <2>3. CASE y = old
    <3>1. (e[y].phase \in WorkerPhases /\ e[y].aborted = TRUE) \/ e[y] = Idle
      BY <1>7, <2>3
    <3>2. exec'[y] = e[y] /\ e[y].phase # "queued"
      BY <2>1, <3>1, Records, PhaseSets
    <3>3. ~Alive(y)'
      BY <3>1, <3>2, Records, PhaseSets DEF Alive, Live
    <3>. QED
      BY <3>3
  <2>. QED
    BY <2>2, <2>3
<1>16. \A y \in Executions : Alive(y)' => local'[y[1]] = y[2]
  <2> SUFFICES ASSUME NEW y \in Executions, Alive(y)' PROVE local'[y[1]] = y[2]
    OBVIOUS
  <2>1. CASE y = x
    BY <1>1, <1>2, <2>1 DEF SlotInv
  <2>2. CASE y # x
    <3>1. Alive(y) /\ y # old /\ local[y[1]] = y[2]
      BY <1>15, <2>2 DEF SlotInv
    <3>2. y[1] # j
      BY <3>1, ExecutionPairs
    <3>. QED
      BY <1>1, <3>1, <3>2, ExecutionPairs DEF SlotInv
  <2>. QED
    BY <2>1, <2>2
<1>17. ASSUME NEW y \in Executions
       PROVE  /\ Steady(y)
              /\ exec'[y].aborted => exec'[y].phase \in WorkerPhases
              /\ y \in handed' => exec'[y].phase = "none"
  <2>0. /\ exec[y].aborted => exec[y].phase \in WorkerPhases
        /\ y \in handed => exec[y].phase = "none"
    BY DEF SlotInv
  <2>1. CASE exec'[y] = exec[y]
    BY <1>1, <2>0, <2>1, PhaseSets DEF Steady, AtWork, Accepted
  <2>2. CASE exec'[y] = In("scan") /\ exec[y].phase = "queued"
    BY <1>1, <2>0, <2>2, Records, PhaseSets DEF Steady, AtWork, Accepted
  <2>3. CASE y = x
    <3>1. /\ exec'[y].phase \in {"queued", "scan"} /\ ~exec'[y].aborted
          /\ exec[y].phase = "activating" /\ exec[y].answer = "accepted"
      BY <1>1, <1>13, <2>3, Records, PhaseSets
    <3>. QED
      BY <1>1, <2>0, <3>1, PhaseSets DEF Steady, AtWork, Accepted
  <2>4. CASE exec'[y] = Idle
    BY <1>1, <2>0, <2>4, Records, PhaseSets DEF Steady, AtWork, Accepted
  <2>5. CASE exec[y].phase \in WorkerPhases /\ exec'[y] = [exec[y] EXCEPT !.aborted = TRUE]
    BY <1>1, <1>14, <2>0, <2>5, PhaseSets DEF Steady, AtWork, Accepted
  <2>. QED
    BY <1>13, <2>1, <2>2, <2>3, <2>4, <2>5
<1>. QED
  BY <1>1, <1>2, <1>12, <1>15, <1>16, <1>17 DEF SlotInv, Calm

-----------------------------------------------------------------------------
(* Every step keeps Node's memory.                                         *)

\* An execution's lease was granted, or its row is deleted.
Issued(x) == jobs[x[1]].state = "gone" \/ x[2] <= jobs[x[1]].generation
IssuedInv == \A x \in Executions : x \in handed \/ exec[x].phase # "none" => Issued(x)

\* What a step does to Node: it keeps its memory, every execution is steady,
\* and one that comes alive is newer than every cancellation Node heard of.
NodeMoves ==
    /\ SlotInv'
    /\ \A x \in Executions : Steady(x)
    /\ \A x \in Executions :
          Alive(x)' /\ ~Alive(x) => watermark[x[1]] < x[2] /\ UNCHANGED watermark

\* Nothing moves while Node's memory stays as it is.
LEMMA NodeRests ==
    ASSUME SlotInv, UNCHANGED <<exec, local, queue>>, handed' \subseteq handed
    PROVE  NodeMoves
<1>1. \A x \in Executions : Steady(x) /\ Alive(x)' = Alive(x)
  BY PhaseSets DEF Steady, AtWork, Accepted, Alive, Live
<1>2. SlotInv'
  BY <1>1 DEF SlotInv, AllQueued, Busy
<1>. QED
  BY <1>1, <1>2 DEF NodeMoves

\* A calm step moves Node.
LEMMA CalmMoves ==
    ASSUME SlotInv', AllCalm
    PROVE  NodeMoves
BY DEF NodeMoves, AllCalm, Calm

\* Work that goes on moves Node, when the execution is steady.
LEMMA WorkMoves ==
    ASSUME SlotInv, NEW x \in Executions, NEW r \in Execution,
           exec' = [exec EXCEPT ![x] = r], UNCHANGED <<handed, local, queue>>,
           \/ r.phase = exec[x].phase /\ r.aborted = exec[x].aborted
              /\ r.reserved = exec[x].reserved
           \/ /\ exec[x].phase \in WorkerPhases /\ r.phase \in WorkerPhases /\ ~r.aborted
              /\ r.phase \in RunningPhases => Live(x),
           Steady(x)
    PROVE  NodeMoves
<1>1. SlotInv' /\ \A y \in Executions : Alive(y)' => Alive(y)
  BY WorkGoesOn
<1>2. ASSUME NEW y \in Executions, y # x
      PROVE  Steady(y)
  <2>1. exec'[y] = exec[y]
    BY <1>2 DEF SlotInv
  <2>. QED
    BY <2>1, PhaseSets DEF Steady, AtWork, Accepted
<1>. QED
  BY <1>1, <1>2 DEF NodeMoves

\* The coordinator's answer reaches the call that waits for it, or nobody.
LEMMA AnswerMoves ==
    ASSUME SlotInv, NEW x \in Executions, NEW phase \in {"activating", "begin"},
           NEW answer \in {"accepted", "refused"}, Answered(x, phase, answer), UNCHANGED handed,
           phase = "begin" /\ answer = "accepted" => Publishing(x)' /\ ~Publishing(x),
           phase = "activating" /\ answer = "accepted" => Renewed(x)
    PROVE  NodeMoves
<1>1. CASE UNCHANGED exec
  BY <1>1, NodeRests DEF Answered
<1>2. CASE /\ exec[x].phase = phase /\ exec[x].answer = "none"
           /\ exec' = [exec EXCEPT ![x].answer = answer]
  <2> DEFINE r == [exec[x] EXCEPT !.answer = answer]
  <2>1. exec[x] \in Execution
    BY DEF SlotInv
  <2>2. /\ r \in Execution /\ r.phase = exec[x].phase /\ r.aborted = exec[x].aborted
        /\ r.reserved = exec[x].reserved /\ r.answer = answer /\ r.due = exec[x].due
    BY <2>1 DEF Execution
  <2>3. exec' = [exec EXCEPT ![x] = r] /\ UNCHANGED <<handed, local, queue>>
    BY <1>2 DEF Answered
  <2> HIDE DEF r
  <2>4. exec'[x] = r
    BY <2>3 DEF SlotInv
  <2>5. Steady(x)
    BY <1>2, <2>2, <2>4, PhaseSets DEF Steady, AtWork, Accepted
  <2>. QED
    BY <2>2, <2>3, <2>5, WorkMoves
<1>. QED
  BY <1>1, <1>2 DEF Answered

\* A call of the worker moves Node.
LEMMA CallMoves ==
    ASSUME SlotInv, now \in Nat, NEW x \in Executions, NEW kind,
           NEW phase \in {"begin", "resolve"}, Call(x, kind, phase),
           exec[x].phase \in RunningPhases, ~exec[x].aborted
    PROVE  NodeMoves
<1> DEFINE r == Until(phase, now + REQUEST_TIMEOUT)
<1>1. /\ r \in Execution /\ r.phase = phase /\ r.aborted = FALSE /\ r.answer = "none"
      /\ r.due = now + REQUEST_TIMEOUT
  BY NodeAssumption, Records, PhaseSets
<1>2. exec' = [exec EXCEPT ![x] = r] /\ UNCHANGED <<handed, local, queue>>
  BY DEF Call
<1> HIDE DEF r
<1>3. exec'[x] = r
  BY <1>2 DEF SlotInv
<1>4. Steady(x) /\ Live(x) /\ exec[x].phase \in WorkerPhases /\ r.phase \in WorkerPhases
  BY <1>1, <1>3, PhaseSets DEF Steady, AtWork, Accepted, Live
<1>. QED
  BY <1>1, <1>2, <1>4, WorkMoves

\* An accepted heartbeat renews the lease.
LEMMA RenewalRenews ==
    ASSUME Inv, NEW x \in Executions, HeartbeatDurableScanJob(x[1], x[2], x[2], 0)
    PROVE  Renewed(x)
<1>1. x[1] \in Jobs
  BY ExecutionPairs
<1>2. /\ Active(jobs[x[1]]) /\ jobs[x[1]].generation = x[2]
      /\ jobs'[x[1]] = RenewedRow(jobs[x[1]], AdvancedRuns(x[1], 0))
  BY <1>1
     DEF Inv, HeartbeatDurableScanJob, HeartbeatAccepted, HoldsLease, Active
<1>. QED
  BY <1>2 DEF Renewed, RenewedRow, HeartbeatCeiling, DeadlineAt

\* The coordinator's handling of Node's requests.
LEMMA RequestMoves ==
    ASSUME Inv, SlotInv, NEW x \in Executions, RequestNext(x)
    PROVE  NodeMoves
<1>1. CASE HandleActivate(x)
  <2>1. UNCHANGED handed
    BY <1>1 DEF HandleActivate
  <2>2. CASE HeartbeatDurableScanJob(x[1], x[2], x[2], 0) /\ Answered(x, "activating", "accepted")
    <3>1. Renewed(x)
      BY <2>2, RenewalRenews
    <3>. QED
      BY <2>1, <2>2, <3>1, AnswerMoves
  <2>3. CASE Answered(x, "activating", "refused")
    BY <2>1, <2>3, AnswerMoves
  <2>. QED
    BY <1>1, <2>2, <2>3 DEF HandleActivate
<1>2. CASE HandleBeat(x) \/ HandleResolve(x)
  BY <1>2, NodeRests DEF HandleBeat, HandleResolve, nodeVars
<1>3. CASE RefuseBeat(x)
  <2>1. Beating(x) /\ Abort(x) /\ UNCHANGED <<handed, local>>
    BY <1>3 DEF RefuseBeat
  <2>. QED
    BY <2>1, AbortWorks, CalmMoves
<1>4. CASE HandleBegin(x)
  <2>1. UNCHANGED handed
    BY <1>4 DEF HandleBegin
  <2>2. CASE BeginPublishingDurableScanJob(x[1], x[2], x[2]) /\ Answered(x, "begin", "accepted")
    <3>1. x[1] \in Jobs
      BY ExecutionPairs
    <3>2. /\ jobs'[x[1]] = PublishingRow(jobs[x[1]]) /\ jobs[x[1]].generation = x[2]
          /\ jobs[x[1]].state = "leased"
      BY <2>2, <3>1
         DEF Inv, BeginPublishingDurableScanJob, BeginPublishingAccepted, HoldsLease
    <3>3. Publishing(x)' /\ ~Publishing(x)
      BY <3>2 DEF Publishing, PublishingRow
    <3>. QED
      BY <2>1, <2>2, <3>3, AnswerMoves
  <2>3. CASE Answered(x, "begin", "refused")
    BY <2>1, <2>3, AnswerMoves
  <2>. QED
    BY <1>4, <2>2, <2>3 DEF HandleBegin
<1>. QED
  BY <1>1, <1>2, <1>3, <1>4 DEF RequestNext

\* Node's activations.
LEMMA ActivationMoves ==
    ASSUME Inv, SlotInv, NEW x \in Executions, ActivationNext(x)
    PROVE  NodeMoves
<1>1. CASE DeliverActivation(x)
  BY <1>1, DeliverWorks, CalmMoves DEF Inv
<1>2. CASE FailActivation(x)
  BY <1>2, NodeRests DEF FailActivation, nodeVars
<1>3. CASE InstallActivation(x)
  <2>1. /\ SlotInv' /\ \A y \in Executions : Steady(y)
        /\ \A y \in Executions : y # x /\ Alive(y)' => Alive(y)
    BY <1>3, InstallWorks
  <2>2. watermark[x[1]] < x[2] /\ UNCHANGED watermark
    BY <1>3 DEF InstallActivation, Installable
  <2>. QED
    BY <2>1, <2>2 DEF NodeMoves
<1>4. CASE AbandonActivation(x)
  <2>1. /\ exec[x].phase = "activating" /\ Kick([exec EXCEPT ![x] = Idle], queue)
        /\ UNCHANGED <<handed, local>>
    BY <1>4 DEF AbandonActivation
  <2>. QED
    BY <2>1, SlotGivenBack, CalmMoves
<1>. QED
  BY <1>1, <1>2, <1>3, <1>4 DEF ActivationNext

\* A worker that returns moves Node.
LEMMA LeaveMoves ==
    ASSUME SlotInv, NEW x \in Executions, exec[x].phase \in WorkerPhases, Leave(x), UNCHANGED handed
    PROVE  NodeMoves
<1>1. Over(x) \in {Idle, In("ended")}
  BY DEF Over
<1>. QED
  BY <1>1, SlotGivenBack, CalmMoves DEF Leave

\* The steps of a worker.
LEMMA WorkerMoves ==
    ASSUME Inv, SlotInv, NEW x \in Executions, WorkerNext(x)
    PROVE  NodeMoves
<1>0. now \in Nat /\ exec[x] \in Execution
  BY DEF Inv, SlotInv
<1>1. CASE Beat(x)
  BY <1>1, NodeRests DEF Beat, WorkerStep, nodeVars
<1>2. CASE EndScan(x)
  BY <1>0, <1>2, CallMoves, PhaseSets DEF EndScan
<1>3. CASE Published(x)
  BY <1>0, <1>3, CallMoves, PhaseSets DEF Published
<1>4. CASE \/ LeaveUnpublished(x) \/ LeaveUnknown(x) \/ EndResolve(x) \/ StopAborted(x)
  BY <1>4, LeaveMoves, PhaseSets
     DEF LeaveUnpublished, LeaveUnknown, EndResolve, StopAborted, WorkerStep
<1>5. CASE BeginPublication(x)
  <2>1. exec[x].phase = "begin" /\ ~exec[x].aborted /\ exec[x].answer = "accepted"
    BY <1>5 DEF BeginPublication
  <2>2. CASE Call(x, "fail", "resolve")
    BY <1>0, <2>1, <2>2, CallMoves, PhaseSets
  <2>3. CASE Commit(x)
    <3> DEFINE r == Until("primary", now + PUBLICATION_TIMEOUT)
    <3>1. /\ r \in Execution /\ r.phase = "primary" /\ r.aborted = FALSE
          /\ r.due = now + PUBLICATION_TIMEOUT
      <4>1. now + PUBLICATION_TIMEOUT \in Nat
        BY <1>0, TimingAssumption
      <4>. QED
        BY <4>1, Records, PhaseSets
    <3>2. exec' = [exec EXCEPT ![x] = r] /\ UNCHANGED <<handed, local, queue>>
      BY <2>3 DEF Commit
    <3> HIDE DEF r
    <3>3. exec'[x] = r
      BY <3>2 DEF SlotInv
    <3>4. Steady(x) /\ Live(x) /\ exec[x].phase \in WorkerPhases /\ r.phase \in WorkerPhases
      BY <2>1, <3>1, <3>3, PhaseSets DEF Steady, AtWork, Accepted, Live
    <3>. QED
      BY <3>1, <3>2, <3>4, WorkMoves
  <2>. QED
    BY <1>5, <2>2, <2>3 DEF BeginPublication
<1>6. ASSUME NEW phase \in {"sidecar", "readback"}, exec[x].phase \in {"primary", "sidecar"},
             ~exec[x].aborted, phase = "sidecar" => stored[x[1]].primary = x[2],
             exec' = [exec EXCEPT ![x].phase = phase], UNCHANGED <<handed, local, queue>>
      PROVE  NodeMoves
  <2> DEFINE r == [exec[x] EXCEPT !.phase = phase]
  <2>1. /\ r \in Execution /\ r.phase = phase /\ r.aborted = exec[x].aborted /\ r.due = exec[x].due
    BY <1>0, PhaseSets DEF Execution
  <2>2. exec' = [exec EXCEPT ![x] = r] /\ UNCHANGED <<handed, local, queue>>
    BY <1>6
  <2> HIDE DEF r
  <2>3. exec'[x] = r
    BY <2>2 DEF SlotInv
  <2>4. Steady(x) /\ Live(x) /\ exec[x].phase \in WorkerPhases /\ r.phase \in WorkerPhases
    BY <1>6, <2>1, <2>3, PhaseSets DEF Steady, AtWork, Accepted, Live
  <2>5. ~r.aborted
    BY <1>6, <2>1
  <2>. QED
    BY <2>1, <2>2, <2>4, <2>5, WorkMoves
<1>7. CASE WriteSidecar(x)
  BY <1>6, <1>7 DEF WriteSidecar
<1>8. CASE CommitFails(x)
  BY <1>6, <1>8 DEF CommitFails, WorkerStep
<1>9. CASE ReadBackFinds(x)
  <2> DEFINE r == Until("resolve", now + REQUEST_TIMEOUT)
  <2>1. r \in Execution /\ r.phase = "resolve" /\ r.aborted = FALSE
    BY <1>0, NodeAssumption, Records, PhaseSets
  <2>2. /\ exec' = [exec EXCEPT ![x] = r] /\ UNCHANGED <<handed, local, queue>>
        /\ exec[x].phase = "readback"
    BY <1>9 DEF ReadBackFinds
  <2> HIDE DEF r
  <2>3. exec'[x] = r
    BY <2>2 DEF SlotInv
  <2>4. /\ Steady(x) /\ exec[x].phase \in WorkerPhases /\ r.phase \in WorkerPhases
        /\ r.phase \notin RunningPhases
    BY <2>1, <2>2, <2>3, PhaseSets DEF Steady, AtWork, Accepted
  <2>. QED
    BY <2>1, <2>2, <2>4, WorkMoves
<1>. QED
  BY <1>1, <1>2, <1>3, <1>4, <1>5, <1>7, <1>8, <1>9 DEF WorkerNext

\* A cancellation reaches Node.
LEMMA DeliverAbortMoves ==
    ASSUME SlotInv, watermark \in [Jobs -> 0..MAX_ATTEMPTS], NEW x \in Executions, DeliverAbort(x)
    PROVE  /\ NodeMoves
           /\ \A y \in Executions : y[1] = x[1] /\ y[2] <= x[2] => ~Alive(y)'
           /\ watermark' \in [Jobs -> 0..MAX_ATTEMPTS]
           /\ \A y \in Executions :
                 y[2] <= watermark'[y[1]] =>
                    y[2] <= watermark[y[1]] \/ (y[1] = x[1] /\ y[2] <= x[2])
<1> DEFINE j == x[1]
           y == <<j, local[j]>>
<1>1. j \in Jobs /\ x[2] \in 1..MAX_ATTEMPTS /\ local[j] \in 0..MAX_ATTEMPTS
  BY ExecutionPairs DEF SlotInv
<1>2. UNCHANGED <<handed, local>>
  BY DEF DeliverAbort
<1>3. ASSUME local[j] \in 1..x[2] /\ (exec[y].phase = "queued" \/ Live(y))
      PROVE  NodeMoves /\ \A z \in Executions : z[1] = j /\ z[2] <= x[2] => ~Alive(z)'
  <2>1. y \in Executions
    BY <1>1, <1>3 DEF Executions, Generations
  <2>5. PICK w \in Executions : w = y
    BY <2>1
  <2>6. Beating(w) /\ Abort(w)
    BY <1>3, <2>5, PhaseSets DEF DeliverAbort, Beating, Runs, Live
  <2>2. SlotInv' /\ AllCalm /\ ~Alive(w)'
    BY <1>2, <2>6, AbortWorks
  <2>3. ASSUME NEW z \in Executions, z[1] = j, Alive(z)'
        PROVE  FALSE
    <3>1. Alive(z)
      BY <2>2, <2>3 DEF AllCalm, Calm
    <3>2. z = w
      BY <2>3, <2>5, <3>1, ExecutionPairs DEF SlotInv
    <3>. QED
      BY <2>2, <2>3, <3>2
  <2>. QED
    BY <2>2, <2>3, CalmMoves
<1>4. ASSUME ~(local[j] \in 1..x[2] /\ (exec[y].phase = "queued" \/ Live(y)))
      PROVE  NodeMoves /\ \A z \in Executions : z[1] = j /\ z[2] <= x[2] => ~Alive(z)'
  <2>1. UNCHANGED <<exec, queue>>
    BY <1>4 DEF DeliverAbort
  <2>2. NodeMoves
    BY <1>2, <2>1, NodeRests
  <2>3. ASSUME NEW z \in Executions, z[1] = j, z[2] <= x[2], Alive(z)'
        PROVE  FALSE
    <3>1. Alive(z)
      BY <2>1, <2>3 DEF Alive, Live
    <3>2. z = y /\ z[2] \in 1..x[2]
      BY <1>1, <2>3, <3>1, ExecutionPairs DEF SlotInv
    <3>. QED
      BY <1>4, <3>1, <3>2, ExecutionPairs DEF Alive
  <2>. QED
    BY <2>2, <2>3
<1>5. \A z \in Executions : z[1] = x[1] /\ z[2] <= x[2] => ~Alive(z)'
  BY <1>3, <1>4
<1>6. watermark' = [watermark EXCEPT ![j] = IF @ < x[2] THEN x[2] ELSE @]
  BY DEF DeliverAbort
<1>7. watermark' \in [Jobs -> 0..MAX_ATTEMPTS]
  BY <1>1, <1>6, LimitAssumption
<1>8. \A z \in Executions :
         z[2] <= watermark'[z[1]] =>
            z[2] <= watermark[z[1]] \/ (z[1] = x[1] /\ z[2] <= x[2])
  BY <1>1, <1>6, ExecutionPairs
<1>. QED
  BY <1>3, <1>4, <1>5, <1>7, <1>8

\* The retention of Node's records.
LEMMA ForgetMoves ==
    ASSUME SlotInv, NEW j \in Jobs, ForgetRecord(j)
    PROVE  NodeMoves
<1>1. <<j, local[j]>> \in Executions
  BY LimitAssumption DEF ForgetRecord, SlotInv, Executions, Generations
<1>2. PICK x \in Executions : x = <<j, local[j]>>
  BY <1>1
<1>3. /\ exec[x].phase = "ended" \/ exec[x].aborted
      /\ local' = [local EXCEPT ![j] = 0] /\ UNCHANGED <<handed, queue>>
      /\ exec' = [exec EXCEPT ![x] = IF exec[x].phase = "ended" THEN Idle ELSE exec[x]]
  BY <1>2 DEF ForgetRecord, WorkerStep
<1>4. /\ exec' \in [Executions -> Execution]
      /\ \A y \in Executions :
            exec'[y] = exec[y] \/ (y = x /\ exec[y].phase = "ended" /\ exec'[y] = Idle)
  BY <1>3, Records DEF SlotInv
<1>5. ~Alive(x) /\ ~Alive(x)'
  BY <1>3, <1>4, Records, PhaseSets DEF Alive, Live, SlotInv
<1>6. ASSUME NEW y \in Executions
      PROVE  Steady(y) /\ (Alive(y)' => Alive(y))
  BY <1>4, <1>5, Records, PhaseSets DEF Steady, AtWork, Accepted, Alive, Live
<1>7. ASSUME NEW y \in Executions, Alive(y)'
      PROVE  local'[y[1]] = y[2]
  <2>1. local[y[1]] = y[2] /\ y # x
    BY <1>5, <1>6, <1>7 DEF SlotInv
  <2>2. y[1] # j
    BY <1>2, <2>1, ExecutionPairs
  <2>. QED
    BY <1>3, <2>1, <2>2, ExecutionPairs DEF SlotInv
<1>8. Busy(exec') = Busy(exec)
  BY <1>4, Records, PhaseSets DEF Busy
<1>9. AllQueued(exec', queue')
  <2>1. \A i \in 1..Len(queue) : queue[i] \in Executions
    BY ElementOfSeq DEF SlotInv
  <2>. QED
    BY <1>3, <1>4, <2>1, PhaseSets DEF AllQueued, SlotInv
<1>10. local' \in [Jobs -> 0..MAX_ATTEMPTS]
  BY <1>3, LimitAssumption DEF SlotInv
<1>11. /\ \A y \in Executions : exec'[y].aborted => exec'[y].phase \in WorkerPhases
       /\ \A y \in handed' : exec'[y].phase = "none"
  BY <1>3, <1>4, Records DEF SlotInv
<1>. QED
  BY <1>3, <1>4, <1>6, <1>7, <1>8, <1>9, <1>10, <1>11 DEF SlotInv, NodeMoves

\* A crash forgets everything Node knew.
LEMMA CrashMoves ==
    ASSUME SlotInv, Crash
    PROVE  NodeMoves
<1>1. /\ exec' = [x \in Executions |-> Idle] /\ local' = [j \in Jobs |-> 0] /\ queue' = <<>>
      /\ handed' = handed
  BY DEF Crash, WorkerStep
<1>2. /\ exec' \in [Executions -> Execution] /\ local' \in [Jobs -> 0..MAX_ATTEMPTS]
      /\ queue' \in Seq(Executions)
  BY <1>1, Records, EmptySeq, LimitAssumption
<1>3. Len(queue') = 0
  BY <1>1, EmptySeq
<1>4. Busy(exec') = {}
  BY <1>1, Records, PhaseSets DEF Busy
<1>5. \A x \in Executions : Steady(x) /\ ~Alive(x)' /\ ~exec'[x].aborted /\ exec'[x].phase = "none"
  BY <1>1, Records, PhaseSets DEF Steady, AtWork, Accepted, Alive, Live
<1>6. Cardinality(Busy(exec')) <= MAX_CONCURRENT_SCANS
  BY <1>4, FS_EmptySet, NodeAssumption
<1>7. Distinct(queue') /\ AllQueued(exec', queue')
  BY <1>3 DEF Distinct, AllQueued
<1>. QED
  BY <1>1, <1>2, <1>5, <1>6, <1>7 DEF SlotInv, NodeMoves

\* A claim hands out executions that were never seen before.
LEMMA DispatchMoves ==
    ASSUME Inv, SlotInv, IssuedInv, Dispatch
    PROVE  /\ NodeMoves
           /\ \A x \in handed' : x \in handed \/ (Issued(x)' /\ jobs[x[1]].state = "queued")
<1>1. /\ handed' = handed \cup {<<j, jobs'[j].generation>> : j \in Claimed}
      /\ UNCHANGED <<exec, local, queue, watermark>>
  BY DEF Dispatch, CoordinatorStep, nodeVars
<1>2. ASSUME NEW j \in Claimed
      PROVE  /\ j \in Jobs /\ jobs[j].state = "queued"
             /\ jobs'[j].generation = jobs[j].generation + 1
             /\ <<j, jobs'[j].generation>> \in Executions
  <2>1. j \in Jobs /\ jobs[j].state = "queued" /\ jobs[j].attempts < MAX_ATTEMPTS
    BY DEF Claimed, Claimable
  <2>2. jobs'[j] = ClaimedRow(jobs[j])
    BY <2>1 DEF Dispatch, ClaimDurableScanJobs
  <2>3. jobs[j].generation = jobs[j].attempts /\ jobs[j].attempts \in 0..MAX_ATTEMPTS
    BY <2>1, RowColumns DEF Inv, GoodRow
  <2>4. jobs[j].attempts + 1 \in 1..MAX_ATTEMPTS
    BY <2>1, <2>3, LimitAssumption
  <2>. QED
    BY <2>1, <2>2, <2>3, <2>4 DEF ClaimedRow, Executions, Generations
<1>3. ASSUME NEW x \in handed', x \notin handed
      PROVE  /\ x \in Executions /\ exec[x].phase = "none"
             /\ Issued(x)' /\ jobs[x[1]].state = "queued"
  <2>1. PICK j \in Claimed : x = <<j, jobs'[j].generation>>
    BY <1>1, <1>3
  <2>2. x \in Executions /\ x[1] = j /\ x[2] = jobs[j].generation + 1
    BY <1>2, <2>1
  <2>3. /\ jobs[j].state = "queued" /\ jobs[j].generation \in Nat
        /\ jobs'[j].generation = jobs[j].generation + 1
    BY <1>2, RowColumns DEF Inv
  <2>4. ~Issued(x)
    BY <2>2, <2>3 DEF Issued
  <2>5. Issued(x)'
    BY <2>2, <2>3 DEF Issued
  <2>. QED
    BY <2>2, <2>3, <2>4, <2>5 DEF IssuedInv
<1>4. \A x \in Executions : Steady(x) /\ Alive(x)' = Alive(x)
  BY <1>1, PhaseSets DEF Steady, AtWork, Accepted, Alive, Live
<1>5. SlotInv'
  <2>1. handed' \subseteq Executions /\ \A x \in handed' : exec'[x].phase = "none"
    BY <1>1, <1>3 DEF SlotInv
  <2>. QED
    BY <1>1, <1>4, <2>1 DEF SlotInv, AllQueued, Busy
<1>. QED
  BY <1>3, <1>4, <1>5 DEF NodeMoves

\* Every step moves Node.
LEMMA EveryStepMovesNode ==
    ASSUME Inv, SlotInv, IssuedInv, watermark \in [Jobs -> 0..MAX_ATTEMPTS], Next
    PROVE  NodeMoves
<1>1. ASSUME NEW j \in Jobs, CoordinatorNext(j) \/ AnswerReconciliation(j) \/ ForgetWatermark(j)
      PROVE  NodeMoves
  <2>1. UNCHANGED <<exec, local, queue>> /\ handed' \subseteq handed
    BY <1>1
       DEF CoordinatorNext, Admission, RejectPayload, PumpRow, CancelDurableJob, AskReconciliation,
           FinishReconciliation, AbandonReconciliation, CoordinatorStep, AnswerReconciliation,
           ForgetWatermark, WorkerStep, nodeVars
  <2>. QED
    BY <2>1, NodeRests
<1>2. ASSUME NEW j \in Jobs, ForgetRecord(j)
      PROVE  NodeMoves
  BY <1>2, ForgetMoves
<1>3. CASE Dispatch
  BY <1>3, DispatchMoves
<1>4. CASE Maintain \/ Pass
  BY <1>4, NodeRests DEF Maintain, Pass, CoordinatorStep, nodeVars
<1>5. CASE Crash
  BY <1>5, CrashMoves
<1>6. ASSUME NEW x \in Executions, RequestNext(x) \/ ActivationNext(x) \/ WorkerNext(x)
      PROVE  NodeMoves
  BY <1>6, RequestMoves, ActivationMoves, WorkerMoves
<1>7. ASSUME NEW x \in Executions, DeliverAbort(x)
      PROVE  NodeMoves
  BY <1>7, DeliverAbortMoves
<1>8. ASSUME NEW x \in Executions, LoseAbort(x)
      PROVE  NodeMoves
  BY <1>8, NodeRests DEF LoseAbort, nodeVars
<1>9. ASSUME NEW r \in wire, LoseRequest(r)
      PROVE  NodeMoves
  BY <1>9, NodeRests DEF LoseRequest, nodeVars
<1>10. ASSUME NEW p \in puts, Land(p) \/ Vanish(p)
       PROVE  NodeMoves
  BY <1>10, NodeRests DEF Land, Vanish, nodeVars
<1>. QED
  BY <1>1, <1>2, <1>3, <1>4, <1>5, <1>6, <1>7, <1>8, <1>9, <1>10 DEF Next

-----------------------------------------------------------------------------
(* Every step moves a row by one of the store's mutations.                 *)

\* Outcomes of jobs that nobody published, and of publications.
UnpublishedReasons == {"deadline", "restart-limit", "execution-failed", "payload-invalid", "cancelled"}
PublishedReasons == {"none", "publication-missing", "publication-integrity", "deadline"}

RowStep(row, new) ==
    \/ new = row
    \/ Present(row) /\ new = NoRow("gone")
    \/ row.state = "unborn" /\ \E created \in Int : new = NewRow(created)
    \/ row.state = "queued" /\ DeadlineAt(row) > now /\ row.attempts < MAX_ATTEMPTS
       /\ new = ClaimedRow(row)
    \/ Active(row) /\ row.lease > now /\ HeartbeatCeiling(row) > now
       /\ \E runs \in 0..2 : new = RenewedRow(row, runs)
    \/ row.state = "leased" /\ row.lease <= now /\ now < DeadlineAt(row) /\ new = RequeuedRow(row)
    \/ row.state \in {"queued", "leased"}
       /\ \E state \in TerminalStates \ {"succeeded"}, reason \in UnpublishedReasons :
             (reason = "restart-limit" => row.attempts = MAX_ATTEMPTS)
             /\ new = Terminalized(row, state, reason)

\* The steps of a publication.
PublishingStep(row, new) ==
    row.state = "leased"
    /\ DeadlineAt(row) >= now + PUBLICATION_TIMEOUT + SETTLEMENT + RECONCILIATION_TIMEOUT
    /\ new = PublishingRow(row)

ConcludingStep(row, new) ==
    row.state = "publishing"
    /\ \E state \in TerminalStates \ {"cancelled"}, reason \in PublishedReasons :
          new = Terminalized(row, state, reason)

\* What every row does: it stays good and moves along its promise, its
\* generation grows until it is deleted for good, a commitment is kept, and
\* the lease of a publication is long enough and only grows while it lasts.
RowMoves(row, new) ==
    /\ GoodRow(new) /\ Advances(row, new)
    /\ row.state = "gone" => new.state = "gone"
    /\ new.state # "gone" => row.generation <= new.generation
    /\ Active(new) => new.lease <= now + LEASE
    /\ new.state = "publishing" =>
          /\ new.generation = row.generation
          /\ \/ /\ row.state = "publishing" /\ row.lease <= new.lease
                /\ row.lease <= now => new.lease = row.lease
             \/ row.state = "leased" /\ now + PUBLICATION_TIMEOUT <= new.lease

\* The execution g of a row is the one that committed to publish.
Committed(row, g) ==
    /\ row.state \notin {"unborn", "queued", "leased", "cancelled"}
    /\ row.state # "gone" => row.generation = g
    /\ row.reason \notin {"execution-failed", "restart-limit", "payload-invalid"}

LeaseBounded(row) == Active(row) => row.lease <= now + LEASE

\* An unchanged row moves.
LEMMA SameRowMoves ==
    ASSUME NEW row, GoodRow(row), LeaseBounded(row), now \in Nat \ {0}
    PROVE  RowMoves(row, row)
<1>1. row.generation \in Nat /\ row.lease \in Int
  BY RowColumns DEF GoodRow
<1>. QED
  BY <1>1, SameRowSound DEF RowMoves, Sound, LeaseBounded, Active

\* A deleted row moves.
LEMMA DeletedRowMoves ==
    ASSUME NEW row, GoodRow(row), Present(row)
    PROVE  RowMoves(row, NoRow("gone"))
<1>1. GoodRow(NoRow("gone")) /\ Advances(row, NoRow("gone"))
  BY DeletedRowGood
<1>2. NoRow("gone").state = "gone"
  BY DEF NoRow
<1>. QED
  BY <1>1, <1>2 DEF RowMoves, Active

\* A mutation that publishes nothing moves the row.
LEMMA RowStepMoves ==
    ASSUME NEW row, NEW new, GoodRow(row), LeaseBounded(row), now \in Nat \ {0},
           RowStep(row, new)
    PROVE  /\ RowMoves(row, new)
           /\ \A g \in Nat : Committed(row, g) => Committed(new, g)
           /\ new.state = "succeeded" => new = row
           /\ new.reason = "publication-missing" => new = row
           /\ new.state = "publishing" => row.state = "publishing"
<1>0. /\ row \in Row /\ row.generation \in Nat /\ row.lease \in Int /\ row.created \in Int
      /\ row.generation = row.attempts /\ row.reason \in Reasons
  BY RowColumns DEF GoodRow
<1> DEFINE Goal == /\ RowMoves(row, new)
                   /\ \A g \in Nat : Committed(row, g) => Committed(new, g)
                   /\ new.state = "succeeded" => new = row
                   /\ new.reason = "publication-missing" => new = row
                   /\ new.state = "publishing" => row.state = "publishing"
<1>1. CASE new = row
  BY <1>1, SameRowMoves
<1>2. CASE Present(row) /\ new = NoRow("gone")
  BY <1>2, DeletedRowMoves DEF Committed, NoRow
<1>3. ASSUME row.state = "unborn", NEW created \in Int, new = NewRow(created)
      PROVE  Goal
  <2>1. GoodRow(new) /\ Advances(row, new)
    BY <1>3, NewRowSound DEF Sound
  <2>2. /\ new.state = "queued" /\ new.generation = 0 /\ new.reason = "none"
        /\ row.generation = 0
    BY <1>3 DEF NewRow, GoodRow, Present, AbsentStates, NoRow
  <2>. QED
    BY <1>3, <2>1, <2>2 DEF RowMoves, Active, Committed
<1>4. ASSUME row.state = "queued", DeadlineAt(row) > now, row.attempts < MAX_ATTEMPTS,
             new = ClaimedRow(row)
      PROVE  Goal
  <2>1. GoodRow(new) /\ Advances(row, new)
    BY <1>4, ClaimedRowSound DEF Sound
  <2>2. /\ new.state = "leased" /\ new.generation = row.generation + 1
        /\ new.reason = row.reason /\ new.lease <= now + LEASE
    BY <1>0, <1>4, TimingAssumption DEF ClaimedRow, Earlier, DeadlineAt
  <2>3. row.reason = "none"
    BY <1>4 DEF GoodRow, Terminal, TerminalStates
  <2>. QED
    BY <1>0, <1>4, <2>1, <2>2, <2>3 DEF RowMoves, Active, Committed
<1>5. ASSUME Active(row), row.lease > now, HeartbeatCeiling(row) > now,
             NEW runs \in 0..2, new = RenewedRow(row, runs)
      PROVE  Goal
  <2>1. GoodRow(new) /\ Advances(row, new)
    BY <1>5, RenewedRowSound DEF Sound
  <2>2. /\ new.state = row.state /\ new.generation = row.generation
        /\ new.reason = row.reason /\ new.lease = Earlier(now + LEASE, HeartbeatCeiling(row))
    BY <1>5 DEF RenewedRow
  <2>3. new.lease <= now + LEASE
    BY <1>0, <2>2, TimingAssumption DEF Earlier, HeartbeatCeiling, PublishingCeiling, DeadlineAt
  <2>4. row.state = "publishing" => row.lease <= new.lease
    BY <1>0, <1>5, <2>2, TimingAssumption
       DEF Earlier, HeartbeatCeiling, GoodRow, LeaseBounded, PublishingCeiling, DeadlineAt
  <2>5. row.reason = "none" /\ row.state \in {"leased", "publishing"}
    BY <1>5 DEF GoodRow, Terminal, TerminalStates, Active
  <2>. QED
    BY <1>0, <1>5, <2>1, <2>2, <2>3, <2>4, <2>5 DEF RowMoves, Active, Committed
<1>6. ASSUME row.state = "leased", new = RequeuedRow(row)
      PROVE  Goal
  <2>1. GoodRow(new) /\ Advances(row, new)
    BY <1>6, RequeuedRowSound DEF Sound
  <2>2. /\ new.state = "queued" /\ new.generation = row.generation /\ new.reason = row.reason
    BY <1>6 DEF RequeuedRow
  <2>3. row.reason = "none"
    BY <1>6 DEF GoodRow, Terminal, TerminalStates
  <2>. QED
    BY <1>0, <1>6, <2>1, <2>2, <2>3 DEF RowMoves, Active, Committed
<1>7. ASSUME row.state \in {"queued", "leased"},
             NEW state \in TerminalStates \ {"succeeded"}, NEW reason \in UnpublishedReasons,
             reason = "restart-limit" => row.attempts = MAX_ATTEMPTS,
             new = Terminalized(row, state, reason)
      PROVE  Goal
  <2>1. GoodRow(new) /\ Advances(row, new)
    BY <1>7, TerminalizedRowSound DEF Sound, Nonterminal, NonterminalStates, UnpublishedReasons, Reasons
  <2>2. /\ new.state = state /\ new.generation = row.generation /\ new.reason = reason
    BY <1>7 DEF Terminalized
  <2>. QED
    BY <1>0, <1>7, <2>1, <2>2 DEF RowMoves, Active, Committed, TerminalStates, UnpublishedReasons
<1>. QED
  BY <1>1, <1>2, <1>3, <1>4, <1>5, <1>6, <1>7 DEF RowStep

\* The steps of a publication move the row.
LEMMA PublicationRowMoves ==
    ASSUME NEW row, NEW new, GoodRow(row), LeaseBounded(row), now \in Nat \ {0},
           PublishingStep(row, new) \/ ConcludingStep(row, new)
    PROVE  /\ RowMoves(row, new)
           /\ \A g \in Nat : Committed(row, g) => Committed(new, g)
<1>0. /\ row \in Row /\ row.generation \in Nat /\ row.lease \in Int /\ row.created \in Int
  BY RowColumns DEF GoodRow
<1>1. CASE PublishingStep(row, new)
  <2>1. GoodRow(new) /\ Advances(row, new)
    BY <1>1, PublishingRowSound DEF PublishingStep, Sound
  <2>2. /\ row.state = "leased" /\ new.state = "publishing" /\ new.generation = row.generation
        /\ new.lease = Earlier(now + LEASE, PublishingCeiling(row))
    BY <1>1 DEF PublishingStep, PublishingRow
  <2>3. new.lease <= now + LEASE /\ now + PUBLICATION_TIMEOUT <= new.lease
    BY <1>0, <1>1, <2>2, TimingAssumption, SettlementAssumption
       DEF PublishingStep, Earlier, PublishingCeiling, DeadlineAt
  <2>. QED
    BY <1>0, <2>1, <2>2, <2>3 DEF RowMoves, Active, Committed
<1>2. CASE ConcludingStep(row, new)
  <2>1. PICK state \in TerminalStates \ {"cancelled"}, reason \in PublishedReasons :
           new = Terminalized(row, state, reason)
    BY <1>2 DEF ConcludingStep
  <2>2. row.state = "publishing"
    BY <1>2 DEF ConcludingStep
  <2>3. GoodRow(new) /\ Advances(row, new)
    BY <2>1, <2>2, TerminalizedRowSound
       DEF Sound, Nonterminal, NonterminalStates, PublishedReasons, Reasons
  <2>4. new.state = state /\ new.generation = row.generation /\ new.reason = reason
    BY <2>1 DEF Terminalized
  <2>. QED
    BY <1>0, <2>2, <2>3, <2>4 DEF RowMoves, Active, Committed, TerminalStates, PublishedReasons
<1>. QED
  BY <1>1, <1>2

\* What concludes a publication: the call of the execution that published, or
\* the reconciliation of a publication whose settlement window is over.
Resolved(j) ==
    Request(<<j, jobs[j].generation>>, "succeed") \in wire /\ jobs'[j].reason = "none"

Reconciled(j) ==
    /\ jobs[j].lease <= now /\ SettlementAt(jobs[j]) <= now
    /\ recon[j].generation = jobs[j].generation
    /\ jobs'[j].state = "succeeded" => recon[j].answer = "succeeded"
    /\ jobs'[j].reason = "publication-missing" => recon[j].answer = "missing"
    /\ UNCHANGED <<exec, stored, puts>>

Concluded(j) == ConcludingStep(jobs[j], jobs'[j]) /\ (Resolved(j) \/ Reconciled(j))

\* Every row of the next table comes from the row it replaces.
TableMoves ==
    /\ jobs' = [j \in Jobs |-> jobs'[j]]
    /\ \A j \in Jobs :
          \/ RowStep(jobs[j], jobs'[j])
          \/ PublishingStep(jobs[j], jobs'[j])
          \/ Concluded(j)

\* A table that stays as it is moves.
LEMMA SameTableMoves ==
    ASSUME Inv, UNCHANGED jobs
    PROVE  TableMoves
BY DEF Inv, TableMoves, RowStep

\* Replacing one row.
LEMMA OneRowMoves ==
    ASSUME Inv, NEW j \in Jobs, NEW new, jobs' = [jobs EXCEPT ![j] = new],
           \/ RowStep(jobs[j], new)
           \/ PublishingStep(jobs[j], new)
           \/ jobs'[j] = new => Concluded(j)
    PROVE  TableMoves
<1>1. jobs' = [k \in Jobs |-> jobs'[k]] /\ jobs'[j] = new
  BY DEF Inv
<1>2. \A k \in Jobs : k # j => jobs'[k] = jobs[k]
  BY DEF Inv
<1>3. \A k \in Jobs : k # j => RowStep(jobs[k], jobs'[k])
  BY <1>2 DEF RowStep
<1>. QED
  BY <1>1, <1>3 DEF TableMoves

\* Deletions.
LEMMA SweptMoves ==
    ASSUME Inv, Swept(jobs')
    PROVE  TableMoves
<1>1. jobs' = [j \in Jobs |-> jobs'[j]]
  BY DEF Swept
<1>. QED
  BY <1>1 DEF Swept, TableMoves, RowStep

\* The mutations that find no publication.
LEMMA MutationMoves ==
    ASSUME Inv, NEW j \in Jobs,
           \/ PreflightAdmission(j)
           \/ \E created \in Int : AdmitDurableScanJob(j, created)
           \/ RequeueOrFailExpiredDurableScanJobLease(j, jobs[j].generation)
           \/ ExpireDurableScanJob(j)
           \/ CancelDurableScanJob(j)
           \/ \E generation \in Nat : HeartbeatDurableScanJob(j, generation, generation, 0)
           \/ \E generation \in Nat, reason \in {"execution-failed", "payload-invalid"} :
                 ResolveDurableScanJob(j, generation, generation,
                     [from |-> "leased", outcome |-> "failed", reason |-> reason])
    PROVE  TableMoves
<1>0. GoodRow(jobs[j]) /\ now \in Nat \ {0}
  BY DEF Inv
<1>1. CASE PreflightAdmission(j)
  <2>1. Swept(EvictedTo(Maintained(jobs), MAX_ROWS - 1))
    BY MaintainedSwept, EvictedSwept
  <2>. QED
    BY <1>1, <2>1, SweptMoves DEF PreflightAdmission
<1>2. ASSUME NEW created \in Int, AdmitDurableScanJob(j, created)
      PROVE  TableMoves
  <2> DEFINE room == EvictedTo(jobs, MAX_ROWS - 1)
  <2>1. Swept(room)
    BY EvictedSwept DEF Swept, Inv
  <2>2. jobs' = [room EXCEPT ![j] = NewRow(created)] /\ jobs[j].state = "unborn"
    BY <1>2 DEF AdmitDurableScanJob
  <2> HIDE DEF room
  <2>3. /\ jobs' = [k \in Jobs |-> jobs'[k]] /\ jobs'[j] = NewRow(created)
        /\ \A k \in Jobs : k # j => jobs'[k] = room[k]
    BY <2>1, <2>2 DEF Swept
  <2>4. ASSUME NEW k \in Jobs
        PROVE  RowStep(jobs[k], jobs'[k])
    BY <2>1, <2>2, <2>3 DEF RowStep, Swept
  <2>. QED
    BY <2>3, <2>4 DEF TableMoves
<1>3. CASE RequeueOrFailExpiredDurableScanJobLease(j, jobs[j].generation)
  <2>1. /\ jobs[j].state = "leased" /\ jobs[j].lease <= now
        /\ jobs' = [jobs EXCEPT ![j] = RecoveredRow(jobs[j])]
        /\ DeadlineAt(jobs[j]) <= now \/ now < DeadlineAt(jobs[j])
    BY <1>0, <1>3, RowColumns, TimingAssumption
       DEF RequeueOrFailExpiredDurableScanJobLease, GoodRow, DeadlineAt
  <2>2. jobs[j].attempts >= MAX_ATTEMPTS => jobs[j].attempts = MAX_ATTEMPTS
    BY <1>0, RowColumns, LimitAssumption DEF GoodRow
  <2>3. RowStep(jobs[j], RecoveredRow(jobs[j]))
    BY <2>1, <2>2 DEF RowStep, RecoveredRow, TerminalStates, UnpublishedReasons
  <2>. QED
    BY <2>1, <2>3, OneRowMoves
<1>4. CASE ExpireDurableScanJob(j) \/ CancelDurableScanJob(j)
  <2>1. /\ jobs[j].state \in {"queued", "leased"}
        /\ \/ jobs' = [jobs EXCEPT ![j] = Terminalized(jobs[j], "cancelled", "cancelled")]
           \/ jobs' = [jobs EXCEPT ![j] = Terminalized(jobs[j], "expired", "deadline")]
    BY <1>4 DEF CancelDurableScanJob, ExpireDurableScanJob
  <2>2. /\ RowStep(jobs[j], Terminalized(jobs[j], "cancelled", "cancelled"))
        /\ RowStep(jobs[j], Terminalized(jobs[j], "expired", "deadline"))
    BY <2>1 DEF RowStep, TerminalStates, UnpublishedReasons
  <2>. QED
    BY <2>1, <2>2, OneRowMoves
<1>5. ASSUME NEW generation \in Nat, HeartbeatDurableScanJob(j, generation, generation, 0)
      PROVE  TableMoves
  <2>1. AdvancedRuns(j, 0) \in 0..2
    BY AdvancedRunsType
  <2>2. /\ Active(jobs[j]) /\ jobs[j].lease > now /\ HeartbeatCeiling(jobs[j]) > now
        /\ jobs' = [jobs EXCEPT ![j] = RenewedRow(jobs[j], AdvancedRuns(j, 0))]
    BY <1>5 DEF HeartbeatDurableScanJob, HeartbeatAccepted, HoldsLease, Active
  <2>3. RowStep(jobs[j], RenewedRow(jobs[j], AdvancedRuns(j, 0)))
    BY <2>1, <2>2 DEF RowStep
  <2>. QED
    BY <2>2, <2>3, OneRowMoves
<1>6. ASSUME NEW generation \in Nat, NEW reason \in {"execution-failed", "payload-invalid"},
             ResolveDurableScanJob(j, generation, generation,
                 [from |-> "leased", outcome |-> "failed", reason |-> reason])
      PROVE  TableMoves
  <2>1. /\ jobs[j].state = "leased"
        /\ jobs' = [jobs EXCEPT ![j] = Terminalized(jobs[j], "failed", reason)]
    BY <1>6 DEF ResolveDurableScanJob, HoldsLease
  <2>2. RowStep(jobs[j], Terminalized(jobs[j], "failed", reason))
    BY <2>1 DEF RowStep, TerminalStates, UnpublishedReasons
  <2>. QED
    BY <2>1, <2>2, OneRowMoves
<1>. QED
  BY <1>1, <1>2, <1>3, <1>4, <1>5, <1>6

\* A claim leases some claimable rows.
LEMMA ClaimMoves ==
    ASSUME Inv, ClaimDurableScanJobs
    PROVE  TableMoves
<1>1. jobs' = [j \in Jobs |-> IF j \in Claimed THEN ClaimedRow(jobs[j]) ELSE jobs[j]]
  BY DEF ClaimDurableScanJobs
<1>2. ASSUME NEW j \in Jobs
      PROVE  RowStep(jobs[j], jobs'[j])
  BY <1>1 DEF RowStep, Claimed, Claimable
<1>3. jobs' = [j \in Jobs |-> jobs'[j]]
  BY <1>1
<1>. QED
  BY <1>2, <1>3 DEF TableMoves

\* The pump concludes a publication, and runs its retention pass.
LEMMA FinishMoves ==
    ASSUME Inv, NEW j \in Jobs, FinishReconciliation(j)
    PROVE  TableMoves
<1>1. PICK answer \in {recon[j].answer, "retryable"} \ {"asked"} :
          \/ \E r \in Conclusions(j, answer) :
                jobs' = Maintained([jobs EXCEPT ![j] = Terminalized(jobs[j], r.outcome, r.reason)])
          \/ jobs' = Maintained(jobs)
          \/ UNCHANGED jobs
  BY DEF FinishReconciliation
<1>2. ASSUME NEW r \in Conclusions(j, answer),
             jobs' = Maintained([jobs EXCEPT ![j] = Terminalized(jobs[j], r.outcome, r.reason)])
      PROVE  TableMoves
  <2> DEFINE new == Terminalized(jobs[j], r.outcome, r.reason)
             tab == [jobs EXCEPT ![j] = new]
  <2>1. /\ r.outcome \in TerminalStates \ {"cancelled"} /\ r.reason \in PublishedReasons
        /\ r.outcome = "succeeded" => r.result = "succeeded"
        /\ r.reason = "publication-missing" => r.result = "missing"
    BY DEF Conclusions, Reconciliations, TerminalStates, PublishedReasons
  <2>2. /\ r.result = (IF answer = "retryable" THEN "expired" ELSE answer)
        /\ jobs[j].state = "publishing" /\ jobs[j].generation = recon[j].generation
        /\ jobs[j].lease <= now /\ SettlementAt(jobs[j]) <= now
    BY DEF Conclusions, ReconciliationAccepted
  <2>3. new.state = r.outcome /\ new.reason = r.reason /\ Present(new)
    BY <2>1 DEF Terminalized, Present, TerminalStates, AbsentStates
  <2>4. ConcludingStep(jobs[j], new)
    BY <2>1, <2>2 DEF ConcludingStep
  <2> HIDE DEF new
  <2>5. tab[j] = new /\ \A k \in Jobs : k # j => tab[k] = jobs[k]
    BY DEF Inv
  <2>6. jobs' = Maintained(tab)
    BY <1>2 DEF new
  <2> HIDE DEF tab
  <2>7. /\ jobs' = [k \in Jobs |-> jobs'[k]]
        /\ \A k \in Jobs : jobs'[k] = tab[k] \/ (Present(tab[k]) /\ jobs'[k] = NoRow("gone"))
    BY <2>6, MaintainedRows
  <2>8. \A k \in Jobs : k # j => RowStep(jobs[k], jobs'[k])
    BY <2>5, <2>7 DEF RowStep
  <2>9. UNCHANGED <<exec, stored, puts>>
    BY DEF FinishReconciliation, CoordinatorStep, nodeVars, r2Vars
  <2>10. CASE jobs'[j] = new
    <3>1. /\ r.result = "succeeded" => recon[j].answer = "succeeded"
          /\ r.result = "missing" => recon[j].answer = "missing"
      BY <1>1, <2>2
    <3>2. Reconciled(j)
      BY <2>1, <2>2, <2>3, <2>9, <2>10, <3>1 DEF Reconciled
    <3>. QED
      BY <2>4, <2>7, <2>8, <2>10, <3>2 DEF TableMoves, Concluded
  <2>11. CASE jobs'[j] = NoRow("gone")
    <3>1. Present(jobs[j])
      BY <2>2 DEF Present, AbsentStates
    <3>2. RowStep(jobs[j], jobs'[j])
      BY <2>11, <3>1 DEF RowStep
    <3>. QED
      BY <2>7, <2>8, <3>2 DEF TableMoves
  <2>. QED
    BY <2>5, <2>7, <2>10, <2>11
<1>3. CASE jobs' = Maintained(jobs)
  BY <1>3, MaintainedSwept, SweptMoves
<1>4. CASE UNCHANGED jobs
  BY <1>4, SameTableMoves
<1>. QED
  BY <1>1, <1>2, <1>3, <1>4

\* The coordinator's answers to Node's requests.
LEMMA RequestMovesRows ==
    ASSUME Inv, NEW x \in Executions, RequestNext(x)
    PROVE  TableMoves /\ UNCHANGED now
<1>0. x[1] \in Jobs /\ x[2] \in Nat /\ x = <<x[1], x[2]>>
  BY ExecutionPairs
<1>1. CASE HandleActivate(x)
  BY <1>0, <1>1, MutationMoves, SameTableMoves
     DEF HandleActivate, HeartbeatDurableScanJob, storeVars
<1>2. CASE HandleBeat(x)
  BY <1>0, <1>2, MutationMoves DEF HandleBeat, HeartbeatDurableScanJob
<1>3. CASE RefuseBeat(x)
  BY <1>3, SameTableMoves DEF RefuseBeat, storeVars
<1>4. CASE HandleBegin(x)
  <2>1. CASE BeginPublishingDurableScanJob(x[1], x[2], x[2])
    <3>1. /\ jobs' = [jobs EXCEPT ![x[1]] = PublishingRow(jobs[x[1]])]
          /\ PublishingStep(jobs[x[1]], PublishingRow(jobs[x[1]]))
          /\ UNCHANGED now
      BY <2>1 DEF BeginPublishingDurableScanJob, BeginPublishingAccepted, HoldsLease, PublishingStep
    <3>. QED
      BY <1>0, <3>1, OneRowMoves
  <2>2. CASE UNCHANGED storeVars
    BY <2>2, SameTableMoves DEF storeVars
  <2>. QED
    BY <1>4, <2>1, <2>2 DEF HandleBegin
<1>5. CASE HandleResolve(x)
  <2>1. CASE ResolveDurableScanJob(x[1], x[2], x[2],
                 [from |-> "leased", outcome |-> "failed", reason |-> "execution-failed"])
    BY <1>0, <2>1, MutationMoves DEF ResolveDurableScanJob
  <2>2. CASE /\ Request(x, "succeed") \in wire
             /\ ResolveDurableScanJob(x[1], x[2], x[2],
                    [from |-> "publishing", outcome |-> "succeeded", reason |-> "none"])
    <3>1. /\ jobs[x[1]].state = "publishing" /\ jobs[x[1]].generation = x[2]
          /\ jobs' = [jobs EXCEPT ![x[1]] = Terminalized(jobs[x[1]], "succeeded", "none")]
          /\ UNCHANGED now
      BY <2>2 DEF ResolveDurableScanJob, HoldsLease
    <3>2. jobs'[x[1]] = Terminalized(jobs[x[1]], "succeeded", "none")
      BY <1>0, <3>1 DEF Inv
    <3>3. ConcludingStep(jobs[x[1]], jobs'[x[1]])
      BY <3>1, <3>2 DEF ConcludingStep, TerminalStates, PublishedReasons
    <3>4. Resolved(x[1])
      BY <1>0, <2>2, <3>1, <3>2 DEF Resolved, Terminalized
    <3>. QED
      BY <1>0, <3>1, <3>3, <3>4, OneRowMoves DEF Concluded
  <2>. QED
    BY <1>5, <2>1, <2>2 DEF HandleResolve
<1>. QED
  BY <1>1, <1>2, <1>3, <1>4, <1>5 DEF RequestNext

\* Every step moves the table, and none but Pass moves the clock.
LEMMA EveryStepMovesRows ==
    ASSUME Inv, Next
    PROVE  TableMoves /\ (UNCHANGED now \/ (Pass /\ now' = now + 1))
<1>1. ASSUME NEW j \in Jobs, CoordinatorNext(j)
      PROVE  TableMoves /\ UNCHANGED now
  <2>0. now \in Nat /\ jobs[j].generation \in Nat
    BY RowColumns DEF Inv
  <2>1. CASE Admission(j)
    <3>1. \A created \in (now - MAX_AGE)..(now + MAX_LEAD) : created \in Int
      BY <2>0, TimingAssumption
    <3>. QED
      BY <2>1, <3>1, MutationMoves DEF Admission, PreflightAdmission, AdmitDurableScanJob
  <2>2. CASE RejectPayload(j)
    BY <2>0, <2>2, MutationMoves DEF RejectPayload, ResolveDurableScanJob
  <2>3. CASE PumpRow(j)
    BY <2>3, MutationMoves
       DEF PumpRow, RequeueOrFailExpiredDurableScanJobLease, ExpireDurableScanJob
  <2>4. CASE CancelDurableJob(j)
    BY <2>4, MutationMoves DEF CancelDurableJob, CancelDurableScanJob
  <2>5. CASE AskReconciliation(j) \/ AbandonReconciliation(j)
    BY <2>5, SameTableMoves DEF AskReconciliation, AbandonReconciliation, storeVars
  <2>6. CASE FinishReconciliation(j)
    BY <2>6, FinishMoves DEF FinishReconciliation
  <2>. QED
    BY <1>1, <2>1, <2>2, <2>3, <2>4, <2>5, <2>6 DEF CoordinatorNext
<1>2. CASE Dispatch
  BY <1>2, ClaimMoves DEF Dispatch, ClaimDurableScanJobs
<1>3. CASE Maintain
  BY <1>3, MaintainedSwept, SweptMoves DEF Maintain, SettleSynchronizeAndPurge
<1>4. CASE Pass
  BY <1>4, SameTableMoves DEF Pass, Tick
<1>5. ASSUME NEW x \in Executions, RequestNext(x)
      PROVE  TableMoves /\ UNCHANGED now
  BY <1>5, RequestMovesRows
<1>6. ASSUME NEW x \in Executions, ActivationNext(x) \/ DeliverAbort(x) \/ LoseAbort(x)
      PROVE  TableMoves /\ UNCHANGED now
  BY <1>6, SameTableMoves
     DEF ActivationNext, DeliverActivation, FailActivation, InstallActivation, AbandonActivation,
         DeliverAbort, LoseAbort, NodeStep, storeVars
<1>7. ASSUME NEW x \in Executions, WorkerNext(x)
      PROVE  TableMoves /\ UNCHANGED now
  <2>1. UNCHANGED storeVars
    BY <1>7
       DEF WorkerNext, Beat, EndScan, BeginPublication, LeaveUnpublished, WriteSidecar, Published,
           CommitFails, ReadBackFinds, LeaveUnknown, EndResolve, StopAborted, WorkerStep, NodeStep,
           Call, Commit
  <2>. QED
    BY <2>1, SameTableMoves DEF storeVars
<1>8. ASSUME NEW j \in Jobs, AnswerReconciliation(j) \/ ForgetRecord(j) \/ ForgetWatermark(j)
      PROVE  TableMoves /\ UNCHANGED now
  BY <1>8, SameTableMoves
     DEF AnswerReconciliation, ForgetRecord, ForgetWatermark, WorkerStep, NodeStep, storeVars
<1>9. CASE Crash
  BY <1>9, SameTableMoves DEF Crash, WorkerStep, NodeStep, storeVars
<1>10. ASSUME NEW r \in wire, LoseRequest(r)
       PROVE  TableMoves /\ UNCHANGED now
  BY <1>10, SameTableMoves DEF LoseRequest, storeVars
<1>11. ASSUME NEW p \in puts, Land(p) \/ Vanish(p)
       PROVE  TableMoves /\ UNCHANGED now
  BY <1>11, SameTableMoves DEF Land, Vanish, storeVars
<1>12. Pass => now' = now + 1
  BY DEF Pass, Tick
<1>. QED
  BY <1>1, <1>2, <1>3, <1>4, <1>5, <1>6, <1>7, <1>8, <1>9, <1>10, <1>11, <1>12 DEF Next

-----------------------------------------------------------------------------
(* The invariant of the rows and of Node's memory.                         *)

LeaseInv == \A j \in Jobs : LeaseBounded(jobs[j])

CancelInv ==
    /\ watermark \in [Jobs -> 0..MAX_ATTEMPTS]
    /\ \A x \in Executions : x[2] <= watermark[x[1]] => ~Alive(x)

\* The inductive invariant of the coordinator and Node.
NodeInv == Inv /\ LeaseInv /\ SlotInv /\ IssuedInv /\ CancelInv

\* In the initial state nothing was issued.
LEMMA NodeInit ==
    ASSUME Init
    PROVE  NodeInv
<1>1. Inv
  BY InvInit DEF Init
<1>2. LeaseInv
  BY DEF Init, StoreInit, LeaseInv, LeaseBounded, NoRow, Active
<1>3. \A x \in Executions : exec[x].phase = "none" /\ ~exec[x].aborted /\ ~Alive(x)
  BY Records, PhaseSets DEF Init, Alive, Live
<1>4. SlotInv
  <2>1. exec \in [Executions -> Execution] /\ local \in [Jobs -> 0..MAX_ATTEMPTS]
    BY Records, LimitAssumption DEF Init
  <2>2. queue \in Seq(Executions) /\ Len(queue) = 0 /\ queue = <<>>
    BY EmptySeq DEF Init
  <2>3. Busy(exec) = {}
    BY <1>3, PhaseSets DEF Busy
  <2>4. Cardinality(Busy(exec)) <= MAX_CONCURRENT_SCANS
    BY <2>3, FS_EmptySet, NodeAssumption
  <2>5. Distinct(queue) /\ AllQueued(exec, queue)
    BY <2>2 DEF Distinct, AllQueued
  <2>. QED
    BY <1>3, <2>1, <2>2, <2>4, <2>5 DEF Init, SlotInv
<1>5. IssuedInv
  BY <1>3 DEF IssuedInv, Init
<1>6. CancelInv
  BY <1>3, LimitAssumption DEF CancelInv, Init
<1>. QED
  BY <1>1, <1>2, <1>4, <1>5, <1>6 DEF NodeInv

\* Every row moves as the mutations do.
LEMMA EveryRowMoves ==
    ASSUME Inv, LeaseInv, TableMoves
    PROVE  \A j \in Jobs :
              /\ RowMoves(jobs[j], jobs'[j])
              /\ \A g \in Nat : Committed(jobs[j], g) => Committed(jobs'[j], g)
<1> SUFFICES ASSUME NEW j \in Jobs
             PROVE  /\ RowMoves(jobs[j], jobs'[j])
                    /\ \A g \in Nat : Committed(jobs[j], g) => Committed(jobs'[j], g)
  OBVIOUS
<1>1. GoodRow(jobs[j]) /\ LeaseBounded(jobs[j]) /\ now \in Nat \ {0}
  BY DEF Inv, LeaseInv
<1>2. CASE RowStep(jobs[j], jobs'[j])
  BY <1>1, <1>2, RowStepMoves
<1>3. CASE PublishingStep(jobs[j], jobs'[j]) \/ ConcludingStep(jobs[j], jobs'[j])
  BY <1>1, <1>3, PublicationRowMoves
<1>. QED
  BY <1>2, <1>3 DEF TableMoves, Concluded

\* Only a claim hands executions out, and only what reaches or leaves Node's
\* memory of cancellations changes it.
LEMMA HandedAndCancelled ==
    ASSUME Next
    PROVE  /\ Dispatch \/ handed' \subseteq handed
           /\ \/ UNCHANGED watermark
              \/ Crash
              \/ \E j \in Jobs : ForgetWatermark(j)
              \/ \E x \in Executions : DeliverAbort(x)
<1>1. ASSUME NEW j \in Jobs, CoordinatorNext(j) \/ AnswerReconciliation(j) \/ ForgetRecord(j)
      PROVE  handed' \subseteq handed /\ UNCHANGED watermark
  BY <1>1
     DEF CoordinatorNext, Admission, RejectPayload, PumpRow, CancelDurableJob, AskReconciliation,
         FinishReconciliation, AbandonReconciliation, CoordinatorStep, AnswerReconciliation,
         ForgetRecord, WorkerStep, nodeVars
<1>2. ASSUME NEW j \in Jobs, ForgetWatermark(j)
      PROVE  handed' \subseteq handed
  BY <1>2 DEF ForgetWatermark, WorkerStep
<1>3. ASSUME Dispatch \/ Maintain \/ Pass
      PROVE  (Dispatch \/ handed' \subseteq handed) /\ UNCHANGED watermark
  BY <1>3 DEF Dispatch, Maintain, Pass, CoordinatorStep, nodeVars
<1>4. Crash => handed' \subseteq handed
  BY DEF Crash, WorkerStep
<1>5. ASSUME NEW x \in Executions, RequestNext(x)
      PROVE  handed' \subseteq handed /\ UNCHANGED watermark
  BY <1>5
     DEF RequestNext, HandleActivate, HandleBeat, RefuseBeat, HandleBegin, HandleResolve, Answered,
         nodeVars
<1>6. ASSUME NEW x \in Executions, ActivationNext(x) \/ LoseAbort(x)
      PROVE  handed' \subseteq handed /\ UNCHANGED watermark
  BY <1>6
     DEF ActivationNext, DeliverActivation, FailActivation, InstallActivation, AbandonActivation,
         LoseAbort, nodeVars
<1>7. ASSUME NEW x \in Executions, WorkerNext(x)
      PROVE  handed' \subseteq handed /\ UNCHANGED watermark
  BY <1>7
     DEF WorkerNext, Beat, EndScan, BeginPublication, LeaveUnpublished, WriteSidecar, Published,
         CommitFails, ReadBackFinds, LeaveUnknown, EndResolve, StopAborted, WorkerStep, Call, Commit,
         Leave, nodeVars
<1>8. ASSUME NEW x \in Executions, DeliverAbort(x)
      PROVE  handed' \subseteq handed
  BY <1>8 DEF DeliverAbort
<1>9. ASSUME NEW r \in wire, LoseRequest(r)
      PROVE  handed' \subseteq handed /\ UNCHANGED watermark
  BY <1>9 DEF LoseRequest, nodeVars
<1>10. ASSUME NEW p \in puts, Land(p) \/ Vanish(p)
       PROVE  handed' \subseteq handed /\ UNCHANGED watermark
  BY <1>10 DEF Land, Vanish, nodeVars
<1>. QED
  BY <1>1, <1>2, <1>3, <1>4, <1>5, <1>6, <1>7, <1>8, <1>9, <1>10 DEF Next

\* Every step keeps it.
LEMMA NodeInvStep ==
    ASSUME NodeInv, [Next]_vars
    PROVE  NodeInv'
<1>1. CASE UNCHANGED vars
  <2>1. UNCHANGED <<now, jobs, handed, exec, local, watermark, queue>>
    BY <1>1 DEF vars, storeVars, nodeVars
  <2>2. UNCHANGED storeVars
    BY <2>1 DEF storeVars
  <2>3. Inv' /\ NodeMoves
    BY <2>1, <2>2, InvStep, NodeRests DEF NodeInv
  <2>. QED
    BY <2>1, <2>3
       DEF NodeInv, LeaseInv, LeaseBounded, IssuedInv, Issued, CancelInv, Alive, Live, NodeMoves
<1>2. CASE Next
  <2>0. Inv /\ LeaseInv /\ SlotInv /\ IssuedInv /\ CancelInv /\ watermark \in [Jobs -> 0..MAX_ATTEMPTS]
    BY DEF NodeInv, CancelInv
  <2>1. NodeMoves
    BY <1>2, <2>0, EveryStepMovesNode
  <2>2. TableMoves /\ (UNCHANGED now \/ now' = now + 1)
    BY <1>2, <2>0, EveryStepMovesRows
  <2>3. \A j \in Jobs : RowMoves(jobs[j], jobs'[j])
    BY <2>0, <2>2, EveryRowMoves
  <2>4. now \in Nat \ {0} /\ now' \in Nat \ {0} /\ now <= now'
    BY <2>0, <2>2 DEF Inv
  <2>5. \A j \in Jobs : GoodRow(jobs'[j]) /\ jobs'[j] \in Row
    BY <2>3 DEF RowMoves, GoodRow
  <2>6. Inv'
    <3>1. jobs' \in [Jobs -> Row]
      BY <2>2, <2>5 DEF TableMoves
    <3>. QED
      BY <2>4, <2>5, <3>1 DEF Inv, GoodRow, PublishingCeiling, DeadlineAt
  <2>7. LeaseInv'
    <3> SUFFICES ASSUME NEW j \in Jobs, Active(jobs'[j])
                 PROVE  jobs'[j].lease <= now' + LEASE
      BY DEF LeaseInv, LeaseBounded, Active
    <3>1. jobs'[j].lease <= now + LEASE /\ jobs'[j].lease \in Int
      BY <2>3, <2>5, RowColumns DEF RowMoves
    <3>. QED
      BY <2>4, <3>1, TimingAssumption
  <2>8. IssuedInv'
    <3> SUFFICES ASSUME NEW x \in Executions, x \in handed' \/ exec'[x].phase # "none"
                 PROVE  Issued(x)'
      BY DEF IssuedInv
    <3>1. Issued(x) => Issued(x)'
      <4>1. /\ jobs[x[1]].state = "gone" => jobs'[x[1]].state = "gone"
            /\ jobs'[x[1]].state # "gone" => jobs[x[1]].generation <= jobs'[x[1]].generation
            /\ jobs[x[1]].generation \in Nat /\ jobs'[x[1]].generation \in Nat /\ x[2] \in Nat
        BY <2>0, <2>3, <2>5, ExecutionPairs, RowColumns DEF RowMoves, Inv
      <4>. QED
        BY <4>1 DEF Issued
    <3>2. CASE exec'[x].phase # "none"
      <4>1. exec[x].phase # "none" \/ x \in handed
        BY <2>1, <3>2 DEF NodeMoves, Steady
      <4>. QED
        BY <2>0, <3>1, <4>1 DEF IssuedInv
    <3>3. CASE x \in handed
      BY <2>0, <3>1, <3>3 DEF IssuedInv
    <3>4. CASE x \in handed' /\ x \notin handed
      BY <1>2, <2>0, <3>4, DispatchMoves, HandedAndCancelled
    <3>. QED
      BY <3>2, <3>3, <3>4
  <2>9. CancelInv'
    <3>1. CASE UNCHANGED watermark
      <4>1. \A x \in Executions : x[2] <= watermark[x[1]] => ~Alive(x) /\ ~(watermark[x[1]] < x[2])
        BY <2>0, ExecutionPairs, LimitAssumption DEF CancelInv
      <4>. QED
        BY <2>0, <2>1, <3>1, <4>1 DEF CancelInv, NodeMoves
    <3>2. ASSUME NEW x \in Executions, DeliverAbort(x)
          PROVE  CancelInv'
      <4>1. /\ \A y \in Executions : y[1] = x[1] /\ y[2] <= x[2] => ~Alive(y)'
            /\ watermark' \in [Jobs -> 0..MAX_ATTEMPTS]
            /\ \A y \in Executions :
                  y[2] <= watermark'[y[1]] =>
                     y[2] <= watermark[y[1]] \/ (y[1] = x[1] /\ y[2] <= x[2])
        BY <2>0, <3>2, DeliverAbortMoves
      <4>2. ASSUME NEW y \in Executions, y[2] <= watermark'[y[1]], Alive(y)'
            PROVE  FALSE
        <5>1. y[2] <= watermark[y[1]]
          BY <4>1, <4>2
        <5>2. ~Alive(y) /\ ~(watermark[y[1]] < y[2])
          BY <2>0, <5>1, ExecutionPairs, LimitAssumption DEF CancelInv
        <5>. QED
          BY <2>1, <4>2, <5>2 DEF NodeMoves
      <4>. QED
        BY <4>1, <4>2 DEF CancelInv
    <3>3. CASE Crash
      <4>1. watermark' = [j \in Jobs |-> 0]
        BY <3>3 DEF Crash
      <4>. QED
        BY <4>1, ExecutionPairs, LimitAssumption DEF CancelInv
    <3>4. ASSUME NEW j \in Jobs, ForgetWatermark(j)
          PROVE  CancelInv'
      <4>1. watermark' = [watermark EXCEPT ![j] = 0] /\ UNCHANGED exec
        BY <3>4 DEF ForgetWatermark
      <4>2. watermark' \in [Jobs -> 0..MAX_ATTEMPTS]
        BY <2>0, <4>1, LimitAssumption
      <4>3. ASSUME NEW y \in Executions, y[2] <= watermark'[y[1]]
            PROVE  ~Alive(y)'
        <5>1. y[1] # j
          BY <2>0, <4>1, <4>3, ExecutionPairs
        <5>2. ~Alive(y)
          BY <2>0, <4>1, <4>3, <5>1, ExecutionPairs DEF CancelInv
        <5>. QED
          BY <4>1, <5>2 DEF Alive, Live
      <4>. QED
        BY <4>2, <4>3 DEF CancelInv
    <3>. QED
      BY <1>2, <3>1, <3>2, <3>3, <3>4, HandedAndCancelled
  <2>. QED
    BY <2>1, <2>6, <2>7, <2>8, <2>9 DEF NodeInv, NodeMoves
<1>. QED
  BY <1>1, <1>2

-----------------------------------------------------------------------------
(* The executions of one job.  A lease outlives the call that renewed it, so a *)
(* job is not granted again while an accepted activation waits to be installed. *)

Older(x, y) == x[1] = y[1] /\ x[2] < y[2]

\* The row of x is not to be claimed, nor requeued while x awaits its answer.
OnLease(x) ==
    LET row == jobs[x[1]] IN
    /\ row.state \notin {"unborn", "queued"}
    /\ row.state = "leased" => exec[x].due < row.lease \/ DeadlineAt(row) <= row.lease

OrderInv ==
    /\ \A x \in Executions :
          exec[x].phase = "activating" => now <= exec[x].due /\ exec[x].due <= now + REQUEST_TIMEOUT
    /\ \A x \in Executions : Accepted(x) => OnLease(x)
    /\ \A x, y \in Executions :
          Older(x, y) /\ Accepted(x) => y \notin handed /\ exec[y].phase = "none"
    /\ \A x, y \in Executions : Older(x, y) /\ AtWork(y) => ~Alive(x)

\* What is at work and was not told to stop is alive.
LEMMA AtWorkOrAlive ==
    ASSUME SlotInv, NEW x \in Executions
    PROVE  AtWork(x) /\ ~exec[x].aborted <=> Alive(x)
BY PhaseSets DEF SlotInv, AtWork, Alive, Live

LEMMA OrderInit ==
    ASSUME Init
    PROVE  OrderInv
<1>1. \A x \in Executions : exec[x].phase = "none"
  BY Records DEF Init
<1>. QED
  BY <1>1, PhaseSets DEF OrderInv, Accepted, AtWork

\* The timers of the activations.
LEMMA ActivationsTimed ==
    ASSUME NodeInv, OrderInv, Next, NodeMoves, NEW x \in Executions, exec'[x].phase = "activating"
    PROVE  now' <= exec'[x].due /\ exec'[x].due <= now' + REQUEST_TIMEOUT
<1>1. /\ now \in Nat \ {0} /\ exec[x].due \in Nat /\ exec'[x].due \in Nat
      /\ UNCHANGED now \/ (Pass /\ now' = now + 1)
  BY EveryStepMovesRows DEF NodeInv, Inv, SlotInv, NodeMoves, Execution
<1>2. \/ exec[x].phase = "activating" /\ exec'[x].due = exec[x].due
      \/ exec'[x].due = now + REQUEST_TIMEOUT
  BY DEF NodeMoves, Steady
<1>3. exec[x].phase = "activating" => now <= exec[x].due /\ exec[x].due <= now + REQUEST_TIMEOUT
  BY DEF OrderInv
<1>4. CASE UNCHANGED now
  BY <1>1, <1>2, <1>3, <1>4, NodeAssumption
<1>5. CASE Pass /\ now' = now + 1
  <2>1. exec'[x] = exec[x] /\ (exec[x].due = 0 \/ now < exec[x].due)
    BY <1>5 DEF Pass, nodeVars
  <2>. QED
    BY <1>1, <1>3, <1>5, <2>1, NodeAssumption
<1>. QED
  BY <1>1, <1>4, <1>5

\* The row of an accepted activation is kept.
LEMMA AcceptedOnLease ==
    ASSUME NodeInv, Inv', OrderInv, NodeMoves, TableMoves, NEW x \in Executions, Accepted(x)'
    PROVE  OnLease(x)'
<1> DEFINE row == jobs[x[1]]
           new == jobs'[x[1]]
<1>1. /\ x[1] \in Jobs /\ now \in Nat /\ row \in Row /\ GoodRow(row)
      /\ exec[x].due \in Nat /\ exec'[x].due \in Nat
  BY ExecutionPairs DEF NodeInv, Inv, SlotInv, NodeMoves, Execution
<1>2. row.lease \in Int /\ row.created \in Int /\ DeadlineAt(row) \in Int
  BY <1>1, RowColumns, TimingAssumption DEF DeadlineAt
<1>3. /\ exec[x].phase = "activating" /\ exec'[x].due = exec[x].due
      /\ Accepted(x) \/ Renewed(x)
      /\ now <= exec[x].due /\ exec[x].due <= now + REQUEST_TIMEOUT
  BY DEF NodeMoves, Steady, Accepted, OrderInv
<1>4. now + LEASE \in Int /\ exec[x].due < now + LEASE
  BY <1>1, <1>3, NodeAssumption, TimingAssumption, RenewalAssumption
<1>5. ASSUME new.state \in {"leased", "publishing"},
             new.state = "leased" => new.lease = Earlier(now + LEASE, DeadlineAt(new))
      PROVE  OnLease(x)'
  <2>1. DeadlineAt(new) \in Int
    BY <1>1, RowColumns, TimingAssumption DEF Inv, DeadlineAt
  <2>2. Earlier(now + LEASE, DeadlineAt(new)) \in {now + LEASE, DeadlineAt(new)}
    BY DEF Earlier
  <2>3. new.state = "leased" => exec'[x].due < new.lease \/ DeadlineAt(new) <= new.lease
    BY <1>3, <1>4, <1>5, <2>1, <2>2
  <2>. QED
    BY <1>5, <2>3 DEF OnLease, DeadlineAt
<1>6. CASE Renewed(x)
  BY <1>5, <1>6 DEF Renewed, Active
<1>7. CASE Accepted(x)
  <2>1. /\ row.state \notin {"unborn", "queued"}
        /\ row.state = "leased" => exec[x].due < row.lease \/ DeadlineAt(row) <= row.lease
    BY <1>7 DEF OrderInv, OnLease
  <2>2. new.state \in TerminalStates \cup {"gone", "publishing"} => OnLease(x)'
    BY DEF OnLease, TerminalStates
  <2>3. CASE new = row
    BY <1>3, <2>1, <2>3 DEF OnLease, DeadlineAt
  <2>4. CASE new = NoRow("gone")
    BY <2>2, <2>4 DEF NoRow
  <2>5. ASSUME NEW runs \in 0..2, Active(row), new = RenewedRow(row, runs)
        PROVE  OnLease(x)'
    <3>1. new.state = row.state /\ new.created = row.created
          /\ new.lease = Earlier(now + LEASE, HeartbeatCeiling(row))
      BY <2>5 DEF RenewedRow
    <3>. QED
      BY <1>5, <2>5, <3>1 DEF Active, HeartbeatCeiling, DeadlineAt
  <2>6. ~(row.state = "leased" /\ row.lease <= now /\ now < DeadlineAt(row))
    BY <1>1, <1>2, <1>3, <2>1
  <2>7. ASSUME NEW state \in TerminalStates, NEW reason, new = Terminalized(row, state, reason)
        PROVE  OnLease(x)'
    BY <2>2, <2>7 DEF Terminalized
  <2>8. CASE RowStep(row, new)
    BY <2>1, <2>3, <2>4, <2>5, <2>6, <2>7, <2>8 DEF RowStep
  <2>9. CASE PublishingStep(row, new)
    BY <2>2, <2>9 DEF PublishingStep, PublishingRow
  <2>10. CASE ConcludingStep(row, new)
    BY <2>7, <2>10 DEF ConcludingStep
  <2>. QED
    BY <1>1, <2>8, <2>9, <2>10 DEF TableMoves, Concluded
<1>. QED
  BY <1>3, <1>6, <1>7

\* Every step keeps the order.
LEMMA OrderStep ==
    ASSUME NodeInv, OrderInv, [Next]_vars
    PROVE  OrderInv'
<1>0. NodeInv' /\ Inv'
  BY NodeInvStep DEF NodeInv
<1>1. CASE UNCHANGED vars
  <2>1. UNCHANGED <<now, jobs, handed, exec>>
    BY <1>1 DEF vars, storeVars, nodeVars
  <2>. QED
    BY <2>1 DEF OrderInv, Accepted, OnLease, AtWork, Alive, Live, DeadlineAt
<1>2. CASE Next
  <2>0. /\ Inv /\ SlotInv /\ SlotInv' /\ IssuedInv
        /\ watermark \in [Jobs -> 0..MAX_ATTEMPTS]
    BY <1>0 DEF NodeInv, CancelInv
  <2>1. NodeMoves /\ TableMoves
    BY <1>2, <2>0, EveryStepMovesNode, EveryStepMovesRows
  <2>2. \A x \in Executions :
           exec'[x].phase = "activating" => now' <= exec'[x].due /\ exec'[x].due <= now' + REQUEST_TIMEOUT
    BY <1>2, <2>1, ActivationsTimed
  <2>3. \A x \in Executions : Accepted(x)' => OnLease(x)'
    BY <1>0, <2>1, AcceptedOnLease
  <2>4. ASSUME NEW x \in Executions, NEW y \in Executions, Older(x, y), Accepted(x)'
        PROVE  y \notin handed' /\ exec'[y].phase = "none"
    <3>1. x[2] \in Nat /\ y[2] \in Nat /\ jobs[x[1]].generation \in Nat
      BY <2>0, ExecutionPairs, RowColumns DEF Inv
    <3>2. y \notin handed /\ exec[y].phase = "none"
      <4>1. CASE Accepted(x)
        BY <2>4, <4>1 DEF OrderInv
      <4>2. CASE Renewed(x)
        <5>1. jobs[x[1]].state # "gone" /\ jobs[x[1]].generation = x[2]
          BY <4>2 DEF Renewed, Active
        <5>2. ~Issued(y)
          BY <2>4, <3>1, <5>1 DEF Issued, Older
        <5>. QED
          BY <2>0, <5>2 DEF IssuedInv
      <4>. QED
        BY <2>1, <2>4, <4>1, <4>2 DEF NodeMoves, Steady, Accepted
    <3>3. exec'[y].phase = "none"
      BY <2>1, <3>2 DEF NodeMoves, Steady
    <3>4. ASSUME y \in handed'
          PROVE  FALSE
      <4>1. Issued(y)' /\ jobs[y[1]].state = "queued"
        BY <1>2, <2>0, <3>2, <3>4, DispatchMoves, HandedAndCancelled
      <4>2. ~Accepted(x)
        BY <2>4, <4>1 DEF OrderInv, OnLease, Older
      <4>3. Renewed(x)
        BY <2>1, <2>4, <4>2 DEF NodeMoves, Steady, Accepted
      <4>. QED
        BY <2>4, <4>1, <4>3 DEF Renewed, Active, Older
    <3>. QED
      BY <3>3, <3>4
  <2>5. ASSUME NEW x \in Executions, NEW y \in Executions, Older(x, y), AtWork(y)', Alive(x)'
        PROVE  FALSE
    <3>1. x[2] # y[2]
      BY <2>5, ExecutionPairs DEF Older
    <3>2. ~Alive(y)'
      <4>1. \A z \in Executions : Alive(z)' => local'[z[1]] = z[2]
        BY <2>0 DEF SlotInv
      <4>. QED
        BY <2>5, <3>1, <4>1 DEF Older
    <3>3. AtWork(x)' /\ ~exec'[x].aborted /\ exec'[y].aborted
      BY <2>0, <2>5, <3>2, PhaseSets DEF SlotInv, AtWork, Alive, Live
    <3>4. AtWork(y)
      BY <2>1, <2>5, <3>3 DEF NodeMoves, Steady
    <3>5. CASE AtWork(x) /\ ~exec[x].aborted
      <4>1. Alive(x)
        BY <2>0, <3>5, AtWorkOrAlive
      <4>. QED
        BY <2>5, <3>4, <4>1 DEF OrderInv
    <3>6. CASE Accepted(x)
      <4>1. exec[y].phase = "none"
        BY <2>5, <3>6 DEF OrderInv
      <4>. QED
        BY <3>4, <4>1, PhaseSets DEF AtWork
    <3>. QED
      BY <2>1, <3>3, <3>5, <3>6 DEF NodeMoves, Steady
  <2>. QED
    BY <2>2, <2>3, <2>4, <2>5 DEF OrderInv, Older
<1>. QED
  BY <1>1, <1>2

-----------------------------------------------------------------------------
(* Theorems about Node and the coordinator.                                *)

\* The invariant holds in every reachable state.
LEMMA NodeInvariance == Spec => []NodeInv
<1>1. Init => NodeInv
  BY NodeInit
<1>2. NodeInv /\ [Next]_vars => NodeInv'
  BY NodeInvStep
<1>. QED
  BY <1>1, <1>2, PTL DEF Spec

\* supersedeDurableRecord and the lease a heartbeat renews: whatever is requeued,
\* granted again, fenced, forgotten or lost, an older execution that still works
\* beside a newer one has been told to stop.
THEOREM OlderIsStopping == Spec => []OlderGivesWay
<1>1. Init => NodeInv /\ OrderInv
  BY NodeInit, OrderInit
<1>2. (NodeInv /\ OrderInv) /\ [Next]_vars => (NodeInv /\ OrderInv)'
  BY NodeInvStep, OrderStep
<1>3. NodeInv /\ OrderInv => OlderGivesWay
  <2> SUFFICES ASSUME NodeInv, OrderInv, NEW j \in Jobs, NEW g \in Generations, NEW h \in Generations,
                      g < h, AtWork(<<j, g>>), AtWork(<<j, h>>), ~exec[<<j, g>>].aborted
               PROVE  FALSE
    BY DEF OlderGivesWay
  <2>1. PICK x \in Executions, y \in Executions : x = <<j, g>> /\ y = <<j, h>>
    BY DEF Executions
  <2>2. Older(x, y) /\ AtWork(y) /\ Alive(x)
    BY <2>1, AtWorkOrAlive DEF Older, NodeInv
  <2>. QED
    BY <2>2 DEF OrderInv
<1>. QED
  BY <1>1, <1>2, <1>3, PTL DEF Spec

\* cancelDurableScanJobGeneration and the second reading of the watermark in
\* activateDurableScanJob: no answer that comes late revives what was cancelled.
THEOREM CancellationSticks == Spec => []CancelledStaysDown
<1>1. NodeInv => CancelledStaysDown
  BY DEF NodeInv, CancelInv, CancelledStaysDown, Alive
<1>. QED
  BY <1>1, NodeInvariance, PTL

\* kickScanJobWorkers and the reservations: Node never runs more scans than it
\* has slots, and nothing waits while a slot is free.
THEOREM SlotsNeverIdle == Spec => []NoIdleSlot
<1>1. NodeInv => NoIdleSlot
  <2> SUFFICES ASSUME NodeInv
               PROVE  NoIdleSlot
    OBVIOUS
  <2> DEFINE W == {x \in Executions : exec[x].phase \in WorkerPhases}
  <2>1. W \in SUBSET Busy(exec) /\ Busy(exec) \in SUBSET Executions
    BY DEF Busy
  <2>2. /\ Cardinality(W) <= Cardinality(Busy(exec)) /\ Cardinality(W) \in Nat
        /\ Cardinality(Busy(exec)) \in Nat
    BY <2>1, ExecutionSetsFinite, FS_Subset
  <2>. QED
    BY <2>2, NodeAssumption DEF NodeInv, SlotInv, NoIdleSlot
<1>. QED
  BY <1>1, NodeInvariance, PTL

\* With its crashes, lost calls and pump, the whole system keeps the promise
\* of the durable queue, an outcome and its eviction in one transaction included.
THEOREM SystemKeepsThePromise == Spec => KeepsThePromise
<1>1. Init => Promise!Init
  BY DEF Init, StoreInit, Promise!Init, Promise!Unborn, PromiseOf, PhaseOf, NoRow, Terminal,
         TerminalStates
<1>2. NodeInv /\ [Next]_vars => [Promise!Next]_([j \in Jobs |-> PromiseOf(jobs[j])])
  <2> SUFFICES ASSUME NodeInv, [Next]_vars
               PROVE  [Promise!Next]_([j \in Jobs |-> PromiseOf(jobs[j])])
    OBVIOUS
  <2>1. CASE Next
    <3>1. \A j \in Jobs : Advances(jobs[j], jobs'[j])
      BY <2>1, EveryStepMovesRows, EveryRowMoves DEF NodeInv, RowMoves
    <3>. QED
      BY <3>1 DEF Advances, Promise!Next
  <2>2. CASE UNCHANGED vars
    BY <2>2 DEF vars, storeVars
  <2>. QED
    BY <2>1, <2>2
<1>. QED
  BY <1>1, <1>2, NodeInvariance, PTL DEF Spec, KeepsThePromise, Promise!Spec
-----------------------------------------------------------------------------
(***************************************************************************)
(* What is published.  Two facts carry the proof.  Nothing is sent to the  *)
(* report store before the coordinator committed the row to the execution  *)
(* that sends it, and that commitment is never taken back.  And whatever   *)
(* the execution may still do is over one call and one PUT after the lease *)
(* of its row, which is before the settlement window ends: a publication   *)
(* that is reconciled is a publication of which nothing is in flight.      *)
(***************************************************************************)

Answers == {"none", "asked", "succeeded", "missing", "integrity-failed", "retryable"}
Reconciliation == [generation : 0..MAX_ATTEMPTS, answer : Answers, due : Int]
Put == [execution : Executions, part : {"primary", "sidecar"}, by : Nat]

\* The bundle is whole and of generation g; that of x is.
Whole(bundle, g) == bundle = [primary |-> g, sidecar |-> g]
Readable(x) == Whole(stored[x[1]], x[2])

\* Nothing of x can reach the report store any more, unless x is answered.
Quiet(x) == InFlight(x) = {} /\ ~Publishes(x)

\* The types of what is awaited and stored.
DataOK ==
    /\ recon \in [Jobs -> Reconciliation]
    /\ \A j \in Jobs : recon[j].answer # "none" => recon[j].generation # 0
    /\ stored \in [Jobs -> [primary : Nat, sidecar : Nat]]
    /\ puts \subseteq Put

\* Whatever publishes, was published, is announced or is reconciled belongs to
\* the execution its row is committed to.
CommittedFirst ==
    /\ \A x \in Executions :
          \/ Publishes(x) \/ InFlight(x) # {} \/ Request(x, "succeed") \in wire
          \/ stored[x[1]].primary = x[2] \/ stored[x[1]].sidecar = x[2]
          => Committed(jobs[x[1]], x[2])
    /\ \A j \in Jobs : recon[j].generation # 0 => Committed(jobs[j], recon[j].generation)

\* A success is announced when the bundle is whole.
Announced ==
    /\ \A x \in Executions : exec[x].phase = "sidecar" => stored[x[1]].primary = x[2]
    /\ \A x \in Executions : Request(x, "succeed") \in wire => Readable(x)
    /\ \A j \in Jobs : recon[j].answer = "succeeded" => Whole(stored[j], recon[j].generation)

\* No timer of a publication, and no PUT, is overdue.
Timed ==
    /\ \A x \in Executions :
          exec[x].phase \in PublicationPhases \cup {"begin"} => now <= exec[x].due
    /\ \A x \in Executions : exec[x].phase = "begin" => exec[x].due <= now + REQUEST_TIMEOUT
    /\ \A p \in puts : now <= p.by

\* A publication is over soon after the lease of its row.
Bounded ==
    \A x \in Executions : Publishing(x) =>
        LET lease == jobs[x[1]].lease IN
        /\ exec[x].phase = "begin" /\ exec[x].answer = "accepted" =>
              exec[x].due + PUBLICATION_TIMEOUT <= lease + REQUEST_TIMEOUT
        /\ exec[x].phase \in PublicationPhases => exec[x].due <= lease + REQUEST_TIMEOUT
        /\ \A p \in InFlight(x) : p.by <= lease + REQUEST_TIMEOUT + PUT_LAG

\* A publication is reconciled after its settlement window, and one that was
\* found missing is missing until the answer is used.
Asked ==
    \A j \in Jobs : Publishing(<<j, recon[j].generation>>) =>
        /\ jobs[j].lease + SETTLEMENT <= now
        /\ recon[j].answer = "missing" => stored[j].primary = 0

\* Of a job that was declared unpublished nothing is stored and nothing will be.
Forsaken(j) == stored[j].primary = 0 /\ \A x \in Executions : x[1] = j => Quiet(x)
MissingIsForsaken == \A j \in Jobs : jobs[j].reason = "publication-missing" => Forsaken(j)

\* A job that succeeded was executed, and its bundle is whole.
SuccessIsWhole ==
    \A j \in Jobs :
        jobs[j].state = "succeeded" =>
            jobs[j].generation # 0 /\ Whole(stored[j], jobs[j].generation)

\* The inductive invariant of publications.
PublicationInv ==
    /\ DataOK /\ CommittedFirst /\ Announced /\ Timed /\ Bounded /\ Asked
    /\ MissingIsForsaken /\ SuccessIsWhole

-----------------------------------------------------------------------------
(* What a step does to calls, PUTs, stored objects and reconciliations.    *)

\* A success is announced of a whole bundle.
WireMoves ==
    \A x \in Executions :
        Request(x, "succeed") \in wire' => Request(x, "succeed") \in wire \/ Readable(x)'

\* A PUT is sent by a publication, and may land until PUT_LAG after its end.
PutsMove ==
    /\ puts' \subseteq Put
    /\ \A p \in puts' :
          p \notin puts =>
             /\ exec'[p.execution].phase \in PublicationPhases
             /\ p.by = exec'[p.execution].due + PUT_LAG

\* Objects are created, never replaced: by a PUT in flight, or as the missing
\* sidecar of a stored report.
StoredMoves ==
    /\ stored' \in [Jobs -> [primary : Nat, sidecar : Nat]]
    /\ \A j \in Jobs :
          /\ \/ stored'[j].primary = stored[j].primary
             \/ /\ stored[j].primary = 0
                /\ \E p \in puts : p.execution = <<j, stored'[j].primary>>
          /\ \/ stored'[j].sidecar = stored[j].sidecar
             \/ stored[j].primary # 0 /\ stored'[j].sidecar = stored[j].primary
             \/ /\ stored[j].sidecar = 0
                /\ \E p \in puts : p.execution = <<j, stored'[j].sidecar>>

\* A reconciliation is asked for after the settlement window, answered from what
\* is stored, and dropped.
ReconMoves ==
    /\ recon' \in [Jobs -> Reconciliation]
    /\ \A j \in Jobs :
          \/ recon'[j] = recon[j]
          \/ recon'[j] = NoReconciliation
          \/ /\ jobs[j].state = "publishing" /\ jobs[j].lease + SETTLEMENT <= now
             /\ recon'[j].generation = jobs[j].generation /\ recon'[j].answer = "asked"
             /\ UNCHANGED jobs
          \/ /\ recon[j].answer = "asked" /\ recon'[j].generation = recon[j].generation
             /\ recon'[j].answer = "succeeded" => Whole(stored'[j], recon[j].generation)
             /\ recon'[j].answer = "missing" => stored'[j].primary = 0

PublicationMoves ==
    /\ TableMoves /\ \A x \in Executions : Steady(x)
    /\ WireMoves /\ PutsMove /\ StoredMoves /\ ReconMoves
    /\ UNCHANGED now

-----------------------------------------------------------------------------
(* Every step that moves publications so keeps their invariant.            *)

\* A publication whose settlement window is over has nothing in flight.
LEMMA SettledIsQuiet ==
    ASSUME Inv, DataOK, CommittedFirst, Timed, Bounded, NEW j \in Jobs,
           jobs[j].state = "publishing", jobs[j].lease + SETTLEMENT <= now,
           exec \in [Executions -> Execution],
           NEW x \in Executions, x[1] = j
    PROVE  Quiet(x)
<1>1. /\ now \in Nat /\ jobs[j].lease \in Int /\ exec[x].due \in Nat
      /\ \A p \in puts : p.by \in Nat
  BY RowColumns DEF Inv, DataOK, Put, Execution
<1>2. SUFFICES ASSUME ~Quiet(x)
               PROVE  FALSE
  OBVIOUS
<1>3. Publishing(x)
  BY <1>2 DEF CommittedFirst, Quiet, Committed, Publishing
<1>4. CASE InFlight(x) # {}
  <2>1. PICK p \in InFlight(x) : TRUE
    BY <1>4
  <2>2. p \in puts
    BY <2>1 DEF InFlight
  <2>3. now <= p.by /\ p.by <= jobs[j].lease + REQUEST_TIMEOUT + PUT_LAG
    BY <1>3, <2>1, <2>2 DEF Timed, Bounded
  <2>. QED
    BY <1>1, <2>2, <2>3, NodeAssumption, TimingAssumption, SettlementAssumption
<1>5. CASE Publishes(x)
  <2>1. now <= exec[x].due
    BY <1>5 DEF Timed, Publishes
  <2>2. exec[x].due <= jobs[j].lease + REQUEST_TIMEOUT
    BY <1>1, <1>3, <1>5, TimingAssumption, NodeAssumption DEF Bounded, Publishes
  <2>. QED
    BY <1>1, <2>1, <2>2, NodeAssumption, TimingAssumption, SettlementAssumption
<1>. QED
  BY <1>2, <1>4, <1>5 DEF Quiet

\* A bundle that is whole stays whole.
LEMMA WholeStays ==
    ASSUME StoredMoves, NEW j \in Jobs, NEW g \in Nat \ {0}, Whole(stored[j], g)
    PROVE  Whole(stored'[j], g)
<1>1. stored[j].primary = g /\ stored[j].sidecar = g
  BY DEF Whole
<1>2. stored'[j].primary = g /\ stored'[j].sidecar = g
  BY <1>1 DEF StoredMoves
<1>3. stored'[j] \in [primary : Nat, sidecar : Nat]
  BY DEF StoredMoves
<1>. QED
  BY <1>2, <1>3 DEF Whole

\* Whatever publishes after a step published before it, or its row is now
\* committed to it.
LEMMA PublishedBefore ==
    ASSUME PublicationMoves, NEW x \in Executions
    PROVE  /\ Publishes(x)' => Publishes(x) \/ (Publishing(x)' /\ ~Publishing(x))
           /\ exec'[x].phase \in PublicationPhases => Publishes(x)
           /\ InFlight(x)' # {} => InFlight(x) # {} \/ exec'[x].phase \in PublicationPhases
<1>1. Steady(x)
  BY DEF PublicationMoves
<1>2. exec'[x].phase \in PublicationPhases => Publishes(x)
  BY <1>1 DEF Steady, Publishes
<1>3. Publishes(x)' => Publishes(x) \/ (Publishing(x)' /\ ~Publishing(x))
  BY <1>1, <1>2 DEF Steady, Publishes
<1>4. ASSUME NEW p \in InFlight(x)', exec'[x].phase \notin PublicationPhases
      PROVE  p \in InFlight(x)
  BY <1>4 DEF InFlight, PublicationMoves, PutsMove
<1>. QED
  BY <1>2, <1>3, <1>4

\* What a step that moves publications may use.
PublicationStep == NodeInv /\ NodeInv' /\ PublicationInv /\ PublicationMoves

\* The rows, before and after.
LEMMA RowFacts ==
    ASSUME PublicationStep, NEW j \in Jobs
    PROVE  /\ GoodRow(jobs[j]) /\ GoodRow(jobs'[j]) /\ RowMoves(jobs[j], jobs'[j])
           /\ now \in Nat \ {0} /\ now' = now
           /\ jobs[j].generation \in Nat /\ jobs'[j].generation \in Nat
           /\ jobs[j].lease \in Int /\ jobs'[j].lease \in Int
           /\ \A g \in Nat : Committed(jobs[j], g) => Committed(jobs'[j], g)
           /\ jobs[j].state = "publishing" =>
                 jobs[j].generation # 0 /\ jobs[j].generation \in Generations
           /\ jobs'[j].state = "publishing" =>
                 jobs'[j].generation # 0 /\ jobs'[j].reason = "none"
<1>1. Inv /\ Inv' /\ LeaseInv /\ TableMoves
  BY DEF PublicationStep, NodeInv, PublicationMoves
<1>2. GoodRow(jobs[j]) /\ now \in Nat \ {0}
  BY <1>1 DEF Inv
<1>3. GoodRow(jobs'[j])
  BY <1>1, EveryRowMoves DEF RowMoves
<1>4. /\ RowMoves(jobs[j], jobs'[j])
      /\ \A g \in Nat : Committed(jobs[j], g) => Committed(jobs'[j], g)
  BY <1>1, EveryRowMoves
<1>5. /\ jobs[j].generation \in Nat /\ jobs'[j].generation \in Nat
      /\ jobs[j].lease \in Int /\ jobs'[j].lease \in Int
      /\ jobs[j].attempts \in 0..MAX_ATTEMPTS
  BY <1>2, <1>3, RowColumns DEF GoodRow
<1>6. jobs[j].state = "publishing" =>
         jobs[j].generation # 0 /\ jobs[j].generation \in Generations
  BY <1>2, <1>5, LimitAssumption DEF GoodRow, Active, Generations
<1>7. jobs'[j].state = "publishing" => jobs'[j].generation # 0 /\ jobs'[j].reason = "none"
  BY <1>3 DEF GoodRow, Active, Terminal, TerminalStates
<1>8. now' = now
  BY DEF PublicationStep, PublicationMoves
<1>. QED
  BY <1>2, <1>3, <1>4, <1>5, <1>6, <1>7, <1>8

\* An object that is stored after a step was stored, or on its way, before it.
LEMMA StoredBefore ==
    ASSUME PublicationStep, NEW x \in Executions,
           stored'[x[1]].primary = x[2] \/ stored'[x[1]].sidecar = x[2]
    PROVE  \/ stored[x[1]].primary = x[2] \/ stored[x[1]].sidecar = x[2]
           \/ InFlight(x) # {}
<1>1. x[1] \in Jobs /\ x = <<x[1], x[2]>>
  BY ExecutionPairs
<1>2. StoredMoves
  BY DEF PublicationStep, PublicationMoves
<1>3. ASSUME NEW p \in puts, p.execution = x
      PROVE  InFlight(x) # {}
  BY <1>3 DEF InFlight
<1>. QED
  BY <1>1, <1>2, <1>3 DEF StoredMoves

\* Types.
LEMMA DataStep ==
    ASSUME PublicationStep
    PROVE  DataOK'
<1>1. recon' \in [Jobs -> Reconciliation] /\ stored' \in [Jobs -> [primary : Nat, sidecar : Nat]]
  BY DEF PublicationStep, PublicationMoves, ReconMoves, StoredMoves
<1>2. puts' \subseteq Put
  BY DEF PublicationStep, PublicationMoves, PutsMove
<1>3. ASSUME NEW j \in Jobs, recon'[j].answer # "none"
      PROVE  recon'[j].generation # 0
  <2>1. ReconMoves /\ (recon[j].answer # "none" => recon[j].generation # 0)
    BY DEF PublicationStep, PublicationMoves, PublicationInv, DataOK
  <2>2. jobs[j].state = "publishing" => jobs[j].generation # 0
    BY RowFacts
  <2>3. recon'[j] = NoReconciliation => FALSE
    BY <1>3 DEF NoReconciliation
  <2>4. \/ recon'[j] = recon[j]
        \/ jobs[j].state = "publishing" /\ recon'[j].generation = jobs[j].generation
        \/ recon[j].answer = "asked" /\ recon'[j].generation = recon[j].generation
    BY <2>1, <2>3 DEF ReconMoves
  <2>. QED
    BY <1>3, <2>1, <2>2, <2>4
<1>. QED
  BY <1>1, <1>2, <1>3 DEF DataOK

\* Commitments come first.
LEMMA CommittedStep ==
    ASSUME PublicationStep
    PROVE  CommittedFirst'
<1>0. CommittedFirst /\ PublicationMoves
  BY DEF PublicationStep, PublicationInv
<1>1. ASSUME NEW x \in Executions,
             \/ Publishes(x)' \/ InFlight(x)' # {} \/ Request(x, "succeed") \in wire'
             \/ stored'[x[1]].primary = x[2] \/ stored'[x[1]].sidecar = x[2]
      PROVE  Committed(jobs'[x[1]], x[2])
  <2>0. x[1] \in Jobs /\ x[2] \in Nat
    BY ExecutionPairs
  <2>1. Committed(jobs[x[1]], x[2]) => Committed(jobs'[x[1]], x[2])
    BY <2>0, RowFacts
  <2>2. CASE Publishes(x) \/ InFlight(x) # {} \/ Request(x, "succeed") \in wire
    BY <1>0, <2>1, <2>2 DEF CommittedFirst
  <2>3. CASE stored'[x[1]].primary = x[2] \/ stored'[x[1]].sidecar = x[2]
    BY <1>0, <2>1, <2>3, StoredBefore DEF CommittedFirst
  <2>4. CASE Request(x, "succeed") \in wire' /\ Request(x, "succeed") \notin wire
    <3>1. Readable(x)'
      BY <1>0, <2>4 DEF PublicationMoves, WireMoves
    <3>. QED
      BY <2>3, <3>1 DEF Readable, Whole
  <2>5. CASE Publishing(x)'
    BY <2>0, <2>5, RowFacts DEF Publishing, Committed
  <2>. QED
    BY <1>0, <1>1, <2>2, <2>3, <2>4, <2>5, PublishedBefore
<1>2. ASSUME NEW j \in Jobs, recon'[j].generation # 0
      PROVE  Committed(jobs'[j], recon'[j].generation)
  <2>0. recon[j].generation \in Nat
    BY LimitAssumption DEF PublicationStep, PublicationInv, DataOK, Reconciliation
  <2>1. CASE recon'[j].generation = recon[j].generation
    <3>1. Committed(jobs[j], recon[j].generation)
      BY <1>0, <1>2, <2>1 DEF CommittedFirst
    <3>2. Committed(jobs'[j], recon[j].generation)
      BY <2>0, <3>1, RowFacts
    <3>. QED
      BY <2>1, <3>2
  <2>2. CASE jobs[j].state = "publishing" /\ recon'[j].generation = jobs[j].generation
    <3>1. Committed(jobs[j], jobs[j].generation)
      BY <2>2, RowFacts DEF Committed, GoodRow, Terminal, TerminalStates
    <3>. QED
      BY <2>2, <3>1, RowFacts
  <2>. QED
    BY <1>0, <1>2, <2>1, <2>2 DEF PublicationMoves, ReconMoves, NoReconciliation
<1>. QED
  BY <1>1, <1>2 DEF CommittedFirst, Publishes, InFlight

\* Success is announced of whole bundles.
LEMMA AnnouncedStep ==
    ASSUME PublicationStep
    PROVE  Announced'
<1>0. Announced /\ WireMoves /\ StoredMoves /\ ReconMoves /\ DataOK
  BY DEF PublicationStep, PublicationInv, PublicationMoves
<1>1. ASSUME NEW x \in Executions, exec'[x].phase = "sidecar"
      PROVE  stored'[x[1]].primary = x[2]
  <2>1. Steady(x)
    BY DEF PublicationStep, PublicationMoves
  <2>2. stored[x[1]].primary = x[2]
    BY <1>0, <1>1, <2>1, PhaseSets DEF Steady, Announced
  <2>. QED
    BY <1>0, <2>2, ExecutionPairs DEF StoredMoves
<1>2. ASSUME NEW x \in Executions, Request(x, "succeed") \in wire'
      PROVE  Readable(x)'
  <2>1. x[1] \in Jobs /\ x[2] \in Nat \ {0} /\ x = <<x[1], x[2]>>
    BY ExecutionPairs
  <2>2. CASE Readable(x)
    BY <1>0, <2>1, <2>2, WholeStays DEF Readable
  <2>. QED
    BY <1>0, <1>2, <2>2 DEF WireMoves, Announced
<1>3. ASSUME NEW j \in Jobs, recon'[j].answer = "succeeded"
      PROVE  Whole(stored'[j], recon'[j].generation)
  <2>1. CASE recon'[j] = recon[j]
    <3>1. recon[j].generation \in Nat \ {0}
      BY <1>0, <1>3, <2>1, LimitAssumption DEF DataOK, Reconciliation
    <3>2. PICK g \in Nat \ {0} : g = recon[j].generation
      BY <3>1
    <3>3. Whole(stored[j], g)
      BY <1>0, <1>3, <2>1, <3>2 DEF Announced
    <3>4. Whole(stored'[j], g)
      BY <1>0, <3>3, WholeStays
    <3>. QED
      BY <2>1, <3>2, <3>4
  <2>2. CASE /\ recon'[j].generation = recon[j].generation
             /\ Whole(stored'[j], recon[j].generation)
    BY <2>2
  <2>3. recon'[j] = NoReconciliation => FALSE
    BY <1>3 DEF NoReconciliation
  <2>. QED
    BY <1>0, <1>3, <2>1, <2>2, <2>3 DEF ReconMoves
<1>. QED
  BY <1>1, <1>2, <1>3 DEF Announced

\* Timers and PUTs are not overdue.
LEMMA TimedStep ==
    ASSUME PublicationStep
    PROVE  Timed'
<1>0. Timed /\ PutsMove /\ now' = now /\ now \in Nat /\ exec' \in [Executions -> Execution]
  BY DEF PublicationStep, PublicationInv, PublicationMoves, NodeInv, Inv, SlotInv
<1>1. ASSUME NEW x \in Executions, exec'[x].phase \in PublicationPhases \cup {"begin"}
      PROVE  /\ now <= exec'[x].due
             /\ exec'[x].phase = "begin" => exec'[x].due <= now + REQUEST_TIMEOUT
  <2>1. Steady(x)
    BY DEF PublicationStep, PublicationMoves
  <2>. QED
    BY <1>0, <1>1, <2>1, NodeAssumption, TimingAssumption, PhaseSets DEF Steady, Timed
<1>2. ASSUME NEW p \in puts'
      PROVE  now <= p.by
  <2>1. CASE p \in puts
    BY <1>0, <2>1 DEF Timed
  <2>2. CASE p \notin puts
    <3>1. p.execution \in Executions
      BY <1>0 DEF PutsMove, Put
    <3>2. exec'[p.execution].due \in Nat
      BY <1>0, <3>1 DEF Execution
    <3>3. now <= exec'[p.execution].due /\ p.by = exec'[p.execution].due + PUT_LAG
      BY <1>0, <1>1, <2>2, <3>1 DEF PutsMove
    <3>. QED
      BY <1>0, <3>2, <3>3, NodeAssumption
  <2>. QED
    BY <2>1, <2>2
<1>. QED
  BY <1>0, <1>1, <1>2 DEF Timed

\* Publications are bounded by the lease of their row.
LEMMA BoundedStep ==
    ASSUME PublicationStep
    PROVE  Bounded'
<1> SUFFICES ASSUME NEW x \in Executions, Publishing(x)'
             PROVE  LET lease == jobs'[x[1]].lease IN
                    /\ exec'[x].phase = "begin" /\ exec'[x].answer = "accepted" =>
                          exec'[x].due + PUBLICATION_TIMEOUT <= lease + REQUEST_TIMEOUT
                    /\ exec'[x].phase \in PublicationPhases => exec'[x].due <= lease + REQUEST_TIMEOUT
                    /\ \A p \in InFlight(x)' : p.by <= lease + REQUEST_TIMEOUT + PUT_LAG
  BY DEF Bounded
<1> DEFINE j == x[1]
<1>0. /\ Timed /\ Bounded /\ CommittedFirst /\ DataOK /\ PutsMove /\ DataOK'
      /\ exec \in [Executions -> Execution] /\ exec' \in [Executions -> Execution]
  BY DataStep DEF PublicationStep, PublicationInv, PublicationMoves, NodeInv, SlotInv
<1>1. /\ j \in Jobs /\ now \in Nat /\ jobs[j].lease \in Int /\ jobs'[j].lease \in Int
      /\ exec[x].due \in Nat /\ exec'[x].due \in Nat
  BY <1>0, ExecutionPairs, RowFacts DEF Execution
<1>2. /\ jobs'[j].state = "publishing" /\ jobs'[j].generation = x[2]
      /\ jobs[j].generation = x[2]
      /\ \/ jobs[j].state = "publishing" /\ jobs[j].lease <= jobs'[j].lease
         \/ jobs[j].state = "leased" /\ now + PUBLICATION_TIMEOUT <= jobs'[j].lease
  BY <1>1, RowFacts DEF Publishing, RowMoves
<1>3. Steady(x) /\ (exec'[x].phase = "begin" => exec'[x].due <= now + REQUEST_TIMEOUT)
  BY TimedStep DEF PublicationStep, PublicationMoves, Timed
<1>4. CASE jobs[j].state = "publishing" /\ jobs[j].lease <= jobs'[j].lease
  <2>1. Publishing(x)
    BY <1>2, <1>4 DEF Publishing
  <2>2. exec[x].phase = "begin" /\ exec[x].answer = "accepted" =>
           now <= exec[x].due /\ exec[x].due + PUBLICATION_TIMEOUT <= jobs[j].lease + REQUEST_TIMEOUT
    BY <1>0, <2>1 DEF Bounded, Timed
  <2>3. exec[x].phase \in PublicationPhases => exec[x].due <= jobs[j].lease + REQUEST_TIMEOUT
    BY <1>0, <2>1 DEF Bounded
  <2>4. exec'[x].phase = "begin" /\ exec'[x].answer = "accepted" =>
           exec'[x].due + PUBLICATION_TIMEOUT <= jobs'[j].lease + REQUEST_TIMEOUT
    BY <1>1, <1>3, <1>4, <2>1, <2>2, NodeAssumption, TimingAssumption DEF Steady
  <2>5. exec'[x].phase \in PublicationPhases => exec'[x].due <= jobs'[j].lease + REQUEST_TIMEOUT
    BY <1>1, <1>3, <1>4, <2>2, <2>3, NodeAssumption, TimingAssumption DEF Steady
  <2>6. ASSUME NEW p \in InFlight(x)'
        PROVE  p.by <= jobs'[j].lease + REQUEST_TIMEOUT + PUT_LAG
    <3>0. p \in puts' /\ p.execution = x /\ p.by \in Nat
      BY <1>0 DEF InFlight, DataOK, Put
    <3>1. CASE p \in puts
      <4>1. p.by <= jobs[j].lease + REQUEST_TIMEOUT + PUT_LAG
        BY <1>0, <2>1, <3>0, <3>1 DEF Bounded, InFlight
      <4>. QED
        BY <1>1, <1>4, <3>0, <4>1, NodeAssumption
    <3>2. CASE p \notin puts
      <4>1. exec'[x].phase \in PublicationPhases /\ p.by = exec'[x].due + PUT_LAG
        BY <1>0, <3>0, <3>2 DEF PutsMove
      <4>. QED
        BY <1>1, <2>5, <4>1, NodeAssumption
    <3>. QED
      BY <3>1, <3>2
  <2>. QED
    BY <2>4, <2>5, <2>6
<1>5. CASE jobs[j].state = "leased" /\ now + PUBLICATION_TIMEOUT <= jobs'[j].lease
  <2>1. ~Publishes(x) /\ InFlight(x) = {}
    BY <1>0, <1>5 DEF CommittedFirst, Committed
  <2>2. exec'[x].phase \notin PublicationPhases /\ InFlight(x)' = {}
    BY <2>1, PublishedBefore DEF PublicationStep
  <2>3. exec'[x].phase = "begin" =>
           exec'[x].due + PUBLICATION_TIMEOUT <= jobs'[j].lease + REQUEST_TIMEOUT
    BY <1>1, <1>3, <1>5, NodeAssumption, TimingAssumption
  <2>. QED
    BY <2>2, <2>3
<1>. QED
  BY <1>2, <1>4, <1>5

\* Reconciliations are asked for after the window.
LEMMA AskedStep ==
    ASSUME PublicationStep
    PROVE  Asked'
<1> SUFFICES ASSUME NEW j \in Jobs, jobs'[j].state = "publishing",
                    jobs'[j].generation = recon'[j].generation
             PROVE  /\ jobs'[j].lease + SETTLEMENT <= now
                    /\ recon'[j].answer = "missing" => stored'[j].primary = 0
  BY RowFacts DEF Asked, Publishing
<1>0. /\ Inv /\ DataOK /\ CommittedFirst /\ Timed /\ Bounded /\ Asked /\ StoredMoves /\ ReconMoves
      /\ exec \in [Executions -> Execution]
  BY DEF PublicationStep, NodeInv, SlotInv, PublicationInv, PublicationMoves
<1>1. /\ now \in Nat /\ jobs[j].lease \in Int /\ recon'[j].generation # 0
      /\ jobs[j].generation = recon'[j].generation
      /\ \/ /\ jobs[j].state = "publishing"
            /\ jobs[j].lease <= now => jobs'[j].lease = jobs[j].lease
         \/ jobs[j].state = "leased"
  BY RowFacts DEF RowMoves
<1>2. CASE recon'[j].generation = recon[j].generation
  <2>1. jobs[j].state = "publishing"
    BY <1>0, <1>1, <1>2 DEF CommittedFirst, Committed
  <2>2. /\ jobs[j].lease + SETTLEMENT <= now
        /\ recon[j].answer = "missing" => stored[j].primary = 0
    BY <1>0, <1>1, <1>2, <2>1 DEF Asked, Publishing
  <2>3. jobs'[j].lease = jobs[j].lease
    BY <1>1, <2>1, <2>2, TimingAssumption
  <2>4. recon'[j].answer = "missing" => recon[j].answer = "missing" \/ stored'[j].primary = 0
    BY <1>0, <1>1 DEF ReconMoves, NoReconciliation
  <2>5. stored[j].primary = 0 => stored'[j].primary = 0
    <3>1. ASSUME NEW p \in puts, p.execution = <<j, stored'[j].primary>>
          PROVE  FALSE
      <4>1. PICK x \in Executions : x = p.execution
        BY <1>0 DEF DataOK, Put
      <4>2. x[1] = j /\ p \in InFlight(x)
        BY <3>1, <4>1 DEF InFlight
      <4>. QED
        BY <1>0, <2>1, <2>2, <4>2, SettledIsQuiet DEF Quiet
    <3>. QED
      BY <1>0, <3>1 DEF StoredMoves
  <2>. QED
    BY <2>2, <2>3, <2>4, <2>5
<1>3. CASE /\ jobs[j].state = "publishing" /\ jobs[j].lease + SETTLEMENT <= now
           /\ recon'[j].answer = "asked" /\ UNCHANGED jobs
  BY <1>3
<1>. QED
  BY <1>0, <1>1, <1>2, <1>3 DEF ReconMoves, NoReconciliation

\* What was given up stays given up.
LEMMA ForsakenStays ==
    ASSUME PublicationStep, NEW j \in Jobs, Forsaken(j), jobs'[j].state # "publishing"
    PROVE  Forsaken(j)'
<1>0. /\ StoredMoves /\ puts \subseteq Put
      /\ \A x \in Executions : x[1] = j => Quiet(x)
  BY DEF PublicationStep, PublicationMoves, PublicationInv, DataOK, Forsaken
<1>1. stored'[j].primary = 0
  <2>1. ASSUME NEW p \in puts, p.execution = <<j, stored'[j].primary>>
        PROVE  FALSE
    <3>1. PICK x \in Executions : x = p.execution
      BY <1>0 DEF Put
    <3>2. x[1] = j /\ p \in InFlight(x)
      BY <2>1, <3>1 DEF InFlight
    <3>. QED
      BY <1>0, <3>2 DEF Quiet
  <2>. QED
    BY <1>0, <2>1 DEF StoredMoves, Forsaken
<1>2. ASSUME NEW x \in Executions, x[1] = j
      PROVE  Quiet(x)'
  <2>1. InFlight(x) = {} /\ ~Publishes(x) /\ ~Publishing(x)'
    BY <1>0, <1>2 DEF Quiet, Publishing
  <2>2. InFlight(x)' = {} /\ ~Publishes(x)'
    BY <2>1, PublishedBefore DEF PublicationStep
  <2>. QED
    BY <2>2 DEF Quiet
<1>. QED
  BY <1>1, <1>2 DEF Forsaken

\* An outcome is recorded of what is stored.
LEMMA OutcomeStep ==
    ASSUME PublicationStep
    PROVE  MissingIsForsaken' /\ SuccessIsWhole'
<1>0. /\ Inv /\ LeaseInv /\ DataOK /\ CommittedFirst /\ Announced /\ Timed /\ Bounded /\ Asked
      /\ MissingIsForsaken /\ SuccessIsWhole /\ StoredMoves /\ TableMoves
      /\ exec \in [Executions -> Execution]
  BY DEF PublicationStep, NodeInv, SlotInv, PublicationInv, PublicationMoves
<1>1. ASSUME NEW j \in Jobs
      PROVE  \/ jobs'[j] = jobs[j]
             \/ jobs'[j].reason # "publication-missing" /\ jobs'[j].state # "succeeded"
             \/ Concluded(j)
  <2>1. CASE RowStep(jobs[j], jobs'[j])
    BY <1>0, <2>1, RowStepMoves DEF Inv, LeaseInv
  <2>2. CASE PublishingStep(jobs[j], jobs'[j])
    <3>1. jobs'[j].state = "publishing"
      BY <2>2 DEF PublishingStep, PublishingRow
    <3>. QED
      BY <3>1, RowFacts
  <2>. QED
    BY <1>0, <2>1, <2>2 DEF TableMoves
<1>2. ASSUME NEW j \in Jobs, Concluded(j)
      PROVE  /\ jobs[j].state = "publishing" /\ jobs[j].generation \in Nat \ {0}
             /\ jobs'[j].generation = jobs[j].generation /\ Terminal(jobs'[j])
             /\ <<j, jobs[j].generation>> \in Executions
  <2>1. jobs[j].state = "publishing"
    BY <1>2 DEF Concluded, ConcludingStep
  <2>2. jobs'[j].generation = jobs[j].generation /\ Terminal(jobs'[j])
    BY <1>2 DEF Concluded, ConcludingStep, Terminalized, Terminal
  <2>. QED
    BY <2>1, <2>2, RowFacts DEF Executions
<1>3. ASSUME NEW j \in Jobs, jobs'[j].reason = "publication-missing"
      PROVE  Forsaken(j)'
  <2>0. jobs'[j].state # "publishing"
    BY <1>3, RowFacts
  <2>1. CASE jobs'[j] = jobs[j]
    BY <1>0, <1>3, <2>0, <2>1, ForsakenStays DEF MissingIsForsaken
  <2>2. CASE Concluded(j)
    <3>1. Reconciled(j) /\ recon[j].answer = "missing"
      BY <1>3, <2>2 DEF Concluded, Resolved, Reconciled
    <3>2. jobs[j].state = "publishing" /\ jobs[j].generation = recon[j].generation
      BY <1>2, <2>2, <3>1 DEF Reconciled
    <3>3. jobs[j].lease + SETTLEMENT <= now /\ stored[j].primary = 0
      BY <1>0, <3>1, <3>2 DEF Asked, Publishing
    <3>4. Forsaken(j)
      BY <1>0, <3>2, <3>3, SettledIsQuiet DEF Forsaken
    <3>. QED
      BY <2>0, <3>4, ForsakenStays
  <2>. QED
    BY <1>1, <1>3, <2>1, <2>2
<1>4. ASSUME NEW j \in Jobs, jobs'[j].state = "succeeded"
      PROVE  jobs'[j].generation # 0 /\ Whole(stored'[j], jobs'[j].generation)
  <2>1. ASSUME jobs[j].generation \in Nat \ {0}, Whole(stored[j], jobs[j].generation),
               jobs'[j].generation = jobs[j].generation
        PROVE  jobs'[j].generation # 0 /\ Whole(stored'[j], jobs[j].generation)
    <3>1. PICK g \in Nat \ {0} : g = jobs[j].generation
      BY <2>1
    <3>2. Whole(stored'[j], g)
      BY <1>0, <2>1, <3>1, WholeStays
    <3>. QED
      BY <2>1, <3>1, <3>2
  <2>2. CASE jobs'[j] = jobs[j]
    BY <1>0, <1>4, <2>1, <2>2, RowFacts DEF SuccessIsWhole
  <2>3. CASE Concluded(j)
    <3>1. CASE Resolved(j)
      <4>0. PICK x \in Executions : x = <<j, jobs[j].generation>>
        BY <1>2, <2>3
      <4>1. Whole(stored[j], jobs[j].generation)
        BY <1>0, <3>1, <4>0 DEF Resolved, Announced, Readable
      <4>. QED
        BY <1>2, <2>1, <2>3, <4>1
    <3>2. CASE Reconciled(j)
      <4>1. Whole(stored[j], jobs[j].generation)
        BY <1>0, <1>4, <3>2 DEF Reconciled, Announced
      <4>. QED
        BY <1>2, <2>1, <2>3, <4>1
    <3>. QED
      BY <2>3, <3>1, <3>2 DEF Concluded
  <2>. QED
    BY <1>1, <1>4, <2>2, <2>3
<1>. QED
  BY <1>3, <1>4 DEF MissingIsForsaken, SuccessIsWhole

\* All parts together.
LEMMA PublicationsKept ==
    ASSUME NodeInv, NodeInv', PublicationInv, PublicationMoves
    PROVE  PublicationInv'
<1>1. PublicationStep
  BY DEF PublicationStep
<1>2. DataOK' /\ CommittedFirst' /\ Announced' /\ Timed' /\ Bounded' /\ Asked'
  BY <1>1, DataStep, CommittedStep, AnnouncedStep, TimedStep, BoundedStep, AskedStep
<1>3. MissingIsForsaken' /\ SuccessIsWhole'
  BY <1>1, OutcomeStep
<1>. QED
  BY <1>2, <1>3 DEF PublicationInv

-----------------------------------------------------------------------------
(* Every step but the passing of time moves publications so.               *)

DataMoves == WireMoves /\ PutsMove /\ StoredMoves /\ ReconMoves

\* What a step does not touch.
LEMMA DataRests ==
    ASSUME DataOK
    PROVE  /\ UNCHANGED recon => ReconMoves
           /\ UNCHANGED stored => StoredMoves
           /\ puts' \subseteq puts => PutsMove
           /\ (\A x \in Executions : Request(x, "succeed") \in wire' => Request(x, "succeed") \in wire)
                 => WireMoves
           /\ wire' \subseteq wire => WireMoves
BY DEF DataOK, ReconMoves, StoredMoves, PutsMove, WireMoves

\* Requests of different kinds differ.
LEMMA RequestKinds ==
    ASSUME NEW x, NEW y, NEW kind, kind # "succeed"
    PROVE  Request(y, "succeed") # Request(x, kind)
BY DEF Request

\* A call that announces no success, or that of a whole bundle.
LEMMA CallMovesData ==
    ASSUME DataOK, NEW x \in Executions, NEW kind, NEW phase, Call(x, kind, phase),
           kind = "succeed" => Readable(x)
    PROVE  DataMoves
<1>1. UNCHANGED <<recon, stored, puts>> /\ wire' = wire \cup {Request(x, kind)}
  BY DEF Call, r2Vars
<1>2. WireMoves
  <2>1. ASSUME NEW y \in Executions, Request(y, "succeed") \in wire', Request(y, "succeed") \notin wire
        PROVE  Readable(y)'
    <3>1. Request(y, "succeed") = Request(x, kind)
      BY <1>1, <2>1
    <3>2. y = x /\ kind = "succeed"
      BY <3>1 DEF Request
    <3>. QED
      BY <1>1, <3>2 DEF Readable
  <2>. QED
    BY <2>1 DEF WireMoves
<1>. QED
  BY <1>1, <1>2, DataRests DEF DataMoves

\* The pump's reconciliations.
LEMMA PumpMovesData ==
    ASSUME Inv, DataOK, NEW j \in Jobs,
           AskReconciliation(j) \/ FinishReconciliation(j) \/ AbandonReconciliation(j)
    PROVE  DataMoves
<1>0. UNCHANGED <<wire, stored, puts>>
  BY DEF AskReconciliation, FinishReconciliation, AbandonReconciliation, CoordinatorStep, r2Vars
<1>1. CASE AskReconciliation(j)
  <2> DEFINE r == [generation |-> jobs[j].generation, answer |-> "asked",
                   due |-> Earlier(now + RECONCILIATION_TIMEOUT, PurgeAt(jobs[j]))]
  <2>1. GoodRow(jobs[j]) /\ jobs[j] \in Row /\ now \in Nat
    BY DEF Inv
  <2>2. /\ jobs[j].generation \in 0..MAX_ATTEMPTS /\ jobs[j].created \in Int
        /\ jobs[j].lease \in Int
    BY <2>1, RowColumns DEF GoodRow
  <2>3. r \in Reconciliation
    BY <2>1, <2>2, TimingAssumption DEF Reconciliation, Answers, Earlier, PurgeAt
  <2>4. /\ jobs[j].state = "publishing" /\ SettlementAt(jobs[j]) <= now
        /\ recon' = [recon EXCEPT ![j] = r] /\ UNCHANGED jobs
    BY <1>1 DEF AskReconciliation, storeVars
  <2>5. jobs[j].lease + SETTLEMENT <= now
    BY <2>1, <2>2, <2>4, TimingAssumption
       DEF GoodRow, PublishingCeiling, SettlementAt, DeadlineAt
  <2>6. r.generation = jobs[j].generation /\ r.answer = "asked"
    OBVIOUS
  <2> HIDE DEF r
  <2>7. /\ recon' \in [Jobs -> Reconciliation] /\ recon'[j] = r
        /\ \A k \in Jobs : k # j => recon'[k] = recon[k]
    BY <2>3, <2>4 DEF DataOK
  <2>. QED
    BY <1>0, <2>4, <2>5, <2>6, <2>7, DataRests DEF ReconMoves, DataMoves
<1>2. CASE FinishReconciliation(j) \/ AbandonReconciliation(j)
  <2>1. recon' = [recon EXCEPT ![j] = NoReconciliation]
    BY <1>2 DEF FinishReconciliation, AbandonReconciliation
  <2>2. NoReconciliation \in Reconciliation
    BY LimitAssumption DEF NoReconciliation, Reconciliation, Answers
  <2>3. /\ recon' \in [Jobs -> Reconciliation] /\ recon'[j] = NoReconciliation
        /\ \A k \in Jobs : k # j => recon'[k] = recon[k]
    BY <2>1, <2>2 DEF DataOK
  <2>. QED
    BY <1>0, <2>3, DataRests DEF ReconMoves, DataMoves
<1>. QED
  BY <1>1, <1>2

\* Node's answer to a reconciliation.
LEMMA AnswerMovesData ==
    ASSUME DataOK, NEW j \in Jobs, AnswerReconciliation(j)
    PROVE  DataMoves
<1> DEFINE g == recon[j].generation
<1>0. /\ UNCHANGED <<wire, puts>> /\ recon[j].answer = "asked" /\ recon[j] \in Reconciliation
      /\ g # 0 /\ g \in Nat /\ stored[j] \in [primary : Nat, sidecar : Nat]
  BY LimitAssumption DEF AnswerReconciliation, DataOK, Reconciliation
<1>1. PICK answer \in {"succeeded", "missing", "integrity-failed", "retryable"} :
         /\ recon' = [recon EXCEPT ![j].answer = answer]
         /\ \/ /\ answer = "succeeded" /\ stored[j].primary = g
               /\ stored' = [stored EXCEPT ![j].sidecar = g]
            \/ answer # "succeeded" /\ UNCHANGED stored
         /\ answer = "missing" => stored[j].primary = 0
  BY <1>0 DEF AnswerReconciliation, Found
<1>2. /\ recon' \in [Jobs -> Reconciliation] /\ recon'[j].generation = g
      /\ recon'[j].answer = answer /\ \A k \in Jobs : k # j => recon'[k] = recon[k]
  BY <1>0, <1>1 DEF DataOK, Reconciliation, Answers
<1>3. CASE answer = "succeeded"
  <2>1. stored[j].primary = g /\ stored' = [stored EXCEPT ![j].sidecar = g]
    BY <1>1, <1>3
  <2>2. /\ stored' \in [Jobs -> [primary : Nat, sidecar : Nat]]
        /\ stored'[j] = [primary |-> g, sidecar |-> g]
        /\ \A k \in Jobs : k # j => stored'[k] = stored[k]
    BY <1>0, <2>1 DEF DataOK
  <2> HIDE DEF g
  <2>3. StoredMoves
    BY <1>0, <2>1, <2>2 DEF StoredMoves
  <2>4. Whole(stored'[j], g)
    BY <2>2 DEF Whole
  <2>5. ReconMoves
    BY <1>0, <1>2, <1>3, <2>4 DEF ReconMoves, g
  <2>. QED
    BY <1>0, <2>3, <2>5, DataRests DEF DataMoves
<1>4. CASE answer # "succeeded"
  <2>1. UNCHANGED stored
    BY <1>1, <1>4
  <2>2. ReconMoves
    BY <1>0, <1>1, <1>2, <1>4, <2>1 DEF ReconMoves
  <2>. QED
    BY <1>0, <2>1, <2>2, DataRests DEF DataMoves
<1>. QED
  BY <1>3, <1>4

\* A new PUT of x.
LEMMA NewPutMovesData ==
    ASSUME Inv, DataOK, SlotInv, NEW x \in Executions, NEW r \in Execution,
           NEW part \in {"primary", "sidecar"},
           r.phase \in PublicationPhases, exec' = [exec EXCEPT ![x] = r],
           puts' = puts \cup {[execution |-> x, part |-> part, by |-> r.due + PUT_LAG]},
           UNCHANGED <<recon, wire, stored>>
    PROVE  DataMoves
<1> DEFINE p == [execution |-> x, part |-> part, by |-> r.due + PUT_LAG]
<1>1. exec'[x] = r
  BY DEF SlotInv
<1>2. p \in Put /\ p.execution = x /\ p.by = r.due + PUT_LAG
  BY NodeAssumption DEF Put, Execution
<1>3. puts' = puts \cup {p}
  OBVIOUS
<1> HIDE DEF p
<1>4. PutsMove
  BY <1>1, <1>2, <1>3 DEF PutsMove, DataOK
<1>. QED
  BY <1>4, DataRests DEF DataMoves

\* The steps of a worker.
LEMMA WorkerMovesData ==
    ASSUME Inv, DataOK, SlotInv, Announced, NEW x \in Executions, WorkerNext(x)
    PROVE  DataMoves
<1>0. now \in Nat /\ exec[x] \in Execution /\ x[1] \in Jobs /\ x[2] \in Nat /\ x[2] # 0
  BY ExecutionPairs DEF Inv, SlotInv
<1>1. CASE Beat(x)
  <2>1. UNCHANGED <<recon, stored, puts>> /\ wire' = wire \cup {Request(x, "beat")}
    BY <1>1 DEF Beat, WorkerStep, NodeStep, r2Vars
  <2>2. \A y \in Executions : Request(y, "succeed") \in wire' => Request(y, "succeed") \in wire
    BY <2>1, RequestKinds
  <2>. QED
    BY <2>1, <2>2, DataRests DEF DataMoves
<1>2. CASE EndScan(x)
  BY <1>2, CallMovesData DEF EndScan
<1>3. CASE BeginPublication(x)
  <2>1. CASE Commit(x)
    <3> DEFINE r == Until("primary", now + PUBLICATION_TIMEOUT)
    <3>1. now + PUBLICATION_TIMEOUT \in Nat
      BY <1>0, TimingAssumption
    <3>2. /\ r \in Execution /\ r.phase \in PublicationPhases
          /\ r.due = now + PUBLICATION_TIMEOUT
      BY <3>1, Records, PhaseSets
    <3>3. /\ exec' = [exec EXCEPT ![x] = r] /\ UNCHANGED <<recon, wire, stored>>
          /\ puts' = puts \cup {[execution |-> x, part |-> "primary",
                                 by |-> now + PUBLICATION_TIMEOUT + PUT_LAG]}
      BY <2>1 DEF Commit
    <3> HIDE DEF r
    <3>. QED
      BY <3>2, <3>3, NewPutMovesData
  <2>2. CASE Call(x, "fail", "resolve")
    BY <2>2, CallMovesData
  <2>. QED
    BY <1>3, <2>1, <2>2 DEF BeginPublication
<1>4. CASE WriteSidecar(x)
  <2> DEFINE r == [exec[x] EXCEPT !.phase = "sidecar"]
  <2>1. r \in Execution /\ r.phase \in PublicationPhases /\ r.due = exec[x].due
    BY <1>0, PhaseSets DEF Execution
  <2>2. /\ exec' = [exec EXCEPT ![x] = r] /\ UNCHANGED <<recon, wire, stored>>
        /\ puts' = puts \cup {[execution |-> x, part |-> "sidecar", by |-> exec[x].due + PUT_LAG]}
    BY <1>4 DEF WriteSidecar
  <2> HIDE DEF r
  <2>. QED
    BY <2>1, <2>2, NewPutMovesData
<1>5. CASE Published(x)
  <2>1. /\ exec[x].phase = "sidecar" /\ stored[x[1]].sidecar = x[2]
        /\ Call(x, "succeed", "resolve")
    BY <1>5 DEF Published
  <2>2. stored[x[1]].primary = x[2] /\ stored[x[1]] \in [primary : Nat, sidecar : Nat]
    BY <1>0, <2>1 DEF Announced, DataOK
  <2>3. Readable(x)
    BY <2>1, <2>2 DEF Readable, Whole
  <2>. QED
    BY <2>1, <2>3, CallMovesData
<1>6. CASE ReadBackFinds(x)
  <2>1. /\ stored[x[1]].primary = x[2] /\ stored[x[1]] \in [primary : Nat, sidecar : Nat]
        /\ stored' = [stored EXCEPT ![x[1]].sidecar = x[2]]
        /\ wire' = wire \cup {Request(x, "succeed")} /\ UNCHANGED <<recon, puts>>
    BY <1>0, <1>6 DEF ReadBackFinds, DataOK
  <2>2. /\ stored' \in [Jobs -> [primary : Nat, sidecar : Nat]]
        /\ stored'[x[1]] = [primary |-> x[2], sidecar |-> x[2]]
        /\ \A k \in Jobs : k # x[1] => stored'[k] = stored[k]
    BY <1>0, <2>1 DEF DataOK
  <2>3. StoredMoves
    BY <1>0, <2>1, <2>2 DEF StoredMoves
  <2>4. Readable(x)'
    BY <2>2 DEF Readable, Whole
  <2>5. ASSUME NEW y \in Executions, Request(y, "succeed") \in wire', Request(y, "succeed") \notin wire
        PROVE  Readable(y)'
    <3>1. y = x
      BY <2>1, <2>5 DEF Request
    <3>. QED
      BY <2>4, <3>1
  <2>6. WireMoves
    BY <2>5 DEF WireMoves
  <2>. QED
    BY <2>1, <2>3, <2>6, DataRests DEF DataMoves
<1>7. CASE \/ LeaveUnpublished(x) \/ CommitFails(x) \/ LeaveUnknown(x) \/ EndResolve(x)
           \/ StopAborted(x)
  <2>1. UNCHANGED <<wire, recon, stored, puts>>
    BY <1>7
       DEF LeaveUnpublished, CommitFails, LeaveUnknown, EndResolve, StopAborted, WorkerStep,
           NodeStep, r2Vars
  <2>. QED
    BY <2>1, DataRests DEF DataMoves
<1>. QED
  BY <1>1, <1>2, <1>3, <1>4, <1>5, <1>6, <1>7 DEF WorkerNext

\* A PUT lands, or never does.
LEMMA PutMovesData ==
    ASSUME DataOK, NEW p \in puts, Land(p) \/ Vanish(p)
    PROVE  DataMoves
<1>0. /\ UNCHANGED <<recon, wire>> /\ puts' \subseteq puts /\ p \in Put
  BY DEF Land, Vanish, DataOK
<1>1. CASE UNCHANGED stored
  BY <1>0, <1>1, DataRests DEF DataMoves
<1>2. CASE Land(p) /\ ~UNCHANGED stored
  <2> DEFINE j == p.execution[1]
  <2>1. PICK x \in Executions : x = p.execution
    BY <1>0 DEF Put
  <2>2. x[1] \in Jobs /\ x[2] \in Nat /\ x = <<x[1], x[2]>>
    BY ExecutionPairs
  <2>3. stored[x[1]][p.part] = 0 /\ stored' = [stored EXCEPT ![x[1]][p.part] = x[2]]
    BY <1>2, <2>1 DEF Land
  <2>4. stored[x[1]] \in [primary : Nat, sidecar : Nat] /\ p.part \in {"primary", "sidecar"}
    BY <1>0, <2>2 DEF DataOK, Put
  <2>5. /\ stored' \in [Jobs -> [primary : Nat, sidecar : Nat]]
        /\ \A k \in Jobs : k # x[1] => stored'[k] = stored[k]
    BY <2>2, <2>3, <2>4 DEF DataOK
  <2>6. ASSUME p.part = "primary"
        PROVE  StoredMoves
    <3>1. /\ stored[x[1]].primary = 0 /\ stored'[x[1]].primary = x[2]
          /\ stored'[x[1]].sidecar = stored[x[1]].sidecar
      BY <2>2, <2>3, <2>4, <2>6 DEF DataOK
    <3>2. p.execution = <<x[1], stored'[x[1]].primary>>
      BY <2>1, <2>2, <3>1
    <3>3. ASSUME NEW k \in Jobs, stored'[k].primary # stored[k].primary
          PROVE  stored[k].primary = 0 /\ p.execution = <<k, stored'[k].primary>>
      BY <2>5, <3>1, <3>2, <3>3
    <3>4. \A k \in Jobs : stored'[k].sidecar = stored[k].sidecar
      BY <2>5, <3>1
    <3>. QED
      BY <2>5, <3>3, <3>4 DEF StoredMoves
  <2>7. ASSUME p.part = "sidecar"
        PROVE  StoredMoves
    <3>1. /\ stored[x[1]].sidecar = 0 /\ stored'[x[1]].sidecar = x[2]
          /\ stored'[x[1]].primary = stored[x[1]].primary
      BY <2>2, <2>3, <2>4, <2>7 DEF DataOK
    <3>2. p.execution = <<x[1], stored'[x[1]].sidecar>>
      BY <2>1, <2>2, <3>1
    <3>3. ASSUME NEW k \in Jobs, stored'[k].sidecar # stored[k].sidecar
          PROVE  stored[k].sidecar = 0 /\ p.execution = <<k, stored'[k].sidecar>>
      BY <2>5, <3>1, <3>2, <3>3
    <3>4. \A k \in Jobs : stored'[k].primary = stored[k].primary
      BY <2>5, <3>1
    <3>. QED
      BY <2>5, <3>3, <3>4 DEF StoredMoves
  <2>8. StoredMoves
    BY <2>4, <2>6, <2>7
  <2>. QED
    BY <1>0, <2>8, DataRests DEF DataMoves
<1>. QED
  BY <1>1, <1>2 DEF Land, Vanish

\* Every step but the passing of time moves publications.
LEMMA EveryStepMovesPublications ==
    ASSUME NodeInv, PublicationInv, Next, ~Pass
    PROVE  PublicationMoves
<1>0. Inv /\ SlotInv /\ DataOK /\ Announced
  BY DEF NodeInv, PublicationInv
<1>1. ASSUME NEW j \in Jobs, CoordinatorNext(j)
      PROVE  DataMoves
  <2>1. CASE AskReconciliation(j) \/ FinishReconciliation(j) \/ AbandonReconciliation(j)
    BY <1>0, <2>1, PumpMovesData
  <2>2. CASE Admission(j) \/ RejectPayload(j) \/ PumpRow(j) \/ CancelDurableJob(j)
    <3>1. UNCHANGED <<wire, recon, stored, puts>>
      BY <2>2 DEF Admission, RejectPayload, PumpRow, CancelDurableJob, CoordinatorStep, r2Vars
    <3>. QED
      BY <1>0, <3>1, DataRests DEF DataMoves
  <2>. QED
    BY <1>1, <2>1, <2>2 DEF CoordinatorNext
<1>2. ASSUME NEW j \in Jobs, AnswerReconciliation(j)
      PROVE  DataMoves
  BY <1>0, <1>2, AnswerMovesData
<1>3. ASSUME \/ \E j \in Jobs : ForgetRecord(j) \/ ForgetWatermark(j)
             \/ Dispatch \/ Maintain \/ Crash \/ \E x \in Executions : DeliverAbort(x) \/ LoseAbort(x)
      PROVE  DataMoves
  <2>1. UNCHANGED <<wire, recon, stored, puts>>
    BY <1>3
       DEF ForgetRecord, ForgetWatermark, Dispatch, Maintain, Crash, DeliverAbort, LoseAbort,
           CoordinatorStep, WorkerStep, NodeStep, r2Vars
  <2>. QED
    BY <1>0, <2>1, DataRests DEF DataMoves
<1>4. ASSUME NEW x \in Executions, RequestNext(x)
      PROVE  DataMoves
  <2>1. UNCHANGED <<recon, stored, puts>> /\ wire' \subseteq wire
    BY <1>4
       DEF RequestNext, HandleActivate, HandleBeat, RefuseBeat, HandleBegin, HandleResolve, r2Vars
  <2>. QED
    BY <1>0, <2>1, DataRests DEF DataMoves
<1>5. ASSUME NEW x \in Executions, ActivationNext(x)
      PROVE  DataMoves
  <2>1. UNCHANGED <<recon, stored, puts>> /\ wire' \subseteq wire \cup {Request(x, "activate")}
    BY <1>5
       DEF ActivationNext, DeliverActivation, FailActivation, InstallActivation,
           AbandonActivation, NodeStep, r2Vars
  <2>2. \A y \in Executions : Request(y, "succeed") \in wire' => Request(y, "succeed") \in wire
    BY <2>1, RequestKinds
  <2>. QED
    BY <1>0, <2>1, <2>2, DataRests DEF DataMoves
<1>6. ASSUME NEW x \in Executions, WorkerNext(x)
      PROVE  DataMoves
  BY <1>0, <1>6, WorkerMovesData
<1>7. ASSUME NEW r \in wire, LoseRequest(r)
      PROVE  DataMoves
  BY <1>0, <1>7, DataRests DEF LoseRequest, r2Vars, DataMoves
<1>8. ASSUME NEW p \in puts, Land(p) \/ Vanish(p)
      PROVE  DataMoves
  BY <1>0, <1>8, PutMovesData
<1>9. DataMoves
  BY <1>1, <1>2, <1>3, <1>4, <1>5, <1>6, <1>7, <1>8 DEF Next
<1>10. TableMoves /\ UNCHANGED now
  BY <1>0, EveryStepMovesRows
<1>11. \A x \in Executions : Steady(x)
  BY EveryStepMovesNode DEF NodeInv, CancelInv, NodeMoves
<1>. QED
  BY <1>9, <1>10, <1>11 DEF DataMoves, PublicationMoves

-----------------------------------------------------------------------------
(* The invariant of publications.                                          *)

\* While time passes nothing is overdue.
LEMMA PassKeepsPublications ==
    ASSUME NodeInv, PublicationInv, Pass
    PROVE  PublicationInv'
<1>0. /\ UNCHANGED <<jobs, exec, recon, wire, stored, puts>> /\ now' = now + 1
      /\ \A x \in Executions : exec[x].due = 0 \/ now < exec[x].due
      /\ \A p \in puts : now < p.by
  BY DEF Pass, Tick, nodeVars, r2Vars
<1>1. /\ now \in Nat \ {0} /\ \A j \in Jobs : jobs[j].lease \in Int
      /\ exec \in [Executions -> Execution] /\ puts \subseteq Put
  BY RowColumns DEF NodeInv, Inv, SlotInv, PublicationInv, DataOK
<1>2. /\ \A x \in Executions : /\ Publishes(x)' = Publishes(x) /\ InFlight(x)' = InFlight(x)
                               /\ Publishing(x)' = Publishing(x) /\ Readable(x)' = Readable(x)
                               /\ Quiet(x)' = Quiet(x)
      /\ \A j \in Jobs : Forsaken(j)' = Forsaken(j)
  BY <1>0 DEF Publishes, InFlight, Publishing, Readable, Quiet, Forsaken
<1>3. DataOK' /\ CommittedFirst' /\ Announced' /\ MissingIsForsaken' /\ SuccessIsWhole'
  <2>1. DataOK'
    BY <1>0 DEF PublicationInv, DataOK
  <2>2. CommittedFirst'
    BY <1>0, <1>2 DEF PublicationInv, CommittedFirst
  <2>3. Announced'
    BY <1>0, <1>2 DEF PublicationInv, Announced
  <2>4. MissingIsForsaken' /\ SuccessIsWhole'
    BY <1>0, <1>2 DEF PublicationInv, MissingIsForsaken, SuccessIsWhole
  <2>. QED
    BY <2>1, <2>2, <2>3, <2>4
<1>4. Timed'
  <2>1. ASSUME NEW x \in Executions, exec[x].phase \in PublicationPhases \cup {"begin"}
        PROVE  now + 1 <= exec[x].due
    <3>1. exec[x].due \in Nat /\ now <= exec[x].due
      BY <1>1, <2>1 DEF PublicationInv, Timed, Execution
    <3>. QED
      BY <1>0, <1>1, <3>1
  <2>2. ASSUME NEW x \in Executions, exec[x].phase = "begin"
        PROVE  exec[x].due <= now + 1 + REQUEST_TIMEOUT
    <3>1. exec[x].due \in Nat /\ exec[x].due <= now + REQUEST_TIMEOUT
      BY <1>1, <2>2 DEF PublicationInv, Timed, Execution
    <3>. QED
      BY <1>1, <3>1, NodeAssumption
  <2>3. \A p \in puts : now + 1 <= p.by
    BY <1>0, <1>1 DEF Put
  <2>. QED
    BY <1>0, <2>1, <2>2, <2>3 DEF Timed
<1>5. Bounded'
  BY <1>0, <1>2 DEF PublicationInv, Bounded
<1>6. Asked'
  <2>1. ASSUME NEW j \in Jobs, jobs[j].state = "publishing",
               jobs[j].generation = recon[j].generation
        PROVE  /\ jobs[j].lease + SETTLEMENT <= now + 1
               /\ recon[j].answer = "missing" => stored[j].primary = 0
    BY <1>1, <2>1, TimingAssumption DEF PublicationInv, Asked, Publishing
  <2>. QED
    BY <1>0, <2>1 DEF Asked, Publishing
<1>. QED
  BY <1>3, <1>4, <1>5, <1>6 DEF PublicationInv

\* In the initial state nothing is published.
LEMMA PublicationInit ==
    ASSUME Init
    PROVE  PublicationInv
<1>1. /\ recon = [j \in Jobs |-> NoReconciliation] /\ puts = {} /\ wire = {}
      /\ stored = [j \in Jobs |-> [primary |-> 0, sidecar |-> 0]]
      /\ exec = [x \in Executions |-> Idle]
      /\ \A j \in Jobs : jobs[j].state = "unborn" /\ jobs[j].reason = "none"
  BY DEF Init, StoreInit, NoRow
<1>2. /\ NoReconciliation \in Reconciliation /\ NoReconciliation.generation = 0
      /\ NoReconciliation.answer = "none"
  BY LimitAssumption DEF NoReconciliation, Reconciliation, Answers
<1>3. \A x \in Executions : exec[x].phase = "none" /\ ~Publishes(x) /\ InFlight(x) = {}
  BY <1>1, Records, PhaseSets DEF Publishes, InFlight
<1>4. DataOK
  BY <1>1, <1>2 DEF DataOK
<1>5. CommittedFirst
  BY <1>1, <1>2, <1>3, ExecutionPairs DEF CommittedFirst
<1>6. Announced /\ Timed /\ Bounded
  BY <1>1, <1>2, <1>3, PhaseSets, ExecutionPairs DEF Announced, Timed, Bounded, Publishing
<1>7. Asked
  BY <1>1 DEF Asked, Publishing
<1>8. MissingIsForsaken /\ SuccessIsWhole
  BY <1>1 DEF MissingIsForsaken, SuccessIsWhole
<1>. QED
  BY <1>4, <1>5, <1>6, <1>7, <1>8 DEF PublicationInv

\* It holds in every reachable state.
LEMMA PublicationInvariance == Spec => [](NodeInv /\ PublicationInv)
<1>1. Init => NodeInv /\ PublicationInv
  BY NodeInit, PublicationInit
<1>2. NodeInv /\ PublicationInv /\ [Next]_vars => (NodeInv /\ PublicationInv)'
  <2> SUFFICES ASSUME NodeInv, PublicationInv, [Next]_vars
               PROVE  NodeInv' /\ PublicationInv'
    OBVIOUS
  <2>1. NodeInv'
    BY NodeInvStep
  <2>2. CASE Next /\ ~Pass
    BY <2>1, <2>2, EveryStepMovesPublications, PublicationsKept
  <2>3. CASE Pass
    BY <2>1, <2>3, PassKeepsPublications
  <2>4. CASE UNCHANGED vars
    <3>1. UNCHANGED <<now, jobs, exec, recon, wire, stored, puts>>
      BY <2>4 DEF vars, storeVars, nodeVars, r2Vars
    <3>2. /\ \A x \in Executions : /\ Publishes(x)' = Publishes(x) /\ InFlight(x)' = InFlight(x)
                                   /\ Publishing(x)' = Publishing(x) /\ Readable(x)' = Readable(x)
                                   /\ Quiet(x)' = Quiet(x)
          /\ \A j \in Jobs : Forsaken(j)' = Forsaken(j)
          /\ \A j \in Jobs : Publishing(<<j, recon[j].generation>>)' = Publishing(<<j, recon[j].generation>>)
      BY <3>1 DEF Publishes, InFlight, Publishing, Readable, Quiet, Forsaken
    <3>3. DataOK' /\ CommittedFirst' /\ Announced'
      BY <3>1, <3>2 DEF PublicationInv, DataOK, CommittedFirst, Announced
    <3>4. Timed' /\ Bounded' /\ Asked'
      BY <3>1, <3>2 DEF PublicationInv, Timed, Bounded, Asked
    <3>5. MissingIsForsaken' /\ SuccessIsWhole'
      BY <3>1, <3>2 DEF PublicationInv, MissingIsForsaken, SuccessIsWhole
    <3>. QED
      BY <2>1, <3>3, <3>4, <3>5 DEF PublicationInv
  <2>. QED
    BY <2>2, <2>3, <2>4
<1>. QED
  BY <1>1, <1>2, PTL DEF Spec

-----------------------------------------------------------------------------
(* Theorems about what becomes public.                                     *)

\* beginPublishingDurableScanJob comes before the first PUT: a report is public,
\* or may become so, only for the execution its row is committed to, whichever
\* calls are lost, repeated or answered late.
THEOREM OnlyCommittedIsPublished == Spec => []PublishedOnlyByCommitted
<1>1. NodeInv /\ PublicationInv => PublishedOnlyByCommitted
  <2> SUFFICES ASSUME PublicationInv, NEW j \in Jobs, NEW g \in Generations,
                      stored[j].primary = g \/ InFlight(<<j, g>>) # {}
               PROVE  Committed(jobs[j], g)
    BY DEF PublishedOnlyByCommitted, Committed
  <2>1. PICK x \in Executions : x = <<j, g>>
    BY DEF Executions
  <2>2. Committed(jobs[x[1]], x[2])
    BY <2>1 DEF PublicationInv, CommittedFirst
  <2>. QED
    BY <2>1, <2>2
<1>. QED
  BY <1>1, PublicationInvariance, PTL

\* resolveDurableScanJob and the reconciliation's answer: a job that succeeded
\* has both its objects, and they are those of the execution that owned it.
THEOREM SuccessIsReadable == Spec => []SucceededIsReadable
<1>1. NodeInv /\ PublicationInv => SucceededIsReadable
  BY DEF PublicationInv, SuccessIsWhole, Whole, SucceededIsReadable
<1>. QED
  BY <1>1, PublicationInvariance, PTL

\* The settlement window of a publication: no PUT of a worker that was given up
\* lands after its job was declared unpublished.
THEOREM DeclaredMissingStaysMissing == Spec => []MissingStaysMissing
<1>1. NodeInv /\ PublicationInv => MissingStaysMissing
  <2> SUFFICES ASSUME PublicationInv, NEW j \in Jobs, jobs[j].reason = "publication-missing"
               PROVE  stored[j].primary = 0 /\ \A g \in Generations : InFlight(<<j, g>>) = {}
    BY DEF MissingStaysMissing
  <2>1. Forsaken(j)
    BY DEF PublicationInv, MissingIsForsaken
  <2>2. ASSUME NEW g \in Generations
        PROVE  InFlight(<<j, g>>) = {}
    <3>1. PICK x \in Executions : x = <<j, g>>
      BY DEF Executions
    <3>2. InFlight(x) = {}
      BY <2>1, <3>1 DEF Forsaken, Quiet
    <3>. QED
      BY <3>1, <3>2
  <2>. QED
    BY <2>1, <2>2 DEF Forsaken
<1>. QED
  BY <1>1, PublicationInvariance, PTL
=============================================================================
