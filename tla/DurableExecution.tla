--------------------------- MODULE DurableExecution ---------------------------
(***************************************************************************)
(* The life of a durable scan job across the three places it is split      *)
(* over:                                                                   *)
(*                                                                         *)
(*   the coordinator  the Durable Object of cloudflare/container-worker.ts *)
(*                    with its table (DurableScanJobStore), its pump and   *)
(*                    its public DELETE;                                   *)
(*   the Node worker  src/lib/scan-jobs.ts in the scan container, which    *)
(*                    executes leases and loses everything in a crash;     *)
(*   the report store R2, where an aborted PUT may still land.             *)
(*                                                                         *)
(* They talk over calls whose request or reply can be lost, and whose      *)
(* request can be applied after the caller stopped waiting, or crashed.    *)
(* An execution is a pair of a job and the generation of its lease.        *)
(***************************************************************************)
EXTENDS DurableScanJobStore, Sequences

CONSTANTS
    MAX_CONCURRENT_SCANS,   \* execution slots of the Node process
    REQUEST_TIMEOUT,        \* Node's bound on one call to the coordinator
    PUT_LAG                 \* how long after its abort a PUT may still land

ASSUME NodeAssumption ==
    /\ MAX_CONCURRENT_SCANS \in Nat \ {0}
    /\ REQUEST_TIMEOUT \in Nat \ {0}
    /\ PUT_LAG \in Nat

\* A lease that is granted or renewed outlives the call that asked for it.
ASSUME RenewalAssumption == REQUEST_TIMEOUT < LEASE

\* A publication is over, and the last PUT it can have sent has landed or not,
\* before its lease and settlement window end.
ASSUME SettlementAssumption ==
    /\ PUBLICATION_TIMEOUT <= LEASE
    /\ REQUEST_TIMEOUT + PUT_LAG < SETTLEMENT

VARIABLES
    handed,     \* executions whose activation is on its way to Node
    aborts,     \* executions whose cancellation is on its way to Node
    recon,      \* the pump's open reconciliation of each job
    exec,       \* what Node does for each execution
    local,      \* generation of the job's record in Node's map, 0 if none
    watermark,  \* newest generation Node was told is cancelled, 0 if none
    queue,      \* executions waiting for a slot, oldest first
    wire,       \* Node's requests the coordinator has not handled
    stored,     \* the generation whose primary and sidecar R2 holds, 0 if none
    puts        \* PUTs that may still land

nodeVars == <<exec, local, watermark, queue>>
r2Vars == <<stored, puts>>
vars == <<storeVars, handed, aborts, recon, nodeVars, wire, r2Vars>>

-----------------------------------------------------------------------------
(* Executions.                                                             *)

Executions == Jobs \X Generations

PublicationPhases == {"primary", "sidecar", "readback"}
RunningPhases == {"scan", "begin"} \cup PublicationPhases
WorkerPhases == RunningPhases \cup {"resolve"}

\* An execution without a worker is "none", "activating", "queued" or "ended";
\* answer is the coordinator's answer to the call the execution awaits; due is
\* when Node's own timer ends what it awaits, 0 if it has none.
Idle == [phase |-> "none", aborted |-> FALSE, reserved |-> FALSE, answer |-> "none", due |-> 0]

In(phase) == [Idle EXCEPT !.phase = phase]
Until(phase, due) == [Idle EXCEPT !.phase = phase, !.due = due]

Request(x, kind) == [execution |-> x, kind |-> kind]

\* A worker that was told to stop is aborted; it goes on, visiting included, until
\* its work observes the signal (StopAborted).  Live leaves it out, AtWork does not.
Runs(x) == exec[x].phase \in WorkerPhases /\ ~exec[x].aborted
Live(x) == exec[x].phase \in RunningPhases /\ ~exec[x].aborted
AtWork(x) == exec[x].phase \in RunningPhases \cup {"queued"}

\* Slots taken by running workers and by reserved activations.
Busy(e) ==
    {x \in Executions : \/ e[x].phase \in WorkerPhases
                        \/ e[x].phase = "activating" /\ e[x].reserved}

\* kickScanJobWorkers: the oldest queued executions take the free slots.
Kick(e, q) ==
    LET taken == Earlier(MAX_CONCURRENT_SCANS - Cardinality(Busy(e)), Len(q))
        started == {q[i] : i \in 1..taken}
    IN /\ exec' = [x \in Executions |-> IF x \in started THEN In("scan") ELSE e[x]]
       /\ queue' = SubSeq(q, taken + 1, Len(q))

\* removeQueuedJobId: the first entry of x is cut out of the queue.
Dequeued(x) ==
    LET at == CHOOSE i \in 1..Len(queue) : queue[i] = x /\ \A k \in 1..(i - 1) : queue[k] # x
    IN IF \E i \in 1..Len(queue) : queue[i] = x
       THEN SubSeq(queue, 1, at - 1) \o SubSeq(queue, at + 1, Len(queue))
       ELSE queue

\* What is left of a finished execution: its record, while the map holds it.
Over(x) == IF local[x[1]] = x[2] THEN In("ended") ELSE Idle

\* Faulty: the slot of a worker that returns is offered to nobody.
LeaveSilently(x) ==
    /\ exec' = [exec EXCEPT ![x] = Over(x)]
    /\ UNCHANGED <<local, watermark, queue>>

\* The worker of x returns, and its slot goes to the queue.
Leave(x) ==
    /\ Kick([exec EXCEPT ![x] = Over(x)], queue)
    /\ UNCHANGED <<local, watermark>>

\* The worker of x calls the coordinator.
Call(x, kind, phase) ==
    /\ exec' = [exec EXCEPT ![x] = Until(phase, now + REQUEST_TIMEOUT)]
    /\ wire' = wire \cup {Request(x, kind)}
    /\ UNCHANGED <<storeVars, handed, aborts, recon, local, watermark, queue, r2Vars>>

-----------------------------------------------------------------------------
(* The coordinator: the public routes and the pump.                        *)

CoordinatorStep == UNCHANGED <<nodeVars, wire, r2Vars>>

Admission(j) ==
    /\ \/ PreflightAdmission(j)
       \/ \E created \in (now - MAX_AGE)..(now + MAX_LEAD) : AdmitDurableScanJob(j, created)
    /\ UNCHANGED <<handed, aborts, recon>> /\ CoordinatorStep

\* dispatchDurablePumpCore: the leases are claimed in one transaction and
\* their activations sent after it.
Dispatch ==
    /\ ClaimDurableScanJobs
    /\ handed' = handed \cup {<<j, jobs'[j].generation>> : j \in Claimed}
    /\ UNCHANGED <<aborts, recon>> /\ CoordinatorStep

\* A claim whose payload does not decrypt is failed instead of activated.
RejectPayload(j) ==
    /\ <<j, jobs[j].generation>> \in handed
    /\ ResolveDurableScanJob(j, jobs[j].generation, jobs[j].generation,
           [from |-> "leased", outcome |-> "failed", reason |-> "payload-invalid"])
    /\ handed' = handed \ {<<j, jobs[j].generation>>}
    /\ UNCHANGED <<aborts, recon>> /\ CoordinatorStep

\* The pump's expired-lease and deadline items, and its retention pass.
PumpRow(j) ==
    /\ \/ RequeueOrFailExpiredDurableScanJobLease(j, jobs[j].generation)
       \/ ExpireDurableScanJob(j)
    /\ UNCHANGED <<handed, aborts, recon>> /\ CoordinatorStep

Maintain ==
    /\ SettleSynchronizeAndPurge
    /\ UNCHANGED <<handed, aborts, recon>> /\ CoordinatorStep

\* cancelDurableJob: Node hears of it only if a lease was ever granted.
CancelDurableJob(j) ==
    /\ CancelDurableScanJob(j)
    /\ aborts' = aborts \cup (IF jobs[j].generation > 0 THEN {<<j, jobs[j].generation>>} ELSE {})
    /\ UNCHANGED <<handed, recon>> /\ CoordinatorStep

NoReconciliation == [generation |-> 0, answer |-> "none", due |-> 0]

\* The pump asks Node to read the bundle of an expired publication back.
AskReconciliation(j) ==
    /\ recon[j] = NoReconciliation
    /\ jobs[j].state = "publishing" /\ jobs[j].lease <= now /\ SettlementAt(jobs[j]) <= now
    /\ now < PurgeAt(jobs[j])
    /\ recon' = [recon EXCEPT ![j] =
                   [generation |-> jobs[j].generation, answer |-> "asked",
                    due |-> Earlier(now + RECONCILIATION_TIMEOUT, PurgeAt(jobs[j]))]]
    /\ UNCHANGED <<storeVars, handed, aborts>> /\ CoordinatorStep

\* The outcomes an answer allows now: one, or none when the row has moved on or
\* a retryable answer comes before the deadline.
Conclusions(j, answer) ==
    {r \in Reconciliations : /\ r.result = (IF answer = "retryable" THEN "expired" ELSE answer)
                             /\ ReconciliationAccepted(j, recon[j].generation, r)}

\* The pump takes the answer, or its own timeout, which is retryable.  The
\* retention pass shares the transaction, and a refused outcome rolls it back.
FinishReconciliation(j) ==
    /\ recon[j] # NoReconciliation
    /\ \E answer \in {recon[j].answer, "retryable"} \ {"asked"} :
          \/ \E r \in Conclusions(j, answer) :
                jobs' = Maintained([jobs EXCEPT ![j] = Terminalized(jobs[j], r.outcome, r.reason)])
          \/ Conclusions(j, answer) = {} /\ answer = "retryable" /\ jobs' = Maintained(jobs)
          \/ Conclusions(j, answer) = {} /\ answer # "retryable" /\ UNCHANGED jobs
    /\ recon' = [recon EXCEPT ![j] = NoReconciliation]
    /\ UNCHANGED <<now, handed, aborts>> /\ CoordinatorStep

\* The pump turn is aborted, or the Durable Object restarts, while it awaits.
AbandonReconciliation(j) ==
    /\ recon[j] # NoReconciliation
    /\ recon' = [recon EXCEPT ![j] = NoReconciliation]
    /\ UNCHANGED <<storeVars, handed, aborts>> /\ CoordinatorStep

-----------------------------------------------------------------------------
(* The coordinator handles Node's requests, each at the current generation *)
(* and token of its execution.                                             *)

\* Node's call returns, or its answer is lost.
Answered(x, phase, answer) ==
    /\ \/ /\ exec[x].phase = phase /\ exec[x].answer = "none"
          /\ exec' = [exec EXCEPT ![x].answer = answer]
       \/ UNCHANGED exec
    /\ UNCHANGED <<local, watermark, queue>>

\* Faulty: the execution is detached and its work goes on.
DetachedOnly(x) ==
    /\ exec' = [exec EXCEPT ![x] = IF exec[x].phase = "queued" THEN Over(x) ELSE exec[x]]
    /\ queue' = Dequeued(x)

\* fenceStaleDurableExecution, markCancelled and an abort signal: a queued
\* execution ends at once, a running one when its work observes the signal.
Abort(x) ==
    /\ exec' = [exec EXCEPT ![x] = IF exec[x].phase = "queued" THEN Over(x)
                                   ELSE [exec[x] EXCEPT !.aborted = TRUE]]
    /\ queue' = Dequeued(x)

Beating(x) == exec[x].phase = "queued" \/ Runs(x)

HandleActivate(x) ==
    /\ Request(x, "activate") \in wire
    /\ wire' = wire \ {Request(x, "activate")}
    /\ \/ /\ HeartbeatDurableScanJob(x[1], x[2], x[2], 0)
          /\ Answered(x, "activating", "accepted")
       \/ /\ ~HeartbeatAccepted(x[1], x[2], x[2])
          /\ UNCHANGED storeVars
          /\ Answered(x, "activating", "refused")
    /\ UNCHANGED <<handed, aborts, recon, r2Vars>>

HandleBeat(x) ==
    /\ Request(x, "beat") \in wire
    /\ wire' = wire \ {Request(x, "beat")}
    /\ HeartbeatDurableScanJob(x[1], x[2], x[2], 0)
    /\ UNCHANGED <<handed, aborts, recon, nodeVars, r2Vars>>

\* A refused heartbeat fences the execution that sent it.
RefuseBeat(x) ==
    /\ Request(x, "beat") \in wire
    /\ wire' = wire \ {Request(x, "beat")}
    /\ ~HeartbeatAccepted(x[1], x[2], x[2])
    /\ Beating(x)
    /\ Abort(x)
    /\ UNCHANGED <<storeVars, handed, aborts, recon, local, watermark, r2Vars>>

HandleBegin(x) ==
    /\ Request(x, "begin") \in wire
    /\ wire' = wire \ {Request(x, "begin")}
    /\ \/ /\ BeginPublishingDurableScanJob(x[1], x[2], x[2])
          /\ Answered(x, "begin", "accepted")
       \/ /\ ~BeginPublishingAccepted(x[1], x[2], x[2])
          /\ UNCHANGED storeVars
          /\ Answered(x, "begin", "refused")
    /\ UNCHANGED <<handed, aborts, recon, r2Vars>>

\* The answer to a resolution changes nothing Node still acts on.
HandleResolve(x) ==
    \/ /\ Request(x, "succeed") \in wire
       /\ wire' = wire \ {Request(x, "succeed")}
       /\ ResolveDurableScanJob(x[1], x[2], x[2],
              [from |-> "publishing", outcome |-> "succeeded", reason |-> "none"])
       /\ UNCHANGED <<handed, aborts, recon, nodeVars, r2Vars>>
    \/ /\ Request(x, "fail") \in wire
       /\ wire' = wire \ {Request(x, "fail")}
       /\ ResolveDurableScanJob(x[1], x[2], x[2],
              [from |-> "leased", outcome |-> "failed", reason |-> "execution-failed"])
       /\ UNCHANGED <<handed, aborts, recon, nodeVars, r2Vars>>

\* A request never arrives, or is refused and the answer changes nothing.
LoseRequest(r) ==
    /\ r \in wire
    /\ wire' = wire \ {r}
    /\ UNCHANGED <<storeVars, handed, aborts, recon, nodeVars, r2Vars>>

-----------------------------------------------------------------------------
(* Node: activation.                                                       *)

NodeStep == UNCHANGED <<storeVars, recon, r2Vars>>

\* activateDurableScanJob up to its heartbeat: a stale or cancelled lease, or
\* one that finds no free slot, is refused before it calls the coordinator.
DeliverActivation(x) ==
    LET j == x[1] IN
    /\ x \in handed
    /\ watermark[j] < x[2] /\ local[j] < x[2]
    /\ local[j] = 0 => Cardinality(Busy(exec)) < MAX_CONCURRENT_SCANS
    /\ handed' = handed \ {x}
    /\ exec' = [exec EXCEPT ![x] = [Until("activating", now + REQUEST_TIMEOUT)
                                      EXCEPT !.reserved = (local[j] = 0)]]
    /\ wire' = wire \cup {Request(x, "activate")}
    /\ UNCHANGED <<aborts, local, watermark, queue>> /\ NodeStep

\* The activation is lost, refused by Node, or fails before it is sent.
FailActivation(x) ==
    /\ x \in handed
    /\ handed' = handed \ {x}
    /\ UNCHANGED <<aborts, nodeVars, wire>> /\ NodeStep

\* Faulty: the older execution of the job is not superseded.
NotSuperseded(j, e) == e

\* supersedeDurableRecord: the job's older execution gives way.
Superseded(j, e) ==
    [y \in Executions |->
        IF y[1] # j \/ y[2] # local[j] THEN e[y]
        ELSE IF e[y].phase \in WorkerPhases THEN [e[y] EXCEPT !.aborted = TRUE]
        ELSE Idle]

\* Faulty: the cancellation watermark is not read again after the heartbeat.
InstallableBeforeTheCall(x) ==
    /\ local[x[1]] < x[2]
    /\ local[x[1]] = 0 /\ ~exec[x].reserved => Cardinality(Busy(exec)) < MAX_CONCURRENT_SCANS

Installable(x) ==
    /\ watermark[x[1]] < x[2]
    /\ local[x[1]] < x[2]
    /\ local[x[1]] = 0 /\ ~exec[x].reserved => Cardinality(Busy(exec)) < MAX_CONCURRENT_SCANS

\* The heartbeat was accepted: everything is checked again, then the record
\* is installed and a slot kicked.
InstallActivation(x) ==
    LET j == x[1]
        others == IF local[j] = 0 THEN queue ELSE Dequeued(<<j, local[j]>>)
    IN
    /\ exec[x].phase = "activating" /\ exec[x].answer = "accepted"
    /\ Installable(x)
    /\ local' = [local EXCEPT ![j] = x[2]]
    /\ Kick([Superseded(j, exec) EXCEPT ![x] = In("queued")], Append(others, x))
    /\ UNCHANGED <<handed, aborts, watermark, wire>> /\ NodeStep

\* The call failed or timed out, the lease is stale, or a check now fails.
AbandonActivation(x) ==
    /\ exec[x].phase = "activating"
    /\ exec[x].answer = "accepted" => ~Installable(x)
    /\ Kick([exec EXCEPT ![x] = Idle], queue)
    /\ UNCHANGED <<handed, aborts, local, watermark, wire>> /\ NodeStep

-----------------------------------------------------------------------------
(* Node: the worker of an execution.                                       *)

WorkerStep == UNCHANGED <<handed, aborts>> /\ NodeStep

\* The heartbeat timer fires, whatever the worker is doing.
Beat(x) ==
    /\ Beating(x)
    /\ wire' = wire \cup {Request(x, "beat")}
    /\ UNCHANGED nodeVars /\ WorkerStep

\* The visits are over: the report is prepared and its publication announced,
\* or the failure reported.
EndScan(x) ==
    /\ exec[x].phase = "scan" /\ ~exec[x].aborted
    /\ Call(x, "begin", "begin") \/ Call(x, "fail", "resolve")

\* The publication clock starts when the coordinator's answer arrives.  A PUT
\* may land until PUT_LAG after the moment Node would abort it.
Commit(x) ==
    LET limit == now + PUBLICATION_TIMEOUT IN
    /\ exec' = [exec EXCEPT ![x] = Until("primary", limit)]
    /\ puts' = puts \cup {[execution |-> x, part |-> "primary", by |-> limit + PUT_LAG]}
    /\ UNCHANGED <<storeVars, handed, aborts, recon, local, watermark, queue, wire, stored>>

\* Faulty: the outcome of the transition need not be known.
PublishUnlessRefused(x) ==
    /\ exec[x].phase = "begin" /\ ~exec[x].aborted /\ exec[x].answer # "refused"
    /\ Commit(x) \/ Call(x, "fail", "resolve")

\* The store may refuse before its first write, for want of room; Node then
\* reports a failure, although the row is publishing by now.
BeginPublication(x) ==
    /\ exec[x].phase = "begin" /\ ~exec[x].aborted /\ exec[x].answer = "accepted"
    /\ Commit(x) \/ Call(x, "fail", "resolve")

\* A refusal fences the execution; an unknown answer leaves the row to the
\* pump's reconciliation.  Either way the worker returns without publishing.
LeaveUnpublished(x) ==
    /\ exec[x].phase = "begin" /\ exec[x].answer # "accepted"
    /\ Leave(x)
    /\ UNCHANGED wire /\ WorkerStep

InFlight(x) == {p \in puts : p.execution = x}

\* Faulty: the report is announced before its sidecar is written.
ResolveWithoutSidecar(x) ==
    /\ exec[x].phase = "primary" /\ ~exec[x].aborted
    /\ stored[x[1]].primary = x[2] /\ InFlight(x) = {}
    /\ Call(x, "succeed", "resolve")

\* commitPreparedScanReportBundle: the report first, then its sidecar, both
\* create-only and both under the same deadline.
WriteSidecar(x) ==
    /\ exec[x].phase = "primary" /\ ~exec[x].aborted
    /\ stored[x[1]].primary = x[2] /\ InFlight(x) = {}
    /\ exec' = [exec EXCEPT ![x].phase = "sidecar"]
    /\ puts' = puts \cup {[execution |-> x, part |-> "sidecar", by |-> exec[x].due + PUT_LAG]}
    /\ UNCHANGED <<storeVars, handed, aborts, recon, local, watermark, queue, wire, stored>>

Published(x) ==
    /\ exec[x].phase = "sidecar" /\ ~exec[x].aborted
    /\ stored[x[1]].sidecar = x[2] /\ InFlight(x) = {}
    /\ Call(x, "succeed", "resolve")

\* A write failed, or only seemed to: the store is read back.
CommitFails(x) ==
    /\ exec[x].phase \in {"primary", "sidecar"} /\ ~exec[x].aborted
    /\ exec' = [exec EXCEPT ![x].phase = "readback"]
    /\ UNCHANGED <<local, watermark, queue, wire>> /\ WorkerStep

\* The report is there: its sidecar is repaired, and the job has succeeded.
ReadBackFinds(x) ==
    /\ exec[x].phase = "readback" /\ ~exec[x].aborted
    /\ stored[x[1]].primary = x[2]
    /\ stored' = [stored EXCEPT ![x[1]].sidecar = x[2]]
    /\ exec' = [exec EXCEPT ![x] = Until("resolve", now + REQUEST_TIMEOUT)]
    /\ wire' = wire \cup {Request(x, "succeed")}
    /\ UNCHANGED <<storeVars, handed, aborts, recon, local, watermark, queue, puts>>

\* The read-back found nothing, or failed, or the publication timed out: the
\* outcome is unknown, and Node detaches from the job.
LeaveUnknown(x) ==
    /\ \/ exec[x].phase = "readback"
       \/ exec[x].phase \in PublicationPhases /\ exec[x].due = now
    /\ Leave(x)
    /\ UNCHANGED wire /\ WorkerStep

\* The resolution was answered, lost or timed out.
EndResolve(x) ==
    /\ exec[x].phase = "resolve"
    /\ Leave(x)
    /\ UNCHANGED wire /\ WorkerStep

StopAborted(x) ==
    /\ exec[x].phase \in WorkerPhases /\ exec[x].aborted
    /\ Leave(x)
    /\ UNCHANGED wire /\ WorkerStep

-----------------------------------------------------------------------------
(* Node: cancellation, reconciliation, retention and crashes.              *)

\* cancelDurableScanJobGeneration: the watermark is raised whether or not the
\* record is there, and a record of this generation or an older one aborted.
DeliverAbort(x) ==
    LET j == x[1]
        y == <<j, local[j]>>
    IN
    /\ x \in aborts
    /\ aborts' = aborts \ {x}
    /\ watermark' = [watermark EXCEPT ![j] = IF @ < x[2] THEN x[2] ELSE @]
    /\ IF local[j] \in 1..x[2] /\ (exec[y].phase = "queued" \/ Live(y))
       THEN Abort(y) ELSE UNCHANGED <<exec, queue>>
    /\ UNCHANGED <<handed, local, wire>> /\ NodeStep

LoseAbort(x) ==
    /\ x \in aborts
    /\ aborts' = aborts \ {x}
    /\ UNCHANGED <<handed, nodeVars, wire>> /\ NodeStep

\* reconcilePreparedScanReportBundle
Found(j) ==
    IF stored[j].primary = recon[j].generation THEN "succeeded"
    ELSE IF stored[j].primary = 0 /\ stored[j].sidecar = 0 THEN "missing"
    ELSE "integrity-failed"

\* Node reads the bundle back and repairs a missing sidecar, or cannot.
AnswerReconciliation(j) ==
    /\ recon[j].answer = "asked"
    /\ \/ /\ recon' = [recon EXCEPT ![j].answer = Found(j)]
          /\ stored' = IF Found(j) = "succeeded"
                       THEN [stored EXCEPT ![j].sidecar = recon[j].generation] ELSE stored
       \/ /\ recon' = [recon EXCEPT ![j].answer = "retryable"]
          /\ UNCHANGED stored
    /\ UNCHANGED <<storeVars, handed, aborts, nodeVars, wire, puts>>

\* The five-minute retention of a finished or fenced record; of a watermark,
\* which outlives every activation that was waiting when it was recorded.
ForgetRecord(j) ==
    LET x == <<j, local[j]>> IN
    /\ local[j] # 0
    /\ exec[x].phase = "ended" \/ exec[x].aborted
    /\ local' = [local EXCEPT ![j] = 0]
    /\ exec' = [exec EXCEPT ![x] = IF exec[x].phase = "ended" THEN Idle ELSE exec[x]]
    /\ UNCHANGED <<watermark, queue, wire>> /\ WorkerStep

ForgetWatermark(j) ==
    /\ watermark[j] # 0
    /\ \A g \in Generations : exec[<<j, g>>].phase # "activating"
    /\ watermark' = [watermark EXCEPT ![j] = 0]
    /\ UNCHANGED <<exec, local, queue, wire>> /\ WorkerStep

\* The container dies; its requests, and its PUTs, may still arrive.
Crash ==
    /\ exec' = [x \in Executions |-> Idle]
    /\ local' = [j \in Jobs |-> 0]
    /\ watermark' = [j \in Jobs |-> 0]
    /\ queue' = <<>>
    /\ UNCHANGED wire /\ WorkerStep

-----------------------------------------------------------------------------
(* The report store: every PUT is create-only.                             *)

Land(p) ==
    LET j == p.execution[1] IN
    /\ p \in puts
    /\ puts' = puts \ {p}
    /\ stored' = IF stored[j][p.part] = 0 THEN [stored EXCEPT ![j][p.part] = p.execution[2]]
                                          ELSE stored
    /\ UNCHANGED <<storeVars, handed, aborts, recon, nodeVars, wire>>

Vanish(p) ==
    /\ p \in puts
    /\ puts' = puts \ {p}
    /\ UNCHANGED <<storeVars, handed, aborts, recon, nodeVars, wire, stored>>

\* Time passes while nothing that a timer bounds is overdue.
Pass ==
    /\ \A x \in Executions : exec[x].due = 0 \/ now < exec[x].due
    /\ \A j \in Jobs : recon[j].due = 0 \/ now < recon[j].due
    /\ \A p \in puts : now < p.by
    /\ Tick
    /\ UNCHANGED <<handed, aborts, recon, nodeVars, wire, r2Vars>>

-----------------------------------------------------------------------------
Init ==
    /\ StoreInit
    /\ handed = {} /\ aborts = {} /\ wire = {} /\ puts = {} /\ queue = <<>>
    /\ recon = [j \in Jobs |-> NoReconciliation]
    /\ exec = [x \in Executions |-> Idle]
    /\ local = [j \in Jobs |-> 0]
    /\ watermark = [j \in Jobs |-> 0]
    /\ stored = [j \in Jobs |-> [primary |-> 0, sidecar |-> 0]]

CoordinatorNext(j) ==
    \/ Admission(j) \/ RejectPayload(j) \/ PumpRow(j) \/ CancelDurableJob(j)
    \/ AskReconciliation(j) \/ FinishReconciliation(j) \/ AbandonReconciliation(j)

RequestNext(x) ==
    HandleActivate(x) \/ HandleBeat(x) \/ RefuseBeat(x) \/ HandleBegin(x) \/ HandleResolve(x)

ActivationNext(x) ==
    DeliverActivation(x) \/ FailActivation(x) \/ InstallActivation(x) \/ AbandonActivation(x)

WorkerNext(x) ==
    \/ Beat(x) \/ EndScan(x) \/ BeginPublication(x) \/ LeaveUnpublished(x)
    \/ WriteSidecar(x) \/ Published(x) \/ CommitFails(x) \/ ReadBackFinds(x)
    \/ LeaveUnknown(x) \/ EndResolve(x) \/ StopAborted(x)

Next ==
    \/ \E j \in Jobs : CoordinatorNext(j) \/ AnswerReconciliation(j)
                         \/ ForgetRecord(j) \/ ForgetWatermark(j)
    \/ Dispatch \/ Maintain \/ Crash \/ Pass
    \/ \E x \in Executions : \/ RequestNext(x) \/ ActivationNext(x) \/ WorkerNext(x)
                             \/ DeliverAbort(x) \/ LoseAbort(x)
    \/ \E r \in wire : LoseRequest(r)
    \/ \E p \in puts : Land(p) \/ Vanish(p)

Spec == Init /\ [][Next]_vars

\* What the platform and the code owe the system, and no more: time passes;
\* the Durable Object's alarm keeps running pump turns; Node's own timers end
\* what they bound, and an abort signal ends the work it is given to; a worker
\* keeps its heartbeat timer; and the network does not lose every heartbeat.
PumpTurn(j) == PumpRow(j) \/ AskReconciliation(j) \/ FinishReconciliation(j)

NodeTimers(x) ==
    \/ AbandonActivation(x) \/ InstallActivation(x) \/ BeginPublication(x)
    \/ LeaveUnpublished(x) \/ LeaveUnknown(x) \/ EndResolve(x) \/ StopAborted(x)

PutSettles(x) == \E p \in InFlight(x) : Land(p) \/ Vanish(p)

Fairness ==
    /\ WF_vars(Pass) /\ WF_vars(Maintain)
    /\ \A j \in Jobs : WF_vars(PumpTurn(j))
    /\ \A x \in Executions :
          /\ WF_vars(NodeTimers(x)) /\ WF_vars(PutSettles(x))
          /\ WF_vars(Beat(x)) /\ SF_vars(RefuseBeat(x))

FairSpec == Spec /\ Fairness

-----------------------------------------------------------------------------
(* What must hold of the system.                                           *)

\* A report becomes public, or may still become so, only for the execution the
\* coordinator committed: never for a job that is waiting or may run again,
\* that was cancelled, or that failed without publishing.
PublishedOnlyByCommitted ==
    \A j \in Jobs : \A g \in Generations :
        stored[j].primary = g \/ InFlight(<<j, g>>) # {} =>
            /\ jobs[j].state \notin {"unborn", "queued", "leased", "cancelled"}
            /\ jobs[j].state # "gone" => jobs[j].generation = g
            /\ jobs[j].reason \notin {"execution-failed", "restart-limit", "payload-invalid"}

\* Whoever is told that a job succeeded can read its report: both objects are
\* stored, and they are those of the execution that owned the job.
SucceededIsReadable ==
    \A j \in Jobs :
        jobs[j].state = "succeeded" =>
            stored[j] = [primary |-> jobs[j].generation, sidecar |-> jobs[j].generation]

\* A job declared unpublished stays so: no PUT of a worker that was given up
\* lands after the coordinator told the submitter that nothing was published.
MissingStaysMissing ==
    \A j \in Jobs :
        jobs[j].reason = "publication-missing" =>
            stored[j].primary = 0 /\ \A g \in Generations : InFlight(<<j, g>>) = {}

\* Two executions of a job may be at work at once: the replacement starts while
\* the worker it supersedes still visits, for Node can only signal it to stop.
\* But the older one has then been told: beside a newer execution of its job none
\* waits for a slot, and none visits or publishes that is not already stopping.
OlderGivesWay ==
    \A j \in Jobs : \A g, h \in Generations :
        g < h /\ AtWork(<<j, g>>) /\ AtWork(<<j, h>>) => exec[<<j, g>>].aborted

\* Node never runs more scans than it has slots, and no wake-up is lost: a queued
\* execution waits only while every slot is taken by a worker, which may be an
\* aborted one, or by an activation that will give it back.
NoIdleSlot ==
    /\ Cardinality({x \in Executions : exec[x].phase \in WorkerPhases}) <= MAX_CONCURRENT_SCANS
    /\ queue # <<>> => Cardinality(Busy(exec)) >= MAX_CONCURRENT_SCANS

\* A cancellation Node was told of sticks, although the answer to an older
\* heartbeat may arrive after it: nothing it covers is waiting, and whatever
\* still works has been told to stop.
CancelledStaysDown ==
    \A x \in Executions :
        x[2] <= watermark[x[1]] => ~Live(x) /\ exec[x].phase # "queued"

\* Every accepted job ends, whatever is lost or crashes, even if every single
\* reconciliation is cut short: no submitter polls a job forever.  (Nothing is
\* asked of a job whose purge the clock of the checked instance never reaches.)
EveryJobEnds ==
    \A j \in Jobs :
        Nonterminal(jobs[j]) /\ PurgeAt(jobs[j]) <= Horizon ~> ~Nonterminal(jobs[j])

\* No execution keeps visiting a target for a job that has an outcome, or that was
\* granted again: its own heartbeat fences it even when the cancellation never
\* reached it, and what was told to stop is counted until it does.
NoZombieVisit ==
    \A x \in Executions :
        (Terminal(jobs[x[1]]) \/ x[2] < jobs[x[1]].generation) /\ exec[x].phase \in RunningPhases
            ~> exec[x].phase \notin RunningPhases
=============================================================================
