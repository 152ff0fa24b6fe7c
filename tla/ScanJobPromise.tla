--------------------------- MODULE ScanJobPromise ---------------------------
(***************************************************************************)
(* What the durable queue promises about one accepted scan job, whatever   *)
(* crashes, retries and lost answers happen underneath:                    *)
(*                                                                         *)
(*   - an accepted job stays pending through at most MaxTries executions,  *)
(*     until it either ends or commits to publish;                         *)
(*   - the commitment names one execution, is made once, and nothing else  *)
(*     may execute afterwards: no retry and no cancellation;               *)
(*   - success is possible only out of that commitment;                    *)
(*   - an outcome never changes; the record is forgotten later, and a      *)
(*     forgotten job is never accepted again.                              *)
(*                                                                         *)
(* The state is a function from jobs to promises, and one step may move    *)
(* several jobs (a claim, a purge), each along its own allowed path.       *)
(***************************************************************************)
EXTENDS Naturals

CONSTANTS Jobs, MaxTries

VARIABLE promise

Outcomes == {"succeeded", "failed", "expired", "cancelled"}

Unborn == [phase |-> "unborn", tries |-> 0, publisher |-> 0, verdict |-> "none"]
Forgotten == [phase |-> "forgotten", tries |-> 0, publisher |-> 0, verdict |-> "none"]
Pending(tries) == [phase |-> "pending", tries |-> tries, publisher |-> 0, verdict |-> "none"]
Committed(tries) ==
    [phase |-> "committed", tries |-> tries, publisher |-> tries, verdict |-> "none"]
Settled(tries, verdict) ==
    [phase |-> "settled", tries |-> tries, publisher |-> 0, verdict |-> verdict]

Accept(p, q) == p = Unborn /\ q = Pending(0)

Try(p, q) ==
    \E t \in 0..(MaxTries - 1) : p = Pending(t) /\ q = Pending(t + 1)

\* Only an execution that was started can commit, and it names itself.
Commit(p, q) ==
    \E t \in 1..MaxTries : p = Pending(t) /\ q = Committed(t)

Abandon(p, q) ==
    \E t \in 0..MaxTries, v \in Outcomes \ {"succeeded"} :
        p = Pending(t) /\ q = Settled(t, v)

Conclude(p, q) ==
    \E t \in 1..MaxTries, v \in Outcomes \ {"cancelled"} :
        p = Committed(t) /\ q = Settled(t, v)

\* Deletion.  At the retention horizon a job that never ended is expired and
\* deleted in one step, so deletion is allowed from every accepted phase.
Forget(p, q) == p.phase \notin {"unborn", "forgotten"} /\ q = Forgotten

Evolves(p, q) ==
    Accept(p, q) \/ Try(p, q) \/ Commit(p, q) \/ Abandon(p, q) \/ Conclude(p, q) \/ Forget(p, q)

Init == promise = [j \in Jobs |-> Unborn]

Next ==
    /\ promise' = [j \in Jobs |-> promise'[j]]
    /\ \A j \in Jobs : promise'[j] = promise[j] \/ Evolves(promise[j], promise'[j])

Spec == Init /\ [][Next]_promise
=============================================================================
