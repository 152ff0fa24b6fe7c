------------------------------ MODULE MCPumpTurn ------------------------------
(* Jobs that are published or queued beside each other, for TLC. *)
EXTENDS PumpTurn

MCJobs == {1, 2}
MCRuns == [j \in MCJobs |-> 1]
MCBackoff == <<1, 1, 2>>

\* Ids are interchangeable: they are admitted in their order, and early enough for
\* the clock to reach what becomes of them.  Their deadlines may differ by a tick.
InOrder ==
    \A j \in Jobs : /\ jobs[j].created <= 2
                    /\ \A k \in Jobs : j < k /\ jobs[k].state # "unborn" => jobs[j].state # "unborn"
=============================================================================
