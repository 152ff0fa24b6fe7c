------------------------ MODULE MCDurableScanJobStore ------------------------
(* Three jobs compete for two rows and one execution slot, on a clock that
   runs past the purge of a job admitted at the start. *)
EXTENDS DurableScanJobStore

MCJobs == {1, 2, 3}
MCTotalRuns == [j \in MCJobs |-> IF j = 1 THEN 2 ELSE 1]

\* Ids are admitted in their order, and the first before time passes: a later start
\* is the same behaviour on a shorter clock.
InOrder ==
    /\ now > 1 => jobs[1].state # "unborn"
    /\ \A j, k \in Jobs : j < k /\ jobs[k].state # "unborn" => jobs[j].state # "unborn"
=============================================================================
