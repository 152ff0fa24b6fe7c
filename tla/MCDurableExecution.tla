-------------------------- MODULE MCDurableExecution --------------------------
(* One job with two executions, through every timing of crashes, lost calls and
   late PUTs, on two Node slots and on one. *)
EXTENDS DurableExecution

MCJobs == {1}
MCRuns == [j \in MCJobs |-> 1]

\* Its job is admitted at the start: a later admission is the same behaviour on a clock that stops sooner.
AdmittedFirst == \A j \in Jobs : jobs[j].created <= 1 /\ (now > 1 => jobs[j].state # "unborn")
=============================================================================
