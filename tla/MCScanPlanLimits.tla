-------------------------- MODULE MCScanPlanLimits --------------------------
(* The table of MCScanPlan, planned with channels of one, as on a machine   *)
(* that does not tell its parallelism, and with larger ones.                *)
EXTENDS MCScanPlan

One == INSTANCE ScanPlan WITH Limit <- 1

VARIABLE limit   \* concurrency limit of this plan

LimitsInit == Init /\ limit \in {1, Limit}

LimitsNext ==
  /\ \/ limit = 1 /\ One!Next
     \/ limit = Limit /\ Next
  /\ UNCHANGED limit

\* The fairness of ScanPlan!FairSpec.
LimitsSpec == LimitsInit /\ [][LimitsNext]_<<vars, limit>> /\ WF_<<vars, limit>>(LimitsNext)

\* At either limit a plan ends unless a wakeup is lost or the delete consumer
\* waits to report its error behind others, both in plan_files (scan/mod.rs):
\* delete manifests listed after data manifests, a failed consumer, a full
\* channel between two stages or tasks that fill the caller's channel never
\* block the tasks on each other.
EndsAtEachLimit ==
  /\ limit = 1 => One!EndsUnlessOvertaken
  /\ limit = Limit => EndsUnlessOvertaken
=============================================================================
