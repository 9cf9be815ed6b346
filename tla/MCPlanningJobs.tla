--------------------------- MODULE MCPlanningJobs ---------------------------
(* PlanningJobs for TLC. *)
EXTENDS PlanningJobs

CONSTANT w1

\* Workers are interchangeable: the one that keeps polling may be w1.
MCFairSpec == Spec /\ WF_vars(Tick) /\ WF_vars(Work(w1))
=============================================================================
