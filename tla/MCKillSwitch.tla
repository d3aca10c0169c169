---------------------------- MODULE MCKillSwitch ----------------------------
(* The orchestrator with the kill switch's history, under the scheduler's  *)
(* fairness, next to the abstract lifecycle it implements.                 *)
EXTENDS KillSwitch, OrchestratorRefinement

KFairSpec == KSpec /\ Fairness
=============================================================================
