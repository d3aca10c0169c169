--------------------------- MODULE MCOrchestrator ---------------------------
(* An instance of the orchestrator for TLC.                                *)
EXTENDS Orchestrator, TLC

Symmetry == Permutations(Goroutines) \union Permutations(Incidents)
=============================================================================
