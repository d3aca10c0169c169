----------------------- MODULE OrchestratorRefinement -----------------------
(***************************************************************************)
(* The orchestrator implements IncidentLifecycle: the phase of an incident *)
(* is read off the stage of the one goroutine that works on it.            *)
(***************************************************************************)
EXTENDS Orchestrator

WorksOn(g, i) == Active(g) /\ job[g] = i

PhaseOf(g) ==
  CASE pc[g] \in {"report", "freeSlot", "release"} ->
         IF applied[g] # "no" /\ told[g] = "none" THEN "changed" ELSE "closing"
    [] pc[g] = "applying" -> "changing"
    [] OTHER -> IF applied[g] # "no" THEN "changed"
                ELSE IF Authorised(g) THEN "cleared" ELSE "deciding"

phaseOfIncident ==
  [i \in Incidents |->
     IF \E g \in Goroutines : WorksOn(g, i)
     THEN PhaseOf(CHOOSE g \in Goroutines : WorksOn(g, i))
     ELSE "idle"]

Lifecycle == INSTANCE IncidentLifecycle WITH phase <- phaseOfIncident

\* One remediation per incident at a time, at most one change in each, made
\* only once cleared and always accounted for.
ImplementsLifecycle == Lifecycle!Spec
=============================================================================
