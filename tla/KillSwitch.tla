----------------------------- MODULE KillSwitch -----------------------------
(***************************************************************************)
(* How much the kill switch stops.  The orchestrator reads the switch and  *)
(* then calls Apply, so the switch can be engaged between the two.  Two    *)
(* history variables count what gets through: exposed is the number of     *)
(* pipelines that had passed the last check when the switch was engaged,   *)
(* late the number of Apply calls begun since, counted up to one more than *)
(* there are workers, which is enough to tell whether there are too many.  *)
(***************************************************************************)
EXTENDS Orchestrator

VARIABLES exposed, late

kvars == <<vars, exposed, late>>

PastLastCheck == {g \in Goroutines : pc[g] = "apply"}

KInit == Init /\ exposed = 0 /\ late = 0

\* An operator (or a restart with the switch configured on) engages it.
Engage ==
  /\ ~kill /\ Next /\ kill'
  /\ exposed' = Cardinality(PastLastCheck')
  /\ late' = 0

Disengaged ==
  /\ Next /\ ~kill'
  /\ exposed' = 0 /\ late' = 0

LateApply ==
  /\ kill /\ \E g \in Goroutines : ApplyCall(g)
  /\ late' = IF late > MaxWorkers THEN late ELSE late + 1
  /\ UNCHANGED exposed

WhileEngaged ==
  /\ kill /\ Next /\ kill'
  /\ \A g \in PastLastCheck : pc'[g] # "applying"
  /\ UNCHANGED <<exposed, late>>

KNext == Engage \/ Disengaged \/ LateApply \/ WhileEngaged

KSpec == KInit /\ [][KNext]_kvars

\* After the switch is engaged, at most the pipelines caught between the last
\* check and their Apply call still apply, each once, and there are never more
\* of them than workers.
LateAppliesBounded == late <= exposed /\ exposed <= MaxWorkers
=============================================================================
