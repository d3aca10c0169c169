-------------------------- MODULE IncidentLifecycle --------------------------
(***************************************************************************)
(* What the orchestrator promises about each incident, without goroutines, *)
(* queues, registry or semaphore: an incident is remediated by one pipeline *)
(* at a time, a change is attempted at most once per remediation and only  *)
(* after it was cleared, and a remediation that attempted a change ends    *)
(* only after its result was accounted for.  At most MaxWorkers incidents  *)
(* are being remediated.                                                   *)
(***************************************************************************)
EXTENDS Integers, FiniteSets

CONSTANTS Incidents, MaxWorkers

VARIABLE phase

Phases == {"idle", "deciding", "cleared", "changing", "changed", "closing"}

Busy == {i \in Incidents : phase[i] \notin {"idle", "closing"}}

Init == phase = [i \in Incidents |-> "idle"]

Move(i, from, to) == phase[i] = from /\ phase' = [phase EXCEPT ![i] = to]

Begin(i)   == Cardinality(Busy) < MaxWorkers /\ Move(i, "idle", "deciding")
Clear(i)   == Move(i, "deciding", "cleared")
Change(i)  == Move(i, "cleared", "changing")
Changed(i) == Move(i, "changing", "changed")
\* A remediation may be given up while nothing was attempted.
GiveUp(i)  == Move(i, "deciding", "closing") \/ Move(i, "cleared", "closing")
Account(i) == Move(i, "changed", "closing")
End(i)     == Move(i, "closing", "idle")
Die        == phase' = [i \in Incidents |-> "idle"]

Next == \/ Die
        \/ \E i \in Incidents : \/ Begin(i) \/ Clear(i) \/ Change(i)
                                \/ Changed(i) \/ GiveUp(i) \/ Account(i)
                                \/ End(i)

Spec == Init /\ [][Next]_phase
=============================================================================
