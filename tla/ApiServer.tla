----------------------------- MODULE ApiServer -----------------------------
(***************************************************************************)
(* The handlers of the web API that change something, as one process runs  *)
(* them: saves of integration settings and turns of a switch, on one store *)
(* and one audit log, with the process's start, its end and its restart.   *)
(***************************************************************************)
EXTENDS Settings, ControlPlane

Events == [id : Saves \union Toggles, outcome : Positions \union {"saved"}]

ASSUME EventsAssumption ==
  Nothing # Garbage /\ {Nothing, Garbage} \intersect Events = {}

vars == <<settingsVars, controlVars, auditVars>>

Init == AuditInit /\ SettingsInit /\ ControlInit

\* A handler that was past the switch leaves no event.
Crash ==
  /\ process # "down" /\ process' = "down"
  /\ handler' = Stopped
  /\ toggle' = ToggleStopped
  /\ told' = (told /\ Unrecorded = {})
  /\ UNCHANGED <<category, masterKey, store, row, running, late, alone, misled,
                 clean, switch, auditVars>>

Next ==
  \/ \E s \in Saves : HandleSave(s) /\ UNCHANGED controlVars
  \/ \E t \in Toggles : /\ process = "serving" /\ HandleToggle(t)
                        /\ UNCHANGED settingsVars
  \/ ServeLate /\ UNCHANGED controlVars
  \/ RestartDiagnoser /\ UNCHANGED controlVars
  \/ EnsureMasterKey /\ UNCHANGED controlVars
  \/ Start /\ StartControl
  \/ Crash

Spec == Init /\ [][Next]_vars

\* Every variable has its type.
TypeOK == SettingsTypeOK /\ ControlTypeOK /\ opened \in 0..MaxStarts
=============================================================================
