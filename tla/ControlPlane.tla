---------------------------- MODULE ControlPlane ----------------------------
(***************************************************************************)
(* A switch of the control plane, turned from the web page: the kill       *)
(* switch (handleKillSwitch), and in the same way the apply-enabled switch *)
(* (handleSetSafety).  A handler reads the old position, sets the new one, *)
(* records the event and answers, each by itself; the position is in       *)
(* memory, and a restart sets it from the configuration without an event.  *)
(***************************************************************************)
EXTENDS AuditLog

CONSTANTS
  Toggles,        \* requests to turn the switch
  AtStart         \* its configured position, one of Positions

Positions == {"engaged", "disengaged"}

ASSUME AtStartAssumption == AtStart \in Positions

VARIABLES
  switch,      \* orch.kill
  toggle,      \* each request: its step, the position asked for, the old one
  told         \* history: the log tells the switch, as far as anybody caused

controlVars == <<switch, toggle, told>>

ToggleIdle == [step |-> "idle", to |-> AtStart, prev |-> AtStart]
ToggleSteps == {"idle", "read", "set", "record", "answered"}

ControlInit ==
  /\ switch = AtStart
  /\ toggle = [t \in Toggles |-> ToggleIdle]
  /\ told = TRUE

ToggleAt(t, from, to) ==
  toggle[t].step = from /\ toggle' = [toggle EXCEPT ![t].step = to]

\* Toggles past the switch and before the log.
Unrecorded == {t \in Toggles : toggle[t].step = "record"}

PostToggle(t) ==
  /\ toggle[t].step = "idle"
  /\ \E p \in Positions :
       toggle' = [toggle EXCEPT ![t] = [@ EXCEPT !.step = "read", !.to = p]]
  /\ UNCHANGED <<switch, told, auditVars>>

ReadSwitch(t) ==
  /\ toggle[t].step = "read"
  /\ toggle' = [toggle EXCEPT ![t] = [@ EXCEPT !.step = "set", !.prev = switch]]
  /\ UNCHANGED <<switch, told, auditVars>>

SetSwitch(t) ==
  /\ ToggleAt(t, "set", "record")
  /\ switch' = toggle[t].to
  /\ told' = (Unrecorded = {})
  /\ UNCHANGED auditVars

BugOldPosition(t) == toggle[t].prev
EventOutcome(t) == toggle[t].to

RecordToggle(t) ==
  /\ ToggleAt(t, "record", "answered")
  /\ Record([id |-> t, outcome |-> EventOutcome(t)])
  /\ told' = (told /\ lines' # lines /\ Last(lines') # Garbage)
  /\ UNCHANGED switch

HandleToggle(t) == PostToggle(t) \/ ReadSwitch(t) \/ SetSwitch(t) \/ RecordToggle(t)

\* The handlers are gone with the process.
ToggleStopped == [t \in Toggles |-> IF toggle[t].step = "idle" THEN toggle[t]
                                    ELSE [toggle[t] EXCEPT !.step = "answered"]]

StartControl ==
  /\ switch' = AtStart
  /\ told' = (told /\ switch = AtStart)
  /\ UNCHANGED toggle

-----------------------------------------------------------------------------
(* Properties.                                                             *)

\* Every variable has its type.
ControlTypeOK ==
  /\ switch \in Positions
  /\ toggle \in [Toggles -> [step : ToggleSteps, to : Positions, prev : Positions]]
  /\ told \in BOOLEAN

LastPosition ==
  LET turns == {n \in Query : Contents[n].outcome \in Positions}
  IN  IF turns = {} THEN AtStart ELSE Contents[Max(turns)].outcome

\* Whoever reads the log sees the position of the switch in its last event,
\* while no request is between the switch and the log: unless two were there at
\* once, the event was not written, or a restart turned the switch.
AuditTellsSwitch == Unrecorded = {} /\ told => LastPosition = switch
=============================================================================
