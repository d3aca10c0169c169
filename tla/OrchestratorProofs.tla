------------------------- MODULE OrchestratorProofs -------------------------
(***************************************************************************)
(* Theorems about the orchestrator, for every number of incidents,         *)
(* goroutines, workers and every size of the events channel: its           *)
(* invariants, what gets past an engaged kill switch, and the refinement   *)
(* of the incident lifecycle.                                              *)
(***************************************************************************)
EXTENDS KillSwitch, OrchestratorRefinement, FiniteSetTheorems, TLAPS

-----------------------------------------------------------------------------
(* Type correctness.                                                       *)

LEMMA InitTypeOK == Init => TypeOK
<1> SUFFICES ASSUME Init PROVE TypeOK
  OBVIOUS
<1>1. events \in Seq(Event) /\ Len(events) <= EventBufSize
  <2>1. events = <<>>  BY DEF Init
  <2>2. <<>> \in Seq(Event) /\ Len(<<>>) = 0  OBVIOUS
  <2> QED  BY <2>1, <2>2, EventBufAssumption
<1>2. /\ pc \in [Goroutines -> Maybe(Stages)]
      /\ job \in [Goroutines -> Maybe(Incidents)]
      /\ verdict \in [Goroutines -> Maybe(Verdicts)]
      /\ decision \in [Goroutines -> Maybe(Decisions)]
  BY DEF Init, Maybe
<1>3. /\ dryRun \in [Goroutines -> BOOLEAN]
      /\ applied \in [Goroutines -> {"no", "error", "ok"}]
      /\ outcome \in [Goroutines -> Maybe(Outcomes)]
      /\ told \in [Goroutines -> Maybe(Messages)]
  BY DEF Init, Maybe
<1>4. /\ proc \in {"up", "down"}
      /\ loop \in {"select", "acquire", "stopped"}
      /\ pending \in Maybe(Incidents) /\ inFlight \subseteq Incidents
      /\ sem \in Int
  BY SMT DEF Init, Maybe
<1>5. /\ ctxDone \in BOOLEAN
      /\ kill \in BOOLEAN /\ applyEnabled \in BOOLEAN
  BY CfgAssumption, Zenon DEF Init
<1> QED
  BY <1>1, <1>2, <1>3, <1>4, <1>5 DEF TypeOK

\* What a stage that moves a goroutine on does to the types.
LEMMA GotoTypeOK ==
  ASSUME TypeOK, NEW g \in Goroutines, NEW from, NEW to \in Stages,
         Goto(g, from, to),
         verdict' \in [Goroutines -> Maybe(Verdicts)],
         decision' \in [Goroutines -> Maybe(Decisions)],
         dryRun' \in [Goroutines -> BOOLEAN],
         applied' \in [Goroutines -> {"no", "error", "ok"}],
         outcome' \in [Goroutines -> Maybe(Outcomes)],
         told' \in [Goroutines -> Maybe(Messages)]
  PROVE  TypeOK'
  BY DEF TypeOK, Goto, procVars, loopVars, switches, Maybe

LEMMA FreeSlotTypeOK ==
  ASSUME TypeOK, NEW g \in Goroutines, FreeSlot(g)
  PROVE  TypeOK'
<1>1. "release" \in Stages  BY DEF Stages
<1>2. sem' \in Int /\ pc' \in [Goroutines -> Maybe(Stages)]
  BY <1>1 DEF FreeSlot, SlotFreed, TypeOK, Maybe
<1>3. UNCHANGED <<procVars, loopVars, inFlight, switches, job, locals>>
  BY DEF FreeSlot
<1> QED
  BY <1>2, <1>3 DEF TypeOK, procVars, loopVars, switches, locals

LEMMA PipelineTypeOK ==
  ASSUME TypeOK, NEW g \in Goroutines, Pipeline(g)
  PROVE  TypeOK'
<1> USE DEF Maybe, Verdicts, Decisions, Outcomes, Messages
<1> DEFINE LocalsOK ==
      /\ verdict' \in [Goroutines -> Maybe(Verdicts)]
      /\ decision' \in [Goroutines -> Maybe(Decisions)]
      /\ dryRun' \in [Goroutines -> BOOLEAN]
      /\ applied' \in [Goroutines -> {"no", "error", "ok"}]
      /\ outcome' \in [Goroutines -> Maybe(Outcomes)]
      /\ told' \in [Goroutines -> Maybe(Messages)]
<1>0. ASSUME UNCHANGED locals PROVE LocalsOK
  BY <1>0 DEF TypeOK, locals
<1>1. CASE Diagnose(g)
  <2>1. LocalsOK  BY <1>0, <1>1 DEF Diagnose
  <2>2. \E to \in Stages : Goto(g, "diagnose", to)
    BY <1>1 DEF Diagnose, Stages
  <2> QED  BY <2>1, <2>2, GotoTypeOK
<1>2. CASE Decide(g)
  <2>1. LocalsOK  BY <1>2 DEF Decide, TypeOK
  <2>2. \E to \in Stages : Goto(g, "decide", to)
    BY <1>2 DEF Decide, Stages, AfterVerdict
  <2> QED  BY <2>1, <2>2, GotoTypeOK
<1>3. CASE NotifyBlocked(g)
  <2>1. LocalsOK  BY <1>3 DEF NotifyBlocked, TypeOK
  <2>2. Goto(g, "blocked", "report") /\ "report" \in Stages
    BY <1>3 DEF NotifyBlocked, Stages
  <2> QED  BY <2>1, <2>2, GotoTypeOK
<1>4. CASE AwaitApproval(g)
  <2>1. LocalsOK  BY <1>4 DEF AwaitApproval, TypeOK
  <2>2. \E to \in Stages : Goto(g, "await", to)
    BY <1>4 DEF AwaitApproval, Stages, AfterDecision
  <2> QED  BY <2>1, <2>2, GotoTypeOK
<1>5. CASE ApprovalError(g)
  <2>1. LocalsOK  BY <1>0, <1>5 DEF ApprovalError
  <2>2. Goto(g, "await", "report") /\ "report" \in Stages
    BY <1>5 DEF ApprovalError, Stages
  <2> QED  BY <2>1, <2>2, GotoTypeOK
<1>6. CASE NotifyRejected(g)
  <2>1. LocalsOK  BY <1>6 DEF NotifyRejected, TypeOK
  <2>2. Goto(g, "rejected", "report") /\ "report" \in Stages
    BY <1>6 DEF NotifyRejected, Stages
  <2> QED  BY <2>1, <2>2, GotoTypeOK
<1>7. CASE KillCheck(g)
  <2>1. LocalsOK  BY <1>0, <1>7 DEF KillCheck
  <2>2. \E to \in Stages : Goto(g, "kill1", to)
    BY <1>7 DEF KillCheck, Stages
  <2> QED  BY <2>1, <2>2, GotoTypeOK
<1>8. CASE Build(g)
  <2>1. LocalsOK  BY <1>8 DEF Build, TypeOK
  <2>2. \E to \in Stages : Goto(g, "build", to)
    BY <1>8 DEF Build, Stages
  <2> QED  BY <2>1, <2>2, GotoTypeOK
<1>9. CASE DryRun(g)
  <2>1. LocalsOK  BY <1>0, <1>9 DEF DryRun
  <2>2. \E to \in Stages : Goto(g, "dryrun", to)
    BY <1>9 DEF DryRun, Stages
  <2> QED  BY <2>1, <2>2, GotoTypeOK
<1>10. CASE ApplyGate(g)
  <2>1. LocalsOK  BY <1>0, <1>10 DEF ApplyGate
  <2>2. \E to \in Stages : Goto(g, "gate", to)
    BY <1>10 DEF ApplyGate, Stages
  <2> QED  BY <2>1, <2>2, GotoTypeOK
<1>11. CASE KillRecheck(g)
  <2>1. LocalsOK  BY <1>0, <1>11 DEF KillRecheck
  <2>2. \E to \in Stages : Goto(g, "kill2", to)
    BY <1>11 DEF KillRecheck, Stages
  <2> QED  BY <2>1, <2>2, GotoTypeOK
<1>12. CASE ApplyCall(g)
  <2>1. LocalsOK  BY <1>0, <1>12 DEF ApplyCall
  <2>2. Goto(g, "apply", "applying") /\ "applying" \in Stages
    BY <1>12 DEF ApplyCall, Stages
  <2> QED  BY <2>1, <2>2, GotoTypeOK
<1>13. CASE ApplyReturn(g)
  <2>1. LocalsOK  BY <1>13 DEF ApplyReturn, TypeOK
  <2>2. \E to \in Stages : Goto(g, "applying", to)
    BY <1>13 DEF ApplyReturn, Stages
  <2> QED  BY <2>1, <2>2, GotoTypeOK
<1>14. CASE EscalateFailedApply(g)
  <2>1. LocalsOK  BY <1>14 DEF EscalateFailedApply, TypeOK
  <2>2. Goto(g, "applyFailed", "report") /\ "report" \in Stages
    BY <1>14 DEF EscalateFailedApply, Stages
  <2> QED  BY <2>1, <2>2, GotoTypeOK
<1>15. CASE Verify(g)
  <2>1. LocalsOK  BY <1>15 DEF Verify, TypeOK
  <2>2. Goto(g, "verify", "conclude") /\ "conclude" \in Stages
    BY <1>15 DEF Verify, Stages
  <2> QED  BY <2>1, <2>2, GotoTypeOK
<1>16. CASE Conclude(g)
  <2>1. LocalsOK  BY <1>16 DEF Conclude, FinalMessage, TypeOK
  <2>2. Goto(g, "conclude", "report") /\ "report" \in Stages
    BY <1>16 DEF Conclude, Stages
  <2> QED  BY <2>1, <2>2, GotoTypeOK
<1>17. CASE ReportOutcome(g)
  <2>1. LocalsOK  BY <1>0, <1>17 DEF ReportOutcome
  <2>2. Goto(g, "report", "freeSlot") /\ "freeSlot" \in Stages
    BY <1>17 DEF ReportOutcome, Stages
  <2> QED  BY <2>1, <2>2, GotoTypeOK
<1>18. CASE FreeSlot(g)
  BY <1>18, FreeSlotTypeOK
<1>19. CASE Release(g)
  BY <1>19 DEF Release, Unregistered, TypeOK, procVars, loopVars, switches
<1> QED
  BY <1>1, <1>2, <1>3, <1>4, <1>5, <1>6, <1>7, <1>8, <1>9, <1>10, <1>11,
     <1>12, <1>13, <1>14, <1>15, <1>16, <1>17, <1>18, <1>19 DEF Pipeline, Proceed

LEMMA NextTypeOK == TypeOK /\ [Next]_vars => TypeOK'
<1> SUFFICES ASSUME TypeOK, [Next]_vars PROVE TypeOK'
  OBVIOUS
<1> USE DEF procVars, loopVars, switches, locals, Maybe
<1>1. CASE UNCHANGED vars
  BY <1>1 DEF vars, TypeOK
<1>2. ASSUME NEW kind \in Kinds, NEW inc \in Incidents, Emit(kind, inc)
      PROVE  TypeOK'
  <2>1. events' \in Seq(Event) /\ Len(events') <= EventBufSize
    BY <1>2, EventBufAssumption DEF Emit, TypeOK, Event
  <2> QED  BY <1>2, <2>1 DEF Emit, TypeOK
<1>3. ASSUME NEW b \in BOOLEAN, SetKillSwitch(b) \/ SetApplyEnabled(b)
      PROVE  TypeOK'
  BY <1>3 DEF SetKillSwitch, SetApplyEnabled, TypeOK
<1>4. CASE Cancel
  BY <1>4 DEF Cancel, TypeOK
<1>5. CASE CleanExit \/ Crash
  <2>0. Terminate  BY <1>5 DEF CleanExit, Crash
  <2>1. events' \in Seq(Event) /\ Len(events') <= EventBufSize
    <3>1. events' = <<>>  BY <2>0 DEF Terminate
    <3>2. <<>> \in Seq(Event) /\ Len(<<>>) = 0  OBVIOUS
    <3> QED  BY <3>1, <3>2, EventBufAssumption
  <2>2. /\ pc' \in [Goroutines -> Maybe(Stages)]
        /\ job' \in [Goroutines -> Maybe(Incidents)]
        /\ verdict' \in [Goroutines -> Maybe(Verdicts)]
        /\ decision' \in [Goroutines -> Maybe(Decisions)]
    BY <2>0 DEF Terminate, Maybe
  <2>3. /\ dryRun' \in [Goroutines -> BOOLEAN]
        /\ applied' \in [Goroutines -> {"no", "error", "ok"}]
        /\ outcome' \in [Goroutines -> Maybe(Outcomes)]
        /\ told' \in [Goroutines -> Maybe(Messages)]
    BY <2>0 DEF Terminate, Maybe
  <2>4. /\ proc' \in {"up", "down"}
        /\ loop' \in {"select", "acquire", "stopped"}
        /\ pending' \in Maybe(Incidents) /\ inFlight' \subseteq Incidents
        /\ sem' \in Int
    BY <2>0, SMT DEF Terminate, Maybe
  <2>5. /\ ctxDone' \in BOOLEAN
        /\ kill' \in BOOLEAN /\ applyEnabled' \in BOOLEAN
    BY <2>0, CfgAssumption, Zenon DEF Terminate
  <2> QED
    BY <2>1, <2>2, <2>3, <2>4, <2>5 DEF TypeOK
<1>6. CASE Restart
  BY <1>6 DEF Restart, TypeOK
<1>7. CASE StopLoop
  BY <1>7 DEF StopLoop, TypeOK
<1>8. CASE ReceiveIgnored \/ ReceiveClosed
  <2>1. /\ events # <<>> /\ events' = Tail(events)
        /\ events \in Seq(Event) /\ Len(events) <= EventBufSize
    BY <1>8 DEF ReceiveIgnored, ReceiveClosed, TypeOK
  <2>2. events' \in Seq(Event) /\ Len(events') <= EventBufSize
    BY <2>1, EventBufAssumption
  <2>3. Head(events) \in Event
    BY <2>1
  <2>4. Head(events).inc \in Incidents
    BY <2>3 DEF Event
  <2> QED
    BY <1>8, <2>2, <2>4 DEF ReceiveIgnored, ReceiveClosed, TypeOK
<1>9. ASSUME NEW g \in Goroutines, Spawn(g)
      PROVE  TypeOK'
  BY <1>9 DEF Spawn, TypeOK, Stages
<1>10. CASE AbandonSchedule
  BY <1>10 DEF AbandonSchedule, Unregistered, TypeOK
<1>11. ASSUME NEW g \in Goroutines, Pipeline(g)
       PROVE  TypeOK'
  BY <1>11, PipelineTypeOK
<1> QED
  BY <1>1, <1>2, <1>3, <1>4, <1>5, <1>6, <1>7, <1>8, <1>9, <1>10, <1>11
     DEF Next, Environment, RunLoop

\* Every variable keeps its type and the channel its bound.
THEOREM TypeCorrect == Spec => []TypeOK
  BY InitTypeOK, NextTypeOK, PTL DEF Spec

-----------------------------------------------------------------------------
(* What the invariants below need to know of a step: every stage but the   *)
(* two of the deferred function only moves one goroutine on.               *)

LEMMA StageStep ==
  ASSUME NEW g \in Goroutines, Pipeline(g), ~FreeSlot(g), ~Release(g)
  PROVE  \E from \in Stages \ {"freeSlot", "release"},
            to \in Stages \ {"release"} : Goto(g, from, to)
<1> USE DEF Stages
<1>1. CASE Diagnose(g)  BY <1>1 DEF Diagnose
<1>2. CASE Decide(g)  BY <1>2 DEF Decide, AfterVerdict, Verdicts
<1>3. CASE NotifyBlocked(g) \/ NotifyRejected(g)
  BY <1>3 DEF NotifyBlocked, NotifyRejected
<1>4. CASE AwaitApproval(g) \/ ApprovalError(g)
  BY <1>4 DEF AwaitApproval, ApprovalError, AfterDecision
<1>5. CASE KillCheck(g) \/ KillRecheck(g)
  BY <1>5 DEF KillCheck, KillRecheck
<1>6. CASE Build(g) \/ DryRun(g) \/ ApplyGate(g)
  BY <1>6 DEF Build, DryRun, ApplyGate
<1>7. CASE ApplyCall(g) \/ ApplyReturn(g) \/ EscalateFailedApply(g)
  BY <1>7 DEF ApplyCall, ApplyReturn, EscalateFailedApply
<1>8. CASE Verify(g) \/ Conclude(g) \/ ReportOutcome(g)
  BY <1>8 DEF Verify, Conclude, ReportOutcome
<1> QED
  BY <1>1, <1>2, <1>3, <1>4, <1>5, <1>6, <1>7, <1>8 DEF Pipeline, Proceed

-----------------------------------------------------------------------------
(* The in-flight registry.  OnePipelinePerIncident is not inductive: it    *)
(* needs to know that whatever works on an incident is registered, the Run *)
(* loop's pending incident included.                                       *)

Registry ==
  /\ \A g \in Goroutines : Active(g) => job[g] \in inFlight
  /\ OnePipelinePerIncident
  /\ loop = "acquire" =>
       /\ pending \in inFlight
       /\ \A g \in Goroutines : Active(g) => job[g] # pending
  /\ \A i \in inFlight : \/ \E g \in Goroutines : Active(g) /\ job[g] = i
                         \/ loop = "acquire" /\ pending = i

LEMMA InitRegistry == Init => Registry
  BY DEF Init, Registry, OnePipelinePerIncident, Active

LEMMA NextRegistry == TypeOK /\ Registry /\ [Next]_vars => Registry'
<1> SUFFICES ASSUME TypeOK, Registry, [Next]_vars PROVE Registry'
  OBVIOUS
<1> USE DEF Registry, OnePipelinePerIncident, Active
<1>0. pc \in [Goroutines -> Maybe(Stages)] /\ job \in [Goroutines -> Maybe(Incidents)]
  BY DEF TypeOK
<1>1. ASSUME UNCHANGED <<loop, pending, inFlight, pc, job>>
      PROVE  Registry'
  BY <1>1
<1>2. CASE UNCHANGED vars
  BY <1>1, <1>2 DEF vars
<1>3. ASSUME NEW kind \in Kinds, NEW inc \in Incidents, Emit(kind, inc)
      PROVE  Registry'
  BY <1>1, <1>3 DEF Emit
<1>4. ASSUME NEW b \in BOOLEAN, SetKillSwitch(b) \/ SetApplyEnabled(b)
      PROVE  Registry'
  BY <1>1, <1>4 DEF SetKillSwitch, SetApplyEnabled, loopVars
<1>5. CASE Cancel \/ Restart
  BY <1>1, <1>5 DEF Cancel, Restart, loopVars
<1>6. CASE CleanExit \/ Crash
  BY <1>6 DEF CleanExit, Crash, Terminate
<1>7. CASE StopLoop
  BY <1>7 DEF StopLoop
<1>8. CASE ReceiveIgnored
  BY <1>1, <1>8 DEF ReceiveIgnored
<1>9. CASE ReceiveClosed
  BY <1>9 DEF ReceiveClosed, CanAcquire
<1>10. ASSUME NEW g \in Goroutines, Spawn(g)
       PROVE  Registry'
  <2>1. /\ pc[g] = "none" /\ loop = "acquire" /\ loop' = "select"
        /\ inFlight' = inFlight
        /\ \A h \in Goroutines : pc'[h] = IF h = g THEN "diagnose" ELSE pc[h]
        /\ \A h \in Goroutines : job'[h] = IF h = g THEN pending ELSE job[h]
    BY <1>0, <1>10 DEF Spawn
  <2> QED  BY <2>1
<1>11. CASE AbandonSchedule
  BY <1>11 DEF AbandonSchedule, Unregistered
<1>12. ASSUME NEW g \in Goroutines, Pipeline(g)
       PROVE  Registry'
  <2>1. CASE FreeSlot(g)
    <3>1. /\ UNCHANGED <<loop, pending, inFlight, job>>
          /\ pc[g] = "freeSlot"
          /\ \A h \in Goroutines : pc'[h] = IF h = g THEN "release" ELSE pc[h]
      BY <1>0, <2>1 DEF FreeSlot, loopVars
    <3> QED  BY <3>1
  <2>2. CASE Release(g)
    <3>1. /\ UNCHANGED <<loop, pending>>
          /\ inFlight' = inFlight \ {job[g]}
          /\ pc[g] = "release"
          /\ \A h \in Goroutines : pc'[h] = IF h = g THEN "none" ELSE pc[h]
          /\ \A h \in Goroutines : job'[h] = IF h = g THEN "none" ELSE job[h]
      BY <1>0, <2>2 DEF Release, Unregistered, loopVars
    <3> QED  BY <3>1
  <2>3. ASSUME NEW from \in Stages \ {"freeSlot", "release"},
               NEW to \in Stages \ {"release"}, Goto(g, from, to)
        PROVE  Registry'
    <3>1. /\ UNCHANGED <<loop, pending, inFlight, job>>
          /\ pc[g] # "none" /\ to # "none"
          /\ \A h \in Goroutines : pc'[h] = IF h = g THEN to ELSE pc[h]
      BY <1>0, <2>3 DEF Goto, loopVars, Stages
    <3> QED  BY <3>1
  <2> QED  BY <1>12, <2>1, <2>2, <2>3, StageStep
<1> QED
  BY <1>2, <1>3, <1>4, <1>5, <1>6, <1>7, <1>8, <1>9, <1>10, <1>11, <1>12
     DEF Next, Environment, RunLoop

LEMMA RegistryCorrect == Spec => [](TypeOK /\ Registry)
  BY InitTypeOK, NextTypeOK, InitRegistry, NextRegistry, PTL DEF Spec

\* Two pipelines never work on one incident.
THEOREM AtMostOnePipeline == Spec => []OnePipelinePerIncident
  BY RegistryCorrect, PTL DEF Registry

\* The registry is exactly what is running or waiting for a slot.
THEOREM RegistryExact == Spec => []InFlightExact
<1>1. TypeOK /\ Registry => InFlightExact
  BY DEF Registry, InFlightExact
<1> QED  BY <1>1, RegistryCorrect, PTL

-----------------------------------------------------------------------------
(* The semaphore.                                                          *)

Slots == /\ IsFiniteSet(Holders)
         /\ Cardinality(Holders) = sem
         /\ sem <= MaxWorkers

LEMMA InitSlots == Init => Slots
<1> SUFFICES ASSUME Init PROVE Slots
  OBVIOUS
<1>1. Holders = {}  BY DEF Init, Holders
<1>2. sem = 0  BY DEF Init
<1> QED  BY <1>1, <1>2, FS_EmptySet, MaxWorkersAssumption DEF Slots

LEMMA NextSlots == TypeOK /\ Slots /\ [Next]_vars => Slots'
<1> SUFFICES ASSUME TypeOK, Slots, [Next]_vars PROVE Slots'
  OBVIOUS
<1>0. pc \in [Goroutines -> Maybe(Stages)] /\ sem \in Int
  BY DEF TypeOK
<1>1. ASSUME Holders' = Holders, sem' = sem
      PROVE  Slots'
  BY <1>1 DEF Slots
<1>2. ASSUME UNCHANGED <<pc, sem>>
      PROVE  Slots'
  BY <1>1, <1>2 DEF Holders
<1>3. CASE UNCHANGED vars
  BY <1>2, <1>3 DEF vars
<1>4. ASSUME NEW kind \in Kinds, NEW inc \in Incidents, Emit(kind, inc)
      PROVE  Slots'
  BY <1>2, <1>4 DEF Emit
<1>5. ASSUME NEW b \in BOOLEAN, SetKillSwitch(b) \/ SetApplyEnabled(b)
      PROVE  Slots'
  BY <1>2, <1>5 DEF SetKillSwitch, SetApplyEnabled
<1>6. CASE Cancel \/ Restart
  BY <1>2, <1>6 DEF Cancel, Restart
<1>7. CASE CleanExit \/ Crash
  <2>1. Holders' = {} /\ sem' = 0
    BY <1>7 DEF CleanExit, Crash, Terminate, Holders
  <2> QED  BY <2>1, FS_EmptySet, MaxWorkersAssumption DEF Slots
<1>8. CASE StopLoop \/ ReceiveIgnored \/ ReceiveClosed \/ AbandonSchedule
  BY <1>2, <1>8 DEF StopLoop, ReceiveIgnored, ReceiveClosed, AbandonSchedule
<1>9. ASSUME NEW g \in Goroutines, Spawn(g)
      PROVE  Slots'
  <2>1. g \notin Holders /\ Holders' = Holders \union {g}
    BY <1>0, <1>9 DEF Spawn, Holders
  <2>2. sem' = sem + 1 /\ sem < MaxWorkers
    BY <1>9 DEF Spawn
  <2> QED
    BY <1>0, <2>1, <2>2, FS_AddElement, MaxWorkersAssumption DEF Slots
<1>10. ASSUME NEW g \in Goroutines, Pipeline(g)
       PROVE  Slots'
  <2>1. CASE FreeSlot(g)
    <3>1. g \in Holders /\ Holders' = Holders \ {g}
      BY <1>0, <2>1 DEF FreeSlot, Holders
    <3>2. sem' = sem - 1
      BY <2>1 DEF FreeSlot, SlotFreed
    <3> QED
      BY <1>0, <3>1, <3>2, FS_RemoveElement, MaxWorkersAssumption DEF Slots
  <2>2. CASE Release(g)
    <3>1. Holders' = Holders /\ sem' = sem
      BY <1>0, <2>2 DEF Release, Holders
    <3> QED  BY <1>1, <3>1
  <2>3. ASSUME NEW from \in Stages \ {"freeSlot", "release"},
               NEW to \in Stages \ {"release"}, Goto(g, from, to)
        PROVE  Slots'
    <3>1. Holders' = Holders /\ sem' = sem
      BY <1>0, <2>3 DEF Goto, Holders, Stages
    <3> QED  BY <1>1, <3>1
  <2> QED  BY <1>10, <2>1, <2>2, <2>3, StageStep
<1> QED
  BY <1>3, <1>4, <1>5, <1>6, <1>7, <1>8, <1>9, <1>10
     DEF Next, Environment, RunLoop

\* The semaphore counts the running pipelines and bounds them by MaxWorkers.
THEOREM WorkersBounded == Spec => []SlotsExact
<1>1. Slots => SlotsExact  BY DEF Slots, SlotsExact
<1> QED
  BY <1>1, InitTypeOK, NextTypeOK, InitSlots, NextSlots, PTL DEF Spec

-----------------------------------------------------------------------------
(* Authorisation and accounting: what each goroutine carries with it.      *)

BeforeApply == {"none", "diagnose", "decide", "blocked", "await", "rejected",
                "kill1", "build", "dryrun", "gate", "kill2", "apply",
                "applying"}
Cleared == {"kill1", "build", "dryrun", "gate", "kill2", "apply", "applying",
            "applyFailed", "verify", "conclude"}
Ended == {"report", "freeSlot", "release"}

Sound(g) ==
  /\ pc[g] \in BeforeApply => applied[g] = "no"
  /\ pc[g] = "applyFailed" => applied[g] = "error"
  /\ pc[g] \in {"verify", "conclude"} => applied[g] # "error"
  /\ pc[g] \in Cleared \/ applied[g] # "no" => Authorised(g)
  /\ pc[g] = "await" => verdict[g] = "REQUIRE_APPROVAL"
  /\ pc[g] \in Ended /\ applied[g] # "no" =>
       told[g] = IF applied[g] = "ok" /\ outcome[g] = "RECOVERED"
                 THEN "RECOVERED" ELSE "ESCALATED"

AllSound == \A g \in Goroutines : Sound(g)

LEMMA InitAllSound == Init => AllSound
  BY DEF Init, AllSound, Sound, Authorised, Cleared, Ended

\* A stage of one goroutine leaves what the others carry alone.
LEMMA OthersSound ==
  ASSUME TypeOK, AllSound, NEW g \in Goroutines, Sound(g)',
         \A h \in Goroutines \ {g} :
           /\ pc'[h] = pc[h] /\ applied'[h] = applied[h]
           /\ verdict'[h] = verdict[h] /\ decision'[h] = decision[h]
           /\ outcome'[h] = outcome[h] /\ told'[h] = told[h]
  PROVE  AllSound'
  BY DEF AllSound, Sound, Authorised

LEMMA PipelineSound ==
  ASSUME TypeOK, AllSound, NEW g \in Goroutines, Pipeline(g)
  PROVE  AllSound'
<1> DEFINE Others == \A h \in Goroutines \ {g} :
             /\ pc'[h] = pc[h] /\ applied'[h] = applied[h]
             /\ verdict'[h] = verdict[h] /\ decision'[h] = decision[h]
             /\ outcome'[h] = outcome[h] /\ told'[h] = told[h]
<1>0. Sound(g)  BY DEF AllSound
<1> SUFFICES Sound(g)' /\ Others
  BY OthersSound
<1> USE <1>0 DEF TypeOK, Sound, Authorised, BeforeApply, Cleared, Ended, Goto,
                 locals
<1>1. CASE Diagnose(g)  BY <1>1 DEF Diagnose
<1>2. CASE Decide(g)  BY <1>2 DEF Decide, AfterVerdict, Verdicts
<1>3. CASE NotifyBlocked(g)  BY <1>3 DEF NotifyBlocked
<1>4. CASE AwaitApproval(g)
  <2>1. PICK d \in Decisions :
               /\ Goto(g, "await", AfterDecision(d))
               /\ decision' = [decision EXCEPT ![g] = d]
    BY <1>4 DEF AwaitApproval
  <2>2. UNCHANGED <<verdict, applied, outcome, told>>
    BY <1>4 DEF AwaitApproval
  <2>3. CASE d = "APPROVED"
    <3>1. pc[g] = "await" /\ pc' = [pc EXCEPT ![g] = "kill1"]
      BY <2>1, <2>3 DEF AfterDecision
    <3>2. verdict[g] = "REQUIRE_APPROVAL"
      BY <3>1
    <3> QED  BY <2>1, <2>2, <2>3, <3>1, <3>2
  <2>4. CASE d # "APPROVED"
    BY <2>1, <2>2, <2>4 DEF AfterDecision
  <2> QED  BY <2>3, <2>4
<1>5. CASE ApprovalError(g)  BY <1>5 DEF ApprovalError
<1>6. CASE NotifyRejected(g)  BY <1>6 DEF NotifyRejected
<1>7. CASE KillCheck(g)  BY <1>7 DEF KillCheck
<1>8. CASE Build(g)  BY <1>8 DEF Build
<1>9. CASE DryRun(g)  BY <1>9 DEF DryRun
<1>10. CASE ApplyGate(g)  BY <1>10 DEF ApplyGate
<1>11. CASE KillRecheck(g)  BY <1>11 DEF KillRecheck
<1>12. CASE ApplyCall(g)  BY <1>12 DEF ApplyCall
<1>13. CASE ApplyReturn(g)  BY <1>13 DEF ApplyReturn
<1>14. CASE EscalateFailedApply(g)  BY <1>14 DEF EscalateFailedApply
<1>15. CASE Verify(g)  BY <1>15 DEF Verify
<1>16. CASE Conclude(g)  BY <1>16 DEF Conclude, FinalMessage
<1>17. CASE ReportOutcome(g)  BY <1>17 DEF ReportOutcome
<1>18. CASE FreeSlot(g)  BY <1>18 DEF FreeSlot
<1>19. CASE Release(g)  BY <1>19 DEF Release
<1> QED
  BY <1>1, <1>2, <1>3, <1>4, <1>5, <1>6, <1>7, <1>8, <1>9, <1>10, <1>11,
     <1>12, <1>13, <1>14, <1>15, <1>16, <1>17, <1>18, <1>19 DEF Pipeline, Proceed

LEMMA NextAllSound == TypeOK /\ AllSound /\ [Next]_vars => AllSound'
<1> SUFFICES ASSUME TypeOK, AllSound, [Next]_vars PROVE AllSound'
  OBVIOUS
<1> USE DEF procVars, loopVars, switches, locals
<1>1. ASSUME UNCHANGED <<pc, locals>>
      PROVE  AllSound'
  BY <1>1 DEF AllSound, Sound, Authorised
<1>2. CASE UNCHANGED vars
  BY <1>1, <1>2 DEF vars
<1>3. ASSUME NEW kind \in Kinds, NEW inc \in Incidents, Emit(kind, inc)
      PROVE  AllSound'
  BY <1>1, <1>3 DEF Emit
<1>4. ASSUME NEW b \in BOOLEAN, SetKillSwitch(b) \/ SetApplyEnabled(b)
      PROVE  AllSound'
  BY <1>1, <1>4 DEF SetKillSwitch, SetApplyEnabled
<1>5. CASE Cancel \/ Restart
  BY <1>1, <1>5 DEF Cancel, Restart
<1>6. CASE CleanExit \/ Crash
  <2>1. /\ pc' = [g \in Goroutines |-> "none"]
        /\ applied' = [g \in Goroutines |-> "no"]
    BY <1>6 DEF CleanExit, Crash, Terminate
  <2> QED  BY <2>1 DEF AllSound, Sound, Cleared, Ended
<1>7. CASE StopLoop \/ ReceiveIgnored \/ ReceiveClosed \/ AbandonSchedule
  BY <1>1, <1>7 DEF StopLoop, ReceiveIgnored, ReceiveClosed, AbandonSchedule
<1>8. ASSUME NEW g \in Goroutines, Spawn(g)
      PROVE  AllSound'
  <2>1. UNCHANGED locals /\ pc[g] = "none"
    BY <1>8 DEF Spawn
  <2>2. \A h \in Goroutines : pc'[h] = IF h = g THEN "diagnose" ELSE pc[h]
    BY <1>8 DEF Spawn, TypeOK
  <2> QED
    BY <2>1, <2>2 DEF AllSound, Sound, Authorised, BeforeApply, Cleared, Ended
<1>9. ASSUME NEW g \in Goroutines, Pipeline(g)
      PROVE  AllSound'
  BY <1>9, PipelineSound
<1> QED
  BY <1>2, <1>3, <1>4, <1>5, <1>6, <1>7, <1>8, <1>9
     DEF Next, Environment, RunLoop

LEMMA AllSoundCorrect == Spec => [](TypeOK /\ AllSound)
  BY InitTypeOK, NextTypeOK, InitAllSound, NextAllSound, PTL DEF Spec

\* Apply is only ever called, and has only ever been called, with an AUTO
\* verdict or an approval.
THEOREM OnlyAuthorisedChanges == Spec => []ApplyAuthorised
<1>1. AllSound => ApplyAuthorised
  BY DEF AllSound, Sound, ApplyAuthorised, Cleared
<1> QED  BY <1>1, AllSoundCorrect, PTL

\* A pipeline that attempted a change reports or escalates its result.
THEOREM NoSilentChange == Spec => []ChangesAccountedFor
<1>1. AllSound => ChangesAccountedFor
  BY DEF AllSound, Sound, ChangesAccountedFor, Ended
<1> QED  BY <1>1, AllSoundCorrect, PTL

-----------------------------------------------------------------------------
(* What gets past an engaged kill switch.                                  *)

\* The goroutines past the last check only leave it while the switch is on:
\* with the late calls already made they stay within the number exposed.
KInv ==
  /\ late \in Nat /\ exposed \in Nat /\ exposed <= MaxWorkers
  /\ ~kill => late = 0
  /\ kill => late + Cardinality(PastLastCheck) <= exposed

LEMMA BoundedBy ==
  ASSUME NEW T, IsFiniteSet(T), NEW S \in SUBSET T,
         NEW n \in Nat, Cardinality(T) <= n
  PROVE  /\ IsFiniteSet(S)
         /\ Cardinality(S) \in Nat
         /\ Cardinality(S) <= n
<1>1. IsFiniteSet(S) /\ Cardinality(S) <= Cardinality(T)
  BY FS_Subset
<1>2. Cardinality(S) \in Nat /\ Cardinality(T) \in Nat
  BY <1>1, FS_CardinalityType
<1> QED
  BY <1>1, <1>2

LEMMA FewPastLastCheck ==
  (TypeOK /\ Slots) => /\ IsFiniteSet(PastLastCheck)
                      /\ Cardinality(PastLastCheck) \in Nat
                      /\ Cardinality(PastLastCheck) <= MaxWorkers
<1> SUFFICES ASSUME TypeOK, Slots
             PROVE  /\ IsFiniteSet(PastLastCheck)
                    /\ Cardinality(PastLastCheck) \in Nat
                    /\ Cardinality(PastLastCheck) <= MaxWorkers
  OBVIOUS
<1>1. PastLastCheck \in SUBSET Holders
  BY DEF PastLastCheck, Holders
<1>2. IsFiniteSet(Holders) /\ Cardinality(Holders) <= MaxWorkers
  BY MaxWorkersAssumption DEF Slots
<1> QED
  BY <1>1, <1>2, BoundedBy, MaxWorkersAssumption

\* Stage 6's re-check is the only way to the Apply call.
LEMMA PipelineKeepsOut ==
  ASSUME TypeOK, kill, NEW g \in Goroutines, Pipeline(g)
  PROVE  PastLastCheck' \subseteq PastLastCheck
<1> SUFFICES ASSUME NEW h \in Goroutines, pc'[h] = "apply"
             PROVE  pc[h] = "apply"
  BY DEF PastLastCheck
<1>0. pc \in [Goroutines -> Maybe(Stages)]
  BY DEF TypeOK
<1> USE <1>0 DEF Goto
<1>1. CASE Diagnose(g)  BY <1>1 DEF Diagnose
<1>2. CASE Decide(g)  BY <1>2 DEF Decide, AfterVerdict, Verdicts
<1>3. CASE NotifyBlocked(g) \/ NotifyRejected(g)
  BY <1>3 DEF NotifyBlocked, NotifyRejected
<1>4. CASE AwaitApproval(g) \/ ApprovalError(g)
  BY <1>4 DEF AwaitApproval, ApprovalError, AfterDecision
<1>5. CASE KillCheck(g)  BY <1>5 DEF KillCheck
<1>6. CASE KillRecheck(g)  BY <1>6 DEF KillRecheck, Halted
<1>7. CASE Build(g) \/ DryRun(g) \/ ApplyGate(g)
  BY <1>7 DEF Build, DryRun, ApplyGate
<1>8. CASE ApplyCall(g) \/ ApplyReturn(g) \/ EscalateFailedApply(g)
  BY <1>8 DEF ApplyCall, ApplyReturn, EscalateFailedApply
<1>9. CASE Verify(g) \/ Conclude(g) \/ ReportOutcome(g)
  BY <1>9 DEF Verify, Conclude, ReportOutcome
<1>10. CASE FreeSlot(g) \/ Release(g)
  BY <1>10 DEF FreeSlot, Release
<1> QED
  BY <1>1, <1>2, <1>3, <1>4, <1>5, <1>6, <1>7, <1>8, <1>9, <1>10 DEF Pipeline, Proceed

LEMMA KillKeepsOut ==
  ASSUME TypeOK, kill, Next
  PROVE  PastLastCheck' \subseteq PastLastCheck
<1>1. ASSUME UNCHANGED pc
      PROVE  PastLastCheck' \subseteq PastLastCheck
  BY <1>1 DEF PastLastCheck
<1>2. ASSUME NEW kind \in Kinds, NEW inc \in Incidents, Emit(kind, inc)
      PROVE  UNCHANGED pc
  BY <1>2 DEF Emit
<1>3. ASSUME NEW b \in BOOLEAN, SetKillSwitch(b) \/ SetApplyEnabled(b)
      PROVE  UNCHANGED pc
  BY <1>3 DEF SetKillSwitch, SetApplyEnabled
<1>4. CASE Cancel \/ Restart
  BY <1>1, <1>4 DEF Cancel, Restart
<1>5. CASE CleanExit \/ Crash
  BY <1>5 DEF CleanExit, Crash, Terminate, PastLastCheck
<1>6. CASE StopLoop \/ ReceiveIgnored \/ ReceiveClosed \/ AbandonSchedule
  BY <1>1, <1>6 DEF StopLoop, ReceiveIgnored, ReceiveClosed, AbandonSchedule
<1>7. ASSUME NEW g \in Goroutines, Spawn(g)
      PROVE  PastLastCheck' \subseteq PastLastCheck
  BY <1>7 DEF Spawn, TypeOK, PastLastCheck
<1>8. ASSUME NEW g \in Goroutines, Pipeline(g)
      PROVE  PastLastCheck' \subseteq PastLastCheck
  BY <1>8, PipelineKeepsOut
<1> QED
  BY <1>1, <1>2, <1>3, <1>4, <1>5, <1>6, <1>7, <1>8
     DEF Next, Environment, RunLoop

LEMMA KNextIsNext == KNext => Next
<1>1. ASSUME NEW g \in Goroutines, ApplyCall(g) PROVE Next
  BY <1>1 DEF Next, Pipeline, Proceed
<1> QED
  BY <1>1 DEF KNext, Engage, Disengaged, LateApply, WhileEngaged

LEMMA KInitInv == KInit => KInv
<1> SUFFICES ASSUME KInit PROVE KInv
  OBVIOUS
<1>1. PastLastCheck = {}  BY DEF KInit, Init, PastLastCheck
<1>2. Cardinality(PastLastCheck) = 0  BY <1>1, FS_EmptySet
<1>3. late = 0 /\ exposed = 0          BY DEF KInit
<1> QED
  BY <1>2, <1>3, MaxWorkersAssumption DEF KInv

LEMMA KNextInv ==
  TypeOK /\ Slots /\ TypeOK' /\ Slots' /\ KInv /\ [KNext]_kvars => KInv'
<1> SUFFICES ASSUME TypeOK, Slots, TypeOK', Slots', KInv, [KNext]_kvars
             PROVE  KInv'
  OBVIOUS
<1>1. /\ IsFiniteSet(PastLastCheck)
      /\ Cardinality(PastLastCheck) \in Nat
  BY FewPastLastCheck
<1>2. /\ IsFiniteSet(PastLastCheck')
      /\ Cardinality(PastLastCheck') \in Nat
      /\ Cardinality(PastLastCheck') <= MaxWorkers
  <2>1. PastLastCheck' \in SUBSET Holders'
    BY DEF PastLastCheck, Holders
  <2>2. IsFiniteSet(Holders') /\ Cardinality(Holders') <= MaxWorkers
    BY MaxWorkersAssumption DEF Slots
  <2> QED
    BY <2>1, <2>2, BoundedBy, MaxWorkersAssumption
<1>3. CASE UNCHANGED kvars
  BY <1>3 DEF kvars, vars, KInv, PastLastCheck
<1>4. CASE Engage
  BY <1>2, <1>4, MaxWorkersAssumption DEF Engage, KInv
<1>5. CASE Disengaged
  BY <1>5, MaxWorkersAssumption DEF Disengaged, KInv
<1>6. CASE LateApply
  <2>1. PICK g \in Goroutines : ApplyCall(g)
    BY <1>6 DEF LateApply
  <2>2. g \in PastLastCheck /\ PastLastCheck' = PastLastCheck \ {g}
    BY <2>1 DEF ApplyCall, Goto, TypeOK, PastLastCheck
  <2>3. Cardinality(PastLastCheck') = Cardinality(PastLastCheck) - 1
    BY <1>1, <2>2, FS_RemoveElement
  <2>4. kill' = kill
    BY <2>1 DEF ApplyCall, Goto, switches
  <2> QED
    BY <1>1, <1>6, <2>3, <2>4, MaxWorkersAssumption DEF LateApply, KInv
<1>7. CASE WhileEngaged
  <2>1. PastLastCheck' \in SUBSET PastLastCheck
    BY <1>7, KillKeepsOut DEF WhileEngaged
  <2>2. Cardinality(PastLastCheck') <= Cardinality(PastLastCheck)
    BY <1>1, <2>1, FS_Subset
  <2> QED
    BY <1>1, <1>2, <1>7, <2>2, MaxWorkersAssumption DEF WhileEngaged, KInv
<1> QED
  BY <1>3, <1>4, <1>5, <1>6, <1>7 DEF KNext

\* The steps of KSpec are steps of Spec: the history variables restrict
\* nothing, and the invariants of Spec hold.
LEMMA KSpecRefines == KSpec => [](TypeOK /\ Slots)
<1>1. KInit => TypeOK /\ Slots
  BY InitTypeOK, InitSlots DEF KInit
<1>2. TypeOK /\ Slots /\ [KNext]_kvars => (TypeOK /\ Slots)'
  <2>1. [KNext]_kvars => [Next]_vars
    BY KNextIsNext DEF kvars
  <2> QED  BY <2>1, NextTypeOK, NextSlots
<1> QED  BY <1>1, <1>2, PTL DEF KSpec

\* At most the exposed pipelines apply after the switch is engaged, and there
\* are at most MaxWorkers of those.
THEOREM KillSwitchBound == KSpec => []LateAppliesBounded
<1>1. TypeOK /\ Slots /\ KInv => LateAppliesBounded
  <2> SUFFICES ASSUME TypeOK, Slots, KInv PROVE LateAppliesBounded
    OBVIOUS
  <2>1. Cardinality(PastLastCheck) \in Nat
    BY FewPastLastCheck
  <2> QED  BY <2>1, MaxWorkersAssumption DEF KInv, LateAppliesBounded
<1> QED  BY <1>1, KInitInv, KNextInv, KSpecRefines, PTL DEF KSpec

-----------------------------------------------------------------------------
(* The refinement of the incident lifecycle.                               *)

phase == phaseOfIncident

-----------------------------------------------------------------------------
(* What a goroutine knows before its remediation is cleared.               *)

Undecided(g) ==
  /\ pc[g] \in {"none", "diagnose", "decide"} => verdict[g] = "none"
  /\ pc[g] \in {"none", "diagnose", "decide", "await"} => decision[g] = "none"
  /\ pc[g] = "blocked" => verdict[g] = "BLOCK"
  /\ pc[g] = "rejected" =>
       verdict[g] = "REQUIRE_APPROVAL" /\ decision[g] # "APPROVED"

AllUndecided == \A g \in Goroutines : Undecided(g)

LEMMA InitUndecided == Init => AllUndecided
  BY DEF Init, AllUndecided, Undecided

LEMMA PipelineUndecided ==
  ASSUME TypeOK, AllSound, AllUndecided, NEW g \in Goroutines, Pipeline(g)
  PROVE  AllUndecided'
<1> DEFINE Others == \A h \in Goroutines \ {g} :
             /\ pc'[h] = pc[h] /\ verdict'[h] = verdict[h]
             /\ decision'[h] = decision[h]
<1>0. Sound(g) /\ Undecided(g)
  BY DEF AllSound, AllUndecided
<1> SUFFICES Undecided(g)' /\ Others
  BY DEF AllUndecided, Undecided
<1> USE <1>0 DEF TypeOK, Sound, Undecided, Goto, locals
<1>1. CASE Diagnose(g)  BY <1>1 DEF Diagnose
<1>2. CASE Decide(g)  BY <1>2 DEF Decide, AfterVerdict, Verdicts
<1>3. CASE NotifyBlocked(g)  BY <1>3 DEF NotifyBlocked
<1>4. CASE AwaitApproval(g)
  BY <1>4 DEF AwaitApproval, AfterDecision, Decisions
<1>5. CASE ApprovalError(g)  BY <1>5 DEF ApprovalError
<1>6. CASE NotifyRejected(g)  BY <1>6 DEF NotifyRejected
<1>7. CASE KillCheck(g)  BY <1>7 DEF KillCheck
<1>8. CASE Build(g)  BY <1>8 DEF Build
<1>9. CASE DryRun(g)  BY <1>9 DEF DryRun
<1>10. CASE ApplyGate(g)  BY <1>10 DEF ApplyGate
<1>11. CASE KillRecheck(g)  BY <1>11 DEF KillRecheck
<1>12. CASE ApplyCall(g)  BY <1>12 DEF ApplyCall
<1>13. CASE ApplyReturn(g)  BY <1>13 DEF ApplyReturn
<1>14. CASE EscalateFailedApply(g)  BY <1>14 DEF EscalateFailedApply
<1>15. CASE Verify(g)  BY <1>15 DEF Verify
<1>16. CASE Conclude(g)  BY <1>16 DEF Conclude
<1>17. CASE ReportOutcome(g)  BY <1>17 DEF ReportOutcome
<1>18. CASE FreeSlot(g)  BY <1>18 DEF FreeSlot
<1>19. CASE Release(g)  BY <1>19 DEF Release
<1> QED
  BY <1>1, <1>2, <1>3, <1>4, <1>5, <1>6, <1>7, <1>8, <1>9, <1>10, <1>11,
     <1>12, <1>13, <1>14, <1>15, <1>16, <1>17, <1>18, <1>19 DEF Pipeline, Proceed

LEMMA NextUndecided ==
  TypeOK /\ AllSound /\ AllUndecided /\ [Next]_vars => AllUndecided'
<1> SUFFICES ASSUME TypeOK, AllSound, AllUndecided, [Next]_vars
             PROVE  AllUndecided'
  OBVIOUS
<1> USE DEF procVars, loopVars, switches, locals, AllUndecided, Undecided
<1>1. CASE UNCHANGED <<pc, locals>>
  BY <1>1
<1>2. CASE CleanExit \/ Crash
  BY <1>2 DEF CleanExit, Crash, Terminate
<1>3. ASSUME NEW g \in Goroutines, Spawn(g)
      PROVE  AllUndecided'
  BY <1>3 DEF Spawn, TypeOK
<1>4. ASSUME NEW g \in Goroutines, Pipeline(g)
      PROVE  AllUndecided'
  BY <1>4, PipelineUndecided
<1>5. CASE StopLoop \/ ReceiveIgnored \/ ReceiveClosed \/ AbandonSchedule
  BY <1>1, <1>5 DEF StopLoop, ReceiveIgnored, ReceiveClosed, AbandonSchedule
<1>6. CASE Cancel \/ Restart
  BY <1>1, <1>6 DEF Cancel, Restart
<1>7. ASSUME NEW b \in BOOLEAN, SetKillSwitch(b) \/ SetApplyEnabled(b)
      PROVE  AllUndecided'
  BY <1>1, <1>7 DEF SetKillSwitch, SetApplyEnabled
<1>8. ASSUME NEW kind \in Kinds, NEW inc \in Incidents, Emit(kind, inc)
      PROVE  AllUndecided'
  BY <1>1, <1>8 DEF Emit
<1> QED
  BY <1>1, <1>2, <1>3, <1>4, <1>5, <1>6, <1>7, <1>8
     DEF vars, Next, Environment, RunLoop

-----------------------------------------------------------------------------
(* Phases.                                                                 *)

IInv == TypeOK /\ Registry /\ Slots /\ AllSound /\ AllUndecided

LEMMA InitIInv == Init => IInv
  BY InitTypeOK, InitRegistry, InitSlots, InitAllSound, InitUndecided DEF IInv

LEMMA NextIInv == IInv /\ [Next]_vars => IInv'
  BY NextTypeOK, NextRegistry, NextSlots, NextAllSound, NextUndecided DEF IInv

\* The phase of an incident is that of its goroutine, of which there is one.
PhasesRead ==
  /\ phase = [i \in Incidents |-> phase[i]]
  /\ \A g \in Goroutines : Active(g) =>
       job[g] \in Incidents /\ phase[job[g]] = PhaseOf(g)
  /\ \A i \in Incidents :
       (\A g \in Goroutines : ~WorksOn(g, i)) => phase[i] = "idle"

LEMMA IInvPhasesRead == IInv => PhasesRead
<1> SUFFICES ASSUME IInv PROVE PhasesRead
  OBVIOUS
<1>1. phase = [i \in Incidents |-> phase[i]]
  BY DEF phase, phaseOfIncident
<1>2. ASSUME NEW g \in Goroutines, Active(g)
      PROVE  job[g] \in Incidents /\ phase[job[g]] = PhaseOf(g)
  <2>1. job[g] \in Incidents
    BY <1>2 DEF IInv, TypeOK, Registry
  <2>2. \A h \in Goroutines : WorksOn(h, job[g]) <=> h = g
    BY <1>2 DEF IInv, Registry, OnePipelinePerIncident, WorksOn
  <2>3. (CHOOSE h \in Goroutines : WorksOn(h, job[g])) = g
    BY <2>2
  <2> QED  BY <2>1, <2>2, <2>3 DEF phase, phaseOfIncident
<1>3. ASSUME NEW i \in Incidents, \A g \in Goroutines : ~WorksOn(g, i)
      PROVE  phase[i] = "idle"
  BY <1>3 DEF phase, phaseOfIncident
<1> QED  BY <1>1, <1>2, <1>3 DEF PhasesRead

LEMMA NextPhasesRead == IInv' => PhasesRead'
  BY IInvPhasesRead, PTL

-----------------------------------------------------------------------------
(* What a stage does to the phase of its own incident.                     *)

Moves == {<<"deciding", "cleared">>, <<"cleared", "changing">>,
          <<"changing", "changed">>, <<"deciding", "closing">>,
          <<"cleared", "closing">>, <<"changed", "closing">>}

\* The step leaves the goroutines other than g alone.
OnlyOf(g) ==
  \A h \in Goroutines \ {g} :
    /\ pc'[h] = pc[h] /\ job'[h] = job[h]
    /\ verdict'[h] = verdict[h] /\ decision'[h] = decision[h]
    /\ applied'[h] = applied[h] /\ told'[h] = told[h]

LEMMA StagePhase ==
  ASSUME TypeOK, AllSound, AllUndecided, NEW g \in Goroutines, Pipeline(g),
         ~Release(g)
  PROVE  /\ OnlyOf(g) /\ job' = job /\ Active(g) /\ Active(g)'
         /\ \/ PhaseOf(g)' = PhaseOf(g)
            \/ <<PhaseOf(g), PhaseOf(g)'>> \in Moves
<1>0. Sound(g) /\ Undecided(g)
  BY DEF AllSound, AllUndecided
<1> USE <1>0 DEF TypeOK, Sound, Undecided, Authorised, BeforeApply, Cleared,
                 Ended, Goto, locals, OnlyOf, Active, PhaseOf, Moves
<1>1. CASE Diagnose(g)  BY <1>1 DEF Diagnose
<1>2. CASE Decide(g)  BY <1>2 DEF Decide, AfterVerdict, Verdicts
<1>3. CASE NotifyBlocked(g)  BY <1>3 DEF NotifyBlocked
<1>4. CASE AwaitApproval(g)
  BY <1>4 DEF AwaitApproval, AfterDecision, Decisions
<1>5. CASE ApprovalError(g)  BY <1>5 DEF ApprovalError
<1>6. CASE NotifyRejected(g)  BY <1>6 DEF NotifyRejected
<1>7. CASE KillCheck(g)  BY <1>7 DEF KillCheck
<1>8. CASE Build(g)  BY <1>8 DEF Build
<1>9. CASE DryRun(g)  BY <1>9 DEF DryRun
<1>10. CASE ApplyGate(g)  BY <1>10 DEF ApplyGate
<1>11. CASE KillRecheck(g)  BY <1>11 DEF KillRecheck
<1>12. CASE ApplyCall(g)  BY <1>12 DEF ApplyCall
<1>13. CASE ApplyReturn(g)  BY <1>13 DEF ApplyReturn
<1>14. CASE EscalateFailedApply(g)  BY <1>14 DEF EscalateFailedApply
<1>15. CASE Verify(g)  BY <1>15 DEF Verify
<1>16. CASE Conclude(g)  BY <1>16 DEF Conclude, FinalMessage
<1>17. CASE ReportOutcome(g)  BY <1>17 DEF ReportOutcome
<1>18. CASE FreeSlot(g)  BY <1>18 DEF FreeSlot
<1> QED
  BY <1>1, <1>2, <1>3, <1>4, <1>5, <1>6, <1>7, <1>8, <1>9, <1>10, <1>11,
     <1>12, <1>13, <1>14, <1>15, <1>16, <1>17, <1>18 DEF Pipeline, Proceed

LEMMA ReleasePhase ==
  ASSUME TypeOK, AllSound, NEW g \in Goroutines, Release(g)
  PROVE  OnlyOf(g) /\ Active(g) /\ ~Active(g)' /\ PhaseOf(g) = "closing"
<1>1. Sound(g)  BY DEF AllSound
<1> QED
  BY <1>1 DEF TypeOK, Sound, Ended, Release, OnlyOf, Active, PhaseOf

\* A step of one goroutine changes the phase of one incident.
LEMMA PhaseOfOthers ==
  ASSUME PhasesRead, PhasesRead', NEW g \in Goroutines, OnlyOf(g),
         NEW i \in Incidents, ~WorksOn(g, i), ~WorksOn(g, i)'
  PROVE  phase'[i] = phase[i]
<1>1. \A h \in Goroutines : WorksOn(h, i)' <=> WorksOn(h, i)
  BY DEF OnlyOf, WorksOn, Active
<1>2. CASE \A h \in Goroutines : ~WorksOn(h, i)
  BY <1>1, <1>2 DEF PhasesRead
<1>3. ASSUME NEW h \in Goroutines, WorksOn(h, i)
      PROVE  phase'[i] = phase[i]
  <2>1. phase[i] = PhaseOf(h)
    BY <1>3 DEF PhasesRead, WorksOn
  <2>2. phase'[i] = PhaseOf(h)'
    BY <1>1, <1>3 DEF PhasesRead, WorksOn
  <2>3. PhaseOf(h)' = PhaseOf(h)
    BY <1>3 DEF OnlyOf, PhaseOf, Authorised
  <2> QED  BY <2>1, <2>2, <2>3
<1> QED  BY <1>2, <1>3

LEMMA StageMoves ==
  ASSUME IInv, IInv', NEW g \in Goroutines, Pipeline(g)
  PROVE  [Lifecycle!Next]_phase
<1>1. PhasesRead /\ PhasesRead'
  BY IInvPhasesRead, NextPhasesRead
<1>2. CASE Release(g)
  <2>1. OnlyOf(g) /\ Active(g) /\ ~Active(g)' /\ PhaseOf(g) = "closing"
    BY <1>2, ReleasePhase DEF IInv
  <2>2. PICK i \in Incidents : i = job[g] /\ phase[i] = "closing"
    BY <1>1, <2>1 DEF PhasesRead
  <2>3. \A h \in Goroutines : ~WorksOn(h, i)'
    BY <2>1, <2>2
       DEF IInv, Registry, OnePipelinePerIncident, WorksOn, OnlyOf, Active
  <2>4. phase'[i] = "idle"
    BY <1>1, <2>3 DEF PhasesRead
  <2>5. \A j \in Incidents : j # i => phase'[j] = phase[j]
    BY <1>1, <2>1, <2>2, PhaseOfOthers DEF WorksOn
  <2>6. phase' = [phase EXCEPT ![i] = "idle"]
    BY <1>1, <2>4, <2>5 DEF PhasesRead
  <2> QED
    BY <2>2, <2>6 DEF Lifecycle!Next, Lifecycle!End, Lifecycle!Move, phase
<1>3. CASE ~Release(g)
  <2>1. /\ OnlyOf(g) /\ job' = job /\ Active(g) /\ Active(g)'
        /\ \/ PhaseOf(g)' = PhaseOf(g)
           \/ <<PhaseOf(g), PhaseOf(g)'>> \in Moves
    BY <1>3, StagePhase DEF IInv
  <2>2. /\ job[g] \in Incidents /\ phase[job[g]] = PhaseOf(g)
        /\ phase'[job[g]] = PhaseOf(g)'
    BY <1>1, <2>1 DEF PhasesRead
  <2>3. \A i \in Incidents : i # job[g] => phase'[i] = phase[i]
    BY <1>1, <2>1, PhaseOfOthers DEF WorksOn
  <2>4. phase' = [phase EXCEPT ![job[g]] = PhaseOf(g)']
    BY <1>1, <2>2, <2>3 DEF PhasesRead
  <2>5. CASE PhaseOf(g)' = PhaseOf(g)
    BY <1>1, <2>2, <2>4, <2>5 DEF PhasesRead
  <2>6. CASE <<PhaseOf(g), PhaseOf(g)'>> \in Moves
    BY <2>2, <2>4, <2>6
       DEF Moves, Lifecycle!Next, Lifecycle!Clear, Lifecycle!Change,
           Lifecycle!Changed, Lifecycle!GiveUp, Lifecycle!Account,
           Lifecycle!Move, phase
  <2> QED  BY <2>1, <2>5, <2>6
<1> QED  BY <1>2, <1>3

\* The incidents being remediated have a goroutine each, which holds a slot.
LEMMA BusyBounded ==
  ASSUME IInv
  PROVE  IsFiniteSet(Lifecycle!Busy) /\ Cardinality(Lifecycle!Busy) <= sem
<1> DEFINE worker == [i \in Lifecycle!Busy |->
                        CHOOSE g \in Goroutines : WorksOn(g, i)]
<1>1. ASSUME NEW i \in Lifecycle!Busy
      PROVE  worker[i] \in Holders /\ job[worker[i]] = i
  <2>1. i \in Incidents /\ phase[i] \notin {"idle", "closing"}
    BY <1>1 DEF Lifecycle!Busy, phase
  <2>2. \E g \in Goroutines : WorksOn(g, i)
    BY <2>1, IInvPhasesRead DEF PhasesRead
  <2>3. worker[i] \in Goroutines /\ WorksOn(worker[i], i)
    BY <2>2
  <2>4. phase[i] = PhaseOf(worker[i])
    BY <2>3, IInvPhasesRead DEF PhasesRead, WorksOn
  <2>5. Sound(worker[i])
    BY <2>3 DEF IInv, AllSound
  <2>6. pc[worker[i]] # "release"
    BY <2>1, <2>4, <2>5 DEF PhaseOf, Sound, Ended
  <2> QED  BY <2>3, <2>6 DEF WorksOn, Active, Holders
<1>2. worker \in Injection(Lifecycle!Busy, Holders)
  <2>1. worker \in [Lifecycle!Busy -> Holders]
    BY <1>1
  <2>2. \A i, j \in Lifecycle!Busy : worker[i] = worker[j] => i = j
    BY <1>1
  <2> HIDE DEF worker
  <2> QED  BY <2>1, <2>2 DEF Injection, IsInjective
<1>3. IsFiniteSet(Holders) /\ Cardinality(Holders) = sem
  BY DEF IInv, Slots
<1> HIDE DEF worker
<1>4. /\ IsFiniteSet(Lifecycle!Busy)
      /\ Cardinality(Lifecycle!Busy) <= Cardinality(Holders)
  BY <1>2, <1>3, FS_Injection
<1> QED  BY <1>3, <1>4

LEMMA SpawnBegins ==
  ASSUME IInv, IInv', NEW g \in Goroutines, Spawn(g)
  PROVE  [Lifecycle!Next]_phase
<1>1. PhasesRead /\ PhasesRead'
  BY IInvPhasesRead, NextPhasesRead
<1>2. PICK i : i = pending
  OBVIOUS
<1>3. /\ OnlyOf(g) /\ ~Active(g) /\ job'[g] = i /\ pc'[g] = "diagnose"
      /\ UNCHANGED locals /\ loop = "acquire" /\ sem < MaxWorkers
  BY <1>2 DEF IInv, TypeOK, Spawn, OnlyOf, Active, locals
<1>4. WorksOn(g, i)' /\ PhaseOf(g)' = "deciding"
  <2>1. verdict[g] = "none" /\ applied[g] = "no"
    BY <1>3 DEF IInv, AllSound, Sound, AllUndecided, Undecided, BeforeApply,
                Active
  <2> QED
    BY <1>3, <2>1 DEF WorksOn, Active, PhaseOf, Authorised, locals
<1>5. i \in Incidents /\ phase'[i] = "deciding"
  BY <1>1, <1>4 DEF PhasesRead, WorksOn
<1>6. phase[i] = "idle"
  <2>1. \A h \in Goroutines : ~WorksOn(h, i)
    BY <1>2, <1>3 DEF IInv, Registry, WorksOn
  <2> QED  BY <1>1, <1>5, <2>1 DEF PhasesRead
<1>7. \A j \in Incidents : j # i => phase'[j] = phase[j]
  BY <1>1, <1>3, PhaseOfOthers DEF WorksOn
<1>8. phase' = [phase EXCEPT ![i] = "deciding"]
  BY <1>1, <1>5, <1>7 DEF PhasesRead
<1>9. Cardinality(Lifecycle!Busy) < MaxWorkers
  <2>1. Cardinality(Lifecycle!Busy) <= sem
    BY BusyBounded
  <2>2. Cardinality(Lifecycle!Busy) \in Int /\ sem \in Int
    BY BusyBounded, FS_CardinalityType DEF IInv, TypeOK
  <2> QED  BY <1>3, <2>1, <2>2, MaxWorkersAssumption
<1>10. Lifecycle!Cardinality(Lifecycle!Busy) < MaxWorkers
  BY <1>9 DEF Lifecycle!Cardinality, Cardinality
<1> QED
  BY <1>5, <1>6, <1>8, <1>10
     DEF Lifecycle!Next, Lifecycle!Begin, Lifecycle!Move, phase

-----------------------------------------------------------------------------
(* The refinement.                                                         *)

\* A step that leaves the goroutines alone leaves the phases alone.
LEMMA PhasesStutter ==
  ASSUME UNCHANGED <<pc, job, locals>>
  PROVE  UNCHANGED phase
  BY DEF phase, phaseOfIncident, WorksOn, Active, PhaseOf, Authorised, locals

LEMMA InitLifecycle == Init => Lifecycle!Init
  BY DEF Init, Lifecycle!Init, phaseOfIncident, WorksOn, Active

LEMMA NextLifecycle ==
  IInv /\ IInv' /\ [Next]_vars => [Lifecycle!Next]_phase
<1> SUFFICES ASSUME IInv, IInv', [Next]_vars
             PROVE  [Lifecycle!Next]_phase
  OBVIOUS
<1> USE DEF procVars, loopVars, switches
<1>1. CASE UNCHANGED <<pc, job, locals>>
  BY <1>1, PhasesStutter
<1>2. CASE CleanExit \/ Crash
  <2>1. Lifecycle!Die
    BY <1>2 DEF CleanExit, Crash, Terminate, Lifecycle!Die, phaseOfIncident,
                WorksOn, Active
  <2> QED  BY <2>1 DEF Lifecycle!Next
<1>3. ASSUME NEW g \in Goroutines, Spawn(g)
      PROVE  [Lifecycle!Next]_phase
  BY <1>3, SpawnBegins
<1>4. ASSUME NEW g \in Goroutines, Pipeline(g)
      PROVE  [Lifecycle!Next]_phase
  BY <1>4, StageMoves
<1>5. CASE StopLoop \/ ReceiveIgnored \/ ReceiveClosed \/ AbandonSchedule
  BY <1>1, <1>5 DEF StopLoop, ReceiveIgnored, ReceiveClosed, AbandonSchedule
<1>6. CASE Cancel \/ Restart
  BY <1>1, <1>6 DEF Cancel, Restart
<1>7. ASSUME NEW b \in BOOLEAN, SetKillSwitch(b) \/ SetApplyEnabled(b)
      PROVE  [Lifecycle!Next]_phase
  BY <1>1, <1>7 DEF SetKillSwitch, SetApplyEnabled
<1>8. ASSUME NEW kind \in Kinds, NEW inc \in Incidents, Emit(kind, inc)
      PROVE  [Lifecycle!Next]_phase
  BY <1>1, <1>8 DEF Emit
<1>9. CASE UNCHANGED vars
  BY <1>1, <1>9 DEF vars, locals
<1> QED
  BY <1>2, <1>3, <1>4, <1>5, <1>6, <1>7, <1>8, <1>9
     DEF Next, Environment, RunLoop

\* The orchestrator implements the lifecycle: goroutines, registry, semaphore
\* and switches do what IncidentLifecycle says of each incident, and no more.
THEOREM RefinesLifecycle == Spec => ImplementsLifecycle
<1>1. IInv /\ IInv' /\ [Next]_vars => [Lifecycle!Next]_phaseOfIncident
  BY NextLifecycle DEF phase
<1> QED
  BY <1>1, InitIInv, NextIInv, InitLifecycle, PTL
     DEF Spec, ImplementsLifecycle, Lifecycle!Spec
=============================================================================
