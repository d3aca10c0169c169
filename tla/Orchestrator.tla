---------------------------- MODULE Orchestrator ----------------------------
(***************************************************************************)
(* The orchestrator of the AutoSRE agent (agent/internal/orchestrator):    *)
(* the Run loop that takes incident events from the correlator's bounded   *)
(* channel, schedule() with its in-flight registry and its semaphore, the  *)
(* seven-stage pipeline goroutines, the two operator switches (kill switch *)
(* and apply-enabled) that the web API flips while pipelines run, and the  *)
(* end of the process as cmd/autosre/run.go performs it.                   *)
(*                                                                         *)
(* Every stage of runPipeline is an action of its own, because the         *)
(* operator's switches, the other pipelines, the Run loop and SIGTERM can  *)
(* all act between two stages.  What diagnosis, policy, approval, action   *)
(* and verification answer is nondeterministic here; the modules           *)
(* PolicyEngine, CircuitBreaker, ApprovalRegistry, GitWriter and Verifier  *)
(* model how each of them arrives at its answer.                           *)
(***************************************************************************)
EXTENDS Integers, Sequences, FiniteSets

CONSTANTS
  Incidents,        \* incident IDs
  Goroutines,       \* identities of pipeline goroutines, reused once they end
  MaxWorkers,       \* capacity of the semaphore (cfg.MaxWorkers)
  EventBufSize,     \* capacity of the correlator's events channel
  CfgKillSwitch,    \* ORCHESTRATOR_KILL_SWITCH: the switch at process start
  CfgApplyEnabled   \* ORCHESTRATOR_APPLY_ENABLED: apply-enabled at start

ASSUME MaxWorkersAssumption == MaxWorkers \in Nat \ {0}
ASSUME EventBufAssumption == EventBufSize \in Nat \ {0}
ASSUME NoneAssumption == "none" \notin Incidents
ASSUME CfgAssumption == CfgKillSwitch \in BOOLEAN /\ CfgApplyEnabled \in BOOLEAN

VARIABLES
  proc,          \* "up" while the agent process runs, else "down"
  ctxDone,       \* the root context was cancelled (SIGTERM)
  events,        \* the correlator's events channel
  loop,          \* where the Run loop is: "select", "acquire" or "stopped"
  pending,       \* the incident schedule() is acquiring a slot for
  inFlight,      \* inFlightRegistry.ids
  sem,           \* tokens in the semaphore channel
  kill,          \* Orchestrator.kill
  applyEnabled,  \* Orchestrator.applyEnabled
  pc,            \* the stage each goroutine is about to execute
  job,           \* the incident each goroutine works on
  verdict,       \* decision.Verdict of the goroutine's pipeline
  decision,      \* the ApprovalDecision it received
  dryRun,        \* the dryRun flag its action was built with
  applied,       \* what Apply returned: "no" call, "error" or "ok"
  outcome,       \* the verification outcome
  told           \* the last message the notifier was asked to send

procVars == <<proc, ctxDone>>
loopVars == <<events, loop, pending>>
switches == <<kill, applyEnabled>>
locals == <<verdict, decision, dryRun, applied, outcome, told>>
vars == <<proc, ctxDone, events, loop, pending, inFlight, sem, kill,
          applyEnabled, pc, job, verdict, decision, dryRun, applied, outcome,
          told>>

Kinds     == {"opened", "closed"}   \* EventUpdated is handled as EventOpened is
Event     == [kind : Kinds, inc : Incidents]
Verdicts  == {"BLOCK", "REQUIRE_APPROVAL", "AUTO"}
Decisions == {"APPROVED", "DENIED", "TIMEOUT"}
Outcomes  == {"RECOVERED", "FAILED", "INCONCLUSIVE"}
Messages  == {"BLOCKED", "NOT APPROVED", "RECOVERED", "ESCALATED"}

Stages == {"diagnose", "decide", "blocked", "await", "rejected", "kill1",
           "build", "dryrun", "gate", "kill2", "apply", "applying",
           "applyFailed", "verify", "conclude", "report", "freeSlot",
           "release"}

Active(g) == pc[g] # "none"

\* Goroutines that hold a token of the semaphore: all but those that have
\* executed the first statement of the deferred function.
Holders == {g \in Goroutines : pc[g] \notin {"none", "release"}}

Authorised(g) == \/ verdict[g] = "AUTO"
                 \/ verdict[g] = "REQUIRE_APPROVAL" /\ decision[g] = "APPROVED"

-----------------------------------------------------------------------------
(* New: an orchestrator with its switches as configured.                   *)

Init == /\ proc = "up" /\ ctxDone = FALSE
        /\ events = <<>>
        /\ loop = "select"
        /\ pending = "none"
        /\ inFlight = {}
        /\ sem = 0
        /\ kill = CfgKillSwitch
        /\ applyEnabled = CfgApplyEnabled
        /\ pc = [g \in Goroutines |-> "none"]
        /\ job = [g \in Goroutines |-> "none"]
        /\ verdict = [g \in Goroutines |-> "none"]
        /\ decision = [g \in Goroutines |-> "none"]
        /\ dryRun = [g \in Goroutines |-> FALSE]
        /\ applied = [g \in Goroutines |-> "no"]
        /\ outcome = [g \in Goroutines |-> "none"]
        /\ told = [g \in Goroutines |-> "none"]

-----------------------------------------------------------------------------
(* The environment: correlator, operator, signals.                         *)

\* Mutants, here and below, are named Bug... and are used by no action.
BugEmitUnbounded(kind, inc) ==
  /\ proc = "up"
  /\ events' = Append(events, [kind |-> kind, inc |-> inc])
  /\ UNCHANGED <<procVars, loop, pending, inFlight, sem, switches, pc, job,
                 locals>>

\* The correlator's emit: the event is dropped when the channel is full, which
\* leaves the orchestrator's state alone, so only the delivery is an action.
Emit(kind, inc) ==
  /\ proc = "up"
  /\ Len(events) < EventBufSize
  /\ events' = Append(events, [kind |-> kind, inc |-> inc])
  /\ UNCHANGED <<procVars, loop, pending, inFlight, sem, switches, pc, job,
                 locals>>

SetKillSwitch(engaged) ==
  /\ proc = "up"
  /\ kill' = engaged
  /\ UNCHANGED <<procVars, loopVars, inFlight, sem, applyEnabled, pc, job,
                 locals>>

SetApplyEnabled(enabled) ==
  /\ proc = "up"
  /\ applyEnabled' = enabled
  /\ UNCHANGED <<procVars, loopVars, inFlight, sem, kill, pc, job, locals>>

Cancel ==
  /\ proc = "up" /\ ~ctxDone
  /\ ctxDone' = TRUE
  /\ UNCHANGED <<proc, loopVars, inFlight, sem, switches, pc, job, locals>>

-----------------------------------------------------------------------------
(* Run and schedule.                                                       *)

\* inFlightRegistry: tryAcquire's test, and the registry after release.
BugCanAlwaysAcquire(inc) == TRUE
CanAcquire(inc) == inc \notin inFlight

BugStaysRegistered(inc) == inFlight
Unregistered(inc) == inFlight \ {inc}

\* Both cases of Run's select may be ready: then Go picks either.
StopLoop ==
  /\ proc = "up" /\ loop = "select" /\ ctxDone
  /\ loop' = "stopped"
  /\ UNCHANGED <<procVars, events, pending, inFlight, sem, switches, pc, job,
                 locals>>

\* Opened and updated events, and closed events whose incident is in flight,
\* are taken from the channel and forgotten.
ReceiveIgnored ==
  /\ proc = "up" /\ loop = "select" /\ events # <<>>
  /\ \/ Head(events).kind # "closed"
     \/ ~CanAcquire(Head(events).inc)
  /\ events' = Tail(events)
  /\ UNCHANGED <<procVars, loop, pending, inFlight, sem, switches, pc, job,
                 locals>>

\* tryAcquire succeeds; schedule then waits for a slot in the Run loop's own
\* goroutine, so no further event is received until it has one.
ReceiveClosed ==
  /\ proc = "up" /\ loop = "select" /\ events # <<>>
  /\ Head(events).kind = "closed"
  /\ CanAcquire(Head(events).inc)
  /\ events' = Tail(events)
  /\ inFlight' = inFlight \union {Head(events).inc}
  /\ pending' = Head(events).inc
  /\ loop' = "acquire"
  /\ UNCHANGED <<procVars, sem, switches, pc, job, locals>>

Spawn(g) ==
  /\ proc = "up" /\ loop = "acquire" /\ sem < MaxWorkers
  /\ pc[g] = "none"
  /\ sem' = sem + 1
  /\ pc' = [pc EXCEPT ![g] = "diagnose"]
  /\ job' = [job EXCEPT ![g] = pending]
  /\ loop' = "select" /\ pending' = "none"
  /\ UNCHANGED <<procVars, events, inFlight, switches, locals>>

AbandonSchedule ==
  /\ proc = "up" /\ loop = "acquire" /\ ctxDone
  /\ inFlight' = Unregistered(pending)
  /\ loop' = "select" /\ pending' = "none"
  /\ UNCHANGED <<procVars, events, sem, switches, pc, job, locals>>

-----------------------------------------------------------------------------
(* runPipeline, stage by stage.                                            *)

Goto(g, from, to) ==
  /\ proc = "up"
  /\ pc[g] = from
  /\ pc' = [pc EXCEPT ![g] = to]
  /\ UNCHANGED <<procVars, loopVars, inFlight, sem, switches, job>>

\* A diagnosis error ends the pipeline before there is an outcome record.
Diagnose(g) ==
  /\ \/ Goto(g, "diagnose", "decide")
     \/ Goto(g, "diagnose", "freeSlot")
  /\ UNCHANGED locals

\* policy.Evaluate; its three verdicts are the only ones it returns.
AfterVerdict == [BLOCK |-> "blocked", REQUIRE_APPROVAL |-> "await",
                 AUTO |-> "kill1"]

Decide(g) ==
  /\ \E v \in Verdicts : /\ Goto(g, "decide", AfterVerdict[v])
                         /\ verdict' = [verdict EXCEPT ![g] = v]
  /\ UNCHANGED <<decision, dryRun, applied, outcome, told>>

NotifyBlocked(g) ==
  /\ Goto(g, "blocked", "report")
  /\ told' = [told EXCEPT ![g] = "BLOCKED"]
  /\ UNCHANGED <<verdict, decision, dryRun, applied, outcome>>

BugTimeoutApproves(d) == IF d = "DENIED" THEN "rejected" ELSE "kill1"
AfterDecision(d) == IF d = "APPROVED" THEN "kill1" ELSE "rejected"

\* RequestApproval blocks this goroutine until it returns a decision.
AwaitApproval(g) ==
  /\ \E d \in Decisions :
       /\ Goto(g, "await", AfterDecision(d))
       /\ decision' = [decision EXCEPT ![g] = d]
  /\ UNCHANGED <<verdict, dryRun, applied, outcome, told>>

ApprovalError(g) == Goto(g, "await", "report") /\ UNCHANGED locals

NotifyRejected(g) ==
  /\ Goto(g, "rejected", "report")
  /\ told' = [told EXCEPT ![g] = "NOT APPROVED"]
  /\ UNCHANGED <<verdict, decision, dryRun, applied, outcome>>

\* o.kill.Load(), at both checks.
BugHaltedAtStart == CfgKillSwitch
Halted == kill

\* Stage 4.  The abort is silent: no message, no audit event.
KillCheck(g) ==
  /\ Goto(g, "kill1", IF Halted THEN "report" ELSE "build")
  /\ UNCHANGED locals

\* Stage 5: the dryRun flag is read here, before Build and DryRun run.
Build(g) ==
  /\ \E ok \in BOOLEAN : Goto(g, "build", IF ok THEN "dryrun" ELSE "report")
  /\ dryRun' = [dryRun EXCEPT ![g] = ~applyEnabled]
  /\ UNCHANGED <<verdict, decision, applied, outcome, told>>

DryRun(g) ==
  /\ \E ok \in BOOLEAN : Goto(g, "dryrun", IF ok THEN "gate" ELSE "report")
  /\ UNCHANGED locals

\* Stage 6 reads applyEnabled a second time.
ApplyGate(g) ==
  /\ Goto(g, "gate", IF applyEnabled THEN "kill2" ELSE "verify")
  /\ UNCHANGED locals

BugNoRecheck(g) == Goto(g, "kill2", "apply") /\ UNCHANGED locals
KillRecheck(g) ==
  /\ Goto(g, "kill2", IF Halted THEN "report" ELSE "apply")
  /\ UNCHANGED locals

ApplyCall(g) == Goto(g, "apply", "applying") /\ UNCHANGED locals

ApplyReturn(g) ==
  /\ \/ /\ Goto(g, "applying", "verify")
        /\ applied' = [applied EXCEPT ![g] = "ok"]
     \/ /\ Goto(g, "applying", "applyFailed")
        /\ applied' = [applied EXCEPT ![g] = "error"]
  /\ UNCHANGED <<verdict, decision, dryRun, outcome, told>>

EscalateFailedApply(g) ==
  /\ Goto(g, "applyFailed", "report")
  /\ told' = [told EXCEPT ![g] = "ESCALATED"]
  /\ UNCHANGED <<verdict, decision, dryRun, applied, outcome>>

\* Stage 7.
Verify(g) ==
  /\ Goto(g, "verify", "conclude")
  /\ \E o \in Outcomes : outcome' = [outcome EXCEPT ![g] = o]
  /\ UNCHANGED <<verdict, decision, dryRun, applied, told>>

\* EscalationNeeded is set for every outcome but RECOVERED.
BugInconclusiveIsFine(o) == IF o = "FAILED" THEN "ESCALATED" ELSE "RECOVERED"
FinalMessage(o) == IF o = "RECOVERED" THEN "RECOVERED" ELSE "ESCALATED"

Conclude(g) ==
  /\ Goto(g, "conclude", "report")
  /\ told' = [told EXCEPT ![g] = FinalMessage(outcome[g])]
  /\ UNCHANGED <<verdict, decision, dryRun, applied, outcome>>

\* The deferred reportOutcome; a learner error is swallowed.
ReportOutcome(g) == Goto(g, "report", "freeSlot") /\ UNCHANGED locals

\* The goroutine's deferred function: first the slot, then the registry.
BugSlotLeaked == sem
SlotFreed == sem - 1

FreeSlot(g) ==
  /\ proc = "up" /\ pc[g] = "freeSlot"
  /\ sem' = SlotFreed
  /\ pc' = [pc EXCEPT ![g] = "release"]
  /\ UNCHANGED <<procVars, loopVars, inFlight, switches, job, locals>>

Release(g) ==
  /\ proc = "up" /\ pc[g] = "release"
  /\ inFlight' = Unregistered(job[g])
  /\ pc' = [pc EXCEPT ![g] = "none"]
  /\ job' = [job EXCEPT ![g] = "none"]
  /\ verdict' = [verdict EXCEPT ![g] = "none"]
  /\ decision' = [decision EXCEPT ![g] = "none"]
  /\ dryRun' = [dryRun EXCEPT ![g] = FALSE]
  /\ applied' = [applied EXCEPT ![g] = "no"]
  /\ outcome' = [outcome EXCEPT ![g] = "none"]
  /\ told' = [told EXCEPT ![g] = "none"]
  /\ UNCHANGED <<procVars, loopVars, sem, switches>>

\* All that the code bounds in time: every stage but the return of Apply.
Proceed(g) ==
  \/ Diagnose(g) \/ Decide(g) \/ NotifyBlocked(g) \/ AwaitApproval(g)
  \/ ApprovalError(g) \/ NotifyRejected(g) \/ KillCheck(g) \/ Build(g)
  \/ DryRun(g) \/ ApplyGate(g) \/ KillRecheck(g) \/ ApplyCall(g)
  \/ EscalateFailedApply(g) \/ Verify(g) \/ Conclude(g)
  \/ ReportOutcome(g) \/ FreeSlot(g) \/ Release(g)

Pipeline(g) == Proceed(g) \/ ApplyReturn(g)

-----------------------------------------------------------------------------
(* The end of the process, and its restart by the platform.                *)

\* All of this state is in memory only: the switches too are lost.
Terminate ==
        /\ proc' = "down" /\ ctxDone' = FALSE
        /\ events' = <<>>
        /\ loop' = "select"
        /\ pending' = "none"
        /\ inFlight' = {}
        /\ sem' = 0
        /\ kill' = CfgKillSwitch
        /\ applyEnabled' = CfgApplyEnabled
        /\ pc' = [g \in Goroutines |-> "none"]
        /\ job' = [g \in Goroutines |-> "none"]
        /\ verdict' = [g \in Goroutines |-> "none"]
        /\ decision' = [g \in Goroutines |-> "none"]
        /\ dryRun' = [g \in Goroutines |-> FALSE]
        /\ applied' = [g \in Goroutines |-> "no"]
        /\ outcome' = [g \in Goroutines |-> "none"]
        /\ told' = [g \in Goroutines |-> "none"]

\* runRun returns once the goroutines of its WaitGroup are done.  The Run loop
\* is one of them; the pipeline goroutines are not.
CleanExit == proc = "up" /\ ctxDone /\ loop = "stopped" /\ Terminate

\* Either ShutdownTimeout elapsed or the process was killed.
Crash == proc = "up" /\ Terminate

Restart ==
  /\ proc = "down"
  /\ proc' = "up"
  /\ UNCHANGED <<ctxDone, loopVars, inFlight, sem, switches, pc, job, locals>>

Environment ==
  \/ \E kind \in Kinds, inc \in Incidents : Emit(kind, inc)
  \/ \E b \in BOOLEAN : SetKillSwitch(b) \/ SetApplyEnabled(b)
  \/ Cancel \/ CleanExit \/ Crash \/ Restart

RunLoop == \/ StopLoop \/ ReceiveIgnored \/ ReceiveClosed \/ AbandonSchedule
           \/ \E g \in Goroutines : Spawn(g)

Next == Environment \/ RunLoop \/ \E g \in Goroutines : Pipeline(g)

Spec == Init /\ [][Next]_vars

\* The Go scheduler runs every goroutine that can run, and each call a pipeline
\* makes has a deadline of its own (HTTP timeouts, the approval timeout, the
\* recovery window), but one: Apply pushes with the root context, which has no
\* deadline, so nothing makes it return.
Fairness == WF_vars(RunLoop) /\ \A g \in Goroutines : WF_vars(Proceed(g))

FairSpec == Spec /\ Fairness
-----------------------------------------------------------------------------
(* Properties.                                                             *)

Maybe(S) == S \union {"none"}

\* Every variable has its type; in particular the events channel never holds
\* more than its capacity.
TypeOK ==
  /\ proc \in {"up", "down"} /\ ctxDone \in BOOLEAN
  /\ events \in Seq(Event) /\ Len(events) <= EventBufSize
  /\ loop \in {"select", "acquire", "stopped"}
  /\ pending \in Maybe(Incidents)
  /\ inFlight \subseteq Incidents
  /\ sem \in Int
  /\ kill \in BOOLEAN /\ applyEnabled \in BOOLEAN
  /\ pc \in [Goroutines -> Maybe(Stages)]
  /\ job \in [Goroutines -> Maybe(Incidents)]
  /\ verdict \in [Goroutines -> Maybe(Verdicts)]
  /\ decision \in [Goroutines -> Maybe(Decisions)]
  /\ dryRun \in [Goroutines -> BOOLEAN]
  /\ applied \in [Goroutines -> {"no", "error", "ok"}]
  /\ outcome \in [Goroutines -> Maybe(Outcomes)]
  /\ told \in [Goroutines -> Maybe(Messages)]

\* The registry never lets two pipelines run for one incident, although the
\* correlator may reopen and close an incident while it is being remediated.
OnePipelinePerIncident ==
  \A g, h \in Goroutines : Active(g) /\ Active(h) /\ job[g] = job[h] => g = h

\* The registry holds exactly the incidents that are being worked on or that
\* wait for a slot: an ID that stayed behind would be skipped for ever, one
\* that left early would be remediated twice at once.
InFlightExact ==
  inFlight = {job[g] : g \in {h \in Goroutines : Active(h)}}
             \union (IF loop = "acquire" THEN {pending} ELSE {})

\* The semaphore counts the pipelines that run, on every path by which one
\* ends, so there are never more than MaxWorkers of them.
SlotsExact == Cardinality(Holders) = sem /\ sem <= MaxWorkers

\* No GitOps change is attempted without an AUTO verdict or an approval,
\* whatever the switches and the other pipelines do in the meantime.
ApplyAuthorised ==
  \A g \in Goroutines :
    pc[g] \in {"apply", "applying"} \/ applied[g] # "no" => Authorised(g)

\* A pipeline that attempted a change never ends silently: people are told it
\* recovered only if the change was made and verified, else it is escalated.
ChangesAccountedFor ==
  \A g \in Goroutines :
    pc[g] \in {"report", "freeSlot", "release"} /\ applied[g] # "no" =>
      told[g] = IF applied[g] = "ok" /\ outcome[g] = "RECOVERED"
                THEN "RECOVERED" ELSE "ESCALATED"

\* What can keep an incident in the registry: its own Apply has not returned,
\* or it waits for a slot while every slot is held by an Apply.
Applying == {g \in Goroutines : pc[g] = "applying"}

Stuck(i) ==
  \/ \E g \in Applying : job[g] = i
  \/ loop = "acquire" /\ pending = i /\ Cardinality(Applying) = MaxWorkers

\* An incident leaves the registry again and again, so that it can be remediated
\* when it recurs, whatever path its pipeline takes and whoever has the slots.
\* Only an Apply that never returns can keep it, or MaxWorkers of them.
InFlightClears ==
  \A i \in Incidents : []<>(i \notin inFlight) \/ <>[]Stuck(i)

\* Once the kill switch stays engaged, every goroutine stops applying for good,
\* but for one whose Apply never returns.
KillDrains ==
  <>[](proc = "up" /\ kill)
    => \A g \in Goroutines : \/ <>[](pc[g] \notin {"apply", "applying"})
                            \/ <>[](pc[g] = "applying")

-----------------------------------------------------------------------------
(* What a comment of the code says of it.                                  *)

\* run.go, end of runRun: a graceful shutdown waits for in-flight pipelines.
CleanExitWaits ==
  [][CleanExit => \A g \in Goroutines : ~Active(g)]_vars
=============================================================================
