---------------------------- MODULE PolicyEngine ----------------------------
(***************************************************************************)
(* policy.Engine.Evaluate: the gates a remediation proposal passes, and    *)
(* what the orchestrator builds from the proposal the engine judged        *)
(* (buildProposal before, ActionBuilder.Build after).                      *)
(*                                                                         *)
(* The policy is one validatePolicyConfig accepts, reduced to the entries  *)
(* this proposal can meet: the rule of its failure mode, the rule of its   *)
(* namespace and whether that is protected.  Confidence is counted in      *)
(* steps, Scale of them being 1.0, and a memory factor in halves.  What    *)
(* the circuit breaker answers is arbitrary here (see CircuitBreaker).     *)
(***************************************************************************)
EXTENDS Integers, FiniteSets

CONSTANTS
  Scale,          \* confidence 1.0
  Confidences,    \* what the diagnoser may claim, outside 0..Scale included
  ActionTypes,    \* action types it may propose
  DefaultScale,   \* ORCHESTRATOR_DEFAULT_SCALE_REPLICAS
  MemFactor,      \* REMEDIATOR_MEMORY_BUMP_FACTOR, in halves
  Thresholds,     \* confidenceThreshold
  DeltaLimits,    \* blastRadius.maxReplicaDelta, 0 for no limit
  FactorLimits    \* blastRadius.maxMemoryBumpFactor in halves, 0 for no limit

ASSUME ConfidenceAssumption ==
  Scale \in Nat /\ Confidences \subseteq Int /\ Thresholds \subseteq 0..Scale
ASSUME SizeAssumption ==
  /\ DefaultScale \in Int /\ MemFactor \in Int
  /\ DeltaLimits \subseteq Nat /\ FactorLimits \subseteq Nat

VARIABLES
  cfg,       \* PolicyConfig
  proposal,  \* RemediationProposal
  gate,      \* the gate about to be evaluated
  level,     \* the effective autonomy level
  verdict,   \* Decision.Verdict so far
  built      \* the action built, with the size of its change

vars == <<cfg, proposal, gate, level, verdict, built>>

LevelOrder   == <<"observe", "propose", "auto-with-approval", "full-auto">>
Levels       == {LevelOrder[r] : r \in 1..4}
VerdictOrder == <<"BLOCK", "REQUIRE_APPROVAL", "AUTO">>

\* A failure mode with no rule has no allow-list either; "unset", the empty
\* string of the code, is a level that was left out of the file.
FailureModeRules ==
  [present : {FALSE}, autonomy : {"unset"}, allowed : {{}}]
    \union [present : {TRUE}, autonomy : Levels \union {"unset"},
            allowed : SUBSET ActionTypes]

Configs ==
  [default : Levels \union {"unset"}, mode : FailureModeRules,
   namespace : Levels \union {"unset"}, protected : BOOLEAN,
   threshold : Thresholds, maxDelta : DeltaLimits, maxFactor : FactorLimits]

-----------------------------------------------------------------------------
autonomyRank(a) == CHOOSE r \in 1..4 : LevelOrder[r] = a
verdictRank(v)  == CHOOSE r \in 1..3 : VerdictOrder[r] = v

downgrade(v) == IF verdictRank(v) < verdictRank(verdict) THEN v ELSE verdict

BugNoTarget(confidence, action) ==
  [confidence |-> confidence, action |-> action, target |-> 0,
   current |-> 0, factor |-> 0]

\* The orchestrator fills in neither the current replicas nor a memory factor.
buildProposal(confidence, action) ==
  [confidence |-> confidence, action |-> action, target |-> DefaultScale,
   current |-> 0, factor |-> 0]

\* One step of resolveAutonomy: a rule's level counts if it is given and lower.
BugRuleWins(current, rule) == IF rule # "unset" THEN rule ELSE current
Tighten(current, rule) ==
  IF rule # "unset" /\ autonomyRank(rule) < autonomyRank(current)
  THEN rule ELSE current

resolveAutonomy ==
  LET global == IF cfg.default = "unset" THEN "propose" ELSE cfg.default
  IN  Tighten(Tighten(global, cfg.mode.autonomy), cfg.namespace)

Abs(n) == IF n < 0 THEN -n ELSE n

\* What checkBlastRadius objects to.
TooWide ==
  CASE proposal.action = "scale-deployment" ->
         /\ cfg.maxDelta > 0
         /\ Abs(proposal.target - proposal.current) > cfg.maxDelta
    [] proposal.action = "bump-memory-limit" ->
         cfg.maxFactor > 0 /\ proposal.factor > cfg.maxFactor
    [] proposal.action = "rollback-deployment" -> FALSE
    [] OTHER -> TRUE

-----------------------------------------------------------------------------
Init ==
  /\ cfg \in Configs
  /\ \E c \in Confidences, a \in ActionTypes : proposal = buildProposal(c, a)
  /\ gate = "confidence"
  /\ level = "unset" /\ verdict = "AUTO"
  /\ built = [action |-> "none", size |-> 0]

\* Every gate: what it makes of the verdict, and the gate that follows it.
Pass(from, v, to) ==
  /\ gate = from /\ gate' = to
  /\ verdict' = v
  /\ UNCHANGED <<cfg, proposal, built>>

ValidateConfidence ==
  /\ IF proposal.confidence \in 0..Scale
     THEN Pass("confidence", verdict, "autonomy")
     ELSE Pass("confidence", "BLOCK", "decided")
  /\ UNCHANGED level

\* Observe blocks at once; propose always asks; the two automatic levels ask
\* below the threshold.
ResolveAutonomy ==
  /\ level' = resolveAutonomy
  /\ IF level' = "observe" THEN Pass("autonomy", "BLOCK", "decided")
     ELSE IF level' = "propose" \/ proposal.confidence < cfg.threshold
     THEN Pass("autonomy", downgrade("REQUIRE_APPROVAL"), "allow-list")
     ELSE Pass("autonomy", verdict, "allow-list")

CheckActionAllowList ==
  /\ IF cfg.mode.present /\ proposal.action \in cfg.mode.allowed
     THEN Pass("allow-list", verdict, "blast-radius")
     ELSE Pass("allow-list", downgrade("BLOCK"), "decided")
  /\ UNCHANGED level

Demand(from, asks, to) ==
  /\ Pass(from, IF asks THEN downgrade("REQUIRE_APPROVAL") ELSE verdict, to)
  /\ UNCHANGED level

CheckBlastRadius == Demand("blast-radius", TooWide, "namespace")

CheckProtectedNamespace == Demand("namespace", cfg.protected, "breaker")

\* The breaker is only asked about decisions that are still AUTO.
CheckCircuitBreaker ==
  \E tripped \in BOOLEAN :
    Demand("breaker", verdict = "AUTO" /\ tripped, "decided")

\* Stage 5 of the pipeline.  A rollback is never buildable, for its proposal
\* names no good image.
Build ==
  /\ gate = "decided" /\ verdict # "BLOCK"
  /\ gate' = "built"
  /\ built' =
       CASE proposal.action \in {"scale-deployment", "patch-hpa"} ->
              [action |-> proposal.action,
               size |-> IF proposal.target <= 0 THEN 2 ELSE proposal.target]
         [] proposal.action = "bump-memory-limit" ->
              [action |-> proposal.action,
               size |-> IF MemFactor <= 0 THEN 3 ELSE MemFactor]
         [] OTHER -> [action |-> "error", size |-> 0]
  /\ UNCHANGED <<cfg, proposal, level, verdict>>

Next == \/ ValidateConfidence \/ ResolveAutonomy \/ CheckActionAllowList
        \/ CheckBlastRadius \/ CheckProtectedNamespace \/ CheckCircuitBreaker
        \/ Build

Spec == Init /\ [][Next]_vars

-----------------------------------------------------------------------------
(* Properties.                                                             *)

Gates == {"confidence", "autonomy", "allow-list", "blast-radius", "namespace",
          "breaker", "decided", "built"}

\* Every variable has its type.
TypeOK ==
  /\ cfg \in Configs
  /\ proposal \in [confidence : Confidences, action : ActionTypes,
                   target : {DefaultScale}, current : {0}, factor : {0}]
  /\ gate \in Gates
  /\ level \in Levels \union {"unset"}
  /\ verdict \in {"BLOCK", "REQUIRE_APPROVAL", "AUTO"}
  /\ built \in [action : ActionTypes \union {"none", "error"}, size : Int]

\* The levels anybody configured, whatever the order they are looked up in.
Configured ==
  {IF cfg.default = "unset" THEN "propose" ELSE cfg.default}
    \union ({cfg.mode.autonomy, cfg.namespace} \ {"unset"})

MustBlock == \/ proposal.confidence \notin 0..Scale
             \/ "observe" \in Configured
             \/ proposal.action \notin cfg.mode.allowed

MustAsk == \/ "propose" \in Configured
           \/ proposal.confidence < cfg.threshold
           \/ TooWide
           \/ cfg.protected

\* The seven gates in their order decide what the policy says without any
\* order: block what any rule forbids, ask where any rule asks, and act alone
\* (breaker permitting) on nothing else.
VerdictIsPolicy ==
  gate \in {"decided", "built"} =>
    /\ verdict = "BLOCK" <=> MustBlock
    /\ verdict = "AUTO" => ~MustAsk
    /\ ~MustBlock /\ MustAsk => verdict = "REQUIRE_APPROVAL"

-----------------------------------------------------------------------------
(* What a comment of the code says of it.                                  *)

\* policy/config.go, MaxMemoryBumpFactor: the largest memory multiplier that is
\* applied without asking.
AutoWithinMemoryLimit ==
  verdict = "AUTO" /\ built.action = "bump-memory-limit" /\ cfg.maxFactor > 0
    => built.size <= cfg.maxFactor
=============================================================================
