------------------------------ MODULE Verifier ------------------------------
(***************************************************************************)
(* Verifier.Verify after an applied remediation: a grace delay, then polls  *)
(* of the correlator until too many signals for the target were seen or the *)
(* window is over.  The verifier sees only what the correlator keeps: the   *)
(* target's entry drops duplicates, and reopening it drops its old signals. *)
(*                                                                         *)
(* A poll interval is a tick, a poll may come late, and a signal reaches   *)
(* the correlator in the tick in which it was received.                    *)
(***************************************************************************)
EXTENDS Integers, FiniteSets

CONSTANTS
  Reasons,
  DedupWindow, ResolveWindow,              \* of the correlator, in ticks
  GraceDelay, Window, FailureThreshold,    \* VerifierConfig
  MaxSignals                               \* bound on the number of signals kept

ASSUME VerifierAssumption ==
  /\ DedupWindow \in Nat /\ ResolveWindow \in Nat \ {0}
  /\ GraceDelay \in Nat /\ Window \in Nat \ {0}
  /\ FailureThreshold \in Nat /\ MaxSignals \in Nat

VARIABLES
  phase,     \* "grace", "observing" or "returned"
  waited,    \* ticks in the phase
  observed,  \* allObserved, as signal IDs
  outcome,   \* VerificationResult.Outcome
  open, idle, seen, sigs,  \* the correlator's entry of the target
  recent,    \* the signals received since the window started
  nextId,
  heard,     \* history: a signal came in this tick
  gap        \* history: a tick of the phase passed without one

verifyVars == <<phase, waited, observed, outcome>>
entryVars  == <<open, idle, seen, sigs, recent, nextId>>
history    == <<heard, gap>>
verifierVars == <<verifyVars, entryVars, history>>

Ids == 1..MaxSignals
Min2(a, b) == IF a < b THEN a ELSE b

\* The incident that was remediated had closed.
VerifierInit ==
  /\ phase = "grace" /\ waited = 0 /\ observed = {} /\ outcome = "none"
  /\ open = FALSE /\ idle = ResolveWindow
  /\ seen = [r \in Reasons |-> DedupWindow]
  /\ sigs = {} /\ recent = {} /\ nextId = 1
  /\ heard = FALSE /\ gap = FALSE

-----------------------------------------------------------------------------
(* The correlator's entry (see Correlator).                                *)

Duplicate(reason) == open /\ seen[reason] < DedupWindow

Process(reason) ==
  /\ phase # "returned"
  /\ heard' = TRUE
  /\ IF Duplicate(reason) THEN UNCHANGED entryVars
     ELSE /\ nextId <= MaxSignals /\ nextId' = nextId + 1
          /\ open' = TRUE /\ idle' = 0
          /\ seen' = [r \in Reasons |-> IF r = reason THEN 0
                                        ELSE IF open THEN seen[r] ELSE DedupWindow]
          /\ sigs' = (IF open THEN sigs ELSE {}) \union {nextId}
          /\ recent' = IF phase = "observing" THEN recent \union {nextId} ELSE recent
  /\ UNCHANGED <<verifyVars, gap>>

ResolveStale ==
  /\ open /\ idle >= ResolveWindow
  /\ open' = FALSE
  /\ UNCHANGED <<verifyVars, idle, seen, sigs, recent, nextId, history>>

-----------------------------------------------------------------------------
(* Verify.                                                                 *)

\* The grace delay is over, and the window starts.
StartWindow ==
  /\ phase = "grace" /\ waited >= GraceDelay
  /\ phase' = "observing" /\ waited' = 0
  /\ heard' = FALSE /\ gap' = FALSE
  /\ UNCHANGED <<observed, outcome, entryVars>>

BugIgnoresSince == sigs
RecentSignalsFor == sigs \intersect recent

BugOffByOne(seenSoFar) == Cardinality(seenSoFar) > FailureThreshold + 1
TooMany(seenSoFar) == Cardinality(seenSoFar) > FailureThreshold

WindowOver == waited >= Window

\* A tick of the poll's ticker: signals are judged before the clock is.
Poll ==
  LET allObserved == observed \union RecentSignalsFor
  IN  /\ phase = "observing"
      /\ observed' = allObserved
      /\ \/ /\ TooMany(allObserved)
            /\ phase' = "returned" /\ outcome' = "FAILED"
         \/ /\ ~TooMany(allObserved) /\ WindowOver
            /\ phase' = "returned" /\ outcome' = "RECOVERED"
         \/ /\ ~TooMany(allObserved) /\ ~WindowOver
            /\ UNCHANGED <<phase, outcome>>
      /\ UNCHANGED <<waited, entryVars, history>>

Cancelled ==
  /\ phase # "returned"
  /\ phase' = "returned" /\ outcome' = "INCONCLUSIVE"
  /\ UNCHANGED <<waited, observed, entryVars, history>>

Tick ==
  /\ waited' = IF phase = "returned" THEN waited
               ELSE Min2(waited + 1, IF phase = "grace" THEN GraceDelay ELSE Window)
  /\ idle' = Min2(idle + 1, ResolveWindow)
  /\ seen' = [r \in Reasons |-> Min2(seen[r] + 1, DedupWindow)]
  /\ gap' = (gap \/ (phase # "returned" /\ ~heard))
  /\ heard' = FALSE
  /\ UNCHANGED <<phase, observed, outcome, open, sigs, recent, nextId>>

VerifierNext == \/ \E reason \in Reasons : Process(reason)
                \/ ResolveStale \/ StartWindow \/ Poll \/ Cancelled \/ Tick

VerifierSpec == VerifierInit /\ [][VerifierNext]_verifierVars

-----------------------------------------------------------------------------
(* Properties.                                                             *)

\* Every variable has its type, and what counts against the remediation came
\* after its grace delay.
VerifierTypeOK ==
  /\ phase \in {"grace", "observing", "returned"}
  /\ waited \in 0..(IF Window > GraceDelay THEN Window ELSE GraceDelay)
  /\ outcome \in {"none", "FAILED", "RECOVERED", "INCONCLUSIVE"}
  /\ open \in BOOLEAN /\ idle \in 0..ResolveWindow
  /\ seen \in [Reasons -> 0..DedupWindow]
  /\ sigs \subseteq Ids /\ recent \subseteq Ids /\ observed \subseteq recent
  /\ nextId \in 1..(MaxSignals + 1)
  /\ heard \in BOOLEAN /\ gap \in BOOLEAN

\* While signals keep coming, the counted ones are at most this far apart.
Spacing == IF DedupWindow = 0 THEN 1 ELSE DedupWindow

\* A failure that goes on, with a signal in every tick of the window, is never
\* reported as recovered, though most of its signals are dropped as duplicates
\* and polls are late: provided the window is long enough for the duplicates
\* of more than FailureThreshold signals.
PersistentFailureSeen ==
  Window > (FailureThreshold + 1) * Spacing /\ ResolveWindow > Spacing
    => ~(outcome = "RECOVERED" /\ ~gap)
=============================================================================
