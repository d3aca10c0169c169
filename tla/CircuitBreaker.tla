--------------------------- MODULE CircuitBreaker ---------------------------
(***************************************************************************)
(* The circuit breaker of the policy engine, shared by the goroutines that *)
(* call Evaluate: tripped() and record() take the mutex separately, and    *)
(* the persisted event is written after the mutex is released.  A crash    *)
(* loses what was not written; the next process hydrates from the store.   *)
(*                                                                         *)
(* A timestamp is represented by its age in ticks, so that time is         *)
(* unbounded and the state is finite.  Rows of circuit_breaker_events too  *)
(* old for any query are left out of db.                                   *)
(***************************************************************************)
EXTENDS Integers, Sequences, FiniteSets

CONSTANTS
  Evaluators,     \* goroutines that evaluate a proposal no other gate stopped
  MaxActions,     \* circuitBreaker.maxActionsPerWindow
  Window,         \* the rolling window in ticks
  MaxCrashes      \* bound on the number of crashes explored

ASSUME BreakerAssumption ==
  /\ MaxActions \in Nat /\ Window \in Nat \ {0}
  /\ MaxCrashes \in Nat
  /\ IsFiniteSet(Evaluators)

VARIABLES
  up,          \* the process runs
  timestamps,  \* circuitBreaker.timestamps, as ages
  db,          \* circuit_breaker_events, as ages
  pc,          \* where each evaluator is: "idle", "record" or "persist"
  autos,       \* history: ages of the AUTO decisions made
  crashes,     \* history: number of crashes
  storeFailed  \* history: a query of the store failed

breakerVars == <<up, timestamps, db, pc, autos, crashes, storeFailed>>

\* newCircuitBreaker: zero means the default of five.
max == IF MaxActions <= 0 THEN 5 ELSE MaxActions

BugNoSaturation(ages) == [i \in DOMAIN ages |-> ages[i] + 1]

\* Everything gets a tick older; Window + 1 stands for every greater age.
Older(ages) ==
  [i \in DOMAIN ages |-> IF ages[i] > Window THEN ages[i] ELSE ages[i] + 1]

\* The leading run of ages that are not below the limit, and what follows it.
LeadingRun(ages, limit) ==
  CHOOSE n \in 0..Len(ages) : /\ \A i \in 1..n : ages[i] >= limit
                              /\ n < Len(ages) => ages[n + 1] < limit
Younger(ages, limit) == SubSeq(ages, LeadingRun(ages, limit) + 1, Len(ages))

\* evict drops the leading run of timestamps before the cutoff, and only that.
Evicted == Younger(timestamps, Window + 1)

BugTripsLate == Len(Evicted) > max
tripped == Len(Evicted) >= max

-----------------------------------------------------------------------------
BreakerInit ==
  /\ up = TRUE
  /\ timestamps = <<>> /\ db = <<>> /\ autos = <<>>
  /\ pc = [g \in Evaluators |-> "idle"]
  /\ crashes = 0 /\ storeFailed = FALSE

Tick ==
  /\ timestamps' = Older(timestamps)
  /\ db' = Younger(Older(db), Window)
  /\ autos' = Younger(Older(autos), Window)
  /\ UNCHANGED <<up, pc, crashes, storeFailed>>

\* Gate 6: a tripped breaker asks for approval and records nothing.
Check(g) ==
  /\ up /\ pc[g] = "idle"
  /\ timestamps' = Evicted
  /\ pc' = [pc EXCEPT ![g] = IF tripped THEN "idle" ELSE "record"]
  /\ UNCHANGED <<up, db, autos, crashes, storeFailed>>

Record(g) ==
  /\ up /\ pc[g] = "record"
  /\ timestamps' = Append(timestamps, 0)
  /\ autos' = Append(autos, 0)
  /\ pc' = [pc EXCEPT ![g] = "persist"]
  /\ UNCHANGED <<up, db, crashes, storeFailed>>

\* RecordCBEvent stamps the row with its own time; its error is dropped.
Persist(g) ==
  /\ up /\ pc[g] = "persist"
  /\ \/ db' = Append(db, 0) /\ UNCHANGED storeFailed
     \/ db' = db /\ storeFailed' = TRUE
  /\ pc' = [pc EXCEPT ![g] = "idle"]
  /\ UNCHANGED <<up, timestamps, autos, crashes>>

Crash ==
  /\ up /\ crashes < MaxCrashes
  /\ up' = FALSE /\ crashes' = crashes + 1
  /\ timestamps' = <<>>
  /\ pc' = [g \in Evaluators |-> "idle"]
  /\ UNCHANGED <<db, autos, storeFailed>>

\* hydrate: a failed query leaves the breaker empty.
LoadCBEvents == db

Restart ==
  /\ ~up /\ up' = TRUE
  /\ \/ timestamps' = LoadCBEvents /\ UNCHANGED storeFailed
     \/ timestamps' = <<>> /\ storeFailed' = TRUE
  /\ UNCHANGED <<db, pc, autos, crashes>>

Evaluate(g) == Check(g) \/ Record(g) \/ Persist(g)

BreakerNext == Tick \/ Crash \/ Restart \/ \E g \in Evaluators : Evaluate(g)

BreakerSpec == BreakerInit /\ [][BreakerNext]_breakerVars

-----------------------------------------------------------------------------
(* Properties.                                                             *)

AgeSeq == Seq(0..(Window + 1))

\* Every variable has its type; nothing is recorded while the process is down.
BreakerTypeOK ==
  /\ up \in BOOLEAN
  /\ timestamps \in AgeSeq /\ db \in AgeSeq /\ autos \in AgeSeq
  /\ pc \in [Evaluators -> {"idle", "record", "persist"}]
  /\ crashes \in 0..MaxCrashes /\ storeFailed \in BOOLEAN

\* The rate of unattended changes: within a window no more AUTO decisions than
\* the limit, one more for each other goroutine that was past the check at the
\* same time, and after a crash those whose event was not yet stored; only
\* where the store failed, a full window's more.
RateBounded ==
  LET E == Cardinality(Evaluators)
  IN  Len(autos) <= IF storeFailed THEN (max - 1 + E) * (1 + crashes)
                    ELSE max - 1 + E * (1 + crashes)

=============================================================================
