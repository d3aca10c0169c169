---------------------------- MODULE PolicyProofs ----------------------------
(***************************************************************************)
(* Theorems about the policy engine, for every policy, confidence scale,   *)
(* set of action types and size of a change; and about the circuit breaker,*)
(* for every limit, window, number of goroutines and number of crashes.    *)
(***************************************************************************)
EXTENDS MCPolicy, FiniteSetTheorems, SequenceTheorems, WellFoundedInduction, TLAPS

-----------------------------------------------------------------------------
(* The engine: the two orders.                                             *)

LEMMA LevelRanks ==
  /\ Levels = {"observe", "propose", "auto-with-approval", "full-auto"}
  /\ autonomyRank("observe") = 1
  /\ autonomyRank("propose") = 2
  /\ autonomyRank("auto-with-approval") = 3
  /\ autonomyRank("full-auto") = 4
<1>1. /\ LevelOrder[1] = "observe" /\ LevelOrder[2] = "propose"
      /\ LevelOrder[3] = "auto-with-approval" /\ LevelOrder[4] = "full-auto"
  BY DEF LevelOrder
<1>2. \A r \in 1..4 : r = 1 \/ r = 2 \/ r = 3 \/ r = 4
  OBVIOUS
<1>3. Levels = {"observe", "propose", "auto-with-approval", "full-auto"}
  BY <1>1, <1>2 DEF Levels
<1>4. autonomyRank("observe") = 1
  BY <1>1, <1>2 DEF autonomyRank
<1>5. autonomyRank("propose") = 2
  BY <1>1, <1>2 DEF autonomyRank
<1>6. autonomyRank("auto-with-approval") = 3
  BY <1>1, <1>2 DEF autonomyRank
<1>7. autonomyRank("full-auto") = 4
  BY <1>1, <1>2 DEF autonomyRank
<1> QED  BY <1>3, <1>4, <1>5, <1>6, <1>7

LEMMA VerdictRanks ==
  /\ verdictRank("BLOCK") = 1
  /\ verdictRank("REQUIRE_APPROVAL") = 2
  /\ verdictRank("AUTO") = 3
<1>1. /\ VerdictOrder[1] = "BLOCK" /\ VerdictOrder[2] = "REQUIRE_APPROVAL"
      /\ VerdictOrder[3] = "AUTO"
  BY DEF VerdictOrder
<1>2. \A r \in 1..3 : r = 1 \/ r = 2 \/ r = 3
  OBVIOUS
<1>3. verdictRank("BLOCK") = 1
  BY <1>1, <1>2 DEF verdictRank
<1>4. verdictRank("REQUIRE_APPROVAL") = 2
  BY <1>1, <1>2 DEF verdictRank
<1>5. verdictRank("AUTO") = 3
  BY <1>1, <1>2 DEF verdictRank
<1> QED  BY <1>3, <1>4, <1>5

Verdicts == {"BLOCK", "REQUIRE_APPROVAL", "AUTO"}

\* A verdict is never raised again.
LEMMA Downgraded ==
  ASSUME verdict \in Verdicts
  PROVE  /\ downgrade("BLOCK") = "BLOCK"
         /\ downgrade("REQUIRE_APPROVAL") =
              IF verdict = "BLOCK" THEN "BLOCK" ELSE "REQUIRE_APPROVAL"
  BY VerdictRanks DEF downgrade, Verdicts

\* The effective level is the lowest that is configured, in whatever order
\* the rules are looked up; one below full automation is never lost.
LEMMA LowestLevel ==
  ASSUME cfg \in Configs
  PROVE  /\ resolveAutonomy \in Levels
         /\ resolveAutonomy = "observe" <=> "observe" \in Configured
         /\ resolveAutonomy # "observe" =>
              (resolveAutonomy = "propose" <=> "propose" \in Configured)
<1> DEFINE global == IF cfg.default = "unset" THEN "propose" ELSE cfg.default
           second == Tighten(global, cfg.mode.autonomy)
<1>1. /\ cfg.default \in Levels \union {"unset"}
      /\ cfg.mode.autonomy \in Levels \union {"unset"}
      /\ cfg.namespace \in Levels \union {"unset"}
  BY DEF Configs, FailureModeRules
<1>2. global \in Levels
  BY <1>1, LevelRanks
<1>3. \A a \in Levels, b \in Levels \union {"unset"} :
        /\ Tighten(a, b) \in Levels
        /\ Tighten(a, b) = "observe" <=> a = "observe" \/ b = "observe"
        /\ Tighten(a, b) # "observe" =>
             (Tighten(a, b) = "propose" <=> a = "propose" \/ b = "propose")
  <2> SUFFICES ASSUME NEW a \in Levels, NEW b \in Levels \union {"unset"}
               PROVE  /\ Tighten(a, b) \in Levels
                      /\ Tighten(a, b) = "observe" <=> a = "observe" \/ b = "observe"
                      /\ Tighten(a, b) # "observe" =>
                           (Tighten(a, b) = "propose" <=> a = "propose" \/ b = "propose")
    OBVIOUS
  <2>1. CASE b = "unset"
    BY <2>1, LevelRanks DEF Tighten
  <2>2. CASE b = "observe"
    BY <2>2, LevelRanks DEF Tighten
  <2>3. CASE b = "propose"
    BY <2>3, LevelRanks DEF Tighten
  <2>4. CASE b \in {"auto-with-approval", "full-auto"}
    BY <2>4, LevelRanks DEF Tighten
  <2> QED  BY <2>1, <2>2, <2>3, <2>4, LevelRanks
<1>4. resolveAutonomy = Tighten(second, cfg.namespace)
  BY DEF resolveAutonomy
<1>5. Configured = {global} \union ({cfg.mode.autonomy, cfg.namespace} \ {"unset"})
  BY DEF Configured
<1> HIDE DEF global
<1>6. /\ second \in Levels
      /\ second = "observe" <=> "observe" \in {global, cfg.mode.autonomy}
      /\ second # "observe" =>
           (second = "propose" <=> "propose" \in {global, cfg.mode.autonomy})
  BY <1>1, <1>2, <1>3
<1> HIDE DEF second
<1>7. resolveAutonomy \in Levels
  BY <1>1, <1>3, <1>4, <1>6
<1>8. resolveAutonomy = "observe" <=> "observe" \in Configured
  BY <1>1, <1>3, <1>4, <1>5, <1>6
<1>9. resolveAutonomy # "observe" =>
        (resolveAutonomy = "propose" <=> "propose" \in Configured)
  BY <1>1, <1>3, <1>4, <1>5, <1>6
<1> QED  BY <1>7, <1>8, <1>9

-----------------------------------------------------------------------------
(* What is known after each gate.                                          *)

After(gates) == gate \notin gates /\ verdict # "BLOCK"

\* A verdict that is not BLOCK has passed the gates so far; BLOCK ends the
\* evaluation and has a reason.
Judged ==
  /\ verdict = "BLOCK" => gate = "decided" /\ MustBlock
  /\ After({"confidence"}) => proposal.confidence \in 0..Scale
  /\ After({"confidence", "autonomy"}) =>
       /\ "observe" \notin Configured
       /\ "propose" \in Configured \/ proposal.confidence < cfg.threshold
            => verdict = "REQUIRE_APPROVAL"
  /\ After({"confidence", "autonomy", "allow-list"}) =>
       proposal.action \in cfg.mode.allowed
  /\ After({"confidence", "autonomy", "allow-list", "blast-radius"}) =>
       (TooWide => verdict = "REQUIRE_APPROVAL")
  /\ After({"confidence", "autonomy", "allow-list", "blast-radius",
            "namespace"}) =>
       (cfg.protected => verdict = "REQUIRE_APPROVAL")

IInv == TypeOK /\ Judged

LEMMA InitTypeOK == Init => TypeOK
<1> SUFFICES ASSUME Init PROVE TypeOK
  OBVIOUS
<1>1. PICK c \in Confidences, a \in ActionTypes : proposal = buildProposal(c, a)
  BY DEF Init
<1>2. proposal \in [confidence : Confidences, action : ActionTypes,
                   target : {DefaultScale}, current : {0}, factor : {0}]
  BY <1>1 DEF buildProposal
<1>3. built \in [action : ActionTypes \union {"none", "error"}, size : Int]
  BY DEF Init
<1> QED  BY <1>2, <1>3 DEF Init, TypeOK, Gates

LEMMA NextTypeOK == TypeOK /\ [Next]_vars => TypeOK'
<1> SUFFICES ASSUME TypeOK, [Next]_vars PROVE TypeOK'
  OBVIOUS
<1>0. downgrade("BLOCK") \in Verdicts /\ downgrade("REQUIRE_APPROVAL") \in Verdicts
  BY Downgraded DEF TypeOK, Verdicts
<1> USE <1>0 DEF TypeOK, Pass, Gates, Verdicts
<1>1. CASE ValidateConfidence  BY <1>1 DEF ValidateConfidence
<1>2. CASE ResolveAutonomy  BY <1>2, LowestLevel DEF ResolveAutonomy
<1>3. CASE CheckActionAllowList  BY <1>3 DEF CheckActionAllowList
<1>4. CASE CheckBlastRadius  BY <1>4 DEF CheckBlastRadius, Demand
<1>5. CASE CheckProtectedNamespace
  BY <1>5 DEF CheckProtectedNamespace, Demand
<1>6. CASE CheckCircuitBreaker  BY <1>6 DEF CheckCircuitBreaker, Demand
<1>7. CASE Build
  <2>1. proposal.action \in ActionTypes /\ proposal.target = DefaultScale
    OBVIOUS
  <2>2. built' \in [action : ActionTypes \union {"none", "error"}, size : Int]
    <3> DEFINE size(n, d) == IF n <= 0 THEN d ELSE n
    <3>1. size(DefaultScale, 2) \in Int /\ size(MemFactor, 3) \in Int
      BY SizeAssumption
    <3>2. CASE proposal.action \in {"scale-deployment", "patch-hpa"}
      BY <1>7, <2>1, <3>1, <3>2 DEF Build
    <3>3. CASE proposal.action = "bump-memory-limit"
      BY <1>7, <2>1, <3>1, <3>3 DEF Build
    <3>4. CASE proposal.action \notin {"scale-deployment", "patch-hpa",
                                      "bump-memory-limit"}
      <4>1. built' = [action |-> "error", size |-> 0]
        BY <1>7, <3>4 DEF Build
      <4> QED  BY <4>1
    <3> QED  BY <3>2, <3>3, <3>4
  <2> QED  BY <1>7, <2>2 DEF Build
<1>8. CASE UNCHANGED vars  BY <1>8 DEF vars
<1> QED
  BY <1>1, <1>2, <1>3, <1>4, <1>5, <1>6, <1>7, <1>8 DEF Next

LEMMA InitJudged == Init => Judged
  BY DEF Init, Judged, After

LEMMA NextJudged == TypeOK /\ Judged /\ [Next]_vars => Judged'
<1> SUFFICES ASSUME TypeOK, Judged, [Next]_vars PROVE Judged'
  OBVIOUS
<1>0. /\ downgrade("BLOCK") = "BLOCK"
      /\ downgrade("REQUIRE_APPROVAL") =
           IF verdict = "BLOCK" THEN "BLOCK" ELSE "REQUIRE_APPROVAL"
      /\ verdict \in Verdicts
  BY Downgraded DEF TypeOK, Verdicts
<1>1. CASE UNCHANGED <<cfg, proposal, gate, verdict>>
  BY <1>1 DEF Judged, After, MustBlock, Configured, TooWide
<1>2. ASSUME UNCHANGED <<cfg, proposal>>
      PROVE  UNCHANGED <<Configured, MustBlock, TooWide>>
  BY <1>2 DEF Configured, MustBlock, TooWide
<1>3. cfg \in Configs /\ gate \in Gates
  BY DEF TypeOK
<1> USE <1>0, <1>2 DEF Judged, After, Pass
<1>4. CASE ValidateConfidence
  BY <1>4 DEF ValidateConfidence, MustBlock, Verdicts
<1>5. CASE ResolveAutonomy
  BY <1>3, <1>5, LowestLevel DEF ResolveAutonomy, MustBlock, Verdicts
<1>6. CASE CheckActionAllowList
  <2>1. ~cfg.mode.present => cfg.mode.allowed = {}
    BY <1>3 DEF Configs, FailureModeRules
  <2> QED  BY <1>6, <2>1 DEF CheckActionAllowList, MustBlock, Verdicts
<1>7. CASE CheckBlastRadius
  BY <1>7 DEF CheckBlastRadius, Demand, Verdicts
<1>8. CASE CheckProtectedNamespace
  BY <1>8 DEF CheckProtectedNamespace, Demand, Verdicts
<1>9. CASE CheckCircuitBreaker
  BY <1>9 DEF CheckCircuitBreaker, Demand, Verdicts
<1>10. CASE Build
  BY <1>10 DEF Build
<1> QED
  BY <1>1, <1>4, <1>5, <1>6, <1>7, <1>8, <1>9, <1>10 DEF Next, vars

LEMMA AlwaysJudged == Spec => []IInv
<1>1. Init => IInv
  BY InitTypeOK, InitJudged DEF IInv
<1>2. IInv /\ [Next]_vars => IInv'
  BY NextTypeOK, NextJudged DEF IInv
<1> QED  BY <1>1, <1>2, PTL DEF Spec

-----------------------------------------------------------------------------

\* The verdict of the ordered gates is the order-free reading of the policy.
THEOREM GatesDecidePolicy == Spec => []VerdictIsPolicy
<1>1. IInv => VerdictIsPolicy
  BY DEF IInv, TypeOK, Judged, After, VerdictIsPolicy, MustBlock, MustAsk
<1> QED  BY <1>1, AlwaysJudged, PTL

-----------------------------------------------------------------------------
(* The circuit breaker.                                                    *)

\* Of the decisions in A, oldest first, all but k are in S, and none of those is older
\* there.
Covers(S, A, k) ==
  /\ Len(A) <= Len(S) + k
  /\ \A p \in 1..(Len(A) - k) : S[p + (Len(S) + k - Len(A))] <= A[p]

At(at, step) == {g \in Evaluators : at[g] = step}
E == Cardinality(Evaluators)

\* How many decisions of a window n lives of the process take, beyond the limit of one, and
\* may keep from the next: those of goroutines that overlap; where the store fails, all.
Overlaps(n) == E * n
Full(n)     == (max - 1 + E) * n

Lives == IF up THEN crashes + 1 ELSE crashes

\* The decisions on the record, but for those past crashes lost.
Remembered(missed) ==
  /\ missed \in 0..IF storeFailed THEN Full(crashes) ELSE Overlaps(crashes)
  /\ up => Covers(timestamps, autos, missed)
  /\ ~storeFailed => Covers(db, autos, Cardinality(At(pc, "persist")) + missed)

Recent == Len(autos) > 0 => autos[1] < Window
AtRest == ~up => crashes >= 1 /\ \A g \in Evaluators : pc[g] = "idle"
WithinBound ==
  Len(autos) + Cardinality(At(pc, "record"))
    <= IF storeFailed THEN Full(Lives) ELSE max - 1 + Overlaps(Lives)

BInv == BreakerTypeOK /\ Recent /\ AtRest /\ WithinBound /\ \E missed \in Nat : Remembered(missed)

LEMMA LeastNatural ==
  ASSUME NEW T, T \subseteq Nat, T # {}
  PROVE  \E m \in T : \A k \in T : m <= k
<1>1. PICK m \in T : \A k \in T : ~(<<k, m>> \in OpToRel(<, Nat))
  BY NatLessThanWellFounded, WFMin
<1>2. \A k \in T : ~(k < m)
  BY <1>1 DEF OpToRel
<1> QED  BY <1>2

LEMMA BreakerNumbers ==
  /\ Window \in Nat /\ Window >= 1 /\ max \in Nat /\ max >= 1 /\ E \in Nat
  /\ MaxCrashes \in Nat /\ IsFiniteSet(Evaluators)
<1>1. E \in Nat /\ IsFiniteSet(Evaluators)
  BY BreakerAssumption, FS_CardinalityType DEF E
<1> QED  BY <1>1, BreakerAssumption DEF max

LEMMA AgesAre ==
  ASSUME NEW ages \in AgeSeq
  PROVE  /\ Len(ages) \in Nat /\ DOMAIN ages = 1..Len(ages)
         /\ \A i \in 1..Len(ages) : ages[i] \in 0..(Window + 1)
<1> DEFINE D == 0..(Window + 1)
<1>1. ages \in Seq(D)
  BY DEF AgeSeq
<1> HIDE DEF D
<1>2. Len(ages) \in Nat /\ DOMAIN ages = 1..Len(ages) /\ \A i \in 1..Len(ages) : ages[i] \in D
  BY <1>1
<1> QED  BY <1>2 DEF D

\* There is a leading run, which may be empty or everything.
LEMMA LeadingRunIs ==
  ASSUME NEW ages \in AgeSeq, NEW limit \in Nat
  PROVE  LET n == LeadingRun(ages, limit) IN
         /\ n \in 0..Len(ages)
         /\ \A i \in 1..n : ages[i] >= limit
         /\ n < Len(ages) => ages[n + 1] < limit
<1> DEFINE Is(n) == /\ \A i \in 1..n : ages[i] >= limit
                    /\ n < Len(ages) => ages[n + 1] < limit
           Below == {n \in Nat : n < Len(ages) /\ ages[n + 1] < limit}
<1>1. Len(ages) \in Nat /\ \A i \in 1..Len(ages) : ages[i] \in Nat
  BY BreakerNumbers DEF AgeSeq
<1>2. \E n \in 0..Len(ages) : Is(n)
  <2>1. CASE Below = {}
    <3>1. ASSUME NEW i \in 1..Len(ages) PROVE ages[i] >= limit
      <4>1. i - 1 \in Nat /\ i - 1 < Len(ages) /\ (i - 1) + 1 = i
        BY <1>1
      <4>2. ~(ages[(i - 1) + 1] < limit)
        BY <2>1, <4>1
      <4> QED  BY <1>1, <4>1, <4>2
    <3> QED  BY <1>1, <3>1
  <2>2. CASE Below # {}
    <3>1. Below \subseteq Nat
      OBVIOUS
    <3> PICK m \in Below : \A k \in Below : m <= k
      <4> HIDE DEF Below
      <4> QED  BY <2>2, <3>1, LeastNatural
    <3>2. ASSUME NEW i \in 1..m PROVE ages[i] >= limit
      <4>1. i - 1 \in Nat /\ i - 1 < m /\ (i - 1) + 1 = i /\ i \in 1..Len(ages)
        BY <1>1
      <4>2. i - 1 \notin Below
        BY <4>1
      <4>3. ~(ages[(i - 1) + 1] < limit)
        BY <1>1, <4>1, <4>2
      <4> QED  BY <1>1, <4>1, <4>3
    <3>3. m \in 0..Len(ages) /\ Is(m)
      BY <1>1, <3>2
    <3> QED  BY <3>3
  <2> QED  BY <2>1, <2>2
<1> HIDE DEF Is
<1>3. LeadingRun(ages, limit) = CHOOSE n \in 0..Len(ages) : Is(n)
  BY DEF LeadingRun, Is
<1>4. LeadingRun(ages, limit) \in 0..Len(ages) /\ Is(LeadingRun(ages, limit))
  BY <1>2, <1>3
<1> QED  BY <1>4 DEF Is

LEMMA YoungerIs ==
  ASSUME NEW ages \in AgeSeq, NEW limit \in Nat
  PROVE  LET n == LeadingRun(ages, limit) IN
         /\ Younger(ages, limit) \in AgeSeq
         /\ Len(Younger(ages, limit)) = Len(ages) - n
         /\ \A i \in 1..(Len(ages) - n) : Younger(ages, limit)[i] = ages[n + i]
<1> DEFINE n == LeadingRun(ages, limit)
<1>1. n \in 0..Len(ages) /\ Len(ages) \in Nat /\ \A i \in 1..Len(ages) : ages[i] \in 0..(Window + 1)
  BY LeadingRunIs, AgesAre
<1> HIDE DEF n
<1>2. \A i \in (n + 1)..Len(ages) : ages[i] \in 0..(Window + 1)
  BY <1>1
<1>3. /\ SubSeq(ages, n + 1, Len(ages)) \in Seq(0..(Window + 1))
      /\ Len(SubSeq(ages, n + 1, Len(ages))) = Len(ages) - n
      /\ \A i \in 1..(Len(ages) - n) : SubSeq(ages, n + 1, Len(ages))[i] = ages[n + i]
  <2> DEFINE D == 0..(Window + 1)
             t == SubSeq(ages, n + 1, Len(ages))
  <2>1. /\ t \in Seq(D) /\ Len(t) = IF n + 1 <= Len(ages) THEN Len(ages) - (n + 1) + 1 ELSE 0
        /\ \A i \in 1..(Len(ages) - (n + 1) + 1) : t[i] = ages[(n + 1) + i - 1]
    <3> HIDE DEF D
    <3>1. \A i \in (n + 1)..Len(ages) : ages[i] \in D
      BY <1>2 DEF D
    <3> QED  BY <1>1, <3>1, SubSeqProperties
  <2> HIDE DEF t, D
  <2>2. Len(t) = Len(ages) - n
    BY <1>1, <2>1
  <2>3. ASSUME NEW i \in 1..(Len(ages) - n) PROVE t[i] = ages[n + i]
    <3>1. i \in 1..(Len(ages) - (n + 1) + 1) /\ (n + 1) + i - 1 = n + i
      BY <1>1
    <3> QED  BY <2>1, <3>1
  <2> QED  BY <2>1, <2>2, <2>3 DEF t, D
<1> QED  BY <1>3 DEF Younger, n, AgeSeq

LEMMA OlderIs ==
  ASSUME NEW ages \in AgeSeq
  PROVE  /\ Older(ages) \in AgeSeq /\ Len(Older(ages)) = Len(ages)
         /\ \A i \in 1..Len(ages) :
              Older(ages)[i] = IF ages[i] > Window THEN ages[i] ELSE ages[i] + 1
<1>1. /\ Len(ages) \in Nat /\ DOMAIN ages = 1..Len(ages)
      /\ \A i \in 1..Len(ages) : ages[i] \in 0..(Window + 1)
  BY AgesAre
<1>2. \A i \in 1..Len(ages) :
        (IF ages[i] > Window THEN ages[i] ELSE ages[i] + 1) \in 0..(Window + 1)
  BY <1>1, BreakerNumbers
<1>3. Older(ages) = [i \in 1..Len(ages) |-> IF ages[i] > Window THEN ages[i] ELSE ages[i] + 1]
  BY <1>1 DEF Older
<1> QED  BY <1>1, <1>2, <1>3 DEF AgeSeq

LEMMA FirstIsYoung ==
  ASSUME NEW ages \in AgeSeq, NEW limit \in Nat, Len(Younger(ages, limit)) > 0
  PROVE  Younger(ages, limit)[1] < limit
<1> DEFINE n == LeadingRun(ages, limit)
<1>1. n \in 0..Len(ages) /\ (n < Len(ages) => ages[n + 1] < limit) /\ Len(ages) \in Nat
  BY LeadingRunIs, AgesAre
<1>2. /\ Len(Younger(ages, limit)) = Len(ages) - n
      /\ \A i \in 1..(Len(ages) - n) : Younger(ages, limit)[i] = ages[n + i]
  BY YoungerIs
<1> HIDE DEF n
<1>3. n < Len(ages) /\ 1 \in 1..(Len(ages) - n)
  BY <1>1, <1>2
<1>4. Younger(ages, limit)[1] = ages[n + 1]
  BY <1>2, <1>3
<1> QED  BY <1>1, <1>3, <1>4

\* Decisions that leave the window need no cover.
LEMMA ForgetCovered ==
  ASSUME NEW S \in AgeSeq, NEW A \in AgeSeq, NEW k \in Nat, NEW limit \in Nat, Covers(S, A, k)
  PROVE  Covers(S, Younger(A, limit), k)
<1> DEFINE a == LeadingRun(A, limit)
           A2 == Younger(A, limit)
<1>1. a \in 0..Len(A) /\ Len(S) \in Nat /\ Len(A) \in Nat
  BY LeadingRunIs, AgesAre
<1>2. Len(A2) = Len(A) - a /\ \A i \in 1..(Len(A) - a) : A2[i] = A[a + i]
  BY YoungerIs
<1>3. /\ Len(A) <= Len(S) + k
      /\ \A p \in 1..(Len(A) - k) : S[p + (Len(S) + k - Len(A))] <= A[p]
  BY DEF Covers
<1> HIDE DEF a, A2
<1>4. ASSUME NEW p \in 1..(Len(A2) - k) PROVE S[p + (Len(S) + k - Len(A2))] <= A2[p]
  <2>1. /\ a + p \in 1..(Len(A) - k) /\ p \in 1..(Len(A) - a)
        /\ p + (Len(S) + k - Len(A2)) = (a + p) + (Len(S) + k - Len(A))
    BY <1>1, <1>2
  <2>2. S[(a + p) + (Len(S) + k - Len(A))] <= A[a + p] /\ A2[p] = A[a + p]
    BY <1>2, <1>3, <2>1
  <2> QED  BY <2>1, <2>2
<1>5. Len(A2) <= Len(S) + k
  BY <1>1, <1>2, <1>3
<1> QED  BY <1>4, <1>5 DEF Covers, A2

\* What covers the first decision is too young to be dropped.
LEMMA EvictCovered ==
  ASSUME NEW S \in AgeSeq, NEW A \in AgeSeq, NEW k \in Nat, NEW limit \in Nat, Covers(S, A, k),
         Len(A) > 0 => A[1] < limit
  PROVE  Covers(Younger(S, limit), A, k)
<1> DEFINE s == LeadingRun(S, limit)
           S2 == Younger(S, limit)
           d == Len(S) + k - Len(A)
<1>1. s \in 0..Len(S) /\ \A i \in 1..s : S[i] >= limit
  BY LeadingRunIs
<1>2. Len(S2) = Len(S) - s /\ \A i \in 1..(Len(S) - s) : S2[i] = S[s + i]
  BY YoungerIs
<1>3. /\ Len(S) \in Nat /\ Len(A) \in Nat
      /\ \A i \in 1..Len(S) : S[i] \in Nat
      /\ \A i \in 1..Len(A) : A[i] \in Nat
  BY AgesAre, BreakerNumbers
<1>4. Len(A) <= Len(S) + k /\ \A p \in 1..(Len(A) - k) : S[p + d] <= A[p]
  BY DEF Covers
<1> HIDE DEF s, S2
<1>5. CASE Len(A) <= k
  <2>1. Len(A) <= Len(S2) + k /\ 1..(Len(A) - k) = {}
    BY <1>1, <1>2, <1>3, <1>5
  <2> QED  BY <2>1 DEF Covers, S2
<1>6. CASE Len(A) > k
  <2>1. 1 \in 1..(Len(A) - k) /\ 1 \in 1..Len(A) /\ 1 + d \in 1..Len(S) /\ d \in Nat
    BY <1>3, <1>4, <1>6
  <2>2. S[1 + d] < limit
    <3>1. S[1 + d] <= A[1] /\ A[1] < limit /\ S[1 + d] \in Nat /\ A[1] \in Nat
      BY <1>3, <1>4, <1>6, <2>1
    <3> HIDE DEF d
    <3> QED  BY <3>1
  <2>3. s <= d
    <3>1. 1 + d \notin 1..s
      <4> SUFFICES ASSUME 1 + d \in 1..s PROVE FALSE
        OBVIOUS
      <4>1. S[1 + d] >= limit /\ S[1 + d] \in Nat
        BY <1>1, <1>3, <2>1
      <4> HIDE DEF d
      <4> QED  BY <2>2, <4>1
    <3> QED  BY <1>1, <1>3, <2>1, <3>1
  <2>4. ASSUME NEW p \in 1..(Len(A) - k) PROVE S2[p + (Len(S2) + k - Len(A))] <= A[p]
    <3>1. /\ p + (Len(S2) + k - Len(A)) = p + d - s
          /\ p + d - s \in 1..(Len(S) - s) /\ s + (p + d - s) = p + d
      BY <1>1, <1>2, <1>3, <2>3, <1>4
    <3>2. S[p + d] <= A[p] /\ S2[p + d - s] = S[s + (p + d - s)]
      BY <1>2, <1>4, <3>1
    <3> HIDE DEF d
    <3> QED  BY <3>1, <3>2
  <2>5. Len(A) <= Len(S2) + k
    BY <1>1, <1>2, <1>3, <1>4, <2>3
  <2> QED  BY <2>4, <2>5 DEF Covers, S2
<1> QED  BY <1>3, <1>5, <1>6

LEMMA YoungerCovered ==
  ASSUME NEW S \in AgeSeq, NEW A \in AgeSeq, NEW k \in Nat, NEW limit \in Nat, Covers(S, A, k)
  PROVE  Covers(Younger(S, limit), Younger(A, limit), k)
<1>1. Younger(A, limit) \in AgeSeq
  BY YoungerIs
<1>2. Covers(S, Younger(A, limit), k)
  BY ForgetCovered
<1>3. Len(Younger(A, limit)) > 0 => Younger(A, limit)[1] < limit
  BY FirstIsYoung
<1> HIDE DEF Covers
<1> QED  BY <1>1, <1>2, <1>3, EvictCovered

LEMMA OlderCovered ==
  ASSUME NEW S \in AgeSeq, NEW A \in AgeSeq, NEW k \in Nat, Covers(S, A, k)
  PROVE  Covers(Older(S), Older(A), k)
<1>1. /\ Len(S) \in Nat /\ Len(A) \in Nat
      /\ \A i \in 1..Len(S) : S[i] \in 0..(Window + 1)
      /\ \A i \in 1..Len(A) : A[i] \in 0..(Window + 1)
  BY AgesAre
<1>2. /\ Len(A) <= Len(S) + k
      /\ \A p \in 1..(Len(A) - k) : S[p + (Len(S) + k - Len(A))] <= A[p]
  BY DEF Covers
<1>3. Len(Older(S)) = Len(S) /\ Len(Older(A)) = Len(A)
  BY OlderIs
<1>4. ASSUME NEW p \in 1..(Len(A) - k)
      PROVE  Older(S)[p + (Len(S) + k - Len(A))] <= Older(A)[p]
  <2> DEFINE q == p + (Len(S) + k - Len(A))
  <2>1. q \in 1..Len(S) /\ p \in 1..Len(A)
    BY <1>1, <1>2
  <2>2. S[q] <= A[p]
    BY <1>2
  <2> HIDE DEF q
  <2>3. /\ Older(S)[q] = IF S[q] > Window THEN S[q] ELSE S[q] + 1
        /\ Older(A)[p] = IF A[p] > Window THEN A[p] ELSE A[p] + 1
        /\ S[q] \in 0..(Window + 1) /\ A[p] \in 0..(Window + 1)
    BY <1>1, <2>1, OlderIs
  <2>4. Older(S)[q] <= Older(A)[p]
    BY <2>2, <2>3, BreakerNumbers
  <2> QED  BY <2>4 DEF q
<1> QED  BY <1>2, <1>3, <1>4 DEF Covers

LEMMA AppendAge ==
  ASSUME NEW ages \in AgeSeq
  PROVE  /\ Append(ages, 0) \in AgeSeq /\ Len(Append(ages, 0)) = Len(ages) + 1
         /\ \A i \in 1..Len(ages) : Append(ages, 0)[i] = ages[i]
         /\ Append(ages, 0)[Len(ages) + 1] = 0
<1> DEFINE D == 0..(Window + 1)
<1>1. ages \in Seq(D) /\ 0 \in D
  BY BreakerNumbers DEF AgeSeq
<1> HIDE DEF D
<1>2. /\ Append(ages, 0) \in Seq(D) /\ Len(Append(ages, 0)) = Len(ages) + 1
      /\ \A i \in 1..Len(ages) : Append(ages, 0)[i] = ages[i]
      /\ Append(ages, 0)[Len(ages) + 1] = 0
  BY <1>1
<1> QED  BY <1>2 DEF D, AgeSeq

\* A new decision, recorded at once, or still to be.
LEMMA AppendCovered ==
  ASSUME NEW S \in AgeSeq, NEW A \in AgeSeq, NEW k \in Nat, Covers(S, A, k)
  PROVE  /\ Covers(Append(S, 0), Append(A, 0), k)
         /\ Covers(S, Append(A, 0), k + 1)
         /\ k > 0 => Covers(Append(S, 0), A, k - 1)
<1>1. /\ Len(S) \in Nat /\ Len(A) \in Nat
      /\ \A i \in 1..Len(A) : A[i] \in Nat
  BY AgesAre
<1>2. /\ Len(A) <= Len(S) + k
      /\ \A p \in 1..(Len(A) - k) : S[p + (Len(S) + k - Len(A))] <= A[p]
  BY DEF Covers
<1> DEFINE S2 == Append(S, 0)
           A2 == Append(A, 0)
           d  == Len(S) + k - Len(A)
<1>3. /\ Len(S2) = Len(S) + 1 /\ Len(A2) = Len(A) + 1
      /\ \A i \in 1..Len(S) : S2[i] = S[i]
      /\ \A i \in 1..Len(A) : A2[i] = A[i]
      /\ S2[Len(S) + 1] = 0 /\ A2[Len(A) + 1] = 0
  BY AppendAge
<1> HIDE DEF S2, A2
<1>4. d \in Nat /\ \A p \in 1..(Len(A) - k) : S[p + d] <= A[p] /\ p + d \in 1..Len(S)
  BY <1>1, <1>2
<1>5. Covers(S2, A2, k)
  <2>1. Len(S2) + k - Len(A2) = d /\ Len(A2) <= Len(S2) + k
    BY <1>1, <1>2, <1>3
  <2>2. ASSUME NEW p \in 1..(Len(A2) - k) PROVE S2[p + d] <= A2[p]
    <3>1. CASE p \in 1..(Len(A) - k)
      <4>1. p \in 1..Len(A)
        BY <1>1, <3>1
      <4> QED  BY <1>3, <1>4, <3>1, <4>1
    <3>2. CASE p \notin 1..(Len(A) - k)
      <4>1. p \in 1..(Len(A) + 1 - k) /\ p \notin 1..(Len(A) - k)
        BY <1>1, <1>3, <3>2
      <4>2. p = Len(A) + 1 - k /\ p \in 1..(Len(A) + 1)
        BY <1>1, <4>1
      <4>3. p + d = Len(S) + 1
        BY <1>1, <4>2
      <4>4. A2[p] \in Nat
        BY <1>1, <1>3, <4>2
      <4> QED  BY <1>3, <4>3, <4>4
    <3> QED  BY <3>1, <3>2
  <2> QED  BY <2>1, <2>2 DEF Covers
<1>6. Covers(S, A2, k + 1)
  <2>1. Len(S) + (k + 1) - Len(A2) = d /\ Len(A2) <= Len(S) + (k + 1) /\ Len(A2) - (k + 1) = Len(A) - k
    BY <1>1, <1>2, <1>3
  <2>2. ASSUME NEW p \in 1..(Len(A) - k) PROVE S[p + d] <= A2[p]
    <3>1. p \in 1..Len(A)
      BY <1>1
    <3> QED  BY <1>3, <1>4, <3>1
  <2> QED  BY <2>1, <2>2 DEF Covers
<1>7. ASSUME k > 0 PROVE Covers(S2, A, k - 1)
  <2>1. Len(S2) + (k - 1) - Len(A) = d /\ Len(A) <= Len(S2) + (k - 1)
    BY <1>1, <1>2, <1>3
  <2>2. ASSUME NEW p \in 1..(Len(A) - (k - 1)) PROVE S2[p + d] <= A[p]
    <3>1. CASE p \in 1..(Len(A) - k)
      BY <1>3, <1>4, <3>1
    <3>2. CASE p \notin 1..(Len(A) - k)
      <4>1. p + d = Len(S) + 1 /\ p \in 1..Len(A)
        BY <1>1, <1>7, <3>2
      <4> QED  BY <1>1, <1>3, <4>1
    <3> QED  BY <3>1, <3>2
  <2> QED  BY <2>1, <2>2 DEF Covers
<1> QED  BY <1>5, <1>6, <1>7 DEF S2, A2

\* A life more: what it may miss and what it may take.
LEMMA LivesAdd ==
  ASSUME NEW n \in Nat
  PROVE  /\ Overlaps(n) \in Nat /\ Full(n) \in Nat
         /\ Overlaps(n + 1) = Overlaps(n) + E /\ Full(n + 1) = Full(n) + (max - 1) + E
         /\ Overlaps(n) <= Full(n)
         /\ n >= 1 => max - 1 + Overlaps(n) <= Full(n)
<1> DEFINE M == max - 1
           P == E * n
           Q == M * n
<1>1. M \in Nat /\ E \in Nat
  BY BreakerNumbers
<1> HIDE DEF M
<1>2. P \in Nat /\ Q \in Nat
  BY <1>1
<1>3. E * (n + 1) = P + E /\ (M + E) * n = Q + P /\ (M + E) * (n + 1) = Q + P + M + E
  BY <1>1
<1>4. n >= 1 => M <= Q
  <2> SUFFICES ASSUME n >= 1 PROVE M <= Q
    OBVIOUS
  <2>1. M * n = M + M * (n - 1) /\ M * (n - 1) >= 0
    BY <1>1
  <2> QED  BY <1>1, <2>1
<1>5. /\ Overlaps(n) = P /\ Overlaps(n + 1) = P + E
      /\ Full(n) = Q + P /\ Full(n + 1) = Q + P + M + E
  BY <1>3 DEF Overlaps, Full, M
<1> HIDE DEF P, Q
<1> QED  BY <1>1, <1>2, <1>4, <1>5 DEF M

\* How many goroutines are at a step.
LEMMA Counted ==
  ASSUME NEW at \in [Evaluators -> {"idle", "record", "persist"}], NEW step
  PROVE  /\ IsFiniteSet(At(at, step)) /\ Cardinality(At(at, step)) \in 0..E
         /\ (\A g \in Evaluators : at[g] # step) => Cardinality(At(at, step)) = 0
<1>1. At(at, step) \subseteq Evaluators
  BY DEF At
<1>2. /\ IsFiniteSet(At(at, step)) /\ Cardinality(At(at, step)) <= E
      /\ Cardinality(At(at, step)) \in Nat /\ E \in Nat
  BY <1>1, BreakerNumbers, FS_Subset, FS_CardinalityType DEF E
<1>3. (\A g \in Evaluators : at[g] # step) => At(at, step) = {}
  BY DEF At
<1> QED  BY <1>2, <1>3, FS_EmptySet

LEMMA CountedMoves ==
  ASSUME NEW at \in [Evaluators -> {"idle", "record", "persist"}], NEW g \in Evaluators,
         NEW to \in {"idle", "record", "persist"}, NEW step
  PROVE  LET old == Cardinality(At(at, step))
             new == Cardinality(At([at EXCEPT ![g] = to], step))
         IN  new = IF at[g] = step /\ to # step THEN old - 1
                   ELSE IF at[g] # step /\ to = step THEN old + 1
                   ELSE old
<1> DEFINE at2 == [at EXCEPT ![g] = to]
<1>1. IsFiniteSet(At(at, step)) /\ Cardinality(At(at, step)) \in Nat
  BY Counted
<1>2. CASE at[g] = step /\ to # step
  <2>1. At(at2, step) = At(at, step) \ {g} /\ g \in At(at, step)
    BY <1>2 DEF At
  <2> QED  BY <1>1, <1>2, <2>1, FS_RemoveElement
<1>3. CASE at[g] # step /\ to = step
  <2>1. At(at2, step) = At(at, step) \cup {g} /\ g \notin At(at, step)
    BY <1>3 DEF At
  <2> QED  BY <1>1, <1>3, <2>1, FS_AddElement
<1>4. CASE (at[g] = step) = (to = step)
  <2>1. At(at2, step) = At(at, step)
    BY <1>4 DEF At
  <2> QED  BY <1>4, <2>1
<1> QED  BY <1>2, <1>3, <1>4

-----------------------------------------------------------------------------
(* Each step of the breaker keeps the decisions covered.                   *)

LEMMA BreakerStarts == BreakerInit => BInv
<1> SUFFICES ASSUME BreakerInit PROVE BInv
  OBVIOUS
<1>1. <<>> \in AgeSeq /\ Len(<<>>) = 0
  BY DEF AgeSeq
<1>2. BreakerTypeOK
  <2>1. up \in BOOLEAN /\ storeFailed \in BOOLEAN
    BY DEF BreakerInit
  <2>2. timestamps \in AgeSeq /\ db \in AgeSeq /\ autos \in AgeSeq
    BY <1>1 DEF BreakerInit
  <2>3. pc \in [Evaluators -> {"idle", "record", "persist"}]
    BY DEF BreakerInit
  <2>4. crashes \in 0..MaxCrashes
    BY BreakerNumbers DEF BreakerInit
  <2> QED  BY <2>1, <2>2, <2>3, <2>4 DEF BreakerTypeOK
<1>3. \A step \in {"record", "persist"} : Cardinality(At(pc, step)) = 0
  BY <1>2, Counted DEF BreakerInit, BreakerTypeOK
<1>4. Overlaps(0) \in Nat /\ Overlaps(0 + 1) = Overlaps(0) + E
  BY LivesAdd
<1>5. Remembered(0)
  <2>1. Covers(<<>>, <<>>, 0)
    BY <1>1 DEF Covers
  <2> QED  BY <1>3, <1>4, <2>1 DEF BreakerInit, Remembered
<1>6. WithinBound
  BY <1>1, <1>3, <1>4, BreakerNumbers DEF BreakerInit, WithinBound, Lives
<1> QED  BY <1>1, <1>2, <1>5, <1>6 DEF BreakerInit, BInv, Recent, AtRest

LEMMA BreakerTypes == BreakerTypeOK /\ [BreakerNext]_breakerVars => BreakerTypeOK'
<1> SUFFICES ASSUME BreakerTypeOK, [BreakerNext]_breakerVars PROVE BreakerTypeOK'
  OBVIOUS
<1>1. <<>> \in AgeSeq
  BY DEF AgeSeq
<1>2. /\ \A ages \in AgeSeq : Older(ages) \in AgeSeq /\ Append(ages, 0) \in AgeSeq
      /\ \A ages \in AgeSeq, limit \in Nat : Younger(ages, limit) \in AgeSeq
  BY OlderIs, AppendAge, YoungerIs
<1>3. Window \in Nat /\ Window + 1 \in Nat /\ MaxCrashes \in Nat
  BY BreakerNumbers
<1>4. CASE Tick
  BY <1>2, <1>3, <1>4 DEF Tick, BreakerTypeOK
<1>5. ASSUME NEW g \in Evaluators, Evaluate(g) PROVE BreakerTypeOK'
  BY <1>2, <1>3, <1>5 DEF Evaluate, Check, Record, Persist, Evicted, BreakerTypeOK
<1>6. CASE Crash
  <2>1. timestamps' \in AgeSeq /\ db' \in AgeSeq /\ autos' \in AgeSeq
    BY <1>1, <1>6 DEF Crash, BreakerTypeOK
  <2>2. pc' \in [Evaluators -> {"idle", "record", "persist"}]
    BY <1>6 DEF Crash
  <2>3. crashes' \in 0..MaxCrashes
    BY <1>3, <1>6 DEF Crash, BreakerTypeOK
  <2>4. up' \in BOOLEAN /\ storeFailed' \in BOOLEAN
    BY <1>6 DEF Crash, BreakerTypeOK
  <2> QED  BY <2>1, <2>2, <2>3, <2>4 DEF BreakerTypeOK
<1>7. CASE Restart
  BY <1>1, <1>7 DEF Restart, LoadCBEvents, BreakerTypeOK
<1>8. CASE UNCHANGED breakerVars
  BY <1>8 DEF breakerVars, BreakerTypeOK
<1> QED  BY <1>4, <1>5, <1>6, <1>7, <1>8 DEF BreakerNext

LEMMA TickKeeps == BInv /\ BreakerTypeOK' /\ Tick => BInv'
<1> SUFFICES ASSUME BInv, BreakerTypeOK', Tick PROVE BInv'
  OBVIOUS
<1>1. timestamps \in AgeSeq /\ db \in AgeSeq /\ autos \in AgeSeq /\ Window \in Nat
  BY BreakerNumbers DEF BInv, BreakerTypeOK
<1> PICK missed \in Nat : Remembered(missed)
  BY DEF BInv
<1> DEFINE T == Older(timestamps)
           D == Older(db)
           A == Older(autos)
<1>2. T \in AgeSeq /\ D \in AgeSeq /\ A \in AgeSeq /\ Len(A) = Len(autos)
  BY <1>1, OlderIs
<1>3. timestamps' = T /\ db' = Younger(D, Window) /\ autos' = Younger(A, Window)
  BY DEF Tick
<1>4. UNCHANGED <<up, pc, crashes, storeFailed>>
  BY DEF Tick
<1> DEFINE k == Cardinality(At(pc, "persist"))
<1>5. k \in Nat /\ k + missed \in Nat
  BY Counted DEF BInv, BreakerTypeOK
<1>6. up => Covers(T, A, missed)
  BY <1>1, OlderCovered DEF Remembered
<1>7. ~storeFailed => Covers(D, A, k + missed)
  BY <1>1, <1>5, OlderCovered DEF Remembered
<1> HIDE DEF T, D, A
<1>8. Remembered(missed)'
  <2>1. up => Covers(T, Younger(A, Window), missed)
    BY <1>1, <1>2, <1>6, ForgetCovered
  <2>2. ~storeFailed => Covers(Younger(D, Window), Younger(A, Window), k + missed)
    BY <1>1, <1>2, <1>5, <1>7, YoungerCovered
  <2> QED  BY <1>3, <1>4, <2>1, <2>2 DEF Remembered
<1>9. Recent'
  <2>1. Len(Younger(A, Window)) > 0 => Younger(A, Window)[1] < Window
    BY <1>1, <1>2, FirstIsYoung
  <2> QED  BY <1>3, <2>1 DEF Recent
<1>10. WithinBound'
  <2>1. Len(autos') \in Nat /\ Len(autos') <= Len(autos)
    <3>0. Len(A) \in Nat
      BY <1>2, AgesAre
    <3> DEFINE a == LeadingRun(A, Window)
    <3>1. Len(Younger(A, Window)) = Len(A) - a
      BY <1>1, <1>2, YoungerIs
    <3>3. a \in 0..Len(A)
      BY <1>1, <1>2, LeadingRunIs
    <3> HIDE DEF a
    <3>2. Len(autos') \in Nat /\ Len(autos) \in Nat
      BY <1>1, AgesAre DEF BreakerTypeOK
    <3> QED  BY <1>2, <1>3, <3>0, <3>1, <3>2, <3>3
  <2>2. Lives' = Lives /\ Cardinality(At(pc, "record"))' = Cardinality(At(pc, "record"))
    BY <1>4 DEF Lives
  <2>3. Cardinality(At(pc, "record")) \in Nat /\ Len(autos) \in Nat
    BY <1>1, Counted, AgesAre DEF BInv, BreakerTypeOK
  <2>4. /\ Lives \in Nat /\ Full(Lives) \in Nat /\ Overlaps(Lives) \in Nat
        /\ storeFailed' = storeFailed
    <3>1. Lives \in Nat
      BY DEF BInv, BreakerTypeOK, Lives
    <3> QED  BY <1>4, <3>1, LivesAdd
  <2> QED  BY <2>1, <2>2, <2>3, <2>4, BreakerNumbers DEF BInv, WithinBound
<1>11. AtRest'
  BY <1>4 DEF BInv, AtRest
<1> QED  BY <1>8, <1>9, <1>10, <1>11 DEF BInv

\* A check that passes saw less than the limit, and knows of all but the missed.
LEMMA CheckKeeps ==
  ASSUME BInv, BreakerTypeOK', NEW g \in Evaluators, Check(g)
  PROVE  BInv'
<1>1. /\ timestamps \in AgeSeq /\ autos \in AgeSeq /\ Window \in Nat /\ Window + 1 \in Nat
      /\ pc \in [Evaluators -> {"idle", "record", "persist"}] /\ crashes \in Nat
  BY BreakerNumbers DEF BInv, BreakerTypeOK
<1> PICK missed \in Nat : Remembered(missed)
  BY DEF BInv
<1>2. /\ up /\ timestamps' = Evicted /\ pc[g] = "idle"
      /\ pc' = [pc EXCEPT ![g] = IF tripped THEN "idle" ELSE "record"]
      /\ UNCHANGED <<up, db, autos, crashes, storeFailed>>
  BY DEF Check
<1>3. Covers(Evicted, autos, missed)
  <2>1. Len(autos) > 0 => autos[1] < Window + 1
    BY <1>1, AgesAre DEF BInv, Recent
  <2>2. Covers(timestamps, autos, missed)
    BY <1>2 DEF Remembered
  <2> QED  BY <1>1, <2>1, <2>2, EvictCovered DEF Evicted
<1>4. Cardinality(At(pc', "persist")) = Cardinality(At(pc, "persist"))
  BY <1>1, <1>2, CountedMoves
<1>5. Remembered(missed)'
  BY <1>2, <1>3, <1>4 DEF Remembered
<1>6. WithinBound'
  <2>1. Lives' = crashes + 1 /\ Lives = crashes + 1
    BY <1>2 DEF Lives
  <2>2. CASE tripped
    <3>1. pc' = pc
      BY <1>1, <1>2, <2>2
    <3> QED  BY <1>2, <2>1, <3>1 DEF BInv, WithinBound
  <2>3. CASE ~tripped
    <3>1. Len(autos) <= Len(Evicted) + missed /\ Len(Evicted) < max
      BY <1>1, <1>3, <2>3, BreakerNumbers, YoungerIs, AgesAre DEF Covers, tripped, Evicted
    <3>2. Cardinality(At(pc', "record")) \in 0..E
      BY Counted DEF BreakerTypeOK
    <3>3. Len(Evicted) \in Nat /\ Len(autos) \in Nat
      BY <1>1, YoungerIs, AgesAre DEF Evicted
    <3>4. missed \in 0..IF storeFailed THEN Full(crashes) ELSE Overlaps(crashes)
      BY DEF Remembered
    <3>5. /\ Overlaps(crashes) \in Nat /\ Full(crashes) \in Nat
          /\ Overlaps(crashes + 1) = Overlaps(crashes) + E
          /\ Full(crashes + 1) = Full(crashes) + (max - 1) + E
      BY <1>1, LivesAdd
    <3>6. Len(autos) + Cardinality(At(pc', "record"))
            <= IF storeFailed THEN Full(crashes + 1) ELSE max - 1 + Overlaps(crashes + 1)
      <4> DEFINE r == Cardinality(At(pc', "record"))
                 o == Overlaps(crashes)
                 f == Full(crashes)
                 o2 == Overlaps(crashes + 1)
                 f2 == Full(crashes + 1)
                 e == Len(Evicted)
                 a == Len(autos)
      <4> HIDE DEF r, o, f, o2, f2, e, a
      <4>1. a + r <= IF storeFailed THEN f2 ELSE max - 1 + o2
        BY <3>1, <3>2, <3>3, <3>4, <3>5, BreakerNumbers DEF r, o, f, o2, f2, e, a
      <4> QED  BY <4>1 DEF r, o2, f2, a
    <3> QED  BY <1>2, <2>1, <3>6 DEF WithinBound
  <2> QED  BY <2>2, <2>3
<1>7. Recent' /\ AtRest'
  BY <1>2 DEF BInv, Recent, AtRest
<1> QED  BY <1>5, <1>6, <1>7 DEF BInv

LEMMA RecordKeeps ==
  ASSUME BInv, BreakerTypeOK', NEW g \in Evaluators, Record(g)
  PROVE  BInv'
<1>1. /\ timestamps \in AgeSeq /\ autos \in AgeSeq /\ db \in AgeSeq /\ Window \in Nat
      /\ Window >= 1
      /\ pc \in [Evaluators -> {"idle", "record", "persist"}]
  BY BreakerNumbers DEF BInv, BreakerTypeOK
<1> PICK missed \in Nat : Remembered(missed)
  BY DEF BInv
<1>2. /\ up /\ timestamps' = Append(timestamps, 0) /\ autos' = Append(autos, 0)
      /\ pc[g] = "record" /\ pc' = [pc EXCEPT ![g] = "persist"]
      /\ UNCHANGED <<up, db, crashes, storeFailed>>
  BY DEF Record
<1> DEFINE k == Cardinality(At(pc, "persist"))
           r == Cardinality(At(pc, "record"))
<1>3. /\ k \in Nat /\ k + missed \in Nat /\ r \in Nat
      /\ Cardinality(At(pc', "persist")) = k + 1
      /\ Cardinality(At(pc', "record")) = r - 1
  <2>1. k \in Nat /\ r \in Nat
    BY <1>1, Counted
  <2>2. Cardinality(At(pc', "persist")) = k + 1
    BY <1>1, <1>2, CountedMoves
  <2>3. Cardinality(At(pc', "record")) = r - 1
    BY <1>1, <1>2, CountedMoves
  <2> QED  BY <2>1, <2>2, <2>3
<1>4. Remembered(missed)'
  <2>1. Covers(Append(timestamps, 0), Append(autos, 0), missed)
    BY <1>1, <1>2, AppendCovered DEF Remembered
  <2>2. ~storeFailed => Covers(db, Append(autos, 0), (k + 1) + missed)
    <3>1. (k + 1) + missed = (k + missed) + 1
      BY <1>3
    <3> QED  BY <1>1, <1>3, <3>1, AppendCovered DEF Remembered
  <2> QED  BY <1>2, <1>3, <2>1, <2>2 DEF Remembered
<1>5. Recent'
  <2>1. /\ Len(autos) \in Nat /\ Len(autos') = Len(autos) + 1
        /\ \A i \in 1..Len(autos) : autos'[i] = autos[i]
        /\ autos'[Len(autos) + 1] = 0
    BY <1>1, <1>2, AppendAge, AgesAre
  <2>2. CASE Len(autos) = 0
    <3>1. autos'[1] = 0
      BY <2>1, <2>2
    <3> QED  BY <1>1, <3>1 DEF Recent
  <2>3. CASE Len(autos) > 0
    BY <1>1, <2>1, <2>3 DEF Recent, BInv
  <2> QED  BY <2>1, <2>2, <2>3
<1>6. WithinBound'
  <2>1. Len(autos') + Cardinality(At(pc', "record")) = Len(autos) + r
    BY <1>1, <1>2, <1>3, AppendAge, AgesAre
  <2> QED  BY <1>2, <2>1 DEF BInv, WithinBound, Lives
<1>7. AtRest'
  BY <1>2 DEF AtRest
<1> QED  BY <1>4, <1>5, <1>6, <1>7 DEF BInv

LEMMA PersistKeeps ==
  ASSUME BInv, BreakerTypeOK', NEW g \in Evaluators, Persist(g)
  PROVE  BInv'
<1>1. /\ timestamps \in AgeSeq /\ autos \in AgeSeq /\ db \in AgeSeq
      /\ pc \in [Evaluators -> {"idle", "record", "persist"}] /\ crashes \in Nat
  BY BreakerNumbers DEF BInv, BreakerTypeOK
<1> PICK missed \in Nat : Remembered(missed)
  BY DEF BInv
<1>2. /\ up /\ pc[g] = "persist" /\ pc' = [pc EXCEPT ![g] = "idle"]
      /\ UNCHANGED <<up, timestamps, autos, crashes>>
      /\ \/ db' = Append(db, 0) /\ UNCHANGED storeFailed
         \/ db' = db /\ storeFailed' = TRUE
  BY DEF Persist
<1> DEFINE k == Cardinality(At(pc, "persist"))
<1>3. /\ k \in Nat /\ k - 1 \in Nat
      /\ Cardinality(At(pc', "persist")) = k - 1
      /\ Cardinality(At(pc', "record")) = Cardinality(At(pc, "record"))
  <2>1. k \in Nat
    BY <1>1, Counted
  <2>2. Cardinality(At(pc', "persist")) = k - 1
    BY <1>1, <1>2, CountedMoves
  <2>3. Cardinality(At(pc', "record")) = Cardinality(At(pc, "record"))
    BY <1>1, <1>2, CountedMoves
  <2>4. Cardinality(At(pc', "persist")) \in Nat
    BY Counted DEF BreakerTypeOK
  <2> QED  BY <2>1, <2>2, <2>3, <2>4
<1>4. /\ Overlaps(crashes) <= Full(crashes) /\ Overlaps(crashes) \in Nat
      /\ Full(crashes) \in Nat
  BY <1>1, LivesAdd
<1>5. Remembered(missed)'
  <2>1. missed \in 0..IF storeFailed' THEN Full(crashes) ELSE Overlaps(crashes)
    BY <1>2, <1>4 DEF Remembered
  <2>2. ASSUME ~storeFailed' PROVE Covers(db', autos, (k - 1) + missed)
    <3>1. ~storeFailed /\ db' = Append(db, 0)
      BY <1>2, <2>2
    <3>2. Covers(db, autos, k + missed) /\ k + missed \in Nat /\ k + missed > 0
          /\ (k + missed) - 1 = (k - 1) + missed
      BY <1>3, <3>1 DEF Remembered
    <3> QED  BY <1>1, <3>1, <3>2, AppendCovered
  <2> QED  BY <1>2, <1>3, <2>1, <2>2 DEF Remembered
<1>6. WithinBound'
  <2>1. Lives = crashes + 1 /\ Lives' = crashes + 1
    BY <1>2 DEF Lives
  <2>2. max - 1 + Overlaps(crashes + 1) <= Full(crashes + 1)
    BY <1>1, LivesAdd
  <2>3. /\ Overlaps(crashes + 1) \in Nat /\ Full(crashes + 1) \in Nat /\ Len(autos) \in Nat
        /\ Cardinality(At(pc, "record")) \in Nat
    <3>1. crashes + 1 \in Nat
      BY <1>1
    <3>2. Cardinality(At(pc, "record")) \in 0..E
      BY <1>1, Counted
    <3>3. Cardinality(At(pc, "record")) \in Nat
      BY <3>2, BreakerNumbers
    <3>4. Len(autos) \in Nat
      BY <1>1, AgesAre
    <3>5. Overlaps(crashes + 1) \in Nat /\ Full(crashes + 1) \in Nat
      BY <3>1, LivesAdd
    <3> QED  BY <3>3, <3>4, <3>5
  <2>4. Len(autos) + Cardinality(At(pc, "record"))
          <= IF storeFailed THEN Full(crashes + 1) ELSE max - 1 + Overlaps(crashes + 1)
    BY <2>1 DEF BInv, WithinBound
  <2> DEFINE l == Len(autos) + Cardinality(At(pc, "record"))
             o == Overlaps(crashes + 1)
             f == Full(crashes + 1)
  <2>5. l \in Nat /\ o \in Nat /\ f \in Nat
    BY <2>3
  <2> HIDE DEF l, o, f
  <2>6. l <= IF storeFailed' THEN f ELSE max - 1 + o
    BY <1>2, <2>2, <2>4, <2>5, BreakerNumbers DEF l, o, f
  <2> QED  BY <1>2, <1>3, <2>1, <2>6 DEF WithinBound, l, o, f
<1>7. Recent' /\ AtRest'
  BY <1>2 DEF BInv, Recent, AtRest
<1> QED  BY <1>5, <1>6, <1>7 DEF BInv

\* A crash adds the decisions not yet written to those the next life misses.
LEMMA CrashKeeps == BInv /\ BreakerTypeOK' /\ Crash => BInv'
<1> SUFFICES ASSUME BInv, BreakerTypeOK', Crash PROVE BInv'
  OBVIOUS
<1>1. /\ autos \in AgeSeq /\ crashes \in Nat
      /\ pc \in [Evaluators -> {"idle", "record", "persist"}]
      /\ pc' \in [Evaluators -> {"idle", "record", "persist"}]
  BY BreakerNumbers DEF BInv, BreakerTypeOK
<1> PICK missed \in Nat : Remembered(missed)
  BY DEF BInv
<1>2. /\ up /\ up' = FALSE /\ crashes' = crashes + 1 /\ \A g \in Evaluators : pc'[g] = "idle"
      /\ UNCHANGED <<db, autos, storeFailed>>
  BY DEF Crash
<1> DEFINE k == Cardinality(At(pc, "persist"))
<1>3. k \in 0..E /\ Cardinality(At(pc', "persist")) = 0 /\ Cardinality(At(pc', "record")) = 0
  <2>1. k \in 0..E
    BY <1>1, Counted
  <2>2. \A step \in {"record", "persist"} : \A g \in Evaluators : pc'[g] # step
    BY <1>2
  <2> QED  BY <1>1, <2>1, <2>2, Counted
<1>4. /\ Overlaps(crashes + 1) = Overlaps(crashes) + E /\ Overlaps(crashes) \in Nat
      /\ Full(crashes + 1) \in Nat
  BY <1>1, LivesAdd
<1>5. \E m \in Nat : Remembered(m)'
  <2>1. CASE storeFailed
    <3>1. Remembered(0)'
      BY <1>2, <1>4, <2>1 DEF Remembered
    <3> QED  BY <3>1
  <2>2. CASE ~storeFailed
    <3>1. k + missed \in Nat /\ k + missed \in 0..Overlaps(crashes + 1)
      BY <1>3, <1>4, <2>2, BreakerNumbers DEF Remembered
    <3>2. Covers(db, autos, 0 + (k + missed))
      BY <2>2, <3>1 DEF Remembered
    <3> PICK m \in Nat : m = k + missed
      BY <3>1
    <3>3. m \in 0..Overlaps(crashes') /\ Covers(db', autos', Cardinality(At(pc', "persist")) + m)
      BY <1>2, <1>3, <3>1, <3>2
    <3>4. Remembered(m)'
      BY <1>2, <2>2, <3>3 DEF Remembered
    <3> QED  BY <3>4
  <2> QED  BY <2>1, <2>2
<1>6. WithinBound'
  <2>1. Lives = crashes + 1 /\ Lives' = crashes + 1
    BY <1>2 DEF Lives
  <2>2. Cardinality(At(pc, "record")) \in Nat /\ Len(autos) \in Nat
    BY <1>1, Counted, AgesAre
  <2>3. /\ Overlaps(crashes + 1) \in Nat /\ Full(crashes + 1) \in Nat
    BY <1>1, LivesAdd
  <2> DEFINE l == Len(autos)
             r == Cardinality(At(pc, "record"))
             o == Overlaps(crashes + 1)
             f == Full(crashes + 1)
  <2>4. l + r <= IF storeFailed THEN f ELSE max - 1 + o
    BY <2>1 DEF BInv, WithinBound
  <2>5. l \in Nat /\ o \in Nat /\ f \in Nat /\ r \in Nat
    BY <2>2, <2>3
  <2> HIDE DEF l, o, f, r
  <2>6. l + 0 <= IF storeFailed THEN f ELSE max - 1 + o
    BY <2>4, <2>5, BreakerNumbers
  <2> QED  BY <1>2, <1>3, <2>1, <2>6 DEF WithinBound, l, o, f
<1>7. Recent' /\ AtRest'
  BY <1>1, <1>2 DEF BInv, Recent, AtRest
<1> QED  BY <1>5, <1>6, <1>7 DEF BInv

\* A process that starts knows what the store kept; where a query failed it may know of
\* nothing, and there may be a full bound of decisions to miss.
LEMMA RestartKeeps == BInv /\ BreakerTypeOK' /\ Restart => BInv'
<1> SUFFICES ASSUME BInv, BreakerTypeOK', Restart PROVE BInv'
  OBVIOUS
<1>1. /\ autos \in AgeSeq /\ crashes \in Nat /\ Len(autos) \in Nat
      /\ pc \in [Evaluators -> {"idle", "record", "persist"}]
  BY BreakerNumbers, AgesAre DEF BInv, BreakerTypeOK
<1>2. /\ ~up /\ up' = TRUE /\ UNCHANGED <<db, pc, autos, crashes>>
      /\ \/ timestamps' = db /\ UNCHANGED storeFailed
         \/ timestamps' = <<>> /\ storeFailed' = TRUE
  BY DEF Restart, LoadCBEvents
<1>3. crashes >= 1 /\ \A g \in Evaluators : pc[g] = "idle"
  BY <1>2 DEF BInv, AtRest
<1>4. Cardinality(At(pc, "persist")) = 0 /\ Cardinality(At(pc, "record")) = 0
  <2>1. \A step \in {"record", "persist"} : \A g \in Evaluators : pc[g] # step
    BY <1>3
  <2> QED  BY <1>1, <2>1, Counted
<1> DEFINE a == Len(autos)
           o == Overlaps(crashes)
           f == Full(crashes)
           o2 == Overlaps(crashes + 1)
           f2 == Full(crashes + 1)
<1>5. /\ o \in Nat /\ f \in Nat /\ o <= f /\ o2 = o + E /\ f2 = f + (max - 1) + E
      /\ max - 1 + o <= f /\ a \in Nat
  BY <1>1, <1>3, LivesAdd
<1>6. a <= IF storeFailed THEN f ELSE max - 1 + o
  <2>1. Lives = crashes
    BY <1>2 DEF Lives
  <2>2. a + 0 <= IF storeFailed THEN f ELSE max - 1 + o
    BY <1>4, <2>1 DEF BInv, WithinBound
  <2> HIDE DEF a, o, f
  <2> QED  BY <1>5, <2>2
<1>7. \E m \in Nat : Remembered(m)'
  <2>1. CASE storeFailed'
    <3>1. a \in 0..f
      <4>1. CASE storeFailed
        <5> HIDE DEF a, o, f, o2, f2
        <5> QED  BY <1>5, <1>6, <4>1
      <4>2. CASE ~storeFailed
        <5> HIDE DEF a, o, f, o2, f2
        <5> QED  BY <1>5, <1>6, <4>2, BreakerNumbers
      <4> QED  BY <4>1, <4>2
    <3>2. \A S \in AgeSeq : Covers(S, autos, Len(autos))
      <4> SUFFICES ASSUME NEW S \in AgeSeq PROVE Covers(S, autos, Len(autos))
        OBVIOUS
      <4>1. Len(S) \in Nat
        BY AgesAre
      <4> QED  BY <1>1, <4>1 DEF Covers
    <3>3. timestamps' \in AgeSeq
      BY DEF BreakerTypeOK
    <3>4. Remembered(a)'
      BY <1>2, <2>1, <3>1, <3>2, <3>3 DEF Remembered
    <3> QED  BY <1>1, <3>4
  <2>2. CASE ~storeFailed'
    <3>1. timestamps' = db /\ ~storeFailed
      BY <1>2, <2>2
    <3> PICK missed \in Nat : Remembered(missed)
      BY DEF BInv
    <3>2. Covers(db, autos, missed)
      BY <1>4, <3>1 DEF Remembered
    <3>3. Remembered(missed)'
      BY <1>2, <1>4, <2>2, <3>1, <3>2 DEF Remembered
    <3> QED  BY <3>3
  <2> QED  BY <2>1, <2>2
<1>8. WithinBound'
  <2>1. Lives' = crashes + 1
    BY <1>2 DEF Lives
  <2>2. a + 0 <= IF storeFailed' THEN f2 ELSE max - 1 + o2
    <3>1. storeFailed => storeFailed'
      BY <1>2
    <3> HIDE DEF a, o, f, o2, f2
    <3> QED  BY <1>5, <1>6, <3>1, BreakerNumbers
  <2> QED  BY <1>2, <1>4, <2>1, <2>2 DEF WithinBound
<1>9. Recent' /\ AtRest'
  BY <1>2 DEF BInv, Recent, AtRest
<1> QED  BY <1>7, <1>8, <1>9 DEF BInv

LEMMA BreakerKeeps == BInv /\ [BreakerNext]_breakerVars => BInv'
<1> SUFFICES ASSUME BInv, [BreakerNext]_breakerVars PROVE BInv'
  OBVIOUS
<1>1. BreakerTypeOK'
  BY BreakerTypes DEF BInv
<1>2. CASE Tick
  BY <1>1, <1>2, TickKeeps
<1>3. ASSUME NEW g \in Evaluators, Evaluate(g) PROVE BInv'
  BY <1>1, <1>3, CheckKeeps, RecordKeeps, PersistKeeps DEF Evaluate
<1>4. CASE Crash
  BY <1>1, <1>4, CrashKeeps
<1>5. CASE Restart
  BY <1>1, <1>5, RestartKeeps
<1>6. CASE UNCHANGED breakerVars
  BY <1>1, <1>6 DEF breakerVars, BInv, Recent, AtRest, WithinBound, Lives, Remembered
<1> QED  BY <1>2, <1>3, <1>4, <1>5, <1>6 DEF BreakerNext

LEMMA BoundFollows == BInv => RateBounded
<1> SUFFICES ASSUME BInv PROVE RateBounded
  OBVIOUS
<1>1. /\ crashes \in Nat /\ autos \in AgeSeq
      /\ pc \in [Evaluators -> {"idle", "record", "persist"}]
  BY BreakerNumbers DEF BInv, BreakerTypeOK
<1> DEFINE a == Len(autos)
           r == Cardinality(At(pc, "record"))
           o == Overlaps(crashes)
           f == Full(crashes)
           o2 == Overlaps(crashes + 1)
           f2 == Full(crashes + 1)
<1>2. a \in Nat /\ r \in 0..E
  BY <1>1, AgesAre, Counted
<1>3. o \in Nat /\ f \in Nat /\ o2 = o + E /\ f2 = f + (max - 1) + E
  BY <1>1, LivesAdd
<1>4. a + r <= IF storeFailed THEN (IF up THEN f2 ELSE f)
               ELSE max - 1 + (IF up THEN o2 ELSE o)
  BY DEF BInv, WithinBound, Lives
<1>5. a <= IF storeFailed THEN f2 ELSE max - 1 + o2
  <2> HIDE DEF a, r, o, f, o2, f2
  <2> QED  BY <1>2, <1>3, <1>4, BreakerNumbers
<1>6. 1 + crashes = crashes + 1
  BY <1>1
<1> QED  BY <1>5, <1>6 DEF RateBounded, Overlaps, Full, E

-----------------------------------------------------------------------------
(* Theorems: the breaker.                                                  *)

\* However many goroutines evaluate at once, and however often the process dies between a
\* decision and its row in circuit_breaker_events, the AUTO decisions of a window exceed
\* the limit by no more than those a check could not see (circuitbreaker.go:46-64,
\* engine.go:168, 185); where the store failed, a full limit more for each life of the process.
THEOREM RateIsBounded == BreakerSpec => []RateBounded
<1>1. BreakerSpec => []BInv
  BY BreakerStarts, BreakerKeeps, PTL DEF BreakerSpec
<1> QED  BY <1>1, BoundFollows, PTL

\* Every variable of the engine and of the breaker keeps its type, whichever of the two
\* an execution is about.
THEOREM PolicyTypeCorrect == MCSpec => []MCTypeOK
<1> DEFINE Good == /\ TypeOK /\ BreakerTypeOK
<1>1. MCInit => Good
  BY InitTypeOK, BreakerStarts DEF MCInit, BInv
<1>2. Good /\ [MCNext]_<<vars, breakerVars, part>> => Good'
  <2> SUFFICES ASSUME Good, [MCNext]_<<vars, breakerVars, part>> PROVE Good'
    OBVIOUS
  <2>1. [Next]_vars /\ [BreakerNext]_breakerVars
    BY DEF MCNext
  <2> HIDE DEF MCNext
  <2> QED  BY <2>1, NextTypeOK, BreakerTypes
<1>3. MCSpec => []Good
  BY <1>1, <1>2, PTL DEF MCSpec
<1> QED  BY <1>3, PTL DEF MCTypeOK
=============================================================================
