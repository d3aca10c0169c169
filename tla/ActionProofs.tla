---------------------------- MODULE ActionProofs ----------------------------
(***************************************************************************)
(* Theorems about the remediation actions and about the verifier, for      *)
(* every set of targets and manifests, every number of actions and calls,  *)
(* and every choice of the verifier's and the correlator's windows.        *)
(***************************************************************************)
EXTENDS MCActions, FiniteSetTheorems, SequenceTheorems, TLAPS

-----------------------------------------------------------------------------
(* The verifier.                                                           *)

LongEnough == Window > (FailureThreshold + 1) * Spacing /\ ResolveWindow > Spacing

\* An open entry's reasons were all counted at or before its last counted signal.
SeenSince ==
  \A r \in Reasons : open => seen[r] >= idle \/ seen[r] = DedupWindow

\* While every tick of the window had its signal: the counted ones are all kept, and
\* they account for the time that passed.
Steady ==
  phase = "observing" /\ ~gap /\ LongEnough =>
    /\ recent \subseteq sigs
    /\ ~open => recent = {}
    /\ waited > 0 \/ recent # {} => idle <= Spacing
    /\ heard => idle < Spacing
    /\ waited <= Cardinality(recent) * Spacing + idle

VInv ==
  /\ VerifierTypeOK
  /\ sigs \union recent \subseteq 1..(nextId - 1)
  /\ phase = "grace" => recent = {}
  /\ phase # "returned" => outcome = "none"
  /\ SeenSince /\ Steady
  /\ PersistentFailureSeen

LEMMA Windows ==
  /\ DedupWindow \in Nat /\ ResolveWindow \in Nat /\ GraceDelay \in Nat /\ Window \in Nat
  /\ FailureThreshold \in Nat /\ MaxSignals \in Nat /\ Window > 0 /\ ResolveWindow > 0
  /\ Spacing \in Nat /\ Spacing >= 1 /\ Spacing >= DedupWindow
BY VerifierAssumption DEF Spacing

LEMMA Counted ==
  ASSUME VInv
  PROVE  IsFiniteSet(recent) /\ Cardinality(recent) \in Nat /\ nextId \notin recent
<1>1. IsFiniteSet(Ids)
  BY FS_Interval, Windows DEF Ids
<1>2. recent \subseteq Ids /\ recent \subseteq 1..(nextId - 1) /\ nextId \in Nat
  BY DEF VInv, VerifierTypeOK
<1>3. IsFiniteSet(recent)
  BY <1>1, <1>2, FS_Subset
<1>4. Cardinality(recent) \in Nat
  BY <1>3, FS_CardinalityType
<1>5. nextId \notin recent
  BY <1>2
<1> QED  BY <1>3, <1>4, <1>5

LEMMA InitVInv == VerifierInit => VInv
<1> SUFFICES ASSUME VerifierInit PROVE VInv
  OBVIOUS
<1>1. 0 \in 0..(IF Window > GraceDelay THEN Window ELSE GraceDelay)
  BY Windows
<1>2. seen \in [Reasons -> 0..DedupWindow]
  BY Windows DEF VerifierInit
<1>3. waited = 0 /\ idle \in 0..ResolveWindow /\ nextId \in 1..(MaxSignals + 1)
  BY Windows DEF VerifierInit
<1>4. VerifierTypeOK
  BY <1>1, <1>2, <1>3 DEF VerifierInit, VerifierTypeOK
<1> QED
  BY <1>4 DEF VerifierInit, VInv, SeenSince, Steady, PersistentFailureSeen

LEMMA ProcessStep ==
  ASSUME VInv, NEW reason \in Reasons, Process(reason)
  PROVE  VInv'
<1>1. UNCHANGED <<phase, waited, observed, outcome, gap>> /\ heard' = TRUE /\ phase # "returned"
  BY DEF Process, verifyVars
<1>2. CASE Duplicate(reason)
  <2>1. UNCHANGED <<open, idle, seen, sigs, recent, nextId>>
    BY <1>2 DEF Process, entryVars
  <2>2. VerifierTypeOK'
    BY <1>1, <2>1 DEF VInv, VerifierTypeOK
  <2>3. idle < Spacing
    <3>1. seen[reason] \in 0..DedupWindow /\ idle \in 0..ResolveWindow
      BY DEF VInv, VerifierTypeOK
    <3>2. idle < DedupWindow
      BY <3>1, <1>2, Windows DEF Duplicate, VInv, SeenSince
    <3> QED  BY <3>1, <3>2, Windows
  <2>4. idle \in Nat
    BY DEF VInv, VerifierTypeOK
  <2>5. Steady'
    BY <1>1, <2>1, <2>3, <2>4, Windows DEF VInv, Steady, LongEnough, Spacing
  <2> QED
    BY <1>1, <2>1, <2>2, <2>5 DEF VInv, SeenSince, PersistentFailureSeen, Spacing
<1>3. CASE ~Duplicate(reason)
  <2>1. /\ nextId <= MaxSignals /\ nextId' = nextId + 1 /\ open' = TRUE /\ idle' = 0
        /\ seen' = [r \in Reasons |-> IF r = reason THEN 0 ELSE IF open THEN seen[r] ELSE DedupWindow]
        /\ sigs' = (IF open THEN sigs ELSE {}) \union {nextId}
        /\ recent' = IF phase = "observing" THEN recent \union {nextId} ELSE recent
    BY <1>3 DEF Process
  <2>2. nextId \in Ids /\ nextId \in Nat /\ nextId' \in 1..(MaxSignals + 1)
    BY <2>1, Windows DEF VInv, VerifierTypeOK, Ids
  <2>3. seen' \in [Reasons -> 0..DedupWindow]
    BY <2>1, Windows DEF VInv, VerifierTypeOK
  <2>4. VerifierTypeOK'
    <3>1. sigs' \subseteq Ids /\ recent' \subseteq Ids /\ observed' \subseteq recent'
      BY <1>1, <2>1, <2>2 DEF VInv, VerifierTypeOK
    <3>2. idle' \in 0..ResolveWindow
      BY <2>1, Windows
    <3> QED  BY <3>1, <3>2, <1>1, <2>1, <2>2, <2>3 DEF VInv, VerifierTypeOK
  <2>5. (sigs \union recent \subseteq 1..(nextId - 1))'
    <3>1. nextId' - 1 = nextId /\ 1..(nextId - 1) \subseteq 1..nextId /\ nextId \in 1..nextId
      BY <2>1, <2>2, Windows DEF Ids
    <3>2. sigs' \union recent' \subseteq sigs \union recent \union {nextId}
      BY <2>1
    <3> QED  BY <3>1, <3>2 DEF VInv
  <2>6. SeenSince'
    BY <2>1, <2>3, Windows DEF SeenSince
  <2>7. Steady'
    <3> SUFFICES ASSUME phase = "observing", ~gap, LongEnough
                 PROVE  /\ recent' \subseteq sigs'
                        /\ waited <= Cardinality(recent') * Spacing + 0
      <4>1. (LongEnough' <=> LongEnough) /\ Spacing' = Spacing
        BY DEF LongEnough, Spacing
      <4>2. 0 <= Spacing /\ 0 < Spacing
        BY Windows
      <4> QED  BY <1>1, <2>1, <4>1, <4>2 DEF Steady
    <3>1. /\ recent \subseteq sigs /\ (~open => recent = {})
          /\ waited > 0 \/ recent # {} => idle <= Spacing
          /\ waited <= Cardinality(recent) * Spacing + idle
      BY DEF VInv, Steady
    <3>2. recent' = recent \union {nextId} /\ recent' \subseteq sigs'
      BY <2>1, <3>1
    <3>3. Cardinality(recent') = Cardinality(recent) + 1 /\ Cardinality(recent) \in Nat
      BY <3>2, Counted, FS_AddElement
    <3>4. waited \in Nat /\ idle \in Nat
      BY Windows DEF VInv, VerifierTypeOK
    <3>5. waited <= Cardinality(recent) * Spacing + Spacing
      <4> DEFINE m == Cardinality(recent) * Spacing
      <4>1. m \in Nat
        BY <3>3, Windows
      <4>2. waited <= m + idle
        BY <3>1
      <4> HIDE DEF m
      <4>3. waited <= m + Spacing
        BY <3>1, <3>4, <4>1, <4>2, Windows
      <4> QED  BY <4>3 DEF m
    <3>6. (Cardinality(recent) + 1) * Spacing = Cardinality(recent) * Spacing + Spacing
      BY <3>3, Windows
    <3>7. Cardinality(recent') * Spacing + 0 = Cardinality(recent) * Spacing + Spacing
      BY <3>3, <3>6, Windows
    <3> QED  BY <3>2, <3>5, <3>7
  <2> QED
    BY <1>1, <2>1, <2>4, <2>5, <2>6, <2>7 DEF VInv, PersistentFailureSeen, Spacing
<1> QED  BY <1>2, <1>3

LEMMA StaleStep ==
  ASSUME VInv, ResolveStale
  PROVE  VInv'
<1>1. /\ open /\ idle >= ResolveWindow /\ open' = FALSE
      /\ UNCHANGED <<phase, waited, observed, outcome, idle, seen, sigs, recent, nextId, heard, gap>>
  BY DEF ResolveStale, verifyVars, history
<1>2. VerifierTypeOK'
  BY <1>1 DEF VInv, VerifierTypeOK
<1>3. Steady'
  <2> SUFFICES ASSUME phase = "observing", ~gap, LongEnough PROVE Steady'
    BY <1>1 DEF Steady, LongEnough, Spacing
  <2>1. idle \in Nat
    BY DEF VInv, VerifierTypeOK
  <2>2. recent = {}
    BY <1>1, <2>1, Windows DEF VInv, Steady, LongEnough
  <2> QED  BY <1>1, <2>2 DEF VInv, Steady
<1> QED  BY <1>1, <1>2, <1>3 DEF VInv, SeenSince, PersistentFailureSeen

LEMMA StartStep ==
  ASSUME VInv, StartWindow
  PROVE  VInv'
<1>1. /\ phase = "grace" /\ phase' = "observing" /\ waited' = 0 /\ heard' = FALSE /\ gap' = FALSE
      /\ UNCHANGED <<observed, outcome, open, idle, seen, sigs, recent, nextId>>
  BY DEF StartWindow, entryVars
<1>2. VerifierTypeOK'
  <2>1. waited' \in 0..(IF Window > GraceDelay THEN Window ELSE GraceDelay)
    BY <1>1, Windows
  <2>2. (seen \in [Reasons -> 0..DedupWindow] /\ idle \in 0..ResolveWindow)'
    BY <1>1 DEF VInv, VerifierTypeOK
  <2> QED  BY <1>1, <2>1, <2>2 DEF VInv, VerifierTypeOK
<1>3. recent = {} /\ Cardinality(recent) = 0 /\ idle \in Nat
  BY <1>1, FS_EmptySet DEF VInv, VerifierTypeOK
<1>4. 0 * Spacing = 0
  BY Windows
<1>5. Steady'
  BY <1>1, <1>3, <1>4, Windows DEF Steady
<1>6. outcome = "none"
  BY <1>1 DEF VInv
<1> QED  BY <1>1, <1>2, <1>5, <1>6 DEF VInv, SeenSince, PersistentFailureSeen, LongEnough

\* A window without a gap outlasts the signals that are too few for a failure.
LEMMA EnoughCounted ==
  ASSUME VInv, phase = "observing", ~gap, LongEnough, WindowOver
  PROVE  TooMany(recent)
<1>1. /\ waited \in Nat /\ idle \in Nat /\ waited >= Window
      /\ Cardinality(recent) \in Nat
  BY Windows, Counted DEF VInv, VerifierTypeOK, WindowOver
<1>2. waited <= Cardinality(recent) * Spacing + idle /\ idle <= Spacing
  BY <1>1, Windows DEF VInv, Steady
<1> SUFFICES ASSUME Cardinality(recent) <= FailureThreshold PROVE FALSE
  BY <1>1, Windows DEF TooMany
<1>3. Cardinality(recent) * Spacing <= FailureThreshold * Spacing
  BY <1>1, Windows
<1>4. (FailureThreshold + 1) * Spacing = FailureThreshold * Spacing + Spacing
  BY Windows
<1>5. /\ Cardinality(recent) * Spacing \in Nat /\ FailureThreshold * Spacing \in Nat
      /\ Window > FailureThreshold * Spacing + Spacing
  BY <1>1, <1>4, Windows DEF LongEnough
<1> DEFINE kept == Cardinality(recent) * Spacing
           few  == FailureThreshold * Spacing
<1>6. kept <= few /\ kept \in Nat /\ few \in Nat /\ Window > few + Spacing /\ waited <= kept + idle
  BY <1>2, <1>3, <1>5
<1> HIDE DEF kept, few
<1> QED  BY <1>1, <1>2, <1>6, Windows

LEMMA PollStep ==
  ASSUME VInv, Poll
  PROVE  VInv'
<1> DEFINE allObserved == observed \union RecentSignalsFor
<1>1. /\ phase = "observing" /\ observed' = allObserved
      /\ UNCHANGED <<waited, open, idle, seen, sigs, recent, nextId, heard, gap>>
      /\ \/ phase' = "returned" /\ outcome' = "FAILED"
         \/ ~TooMany(allObserved) /\ WindowOver /\ phase' = "returned" /\ outcome' = "RECOVERED"
         \/ UNCHANGED <<phase, outcome>>
  BY DEF Poll, entryVars, history
<1>2. VerifierTypeOK'
  <2>1. allObserved \subseteq recent
    BY DEF VInv, VerifierTypeOK, RecentSignalsFor
  <2> QED  BY <1>1, <2>1 DEF VInv, VerifierTypeOK
<1>3. Steady'
  BY <1>1 DEF VInv, Steady, LongEnough, Spacing
<1>4. PersistentFailureSeen'
  <2> SUFFICES ASSUME outcome' = "RECOVERED", ~gap, LongEnough PROVE FALSE
    BY <1>1 DEF PersistentFailureSeen, LongEnough, Spacing
  <2>1. ~TooMany(allObserved) /\ WindowOver
    BY <1>1 DEF VInv
  <2>2. allObserved = recent
    BY <1>1 DEF VInv, Steady, VerifierTypeOK, RecentSignalsFor
  <2> QED  BY <1>1, <2>1, <2>2, EnoughCounted
<1>5. SeenSince' /\ (sigs \union recent \subseteq 1..(nextId - 1))'
  BY <1>1 DEF VInv, SeenSince
<1> QED  BY <1>1, <1>2, <1>3, <1>4, <1>5 DEF VInv

LEMMA CancelledStep ==
  ASSUME VInv, Cancelled
  PROVE  VInv'
<1>1. /\ phase' = "returned" /\ outcome' = "INCONCLUSIVE"
      /\ UNCHANGED <<waited, observed, open, idle, seen, sigs, recent, nextId, heard, gap>>
  BY DEF Cancelled, entryVars, history
<1> QED
  BY <1>1 DEF VInv, VerifierTypeOK, SeenSince, Steady, PersistentFailureSeen

LEMMA VerifierTickStep ==
  ASSUME VInv, Tick
  PROVE  VInv'
<1>1. /\ waited' = IF phase = "returned" THEN waited
                   ELSE Min2(waited + 1, IF phase = "grace" THEN GraceDelay ELSE Window)
      /\ idle' = Min2(idle + 1, ResolveWindow)
      /\ seen' = [r \in Reasons |-> Min2(seen[r] + 1, DedupWindow)]
      /\ gap' = (gap \/ (phase # "returned" /\ ~heard)) /\ heard' = FALSE
      /\ UNCHANGED <<phase, observed, outcome, open, sigs, recent, nextId>>
  BY DEF Tick
<1>2. waited \in Nat /\ idle \in 0..ResolveWindow /\ seen \in [Reasons -> 0..DedupWindow]
  BY Windows DEF VInv, VerifierTypeOK
<1>3. VerifierTypeOK'
  <2>1. waited' \in 0..(IF Window > GraceDelay THEN Window ELSE GraceDelay)
    BY <1>1, <1>2, Windows DEF VInv, VerifierTypeOK, Min2
  <2>2. idle' \in 0..ResolveWindow
    BY <1>1, <1>2, Windows DEF Min2
  <2>3. seen' \in [Reasons -> 0..DedupWindow]
    BY <1>1, <1>2, Windows DEF Min2
  <2>4. heard' \in BOOLEAN /\ gap' \in BOOLEAN
    BY <1>1
  <2> QED  BY <1>1, <2>1, <2>2, <2>3, <2>4 DEF VInv, VerifierTypeOK
<1>4. SeenSince'
  BY <1>1, <1>2, Windows DEF VInv, SeenSince, Min2
<1>5. Steady'
  <2> SUFFICES ASSUME phase = "observing", ~gap, heard, LongEnough
               PROVE  /\ recent \subseteq sigs /\ (~open => recent = {})
                      /\ idle' <= Spacing
                      /\ waited' <= Cardinality(recent) * Spacing + idle'
    <3>1. (LongEnough' <=> LongEnough) /\ Spacing' = Spacing
      BY DEF LongEnough, Spacing
    <3> QED  BY <1>1, <3>1 DEF Steady
  <2>1. /\ recent \subseteq sigs /\ (~open => recent = {}) /\ idle < Spacing
        /\ waited <= Cardinality(recent) * Spacing + idle
    BY DEF VInv, Steady
  <2>2. Cardinality(recent) * Spacing \in Nat
    BY Counted, Windows
  <2>3. idle' = idle + 1
    BY <1>1, <1>2, <2>1, Windows DEF LongEnough, Min2
  <2>4. waited' <= waited + 1
    BY <1>1, <1>2, Windows DEF Min2
  <2>5. waited' \in Nat
    BY <1>1, <1>2, Windows DEF Min2
  <2>6. idle' <= Spacing
    BY <1>2, <2>1, <2>3, Windows
  <2> DEFINE kept == Cardinality(recent) * Spacing
  <2>7. kept \in Nat /\ waited <= kept + idle
    BY <2>1, <2>2
  <2> HIDE DEF kept
  <2>8. waited' <= kept + idle'
    BY <1>2, <2>3, <2>4, <2>5, <2>7
  <2> QED  BY <2>1, <2>6, <2>8 DEF kept
<1>6. PersistentFailureSeen'
  <2>1. outcome = "RECOVERED" => phase = "returned"
    BY DEF VInv
  <2> QED  BY <1>1, <2>1 DEF VInv, PersistentFailureSeen, Spacing
<1> QED  BY <1>1, <1>3, <1>4, <1>5, <1>6 DEF VInv

LEMMA NextVInv == VInv /\ [VerifierNext]_verifierVars => VInv'
<1> SUFFICES ASSUME VInv, [VerifierNext]_verifierVars PROVE VInv'
  OBVIOUS
<1>1. CASE UNCHANGED verifierVars
  BY <1>1 DEF verifierVars, verifyVars, entryVars, history, VInv, VerifierTypeOK, SeenSince,
              Steady, PersistentFailureSeen
<1>2. CASE VerifierNext
  BY <1>2, ProcessStep, StaleStep, StartStep, PollStep, CancelledStep, VerifierTickStep
     DEF VerifierNext
<1> QED  BY <1>1, <1>2

\* Every variable of the verifier and of the entry it polls keeps its type.
THEOREM VerifierTypeCorrect == VerifierSpec => []VerifierTypeOK
<1>1. VInv => VerifierTypeOK
  BY DEF VInv
<1> QED  BY <1>1, InitVInv, NextVInv, PTL DEF VerifierSpec

\* A failure with a signal in every tick of the observation window is never reported
\* as recovered, whatever the windows, the threshold and the lateness of the polls:
\* as long as the window outlasts the duplicates of more than FailureThreshold signals.
THEOREM NoFalseRecovery == VerifierSpec => []PersistentFailureSeen
<1>1. VInv => PersistentFailureSeen
  BY DEF VInv
<1> QED  BY <1>1, InitVInv, NextVInv, PTL DEF VerifierSpec

-----------------------------------------------------------------------------
(* The remediation actions.                                                *)

\* A value that a field can hold: a quantity is never zero.
Sound(f, v) == v \in Values /\ (f \notin Counts => v.n > 0)

Manifests   == {file \in [Fields -> Values \union {None}] : FileOK(file)}
Deployments == {file \in [DeploymentFields -> Values \union {None}] : FileOK(file)}
Clones      == [file : Manifests, log : Seq(Deployments) \ {<<>>}]

\* The field that an action is about, and the value it would give it now.
Field(a) == CASE a.kind = "scale-deployment"    -> "replicas"
              [] a.kind = "patch-hpa"           -> "minReplicas"
              [] a.kind = "rollback-deployment" -> "image"
              [] a.kind = "bump-memory-limit"   -> "memory limit"
              [] a.kind = "right-size-memory"   -> "memory limit"
              [] a.kind = "right-size-cpu"      -> "cpu request"
              [] OTHER                          -> "replicas"

Wanted(a, r) ==
  CASE a.kind = "scale-deployment"    -> Value(a.target, NoUnit)
    [] a.kind = "patch-hpa"           -> MinReplicas(Value(a.target, NoUnit))
    [] a.kind = "rollback-deployment" ->
         IF a.target > 0 THEN Value(a.target, NoUnit) ELSE GetPreviousValue(r, "image")
    [] a.kind = "bump-memory-limit"   -> BumpQuantity(r.file["memory limit"])
    [] a.kind = "right-size-memory"   -> Positive(a.target, "Mi")
    [] a.kind = "right-size-cpu"      -> Positive(a.target, "m")
    [] OTHER                          -> None

ActionTypes ==
  /\ repo \in Clones /\ edits \in 0..MaxEdits
  /\ act \in [Slots -> Built \union {None}]
  /\ applied \in [Slots -> Results \union {None}]
  /\ shown \in [Slots -> Values \union {None}]
  /\ before \in [Slots -> Manifests \union {None}]

\* An empty slot remembers nothing, and an action only the edit of its own field.
OwnEdit(s) ==
  /\ act[s] = None => applied[s] = None /\ shown[s] = None /\ before[s] = None
  /\ applied[s] # None =>
       applied[s].field = Field(act[s]) /\ Sound(applied[s].field, applied[s].old)

\* What a dry run announced is still what the action would do.
Announced(s) == shown[s] # None => shown[s] = Wanted(act[s], repo)

\* Since Apply, only the action's field and its companion have changed.
OnlyOwnFields(s) ==
  before[s] # None =>
    /\ applied[s] # None /\ before[s][applied[s].field] = applied[s].old
    /\ \A f \in Fields \ {applied[s].field, Companion(s)} : repo.file[f] = before[s][f]

RInv == ActionTypes /\ \A s \in Slots : OwnEdit(s) /\ Announced(s) /\ OnlyOwnFields(s)

LEMMA FieldsKnown ==
  /\ \A a : Field(a) \in Fields
  /\ \A s : Companion(s) \in Fields \union {None} /\ Companion(s) # Field(act[s])
  /\ None \notin Fields /\ None \notin Values /\ None \notin Built /\ None \notin Results
BY RemediatorsAssumption DEF Field, Companion, Fields

LEMMA ManifestFields ==
  ASSUME NEW file \in Manifests, NEW f \in Fields
  PROVE  file[f] = None \/ Sound(f, file[f])
BY DEF Manifests, FileOK, Sound

LEMMA EditedManifest ==
  ASSUME NEW file \in Manifests, NEW f \in Fields, NEW v, Sound(f, v)
  PROVE  [file EXCEPT ![f] = v] \in Manifests
<1> DEFINE new == [file EXCEPT ![f] = v]
<1>1. new \in [Fields -> Values \union {None}]
  BY DEF Manifests, Sound
<1>2. FileOK(new)
  <2> SUFFICES ASSUME NEW g \in Fields, new[g] # None
               PROVE  new[g] \in Values /\ (g \notin Counts => new[g].n > 0)
    BY <1>1 DEF FileOK
  <2>1. CASE g = f
    BY <2>1, <1>1 DEF Sound, Manifests
  <2>2. CASE g # f
    BY <2>2, ManifestFields DEF Sound, Manifests
  <2> QED  BY <2>1, <2>2
<1> QED  BY <1>1, <1>2 DEF Manifests

LEMMA CommittedLog ==
  ASSUME NEW log \in Seq(Deployments) \ {<<>>}, NEW f, NEW file \in Manifests
  PROVE  Committed(log, f, file) \in Seq(Deployments) \ {<<>>}
<1>1. Deployment(file) \in Deployments
  <2>1. Deployment(file) \in [DeploymentFields -> Values \union {None}]
    BY DEF Deployment, DeploymentFields, Manifests
  <2>2. \A g \in DeploymentFields : Deployment(file)[g] = file[g] /\ g \in Fields
    BY DEF Deployment, DeploymentFields
  <2>3. FileOK(Deployment(file))
    BY <2>1, <2>2, ManifestFields DEF FileOK, Sound
  <2> QED  BY <2>1, <2>3 DEF Deployments
<1>2. Append(log, Deployment(file)) \in Seq(Deployments)
  BY <1>1
<1>3. Append(log, Deployment(file)) # <<>>
  BY <1>1
<1> QED  BY <1>2, <1>3 DEF Committed

\* What one edit returns and does to the clone.
LEMMA Edited ==
  ASSUME NEW r \in Clones, NEW f \in Fields, NEW v, NEW how, Sound(f, v)
  PROVE  LET e == EditField(r, f, v, how) IN
         /\ e.repo \in Clones /\ e.status \in {"ok", "no-op", "error"} /\ e.old = r.file[f]
         /\ \A g \in Fields \ {f} : e.repo.file[g] = r.file[g]
         /\ e.status = "error" => e.repo.file = r.file
         /\ e.status # "error" => e.repo.file[f] = v /\ Sound(f, e.old)
         /\ e.repo.file = r.file \/ e.repo.file[f] = v
<1> DEFINE new == [r.file EXCEPT ![f] = v]
           Result(r2, status) == [repo |-> r2, status |-> status, old |-> r.file[f]]
           Ok(e) == /\ e.repo \in Clones /\ e.status \in {"ok", "no-op", "error"} /\ e.old = r.file[f]
                    /\ \A g \in Fields \ {f} : e.repo.file[g] = r.file[g]
                    /\ e.status = "error" => e.repo.file = r.file
                    /\ e.status # "error" => e.repo.file[f] = v /\ Sound(f, e.old)
                    /\ e.repo.file = r.file \/ e.repo.file[f] = v
           pushFailed == [r EXCEPT !.log = Committed(@, f, new)]
           pushed == [file |-> new, log |-> Committed(r.log, f, new)]
<1>1. r.file \in Manifests /\ r.log \in Seq(Deployments) \ {<<>>}
  BY DEF Clones
<1>2. new \in Manifests /\ new[f] = v /\ \A g \in Fields \ {f} : new[g] = r.file[g]
  BY <1>1, EditedManifest DEF Manifests
<1>3. Committed(r.log, f, new) \in Seq(Deployments) \ {<<>>}
  BY <1>1, <1>2, CommittedLog
<1>4. pushFailed \in Clones /\ pushFailed.file = r.file
  BY <1>1, <1>3 DEF Clones
<1>5. pushed \in Clones /\ pushed.file = new
  BY <1>2, <1>3 DEF Clones
<1>6. r.file[f] = None \/ Sound(f, r.file[f])
  BY <1>1, ManifestFields
<1>7. /\ Ok(Result(r, "error")) /\ Ok(Result(pushFailed, "error"))
      /\ r.file[f] # None => Ok(Result(pushed, "ok"))
      /\ r.file[f] # None /\ r.file[f] = v => Ok(Result(r, "no-op"))
  <2> HIDE DEF pushFailed, pushed, new
  <2> QED  BY <1>2, <1>4, <1>5, <1>6
<1>8. \/ EditField(r, f, v, how) = Result(r, "error")
      \/ EditField(r, f, v, how) = Result(pushFailed, "error")
      \/ r.file[f] # None /\ EditField(r, f, v, how) = Result(pushed, "ok")
      \/ r.file[f] # None /\ r.file[f] = v /\ EditField(r, f, v, how) = Result(r, "no-op")
  <2>1. CASE r.file[f] = None
    BY <2>1 DEF EditField
  <2>2. CASE r.file[f] # None /\ r.file[f] = v
    BY <2>2 DEF EditField
  <2>3. CASE r.file[f] # None /\ r.file[f] # v /\ how = "git fails"
    BY <2>3 DEF EditField
  <2>4. CASE r.file[f] # None /\ r.file[f] # v /\ how = "push fails"
    BY <2>4 DEF EditField
  <2>5. CASE r.file[f] # None /\ r.file[f] # v /\ how \notin {"git fails", "push fails"}
    BY <2>5 DEF EditField
  <2> QED  BY <2>1, <2>2, <2>3, <2>4, <2>5
<1> HIDE DEF Result, pushFailed, pushed, new
<1>9. Ok(EditField(r, f, v, how))
  <2> HIDE DEF Ok
  <2> QED  BY <1>7, <1>8
<1> QED  BY <1>9

\* What each action wants, its field can hold.
LEMMA WantedIsSound ==
  ASSUME NEW a \in Built, NEW r \in Clones, Wanted(a, r) # None
  PROVE  Sound(Field(a), Wanted(a, r))
<1>1. a.target \in Int /\ NoUnit \in KnownSuffixes \union {"m"}
      /\ "Mi" \in KnownSuffixes \union {"m"} /\ "m" \in KnownSuffixes \union {"m"}
  <2>1. a.target \in Targets \union {0}
    BY DEF Built
  <2>2. \A t \in Targets \union {0} : t \in Int
    BY RemediatorsAssumption
  <2>3. a.target \in Int
    BY <2>1, <2>2
  <2> QED  BY <2>3 DEF KnownSuffixes
<1>2. ASSUME NEW n \in Nat, NEW unit \in KnownSuffixes \union {"m"}
      PROVE  Value(n, unit) \in Values /\ Value(n, unit).n = n
  BY DEF Value, Values
<1>3. Counts = {"replicas", "image", "minReplicas"}
  BY DEF Counts
<1>4. CASE a.kind = "scale-deployment"
  <2>1. a.target \in Nat
    BY <1>1, <1>4 DEF Built
  <2> QED  BY <1>1, <1>2, <1>3, <1>4, <2>1 DEF Wanted, Field, Sound
<1>5. CASE a.kind = "patch-hpa"
  <2>1. MinReplicas(Value(a.target, NoUnit)) \in Values
    <3>1. Value(a.target, NoUnit).n = a.target
      BY DEF Value
    <3> QED  BY <1>1, <1>2, <3>1 DEF MinReplicas
  <2> QED  BY <1>3, <1>5, <2>1 DEF Wanted, Field, Sound
<1>6. CASE a.kind = "rollback-deployment"
  <2>1. CASE a.target > 0
    <3>1. a.target \in Nat
      BY <1>1, <2>1
    <3> QED  BY <1>1, <1>2, <1>3, <1>6, <2>1, <3>1 DEF Wanted, Field, Sound
  <2>2. CASE ~(a.target > 0)
    <3>1. Wanted(a, r) = GetPreviousValue(r, "image") /\ Field(a) = "image"
      BY <1>6, <2>2 DEF Wanted, Field
    <3>2. Len(r.log) >= 2 /\ Wanted(a, r) = r.log[Len(r.log) - 1]["image"]
      BY <3>1 DEF GetPreviousValue, Clones
    <3>3. r.log[Len(r.log) - 1] \in Deployments
      BY <3>2 DEF Clones
    <3>4. Wanted(a, r) \in Values
      BY <3>2, <3>3 DEF Deployments, DeploymentFields, Fields
    <3> QED  BY <1>3, <3>1, <3>4 DEF Sound
  <2> QED  BY <2>1, <2>2
<1>7. CASE a.kind = "bump-memory-limit"
  <2> DEFINE q == r.file["memory limit"]
  <2>1. Wanted(a, r) = BumpQuantity(q) /\ Field(a) = "memory limit"
    BY <1>7 DEF Wanted, Field
  <2> HIDE DEF q
  <2>2. q # None
    BY <2>1 DEF BumpQuantity
  <2>3. Sound("memory limit", q)
    BY <2>2, ManifestFields DEF q, Clones, Fields
  <2>4. q \in Values /\ q.n \in Nat /\ q.n > 0
    BY <2>3, <1>3 DEF Sound, Values
  <2>5. (3 * q.n + 1) \div 2 \in Nat /\ (3 * q.n + 1) \div 2 > 0
    BY <2>4
  <2>6. BumpQuantity(q) = [q EXCEPT !.n = (3 * q.n + 1) \div 2]
    BY <2>1, <2>2, <2>4 DEF BumpQuantity
  <2>7. BumpQuantity(q) \in Values /\ BumpQuantity(q).n = (3 * q.n + 1) \div 2
    BY <2>4, <2>5, <2>6 DEF Values
  <2> QED  BY <2>1, <2>5, <2>7 DEF Sound
<1>8. CASE a.kind \in {"right-size-memory", "right-size-cpu"}
  <2>1. \E unit \in {"Mi", "m"} : Wanted(a, r) = Positive(a.target, unit)
    BY <1>8 DEF Wanted
  <2> PICK unit \in {"Mi", "m"} : Wanted(a, r) = Positive(a.target, unit)
    BY <2>1
  <2>2. a.target \in Nat /\ a.target > 0 /\ Wanted(a, r) = Value(a.target, unit)
    BY <1>1 DEF Positive
  <2> QED  BY <1>1, <1>2, <2>2 DEF Sound
<1> QED  BY <1>4, <1>5, <1>6, <1>7, <1>8 DEF Wanted

Contract == \A s \in Slots : AppliedAsShown(s) /\ RollbackRestores(s)

\* A call leaves the actions as they are, and every announcement that it keeps true.
LEMMA Leaving ==
  ASSUME RInv, NEW r \in Clones, edits < MaxEdits, Leaves(r)
  PROVE  /\ repo' = r /\ act' = act /\ edits' \in 0..MaxEdits
         /\ shown' \in [Slots -> Values \union {None}]
         /\ \A t \in Slots : Announced(t)' /\ Companion(t)' = Companion(t)
                             /\ (act[t] = None => shown'[t] = None)
<1>1. repo' = r /\ act' = act /\ edits' = edits + 1 /\ shown' = Unless(r # repo, shown)
  BY DEF Leaves
<1>2. edits' \in 0..MaxEdits
  BY <1>1, RemediatorsAssumption DEF RInv, ActionTypes
<1>3. shown' \in [Slots -> Values \union {None}]
  BY <1>1 DEF RInv, ActionTypes, Unless
<1>4. ASSUME NEW t \in Slots
      PROVE  Announced(t)' /\ Companion(t)' = Companion(t) /\ (act[t] = None => shown'[t] = None)
  <2>1. shown'[t] = None \/ (shown'[t] = shown[t] /\ repo' = repo)
    BY <1>1 DEF Unless
  <2>2. act[t] = None => shown[t] = None
    BY DEF RInv, OwnEdit
  <2>3. Announced(t)'
    BY <1>1, <2>1 DEF RInv, Announced
  <2>4. Companion(t)' = Companion(t)
    BY <1>1 DEF Companion
  <2> QED  BY <2>1, <2>2, <2>3, <2>4
<1> QED  BY <1>1, <1>2, <1>3, <1>4

\* An action's own value is sound, if it has one.
LEMMA Asked ==
  ASSUME RInv, NEW s \in Slots, act[s] # None
  PROVE  /\ act[s] \in Built /\ Field(act[s]) \in Fields
         /\ Wanted(act[s], repo) # None => Sound(Field(act[s]), Wanted(act[s], repo))
BY WantedIsSound, FieldsKnown DEF RInv, ActionTypes

LEMMA DryRunStep ==
  ASSUME RInv, NEW s \in Slots, act[s] # None, DryRun(s, Field(act[s]), Wanted(act[s], repo))
  PROVE  RInv' /\ Contract
<1> DEFINE v == Wanted(act[s], repo)
<1>1. /\ UNCHANGED <<repo, act, applied, edits, before>>
      /\ shown' = [shown EXCEPT ![s] = v] \/ shown' = [shown EXCEPT ![s] = None]
  BY DEF DryRun
<1>2. v = None \/ v \in Values
  BY Asked DEF Sound
<1>3. ActionTypes'
  <2> HIDE DEF v
  <2> QED  BY <1>1, <1>2 DEF RInv, ActionTypes
<1>4. ASSUME NEW t \in Slots
      PROVE  (OwnEdit(t) /\ Announced(t) /\ OnlyOwnFields(t))'
  <2>1. shown'[t] = shown[t] \/ (t = s /\ shown'[t] \in {v, None})
    BY <1>1 DEF RInv, ActionTypes
  <2>2. OwnEdit(t)'
    BY <1>1, <2>1 DEF RInv, OwnEdit
  <2>3. Announced(t)'
    BY <1>1, <2>1 DEF RInv, Announced
  <2>4. OnlyOwnFields(t)'
    BY <1>1 DEF RInv, OnlyOwnFields, Companion
  <2> QED  BY <2>2, <2>3, <2>4
<1>5. Contract
  BY <1>1 DEF Contract, AppliedAsShown, RollbackRestores, Changed
<1> QED  BY <1>3, <1>4, <1>5 DEF RInv

\* A call that finds nothing to do, or fails, leaves the manifests as they are.
LEMMA NoEditStep ==
  ASSUME RInv, NEW r \in Clones, r.file = repo.file, edits < MaxEdits, Leaves(r),
         UNCHANGED <<applied, before>>
  PROVE  RInv' /\ Contract
<1>1. /\ repo' = r /\ act' = act /\ edits' \in 0..MaxEdits
      /\ shown' \in [Slots -> Values \union {None}]
      /\ \A t \in Slots : Announced(t)' /\ Companion(t)' = Companion(t)
                          /\ (act[t] = None => shown'[t] = None)
  BY Leaving
<1>2. ActionTypes'
  BY <1>1 DEF RInv, ActionTypes
<1>3. ASSUME NEW t \in Slots
      PROVE  OwnEdit(t)' /\ OnlyOwnFields(t)'
  <2>1. OwnEdit(t)'
    BY <1>1 DEF RInv, OwnEdit
  <2>2. OnlyOwnFields(t)'
    BY <1>1 DEF RInv, OnlyOwnFields
  <2> QED  BY <2>1, <2>2
<1>4. Contract
  BY <1>1 DEF Contract, AppliedAsShown, RollbackRestores, Changed
<1> QED  BY <1>1, <1>2, <1>3, <1>4 DEF RInv

LEMMA ApplyStep ==
  ASSUME RInv, NEW s \in Slots, act[s] # None, NEW w,
         Wanted(act[s], repo) # None /\ Companion(s) # None => Sound(Companion(s), w),
         Apply(s, Field(act[s]), Wanted(act[s], repo), Companion(s), w)
  PROVE  RInv' /\ Contract
<1> DEFINE f == Field(act[s])
           v == Wanted(act[s], repo)
           c == Companion(s)
<1> PICK how \in Outcomes, how2 \in Outcomes :
      LET first == EditField(repo, f, v, how)
          done  == IF c = None THEN first.repo ELSE EditField(first.repo, c, w, how2).repo
      IN  IF applied[s] # None \/ v = None \/ first.status = "error"
          THEN /\ Leaves(IF applied[s] # None \/ v = None THEN repo ELSE first.repo)
               /\ UNCHANGED <<applied, before>>
          ELSE /\ Leaves(done)
               /\ applied' = [applied EXCEPT ![s] =
                                [status |-> first.status, field |-> f, old |-> first.old]]
               /\ before' = [Unless(done.file # repo.file, before) EXCEPT ![s] = repo.file]
  BY DEF Apply
<1> DEFINE first == EditField(repo, f, v, how)
           done  == IF c = None THEN first.repo ELSE EditField(first.repo, c, w, how2).repo
<1>1. /\ repo \in Clones /\ edits < MaxEdits /\ f \in Fields /\ c \in Fields \union {None} /\ c # f
      /\ v # None => Sound(f, v)
  BY Asked, FieldsKnown DEF RInv, ActionTypes, Apply
<1>2. v # None =>
        /\ first.repo \in Clones /\ first.status \in {"ok", "no-op", "error"} /\ first.old = repo.file[f]
        /\ \A g \in Fields \ {f} : first.repo.file[g] = repo.file[g]
        /\ first.status = "error" => first.repo.file = repo.file
        /\ first.status # "error" => first.repo.file[f] = v /\ Sound(f, first.old)
  <2> HIDE DEF f, v
  <2> QED  BY <1>1, Edited
<1>3. CASE applied[s] # None \/ v = None \/ first.status = "error"
  <2> DEFINE r == IF applied[s] # None \/ v = None THEN repo ELSE first.repo
  <2>1. Leaves(r) /\ UNCHANGED <<applied, before>>
    BY <1>3
  <2>2. r \in Clones /\ r.file = repo.file
    <3> HIDE DEF f, v, first
    <3> QED  BY <1>1, <1>2, <1>3
  <2> HIDE DEF r
  <2> QED  BY <1>1, <2>1, <2>2, NoEditStep
<1>4. CASE ~(applied[s] # None \/ v = None \/ first.status = "error")
  <2> DEFINE kept == [status |-> first.status, field |-> f, old |-> first.old]
  <2>1. /\ Leaves(done) /\ applied[s] = None /\ v # None /\ first.status # "error"
        /\ applied' = [applied EXCEPT ![s] = kept]
        /\ before' = [Unless(done.file # repo.file, before) EXCEPT ![s] = repo.file]
    BY <1>4
  <2> HIDE DEF f, v, c, first
  <2>2. done \in Clones /\ done.file[f] = v /\ \A g \in Fields \ {f, c} : done.file[g] = repo.file[g]
    <3>1. CASE c = None
      BY <1>1, <1>2, <2>1, <3>1
    <3>2. CASE c # None
      <4>1. first.repo \in Clones /\ c \in Fields /\ Sound(c, w)
        BY <1>1, <1>2, <2>1, <3>2 DEF c, v
      <4>2. done \in Clones /\ \A g \in Fields \ {c} : done.file[g] = first.repo.file[g]
        BY <4>1, <3>2, Edited
      <4> HIDE DEF done
      <4> QED  BY <1>1, <1>2, <2>1, <4>2
    <3> QED  BY <3>1, <3>2
  <2>3. kept \in Results /\ kept # None /\ kept.field = f /\ Sound(f, kept.old) /\ kept.old = repo.file[f]
    <3>1. first.status \in {"ok", "no-op"} /\ first.old \in Values
      BY <1>2, <2>1 DEF Sound
    <3>2. kept \in Results
      BY <1>1, <3>1 DEF Results
    <3> QED  BY <1>2, <2>1, <3>2, FieldsKnown
  <2> HIDE DEF done, kept
  <2>4. /\ repo' = done /\ act' = act /\ edits' \in 0..MaxEdits
        /\ shown' \in [Slots -> Values \union {None}]
        /\ \A t \in Slots : Announced(t)' /\ Companion(t)' = Companion(t)
                            /\ (act[t] = None => shown'[t] = None)
    BY <1>1, <2>1, <2>2, Leaving
  <2>5. /\ applied \in [Slots -> Results \union {None}] /\ before \in [Slots -> Manifests \union {None}]
        /\ repo.file \in Manifests
    BY DEF RInv, ActionTypes, Clones
  <2>6. /\ applied'[s] = kept /\ before'[s] = repo.file
        /\ \A t \in Slots \ {s} : applied'[t] = applied[t]
                                  /\ (before'[t] = None \/ (before'[t] = before[t] /\ done.file = repo.file))
    BY <2>1, <2>5 DEF Unless
  <2>7. ActionTypes'
    <3>1. applied' \in [Slots -> Results \union {None}]
      BY <2>1, <2>3, <2>5
    <3>2. before' \in [Slots -> Manifests \union {None}]
      BY <2>1, <2>5 DEF Unless
    <3> QED  BY <2>2, <2>4, <3>1, <3>2 DEF RInv, ActionTypes
  <2>8. ASSUME NEW t \in Slots
        PROVE  OwnEdit(t)' /\ OnlyOwnFields(t)'
    <3>1. CASE t = s
      <4>1. OwnEdit(t)'
        BY <2>3, <2>4, <2>6, <3>1 DEF OwnEdit, f
      <4>2. Companion(t)' = c
        BY <2>4, <3>1 DEF c
      <4>3. OnlyOwnFields(t)'
        BY <2>2, <2>3, <2>4, <2>6, <3>1, <4>2 DEF OnlyOwnFields
      <4> QED  BY <4>1, <4>3
    <3>2. CASE t # s
      <4>1. OwnEdit(t)'
        BY <2>4, <2>6, <3>2 DEF RInv, OwnEdit
      <4>2. OnlyOwnFields(t)'
        BY <2>4, <2>6, <3>2 DEF RInv, OnlyOwnFields
      <4> QED  BY <4>1, <4>2
    <3> QED  BY <3>1, <3>2
  <2>9. Contract
    <3>1. applied' # applied
      BY <2>1, <2>3, <2>6
    <3>2. shown[s] # None => shown[s] = v
      BY DEF RInv, Announced, v
    <3>3. ASSUME NEW t \in Slots PROVE AppliedAsShown(t)
      BY <2>2, <2>3, <2>4, <2>6, <3>2 DEF AppliedAsShown, c
    <3> QED  BY <3>1, <3>3 DEF Contract, RollbackRestores
  <2> QED  BY <2>4, <2>7, <2>8, <2>9 DEF RInv
<1> QED  BY <1>3, <1>4

LEMMA RollbackStep ==
  ASSUME RInv, NEW s \in Slots, act[s] # None, NEW undo,
         applied[s] # None =>
           /\ Sound(Field(act[s]), undo)
           /\ \/ undo = applied[s].old
              \/ Field(act[s]) = "minReplicas" /\ applied[s].old.n <= 0 /\ undo.n = 2,
         Rollback(s, undo)
  PROVE  RInv' /\ Contract
<1> DEFINE f == Field(act[s])
<1> PICK how \in Outcomes :
      LET res == EditField(repo, applied[s].field, undo, how)
      IN  IF applied[s] = None \/ applied[s].status = "no-op"
          THEN Leaves(repo) /\ UNCHANGED before
          ELSE /\ Leaves(res.repo)
               /\ before' = [Unless(res.repo.file # repo.file, before) EXCEPT ![s] = before[s]]
  BY DEF Rollback
<1>1. repo \in Clones /\ edits < MaxEdits /\ UNCHANGED applied /\ f \in Fields
  BY Asked DEF RInv, ActionTypes, Rollback
<1>2. CASE applied[s] = None \/ applied[s].status = "no-op"
  BY <1>1, <1>2, NoEditStep
<1>3. CASE ~(applied[s] = None \/ applied[s].status = "no-op")
  <2> DEFINE r == EditField(repo, f, undo, how).repo
  <2>1. applied[s] # None /\ applied[s].field = f
    BY <1>3 DEF RInv, OwnEdit
  <2>2. /\ Leaves(r)
        /\ before' = [Unless(r.file # repo.file, before) EXCEPT ![s] = before[s]]
    BY <1>3, <2>1
  <2> HIDE DEF f
  <2>3. /\ r \in Clones /\ \A g \in Fields \ {f} : r.file[g] = repo.file[g]
        /\ r.file = repo.file \/ r.file[f] = undo
    <3>1. Sound(f, undo)
      BY <2>1 DEF f
    <3> QED  BY <1>1, <3>1, Edited
  <2> HIDE DEF r
  <2>4. /\ repo' = r /\ act' = act /\ edits' \in 0..MaxEdits
        /\ shown' \in [Slots -> Values \union {None}]
        /\ \A t \in Slots : Announced(t)' /\ Companion(t)' = Companion(t)
                            /\ (act[t] = None => shown'[t] = None)
    BY <1>1, <2>2, <2>3, Leaving
  <2>5. before \in [Slots -> Manifests \union {None}]
    BY DEF RInv, ActionTypes
  <2>6. /\ before'[s] = before[s]
        /\ \A t \in Slots \ {s} : before'[t] = None \/ (before'[t] = before[t] /\ r.file = repo.file)
    BY <2>2, <2>5 DEF Unless
  <2>7. ActionTypes'
    <3>1. before' \in [Slots -> Manifests \union {None}]
      BY <2>2, <2>5 DEF Unless
    <3> QED  BY <1>1, <2>3, <2>4, <3>1 DEF RInv, ActionTypes
  <2>8. ASSUME NEW t \in Slots
        PROVE  OwnEdit(t)' /\ OnlyOwnFields(t)'
    <3>1. act[t] = None => before'[t] = None
      BY <2>6 DEF RInv, OwnEdit
    <3>2. OwnEdit(t)'
      BY <1>1, <2>4, <3>1 DEF RInv, OwnEdit
    <3>3. OnlyOwnFields(t)'
      <4>1. CASE t = s
        BY <1>1, <2>1, <2>3, <2>4, <2>6, <4>1 DEF RInv, OnlyOwnFields
      <4>2. CASE t # s
        BY <1>1, <2>4, <2>6, <4>2 DEF RInv, OnlyOwnFields
      <4> QED  BY <4>1, <4>2
    <3> QED  BY <3>2, <3>3
  <2>9. Contract
    <3>1. ASSUME NEW t \in Slots PROVE AppliedAsShown(t)
      BY <1>1 DEF AppliedAsShown
    <3>2. ASSUME NEW t \in Slots PROVE RollbackRestores(t)
      <4> SUFFICES ASSUME repo'.file # repo.file, before[t] # None, before'[t] # None,
                          NEW g \in Fields \ {Companion(t)}
                   PROVE  \/ repo'.file[g] = before[t][g]
                          \/ g = "minReplicas" /\ before[t][g].n <= 0 /\ repo'.file[g].n = 2
        BY DEF RollbackRestores, Changed
      <4>1. t = s
        BY <2>4, <2>6
      <4>2. before[s][f] = applied[s].old /\ \A h \in Fields \ {f, Companion(s)} : repo.file[h] = before[s][h]
        BY <2>1, <4>1 DEF RInv, OnlyOwnFields
      <4>3. CASE g = f
        <5>1. repo'.file[g] = undo
          BY <2>3, <2>4, <4>3
        <5> QED  BY <2>1, <4>1, <4>2, <4>3, <5>1 DEF f
      <4>4. CASE g # f
        BY <2>3, <2>4, <4>1, <4>2, <4>4
      <4> QED  BY <4>3, <4>4
    <3> QED  BY <3>1, <3>2 DEF Contract
  <2> QED  BY <2>4, <2>7, <2>8, <2>9 DEF RInv
<1> QED  BY <1>2, <1>3

LEMMA ActsStep ==
  ASSUME RInv, NEW s \in Slots, act[s] # None, NEW f, NEW v, NEW c, NEW w, NEW undo,
         f = Field(act[s]), v = Wanted(act[s], repo), c = Companion(s),
         v # None /\ c # None => Sound(c, w),
         applied[s] # None =>
           /\ Sound(f, undo)
           /\ undo = applied[s].old \/ (f = "minReplicas" /\ applied[s].old.n <= 0 /\ undo.n = 2),
         Acts(s, f, v, c, w, undo)
  PROVE  RInv' /\ Contract
BY DryRunStep, ApplyStep, RollbackStep DEF Acts

LEMMA CallStep ==
  ASSUME RInv, NEW s \in Slots, Call(s)
  PROVE  RInv' /\ Contract
<1>1. /\ act[s] # None
      /\ applied[s] # None => Sound(Field(act[s]), applied[s].old)
  BY DEF Call, RInv, OwnEdit
<1>2. CASE ScaleDeployment(s)
  <2>1. act[s].kind = "scale-deployment"
    BY <1>2 DEF ScaleDeployment
  <2>2. Field(act[s]) = "replicas" /\ Companion(s) = None
        /\ Wanted(act[s], repo) = Value(act[s].target, NoUnit)
    BY <2>1 DEF Field, Companion, Wanted
  <2> QED  BY <1>1, <1>2, <2>2, ActsStep DEF ScaleDeployment
<1>3. CASE PatchHPA(s)
  <2>1. act[s].kind = "patch-hpa"
    BY <1>3 DEF PatchHPA
  <2>2. Field(act[s]) = "minReplicas" /\ Companion(s) = None
        /\ Wanted(act[s], repo) = MinReplicas(Value(act[s].target, NoUnit))
    BY <2>1 DEF Field, Companion, Wanted
  <2> DEFINE undo == MinReplicas(applied[s].old)
  <2>3. applied[s] # None =>
          /\ Sound("minReplicas", undo)
          /\ undo = applied[s].old \/ (applied[s].old.n <= 0 /\ undo.n = 2)
    <3>1. Value(2, NoUnit) \in Values /\ Value(2, NoUnit).n = 2
      BY DEF Value, Values, KnownSuffixes
    <3>2. "minReplicas" \in Counts
      BY DEF Counts
    <3> QED  BY <1>1, <2>2, <3>1, <3>2 DEF MinReplicas, Sound
  <2> HIDE DEF undo
  <2>4. Acts(s, "minReplicas", Wanted(act[s], repo), None, None, undo)
    BY <1>3, <2>2 DEF PatchHPA, undo
  <2> QED  BY <1>1, <2>2, <2>3, <2>4, ActsStep
<1>4. CASE RollbackDeployment(s)
  <2>1. act[s].kind = "rollback-deployment"
    BY <1>4 DEF RollbackDeployment
  <2>2. Field(act[s]) = "image" /\ Companion(s) = None /\ Wanted(act[s], repo) = resolveTarget(s)
    BY <2>1 DEF Field, Companion, Wanted, resolveTarget
  <2> QED  BY <1>1, <1>4, <2>2, ActsStep DEF RollbackDeployment
<1>5. CASE BumpMemoryLimit(s)
  <2>1. act[s].kind = "bump-memory-limit"
    BY <1>5 DEF BumpMemoryLimit
  <2>2. Field(act[s]) = "memory limit" /\ Companion(s) = None
        /\ Wanted(act[s], repo) = BumpQuantity(repo.file["memory limit"])
    BY <2>1 DEF Field, Companion, Wanted
  <2> QED  BY <1>1, <1>5, <2>2, ActsStep DEF BumpMemoryLimit
<1>6. CASE RightSizeMemory(s)
  <2>1. act[s].kind = "right-size-memory" /\ act[s].target \in Nat /\ act[s].target > 0
    <3>1. act[s].kind = "right-size-memory" /\ act[s] \in Built
      BY <1>1, <1>6, Asked DEF RightSizeMemory
    <3>2. \A t \in Targets \union {0} : t \in Int
      BY RemediatorsAssumption
    <3> QED  BY <3>1, <3>2 DEF Built
  <2>2. Field(act[s]) = "memory limit" /\ Companion(s) = "memory request"
        /\ Wanted(act[s], repo) = Positive(act[s].target, "Mi")
    BY <2>1 DEF Field, Companion, Wanted
  <2>3. Sound("memory request", requestValue(act[s].target))
    <3> DEFINE mb == act[s].target
    <3>1. (3 * mb) \div 4 \in Int
      BY <2>1
    <3>2. \A n \in Nat : Value(n, "Mi") \in Values /\ Value(n, "Mi").n = n
      BY DEF Value, Values, KnownSuffixes
    <3> DEFINE quarters == (3 * mb) \div 4
    <3>3. quarters \in Int /\ requestValue(mb) = IF quarters < 1 THEN Value(1, "Mi") ELSE Value(quarters, "Mi")
      BY <3>1 DEF requestValue
    <3> HIDE DEF quarters, mb
    <3>4. \E n \in Nat : n > 0 /\ requestValue(mb) = Value(n, "Mi")
      <4>1. CASE quarters < 1
        BY <3>3, <4>1
      <4>2. CASE ~(quarters < 1)
        BY <3>3, <4>2
      <4> QED  BY <4>1, <4>2
    <3> QED  BY <3>2, <3>4 DEF Sound, mb
  <2> QED  BY <1>1, <1>6, <2>2, <2>3, ActsStep DEF RightSizeMemory
<1>7. CASE RightSizeCPU(s)
  <2>1. act[s].kind = "right-size-cpu" /\ act[s].target \in Nat /\ act[s].target > 0
    <3>1. act[s].kind = "right-size-cpu" /\ act[s] \in Built
      BY <1>1, <1>7, Asked DEF RightSizeCPU
    <3>2. \A t \in Targets \union {0} : t \in Int
      BY RemediatorsAssumption
    <3> QED  BY <3>1, <3>2 DEF Built
  <2>2. Field(act[s]) = "cpu request" /\ Companion(s) = "cpu limit"
        /\ Wanted(act[s], repo) = Positive(act[s].target, "m")
    BY <2>1 DEF Field, Companion, Wanted
  <2>3. Sound("cpu limit", Positive(2 * act[s].target, "m"))
    <3>1. 2 * act[s].target \in Nat /\ 2 * act[s].target > 0
      BY <2>1
    <3> DEFINE double == 2 * act[s].target
    <3>2. double \in Nat /\ double > 0
      BY <3>1
    <3> HIDE DEF double
    <3>3. Positive(double, "m") = Value(double, "m")
      BY <3>2 DEF Positive
    <3>4. Value(double, "m") \in Values /\ Value(double, "m").n = double
      BY <3>2 DEF Value, Values
    <3> QED  BY <3>2, <3>3, <3>4 DEF Sound, double
  <2> QED  BY <1>1, <1>7, <2>2, <2>3, ActsStep DEF RightSizeCPU
<1> QED  BY <1>2, <1>3, <1>4, <1>5, <1>6, <1>7 DEF Call

LEMMA NewStep ==
  ASSUME RInv, NEW s \in Slots, New(s)
  PROVE  RInv' /\ Contract
<1> PICK a \in Built : act' = [act EXCEPT ![s] = a]
  BY DEF New
<1>1. UNCHANGED <<repo, applied, edits, shown, before>> /\ act[s] = None
  BY DEF New
<1>2. applied[s] = None /\ shown[s] = None /\ before[s] = None
  BY <1>1 DEF RInv, OwnEdit
<1>3. ActionTypes'
  BY <1>1 DEF RInv, ActionTypes
<1>4. ASSUME NEW t \in Slots
      PROVE  (OwnEdit(t) /\ Announced(t) /\ OnlyOwnFields(t))'
  <2>1. CASE t = s
    BY <1>1, <1>2, <2>1 DEF OwnEdit, Announced, OnlyOwnFields
  <2>2. CASE t # s
    <3>1. act'[t] = act[t]
      BY <2>2 DEF RInv, ActionTypes
    <3> QED  BY <1>1, <3>1 DEF RInv, OwnEdit, Announced, OnlyOwnFields, Companion
  <2> QED  BY <2>1, <2>2
<1>5. Contract
  BY <1>1 DEF Contract, AppliedAsShown, RollbackRestores, Changed
<1> QED  BY <1>3, <1>4, <1>5 DEF RInv

LEMMA DiscardStep ==
  ASSUME RInv, NEW s \in Slots, Discard(s)
  PROVE  RInv' /\ Contract
<1>1. /\ act' = [act EXCEPT ![s] = None] /\ applied' = [applied EXCEPT ![s] = None]
      /\ shown' = [shown EXCEPT ![s] = None] /\ before' = [before EXCEPT ![s] = None]
      /\ UNCHANGED <<repo, edits>>
  BY DEF Discard
<1>2. ActionTypes'
  BY <1>1 DEF RInv, ActionTypes
<1>3. /\ act'[s] = None /\ applied'[s] = None /\ shown'[s] = None /\ before'[s] = None
      /\ \A t \in Slots \ {s} : /\ act'[t] = act[t] /\ applied'[t] = applied[t]
                                /\ shown'[t] = shown[t] /\ before'[t] = before[t]
  BY <1>1 DEF RInv, ActionTypes
<1>4. ASSUME NEW t \in Slots
      PROVE  (OwnEdit(t) /\ Announced(t) /\ OnlyOwnFields(t))'
  <2>1. CASE t = s
    BY <1>3, <2>1 DEF OwnEdit, Announced, OnlyOwnFields
  <2>2. CASE t # s
    <3>1. Companion(t)' = Companion(t)
      BY <1>3, <2>2 DEF Companion
    <3> QED  BY <1>1, <1>3, <2>2, <3>1 DEF RInv, OwnEdit, Announced, OnlyOwnFields
  <2> QED  BY <2>1, <2>2
<1>5. Contract
  BY <1>1, <1>3 DEF Contract, AppliedAsShown, RollbackRestores, Changed
<1> QED  BY <1>2, <1>4, <1>5 DEF RInv

LEMMA InitRInv == Init => RInv
<1> SUFFICES ASSUME Init PROVE RInv
  OBVIOUS
<1> PICK file \in Files0 : repo = [file |-> file, log |-> <<Deployment(file)>>]
  BY DEF Init
<1>1. file \in Manifests
  BY RemediatorsAssumption DEF Manifests
<1>2. Deployment(file) \in Deployments
  <2>1. Deployment(file) \in [DeploymentFields -> Values \union {None}]
    BY <1>1 DEF Deployment, DeploymentFields, Manifests
  <2>2. \A g \in DeploymentFields : Deployment(file)[g] = file[g] /\ g \in Fields
    BY DEF Deployment, DeploymentFields
  <2>3. FileOK(Deployment(file))
    BY <1>1, <2>1, <2>2, ManifestFields DEF FileOK, Sound
  <2> QED  BY <2>1, <2>3 DEF Deployments
<1>3. repo \in Clones
  <2>1. <<Deployment(file)>> \in Seq(Deployments) \ {<<>>}
    BY <1>2
  <2> QED  BY <1>1, <2>1 DEF Clones
<1>4. ActionTypes
  BY <1>3, RemediatorsAssumption DEF Init, ActionTypes
<1> QED  BY <1>4 DEF Init, RInv, OwnEdit, Announced, OnlyOwnFields

LEMMA NextRInv == RInv /\ [Next]_vars => RInv' /\ (Contract \/ UNCHANGED vars)
<1> SUFFICES ASSUME RInv, [Next]_vars PROVE RInv' /\ (Contract \/ UNCHANGED vars)
  OBVIOUS
<1>1. CASE UNCHANGED vars
  <2>1. UNCHANGED <<repo, act, applied, edits, shown, before>>
    BY <1>1 DEF vars
  <2>2. ActionTypes'
    BY <2>1 DEF RInv, ActionTypes
  <2>3. ASSUME NEW t \in Slots PROVE (OwnEdit(t) /\ Announced(t) /\ OnlyOwnFields(t))'
    BY <2>1 DEF RInv, OwnEdit, Announced, OnlyOwnFields, Companion
  <2> QED  BY <1>1, <2>2, <2>3 DEF RInv
<1>2. CASE Next
  BY <1>2, NewStep, CallStep, DiscardStep DEF Next
<1> QED  BY <1>1, <1>2

LEMMA RInvTypes == RInv => TypeOK
<1> SUFFICES ASSUME RInv PROVE TypeOK
  OBVIOUS
<1>1. repo.file \in Manifests /\ repo.log \in Seq(Deployments)
  BY DEF RInv, ActionTypes, Clones
<1>2. \A i \in DOMAIN repo.log : FileOK(repo.log[i])
  BY <1>1 DEF Deployments
<1>3. ASSUME NEW s \in Slots
      PROVE  /\ act[s] = None \/ act[s] \in Built
             /\ applied[s] = None \/ (act[s] # None /\ applied[s] \in Results)
             /\ before[s] = None \/ FileOK(before[s])
  BY DEF RInv, ActionTypes, OwnEdit, Manifests
<1> QED  BY <1>1, <1>2, <1>3 DEF TypeOK, Manifests, RInv, ActionTypes

\* What an action's calls promise, for any number of actions on one clone, in any order,
\* repeated and failing: Apply does what the last dry run announced, if nothing changed
\* the clone since, and nothing else but its companion; and a rollback puts back what
\* Apply found, if no other action changed the manifests since.
THEOREM CallsKeepTheirPromise == Spec => ActionContract
<1>1. RInv /\ [Next]_vars => [\A s \in Slots : AppliedAsShown(s) /\ RollbackRestores(s)]_vars
  BY NextRInv DEF Contract
<1>2. RInv /\ [Next]_vars => RInv'
  BY NextRInv
<1> QED  BY <1>1, <1>2, InitRInv, PTL DEF Spec, ActionContract

\* The actions and the verifier, checked side by side, keep the types of both: the
\* manifests stay manifests, and no quantity in them is ever zero.
THEOREM ActionsTypeCorrect == MCSpec => []MCTypeOK
<1>1. MCInit => RInv /\ VInv
  BY InitRInv, InitVInv DEF MCInit
<1>2. RInv /\ VInv /\ [MCNext]_<<vars, verifierVars, part>> => (RInv /\ VInv)'
  <2> SUFFICES ASSUME RInv, VInv, [MCNext]_<<vars, verifierVars, part>> PROVE (RInv /\ VInv)'
    OBVIOUS
  <2>1. [Next]_vars /\ [VerifierNext]_verifierVars
    BY DEF MCNext
  <2> QED  BY <2>1, NextRInv, NextVInv
<1>3. RInv /\ VInv => MCTypeOK
  BY RInvTypes DEF VInv, MCTypeOK
<1> QED  BY <1>1, <1>2, <1>3, PTL DEF MCSpec
=============================================================================
