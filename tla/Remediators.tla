---------------------------- MODULE Remediators ----------------------------
(***************************************************************************)
(* The remediation actions: each is built for one incident or one command  *)
(* line, may be dry-run, applied and rolled back, and changes fields of the *)
(* manifests in the clone by Writer.EditField, which is a single step here *)
(* (module GitWriter takes it apart).  The clone's commits matter because  *)
(* an image rollback without a known-good image looks for one in them.     *)
(*                                                                         *)
(* A value is a number and a unit, which is empty for replica counts and    *)
(* images; None is a field that a manifest lacks, or an error.             *)
(***************************************************************************)
EXTENDS Integers, Sequences, SequencesExt

CONSTANTS
  Slots,        \* places for action objects that exist at one time
  Kinds,        \* which actions are built
  Targets,      \* replicas, megabytes, millicores and images they are built with
  Files0,       \* contents the manifests may start with
  MaxEdits,     \* bound on the number of Apply and Rollback calls
  None

Fields == {"replicas", "image", "memory limit", "memory request",
           "cpu limit", "cpu request", "minReplicas"}
DeploymentFields == Fields \ {"minReplicas"}
Counts == {"replicas", "image", "minReplicas"}

NoUnit == ""
KnownSuffixes == {"Ki", "Mi", "Gi", "Ti", "K", "M", "G", "T", NoUnit}
Value(n, unit) == [n |-> n, unit |-> unit]
Values == [n : Nat, unit : KnownSuffixes \union {"m"}]

\* A field may be missing, and a quantity is never zero.
FileOK(file) ==
  \A f \in DOMAIN file :
    file[f] = None \/ (file[f] \in Values /\ (f \notin Counts => file[f].n > 0))

\* What the command line and the builder ask for: only an image rollback and
\* an autoscaler's minimum may be without a target; a bump has none.
Built ==
  {a \in [kind : Kinds, target : Targets \union {0}] :
     \/ a.kind \in {"patch-hpa", "rollback-deployment"}
     \/ IF a.kind = "bump-memory-limit" THEN a.target = 0 ELSE a.target > 0}

\* What an action keeps of the edit that Apply made.
Results == [status : {"ok", "no-op"}, field : Fields, old : Values]

ASSUME RemediatorsAssumption ==
  /\ Targets \subseteq Int /\ MaxEdits \in Nat
  /\ \A file \in Files0 : file \in [Fields -> Values \union {None}] /\ FileOK(file)
  /\ None \notin Fields /\ None \notin Values /\ None \notin Built /\ None \notin Results

VARIABLES
  repo,     \* the clone: manifests' fields, and the deployment's commits
  act,      \* the action in each slot
  applied,  \* its `applied`: the result of the edit that Apply made
  edits,    \* calls counted against MaxEdits
  shown,    \* history: what a dry run announced, while the clone is as it was
  before    \* history: the fields when Apply began, while no other action changed them

vars == <<repo, act, applied, edits, shown, before>>

Deployment(file) == [f \in DeploymentFields |-> file[f]]

Outcomes == {"works", "git fails", "push fails"}

Init ==
  /\ \E file \in Files0 : repo = [file |-> file, log |-> <<Deployment(file)>>]
  /\ act = [s \in Slots |-> None] /\ applied = [s \in Slots |-> None]
  /\ edits = 0
  /\ shown = [s \in Slots |-> None] /\ before = [s \in Slots |-> None]

-----------------------------------------------------------------------------
(* The writer.                                                             *)

\* The commits that touch the deployment's manifest: minReplicas is in another,
\* and the same contents again, after a failed push, are no change.
Committed(log, f, file) ==
  IF f = "minReplicas" \/ Last(log) = Deployment(file) THEN log
  ELSE Append(log, Deployment(file))

\* A failed push leaves its commit and restores the file.
EditField(r, f, v, how) ==
  LET new == [r.file EXCEPT ![f] = v]
      Result(r2, status) == [repo |-> r2, status |-> status, old |-> r.file[f]]
  IN  IF r.file[f] = None      THEN Result(r, "error")
      ELSE IF r.file[f] = v    THEN Result(r, "no-op")
      ELSE IF how = "git fails" THEN Result(r, "error")
      ELSE IF how = "push fails"
           THEN Result([r EXCEPT !.log = Committed(@, f, new)], "error")
      ELSE Result([file |-> new, log |-> Committed(r.log, f, new)], "ok")

\* The field as the commit before the newest one to the manifest has it,
\* whatever that newest commit was about.
GetPreviousValue(r, f) == IF Len(r.log) < 2 THEN None ELSE r.log[Len(r.log) - 1][f]

\* Multiplied by three halves, rounded up, in the same unit.  Anything with a
\* suffix that knownSuffixes lacks has no numeric part to parse.
BumpQuantity(q) ==
  IF q = None \/ q.unit \notin KnownSuffixes \/ q.n <= 0 THEN None
  ELSE [q EXCEPT !.n = (3 * @ + 1) \div 2]

-----------------------------------------------------------------------------
(* What every action does with its object.                                 *)

Unless(changed, history) == [s \in Slots |-> IF changed THEN None ELSE history[s]]

\* The clone is as the call left it.
Leaves(r) ==
  /\ repo' = r /\ edits' = edits + 1
  /\ shown' = Unless(r # repo, shown)
  /\ UNCHANGED act

DryRun(s, f, v) ==
  LET ok == v # None /\ EditField(repo, f, v, "works").status # "error"
  IN  /\ shown' = [shown EXCEPT ![s] = IF ok THEN v ELSE None]
      /\ UNCHANGED <<repo, act, applied, edits, before>>

\* Once only; the companion c, if there is one, is edited afterwards, and the
\* result of that is dropped.
Apply(s, f, v, c, w) ==
  /\ edits < MaxEdits
  /\ \E how, how2 \in Outcomes :
       LET first == EditField(repo, f, v, how)
           done  == IF c = None THEN first.repo ELSE EditField(first.repo, c, w, how2).repo
       IN  IF applied[s] # None \/ v = None \/ first.status = "error"
           THEN /\ Leaves(IF applied[s] # None \/ v = None THEN repo ELSE first.repo)
                /\ UNCHANGED <<applied, before>>
           ELSE /\ Leaves(done)
                /\ applied' = [applied EXCEPT ![s] =
                                 [status |-> first.status, field |-> f, old |-> first.old]]
                /\ before' = [Unless(done.file # repo.file, before) EXCEPT ![s] = repo.file]

\* A no-op is not undone, and only the field in `applied` is.
Rollback(s, undo) ==
  /\ edits < MaxEdits
  /\ \E how \in Outcomes :
       LET res == EditField(repo, applied[s].field, undo, how)
       IN  IF applied[s] = None \/ applied[s].status = "no-op"
           THEN Leaves(repo) /\ UNCHANGED before
           ELSE /\ Leaves(res.repo)
                /\ before' = [Unless(res.repo.file # repo.file, before)
                                EXCEPT ![s] = before[s]]
  /\ UNCHANGED applied

Acts(s, f, v, c, w, undo) ==
  DryRun(s, f, v) \/ Apply(s, f, v, c, w) \/ Rollback(s, undo)

-----------------------------------------------------------------------------
(* The actions.                                                            *)

ScaleDeployment(s) ==
  /\ act[s].kind = "scale-deployment"
  /\ Acts(s, "replicas", Value(act[s].target, NoUnit), None, None, applied[s].old)

\* NewPatchHPA takes two for anything that is not positive, also when Rollback
\* calls it.
MinReplicas(v) == IF v.n <= 0 THEN Value(2, NoUnit) ELSE v

PatchHPA(s) ==
  /\ act[s].kind = "patch-hpa"
  /\ Acts(s, "minReplicas", MinReplicas(Value(act[s].target, NoUnit)), None, None,
          MinReplicas(applied[s].old))

\* Zero stands for an empty KnownGoodRef.
resolveTarget(s) ==
  IF act[s].target > 0 THEN Value(act[s].target, NoUnit) ELSE GetPreviousValue(repo, "image")

RollbackDeployment(s) ==
  /\ act[s].kind = "rollback-deployment"
  /\ Acts(s, "image", resolveTarget(s), None, None, applied[s].old)

BugFactorAgain(s) ==
  /\ act[s].kind = "bump-memory-limit"
  /\ LET bumped == BumpQuantity(repo.file["memory limit"])
     IN  Acts(s, "memory limit", bumped, None, None, bumped)
BumpMemoryLimit(s) ==
  /\ act[s].kind = "bump-memory-limit"
  /\ Acts(s, "memory limit", BumpQuantity(repo.file["memory limit"]), None, None,
          applied[s].old)

Positive(n, unit) == IF n <= 0 THEN None ELSE Value(n, unit)

\* Three quarters of the limit, and at least one.
BugNoFloor(mb) == Value((3 * mb) \div 4, "Mi")
requestValue(mb) ==
  IF (3 * mb) \div 4 < 1 THEN Value(1, "Mi") ELSE Value((3 * mb) \div 4, "Mi")

RightSizeMemory(s) ==
  /\ act[s].kind = "right-size-memory"
  /\ Acts(s, "memory limit", Positive(act[s].target, "Mi"),
          "memory request", requestValue(act[s].target), applied[s].old)

RightSizeCPU(s) ==
  /\ act[s].kind = "right-size-cpu"
  /\ Acts(s, "cpu request", Positive(act[s].target, "m"),
          "cpu limit", Positive(2 * act[s].target, "m"), applied[s].old)

New(s) ==
  /\ act[s] = None
  /\ \E a \in Built : act' = [act EXCEPT ![s] = a]
  /\ UNCHANGED <<repo, applied, edits, shown, before>>

\* The pipeline or the command ends, and the object with what it remembers.
Discard(s) ==
  /\ act[s] # None
  /\ act' = [act EXCEPT ![s] = None] /\ applied' = [applied EXCEPT ![s] = None]
  /\ shown' = [shown EXCEPT ![s] = None] /\ before' = [before EXCEPT ![s] = None]
  /\ UNCHANGED <<repo, edits>>

Call(s) ==
  /\ act[s] # None
  /\ \/ ScaleDeployment(s) \/ PatchHPA(s) \/ RollbackDeployment(s)
     \/ BumpMemoryLimit(s) \/ RightSizeMemory(s) \/ RightSizeCPU(s)

Next == \E s \in Slots : New(s) \/ Call(s) \/ Discard(s)

Spec == Init /\ [][Next]_vars

-----------------------------------------------------------------------------
(* Properties.                                                             *)

\* Every variable has its type: the manifests stay manifests, and no quantity
\* in them is ever zero, whatever the actions round.
TypeOK ==
  /\ repo.file \in [Fields -> Values \union {None}] /\ FileOK(repo.file)
  /\ \A i \in DOMAIN repo.log : FileOK(repo.log[i])
  /\ \A s \in Slots :
       /\ act[s] = None \/ act[s] \in Built
       /\ applied[s] = None \/ (act[s] # None /\ applied[s] \in Results)
       /\ before[s] = None \/ FileOK(before[s])
  /\ edits \in 0..MaxEdits

Companion(s) == CASE act[s].kind = "right-size-memory" -> "memory request"
                  [] act[s].kind = "right-size-cpu"    -> "cpu limit"
                  [] OTHER                             -> None

Changed == repo'.file # repo.file

\* Apply does what the last dry run announced, if no call has changed the clone
\* since, and changes nothing else but the companion.
AppliedAsShown(s) ==
  applied[s] = None /\ applied'[s] # None =>
    \A f \in Fields :
      IF f = applied'[s].field
      THEN shown[s] # None => repo'.file[f] = shown[s]
      ELSE f = Companion(s) \/ repo'.file[f] = repo.file[f]

\* A rollback that changes the manifests puts back all that Apply found, if no
\* other action changed them since; but a companion field stays as Apply left
\* it, and a minimum that was not positive becomes two.
RollbackRestores(s) ==
  Changed /\ applied' = applied /\ before[s] # None /\ before'[s] # None =>
    \A f \in Fields \ {Companion(s)} :
      \/ repo'.file[f] = before[s][f]
      \/ f = "minReplicas" /\ before[s][f].n <= 0 /\ repo'.file[f].n = 2

\* What the calls of an action promise the pipeline and the command line, in
\* any order, repeated, failing, and between the calls of other actions: what was
\* shown is what is applied, and what was applied is what is undone.
ActionContract ==
  [][\A s \in Slots : AppliedAsShown(s) /\ RollbackRestores(s)]_vars
=============================================================================
