----------------------------- MODULE GitWriter -----------------------------
(***************************************************************************)
(* How a remediation changes the cluster: Apply of the remediator's actions *)
(* (scale sets a value, a memory bump reads one first) and the shared       *)
(* gitwriter.Writer below it, which edits one field of a manifest in the    *)
(* worktree, stages and commits it and pushes the branch.  Nothing locks    *)
(* the repository: each file read, file write and git call is a step, and   *)
(* the pipelines' goroutines interleave.  The clone outlives the process.   *)
(*                                                                         *)
(* A manifest is its fields' values.  os.WriteFile empties the file before *)
(* it fills it.  A branch is the sequence of its commits.  go-git is       *)
(* external: Add reads the index file and writes it back, Commit reads     *)
(* HEAD, then the index, and sets the branch without comparing, and only   *)
(* the remote side of a push compares.                                     *)
(***************************************************************************)
EXTENDS Integers, Sequences, SequencesExt

CONSTANTS
  Appliers,      \* pipeline goroutines in stage 6
  Files, Fields, \* manifests, and what an action may change in each
  Targets,       \* values a scale sets
  MaxApplies,    \* bound on the number of Apply calls
  Faults         \* what may go wrong: "disk", "git", "push", "crash", "human"

ASSUME GitWriterAssumption ==
  /\ Fields # {} /\ Targets \subseteq Nat /\ MaxApplies \in Nat
  /\ Faults \subseteq {"disk", "git", "push", "crash", "human"}

VARIABLES
  worktree,  \* contents of the files
  index,     \* what is staged
  local,     \* commits of the local branch
  remote,    \* commits of the remote branch
  step,      \* the step of each goroutine
  job,       \* its call: a number, file, field, new value, data, original, and
             \* its copies of the index and of the branch
  before,    \* history: the worktree when the call began
  applies,   \* number of calls begun
  mishaps,   \* history: a write failed ("disk"), "crash", "overlap"
  lost,      \* history: the calls whose commit was overwritten on the branch
  done       \* history: the calls that returned

callVars == <<step, job>>
history  == <<before, applies, mishaps, lost, done>>
repoVars == <<index, local, remote>>
writerVars == <<worktree, repoVars, callVars, history>>

Empty == [d \in Fields |-> -1]
NoJob == [n |-> 0]
BumpFactor == 1
Tree0 == [f \in Files |-> [d \in Fields |-> 0]]
Human == 0

WriterInit ==
  /\ worktree = Tree0 /\ index = Tree0
  /\ local = <<[by |-> Human, tree |-> Tree0]>> /\ remote = local
  /\ step = [a \in Appliers |-> "idle"]
  /\ job = [a \in Appliers |-> NoJob]
  /\ before = [a \in Appliers |-> Tree0]
  /\ applies = 0 /\ mishaps = {} /\ lost = {} /\ done = {}

-----------------------------------------------------------------------------
Step(a, from, to) == step[a] = from /\ step' = [step EXCEPT ![a] = to]

Mishap(kind) == mishaps' = mishaps \union {kind}

File(a) == worktree[job[a].file]

\* Apply returns, and the pipeline's goroutine is free for the next call.
Ends(a, from, status) ==
  /\ Step(a, from, "idle")
  /\ done' = done \union {[n |-> job[a].n, status |-> status, file |-> job[a].file,
                           field |-> job[a].field, new |-> job[a].new]}
  /\ job' = [job EXCEPT ![a] = NoJob]
  /\ UNCHANGED <<worktree, repoVars, before, applies, lost>>

Return(a, from, status) == Ends(a, from, status) /\ UNCHANGED mishaps

Call(f, d, v) ==
  [n |-> applies + 1, file |-> f, field |-> d, new |-> v, data |-> Empty,
   original |-> Empty, idx |-> Tree0, head |-> <<>>]

\* Apply of an action: a bump computes its value first.
Begin(a) ==
  /\ applies < MaxApplies /\ applies' = applies + 1
  /\ \E f \in Files, d \in Fields :
       \/ /\ Step(a, "idle", "read")
          /\ \E v \in Targets : job' = [job EXCEPT ![a] = Call(f, d, v)]
       \/ /\ Step(a, "idle", "current")
          /\ job' = [job EXCEPT ![a] = Call(f, d, -1)]
  /\ before' = [before EXCEPT ![a] = worktree]
  /\ IF \A b \in Appliers : step[b] = "idle" THEN UNCHANGED mishaps ELSE Mishap("overlap")
  /\ UNCHANGED <<worktree, repoVars, lost, done>>

\* computeNewValue, from a read of its own.
GetCurrentValue(a) ==
  \/ /\ Step(a, "current", "read")
     /\ File(a) # Empty
     /\ job' = [job EXCEPT ![a].new = File(a)[job[a].field] + BumpFactor]
     /\ UNCHANGED <<worktree, repoVars, history>>
  \/ Return(a, "current", "error") /\ File(a) = Empty

\* EditField reads the manifest again; an emptied one is not found, and a
\* field that has the value already is left alone.
SetField(data, d, v) == [data EXCEPT ![d] = v]

HasValue(a) == File(a)[job[a].field] = job[a].new

EditField(a) ==
  \/ Return(a, "read", "error") /\ File(a) = Empty
  \/ Return(a, "read", "no-op") /\ HasValue(a)
  \/ /\ Step(a, "read", "snapshot")
     /\ File(a) # Empty /\ ~HasValue(a)
     /\ job' = [job EXCEPT ![a].data = SetField(File(a), job[a].field, job[a].new)]
     /\ UNCHANGED <<worktree, repoVars, history>>

\* Any of the three reads may fail; nothing was written yet.
ReadFails(a) ==
  /\ "disk" \in Faults
  /\ \E s \in {"current", "read", "snapshot"} : Return(a, s, "error")

-----------------------------------------------------------------------------
(* commit.                                                                 *)

Snapshot(a) ==
  /\ Step(a, "snapshot", "write")
  /\ job' = [job EXCEPT ![a].original = File(a)]
  /\ UNCHANGED <<worktree, repoVars, history>>

\* os.WriteFile, in its two steps.
Truncate(a, from, to) ==
  /\ Step(a, from, to)
  /\ worktree' = [worktree EXCEPT ![job[a].file] = Empty]
  /\ UNCHANGED <<repoVars, job, history>>

Fill(a, from, to, data) ==
  /\ Step(a, from, to)
  /\ worktree' = [worktree EXCEPT ![job[a].file] = data]
  /\ UNCHANGED <<repoVars, job, history>>

WriteFile(a) == Truncate(a, "write", "fill") \/ Fill(a, "fill", "add", job[a].data)

\* The only error path that does not restore the file.
BugIgnored(a, from) ==
  /\ Step(a, from, "add") /\ Mishap("disk")
  /\ UNCHANGED <<worktree, repoVars, job, before, applies, lost, done>>
WriteError(a, from) == Ends(a, from, "error") /\ Mishap("disk")

WriteFails(a) ==
  "disk" \in Faults /\ (WriteError(a, "write") \/ WriteError(a, "fill"))

\* go-git's Add: the index is read, and then written with the file as it is now.
ReadIndex(a) ==
  /\ Step(a, "add", "stage")
  /\ job' = [job EXCEPT ![a].idx = index]
  /\ UNCHANGED <<worktree, repoVars, history>>

Staged(a) == [job[a].idx EXCEPT ![job[a].file] = File(a)]

Stage(a) ==
  /\ Step(a, "stage", "commit")
  /\ index' = Staged(a)
  /\ UNCHANGED <<worktree, local, remote, job, history>>

Add(a) == ReadIndex(a) \/ Stage(a)

\* go-git's Commit: HEAD is to be the parent, the whole index, whoever staged it,
\* is the tree, and the branch is set to the new commit, wherever it is by then.
ReadHead(a) ==
  /\ Step(a, "commit", "tree")
  /\ job' = [job EXCEPT ![a].head = local]
  /\ UNCHANGED <<worktree, repoVars, history>>

BuildTree(a) ==
  /\ Step(a, "tree", "ref")
  /\ job' = [job EXCEPT ![a].idx = index]
  /\ UNCHANGED <<worktree, repoVars, history>>

Callers(branch) == {branch[i].by : i \in DOMAIN branch}

Committed(a) == Append(job[a].head, [by |-> job[a].n, tree |-> job[a].idx])

SetBranch(a) ==
  /\ Step(a, "ref", "push")
  /\ local' = Committed(a)
  /\ lost' = lost \union (Callers(local) \ Callers(local'))
  /\ UNCHANGED <<worktree, index, remote, job, before, applies, mishaps, done>>

Commit(a) == ReadHead(a) \/ BuildTree(a) \/ SetBranch(a)

BugKeepsTheFile == "failed"
AfterGitError == "restore"

GitFails(a) ==
  /\ "git" \in Faults
  /\ \E s \in {"add", "stage", "commit", "tree", "ref"} : Step(a, s, AfterGitError)
  /\ UNCHANGED <<worktree, repoVars, job, history>>

\* A push without force: the remote branch must be a prefix of the local one;
\* a branch that is there already is no error.
FastForward == IsPrefix(remote, local)

Push(a) ==
  /\ FastForward
  /\ remote' = local
  /\ Step(a, "push", "pushed")
  /\ UNCHANGED <<worktree, index, local, job, history>>

\* Refused, or failed on the way there or back.
BugKeepsTheEdit == "failed"
AfterPushError == "restore"

PushFails(a) ==
  /\ Step(a, "push", AfterPushError)
  /\ \/ ~FastForward /\ UNCHANGED remote
     \/ "push" \in Faults /\ (UNCHANGED remote \/ (FastForward /\ remote' = local))
  /\ UNCHANGED <<worktree, index, local, job, history>>

\* Restoring may fail too, and nobody looks.
Restore(a) ==
  \/ Truncate(a, "restore", "refill")
  \/ Fill(a, "refill", "failed", job[a].original)
  \/ /\ "disk" \in Faults
     /\ Step(a, "restore", "failed") \/ Step(a, "refill", "failed")
     /\ Mishap("disk")
     /\ UNCHANGED <<worktree, repoVars, job, before, applies, lost, done>>

Apply(a) ==
  \/ Begin(a) \/ GetCurrentValue(a) \/ EditField(a) \/ Snapshot(a)
  \/ ReadFails(a) \/ WriteFile(a) \/ WriteFails(a)
  \/ Add(a) \/ Commit(a) \/ GitFails(a)
  \/ Push(a) \/ PushFails(a) \/ Restore(a)
  \/ Return(a, "pushed", "ok") \/ Return(a, "failed", "error")

-----------------------------------------------------------------------------
(* The rest of the world.                                                  *)

\* EnsureRepo finds the clone as the last process left it.
Dies ==
  /\ "crash" \in Faults
  /\ \E a \in Appliers : step[a] # "idle"
  /\ step' = [a \in Appliers |-> "idle"]
  /\ job' = [a \in Appliers |-> NoJob]
  /\ Mishap("crash")
  /\ UNCHANGED <<worktree, repoVars, before, applies, lost, done>>

\* Somebody else pushes to the branch; the clone never fetches.
HumanPush ==
  /\ "human" \in Faults
  /\ \A i \in 2..Len(remote) : remote[i].by # Human
  /\ \E f \in Files, d \in Fields, v \in Targets :
       remote' = Append(remote, [by |-> Human,
                   tree |-> [Last(remote).tree EXCEPT ![f][d] = v]])
  /\ UNCHANGED <<worktree, index, local, callVars, history>>

WriterNext == Dies \/ HumanPush \/ \E a \in Appliers : Apply(a)

WriterSpec == WriterInit /\ [][WriterNext]_writerVars

-----------------------------------------------------------------------------
(* Properties.                                                             *)

\* What Apply answers is true.  A commit it reports is on the remote branch,
\* whichever goroutine pushed it and whatever was pushed in between, unless another
\* call that had read HEAD before set the branch back over it; until two calls
\* overlap it is there and makes the change.  Until a write fails, the process dies
\* or two calls overlap, a no-op finds what the remote branch has, or had until
\* somebody else changed it.
ResultIsTrue ==
  \A r \in done :
    /\ r.status = "ok" => r.n \in Callers(remote) \union lost
    /\ r.status = "ok" /\ "overlap" \notin mishaps =>
         \E i \in DOMAIN remote : /\ remote[i].by = r.n
                                 /\ remote[i].tree[r.file][r.field] = r.new
    /\ r.status = "no-op" /\ mishaps = {} =>
         \E i \in DOMAIN remote : remote[i].tree[r.file][r.field] = r.new

\* Until a write fails, the process dies or two calls overlap: an Apply that
\* returns an error, of whichever step, leaves the worktree as it found it, so that
\* a retry edits the same manifest.
FailureRestores ==
  [][\A a \in Appliers, s \in {"current", "read", "snapshot", "failed"} :
       Return(a, s, "error") /\ mishaps = {} => worktree = before[a]]_writerVars

\* Until two calls overlap, no manifest is ever published empty, whatever
\* crashes, fails or is left half-written.
NeverEmptied ==
  "overlap" \notin mishaps =>
    \A i \in DOMAIN remote, f \in Files : remote[i].tree[f] # Empty
=============================================================================
