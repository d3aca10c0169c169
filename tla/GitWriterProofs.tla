-------------------------- MODULE GitWriterProofs ---------------------------
(***************************************************************************)
(* Theorems about the changes remediations push through one unlocked       *)
(* clone, for every number of goroutines, manifests, fields and calls, and *)
(* every set of faults.                                                    *)
(***************************************************************************)
EXTENDS GitWriter, SequenceTheorems, TLAPS

Steps == {"idle", "current", "read", "snapshot", "write", "fill", "add", "stage", "commit",
          "tree", "ref", "push", "pushed", "restore", "refill", "failed"}

Filled == [Fields -> Nat]
Tree   == [Files -> Filled \union {Empty}]
Trees  == [Files -> [Fields -> Nat \union {-1}]]
Branch == Seq([by : Nat, tree : Trees])
Job    == [n : Nat, file : Files, field : Fields, new : Nat \union {-1},
           data : Filled \union {Empty}, original : Filled \union {Empty},
           idx : Tree, head : Branch]
Reply  == [n : Nat, status : {"ok", "no-op", "error"}, file : Files, field : Fields,
           new : Nat \union {-1}]

\* A manifest of the clone is empty or has all its fields; somebody else may fill
\* an empty one in part.
Types ==
  /\ worktree \in Tree /\ index \in Tree
  /\ local \in Branch /\ local # <<>> /\ remote \in Branch /\ remote # <<>>
  /\ step \in [Appliers -> Steps] /\ job \in [Appliers -> Job \union {NoJob}]
  /\ before \in [Appliers -> Tree] /\ applies \in Nat
  /\ mishaps \subseteq {"disk", "crash", "overlap"} /\ lost \subseteq Nat
  /\ done \subseteq Reply

\* What a call knows at each of its steps.
Jobs ==
  \A a \in Appliers :
    /\ step[a] # "idle" => job[a] \in Job
    /\ step[a] \notin {"idle", "current"} => job[a].new \in Nat
    /\ step[a] \notin {"idle", "current", "read"} =>
         job[a].data \in Filled /\ job[a].data[job[a].field] = job[a].new

CommitsOf(n, branch) == {i \in DOMAIN branch : branch[i].by = n}

\* A call that pushes has its commit, and one that is told "ok" pushed it, unless it
\* was overwritten.
Landed ==
  /\ \A a \in Appliers : step[a] = "push" => job[a].n \in Callers(local) \union lost
  /\ \A a \in Appliers : step[a] = "pushed" => job[a].n \in Callers(remote) \union lost
  /\ \A r \in done : r.status = "ok" => r.n \in Callers(remote) \union lost

FullTree(t) == \A f \in Files : t[f] # Empty

Holding == {"add", "stage", "commit", "tree", "ref", "push"}

\* One call at a time edits, stages and commits what it computed.
Alone ==
  "overlap" \notin mishaps =>
    /\ \A a, b \in Appliers : step[a] # "idle" /\ step[b] # "idle" => a = b
    /\ FullTree(index)
    /\ \A i \in DOMAIN local : FullTree(local[i].tree)
    /\ \A i \in DOMAIN remote : FullTree(remote[i].tree)
    /\ \A a \in Appliers : step[a] \in Holding => File(a) = job[a].data
    /\ \A a \in Appliers : step[a] \in {"commit", "tree"} => index[job[a].file] = job[a].data
    /\ \A a \in Appliers : step[a] \in {"stage", "ref"} => FullTree(job[a].idx)
    /\ \A a \in Appliers : step[a] = "ref" => job[a].idx[job[a].file] = job[a].data
    /\ \A a \in Appliers : step[a] \in {"tree", "ref"} => job[a].head = local
    /\ \A a \in Appliers : step[a] = "push" =>
         \E i \in CommitsOf(job[a].n, local) : local[i].tree[job[a].file] = job[a].data
    /\ \A a \in Appliers : step[a] = "pushed" =>
         \E i \in CommitsOf(job[a].n, remote) : remote[i].tree[job[a].file] = job[a].data
    /\ \A r \in done : r.status = "ok" =>
         \E i \in CommitsOf(r.n, remote) : remote[i].tree[r.file][r.field] = r.new

Editing == Holding \union {"fill", "restore", "refill"}

Published(f, data) ==
  \A d \in Fields : \E i \in DOMAIN remote : remote[i].tree[f][d] = data[d]

\* The manifests nobody edits are what the remote branch has or had, and the edited
\* one was when its call began.
Clean ==
  mishaps = {} =>
    /\ \A f \in Files :
         (\A a \in Appliers : step[a] \in Editing => job[a].file # f) => Published(f, worktree[f])
    /\ \A a \in Appliers : step[a] \in {"current", "read", "snapshot", "write", "failed"} =>
         worktree = before[a]
    /\ \A a \in Appliers : step[a] \in Editing \union {"write"} =>
         /\ job[a].original = before[a][job[a].file]
         /\ Published(job[a].file, job[a].original)
         /\ \A f \in Files \ {job[a].file} : worktree[f] = before[a][f]
    /\ \A r \in done : r.status = "no-op" =>
         \E i \in DOMAIN remote : remote[i].tree[r.file][r.field] = r.new

IInv == Types /\ Jobs /\ Landed /\ Alone /\ Clean

-----------------------------------------------------------------------------
(* Manifests, branches and calls.                                          *)

Commits == [by : Nat, tree : Trees]

LEMMA Shapes ==
  /\ Empty \notin Filled /\ Fields # {}
  /\ \A c \in Filled \union {Empty} : c # Empty <=> c \in Filled
  /\ Tree0 \in Tree /\ FullTree(Tree0) /\ Tree \subseteq Trees
  /\ Branch = Seq(Commits)
<1>1. Empty \notin Filled /\ Fields # {}
  BY GitWriterAssumption DEF Empty, Filled
<1>2. \A f \in Files : Tree0[f] \in Filled
  BY DEF Tree0, Filled
<1>3. Filled \union {Empty} \subseteq [Fields -> Nat \union {-1}]
  BY DEF Filled, Empty
<1>4. Tree \subseteq Trees
  BY <1>3 DEF Tree, Trees
<1> QED  BY <1>1, <1>2, <1>4 DEF Tree, Tree0, FullTree, Branch, Commits

LEMMA Typed ==
  ASSUME IInv
  PROVE  /\ \A a \in Appliers : step[a] \in Steps
         /\ \A f \in Files : worktree[f] \in Filled \union {Empty}
         /\ \A a \in Appliers : step[a] # "idle" =>
              job[a] \in Job /\ job[a].file \in Files /\ job[a].field \in Fields
              /\ job[a].n \in Nat /\ File(a) \in Filled \union {Empty}
         /\ local \in Seq(Commits) /\ remote \in Seq(Commits)
         /\ DOMAIN local = 1..Len(local) /\ DOMAIN remote = 1..Len(remote)
         /\ Len(local) \in Nat /\ Len(remote) \in Nat
         /\ \A i \in DOMAIN local : local[i] \in Commits
         /\ \A i \in DOMAIN remote : remote[i] \in Commits
<1>1. \A a \in Appliers : step[a] \in Steps
  BY DEF IInv, Types
<1>2. \A f \in Files : worktree[f] \in Filled \union {Empty}
  BY DEF IInv, Types, Tree
<1>3. \A a \in Appliers : step[a] # "idle" =>
              job[a] \in Job /\ job[a].file \in Files /\ job[a].field \in Fields
              /\ job[a].n \in Nat /\ File(a) \in Filled \union {Empty}
  BY <1>2 DEF IInv, Jobs, Job, File
<1>4. local \in Seq(Commits) /\ remote \in Seq(Commits)
  BY Shapes DEF IInv, Types
<1> QED  BY <1>1, <1>2, <1>3, <1>4, LenProperties, ElementOfSeq

\* A branch that grows keeps its commits.
Grows(old, new) ==
  /\ DOMAIN old \subseteq DOMAIN new
  /\ \A i \in DOMAIN old : new[i] = old[i]

LEMMA AppendGrows ==
  ASSUME NEW s \in Seq(Commits), NEW c \in Commits
  PROVE  /\ Append(s, c) \in Seq(Commits) /\ Append(s, c) # <<>>
         /\ Grows(s, Append(s, c))
         /\ Len(s) + 1 \in DOMAIN Append(s, c) /\ Append(s, c)[Len(s) + 1] = c
         /\ \A i \in DOMAIN Append(s, c) : i \in DOMAIN s \/ Append(s, c)[i] = c
<1> DEFINE t == Append(s, c)
<1>1. /\ t \in Seq(Commits) /\ t # <<>> /\ Len(t) = Len(s) + 1
      /\ \A i \in 1..Len(s) : t[i] = s[i]
      /\ t[Len(s) + 1] = c
  BY AppendProperties
<1>2. DOMAIN s = 1..Len(s) /\ DOMAIN t = 1..Len(t) /\ Len(s) \in Nat
  BY <1>1, LenProperties
<1> HIDE DEF t
<1>3. \A i \in DOMAIN t : i \in DOMAIN s \/ t[i] = c
  BY <1>1, <1>2
<1> QED  BY <1>1, <1>2, <1>3 DEF Grows, t

LEMMA PushGrows ==
  ASSUME NEW s \in Seq(Commits), NEW t \in Seq(Commits), IsPrefix(s, t)
  PROVE  Grows(s, t)
<1>1. /\ DOMAIN s = 1..Len(s) /\ DOMAIN t = 1..Len(t) /\ Len(s) \in Nat /\ Len(t) \in Nat
      /\ Len(s) <= Len(t)
  BY LenProperties DEF IsPrefix
<1>2. \A i \in 1..Len(s) : SubSeq(s, 1, Len(s))[i] = s[i]
  <2>1. \A i \in 1..Len(s) : s[i] \in Commits
    BY <1>1, ElementOfSeq
  <2>2. \A i \in 1..(Len(s) - 1 + 1) : SubSeq(s, 1, Len(s))[i] = s[1 + i - 1]
    BY <1>1, <2>1, SubSeqProperties
  <2> QED  BY <1>1, <2>2
<1>3. \A i \in 1..Len(s) : SubSeq(t, 1, Len(s))[i] = t[i]
  <2>1. \A i \in 1..Len(s) : t[i] \in Commits
    BY <1>1, ElementOfSeq
  <2>2. \A i \in 1..(Len(s) - 1 + 1) : SubSeq(t, 1, Len(s))[i] = t[1 + i - 1]
    BY <1>1, <2>1, SubSeqProperties
  <2> QED  BY <1>1, <2>2
<1> QED  BY <1>1, <1>2, <1>3 DEF IsPrefix, Grows

LEMMA GrowingKeeps ==
  ASSUME NEW s, NEW t, Grows(s, t)
  PROVE  /\ \A n : CommitsOf(n, s) \subseteq CommitsOf(n, t)
         /\ \A n : \A i \in CommitsOf(n, s) : t[i] = s[i]
         /\ Callers(s) \subseteq Callers(t)
BY DEF Grows, CommitsOf, Callers

LEMMA InitIInv == WriterInit => IInv
<1> SUFFICES ASSUME WriterInit PROVE IInv
  OBVIOUS
<1> DEFINE root == [by |-> Human, tree |-> Tree0]
<1>1. root \in Commits
  BY Shapes DEF Commits, Human
<1>2. /\ local = <<root>> /\ remote = <<root>> /\ <<root>> \in Seq(Commits) /\ <<root>> # <<>>
      /\ DOMAIN remote = {1} /\ DOMAIN local = {1} /\ remote[1] = root /\ local[1] = root
  BY <1>1 DEF WriterInit
<1>3. \A a \in Appliers : step[a] = "idle"
  BY DEF WriterInit
<1> HIDE DEF root
<1>4. Types
  <2>1. step \in [Appliers -> Steps] /\ job \in [Appliers -> Job \union {NoJob}]
    BY DEF WriterInit, Steps
  <2>2. worktree \in Tree /\ index \in Tree /\ before \in [Appliers -> Tree]
    BY Shapes DEF WriterInit
  <2>3. applies \in Nat /\ mishaps = {} /\ lost = {} /\ done = {}
    BY DEF WriterInit
  <2> QED  BY <2>1, <2>2, <2>3, <1>2, Shapes DEF Types
<1>5. Jobs /\ Landed
  BY <1>3 DEF Jobs, Landed, WriterInit
<1>6. Alone
  BY <1>2, <1>3, Shapes DEF Alone, WriterInit, root, Holding
<1>7. \A f \in Files : Published(f, worktree[f])
  BY <1>2 DEF Published, WriterInit, root
<1>8. Clean
  BY <1>3, <1>7 DEF Clean, Editing, Holding, WriterInit
<1> QED  BY <1>4, <1>5, <1>6, <1>8 DEF IInv

-----------------------------------------------------------------------------
(* A step of a call.                                                       *)

Acts(a, to, h) ==
  /\ step' = [step EXCEPT ![a] = to] /\ job' = [job EXCEPT ![a] = h]
  /\ h.n = job[a].n /\ h.file = job[a].file /\ h.field = job[a].field
  /\ mishaps' \in {mishaps, mishaps \union {"disk"}}
  /\ UNCHANGED <<before, applies, done>>

\* The repository after a step of a call that works on file f.
Repo(f) ==
  /\ worktree' \in Tree /\ index' \in Tree /\ local' \in Branch /\ remote' \in Branch
  /\ local' # <<>> /\ remote' # <<>> /\ Grows(remote, remote')
  /\ lost \subseteq lost' /\ lost' \subseteq Nat
  /\ Callers(local) \subseteq Callers(local') \union lost'
  /\ \A g \in Files \ {f} : worktree'[g] = worktree[g]

KnowsData(to, h) ==
  /\ to # "current" => h.new \in Nat
  /\ to \notin {"current", "read"} => h.data \in Filled /\ h.data[h.field] = h.new

\* What the call must have done when nobody else is at work.
DoneAlone(to, h) ==
  /\ FullTree(index')
  /\ \A i \in DOMAIN local' : FullTree(local'[i].tree)
  /\ \A i \in DOMAIN remote' : FullTree(remote'[i].tree)
  /\ to \in Holding => worktree'[h.file] = h.data
  /\ to \in {"commit", "tree"} => index'[h.file] = h.data
  /\ to \in {"stage", "ref"} => FullTree(h.idx)
  /\ to = "ref" => h.idx[h.file] = h.data
  /\ to \in {"tree", "ref"} => h.head = local'
  /\ to = "push" => \E i \in CommitsOf(h.n, local') : local'[i].tree[h.file] = h.data
  /\ to = "pushed" => \E i \in CommitsOf(h.n, remote') : remote'[i].tree[h.file] = h.data

\* And when nothing went wrong besides.
DoneClean(a, to, h) ==
  /\ to \in {"current", "read", "snapshot", "write", "failed"} => worktree' = before[a]
  /\ to \in Editing \union {"write"} =>
       /\ h.original = before[a][h.file]
       /\ \A d \in Fields : \E i \in DOMAIN remote' : remote'[i].tree[h.file][d] = h.original[d]
       /\ \A f \in Files \ {h.file} : worktree[f] = before[a][f]
  /\ to \notin Editing =>
       \A d \in Fields : \E i \in DOMAIN remote' :
         remote'[i].tree[h.file][d] = worktree'[h.file][d]

LEMMA CallStep ==
  ASSUME IInv, NEW a \in Appliers, step[a] # "idle", NEW to \in Steps, to # "idle",
         NEW h \in Job, Acts(a, to, h), Repo(h.file), KnowsData(to, h),
         to = "push" => h.n \in Callers(local') \union lost',
         to = "pushed" => h.n \in Callers(remote') \union lost',
         "overlap" \notin mishaps => DoneAlone(to, h),
         mishaps' = {} => DoneClean(a, to, h)
  PROVE  IInv'
<1>1. /\ step' \in [Appliers -> Steps] /\ step'[a] = to
      /\ \A b \in Appliers \ {a} : step'[b] = step[b]
  BY DEF Acts, IInv, Types
<1>2. /\ job' \in [Appliers -> Job \union {NoJob}] /\ job'[a] = h
      /\ \A b \in Appliers \ {a} : job'[b] = job[b]
  BY DEF Acts, IInv, Types
<1>3. Types'
  BY <1>1, <1>2 DEF IInv, Types, Acts, Repo
<1>4. Jobs'
  BY <1>1, <1>2 DEF IInv, Jobs, KnowsData
<1>5. /\ \A n : CommitsOf(n, remote) \subseteq CommitsOf(n, remote')
      /\ \A n : \A i \in CommitsOf(n, remote) : remote'[i] = remote[i]
      /\ Callers(remote) \subseteq Callers(remote')
      /\ Callers(local) \subseteq Callers(local') \union lost' /\ lost \subseteq lost'
  BY GrowingKeeps DEF Repo
<1>6. Landed'
  <2>1. \A b \in Appliers : step'[b] = "push" => job'[b].n \in Callers(local') \union lost'
    BY <1>1, <1>2, <1>5 DEF IInv, Landed
  <2>2. \A b \in Appliers : step'[b] = "pushed" => job'[b].n \in Callers(remote') \union lost'
    BY <1>1, <1>2, <1>5 DEF IInv, Landed
  <2>3. \A r \in done' : r.status = "ok" => r.n \in Callers(remote') \union lost'
    BY <1>5 DEF IInv, Landed, Acts
  <2> QED  BY <2>1, <2>2, <2>3 DEF Landed, Callers
<1>7. Alone'
  <2> SUFFICES ASSUME "overlap" \notin mishaps' PROVE Alone'
    BY DEF Alone
  <2>1. "overlap" \notin mishaps /\ DoneAlone(to, h)
    BY DEF Acts
  <2>2. \A b \in Appliers : step'[b] # "idle" => b = a
    BY <2>1, <1>1 DEF IInv, Alone
  <2>3. \A r \in done' : r.status = "ok" =>
          \E i \in CommitsOf(r.n, remote') : remote'[i].tree[r.file][r.field] = r.new
    BY <2>1, <1>5 DEF IInv, Alone, Acts
  <2>4. FullTree(index)'
    BY <2>1 DEF DoneAlone, FullTree
  <2>5. /\ \A i \in DOMAIN local' : FullTree(local'[i].tree)
        /\ \A i \in DOMAIN remote' : FullTree(remote'[i].tree)
    BY <2>1 DEF DoneAlone
  <2>6. \A b \in Appliers :
          /\ step'[b] \in Holding => worktree'[job'[b].file] = job'[b].data
          /\ step'[b] \in {"commit", "tree"} => index'[job'[b].file] = job'[b].data
          /\ step'[b] \in {"stage", "ref"} => FullTree(job'[b].idx)
          /\ step'[b] = "ref" => job'[b].idx[job'[b].file] = job'[b].data
          /\ step'[b] \in {"tree", "ref"} => job'[b].head = local'
    BY <2>1, <2>2, <1>1, <1>2 DEF DoneAlone, Holding
  <2>7. \A b \in Appliers :
          /\ step'[b] = "push" =>
               \E i \in CommitsOf(job'[b].n, local') :
                 local'[i].tree[job'[b].file] = job'[b].data
          /\ step'[b] = "pushed" =>
               \E i \in CommitsOf(job'[b].n, remote') :
                 remote'[i].tree[job'[b].file] = job'[b].data
    BY <2>1, <2>2, <1>1, <1>2 DEF DoneAlone
  <2> QED  BY <2>2, <2>3, <2>4, <2>5, <2>6, <2>7 DEF Alone, File, FullTree, CommitsOf
<1>8. Clean'
  <2> SUFFICES ASSUME mishaps' = {} PROVE Clean'
    BY DEF Clean
  <2>1. mishaps = {} /\ DoneClean(a, to, h)
    BY DEF Acts
  <2>2. \A b \in Appliers : step'[b] # "idle" => b = a
    BY <2>1, <1>1 DEF IInv, Alone
  <2>3. ASSUME NEW f \in Files,
               \A b \in Appliers : step'[b] \in Editing => job'[b].file # f
        PROVE  \A d \in Fields : \E i \in DOMAIN remote' :
                  remote'[i].tree[f][d] = worktree'[f][d]
    <3>1. CASE f = h.file
      <4>1. to \notin Editing
        BY <3>1, <2>3, <1>1, <1>2
      <4> QED  BY <3>1, <4>1, <2>1 DEF DoneClean
    <3>2. CASE f # h.file
      <4>1. \A b \in Appliers : step[b] \in Editing => job[b].file # f
        BY <3>2, <2>1, <2>2, <1>1 DEF Acts, Editing, Holding
      <4>2. Published(f, worktree[f]) /\ worktree'[f] = worktree[f]
        BY <4>1, <3>2, <2>1 DEF IInv, Clean, Repo
      <4> QED  BY <4>2 DEF Published, Repo, Grows
    <3> QED  BY <3>1, <3>2
  <2>4. \A b \in Appliers : step'[b] \in {"current", "read", "snapshot", "write", "failed"} =>
          worktree' = before'[b]
    BY <2>1, <2>2, <1>1 DEF DoneClean, Acts
  <2>5. ASSUME NEW b \in Appliers, step'[b] \in Editing \union {"write"}
        PROVE  /\ job'[b].original = before'[b][job'[b].file]
               /\ \A d \in Fields : \E i \in DOMAIN remote' :
                    remote'[i].tree[job'[b].file][d] = job'[b].original[d]
               /\ \A f \in Files \ {job'[b].file} : worktree'[f] = before'[b][f]
    <3>1. b = a
      BY <2>2, <2>5 DEF Editing, Holding
    <3>2. /\ h.original = before[a][h.file]
          /\ \A d \in Fields : \E i \in DOMAIN remote' : remote'[i].tree[h.file][d] = h.original[d]
          /\ \A f \in Files \ {h.file} : worktree[f] = before[a][f]
      BY <3>1, <2>1, <2>5, <1>1 DEF DoneClean
    <3>3. job'[b] = h /\ before' = before
      BY <3>1, <1>2 DEF Acts
    <3> QED  BY <3>1, <3>2, <3>3 DEF Repo
  <2>6. \A r \in done' : r.status = "no-op" =>
          \E i \in DOMAIN remote' : remote'[i].tree[r.file][r.field] = r.new
    BY <2>1 DEF IInv, Clean, Acts, Repo, Grows
  <2> QED  BY <2>3, <2>4, <2>5, <2>6 DEF Clean, Published
<1> QED  BY <1>3, <1>4, <1>6, <1>7, <1>8 DEF IInv

\* What a call may take for granted.
LEMMA AtWork ==
  ASSUME IInv, NEW a \in Appliers, step[a] # "idle"
  PROVE  /\ "overlap" \notin mishaps =>
              /\ FullTree(index)
              /\ \A i \in DOMAIN local : FullTree(local[i].tree)
              /\ \A i \in DOMAIN remote : FullTree(remote[i].tree)
              /\ step[a] \in Holding => File(a) = job[a].data
              /\ step[a] \in {"commit", "tree"} => index[job[a].file] = job[a].data
              /\ step[a] \in {"stage", "ref"} => FullTree(job[a].idx)
              /\ step[a] = "ref" => job[a].idx[job[a].file] = job[a].data
              /\ step[a] \in {"tree", "ref"} => job[a].head = local
              /\ step[a] = "push" =>
                   \E i \in CommitsOf(job[a].n, local) : local[i].tree[job[a].file] = job[a].data
              /\ step[a] = "pushed" =>
                   \E i \in CommitsOf(job[a].n, remote) :
                     remote[i].tree[job[a].file] = job[a].data
         /\ mishaps = {} =>
              /\ \A f \in Files : (step[a] \in Editing /\ job[a].file = f) \/ Published(f, worktree[f])
              /\ step[a] \in {"current", "read", "snapshot", "write", "failed"} =>
                   worktree = before[a]
              /\ step[a] \in Editing \union {"write"} =>
                   /\ job[a].original = before[a][job[a].file]
                   /\ Published(job[a].file, job[a].original)
                   /\ \A f \in Files \ {job[a].file} : worktree[f] = before[a][f]
<1>1. ASSUME mishaps = {}
      PROVE  \A f \in Files : (step[a] \in Editing /\ job[a].file = f) \/ Published(f, worktree[f])
  <2>1. \A b \in Appliers : step[b] # "idle" => b = a
    BY <1>1 DEF IInv, Alone
  <2> QED  BY <2>1, <1>1 DEF IInv, Clean, Editing, Holding
<1> QED  BY <1>1 DEF IInv, Alone, Clean

LEMMA StillGrows == \A s : Grows(s, s)
BY DEF Grows

\* A step that leaves the clone alone; the remote branch may have caught up with it.
LEMMA QuietCall ==
  ASSUME IInv, NEW a \in Appliers, step[a] # "idle", NEW to \in Steps,
         to # "idle", to \notin Holding,
         NEW h \in Job, Acts(a, to, h), KnowsData(to, h),
         UNCHANGED <<worktree, index, local, lost>>,
         remote' = remote \/ (FastForward /\ remote' = local),
         to = "pushed" => step[a] = "push" /\ remote' = local /\ h = job[a],
         mishaps' = {} => DoneClean(a, to, h)
  PROVE  IInv'
<1>1. remote' \in Branch /\ remote' # <<>> /\ Grows(remote, remote')
  BY Typed, StillGrows, PushGrows DEF IInv, Types, FastForward
<1>2. Repo(h.file)
  BY <1>1, StillGrows DEF Repo, IInv, Types
<1>3. to = "pushed" => h.n \in Callers(remote') \union lost'
  BY DEF IInv, Landed
<1>4. ASSUME "overlap" \notin mishaps
      PROVE  DoneAlone(to, h)
  <2>1. /\ FullTree(index) /\ \A i \in DOMAIN local : FullTree(local[i].tree)
        /\ \A i \in DOMAIN remote : FullTree(remote[i].tree)
        /\ to = "pushed" =>
             \E i \in CommitsOf(h.n, remote') : remote'[i].tree[h.file] = h.data
    BY <1>4, AtWork
  <2>2. \A i \in DOMAIN remote' : FullTree(remote'[i].tree)
    BY <2>1
  <2>3. to \notin {"stage", "commit", "tree", "ref", "push"}
    BY DEF Holding
  <2> QED  BY <2>1, <2>2, <2>3 DEF DoneAlone, FullTree
<1>5. to \notin {"stage", "commit", "tree", "ref", "push"}
  BY DEF Holding
<1> QED  BY <1>2, <1>3, <1>4, <1>5, CallStep

LEMMA JobStays ==
  ASSUME IInv, NEW a \in Appliers
  PROVE  job = [job EXCEPT ![a] = job[a]]
BY DEF IInv, Types

Reads(a) ==
  /\ UNCHANGED <<worktree, repoVars, history>>
  /\ \/ /\ Step(a, "current", "read") /\ File(a) # Empty
        /\ job' = [job EXCEPT ![a].new = File(a)[job[a].field] + BumpFactor]
     \/ /\ Step(a, "read", "snapshot") /\ File(a) # Empty
        /\ job' = [job EXCEPT ![a].data = SetField(File(a), job[a].field, job[a].new)]
     \/ /\ Step(a, "snapshot", "write")
        /\ job' = [job EXCEPT ![a].original = File(a)]

LEMMA ReadSteps ==
  ASSUME IInv, NEW a \in Appliers, Reads(a)
  PROVE  IInv'
<1>0. step[a] # "idle"
  BY DEF Reads, Step
<1>1. /\ job[a] \in Job /\ File(a) \in Filled \union {Empty} /\ job[a].field \in Fields
      /\ job \in [Appliers -> Job \union {NoJob}] /\ job[a].file \in Files
      /\ job[a].new \in Nat \union {-1}
  BY <1>0, Typed DEF IInv, Types, Job
<1>2. UNCHANGED <<worktree, index, local, remote, before, applies, lost, done, mishaps>>
  BY DEF Reads, repoVars, history
<1>3. mishaps = {} => Published(job[a].file, File(a)) \/ step[a] \in Editing
  BY <1>0, <1>1, AtWork DEF File
<1>4. CASE Step(a, "current", "read") /\ File(a) # Empty
           /\ job' = [job EXCEPT ![a].new = File(a)[job[a].field] + BumpFactor]
  <2> DEFINE v == File(a)[job[a].field] + BumpFactor
             h == [job[a] EXCEPT !.new = v]
  <2>1. v \in Nat
    BY <1>1, <1>4, Shapes DEF Filled, BumpFactor
  <2>2. job' = [job EXCEPT ![a] = h]
    BY <1>1, <1>4
  <2> HIDE DEF v
  <2>3. /\ h \in Job /\ h.n = job[a].n /\ h.file = job[a].file /\ h.field = job[a].field
        /\ h.new = v
    BY <1>1, <2>1 DEF Job
  <2> HIDE DEF h
  <2>4. Acts(a, "read", h)
    BY <1>2, <1>4, <2>2, <2>3 DEF Acts, Step
  <2>5. mishaps' = {} => DoneClean(a, "read", h)
    BY <1>0, <1>2, <1>3, <1>4, <2>3, AtWork DEF DoneClean, Editing, Holding, Step, Published, File
  <2> QED  BY <1>0, <1>2, <2>1, <2>3, <2>4, <2>5, QuietCall DEF KnowsData, Steps, Holding
<1>5. CASE Step(a, "read", "snapshot") /\ File(a) # Empty
           /\ job' = [job EXCEPT ![a].data = SetField(File(a), job[a].field, job[a].new)]
  <2> DEFINE c == SetField(File(a), job[a].field, job[a].new)
             h == [job[a] EXCEPT !.data = c]
  <2>1. job[a].new \in Nat /\ File(a) \in Filled
    BY <1>1, <1>5, Shapes DEF IInv, Jobs, Step
  <2>2. c \in Filled /\ c[job[a].field] = job[a].new
    BY <1>1, <2>1 DEF SetField, Filled
  <2>3. job' = [job EXCEPT ![a] = h]
    BY <1>1, <1>5
  <2> HIDE DEF c
  <2>4. /\ h \in Job /\ h.n = job[a].n /\ h.file = job[a].file /\ h.field = job[a].field
        /\ h.new = job[a].new /\ h.data = c
    BY <1>1, <2>2 DEF Job
  <2> HIDE DEF h
  <2>5. Acts(a, "snapshot", h)
    BY <1>2, <1>5, <2>3, <2>4 DEF Acts, Step
  <2>6. mishaps' = {} => DoneClean(a, "snapshot", h)
    BY <1>0, <1>2, <1>3, <1>5, <2>4, AtWork DEF DoneClean, Editing, Holding, Step, Published, File
  <2> QED  BY <1>0, <1>2, <2>1, <2>2, <2>4, <2>5, <2>6, QuietCall DEF KnowsData, Steps, Holding
<1>6. CASE Step(a, "snapshot", "write") /\ job' = [job EXCEPT ![a].original = File(a)]
  <2> DEFINE h == [job[a] EXCEPT !.original = File(a)]
  <2>1. job' = [job EXCEPT ![a] = h]
    BY <1>1, <1>6
  <2>2. /\ h \in Job /\ h.n = job[a].n /\ h.file = job[a].file /\ h.field = job[a].field
        /\ h.new = job[a].new /\ h.data = job[a].data /\ h.original = File(a)
    BY <1>1 DEF Job
  <2> HIDE DEF h
  <2>3. Acts(a, "write", h) /\ KnowsData("write", h)
    BY <1>2, <1>6, <2>1, <2>2 DEF Acts, Step, KnowsData, IInv, Jobs
  <2>4. mishaps' = {} => DoneClean(a, "write", h)
    BY <1>0, <1>2, <1>3, <1>6, <2>2, AtWork DEF DoneClean, Editing, Holding, Step, Published, File
  <2> QED  BY <1>0, <1>2, <2>2, <2>3, <2>4, QuietCall DEF Steps, Holding
<1> QED  BY <1>4, <1>5, <1>6 DEF Reads

\* os.WriteFile, for the edit and for the restore.
LEMMA FileStep ==
  ASSUME IInv, NEW a \in Appliers,
         \/ Truncate(a, "write", "fill") \/ Fill(a, "fill", "add", job[a].data)
         \/ Truncate(a, "restore", "refill") \/ Fill(a, "refill", "failed", job[a].original)
  PROVE  IInv'
<1> DEFINE h == job[a]
<1>1. PICK to \in Steps, c \in Filled \union {Empty} :
        /\ Step(a, step[a], to) /\ worktree' = [worktree EXCEPT ![h.file] = c]
        /\ \/ step[a] = "write" /\ to = "fill"
           \/ step[a] = "restore" /\ to = "refill"
           \/ step[a] = "fill" /\ to = "add" /\ c = h.data
           \/ step[a] = "refill" /\ to = "failed" /\ c = h.original
  <2>1. step[a] \in {"write", "fill", "restore", "refill"}
    BY DEF Truncate, Fill, Step
  <2>2. h.data \in Filled \union {Empty} /\ h.original \in Filled \union {Empty}
    BY <2>1, Typed DEF Job
  <2>3. /\ Empty \in Filled \union {Empty}
        /\ "fill" \in Steps /\ "add" \in Steps /\ "refill" \in Steps /\ "failed" \in Steps
    BY DEF Steps
  <2>4. CASE Truncate(a, "write", "fill")
    BY <2>3, <2>4 DEF Truncate, Step
  <2>5. CASE Truncate(a, "restore", "refill")
    BY <2>3, <2>5 DEF Truncate, Step
  <2>6. CASE Fill(a, "fill", "add", job[a].data)
    BY <2>2, <2>3, <2>6 DEF Fill, Step
  <2>7. CASE Fill(a, "refill", "failed", job[a].original)
    BY <2>2, <2>3, <2>7 DEF Fill, Step
  <2> QED  BY <2>4, <2>5, <2>6, <2>7
<1>2. UNCHANGED <<repoVars, job, history>>
  BY DEF Truncate, Fill
<1>3. h \in Job /\ h.file \in Files /\ step[a] # "idle" /\ to # "idle"
  BY <1>1, Typed
<1>4. Acts(a, to, h)
  BY <1>1, <1>2, JobStays DEF Acts, Step, history
<1>5. worktree' \in Tree /\ worktree'[h.file] = c /\ \A g \in Files \ {h.file} : worktree'[g] = worktree[g]
  BY <1>1, <1>3 DEF IInv, Types, Tree
<1>6. UNCHANGED <<index, local, remote, mishaps, lost>>
  BY <1>2 DEF repoVars, history
<1>7. Repo(h.file)
  BY <1>5, <1>6, StillGrows DEF Repo, IInv, Types
<1>8. KnowsData(to, h)
  BY <1>1, <1>3 DEF KnowsData, IInv, Jobs
<1>9. "overlap" \notin mishaps => DoneAlone(to, h)
  <2> SUFFICES ASSUME "overlap" \notin mishaps PROVE DoneAlone(to, h)
    OBVIOUS
  <2>1. /\ FullTree(index)
        /\ \A i \in DOMAIN local : FullTree(local[i].tree)
        /\ \A i \in DOMAIN remote : FullTree(remote[i].tree)
    BY <1>3, AtWork
  <2> QED  BY <2>1, <1>1, <1>5, <1>6 DEF DoneAlone, FullTree, Holding
<1>10. mishaps = {} => DoneClean(a, to, h)
  <2> SUFFICES ASSUME mishaps = {} PROVE DoneClean(a, to, h)
    OBVIOUS
  <2>1. /\ h.original = before[a][h.file] /\ Published(h.file, h.original)
        /\ \A f \in Files \ {h.file} : worktree[f] = before[a][f]
    BY <1>1, <1>3, AtWork DEF Editing, Holding
  <2>2. to = "failed" => worktree' = before[a]
    <3> SUFFICES ASSUME to = "failed" PROVE worktree' = before[a]
      OBVIOUS
    <3>1. \A f \in Files : worktree'[f] = before[a][f]
      BY <1>1, <1>5, <2>1
    <3> QED  BY <3>1, <1>5 DEF IInv, Types, Tree
  <2> HIDE DEF h
  <2>3. to \in {"fill", "add", "refill", "failed"}
    BY <1>1
  <2>4. \A d \in Fields : \E i \in DOMAIN remote' : remote'[i].tree[h.file][d] = h.original[d]
    BY <2>1, <1>6 DEF Published
  <2>5. to = "failed" => worktree'[h.file] = h.original
    BY <1>1, <1>5
  <2> QED  BY <2>1, <2>2, <2>3, <2>4, <2>5 DEF DoneClean, Editing, Holding
<1> HIDE DEF h
<1> QED  BY <1>3, <1>4, <1>6, <1>7, <1>8, <1>9, <1>10, <1>1, CallStep

\* The steps of git that only read: the index, HEAD, and the index again.
LEMMA CopySteps ==
  ASSUME IInv, NEW a \in Appliers, ReadIndex(a) \/ ReadHead(a) \/ BuildTree(a)
  PROVE  IInv'
<1> DEFINE Copied(to, h) ==
             /\ step' = [step EXCEPT ![a] = to] /\ job' = [job EXCEPT ![a] = h]
             /\ h.n = job[a].n /\ h.file = job[a].file /\ h.field = job[a].field
             /\ h.new = job[a].new /\ h.data = job[a].data /\ h.original = job[a].original
             /\ \/ step[a] = "add" /\ to = "stage" /\ h.idx = index
                \/ step[a] = "commit" /\ to = "tree" /\ h.head = local
                \/ step[a] = "tree" /\ to = "ref" /\ h.idx = index /\ h.head = job[a].head
<1>1. PICK to \in {"stage", "tree", "ref"}, h \in Job : Copied(to, h)
  <2>1. job[a] \in Job /\ index \in Tree /\ local \in Branch
    BY Typed DEF ReadIndex, ReadHead, BuildTree, Step, IInv, Types
  <2>2. CASE ReadIndex(a)
    <3> DEFINE h == [job[a] EXCEPT !.idx = index]
    <3>1. h \in Job /\ job' = [job EXCEPT ![a] = h]
      BY <2>1, <2>2 DEF Job, ReadIndex
    <3>2. Copied("stage", h)
      BY <2>1, <2>2, <3>1 DEF Job, ReadIndex, Step
    <3> QED  BY <3>1, <3>2
  <2>3. CASE ReadHead(a)
    <3> DEFINE h == [job[a] EXCEPT !.head = local]
    <3>1. h \in Job /\ job' = [job EXCEPT ![a] = h]
      BY <2>1, <2>3 DEF Job, ReadHead
    <3>2. Copied("tree", h)
      BY <2>1, <2>3, <3>1 DEF Job, ReadHead, Step
    <3> QED  BY <3>1, <3>2
  <2>4. CASE BuildTree(a)
    <3> DEFINE h == [job[a] EXCEPT !.idx = index]
    <3>1. h \in Job /\ job' = [job EXCEPT ![a] = h]
      BY <2>1, <2>4 DEF Job, BuildTree
    <3>2. Copied("ref", h)
      BY <2>1, <2>4, <3>1 DEF Job, BuildTree, Step
    <3> QED  BY <3>1, <3>2
  <2> QED  BY <2>2, <2>3, <2>4
<1>2. UNCHANGED <<worktree, index, local, remote, before, applies, mishaps, lost, done>>
  BY DEF ReadIndex, ReadHead, BuildTree, repoVars, history
<1>3. /\ step[a] # "idle" /\ step[a] \in Holding
      /\ to # "idle" /\ to # "push" /\ to # "pushed" /\ to \in Steps /\ to \in Holding
  BY <1>1 DEF Holding, Steps
<1>4. Acts(a, to, h) /\ KnowsData(to, h)
  BY <1>1, <1>2 DEF Acts, KnowsData, IInv, Jobs
<1>5. Repo(h.file)
  BY <1>2, StillGrows DEF Repo, IInv, Types
<1>6. "overlap" \notin mishaps => DoneAlone(to, h)
  BY <1>1, <1>2, <1>3, AtWork DEF DoneAlone, File, FullTree
<1>7. mishaps' = {} => DoneClean(a, to, h)
  <2> SUFFICES ASSUME mishaps = {} PROVE DoneClean(a, to, h)
    BY <1>2
  <2>1. /\ job[a].original = before[a][job[a].file]
        /\ Published(job[a].file, job[a].original)
        /\ \A f \in Files \ {job[a].file} : worktree[f] = before[a][f]
    BY <1>3, AtWork DEF Editing
  <2> QED  BY <2>1, <1>1, <1>2, <1>3 DEF DoneClean, Editing, Holding, Published
<1> HIDE DEF Copied
<1> QED  BY <1>3, <1>4, <1>5, <1>6, <1>7, CallStep

LEMMA StageStep ==
  ASSUME IInv, NEW a \in Appliers, Stage(a)
  PROVE  IInv'
<1> DEFINE h == job[a]
<1>1. step[a] = "stage" /\ Step(a, "stage", "commit") /\ index' = [h.idx EXCEPT ![h.file] = File(a)]
  BY DEF Stage, Step, Staged
<1>2. UNCHANGED <<worktree, local, remote, job, mishaps, before, applies, lost, done>>
  BY DEF Stage, history
<1>3. h \in Job /\ h.file \in Files /\ File(a) \in Filled \union {Empty} /\ h.idx \in Tree
  BY <1>1, Typed DEF Job
<1>4. Acts(a, "commit", h)
  BY <1>1, <1>2, JobStays DEF Acts, Step
<1>5. index' \in Tree /\ index'[h.file] = File(a) /\ \A g \in Files \ {h.file} : index'[g] = h.idx[g]
  BY <1>1, <1>3 DEF Tree
<1>6. Repo(h.file)
  BY <1>2, <1>5, StillGrows DEF Repo, IInv, Types
<1>7. KnowsData("commit", h) /\ h.data # Empty
  BY <1>1, Shapes DEF KnowsData, IInv, Jobs
<1>8. "overlap" \notin mishaps => DoneAlone("commit", h)
  <2> SUFFICES ASSUME "overlap" \notin mishaps PROVE DoneAlone("commit", h)
    OBVIOUS
  <2>1. /\ FullTree(h.idx) /\ File(a) = h.data
        /\ \A i \in DOMAIN local : FullTree(local[i].tree)
        /\ \A i \in DOMAIN remote : FullTree(remote[i].tree)
    BY <1>1, AtWork DEF Holding
  <2>2. FullTree(index')
    BY <2>1, <1>5, <1>7 DEF FullTree
  <2> QED  BY <2>1, <2>2, <1>2, <1>5 DEF DoneAlone, File
<1>9. mishaps = {} => DoneClean(a, "commit", h)
  BY <1>1, <1>2, AtWork DEF DoneClean, Editing, Holding, Published
<1> HIDE DEF h
<1> QED  BY <1>1, <1>2, <1>3, <1>4, <1>6, <1>7, <1>8, <1>9, CallStep DEF Steps

\* The branch becomes the parent that was read with the new commit; what others
\* committed since is lost.
LEMMA SetBranchStep ==
  ASSUME IInv, NEW a \in Appliers, SetBranch(a)
  PROVE  IInv'
<1> DEFINE h == job[a]
           c == [by |-> h.n, tree |-> h.idx]
           j == Len(h.head) + 1
<1>1. step[a] = "ref" /\ Step(a, "ref", "push") /\ local' = Append(h.head, c)
  BY DEF SetBranch, Step, Committed
<1>2. /\ UNCHANGED <<worktree, index, remote, job, mishaps, before, applies, done>>
      /\ lost' = lost \union (Callers(local) \ Callers(local'))
  BY DEF SetBranch
<1>3. h \in Job /\ h.file \in Files /\ h.n \in Nat /\ h.idx \in Tree /\ h.head \in Seq(Commits)
  BY <1>1, Typed, Shapes DEF Job
<1>4. Acts(a, "push", h)
  BY <1>1, <1>2, JobStays DEF Acts, Step
<1>5. c \in Commits /\ c.by = h.n /\ c.tree = h.idx
  BY <1>3, Shapes DEF Commits
<1> HIDE DEF h, c
<1>6. /\ local' \in Branch /\ local' # <<>> /\ Grows(h.head, local')
      /\ j \in DOMAIN local' /\ local'[j] = c
      /\ \A i \in DOMAIN local' : i \in DOMAIN h.head \/ local'[i] = c
  BY <1>1, <1>3, <1>5, Shapes, AppendGrows
<1>7. lost' \subseteq Nat
  <2>1. Callers(local) \subseteq Nat
    BY Typed DEF Callers, Commits
  <2> QED  BY <2>1, <1>2 DEF IInv, Types
<1>8. Repo(h.file)
  BY <1>2, <1>6, <1>7, StillGrows DEF Repo, IInv, Types
<1>9. KnowsData("push", h) /\ j \in CommitsOf(h.n, local') /\ h.n \in Callers(local')
  BY <1>1, <1>5, <1>6 DEF KnowsData, IInv, Jobs, CommitsOf, Callers, h
<1>10. "overlap" \notin mishaps => DoneAlone("push", h)
  <2> SUFFICES ASSUME "overlap" \notin mishaps PROVE DoneAlone("push", h)
    OBVIOUS
  <2>1. /\ FullTree(index) /\ FullTree(h.idx)
        /\ File(a) = h.data /\ h.idx[h.file] = h.data /\ h.head = local
        /\ \A i \in DOMAIN local : FullTree(local[i].tree)
        /\ \A i \in DOMAIN remote : FullTree(remote[i].tree)
    BY <1>1, AtWork DEF h, Holding
  <2>2. \A i \in DOMAIN local' : FullTree(local'[i].tree)
    BY <2>1, <1>5, <1>6 DEF Grows
  <2>3. local'[j].tree[h.file] = h.data
    BY <2>1, <1>5, <1>6
  <2> QED  BY <2>1, <2>2, <2>3, <1>2, <1>9 DEF DoneAlone, File, h, FullTree
<1>11. mishaps = {} => DoneClean(a, "push", h)
  BY <1>1, <1>2, AtWork DEF DoneClean, Editing, Holding, Published, h
<1> QED  BY <1>1, <1>2, <1>3, <1>4, <1>8, <1>9, <1>10, <1>11, CallStep DEF Steps

LEMMA PushStep ==
  ASSUME IInv, NEW a \in Appliers, Push(a)
  PROVE  IInv'
<1> DEFINE h == job[a]
<1>1. step[a] = "push" /\ Step(a, "push", "pushed") /\ FastForward /\ remote' = local
  BY DEF Push, Step
<1>2. UNCHANGED <<worktree, index, local, job, mishaps, before, applies, lost, done>>
  BY DEF Push, history
<1>3. h \in Job /\ Acts(a, "pushed", h) /\ KnowsData("pushed", h)
  BY <1>1, <1>2, JobStays, Typed DEF Acts, Step, KnowsData, IInv, Jobs
<1>4. mishaps = {} => DoneClean(a, "pushed", h)
  <2> SUFFICES ASSUME mishaps = {} PROVE DoneClean(a, "pushed", h)
    OBVIOUS
  <2>1. File(a) = h.data /\ \E i \in CommitsOf(h.n, local) : local[i].tree[h.file] = h.data
    BY <1>1, AtWork DEF Holding
  <2>2. \E i \in DOMAIN remote' : remote'[i].tree[h.file] = worktree'[h.file]
    BY <2>1, <1>1, <1>2 DEF CommitsOf, File
  <2> QED  BY <2>2 DEF DoneClean, Editing, Holding
<1> QED  BY <1>1, <1>2, <1>3, <1>4, QuietCall DEF Steps, Holding

\* A git error, a refused or failed push, and a restore that fails.
LEMMA ErrorSteps ==
  ASSUME IInv, NEW a \in Appliers,
         \/ GitFails(a) \/ PushFails(a)
         \/ /\ Step(a, "restore", "failed") \/ Step(a, "refill", "failed")
            /\ Mishap("disk") /\ UNCHANGED <<worktree, repoVars, job, before, applies, lost, done>>
  PROVE  IInv'
<1> DEFINE h == job[a]
<1>1. PICK to \in {"restore", "failed"} :
        /\ Step(a, step[a], to)
        /\ to = "restore" => step[a] \in Holding /\ mishaps' = mishaps
        /\ to = "failed" => step[a] \in {"restore", "refill"} /\ mishaps' = mishaps \union {"disk"}
  BY DEF GitFails, PushFails, Step, AfterGitError, AfterPushError, history, Mishap, Holding
<1>2. /\ UNCHANGED <<worktree, index, local, job, before, applies, lost, done>>
      /\ remote' = remote \/ (FastForward /\ remote' = local)
  BY DEF GitFails, PushFails, repoVars, history
<1>3. step[a] \in Steps /\ step[a] # "idle" /\ to \in Steps
  BY <1>1, Typed DEF Steps, Holding
<1>4. h \in Job /\ Acts(a, to, h) /\ KnowsData(to, h)
  BY <1>1, <1>2, <1>3, JobStays, Typed DEF Acts, Step, KnowsData, IInv, Jobs, Holding
<1>5. Grows(remote, remote')
  BY <1>2, Typed, StillGrows, PushGrows DEF FastForward
<1>6. mishaps' = {} => DoneClean(a, to, h)
  <2> SUFFICES ASSUME mishaps' = {} PROVE DoneClean(a, to, h)
    OBVIOUS
  <2>1. to = "restore" /\ mishaps = {} /\ step[a] \in Editing
    BY <1>1 DEF Editing, Holding
  <2>2. /\ h.original = before[a][h.file] /\ Published(h.file, h.original)
        /\ \A f \in Files \ {h.file} : worktree[f] = before[a][f]
    BY <2>1, <1>3, AtWork
  <2> HIDE DEF h
  <2>3. \A d \in Fields : \E i \in DOMAIN remote' : remote'[i].tree[h.file][d] = h.original[d]
    BY <2>2, <1>5 DEF Published, Grows
  <2> QED  BY <2>1, <2>2, <2>3 DEF DoneClean, Editing, Holding
<1> QED  BY <1>1, <1>2, <1>3, <1>4, <1>6, QuietCall DEF Holding

-----------------------------------------------------------------------------
(* A call begins and ends.                                                 *)

LEMMA BeginStep ==
  ASSUME IInv, NEW a \in Appliers, Begin(a)
  PROVE  IInv'
<1>1. PICK to \in {"current", "read"}, h \in Job :
        /\ step[a] = "idle" /\ step' = [step EXCEPT ![a] = to] /\ job' = [job EXCEPT ![a] = h]
        /\ h.new \in Nat \/ to = "current"
  <2>1. applies + 1 \in Nat /\ Empty \in Filled \union {Empty} /\ Targets \subseteq Nat
    BY GitWriterAssumption DEF IInv, Types
  <2>2. \A f \in Files, d \in Fields, v \in Nat \union {-1} :
          Call(f, d, v) \in Job /\ Call(f, d, v).new = v
    <3>1. <<>> \in Branch /\ Tree0 \in Tree
      BY Shapes DEF Branch
    <3> QED  BY <2>1, <3>1 DEF Job, Call
  <2>3. PICK f \in Files, d \in Fields :
          \/ \E v \in Targets : Step(a, "idle", "read") /\ job' = [job EXCEPT ![a] = Call(f, d, v)]
          \/ Step(a, "idle", "current") /\ job' = [job EXCEPT ![a] = Call(f, d, -1)]
    BY DEF Begin
  <2>4. ASSUME NEW v \in Targets, Step(a, "idle", "read"), job' = [job EXCEPT ![a] = Call(f, d, v)]
        PROVE  \E to \in {"current", "read"}, h \in Job :
                 /\ step[a] = "idle" /\ step' = [step EXCEPT ![a] = to]
                 /\ job' = [job EXCEPT ![a] = h]
                 /\ h.new \in Nat \/ to = "current"
    <3>1. Call(f, d, v) \in Job /\ Call(f, d, v).new \in Nat
      BY <2>1, <2>2
    <3> QED  BY <3>1, <2>4 DEF Step
  <2>5. CASE Step(a, "idle", "current") /\ job' = [job EXCEPT ![a] = Call(f, d, -1)]
    BY <2>2, <2>5 DEF Step
  <2> QED  BY <2>3, <2>4, <2>5
<1>2. /\ UNCHANGED <<worktree, index, local, remote, lost, done>>
      /\ applies' \in Nat /\ before' = [before EXCEPT ![a] = worktree]
      /\ mishaps \subseteq mishaps' /\ mishaps' \subseteq {"disk", "crash", "overlap"}
      /\ (\A b \in Appliers : step[b] = "idle") \/ "overlap" \in mishaps'
  <2>1. UNCHANGED <<worktree, index, local, remote, lost, done>>
    BY DEF Begin, repoVars
  <2>2. applies' \in Nat /\ before' = [before EXCEPT ![a] = worktree]
    BY DEF Begin, IInv, Types
  <2>3. \/ (\A b \in Appliers : step[b] = "idle") /\ mishaps' = mishaps
        \/ mishaps' = mishaps \union {"overlap"}
    BY DEF Begin, Mishap
  <2>4. mishaps \subseteq {"disk", "crash", "overlap"}
    BY DEF IInv, Types
  <2> QED  BY <2>1, <2>2, <2>3, <2>4
<1>3. /\ step' \in [Appliers -> Steps] /\ step'[a] = to
      /\ \A b \in Appliers \ {a} : step'[b] = step[b]
      /\ job' \in [Appliers -> Job \union {NoJob}] /\ job'[a] = h
      /\ \A b \in Appliers \ {a} : job'[b] = job[b]
      /\ before' \in [Appliers -> Tree] /\ before'[a] = worktree
  BY <1>1, <1>2 DEF IInv, Types, Steps
<1>4. Types'
  BY <1>2, <1>3 DEF IInv, Types
<1>5. Jobs' /\ Landed'
  BY <1>1, <1>2, <1>3 DEF IInv, Jobs, Landed, Callers
<1>6. "overlap" \notin mishaps' => \A b \in Appliers : step'[b] # "idle" => b = a
  BY <1>2, <1>3
<1>7. Alone'
  BY <1>1, <1>2, <1>3, <1>6 DEF IInv, Alone, CommitsOf, FullTree, Holding
<1>8. Clean'
  <2> SUFFICES ASSUME mishaps' = {} PROVE Clean'
    BY DEF Clean
  <2>1. mishaps = {} /\ \A b \in Appliers : step[b] = "idle"
    BY <1>2
  <2>2. \A f \in Files : Published(f, worktree[f])
    BY <2>1 DEF IInv, Clean, Editing, Holding
  <2>3. \A b \in Appliers : step'[b] # "idle" => b = a /\ step'[b] \in {"current", "read"}
    BY <1>1, <1>3, <1>6
  <2> QED  BY <2>1, <2>2, <2>3, <1>2, <1>3 DEF IInv, Clean, Published, Editing, Holding
<1> QED  BY <1>4, <1>5, <1>7, <1>8 DEF IInv

LEMMA EndsStep ==
  ASSUME IInv, NEW a \in Appliers, NEW from \in Steps \ {"idle"},
         NEW status \in {"ok", "no-op", "error"}, Ends(a, from, status),
         mishaps' = mishaps \/ mishaps' = mishaps \union {"disk"},
         status = "ok" => from = "pushed",
         status = "no-op" => from = "read" /\ HasValue(a),
         mishaps' = {} => from \notin Editing
  PROVE  IInv'
<1> DEFINE h == job[a]
           r == [n |-> h.n, status |-> status, file |-> h.file, field |-> h.field, new |-> h.new]
<1>1. /\ step[a] = from /\ done' = done \union {r}
      /\ step' = [step EXCEPT ![a] = "idle"] /\ job' = [job EXCEPT ![a] = NoJob]
      /\ UNCHANGED <<worktree, index, local, remote, before, applies, lost>>
  BY DEF Ends, Step, repoVars
<1>2. /\ step' \in [Appliers -> Steps] /\ step'[a] = "idle"
      /\ \A b \in Appliers \ {a} : step'[b] = step[b]
      /\ job' \in [Appliers -> Job \union {NoJob}]
      /\ \A b \in Appliers \ {a} : job'[b] = job[b]
      /\ \A b \in Appliers : step'[b] # "idle" => b # a
  BY <1>1 DEF IInv, Types, Steps
<1>3. h \in Job /\ h.file \in Files /\ h.field \in Fields
  BY <1>1, Typed
<1>4. r \in Reply /\ r.n = h.n /\ r.status = status /\ r.file = h.file /\ r.field = h.field
      /\ r.new = h.new
  BY <1>3 DEF Job, Reply
<1> HIDE DEF h, r
<1>5. Types'
  BY <1>1, <1>2, <1>4 DEF IInv, Types
<1>6. Jobs'
  BY <1>2 DEF IInv, Jobs
<1>7. Landed'
  <2>1. status = "ok" => r.n \in Callers(remote) \union lost
    BY <1>1, <1>4 DEF IInv, Landed, h
  <2> QED  BY <2>1, <1>1, <1>2, <1>4 DEF IInv, Landed, Callers
<1>8. Alone'
  <2> SUFFICES ASSUME "overlap" \notin mishaps' PROVE Alone'
    BY DEF Alone
  <2>1. "overlap" \notin mishaps
    OBVIOUS
  <2>2. status = "ok" => \E i \in CommitsOf(r.n, remote) : remote[i].tree[r.file][r.field] = r.new
    <3> SUFFICES ASSUME status = "ok"
                 PROVE  \E i \in CommitsOf(r.n, remote) : remote[i].tree[r.file][r.field] = r.new
      OBVIOUS
    <3>1. h.data[h.field] = h.new
      BY <1>1 DEF IInv, Jobs, h
    <3>2. \E i \in CommitsOf(h.n, remote) : remote[i].tree[h.file] = h.data
      BY <2>1, <1>1, AtWork DEF h
    <3> QED  BY <3>1, <3>2, <1>4
  <2>3. \A x \in done' : x.status = "ok" =>
          \E i \in CommitsOf(x.n, remote) : remote[i].tree[x.file][x.field] = x.new
    BY <2>1, <2>2, <1>1, <1>4 DEF IInv, Alone
  <2>4. /\ \A b, c \in Appliers : step'[b] # "idle" /\ step'[c] # "idle" => b = c
        /\ \A b \in Appliers : step'[b] = "idle"
    BY <2>1, <1>1, <1>2 DEF IInv, Alone
  <2> QED  BY <2>1, <2>3, <2>4, <1>1 DEF IInv, Alone, FullTree, CommitsOf, Holding
<1>9. Clean'
  <2> SUFFICES ASSUME mishaps' = {} PROVE Clean'
    BY DEF Clean
  <2>1. mishaps = {} /\ from \notin Editing
    OBVIOUS
  <2>2. \A f \in Files : Published(f, worktree[f])
    BY <2>1, <1>1, AtWork
  <2>3. \A b \in Appliers : step'[b] = "idle"
    BY <2>1, <1>1, <1>2 DEF IInv, Alone
  <2>4. status = "no-op" =>
          \E i \in DOMAIN remote : remote[i].tree[r.file][r.field] = r.new
    BY <2>2, <1>3, <1>4 DEF HasValue, File, Published, h
  <2>5. \A x \in done' : x.status = "no-op" =>
          \E i \in DOMAIN remote : remote[i].tree[x.file][x.field] = x.new
    BY <2>1, <2>4, <1>1, <1>4 DEF IInv, Clean
  <2> QED  BY <2>2, <2>3, <2>5, <1>1 DEF Clean, Published, Editing, Holding
<1> QED  BY <1>5, <1>6, <1>7, <1>8, <1>9 DEF IInv

LEMMA ReturnSteps ==
  ASSUME IInv, NEW a \in Appliers,
         \/ \E s \in {"current", "read", "snapshot", "failed"} : Return(a, s, "error")
         \/ Return(a, "read", "no-op") /\ HasValue(a)
         \/ WriteFails(a) \/ Return(a, "pushed", "ok")
  PROVE  IInv'
<1>1. CASE WriteFails(a)
  BY <1>1, EndsStep DEF WriteFails, WriteError, Mishap, Steps
<1>2. CASE \E s \in {"current", "read", "snapshot", "failed"} : Return(a, s, "error")
  BY <1>2, EndsStep DEF Return, Steps, Editing, Holding
<1>3. CASE Return(a, "read", "no-op") /\ HasValue(a)
  BY <1>3, EndsStep DEF Return, Steps, Editing, Holding
<1>4. CASE Return(a, "pushed", "ok")
  BY <1>4, EndsStep DEF Return, Steps, Editing, Holding
<1> QED  BY <1>1, <1>2, <1>3, <1>4

-----------------------------------------------------------------------------
(* The rest of the world.                                                  *)

LEMMA CrashStep ==
  ASSUME IInv, Dies
  PROVE  IInv'
<1>1. /\ step' \in [Appliers -> Steps] /\ job' \in [Appliers -> Job \union {NoJob}]
      /\ \A a \in Appliers : step'[a] = "idle"
      /\ UNCHANGED <<worktree, index, local, remote, before, applies, lost, done>>
      /\ mishaps' = mishaps \union {"crash"}
  BY DEF Dies, Mishap, Steps, repoVars
<1>2. Types'
  BY <1>1 DEF IInv, Types
<1>3. Jobs' /\ Landed' /\ Clean'
  BY <1>1 DEF IInv, Jobs, Landed, Clean, Callers
<1>4. Alone'
  BY <1>1 DEF IInv, Alone, FullTree, CommitsOf, Holding
<1> QED  BY <1>2, <1>3, <1>4 DEF IInv

LEMMA HumanStep ==
  ASSUME IInv, HumanPush
  PROVE  IInv'
<1>1. PICK f \in Files, d \in Fields, v \in Targets :
        remote' = Append(remote, [by |-> Human, tree |-> [Last(remote).tree EXCEPT ![f][d] = v]])
  BY DEF HumanPush
<1> DEFINE old == Last(remote).tree
           data == [old[f] EXCEPT ![d] = v]
           c == [by |-> Human, tree |-> [old EXCEPT ![f] = data]]
<1>2. UNCHANGED <<worktree, index, local, step, job, before, applies, mishaps, lost, done>>
  BY DEF HumanPush, callVars, history
<1>3. Len(remote) \in DOMAIN remote /\ old \in Trees /\ old = remote[Len(remote)].tree
  <2>1. Len(remote) \in DOMAIN remote
    BY Typed DEF IInv, Types
  <2> QED  BY <2>1, Typed DEF Last, Commits
<1>4. old[f] \in [Fields -> Nat \union {-1}] /\ v \in Nat
  BY <1>3, GitWriterAssumption DEF Trees
<1>5. remote' = Append(remote, c)
  BY <1>1, <1>3, <1>4
<1> HIDE DEF old
<1>6. data \in [Fields -> Nat \union {-1}] /\ data[d] = v /\ data # Empty
  BY <1>4 DEF Empty
<1> HIDE DEF data
<1>7. c \in Commits /\ c.tree[f] = data /\ \A g \in Files \ {f} : c.tree[g] = old[g]
  BY <1>3, <1>6 DEF Commits, Trees, Human
<1> HIDE DEF c
<1>8. /\ remote' \in Branch /\ remote' # <<>> /\ Grows(remote, remote')
      /\ \A i \in DOMAIN remote' : i \in DOMAIN remote \/ remote'[i] = c
  BY <1>5, <1>7, Typed, Shapes, AppendGrows
<1>9. Types'
  BY <1>2, <1>8 DEF IInv, Types
<1>10. Jobs'
  BY <1>2 DEF IInv, Jobs
<1>11. Landed'
  <2>1. Callers(remote) \subseteq Callers(remote')
    BY <1>8, GrowingKeeps
  <2> QED  BY <2>1, <1>2 DEF IInv, Landed, Callers
<1>12. Alone'
  <2> SUFFICES ASSUME "overlap" \notin mishaps PROVE Alone'
    BY <1>2 DEF Alone
  <2>1. \A i \in DOMAIN remote' : FullTree(remote'[i].tree)
    <3>1. FullTree(old)
      BY <1>3 DEF IInv, Alone
    <3>2. FullTree(c.tree)
      BY <3>1, <1>6, <1>7 DEF FullTree
    <3> QED  BY <3>2, <1>8 DEF IInv, Alone, Grows
  <2>2. \A n : \A i \in CommitsOf(n, remote) :
          i \in CommitsOf(n, remote') /\ remote'[i] = remote[i]
    BY <1>8, GrowingKeeps
  <2>3. /\ \A a \in Appliers : step'[a] = "pushed" =>
             \E i \in CommitsOf(job'[a].n, remote') :
               remote'[i].tree[job'[a].file] = job'[a].data
        /\ \A r \in done' : r.status = "ok" =>
             \E i \in CommitsOf(r.n, remote') : remote'[i].tree[r.file][r.field] = r.new
    BY <2>2, <1>2 DEF IInv, Alone
  <2> QED  BY <2>1, <2>3, <1>2 DEF IInv, Alone, File, CommitsOf, FullTree
<1>13. Clean'
  <2> SUFFICES ASSUME mishaps = {} PROVE Clean'
    BY <1>2 DEF Clean
  <2>1. \A g \in Files : \A x : Published(g, x) =>
          \A e \in Fields : \E i \in DOMAIN remote' : remote'[i].tree[g][e] = x[e]
    BY <1>8 DEF Published, Grows
  <2>2. \A x \in done' : x.status = "no-op" =>
          \E i \in DOMAIN remote' : remote'[i].tree[x.file][x.field] = x.new
    BY <1>2, <1>8 DEF IInv, Clean, Grows
  <2>3. \A a \in Appliers : step[a] \in Editing \union {"write"} => job[a].file \in Files
    BY Typed DEF Editing, Holding
  <2>4. \A g \in Files : (\A a \in Appliers : step'[a] \in Editing => job'[a].file # g) =>
          \A e \in Fields : \E i \in DOMAIN remote' : remote'[i].tree[g][e] = worktree'[g][e]
    BY <2>1, <1>2 DEF IInv, Clean
  <2>5. \A a \in Appliers : step'[a] \in Editing \union {"write"} =>
          \A e \in Fields : \E i \in DOMAIN remote' :
            remote'[i].tree[job'[a].file][e] = job'[a].original[e]
    BY <2>1, <2>3, <1>2 DEF IInv, Clean
  <2> QED  BY <2>2, <2>4, <2>5, <1>2 DEF IInv, Clean, Published
<1> QED  BY <1>9, <1>10, <1>11, <1>12, <1>13 DEF IInv

LEMMA NextIInv ==
  ASSUME IInv, [WriterNext]_writerVars
  PROVE  IInv'
<1>1. ASSUME NEW a \in Appliers, Apply(a)
      PROVE  IInv'
  <2>1. CASE Begin(a)
    BY <2>1, BeginStep
  <2>2. CASE Reads(a)
    BY <2>2, ReadSteps
  <2>3. CASE WriteFile(a)
    BY <2>3, FileStep DEF WriteFile
  <2>4. CASE Add(a) \/ Commit(a) \/ Push(a)
    BY <2>4, CopySteps, StageStep, SetBranchStep, PushStep DEF Add, Commit
  <2>5. CASE GitFails(a) \/ PushFails(a)
    BY <2>5, ErrorSteps
  <2>6. CASE Restore(a)
    BY <2>6, FileStep, ErrorSteps DEF Restore
  <2>7. CASE \/ \E s \in {"current", "read", "snapshot", "failed"} : Return(a, s, "error")
             \/ WriteFails(a) \/ Return(a, "pushed", "ok")
             \/ Return(a, "read", "no-op") /\ HasValue(a)
    BY <2>7, ReturnSteps
  <2>8. /\ GetCurrentValue(a) => Return(a, "current", "error") \/ Reads(a)
        /\ EditField(a) => \/ Return(a, "read", "error") \/ Reads(a)
                           \/ Return(a, "read", "no-op") /\ HasValue(a)
        /\ Snapshot(a) => Reads(a)
        /\ ReadFails(a) => \E s \in {"current", "read", "snapshot"} : Return(a, s, "error")
    BY DEF GetCurrentValue, EditField, Snapshot, ReadFails, Reads
  <2> QED
    BY <1>1, <2>1, <2>2, <2>3, <2>4, <2>5, <2>6, <2>7, <2>8 DEF Apply
<1>2. CASE UNCHANGED writerVars
  BY <1>2 DEF writerVars, repoVars, callVars, history, IInv, Types, Jobs, Landed, Alone, Clean,
              File, Published, Callers, CommitsOf, FullTree
<1> QED  BY <1>1, <1>2, CrashStep, HumanStep DEF WriterNext

LEMMA AlwaysIInv == WriterSpec => []IInv
<1>1. IInv /\ [WriterNext]_writerVars => IInv'
  BY NextIInv
<1> QED  BY <1>1, InitIInv, PTL DEF WriterSpec

-----------------------------------------------------------------------------
(* The theorems.                                                           *)

\* What Apply answers is true, although nothing locks the clone: a commit it reports
\* is on the remote branch whatever interleaves, unless another call set the branch
\* back over it; until two calls overlap that commit makes the change, and until
\* anything goes wrong a no-op finds a value that was published.
THEOREM ApplyTellsTheTruth == WriterSpec => []ResultIsTrue
<1>1. IInv => ResultIsTrue
  BY DEF IInv, Landed, Alone, Clean, ResultIsTrue, CommitsOf
<1> QED  BY <1>1, AlwaysIInv, PTL

\* Until two calls overlap, no crash, disk error or half-written file makes the
\* remote branch hold an empty manifest.
THEOREM NothingIsEmptied == WriterSpec => []NeverEmptied
<1>1. IInv => NeverEmptied
  BY DEF IInv, Alone, FullTree, NeverEmptied
<1> QED  BY <1>1, AlwaysIInv, PTL

Restores ==
  \A a \in Appliers, s \in {"current", "read", "snapshot", "failed"} :
    Return(a, s, "error") /\ mishaps = {} => worktree = before[a]

\* Until the disk fails, the process dies or two calls overlap, an Apply that
\* returns an error, of a read, a git step or the push, leaves the worktree as it
\* found it.
THEOREM FailuresRestore == WriterSpec => FailureRestores
<1>1. IInv => Restores
  BY DEF Restores, IInv, Clean, Return, Ends, Step
<1>2. IInv /\ [WriterNext]_writerVars => [Restores]_writerVars
  BY <1>1
<1> QED  BY <1>2, AlwaysIInv, PTL DEF WriterSpec, FailureRestores, Restores
=============================================================================
