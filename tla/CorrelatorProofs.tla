-------------------------- MODULE CorrelatorProofs --------------------------
(***************************************************************************)
(* Theorems about the correlator, for every set of resources and failure   *)
(* modes, every pair of windows (a window of no length included), every    *)
(* capacity of the channel and every number of incidents.                  *)
(***************************************************************************)
EXTENDS Correlator, FiniteSetTheorems, SequenceTheorems, TLAPS

Types ==
  /\ TypeOK
  /\ entries \in [Keys -> Entry \union {None}]
  /\ rows \in [Ids -> RowType \union {None}]

\* An ID belongs to one incident, of one resource, in memory and in the table.
Numbered ==
  /\ \A i \in Ids : rows[i] # None => rows[i].id = i /\ i < nextId
  /\ \A k \in Keys : Known(k) =>
       /\ entries[k].id < nextId
       /\ rows[entries[k].id] # None => rows[entries[k].id].key = k
  /\ \A j, k \in Keys : Known(j) /\ Known(k) /\ entries[j].id = entries[k].id => j = k

Empty ==
  /\ run = "hydrate" => ~resolver /\ entries = [k \in Keys |-> None]
  /\ ~up => run = "hydrate"

OpenRow(i) == rows[i] # None /\ rows[i].open

\* What a working store and the memory of a process that hydrated know.
MemoryAgrees ==
  /\ \A k \in Keys : Known(k) => rows[entries[k].id] = Row(k, entries[k])
  /\ \A i \in Ids : OpenRow(i) => Known(rows[i].key) /\ entries[rows[i].key].id = i
  /\ \A o \in openAtCrash : Known(o[1]) /\ entries[o[1]].id = o[2]

\* What it keeps for the next process.
Kept ==
  /\ \A i \in Ids : OpenRow(i) => <<rows[i].key, i>> \in openAtCrash
  /\ \A o \in openAtCrash : OpenRow(o[2]) /\ rows[o[2]].key = o[1]
  /\ \A o, p \in openAtCrash : o[1] = p[1] => o = p

Agrees == ~storeFailed => IF run = "hydrate" THEN Kept ELSE MemoryAgrees

\* The last signal of a resource was a duplicate of one counted just before.
Recent(age, idle) == age > idle - DedupWindow \/ age >= idle

Remembered ==
  /\ \A k \in Keys, r \in Reasons : Known(k) =>
       entries[k].seen[r] >= entries[k].idle \/ entries[k].seen[r] = DedupWindow
  /\ ~storeFailed =>
       /\ \A k \in Keys : IsOpen(k) => Recent(lastSignal[k], entries[k].idle)
       /\ run = "hydrate" =>
            \A i \in Ids : OpenRow(i) => Recent(lastSignal[rows[i].key], rows[i].idle)

IInv == Types /\ Numbered /\ Empty /\ Agrees /\ Remembered

-----------------------------------------------------------------------------
(* Types.                                                                  *)

Event == [kind : {"opened", "updated", "closed"}, id : Ids]

LEMMA Shapes ==
  /\ None \notin Entry /\ None \notin RowType
  /\ \A e \in Entry, k \in Keys : Row(k, e) \in RowType /\ Row(k, e) # None
  /\ \A x, y \in Int : Min2(x, y) \in Int /\ Min2(x, y) <= x /\ Min2(x, y) <= y
  /\ \A k \in Keys, i \in Ids : <<k, i>>[1] = k /\ <<k, i>>[2] = i
<1>1. None \notin Entry /\ None \notin RowType
  BY CorrelatorAssumption DEF None, Entry, RowType, Ids
<1>2. \A e \in Entry, k \in Keys : Row(k, e) \in RowType
  BY DEF Row, Entry, RowType
<1> QED  BY <1>1, <1>2 DEF Min2

\* What the invariant says of the types of an entry, a row and the counters.
LEMMA Typed ==
  ASSUME IInv
  PROVE  /\ \A k \in Keys : Known(k) <=> entries[k] \in Entry
         /\ \A i \in Ids : rows[i] # None <=> rows[i] \in RowType
         /\ nextId \in Nat /\ MaxIds \in Nat /\ EventBufSize \in Nat
         /\ ResolveWindow \in Nat /\ DedupWindow \in Nat
         /\ events \in Seq(Event) /\ Len(events) \in Nat /\ Len(events) <= EventBufSize
<1>1. /\ \A k \in Keys : Known(k) <=> entries[k] \in Entry
      /\ \A i \in Ids : rows[i] # None <=> rows[i] \in RowType
  BY Shapes DEF IInv, Types, Known
<1>2. events \in Seq(Event) /\ Len(events) <= EventBufSize /\ nextId \in Nat
  BY CorrelatorAssumption DEF IInv, Types, TypeOK, Event
<1> QED  BY <1>1, <1>2, CorrelatorAssumption

LEMMA InitIInv == Init => IInv
<1> SUFFICES ASSUME Init PROVE IInv
  OBVIOUS
<1>1. Types
  <2>1. events \in Seq([kind : {"opened", "updated", "closed"}, id : Ids]) /\ Len(events) = 0
    BY EmptySeq DEF Init
  <2>2. entries \in [Keys -> Entry \union {None}] /\ rows \in [Ids -> RowType \union {None}]
    BY DEF Init
  <2>3. /\ nextId \in 1..(MaxIds + 1) /\ lastSignal \in [Keys -> 0..ResolveWindow]
        /\ EventBufSize \in Nat
    BY CorrelatorAssumption DEF Init
  <2>4. /\ up \in BOOLEAN /\ ctxDone \in BOOLEAN /\ resolver \in BOOLEAN
        /\ storeFailed \in BOOLEAN /\ run \in {"hydrate", "loop", "closed"}
        /\ openAtCrash \subseteq Keys \X Ids
    BY DEF Init
  <2> QED  BY <2>1, <2>2, <2>3, <2>4 DEF Types, TypeOK
<1>2. \A k \in Keys : ~Known(k) /\ ~IsOpen(k)
  BY DEF Init, Known, IsOpen
<1>3. \A i \in Ids : rows[i] = None /\ ~OpenRow(i)
  BY DEF Init, OpenRow
<1> QED
  BY <1>1, <1>2, <1>3 DEF IInv, Numbered, Empty, Agrees, Kept, Remembered, Init

-----------------------------------------------------------------------------
(* The channel.                                                            *)

LEMMA EmittedFits ==
  ASSUME NEW e \in Event, events \in Seq(Event), Len(events) <= EventBufSize
  PROVE  Emitted(events, e) \in Seq(Event) /\ Len(Emitted(events, e)) <= EventBufSize
<1>1. Len(events) \in Nat /\ EventBufSize \in Nat
  BY LenProperties, CorrelatorAssumption
<1>2. Append(events, e) \in Seq(Event) /\ Len(Append(events, e)) = Len(events) + 1
  BY AppendProperties
<1> QED  BY <1>1, <1>2 DEF Emitted

\* Distinct incidents have distinct IDs, so only finitely many are stale.
LEMMA StaleIsFinite ==
  ASSUME IInv
  PROVE  IsFiniteSet({k \in Keys : Stale(k)})
<1> DEFINE S == {k \in Keys : Stale(k)}
           f == [k \in S |-> entries[k].id]
<1>1. \A k \in S : Known(k) /\ entries[k].id \in Ids
  BY Typed DEF Stale, IsOpen, Entry
<1>2. f \in [S -> Ids]
  BY <1>1
<1>3. \A j, k \in S : f[j] = f[k] => j = k
  BY <1>1 DEF IInv, Numbered
<1>4. f \in Injection(S, Ids)
  BY <1>2, <1>3 DEF Injection, IsInjective
<1>5. IsFiniteSet(Ids)
  BY FS_Interval, CorrelatorAssumption DEF Ids
<1> QED  BY <1>4, <1>5, FS_Injection

LEMMA ClosedFits ==
  ASSUME IInv, NEW order \in Orders({k \in Keys : Stale(k)})
  PROVE  EmitClosed(order) \in Seq(Event) /\ Len(EmitClosed(order)) <= EventBufSize
<1> DEFINE S == {k \in Keys : Stale(k)}
           n == Cardinality(S)
           sent == [i \in DOMAIN order |-> [kind |-> "closed", id |-> entries[order[i]].id]]
           m == Min2(n, EventBufSize - Len(events))
<1>1. n \in Nat
  BY StaleIsFinite, FS_CardinalityType
<1>2. order \in [1..n -> S] /\ DOMAIN order = 1..n
  BY DEF Orders
<1>3. Len(order) = n
  BY <1>1, <1>2
<1>4. \A k \in S : entries[k].id \in Ids
  BY Typed DEF Stale, IsOpen, Entry
<1>5. \A i \in 1..n : sent[i] \in Event
  BY <1>2, <1>4 DEF Event
<1>6. m \in Int /\ m <= n /\ m <= EventBufSize - Len(events)
  BY <1>1, Typed DEF Min2
<1>7. \A i \in 1..m : sent[i] \in Event
  <2> HIDE DEF sent, m
  <2> QED  BY <1>1, <1>5, <1>6
<1> HIDE DEF sent, m
<1>8. SubSeq(sent, 1, m) \in Seq(Event) /\ Len(SubSeq(sent, 1, m)) = IF 1 <= m THEN m ELSE 0
  <2>1. Len(SubSeq(sent, 1, m)) = IF 1 <= m THEN m - 1 + 1 ELSE 0
    BY <1>6, <1>7, SubSeqProperties
  <2> QED  BY <2>1, <1>6, <1>7, SubSeqProperties
<1>9. EmitClosed(order) = events \o SubSeq(sent, 1, m)
  <2> HIDE DEF S, n
  <2> QED  BY <1>3 DEF EmitClosed, sent, m
<1> QED  BY <1>6, <1>8, <1>9, Typed, ConcatProperties

-----------------------------------------------------------------------------
(* Process.                                                                *)

\* A branch of Process that stores the open incident e: a new one, or that of
\* the key with another content.
LEMMA CommitStep ==
  ASSUME IInv, Receiving, NEW sig \in Signals, NEW e \in Entry,
         NEW kind \in {"opened", "updated"}, Commit(sig, e, kind),
         e.open, e.idle = 0,
         \/ ~Known(sig.key) /\ e.id = nextId /\ nextId' = nextId + 1 /\ nextId <= MaxIds
         \/ Known(sig.key) /\ e.id = entries[sig.key].id /\ nextId' = nextId
  PROVE  IInv'
<1> DEFINE q == sig.key
           r == Row(sig.key, e)
<1>1. q \in Keys
  BY CorrelatorAssumption
<1>2. /\ entries' \in [Keys -> Entry \union {None}] /\ entries'[q] = e
      /\ \A k \in Keys \ {q} : entries'[k] = entries[k]
  BY <1>1 DEF Commit, IInv, Types
<1>3. /\ r \in RowType /\ r # None /\ r.id = e.id /\ r.key = q /\ r.open /\ r.idle = 0
      /\ e.id \in Ids /\ e # None
  BY <1>1, Shapes DEF Row, Entry
<1>4. \/ rows' = [rows EXCEPT ![e.id] = r] /\ storeFailed' = storeFailed
      \/ rows' = rows /\ storeFailed' = TRUE
  BY DEF Commit, Written, Upserted
<1>5. /\ rows' \in [Ids -> RowType \union {None}]
      /\ \A i \in Ids \ {e.id} : rows'[i] = rows[i]
      /\ rows'[e.id] = r \/ (rows'[e.id] = rows[e.id] /\ storeFailed')
      /\ storeFailed' \in BOOLEAN /\ (storeFailed => storeFailed')
  BY <1>3, <1>4 DEF IInv, Types, TypeOK
<1>6. /\ lastSignal' \in [Keys -> 0..ResolveWindow] /\ lastSignal'[q] = 0
      /\ \A k \in Keys \ {q} : lastSignal'[k] = lastSignal[k]
  BY <1>1, CorrelatorAssumption DEF Commit, IInv, Types, TypeOK
<1>7. events' \in Seq(Event) /\ Len(events') <= EventBufSize
  <2>1. [kind |-> kind, id |-> e.id] \in Event
    BY <1>3 DEF Event
  <2> QED  BY <2>1, EmittedFits, Typed DEF Commit
<1>8. UNCHANGED <<up, ctxDone, run, resolver, openAtCrash>> /\ run = "loop" /\ up
  BY DEF Commit, procVars, Receiving
<1>9. nextId <= nextId' /\ nextId' \in 1..(MaxIds + 1) /\ e.id < nextId'
  BY <1>1, Typed DEF IInv, Types, TypeOK, Numbered
<1>10. /\ \A k \in Keys \ {q} : Known(k) => entries[k].id # e.id
       /\ Known(q) \/ rows[e.id] = None
       /\ Known(q) => entries[q].id = e.id
       /\ rows[e.id] # None => rows[e.id].id = e.id /\ rows[e.id].key = q
  BY <1>1, <1>3, Typed DEF IInv, Numbered
<1> HIDE DEF q, r
<1>11. Types'
  <2>1. openAtCrash' \subseteq Keys \X Ids /\ ctxDone' \in BOOLEAN /\ resolver' \in BOOLEAN
    BY <1>8 DEF IInv, Types, TypeOK
  <2>2. TypeOK'
    BY <2>1, <1>2, <1>5, <1>6, <1>7, <1>8, <1>9 DEF TypeOK, Event
  <2> QED  BY <2>2, <1>2, <1>5 DEF Types
<1>12. Numbered'
  <2>1. \A i \in Ids : rows'[i] # None => rows'[i].id = i /\ i < nextId'
    <3> SUFFICES ASSUME NEW i \in Ids, rows'[i] # None
                 PROVE  rows'[i].id = i /\ i < nextId'
      OBVIOUS
    <3>1. CASE i = e.id
      BY <3>1, <1>3, <1>5, <1>9, <1>10
    <3>2. CASE i # e.id
      BY <3>2, <1>5, <1>9, Typed DEF IInv, Numbered, Ids
    <3> QED  BY <3>1, <3>2
  <2>2. ASSUME NEW k \in Keys, Known(k)'
        PROVE  /\ entries'[k].id < nextId'
               /\ rows'[entries'[k].id] # None => rows'[entries'[k].id].key = k
    <3>1. CASE k = q
      BY <3>1, <1>2, <1>3, <1>5, <1>9, <1>10
    <3>2. CASE k # q
      <4>1. entries'[k] = entries[k] /\ Known(k) /\ entries[k].id \in Ids /\ entries[k].id # e.id
        BY <3>2, <2>2, <1>2, <1>10, Typed DEF Known, Entry
      <4>2. rows'[entries[k].id] = rows[entries[k].id]
        BY <4>1, <1>5
      <4> QED  BY <4>1, <4>2, <1>9, Typed DEF IInv, Numbered, Ids
    <3> QED  BY <3>1, <3>2
  <2>3. ASSUME NEW j \in Keys, NEW k \in Keys, Known(j)', Known(k)',
               entries'[j].id = entries'[k].id
        PROVE  j = k
    BY <2>3, <1>2, <1>10 DEF IInv, Numbered, Known
  <2> QED  BY <2>1, <2>2, <2>3 DEF Numbered
<1>13. Empty'
  BY <1>8 DEF Empty
<1>14. Agrees'
  <2> SUFFICES ASSUME ~storeFailed' PROVE MemoryAgrees'
    BY <1>8 DEF Agrees
  <2>1. MemoryAgrees /\ rows'[e.id] = r
    BY <1>5, <1>8 DEF IInv, Agrees
  <2>2. \A k \in Keys : Known(k)' => rows'[entries'[k].id] = Row(k, entries[k])'
    <3> SUFFICES ASSUME NEW k \in Keys, Known(k)'
                 PROVE  rows'[entries'[k].id] = Row(k, entries'[k])
      BY DEF Row
    <3>1. CASE k = q
      BY <3>1, <1>2, <2>1 DEF r, q
    <3>2. CASE k # q
      BY <3>2, <1>2, <1>5, <1>10, <2>1, Typed DEF MemoryAgrees, Known, Entry
    <3> QED  BY <3>1, <3>2
  <2>3. \A i \in Ids : OpenRow(i)' => Known(rows[i].key)' /\ entries'[rows'[i].key].id = i
    <3> SUFFICES ASSUME NEW i \in Ids, OpenRow(i)'
                 PROVE  Known(rows[i].key)' /\ entries'[rows'[i].key].id = i
      OBVIOUS
    <3>1. CASE i = e.id
      BY <3>1, <1>2, <1>3, <2>1 DEF Known
    <3>2. CASE i # e.id
      <4>1. rows'[i] = rows[i] /\ rows[i].key \in Keys /\ OpenRow(i)
        BY <3>2, <1>5, Typed DEF OpenRow, RowType
      <4>2. Known(rows[i].key) /\ entries[rows[i].key].id = i /\ rows[i].key # q
        BY <4>1, <3>2, <2>1, <1>10 DEF MemoryAgrees
      <4> QED  BY <4>1, <4>2, <1>2 DEF Known
    <3> QED  BY <3>1, <3>2
  <2>4. \A o \in openAtCrash' : Known(o[1])' /\ entries'[o[1]].id = o[2]
    <3> SUFFICES ASSUME NEW o \in openAtCrash PROVE Known(o[1])' /\ entries'[o[1]].id = o[2]
      BY <1>8
    <3>1. o[1] \in Keys
      BY DEF IInv, Types, TypeOK
    <3>2. Known(o[1]) /\ entries[o[1]].id = o[2]
      BY <2>1 DEF MemoryAgrees
    <3> QED  BY <3>1, <3>2, <1>2, <1>3, <1>10 DEF Known
  <2> QED  BY <2>2, <2>3, <2>4 DEF MemoryAgrees
<1>15. Remembered'
  <2>1. \A j \in Reasons : e.seen[j] >= e.idle
    BY CorrelatorAssumption DEF Entry
  <2>2. Recent(lastSignal'[q], e.idle)
    BY <1>6 DEF Recent
  <2> QED  BY <2>1, <2>2, <1>2, <1>5, <1>6, <1>8 DEF IInv, Remembered, Known, IsOpen, Recent
<1> QED  BY <1>11, <1>12, <1>13, <1>14, <1>15 DEF IInv

LEMMA FreshType ==
  \A x \in Reasons : Fresh(x) \in [Reasons -> 0..DedupWindow]
BY CorrelatorAssumption DEF Fresh

LEMMA OpenStep ==
  ASSUME IInv, NEW sig \in Signals, Open(sig)
  PROVE  IInv'
<1> DEFINE e == [id |-> nextId, open |-> TRUE, idle |-> 0, sev |-> sig.sev,
                 seen |-> Fresh(sig.reason)]
<1>1. e \in Entry
  BY CorrelatorAssumption, FreshType DEF Open, Entry, Ids, IInv, Types, TypeOK
<1>2. e.open /\ e.idle = 0 /\ e.id = nextId /\ Commit(sig, e, "opened")
  BY DEF Open
<1> HIDE DEF e
<1> QED  BY <1>1, <1>2, CommitStep DEF Open

LEMMA ReopenStep ==
  ASSUME IInv, NEW sig \in Signals, Reopen(sig)
  PROVE  IInv'
<1> DEFINE e == [entries[sig.key] EXCEPT !.open = TRUE, !.idle = 0,
                                         !.seen = Fresh(sig.reason)]
<1>1. sig.key \in Keys /\ entries[sig.key] \in Entry
  BY CorrelatorAssumption, Typed DEF Reopen
<1>2. e \in Entry /\ e.open /\ e.idle = 0 /\ e.id = entries[sig.key].id
  <2>1. Fresh(sig.reason) \in [Reasons -> 0..DedupWindow] /\ 0 \in 0..ResolveWindow
    BY CorrelatorAssumption, FreshType
  <2> QED  BY <1>1, <2>1 DEF Entry
<1>3. Commit(sig, e, "opened")
  BY DEF Reopen
<1> HIDE DEF e
<1> QED  BY <1>2, <1>3, CommitStep DEF Reopen

LEMMA UpdateStep ==
  ASSUME IInv, NEW sig \in Signals, Update(sig)
  PROVE  IInv'
<1> DEFINE e == [entries[sig.key] EXCEPT !.idle = 0, !.seen[sig.reason] = 0,
                                         !.sev = IF sig.sev > @ THEN sig.sev ELSE @]
<1>1. sig.key \in Keys /\ entries[sig.key] \in Entry /\ sig.reason \in Reasons /\ sig.sev \in Nat
  BY CorrelatorAssumption, Typed DEF Update, IsOpen
<1>2. e \in Entry /\ e.open /\ e.idle = 0 /\ e.id = entries[sig.key].id
  <2>1. 0 \in 0..DedupWindow /\ 0 \in 0..ResolveWindow
    BY CorrelatorAssumption
  <2>2. entries[sig.key].open
    BY DEF Update, IsOpen
  <2> DEFINE seen == [entries[sig.key].seen EXCEPT ![sig.reason] = 0]
             sev == IF sig.sev > entries[sig.key].sev THEN sig.sev ELSE entries[sig.key].sev
  <2>3. seen \in [Reasons -> 0..DedupWindow] /\ sev \in Nat
    BY <1>1, <2>1 DEF Entry
  <2>4. e = [entries[sig.key] EXCEPT !.idle = 0, !.seen = seen, !.sev = sev]
    BY <1>1 DEF Entry
  <2> HIDE DEF seen, sev
  <2>5. [entries[sig.key] EXCEPT !.idle = 0, !.seen = seen, !.sev = sev] \in Entry
    BY <1>1, <2>1, <2>3 DEF Entry
  <2> HIDE DEF e
  <2> QED  BY <1>1, <2>2, <2>4, <2>5 DEF Entry
<1>3. Commit(sig, e, "updated")
  BY DEF Update
<1> HIDE DEF e
<1> QED  BY <1>2, <1>3, CommitStep DEF Update, IsOpen

\* A dropped duplicate is younger than the window, and so is the incident's
\* last counted signal.
LEMMA DropStep ==
  ASSUME IInv, NEW sig \in Signals, Drop(sig)
  PROVE  IInv'
<1>1. /\ sig.key \in Keys /\ sig.reason \in Reasons /\ Known(sig.key)
      /\ entries[sig.key] \in Entry /\ run = "loop"
  BY CorrelatorAssumption, Typed DEF Drop, IsOpen, Receiving
<1>2. UNCHANGED <<procVars, entries, events, store, nextId, openAtCrash>>
  BY DEF Drop
<1>3. /\ lastSignal' \in [Keys -> 0..ResolveWindow] /\ lastSignal'[sig.key] = 0
      /\ \A k \in Keys \ {sig.key} : lastSignal'[k] = lastSignal[k]
  BY <1>1, CorrelatorAssumption DEF Drop, IInv, Types, TypeOK
<1>4. Types'
  BY <1>2, <1>3 DEF IInv, Types, TypeOK, procVars, store
<1>5. Numbered' /\ Empty' /\ Agrees'
  BY <1>2 DEF IInv, Numbered, Empty, Agrees, MemoryAgrees, Kept, OpenRow, Known, Row,
              procVars, store
<1>6. Recent(0, entries[sig.key].idle)
  <2>1. entries[sig.key].seen[sig.reason] < DedupWindow
    BY DEF Drop, Duplicate
  <2>2. /\ entries[sig.key].idle \in Nat /\ DedupWindow \in Nat
        /\ entries[sig.key].seen[sig.reason] \in Nat
    BY <1>1, CorrelatorAssumption DEF Entry
  <2>3. entries[sig.key].idle < DedupWindow
    BY <1>1, <2>1, <2>2 DEF IInv, Remembered
  <2> QED  BY <2>2, <2>3 DEF Recent
<1>7. Remembered'
  BY <1>1, <1>2, <1>3, <1>6 DEF IInv, Remembered, Known, IsOpen, procVars, store, Recent
<1> QED  BY <1>4, <1>5, <1>7 DEF IInv

-----------------------------------------------------------------------------
(* ResolveStale and the channel's reader.                                  *)

LEMMA ClosedType ==
  \A k \in Keys : entries[k] \in Entry =>
    /\ Closed(k) \in Entry /\ Closed(k) # None
    /\ Closed(k).id = entries[k].id /\ Closed(k).idle = entries[k].idle
    /\ Closed(k).seen = entries[k].seen /\ ~Closed(k).open
<1> SUFFICES ASSUME NEW k \in Keys, entries[k] \in Entry
             PROVE  /\ Closed(k) \in Entry /\ Closed(k) # None
                    /\ Closed(k).id = entries[k].id /\ Closed(k).idle = entries[k].idle
                    /\ Closed(k).seen = entries[k].seen /\ ~Closed(k).open
  OBVIOUS
<1>1. Closed(k) \in Entry
  BY DEF Closed, Entry
<1>2. /\ Closed(k).id = entries[k].id /\ Closed(k).idle = entries[k].idle
      /\ Closed(k).seen = entries[k].seen /\ ~Closed(k).open
  BY DEF Closed, Entry
<1> QED  BY <1>1, <1>2, Shapes

LEMMA ResolveStep ==
  ASSUME IInv, ResolveStale
  PROVE  IInv'
<1> DEFINE S == {k \in Keys : Stale(k)}
<1>1. PICK written \in SUBSET S :
        /\ rows' = [i \in Ids |->
                      IF \E k \in written : entries[k].id = i
                      THEN LET k == CHOOSE j \in written : entries[j].id = i
                           IN  Row(k, Closed(k))
                      ELSE rows[i]]
        /\ storeFailed' = (storeFailed \/ written # S)
  BY DEF ResolveStale
<1>2. /\ UNCHANGED <<up, ctxDone, run, resolver, nextId, lastSignal, openAtCrash>>
      /\ up /\ run # "hydrate"
      /\ entries' = [k \in Keys |-> IF k \in S THEN Closed(k) ELSE entries[k]]
  <2>1. up /\ resolver /\ run # "closed" /\ UNCHANGED <<procVars, nextId, history>>
    BY DEF ResolveStale
  <2> QED  BY <2>1 DEF ResolveStale, procVars, history, IInv, Empty
<1>3. events' \in Seq(Event) /\ Len(events') <= EventBufSize
  BY ClosedFits DEF ResolveStale
<1>4. \A k \in S : Known(k) /\ IsOpen(k) /\ entries[k] \in Entry /\ entries[k].id \in Ids
  BY Typed DEF Stale, IsOpen, Entry
<1>5. \A k \in S : /\ Closed(k) \in Entry /\ Closed(k) # None
                   /\ Closed(k).id = entries[k].id /\ Closed(k).idle = entries[k].idle
                   /\ Closed(k).seen = entries[k].seen /\ ~Closed(k).open
  BY <1>4, ClosedType
<1>6. \A k \in written : rows'[entries[k].id] = Row(k, Closed(k))
  <2> SUFFICES ASSUME NEW k \in written PROVE rows'[entries[k].id] = Row(k, Closed(k))
    OBVIOUS
  <2> DEFINE j == CHOOSE x \in written : entries[x].id = entries[k].id
  <2>1. j \in written /\ entries[j].id = entries[k].id
    OBVIOUS
  <2>2. j = k
    BY <2>1, <1>4 DEF IInv, Numbered
  <2> QED  BY <1>1, <1>4, <2>2
<1>7. \A i \in Ids : (\A k \in written : entries[k].id # i) => rows'[i] = rows[i]
  BY <1>1
<1>8. \A i \in Ids : rows'[i] = rows[i]
                     \/ \E k \in written : entries[k].id = i /\ rows'[i] = Row(k, Closed(k))
  BY <1>6, <1>7
<1>9. \A k \in S : Row(k, Closed(k)) \in RowType /\ Row(k, Closed(k)) # None
  BY <1>5, Shapes
<1>10. rows' \in [Ids -> RowType \union {None}]
  <2>1. rows' = [i \in Ids |-> rows'[i]]
    BY <1>1
  <2>2. \A i \in Ids : rows'[i] \in RowType \union {None}
    BY <1>8, <1>9 DEF IInv, Types
  <2> QED  BY <2>1, <2>2
<1>11. /\ entries' \in [Keys -> Entry \union {None}]
       /\ \A k \in S : entries'[k] = Closed(k)
       /\ \A k \in Keys \ S : entries'[k] = entries[k]
       /\ \A k \in Keys : Known(k)' <=> Known(k)
       /\ \A k \in Keys : Known(k) => entries'[k].id = entries[k].id
                                      /\ entries'[k].idle = entries[k].idle
                                      /\ entries'[k].seen = entries[k].seen
  BY <1>2, <1>4, <1>5 DEF IInv, Types, Known
<1>12. storeFailed' \in BOOLEAN /\ (~storeFailed' => ~storeFailed /\ written = S)
  BY <1>1 DEF IInv, Types, TypeOK
<1> HIDE DEF S
<1>13. Types'
  <2>1. /\ openAtCrash' \subseteq Keys \X Ids /\ ctxDone' \in BOOLEAN /\ resolver' \in BOOLEAN
        /\ up' \in BOOLEAN /\ run' \in {"hydrate", "loop", "closed"}
        /\ nextId' \in 1..(MaxIds + 1) /\ lastSignal' \in [Keys -> 0..ResolveWindow]
    BY <1>2 DEF IInv, Types, TypeOK
  <2>2. TypeOK'
    BY <2>1, <1>3, <1>10, <1>11, <1>12 DEF TypeOK, Event
  <2> QED  BY <2>2, <1>10, <1>11 DEF Types
<1>14. \A i \in Ids : rows'[i] # None /\ rows'[i] # rows[i] =>
         \E k \in written : /\ entries[k].id = i /\ k \in Keys /\ Known(k)
                            /\ rows'[i].id = i /\ rows'[i].key = k /\ ~rows'[i].open
  <2>1. \A k \in S : /\ Row(k, Closed(k)).id = entries[k].id /\ Row(k, Closed(k)).key = k
                     /\ ~Row(k, Closed(k)).open
    BY <1>5 DEF Row
  <2> QED  BY <2>1, <1>8, <1>4, SMTT(30) DEF S
<1>15. Numbered'
  <2>1. \A i \in Ids : rows'[i] # None => rows'[i].id = i /\ i < nextId'
    BY <1>14, <1>2 DEF IInv, Numbered
  <2>2. \A k \in Keys : Known(k)' =>
          /\ entries'[k].id < nextId'
          /\ rows'[entries'[k].id] # None => rows'[entries'[k].id].key = k
    <3> SUFFICES ASSUME NEW k \in Keys, Known(k)
                 PROVE  /\ entries[k].id < nextId
                        /\ rows'[entries[k].id] # None => rows'[entries[k].id].key = k
      BY <1>2, <1>11
    <3>1. entries[k].id \in Ids
      BY Typed DEF Entry
    <3> QED  BY <3>1, <1>14 DEF IInv, Numbered
  <2>3. \A j, k \in Keys : Known(j)' /\ Known(k)' /\ entries'[j].id = entries'[k].id => j = k
    BY <1>11 DEF IInv, Numbered
  <2> QED  BY <2>1, <2>2, <2>3 DEF Numbered
<1>16. Empty'
  BY <1>2 DEF Empty
<1>17. Agrees'
  <2> SUFFICES ASSUME ~storeFailed' PROVE MemoryAgrees'
    BY <1>2 DEF Agrees
  <2>1. MemoryAgrees /\ written = S
    BY <1>2, <1>12 DEF IInv, Agrees
  <2>2. \A k \in Keys : Known(k)' => rows'[entries'[k].id] = Row(k, entries[k])'
    <3> SUFFICES ASSUME NEW k \in Keys, Known(k)
                 PROVE  rows'[entries[k].id] = Row(k, entries'[k])
      BY <1>11 DEF Row
    <3>1. CASE k \in S
      BY <3>1, <1>6, <1>11, <2>1
    <3>2. CASE k \notin S
      <4>1. entries[k].id \in Ids /\ \A j \in S : entries[j].id # entries[k].id
        BY <3>2, <1>4, Typed DEF IInv, Numbered, Entry, S
      <4> QED  BY <3>2, <4>1, <1>7, <1>11, <2>1 DEF MemoryAgrees
    <3> QED  BY <3>1, <3>2
  <2>3. \A i \in Ids : OpenRow(i)' => Known(rows[i].key)' /\ entries'[rows'[i].key].id = i
    <3> SUFFICES ASSUME NEW i \in Ids, OpenRow(i)'
                 PROVE  Known(rows[i].key)' /\ entries'[rows'[i].key].id = i
      OBVIOUS
    <3>1. rows'[i] = rows[i] /\ OpenRow(i) /\ rows[i].key \in Keys
      BY <1>14, Typed DEF OpenRow, RowType
    <3> QED  BY <3>1, <2>1, <1>11 DEF MemoryAgrees, Known
  <2>4. \A o \in openAtCrash' : Known(o[1])' /\ entries'[o[1]].id = o[2]
    <3> SUFFICES ASSUME NEW o \in openAtCrash PROVE Known(o[1])' /\ entries'[o[1]].id = o[2]
      BY <1>2
    <3>1. o[1] \in Keys
      BY DEF IInv, Types, TypeOK
    <3> QED  BY <3>1, <2>1, <1>11 DEF MemoryAgrees, Known
  <2> QED  BY <2>2, <2>3, <2>4 DEF MemoryAgrees
<1>18. Remembered'
  <2>1. \A k \in Keys : IsOpen(k)' => IsOpen(k)
    BY <1>5, <1>11 DEF IsOpen, Known
  <2>2. \A k \in Keys, j \in Reasons : Known(k)' =>
          entries'[k].seen[j] >= entries'[k].idle \/ entries'[k].seen[j] = DedupWindow
    BY <1>11 DEF IInv, Remembered
  <2>3. ~storeFailed' => \A k \in Keys : IsOpen(k)' => Recent(lastSignal[k], entries[k].idle)'
    BY <2>1, <1>2, <1>11, <1>12 DEF IInv, Remembered, Recent, IsOpen
  <2> QED  BY <2>2, <2>3, <1>2 DEF Remembered
<1> QED  BY <1>13, <1>15, <1>16, <1>17, <1>18 DEF IInv

LEMMA TakeStep ==
  ASSUME IInv, Take
  PROVE  IInv'
<1>1. UNCHANGED <<procVars, entries, store, nextId, history>>
  BY DEF Take
<1>2. events' \in Seq(Event) /\ Len(events') <= EventBufSize
  BY Typed, HeadTailProperties DEF Take
<1>3. Types'
  <2>1. TypeOK'
    BY <1>1, <1>2 DEF IInv, Types, TypeOK, procVars, store, history, Event
  <2> QED  BY <2>1, <1>1 DEF IInv, Types, store
<1> QED
  BY <1>1, <1>3 DEF IInv, Numbered, Empty, Agrees, MemoryAgrees, Kept, OpenRow, Known, IsOpen,
                    Row, Remembered, Recent, procVars, store, history

-----------------------------------------------------------------------------
(* Time.                                                                   *)

\* What a tick leaves of an entry and of a row.
Older(age, window) == Min2(age + 1, window)

LEMMA AgedEntry ==
  ASSUME NEW e \in Entry,
         NEW a, a = [e EXCEPT !.idle = Min2(@ + 1, ResolveWindow),
                              !.seen = [r \in Reasons |-> Min2(@[r] + 1, DedupWindow)]]
  PROVE  /\ a \in Entry /\ a.id = e.id /\ a.open = e.open /\ a.sev = e.sev
         /\ a.idle = Older(e.idle, ResolveWindow)
         /\ \A r \in Reasons : a.seen[r] = Older(e.seen[r], DedupWindow)
<1>1. \A x \in 0..ResolveWindow : Min2(x + 1, ResolveWindow) \in 0..ResolveWindow
  BY CorrelatorAssumption DEF Min2
<1>2. \A x \in 0..DedupWindow : Min2(x + 1, DedupWindow) \in 0..DedupWindow
  BY CorrelatorAssumption DEF Min2
<1> DEFINE s == [r \in Reasons |-> Min2(e.seen[r] + 1, DedupWindow)]
<1>3. s \in [Reasons -> 0..DedupWindow]
  BY <1>2 DEF Entry
<1>4. a = [e EXCEPT !.idle = Min2(e.idle + 1, ResolveWindow), !.seen = s]
  BY DEF Entry
<1>5. \A r \in Reasons : s[r] = Older(e.seen[r], DedupWindow)
  BY DEF Older
<1> HIDE DEF s
<1>6. Min2(e.idle + 1, ResolveWindow) \in 0..ResolveWindow
  BY <1>1 DEF Entry
<1>7. a \in Entry /\ a.id = e.id /\ a.open = e.open /\ a.sev = e.sev /\ a.seen = s
  BY <1>3, <1>4, <1>6 DEF Entry
<1>8. a.idle = Older(e.idle, ResolveWindow)
  BY <1>4 DEF Entry, Older
<1> QED  BY <1>5, <1>7, <1>8

LEMMA AgedRow ==
  ASSUME NEW w \in RowType
  PROVE  LET a == [w EXCEPT !.idle = Min2(@ + 1, ResolveWindow)]
         IN  /\ a \in RowType /\ a.id = w.id /\ a.key = w.key /\ a.open = w.open
             /\ a.sev = w.sev /\ a.idle = Older(w.idle, ResolveWindow)
<1>1. Min2(w.idle + 1, ResolveWindow) \in 0..ResolveWindow
  BY CorrelatorAssumption DEF Min2, RowType
<1> QED  BY <1>1 DEF RowType, Older

\* The relation between the two ages survives their growing and their windows.
LEMMA StillRecent ==
  ASSUME NEW age \in 0..ResolveWindow, NEW idle \in 0..ResolveWindow, Recent(age, idle)
  PROVE  Recent(Older(age, ResolveWindow), Older(idle, ResolveWindow))
BY CorrelatorAssumption DEF Recent, Older, Min2

LEMMA TickStep ==
  ASSUME IInv, Tick
  PROVE  IInv'
<1>1. UNCHANGED <<up, ctxDone, run, resolver, events, nextId, openAtCrash, storeFailed>>
  BY DEF Tick, procVars
<1>2. \A k \in Keys : ~Known(k) => entries'[k] = None
  BY DEF Tick
<1>3. \A k \in Keys : Known(k) =>
        /\ entries'[k] \in Entry /\ entries'[k].id = entries[k].id
        /\ entries'[k].open = entries[k].open /\ entries'[k].sev = entries[k].sev
        /\ entries'[k].idle = Older(entries[k].idle, ResolveWindow)
        /\ \A r \in Reasons : entries'[k].seen[r] = Older(entries[k].seen[r], DedupWindow)
  <2> SUFFICES ASSUME NEW k \in Keys, Known(k)
               PROVE  /\ entries'[k] \in Entry /\ entries'[k].id = entries[k].id
                      /\ entries'[k].open = entries[k].open /\ entries'[k].sev = entries[k].sev
                      /\ entries'[k].idle = Older(entries[k].idle, ResolveWindow)
                      /\ \A r \in Reasons :
                           entries'[k].seen[r] = Older(entries[k].seen[r], DedupWindow)
    OBVIOUS
  <2>1. entries[k] \in Entry
    BY Typed
  <2>2. entries'[k] = [entries[k] EXCEPT
               !.idle = Min2(@ + 1, ResolveWindow),
               !.seen = [r \in Reasons |-> Min2(@[r] + 1, DedupWindow)]]
    BY DEF Tick
  <2> QED  BY <2>1, <2>2, AgedEntry
<1>4. \A k \in Keys : /\ Known(k)' <=> Known(k)
                      /\ IsOpen(k)' <=> IsOpen(k)
  BY <1>2, <1>3, Shapes DEF Known, IsOpen
<1>5. \A i \in Ids : rows[i] = None => rows'[i] = None
  BY DEF Tick
<1>6. \A i \in Ids : rows[i] # None =>
        /\ rows'[i] \in RowType /\ rows'[i].id = rows[i].id /\ rows'[i].key = rows[i].key
        /\ rows'[i].open = rows[i].open /\ rows'[i].sev = rows[i].sev
        /\ rows'[i].idle = Older(rows[i].idle, ResolveWindow)
  <2> SUFFICES ASSUME NEW i \in Ids, rows[i] # None
               PROVE  /\ rows'[i] \in RowType /\ rows'[i].id = rows[i].id
                      /\ rows'[i].key = rows[i].key /\ rows'[i].open = rows[i].open
                      /\ rows'[i].sev = rows[i].sev
                      /\ rows'[i].idle = Older(rows[i].idle, ResolveWindow)
    OBVIOUS
  <2>1. rows[i] \in RowType
    BY Typed
  <2>2. rows'[i] = [rows[i] EXCEPT !.idle = Min2(@ + 1, ResolveWindow)]
    BY DEF Tick
  <2> QED  BY <2>1, <2>2, AgedRow
<1>7. \A i \in Ids : /\ (rows'[i] # None) <=> (rows[i] # None)
                     /\ OpenRow(i)' <=> OpenRow(i)
  BY <1>5, <1>6, Shapes DEF OpenRow
<1>8. /\ lastSignal' \in [Keys -> 0..ResolveWindow]
      /\ \A k \in Keys : lastSignal'[k] = Older(lastSignal[k], ResolveWindow)
  <2>1. \A x \in 0..ResolveWindow : Min2(x + 1, ResolveWindow) \in 0..ResolveWindow
    BY CorrelatorAssumption DEF Min2
  <2> QED  BY <2>1 DEF Tick, Older, IInv, Types, TypeOK
<1>9. entries' \in [Keys -> Entry \union {None}] /\ rows' \in [Ids -> RowType \union {None}]
  <2>1. entries' = [k \in Keys |-> entries'[k]] /\ rows' = [i \in Ids |-> rows'[i]]
    BY DEF Tick
  <2>2. /\ \A k \in Keys : entries'[k] \in Entry \union {None}
        /\ \A i \in Ids : rows'[i] \in RowType \union {None}
    BY <1>2, <1>3, <1>5, <1>6
  <2> QED  BY <2>1, <2>2
<1>10. Types'
  <2>1. TypeOK'
    BY <1>1, <1>8, <1>9 DEF IInv, Types, TypeOK
  <2> QED  BY <2>1, <1>9 DEF Types
<1>11. \A k \in Keys : Known(k) => entries[k].id \in Ids
  BY Typed DEF Entry
<1>12. \A i \in Ids : rows[i] # None => rows[i].key \in Keys /\ rows[i].idle \in 0..ResolveWindow
  BY Typed DEF RowType
<1>13. Numbered'
  BY <1>1, <1>3, <1>4, <1>6, <1>7, <1>11 DEF IInv, Numbered
<1>14. Empty'
  <2>1. run' = "hydrate" => ~resolver' /\ entries' = [k \in Keys |-> None]
    BY <1>1, <1>2, <1>9 DEF IInv, Empty, Known
  <2> QED  BY <2>1, <1>1 DEF IInv, Empty
<1>15. Agrees'
  <2>1. MemoryAgrees => MemoryAgrees'
    <3> SUFFICES ASSUME MemoryAgrees PROVE MemoryAgrees'
      OBVIOUS
    <3>1. \A k \in Keys : Known(k)' => rows'[entries'[k].id] = Row(k, entries[k])'
      <4> SUFFICES ASSUME NEW k \in Keys, Known(k)
                   PROVE  rows'[entries[k].id] = Row(k, entries'[k])
        BY <1>3, <1>4 DEF Row
      <4> DEFINE w == rows[entries[k].id]
                 x == rows'[entries[k].id]
      <4>0. entries[k] \in Entry
        BY Typed
      <4>1. w = Row(k, entries[k]) /\ w # None
        BY <4>0, Shapes DEF MemoryAgrees
      <4>2. /\ w.id = entries[k].id /\ w.key = k /\ w.open = entries[k].open
            /\ w.sev = entries[k].sev /\ w.idle = entries[k].idle
        BY <4>1 DEF Row
      <4>3. /\ x \in RowType /\ x.id = entries'[k].id /\ x.key = k /\ x.open = entries'[k].open
            /\ x.sev = entries'[k].sev /\ x.idle = entries'[k].idle
        BY <4>1, <4>2, <1>3, <1>6, <1>11
      <4> HIDE DEF w, x
      <4>4. x = Row(k, entries'[k])
        BY <4>3 DEF Row, RowType
      <4> QED  BY <4>4 DEF x
    <3>2. \A i \in Ids : OpenRow(i)' => Known(rows[i].key)' /\ entries'[rows'[i].key].id = i
      BY <1>3, <1>4, <1>6, <1>7, <1>12 DEF MemoryAgrees, OpenRow, Known
    <3>3. \A o \in openAtCrash' : Known(o[1])' /\ entries'[o[1]].id = o[2]
      <4>1. \A o \in openAtCrash : o[1] \in Keys
        BY DEF IInv, Types, TypeOK
      <4> QED  BY <4>1, <1>1, <1>3, <1>4 DEF MemoryAgrees, Known
    <3> QED  BY <3>1, <3>2, <3>3 DEF MemoryAgrees
  <2>2. Kept => Kept'
    <3>1. \A o \in openAtCrash : o[2] \in Ids
      BY DEF IInv, Types, TypeOK
    <3> QED  BY <3>1, <1>1, <1>6, <1>7 DEF Kept, OpenRow
  <2> QED  BY <2>1, <2>2, <1>1 DEF IInv, Agrees
<1>16. Remembered'
  <2>1. ASSUME NEW k \in Keys, NEW r \in Reasons, Known(k)
        PROVE  entries'[k].seen[r] >= entries'[k].idle \/ entries'[k].seen[r] = DedupWindow
    <3>1. entries[k].seen[r] >= entries[k].idle \/ entries[k].seen[r] = DedupWindow
      BY <2>1 DEF IInv, Remembered
    <3>2. entries[k].seen[r] \in 0..DedupWindow /\ entries[k].idle \in 0..ResolveWindow
      BY <2>1, Typed DEF Entry
    <3>3. /\ entries'[k].seen[r] = Older(entries[k].seen[r], DedupWindow)
          /\ entries'[k].idle = Older(entries[k].idle, ResolveWindow)
      BY <2>1, <1>3
    <3> QED  BY <3>1, <3>2, <3>3, CorrelatorAssumption DEF Older, Min2
  <2>2. ~storeFailed => \A k \in Keys : IsOpen(k)' => Recent(lastSignal'[k], entries'[k].idle)
    <3> SUFFICES ASSUME ~storeFailed, NEW k \in Keys, IsOpen(k)
                 PROVE  Recent(lastSignal'[k], entries'[k].idle)
      BY <1>4
    <3>1. Known(k) /\ Recent(lastSignal[k], entries[k].idle)
      BY DEF IInv, Remembered, IsOpen
    <3>2. lastSignal[k] \in 0..ResolveWindow /\ entries[k].idle \in 0..ResolveWindow
      BY <3>1, Typed DEF Entry, IInv, Types, TypeOK
    <3> QED  BY <3>1, <3>2, <1>3, <1>8, StillRecent
  <2>3. ~storeFailed /\ run = "hydrate" =>
          \A i \in Ids : OpenRow(i)' => Recent(lastSignal'[rows'[i].key], rows'[i].idle)
    <3> SUFFICES ASSUME ~storeFailed, run = "hydrate", NEW i \in Ids, OpenRow(i)
                 PROVE  Recent(lastSignal'[rows'[i].key], rows'[i].idle)
      BY <1>7
    <3>1. rows[i] # None /\ Recent(lastSignal[rows[i].key], rows[i].idle)
      BY DEF IInv, Remembered, OpenRow
    <3>2. lastSignal[rows[i].key] \in 0..ResolveWindow /\ rows[i].idle \in 0..ResolveWindow
      BY <3>1, <1>12 DEF IInv, Types, TypeOK
    <3> QED  BY <3>1, <3>2, <1>6, <1>8, <1>12, StillRecent
  <2> QED  BY <2>1, <2>2, <2>3, <1>1, <1>4 DEF Remembered, Recent
<1> QED  BY <1>10, <1>13, <1>14, <1>15, <1>16 DEF IInv

-----------------------------------------------------------------------------
(* The life of the process.                                                *)

LEMMA HydrateStep ==
  ASSUME IInv, Hydrate
  PROVE  IInv'
<1>1. /\ run = "hydrate" /\ up /\ run' = "loop" /\ resolver' = TRUE
      /\ UNCHANGED <<up, ctxDone, events, rows, nextId, lastSignal, openAtCrash>>
  BY DEF Hydrate, history
<1>2. \A k \in Keys : ~Known(k)
  BY <1>1 DEF IInv, Empty, Known
<1>3. CASE UNCHANGED entries /\ storeFailed' = TRUE
  <2>1. Types'
    BY <1>1, <1>3 DEF IInv, Types, TypeOK
  <2> QED  BY <2>1, <1>1, <1>2, <1>3 DEF IInv, Numbered, Empty, Agrees, Remembered, Known
<1>4. ASSUME NEW pick \in [Keys -> Ids \union {0}],
             \A k \in Keys : IF OpenRows(k) = {} THEN pick[k] = 0 ELSE pick[k] \in OpenRows(k),
             entries' = [k \in Keys |-> IF pick[k] = 0 THEN None ELSE FromRow(rows[pick[k]])],
             UNCHANGED storeFailed
      PROVE  IInv'
  <2>1. \A k \in Keys : pick[k] # 0 => pick[k] \in Ids /\ pick[k] \in OpenRows(k)
    BY <1>4
  <2>2. \A i \in Ids : rows[i] \in RowType =>
          /\ FromRow(rows[i]) \in Entry /\ FromRow(rows[i]).id = rows[i].id
          /\ FromRow(rows[i]).open = rows[i].open /\ FromRow(rows[i]).idle = rows[i].idle
          /\ FromRow(rows[i]).sev = rows[i].sev
          /\ \A r \in Reasons : FromRow(rows[i]).seen[r] = DedupWindow
    BY CorrelatorAssumption DEF FromRow, Entry, RowType
  <2>3. \A k \in Keys : pick[k] # 0 =>
          /\ pick[k] \in Ids /\ rows[pick[k]] \in RowType /\ OpenRow(pick[k])
          /\ rows[pick[k]].id = pick[k] /\ rows[pick[k]].key = k /\ pick[k] < nextId
          /\ entries'[k] = FromRow(rows[pick[k]])
    BY <1>4, <2>1, Typed DEF OpenRows, OpenRow, IInv, Numbered
  <2>4. \A k \in Keys : pick[k] = 0 => entries'[k] = None
    BY <1>4
  <2>5. /\ entries' \in [Keys -> Entry \union {None}]
        /\ \A k \in Keys : Known(k)' <=> pick[k] # 0
        /\ \A k \in Keys : Known(k)' =>
             /\ entries'[k].id = pick[k] /\ entries'[k].open = rows[pick[k]].open
             /\ entries'[k].idle = rows[pick[k]].idle /\ entries'[k].sev = rows[pick[k]].sev
             /\ \A r \in Reasons : entries'[k].seen[r] = DedupWindow
    <3>1. \A k \in Keys : pick[k] # 0 =>
            /\ entries'[k] \in Entry
            /\ entries'[k].id = pick[k] /\ entries'[k].open = rows[pick[k]].open
            /\ entries'[k].idle = rows[pick[k]].idle /\ entries'[k].sev = rows[pick[k]].sev
            /\ \A r \in Reasons : entries'[k].seen[r] = DedupWindow
      BY <2>2, <2>3
    <3>2. \A k \in Keys : Known(k)' <=> pick[k] # 0
      BY <3>1, <2>4, Shapes DEF Known
    <3>3. entries' = [k \in Keys |-> entries'[k]]
      BY <1>4
    <3>4. entries' \in [Keys -> Entry \union {None}]
      BY <3>1, <3>3, <2>4
    <3> QED  BY <3>1, <3>2, <3>4
  <2>6. Types'
    <3>1. TypeOK'
      BY <1>1, <1>4, <2>5 DEF IInv, Types, TypeOK
    <3> QED  BY <3>1, <1>1, <2>5 DEF IInv, Types
  <2>7. Numbered'
    BY <1>1, <2>3, <2>5 DEF IInv, Numbered
  <2>8. Empty'
    BY <1>1 DEF Empty
  <2>9. ASSUME ~storeFailed, NEW i \in Ids, OpenRow(i)
        PROVE  rows[i].key \in Keys /\ pick[rows[i].key] = i
    <3> DEFINE k == rows[i].key
    <3>1. rows[i] \in RowType /\ k \in Keys /\ i \in OpenRows(k)
      BY <2>9, Typed DEF OpenRow, OpenRows, RowType
    <3>2. Kept
      BY <2>9, <1>1 DEF IInv, Agrees
    <3>3. pick[k] # 0
      BY <3>1, <1>4, CorrelatorAssumption DEF Ids, OpenRows
    <3>4. <<k, i>> \in openAtCrash /\ <<k, pick[k]>> \in openAtCrash
      BY <2>3, <2>9, <3>1, <3>2, <3>3 DEF Kept
    <3>5. <<k, i>> = <<k, pick[k]>>
      BY <3>2, <3>4 DEF Kept
    <3> QED  BY <3>1, <3>5
  <2>10. Agrees'
    <3> SUFFICES ASSUME ~storeFailed PROVE MemoryAgrees'
      BY <1>1, <1>4 DEF Agrees
    <3>1. \A k \in Keys : Known(k)' => rows'[entries'[k].id] = Row(k, entries[k])'
      <4> SUFFICES ASSUME NEW k \in Keys, Known(k)'
                   PROVE  rows[pick[k]] = Row(k, entries'[k])
        BY <1>1, <2>5 DEF Row
      <4>1. /\ rows[pick[k]] \in RowType /\ rows[pick[k]].id = entries'[k].id
            /\ rows[pick[k]].key = k /\ rows[pick[k]].open = entries'[k].open
            /\ rows[pick[k]].idle = entries'[k].idle /\ rows[pick[k]].sev = entries'[k].sev
        BY <2>3, <2>5
      <4> QED  BY <4>1 DEF Row, RowType
    <3>2. \A i \in Ids : OpenRow(i)' => Known(rows[i].key)' /\ entries'[rows'[i].key].id = i
      <4> SUFFICES ASSUME NEW i \in Ids, OpenRow(i)
                   PROVE  Known(rows[i].key)' /\ entries'[rows[i].key].id = i
        BY <1>1 DEF OpenRow
      <4>1. rows[i].key \in Keys /\ pick[rows[i].key] = i /\ i # 0
        BY <2>9 DEF Ids
      <4> QED  BY <4>1, <2>5, <1>1 DEF Known
    <3>3. \A o \in openAtCrash' : Known(o[1])' /\ entries'[o[1]].id = o[2]
      <4> SUFFICES ASSUME NEW o \in openAtCrash PROVE Known(o[1])' /\ entries'[o[1]].id = o[2]
        BY <1>1
      <4>1. o[1] \in Keys /\ o[2] \in Ids /\ o[2] # 0
        BY DEF IInv, Types, TypeOK, Ids
      <4>2. OpenRow(o[2]) /\ rows[o[2]].key = o[1]
        BY <1>1 DEF IInv, Agrees, Kept
      <4>3. pick[o[1]] = o[2]
        BY <4>1, <4>2, <2>9
      <4> QED  BY <4>1, <4>3, <2>5 DEF Known
    <3> QED  BY <3>1, <3>2, <3>3 DEF MemoryAgrees
  <2>11. Remembered'
    <3>1. ~storeFailed => \A k \in Keys : Known(k)' => Recent(lastSignal'[k], entries'[k].idle)
      <4> SUFFICES ASSUME ~storeFailed, NEW k \in Keys, Known(k)'
                   PROVE  Recent(lastSignal[k], entries'[k].idle)
        BY <1>1
      <4>1. OpenRow(pick[k]) /\ rows[pick[k]].key = k /\ pick[k] \in Ids
        BY <2>3, <2>5
      <4> QED  BY <4>1, <2>5, <1>1 DEF IInv, Remembered
    <3> QED  BY <3>1, <2>5, <1>1, <1>4 DEF Remembered, IsOpen, Known, Recent
  <2> QED  BY <2>6, <2>7, <2>8, <2>10, <2>11 DEF IInv
<1> QED  BY <1>3, <1>4 DEF Hydrate

\* The process dies with the incidents of some keys open, and the table is what it
\* was but for rows that were just closed.
LEMMA DieStep ==
  ASSUME IInv, run # "hydrate", NEW open \in SUBSET Keys, Die(open),
         \A k \in open : IsOpen(k),
         rows' \in [Ids -> RowType \union {None}], storeFailed' \in BOOLEAN,
         \A i \in Ids : rows'[i] # None => rows'[i].id = i /\ i < nextId,
         storeFailed => storeFailed',
         ~storeFailed' =>
           /\ \A i \in Ids : OpenRow(i)' => rows'[i] = rows[i] /\ rows[i].key \in open
           /\ \A k \in open : rows'[entries[k].id] = rows[entries[k].id]
  PROVE  IInv'
<1>1. /\ up' = FALSE /\ ctxDone' = FALSE /\ run' = "hydrate" /\ resolver' = FALSE
      /\ openAtCrash' = {<<k, entries[k].id>> : k \in open}
      /\ entries' = [k \in Keys |-> None] /\ events' = <<>>
      /\ UNCHANGED <<nextId, lastSignal>>
  BY DEF Die
<1>2. \A k \in Keys : ~Known(k)' /\ ~IsOpen(k)'
  BY <1>1 DEF Known, IsOpen
<1>3. \A k \in open : Known(k) /\ entries[k].open /\ entries[k].id \in Ids
  BY Typed DEF IsOpen, Entry
<1>4. Types'
  <2>1. openAtCrash' \subseteq Keys \X Ids
    BY <1>1, <1>3
  <2>2. events' \in Seq([kind : {"opened", "updated", "closed"}, id : Ids])
        /\ Len(events') <= EventBufSize
    <3>1. events' \in Seq([kind : {"opened", "updated", "closed"}, id : Ids]) /\ Len(events') = 0
      BY <1>1, EmptySeq
    <3> QED  BY <3>1, CorrelatorAssumption
  <2>3. nextId' \in 1..(MaxIds + 1) /\ lastSignal' \in [Keys -> 0..ResolveWindow]
    BY <1>1 DEF IInv, Types, TypeOK
  <2>4. entries' \in [Keys -> Entry \union {None}]
    BY <1>1
  <2>5. TypeOK'
    BY <2>1, <2>2, <2>3, <2>4, <1>1 DEF TypeOK
  <2> QED  BY <2>4, <2>5 DEF Types
<1>5. Numbered'
  BY <1>1, <1>2 DEF Numbered
<1>6. Empty'
  BY <1>1 DEF Empty
<1>7. ASSUME ~storeFailed'
      PROVE  /\ \A k \in open : /\ rows'[entries[k].id] # None /\ rows'[entries[k].id].open
                                /\ entries[k].id \in Ids
                                /\ rows'[entries[k].id].key = k
             /\ \A i \in Ids : OpenRow(i)' =>
                  /\ rows'[i].key \in open /\ entries[rows'[i].key].id = i
                  /\ rows'[i].idle = entries[rows'[i].key].idle
  <2>1. MemoryAgrees
    BY <1>7 DEF IInv, Agrees
  <2>2. ASSUME NEW k \in open
        PROVE  /\ rows'[entries[k].id] # None /\ rows'[entries[k].id].open
               /\ entries[k].id \in Ids
               /\ rows'[entries[k].id].key = k
    <3>1. rows'[entries[k].id] = Row(k, entries[k]) /\ entries[k].open
      BY <2>1, <1>3, <1>7 DEF MemoryAgrees
    <3>2. rows'[entries[k].id] # None
      <4>1. k \in Keys /\ entries[k] \in Entry
        BY <1>3, Typed
      <4> QED  BY <3>1, <4>1, Shapes
    <3> QED  BY <3>1, <3>2, <1>3 DEF OpenRow, Row
  <2>3. ASSUME NEW i \in Ids, OpenRow(i)'
        PROVE  /\ rows'[i].key \in open /\ entries[rows'[i].key].id = i
               /\ rows'[i].idle = entries[rows'[i].key].idle
    <3>1. rows'[i] = rows[i] /\ rows[i].key \in open /\ OpenRow(i)
      BY <2>3, <1>7 DEF OpenRow
    <3>2. entries[rows[i].key].id = i /\ Known(rows[i].key)
      BY <3>1, <2>1 DEF MemoryAgrees
    <3>3. rows[i] = Row(rows[i].key, entries[rows[i].key])
      BY <3>1, <3>2, <2>1 DEF MemoryAgrees
    <3>4. rows[i].idle = entries[rows[i].key].idle
      <4> DEFINE k == rows[i].key
      <4>1. rows[i] = Row(k, entries[k])
        BY <3>3
      <4> HIDE DEF k
      <4>2. rows[i].idle = entries[k].idle
        BY <4>1 DEF Row
      <4> QED  BY <4>2 DEF k
    <3> QED  BY <3>1, <3>2, <3>4
  <2> QED  BY <2>2, <2>3
<1>8. Agrees'
  <2> SUFFICES ASSUME ~storeFailed' PROVE Kept'
    BY <1>1 DEF Agrees
  <2>1. \A i \in Ids : OpenRow(i)' => <<rows'[i].key, i>> \in openAtCrash'
    BY <1>1, <1>7
  <2>2. \A o \in openAtCrash' : OpenRow(o[2])' /\ rows'[o[2]].key = o[1]
    <3> SUFFICES ASSUME NEW o \in openAtCrash' PROVE OpenRow(o[2])' /\ rows'[o[2]].key = o[1]
      OBVIOUS
    <3>1. PICK k \in open : o = <<k, entries[k].id>>
      BY <1>1
    <3> QED  BY <3>1, <1>7 DEF OpenRow
  <2>3. \A o, p \in openAtCrash' : o[1] = p[1] => o = p
    BY <1>1
  <2> QED  BY <2>1, <2>2, <2>3 DEF Kept
<1>9. Remembered'
  <2>1. ASSUME ~storeFailed', NEW i \in Ids, OpenRow(i)'
        PROVE  Recent(lastSignal'[rows'[i].key], rows'[i].idle)
    BY <2>1, <1>1, <1>7 DEF IInv, Remembered
  <2> QED  BY <2>1, <1>2 DEF Remembered, Recent
<1> QED  BY <1>4, <1>5, <1>6, <1>8, <1>9 DEF IInv

LEMMA CrashStep ==
  ASSUME IInv, Crash
  PROVE  IInv'
<1> DEFINE open == {k \in Keys : IsOpen(k)}
<1>1. run # "hydrate" /\ Die(open) /\ rows' = rows /\ storeFailed' = storeFailed
  BY DEF Crash, store
<1>2. ~storeFailed => \A i \in Ids : OpenRow(i) => rows[i].key \in open
  <2> SUFFICES ASSUME ~storeFailed, NEW i \in Ids, OpenRow(i) PROVE rows[i].key \in open
    OBVIOUS
  <2> DEFINE k == rows[i].key
  <2>1. k \in Keys
    BY Typed DEF OpenRow, RowType
  <2>2. Known(k) /\ rows[i] = Row(k, entries[k])
    BY <1>1, <2>1 DEF IInv, Agrees, MemoryAgrees
  <2> HIDE DEF k
  <2>3. entries[k].open
    BY <2>2 DEF OpenRow, Row
  <2> QED  BY <2>1, <2>2, <2>3 DEF IsOpen, k
<1>3. rows' \in [Ids -> RowType \union {None}] /\ storeFailed' \in BOOLEAN
  BY <1>1 DEF IInv, Types, TypeOK
<1>4. \A i \in Ids : rows'[i] # None => rows'[i].id = i /\ i < nextId
  BY <1>1 DEF IInv, Numbered
<1>5. \A i \in Ids : OpenRow(i)' <=> OpenRow(i)
  BY <1>1 DEF OpenRow
<1>6. open \in SUBSET Keys /\ \A k \in open : IsOpen(k)
  OBVIOUS
<1> HIDE DEF open
<1> QED  BY <1>1, <1>2, <1>3, <1>4, <1>5, <1>6, DieStep

LEMMA PanicStep ==
  ASSUME IInv, Panic
  PROVE  IInv'
<1>1. PICK k \in Keys : /\ Stale(k) /\ Written(Upserted(k, Closed(k)))
                        /\ Die({j \in Keys \ {k} : IsOpen(j)})
  BY DEF Panic
<1> DEFINE open == {j \in Keys \ {k} : IsOpen(j)}
           r == Row(k, Closed(k))
<1>2. run = "closed" /\ nextId' = nextId
  BY <1>1 DEF Panic, Die
<1>3. Known(k) /\ IsOpen(k) /\ entries[k] \in Entry /\ entries[k].id \in Ids
  BY <1>1, Typed DEF Stale, IsOpen, Entry
<1>4. /\ r \in RowType /\ r # None /\ r.id = entries[k].id /\ r.key = k /\ ~r.open
      /\ Closed(k).id = entries[k].id
  BY <1>3, ClosedType, Shapes DEF Row
<1>5. \/ rows' = [rows EXCEPT ![entries[k].id] = r] /\ storeFailed' = storeFailed
      \/ rows' = rows /\ storeFailed' = TRUE
  BY <1>1, <1>4 DEF Written, Upserted
<1> HIDE DEF r
<1>6. /\ rows' \in [Ids -> RowType \union {None}]
      /\ \A i \in Ids \ {entries[k].id} : rows'[i] = rows[i]
      /\ rows'[entries[k].id] = r \/ (rows' = rows /\ storeFailed')
      /\ storeFailed' \in BOOLEAN /\ (storeFailed => storeFailed')
  BY <1>3, <1>4, <1>5 DEF IInv, Types, TypeOK
<1>7. \A i \in Ids : rows'[i] # None => rows'[i].id = i /\ i < nextId
  <2>1. entries[k].id < nextId
    BY <1>3 DEF IInv, Numbered
  <2> QED  BY <2>1, <1>4, <1>6 DEF IInv, Numbered
<1>8. \A j \in open : j \in Keys /\ j # k /\ IsOpen(j) /\ Known(j)
  BY DEF IsOpen
<1>9. ASSUME ~storeFailed'
      PROVE  /\ \A i \in Ids : OpenRow(i)' => rows'[i] = rows[i] /\ rows[i].key \in open
             /\ \A j \in open : rows'[entries[j].id] = rows[entries[j].id]
  <2>1. MemoryAgrees /\ rows'[entries[k].id] = r
    BY <1>2, <1>6, <1>9 DEF IInv, Agrees
  <2>2. ASSUME NEW i \in Ids, OpenRow(i)'
        PROVE  rows'[i] = rows[i] /\ rows[i].key \in open
    <3>1. i # entries[k].id
      BY <2>1, <2>2, <1>4 DEF OpenRow
    <3>2. rows'[i] = rows[i] /\ OpenRow(i)
      BY <3>1, <2>2, <1>6 DEF OpenRow
    <3> DEFINE j == rows[i].key
    <3>3. j \in Keys
      BY <3>2, Typed DEF OpenRow, RowType
    <3>4. Known(j) /\ entries[j].id = i /\ rows[i] = Row(j, entries[j])
      BY <3>2, <3>3, <2>1 DEF MemoryAgrees
    <3>5. j # k
      BY <3>1, <3>4
    <3> HIDE DEF j
    <3>6. entries[j].open
      BY <3>2, <3>4 DEF OpenRow, Row
    <3>7. j \in open
      BY <3>3, <3>4, <3>5, <3>6 DEF IsOpen
    <3> QED  BY <3>2, <3>7 DEF j
  <2>3. ASSUME NEW j \in open
        PROVE  rows'[entries[j].id] = rows[entries[j].id]
    <3>1. entries[j].id \in Ids /\ entries[j].id # entries[k].id
      BY <1>3, <1>8, Typed DEF IInv, Numbered, Entry
    <3> QED  BY <3>1, <1>6
  <2> QED  BY <2>2, <2>3
<1>10. Die(open) /\ open \in SUBSET Keys
  BY <1>1
<1> HIDE DEF open
<1> QED  BY <1>2, <1>6, <1>7, <1>8, <1>9, <1>10, DieStep

\* What changes only who runs: no incident, no row, no age.
LEMMA QuietStep ==
  ASSUME IInv, UNCHANGED <<entries, rows, events, nextId, storeFailed, history>>,
         up' \in BOOLEAN, ctxDone' \in BOOLEAN, resolver' \in BOOLEAN,
         run' \in {"hydrate", "loop", "closed"},
         run' = "hydrate" <=> run = "hydrate",
         run' = "hydrate" => ~resolver', ~up' => run' = "hydrate"
  PROVE  IInv'
<1>1. Types'
  <2>1. TypeOK'
    BY DEF IInv, Types, TypeOK, history
  <2> QED  BY <2>1 DEF IInv, Types
<1> QED
  BY <1>1 DEF IInv, Numbered, Empty, Agrees, MemoryAgrees, Kept, OpenRow, Known, IsOpen, Row,
              Remembered, Recent, history

LEMMA NextIInv ==
  ASSUME IInv, [Next]_vars
  PROVE  IInv'
<1>1. /\ up \in BOOLEAN /\ ctxDone \in BOOLEAN /\ resolver \in BOOLEAN
      /\ run \in {"hydrate", "loop", "closed"}
      /\ run = "hydrate" => ~resolver /\ (~up => run = "hydrate")
      /\ ~up => run = "hydrate"
  BY DEF IInv, Types, TypeOK, Empty
<1>2. ASSUME NEW sig \in Signals, Process(sig)
      PROVE  IInv'
  BY <1>2, OpenStep, ReopenStep, DropStep, UpdateStep DEF Process
<1>3. CASE Cancel
  BY <1>1, <1>3, QuietStep DEF Cancel, store
<1>4. CASE Close
  BY <1>1, <1>4, QuietStep DEF Close, store
<1>5. CASE StopResolver
  BY <1>1, <1>5, QuietStep DEF StopResolver, store
<1>6. CASE Restart
  BY <1>1, <1>6, QuietStep DEF Restart, store
<1>7. CASE UNCHANGED vars
  BY <1>1, <1>7, QuietStep DEF vars, procVars, store
<1> QED
  BY <1>2, <1>3, <1>4, <1>5, <1>6, <1>7, ResolveStep, TakeStep, TickStep, HydrateStep,
     CrashStep, PanicStep DEF Next

LEMMA AlwaysIInv == Spec => []IInv
<1>1. IInv /\ [Next]_vars => IInv'
  BY NextIInv
<1> QED  BY <1>1, InitIInv, PTL DEF Spec

-----------------------------------------------------------------------------
(* The theorems.                                                           *)

\* Every variable of the correlator keeps its type, and the events channel never
\* holds more than its capacity, whatever ResolveStale sends at once.
THEOREM TypeCorrect == Spec => []TypeOK
<1>1. IInv => TypeOK
  BY DEF IInv, Types
<1> QED  BY <1>1, AlwaysIInv, PTL

\* While no query of the store failed, memory and the incidents table agree: each
\* incident of Process has its row, no resource has a second open row, and what
\* was open when the process died is the same incident after hydrate.
THEOREM StoreAgreesAlways == Spec => []StoreAgrees
<1>1. IInv => StoreAgrees
  BY DEF IInv, Agrees, MemoryAgrees, OpenRow, StoreAgrees
<1> QED  BY <1>1, AlwaysIInv, PTL

\* A step that ends an incident while the process runs is ResolveStale, and the
\* incident is stale then.
LEMMA OnlyStaleClose ==
  ASSUME IInv, [Next]_vars, NEW k \in Keys, IsOpen(k), up', ~IsOpen(k)'
  PROVE  Stale(k)
<1>1. entries[k] \in Entry /\ Known(k) /\ entries[k].open
  BY Typed DEF IsOpen
<1>2. run # "hydrate"
  BY <1>1 DEF IInv, Empty, Known
<1>3. entries'[k] # entries[k]
  BY DEF IsOpen, Known
<1>4. CASE ResolveStale
  BY <1>3, <1>4 DEF ResolveStale
<1>5. ASSUME NEW sig \in Signals, Process(sig)
      PROVE  FALSE
  <2>2. sig.key \in Keys /\ sig.reason \in Reasons /\ sig.sev \in Nat
    BY CorrelatorAssumption
  <2>3. CASE Open(sig) \/ Reopen(sig)
    <3>1. sig.key # k
      BY <1>1, <2>3 DEF Open, Reopen
    <3> QED  BY <3>1, <2>3, <1>3 DEF Open, Reopen, Commit, IInv, Types
  <2>4. CASE Drop(sig)
    BY <2>4, <1>3 DEF Drop
  <2>5. CASE Update(sig)
    <3>1. entries'[k].open /\ entries'[k] # None
      <4>1. CASE sig.key # k
        BY <4>1, <2>5, <1>3 DEF Update, Commit, IInv, Types
      <4>2. CASE sig.key = k
        <5>1. entries'[k] = [entries[k] EXCEPT !.idle = 0, !.seen[sig.reason] = 0,
                                 !.sev = IF sig.sev > @ THEN sig.sev ELSE @]
          BY <4>2, <2>5 DEF Update, Commit, IInv, Types
        <5>2. entries'[k].open /\ entries'[k].id = entries[k].id
          BY <5>1, <1>1 DEF Entry
        <5> QED  BY <5>2, <1>1, CorrelatorAssumption DEF Entry, None, Ids
      <4> QED  BY <4>1, <4>2
    <3> QED  BY <3>1 DEF IsOpen, Known
  <2> QED  BY <1>5, <2>3, <2>4, <2>5 DEF Process
<1>6. CASE Tick
  <2>1. entries'[k] = [entries[k] EXCEPT
               !.idle = Min2(@ + 1, ResolveWindow),
               !.seen = [r \in Reasons |-> Min2(@[r] + 1, DedupWindow)]]
    BY <1>1, <1>6 DEF Tick
  <2>2. entries'[k] \in Entry /\ entries'[k].open
    BY <1>1, <2>1, AgedEntry
  <2> QED  BY <2>2, Shapes DEF IsOpen, Known
<1>7. CASE Crash \/ Panic
  BY <1>7 DEF Crash, Panic, Die
<1>8. CASE Take \/ Cancel \/ Close \/ StopResolver \/ Restart \/ UNCHANGED vars
  BY <1>3, <1>8 DEF Take, Cancel, Close, StopResolver, Restart, vars
<1>9. ~Hydrate
  BY <1>2 DEF Hydrate
<1> QED  BY <1>4, <1>5, <1>6, <1>7, <1>8, <1>9 DEF Next

\* While no query of the store failed, ResolveStale closes an incident only when
\* its last signal, a dropped duplicate included, is older than what the two
\* windows leave.
THEOREM ClosedWhenQuietAlways == Spec => ClosedWhenQuiet
<1>1. ASSUME IInv, [Next]_vars, NEW k \in Keys, ~storeFailed, IsOpen(k), up', ~IsOpen(k)'
      PROVE  \/ lastSignal[k] > ResolveWindow - DedupWindow
             \/ lastSignal[k] = ResolveWindow
  <2>1. entries[k].idle >= ResolveWindow /\ entries[k] \in Entry
    BY <1>1, OnlyStaleClose, Typed DEF Stale, IsOpen
  <2>2. Recent(lastSignal[k], entries[k].idle)
    BY <1>1 DEF IInv, Remembered
  <2>3. /\ entries[k].idle \in 0..ResolveWindow /\ lastSignal[k] \in 0..ResolveWindow
    BY <1>1, <2>1 DEF Entry, IInv, Types, TypeOK
  <2> QED  BY <2>1, <2>2, <2>3, CorrelatorAssumption DEF Recent
<1>2. IInv /\ [Next]_vars
        => [\A k \in Keys : ~storeFailed /\ IsOpen(k) /\ up' /\ ~IsOpen(k)'
              => \/ lastSignal[k] > ResolveWindow - DedupWindow
                 \/ lastSignal[k] = ResolveWindow]_vars
  BY <1>1
<1> QED  BY <1>2, AlwaysIInv, PTL DEF Spec, ClosedWhenQuiet
=============================================================================
