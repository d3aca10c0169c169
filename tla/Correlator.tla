----------------------------- MODULE Correlator -----------------------------
(***************************************************************************)
(* The correlator (agent/internal/correlator): Process folds signals into  *)
(* one incident per resource, the resolver goroutine closes the incidents  *)
(* that went quiet, both write through to the store's incidents table and  *)
(* emit events on a bounded channel, and a new process hydrates from that  *)
(* table.  Process and ResolveStale hold the mutex throughout, so each is  *)
(* one step; what crashes can separate (the write to the store and the     *)
(* event) is lost with the channel anyway.                                 *)
(*                                                                         *)
(* Times are ages in ticks: idle since UpdatedAt, seen since a reason was  *)
(* last counted.  An age that reached its window grows no further.         *)
(***************************************************************************)
EXTENDS Integers, Sequences, FiniteSets

CONSTANTS
  Keys,               \* correlation keys: namespace/resource
  Reasons,            \* failure modes a signal may report
  Signals,            \* what the ingestors send: a key, a reason, a severity
  ResolveWindow, DedupWindow,
  EventBufSize,       \* capacity of the events channel
  MaxIds              \* bound on the number of incident IDs

ASSUME CorrelatorAssumption ==
  /\ ResolveWindow \in Nat \ {0} /\ DedupWindow \in Nat
  /\ EventBufSize \in Nat \ {0} /\ MaxIds \in Nat
  /\ Signals \subseteq [key : Keys, reason : Reasons, sev : Nat]

VARIABLES
  up,           \* the process runs
  ctxDone,      \* its context was cancelled
  run,          \* Run: "hydrate", "loop" or "closed" (it closed the channel)
  resolver,     \* the resolver goroutine runs
  entries,      \* Correlator.entries, None where there is no entry
  events,       \* the events channel
  rows,         \* the incidents table by ID, None where there is no row
  nextId,       \* IDs below it are used
  lastSignal,   \* history: age of each key's last signal, counted or dropped
  openAtCrash,  \* history: the incidents that were open when it last crashed
  storeFailed   \* history: a query of the store failed

procVars == <<up, ctxDone, run, resolver>>
store == <<rows, storeFailed>>
history == <<lastSignal, openAtCrash>>
vars == <<procVars, entries, events, store, nextId, history>>

None   == [id |-> 0]
Ids    == 1..MaxIds

Min2(a, b) == IF a < b THEN a ELSE b

Known(k)  == entries[k] # None
IsOpen(k) == Known(k) /\ entries[k].open

Init ==
  /\ up = TRUE /\ ctxDone = FALSE /\ run = "hydrate" /\ resolver = FALSE
  /\ entries = [k \in Keys |-> None]
  /\ events = <<>>
  /\ rows = [i \in Ids |-> None]
  /\ nextId = 1
  /\ lastSignal = [k \in Keys |-> ResolveWindow]
  /\ openAtCrash = {} /\ storeFailed = FALSE

-----------------------------------------------------------------------------
(* The store and the channel.                                              *)

\* The row of an incident: all that is kept of it but the dedup state.  The list
\* of its signals is left out here (see Verifier).
Row(k, e) == [id |-> e.id, key |-> k, open |-> e.open, idle |-> e.idle,
              sev |-> e.sev]

BugOnlyInserts(k, e) == IF rows[e.id] = None THEN [rows EXCEPT ![e.id] = Row(k, e)]
                        ELSE rows
Upserted(k, e) == [rows EXCEPT ![e.id] = Row(k, e)]

\* upsertStore logs an error of the store and goes on.
Written(table) == \/ rows' = table /\ UNCHANGED storeFailed
                  \/ rows' = rows /\ storeFailed' = TRUE

\* emit: a full channel drops the event.
BugNeverDrops(queue, e) == Append(queue, e)
Emitted(queue, e) == IF Len(queue) < EventBufSize THEN Append(queue, e) ELSE queue

-----------------------------------------------------------------------------
(* Process.                                                                *)

Fresh(reason) == [r \in Reasons |-> IF r = reason THEN 0 ELSE DedupWindow]

\* Each branch of Process ends by storing and emitting the incident.
Commit(sig, e, kind) ==
  /\ entries' = [entries EXCEPT ![sig.key] = e]
  /\ Written(Upserted(sig.key, e))
  /\ events' = Emitted(events, [kind |-> kind, id |-> e.id])
  /\ lastSignal' = [lastSignal EXCEPT ![sig.key] = 0]
  /\ UNCHANGED <<procVars, openAtCrash>>

Receiving == up /\ run = "loop"

Open(sig) ==
  /\ Receiving /\ ~Known(sig.key)
  /\ nextId <= MaxIds /\ nextId' = nextId + 1
  /\ Commit(sig, [id |-> nextId, open |-> TRUE, idle |-> 0, sev |-> sig.sev,
                  seen |-> Fresh(sig.reason)], "opened")

\* The same incident, emptied; its severity stays what it was.
Reopen(sig) ==
  /\ Receiving /\ Known(sig.key) /\ ~IsOpen(sig.key)
  /\ Commit(sig, [entries[sig.key] EXCEPT
                    !.open = TRUE, !.idle = 0,
                    !.seen = Fresh(sig.reason)], "opened")
  /\ UNCHANGED nextId

Duplicate(sig) == entries[sig.key].seen[sig.reason] < DedupWindow

Drop(sig) ==
  /\ Receiving /\ IsOpen(sig.key) /\ Duplicate(sig)
  /\ lastSignal' = [lastSignal EXCEPT ![sig.key] = 0]
  /\ UNCHANGED <<procVars, entries, events, store, nextId, openAtCrash>>

Update(sig) ==
  /\ Receiving /\ IsOpen(sig.key) /\ ~Duplicate(sig)
  /\ Commit(sig, [entries[sig.key] EXCEPT
                    !.idle = 0, !.seen[sig.reason] = 0,
                    !.sev = IF sig.sev > @ THEN sig.sev ELSE @], "updated")
  /\ UNCHANGED nextId

-----------------------------------------------------------------------------
(* ResolveStale, called by the resolver's ticker.                          *)

BugClosesEarly(k) == IsOpen(k) /\ entries[k].idle + DedupWindow >= ResolveWindow
BugWaitsForRoom(k) == /\ IsOpen(k) /\ entries[k].idle >= ResolveWindow
                      /\ Len(events) < EventBufSize
Stale(k) == IsOpen(k) /\ entries[k].idle >= ResolveWindow

Closed(k) == [entries[k] EXCEPT !.open = FALSE]

\* The map is walked in any order, which decides who gets the channel's room.
Orders(S) == {o \in [1..Cardinality(S) -> S] : \A k \in S : \E i \in DOMAIN o : o[i] = k}

EmitClosed(order) ==
  LET sent == [i \in DOMAIN order |-> [kind |-> "closed", id |-> entries[order[i]].id]]
  IN  events \o SubSeq(sent, 1, Min2(Len(order), EventBufSize - Len(events)))

ResolveStale ==
  LET stale == {k \in Keys : Stale(k)}
  IN  /\ up /\ resolver /\ run # "closed" /\ stale # {}
      /\ entries' = [k \in Keys |-> IF k \in stale THEN Closed(k) ELSE entries[k]]
      /\ \E written \in SUBSET stale :
           /\ rows' = [i \in Ids |->
                         IF \E k \in written : entries[k].id = i
                         THEN LET k == CHOOSE j \in written : entries[j].id = i
                              IN  Row(k, Closed(k))
                         ELSE rows[i]]
           /\ storeFailed' = (storeFailed \/ written # stale)
      /\ \E order \in Orders(stale) : events' = EmitClosed(order)
      /\ UNCHANGED <<procVars, nextId, history>>

-----------------------------------------------------------------------------
(* The life of the process.                                                *)

Take ==
  /\ up /\ events # <<>> /\ events' = Tail(events)
  /\ UNCHANGED <<procVars, entries, store, nextId, history>>

Tick ==
  /\ entries' = [k \in Keys |->
       IF ~Known(k) THEN None
       ELSE [entries[k] EXCEPT
               !.idle = Min2(@ + 1, ResolveWindow),
               !.seen = [r \in Reasons |-> Min2(@[r] + 1, DedupWindow)]]]
  /\ rows' = [i \in Ids |->
       IF rows[i] = None THEN None
       ELSE [rows[i] EXCEPT !.idle = Min2(@ + 1, ResolveWindow)]]
  /\ lastSignal' = [k \in Keys |-> Min2(lastSignal[k] + 1, ResolveWindow)]
  /\ UNCHANGED <<procVars, events, nextId, openAtCrash, storeFailed>>

\* One open row per key is taken, an arbitrary one should there be several;
\* the dedup state starts empty.
OpenRows(k) == {i \in Ids : rows[i] # None /\ rows[i].key = k /\ rows[i].open}

FromRow(row) == [id |-> row.id, open |-> row.open, idle |-> row.idle,
                 sev |-> row.sev,
                 seen |-> [r \in Reasons |-> DedupWindow]]

Hydrate ==
  /\ up /\ run = "hydrate"
  /\ run' = "loop" /\ resolver' = TRUE
  /\ \/ \E pick \in [Keys -> Ids \union {0}] :
          /\ \A k \in Keys : IF OpenRows(k) = {} THEN pick[k] = 0
                             ELSE pick[k] \in OpenRows(k)
          /\ entries' = [k \in Keys |-> IF pick[k] = 0 THEN None
                                        ELSE FromRow(rows[pick[k]])]
          /\ UNCHANGED storeFailed
     \/ UNCHANGED entries /\ storeFailed' = TRUE
  /\ UNCHANGED <<up, ctxDone, events, rows, nextId, history>>

Cancel ==
  /\ up /\ ~ctxDone /\ ctxDone' = TRUE
  /\ UNCHANGED <<up, run, resolver, entries, events, store, nextId, history>>

\* Run returns and closes the channel.
Close ==
  /\ up /\ run = "loop" /\ ctxDone /\ run' = "closed"
  /\ UNCHANGED <<up, ctxDone, resolver, entries, events, store, nextId, history>>

StopResolver ==
  /\ up /\ resolver /\ ctxDone /\ resolver' = FALSE
  /\ UNCHANGED <<up, ctxDone, run, entries, events, store, nextId, history>>

Die(open) ==
  /\ up' = FALSE /\ ctxDone' = FALSE /\ run' = "hydrate" /\ resolver' = FALSE
  /\ openAtCrash' = {<<k, entries[k].id>> : k \in open}
  /\ entries' = [k \in Keys |-> None]
  /\ events' = <<>>
  /\ UNCHANGED <<nextId, lastSignal>>

Crash == up /\ run # "hydrate" /\ Die({k \in Keys : IsOpen(k)}) /\ UNCHANGED store

\* The resolver's tick wins over ctx.Done after the channel was closed: the
\* first stale incident is stored as closed, and its send panics.
Panic ==
  /\ up /\ resolver /\ run = "closed"
  /\ \E k \in Keys :
       /\ Stale(k)
       /\ Written(Upserted(k, Closed(k)))
       /\ Die({j \in Keys \ {k} : IsOpen(j)})

Restart ==
  /\ ~up /\ up' = TRUE
  /\ UNCHANGED <<ctxDone, run, resolver, entries, events, store, nextId, history>>

Process(sig) == Open(sig) \/ Reopen(sig) \/ Drop(sig) \/ Update(sig)

Next == \/ \E sig \in Signals : Process(sig)
        \/ ResolveStale \/ Take \/ Tick \/ Hydrate \/ Cancel \/ Close
        \/ StopResolver \/ Crash \/ Panic \/ Restart

Spec == Init /\ [][Next]_vars

\* Time passes, the ticker fires, and the process is started again.
Fairness == /\ WF_vars(Tick) /\ WF_vars(ResolveStale)
            /\ WF_vars(Hydrate) /\ WF_vars(Restart)

FairSpec == Spec /\ Fairness

-----------------------------------------------------------------------------
(* Properties.                                                             *)

Entry == [id : Ids, open : BOOLEAN, idle : 0..ResolveWindow,
          sev : Nat, seen : [Reasons -> 0..DedupWindow]]
RowType == [id : Ids, key : Keys, open : BOOLEAN, idle : 0..ResolveWindow,
            sev : Nat]

\* Every variable has its type; the channel keeps to its capacity.
TypeOK ==
  /\ up \in BOOLEAN /\ ctxDone \in BOOLEAN /\ resolver \in BOOLEAN
  /\ storeFailed \in BOOLEAN
  /\ run \in {"hydrate", "loop", "closed"}
  /\ \A k \in Keys : entries[k] \in Entry \union {None}
  /\ \A i \in Ids : rows[i] \in RowType \union {None}
  /\ events \in Seq([kind : {"opened", "updated", "closed"}, id : Ids])
  /\ Len(events) <= EventBufSize
  /\ nextId \in 1..(MaxIds + 1)
  /\ lastSignal \in [Keys -> 0..ResolveWindow]
  /\ openAtCrash \subseteq Keys \X Ids

\* With a store that works, the table says what the correlator knows: each
\* incident in memory has its row, each open row is in memory, so there is never a
\* second open row for a resource, and an incident that was open when the process
\* died is the same incident after the restart, not a new one.
StoreAgrees ==
  ~storeFailed /\ up /\ run # "hydrate" =>
    /\ \A k \in Keys : Known(k) => rows[entries[k].id] = Row(k, entries[k])
    /\ \A i \in Ids : rows[i] # None /\ rows[i].open
                        => Known(rows[i].key) /\ entries[rows[i].key].id = i
    /\ \A o \in openAtCrash : Known(o[1]) => entries[o[1]].id = o[2]

\* Duplicates do not keep an incident open, so it may be closed while signals
\* still come in; but none came for longer than the windows' difference (for the
\* whole window where no signal counts as a duplicate), unless a failed write
\* made a restart forget the last counted one.
ClosedWhenQuiet ==
  [][\A k \in Keys : ~storeFailed /\ IsOpen(k) /\ up' /\ ~IsOpen(k)'
       => \/ lastSignal[k] > ResolveWindow - DedupWindow
          \/ lastSignal[k] = ResolveWindow]_vars

\* An incident whose signals stop is closed in the end, across restarts.
QuietIncidentsClose ==
  \A k \in Keys :
    <>[][\A sig \in Signals : sig.key = k => ~Process(sig)]_vars
      /\ <>[](up /\ ~ctxDone)
      => <>[]~IsOpen(k)

-----------------------------------------------------------------------------
(* What a comment of the code says of it.                                  *)

\* correlator.go, Run: the resolver runs until the context is cancelled, and
\* the events channel is closed on exit.
NeverPanics == [][~Panic]_vars
=============================================================================
