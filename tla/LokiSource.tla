----------------------------- MODULE LokiSource -----------------------------
(***************************************************************************)
(* The Loki pollers (ingestor/loki.go) and their replacement while they    *)
(* run (Ingestor.ReloadLoki).  Each poller asks, once an interval, for the *)
(* lines since it asked last, and turns them into signals; a reload        *)
(* cancels the poller and starts another without waiting for the old one.  *)
(*                                                                         *)
(* A log line is its time, namespace, app and the patterns it matches.     *)
(* Loki answers for the half-open window, with its newest Limit lines.     *)
(***************************************************************************)
EXTENDS SignalChannel, FiniteSetsExt

CONSTANTS
  LineKinds,    \* namespace, app and matched patterns of the lines logged
  Intervals,    \* poll intervals that may be configured
  Limit,        \* Loki's limit parameter
  MaxPollers,   \* bound on the pollers ever started
  MaxInstants,  \* bound on the instants in which something is logged
  MaxTime

ASSUME LokiSourceAssumption ==
  /\ Intervals \subseteq Nat \ {0} /\ \E longest \in Intervals : \A i \in Intervals : longest >= i
  /\ {Limit, MaxInstants, MaxTime} \subseteq Nat /\ MaxPollers \in Nat \ {0}
  /\ \A k \in LineKinds : DOMAIN k = {"ns", "app", "patterns"} /\ k.patterns \subseteq Nat

Pollers == 1..MaxPollers
Nobody  == 0
Times   == (-Max(Intervals))..MaxTime

VARIABLES
  installed,  \* there is a Loki to poll
  now,
  lines,      \* what Loki has stored
  current,    \* Ingestor.loki: the poller in charge, or Nobody
  started,    \* number of pollers started
  step,       \* each poller: "unborn", "waiting", "asking", "emitting", "gone"
  poller,     \* every, lastSeen, from (of the request), due (tick), cancelled
  batch,      \* signals extracted and not yet emitted
  answered,   \* history: instants that were answered for
  blind,      \* history: instants whose request failed, or that no poller was to ask for
  lost,       \* history: lines stored too late to be asked for, or cut by Limit
  raised      \* history: namespace and pattern of the signals offered

pollerVars == <<current, started, step, poller, batch>>
lokiHistory == <<answered, blind, lost, raised>>
lokiVars == <<installed, now, lines, pollerVars, lokiHistory>>

Unstarted == [every |-> 0, lastSeen |-> 0, from |-> 0, due |-> 0, cancelled |-> FALSE]

-----------------------------------------------------------------------------
(* Starting and replacing a poller.                                        *)

BugFirstWindowEmpty(every) == now
FirstSeen(every) == now - every

\* The poller started at p: its first window begins one interval ago.
NewPoller(every) ==
  [every |-> every, lastSeen |-> FirstSeen(every), from |-> FirstSeen(every),
   due |-> now + every, cancelled |-> ~live]

\* The poller in charge has polled, on time, and waits for its next tick.
Settled(p) == /\ step[p] = "waiting" /\ now <= poller[p].due
              /\ poller[p].from < poller[p].lastSeen

\* What a reload may leave unasked: nothing, if the old poller was settled and
\* the interval does not shrink.
Skipped(every) ==
  IF current # Nobody /\ Settled(current) /\ every >= poller[current].every
  THEN {} ELSE {t \in Times : t < now - every}

OldCancelled == [p \in Pollers |-> IF p = current THEN [poller[p] EXCEPT !.cancelled = TRUE]
                                   ELSE poller[p]]

ReloadLoki(every) ==
  /\ installed /\ started < MaxPollers /\ started' = started + 1
  /\ current' = started'
  /\ step' = [step EXCEPT ![started'] = "waiting"]
  /\ poller' = [OldCancelled EXCEPT ![started'] = NewPoller(every)]
  /\ blind' = blind \union Skipped(every)
  /\ UNCHANGED <<channelVars, installed, now, lines, batch, answered, lost, raised>>

\* Start with an address configured, or without one.
LokiInit ==
  /\ now = 0 /\ lines = {} /\ lost = {} /\ raised = {}
  /\ answered = {}
  /\ batch = [p \in Pollers |-> {}] /\ installed \in BOOLEAN
  /\ \/ /\ current = Nobody /\ started = 0 /\ blind = {}
        /\ step = [p \in Pollers |-> "unborn"]
        /\ poller = [p \in Pollers |-> Unstarted]
     \/ \E every \in Intervals :
          /\ installed /\ current = 1 /\ started = 1
          /\ blind = {t \in Times : t < FirstSeen(every)}
          /\ step = [p \in Pollers |-> IF p = 1 THEN "waiting" ELSE "unborn"]
          /\ poller = [p \in Pollers |-> IF p = 1 THEN NewPoller(every) ELSE Unstarted]

-----------------------------------------------------------------------------
(* One poll.                                                               *)

Goes(p, from, to) == step[p] = from /\ step' = [step EXCEPT ![p] = to]

Window(p) == poller[p].from..(poller[p].lastSeen - 1)

\* The window moves on before the answer is known.  A late tick is taken at once
\* and the ticks missed meanwhile are dropped.
Poll(p) ==
  /\ now >= poller[p].due
  /\ Goes(p, "waiting", "asking")
  /\ poller' = [poller EXCEPT
       ![p].from = poller[p].lastSeen, ![p].lastSeen = now,
       ![p].due = @ + poller[p].every * ((now - @) \div poller[p].every + 1)]
  /\ UNCHANGED <<channelVars, installed, now, lines, current, started, batch, lokiHistory>>

\* A request of a cancelled poller cannot succeed.
PollError(p) ==
  /\ Goes(p, "asking", "waiting")
  /\ blind' = blind \union Window(p)
  /\ UNCHANGED <<channelVars, installed, now, lines, current, started, poller, batch, answered,
                 lost, raised>>

\* The first pattern that matches a line decides.
Pattern(l) == Min(l.patterns)

BugByPattern(l, m) == Pattern(l) = Pattern(m)
SameDedupeKey(l, m) == l.ns = m.ns /\ Pattern(l) = Pattern(m)

Matching(ls) == {l \in ls : l.patterns # {}}

\* extractSignals keeps one line of each namespace and pattern, the first one.
Extractions(ls) ==
  {kept \in SUBSET Matching(ls) :
     /\ \A l, m \in kept : SameDedupeKey(l, m) => l = m
     /\ \A l \in Matching(ls) : \E m \in kept : SameDedupeKey(l, m)}

LogSignal(l) == [source |-> "loki-log", key |-> <<l.ns, l.app>>, reason |-> Pattern(l)]

Answer(p) ==
  /\ ~poller[p].cancelled
  /\ LET asked == {l \in lines : l.at \in Window(p)} IN
     \E sent \in SUBSET asked :
       /\ Cardinality(sent) = Min({Limit, Cardinality(asked)})
       /\ \A l \in sent, m \in asked \ sent : l.at >= m.at
       /\ \E kept \in Extractions(sent) :
            /\ Goes(p, "asking", IF kept = {} THEN "waiting" ELSE "emitting")
            /\ batch' = [batch EXCEPT ![p] = {LogSignal(l) : l \in kept}]
       /\ lost' = lost \union (asked \ sent)
  /\ answered' = answered \union Window(p)
  /\ UNCHANGED <<channelVars, installed, now, lines, current, started, poller, blind,
                 raised>>

EmitLog(p) ==
  \E s \in batch[p] :
    /\ TrySend(s)
    /\ raised' = raised \union {<<s.key[1], s.reason>>}
    /\ batch' = [batch EXCEPT ![p] = @ \ {s}]
    /\ Goes(p, "emitting", IF batch[p] = {s} THEN "waiting" ELSE "emitting")
    /\ UNCHANGED <<live, installed, now, lines, current, started, poller, answered, blind,
                   lost>>

\* The select takes ctx.Done, or its ticker when both are ready.
StopPolling(p) ==
  /\ poller[p].cancelled /\ Goes(p, "waiting", "gone")
  /\ UNCHANGED <<channelVars, installed, now, lines, current, started, poller, batch, lokiHistory>>

PollerStep(p) == Poll(p) \/ PollError(p) \/ Answer(p) \/ EmitLog(p)

-----------------------------------------------------------------------------
(* The rest of the world.                                                  *)

\* Lines reach Loki in the instant they are logged, or in the next one.
Log ==
  \E kinds \in (SUBSET LineKinds) \ {{}}, at \in {now - 1, now} :
    LET new == {[at |-> at, ns |-> k.ns, app |-> k.app, patterns |-> k.patterns] : k \in kinds} IN
    /\ installed /\ at \in Times
    /\ Cardinality({l.at : l \in lines}) < MaxInstants /\ \A l \in lines : l.at # at
    /\ lines' = lines \union new
    /\ lost' = IF at \in answered THEN lost \union new ELSE lost
    /\ UNCHANGED <<channelVars, installed, now, pollerVars, answered, blind, raised>>

Tick ==
  /\ installed /\ now < MaxTime /\ now' = now + 1
  /\ UNCHANGED <<channelVars, installed, lines, pollerVars, lokiHistory>>

LokiNext ==
  \/ \E every \in Intervals : ReloadLoki(every)
  \/ \E p \in Pollers : PollerStep(p) \/ StopPolling(p)
  \/ Log \/ Tick

-----------------------------------------------------------------------------
(* Properties.                                                             *)

\* Every instant before the end of the current poller's last window was asked
\* about: it was answered for, or its request failed or is in flight, or it lies
\* before a poller's first window (Skipped says when a reload may leave it so).
WindowsTile ==
  current # Nobody =>
    \A t \in Times : t < poller[current].lastSeen =>
      \/ t \in answered \union blind
      \/ step[current] = "asking" /\ t \in Window(current)

\* A failure mode that a namespace logged in an answered instant was offered to
\* the correlator, whichever app it came from, unless the line was lost.
ModesRaised ==
  \A l \in Matching(lines \ lost) : l.at \in answered =>
    \/ <<l.ns, Pattern(l)>> \in raised
    \/ \E p \in Pollers : \E s \in batch[p] : s.key[1] = l.ns /\ s.reason = Pattern(l)
=============================================================================
