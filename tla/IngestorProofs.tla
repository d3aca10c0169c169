--------------------------- MODULE IngestorProofs ---------------------------
(***************************************************************************)
(* Theorems about the ingestor, for every number of pollers, set of poll   *)
(* intervals, limit of an answer and set of log lines, and for every       *)
(* cluster and every load of the webhook.                                  *)
(***************************************************************************)
EXTENDS Ingestor, SequenceTheorems, TLAPS

IsSeq(s) == \E T : s \in Seq(T)

LokiSteps == {"unborn", "waiting", "asking", "emitting", "gone"}
Poller == [every : Nat, lastSeen : Times, from : Times, due : Nat, cancelled : BOOLEAN]

ChannelTypes == IsSeq(signals) /\ Len(signals) <= SignalBufSize /\ live \in BOOLEAN

LokiTypes ==
  /\ installed \in BOOLEAN /\ now \in 0..MaxTime
  /\ started \in 0..MaxPollers /\ current \in 0..started
  /\ step \in [Pollers -> LokiSteps] /\ poller \in [Pollers -> Poller]
  /\ batch = [p \in Pollers |-> batch[p]]
  /\ \A p \in Pollers : step[p] = "emitting" <=> batch[p] # {}
  /\ answered \union blind \subseteq Times /\ lost \subseteq lines

K8sTypes ==
  /\ object = [i \in Informers |-> object[i]] /\ notices = [i \in Informers |-> notices[i]]
  /\ \A i \in Informers :
       /\ object[i] \in {Absent} \union Objects[i]
       /\ IsSeq(notices[i]) /\ Len(notices[i]) <= MaxNotices

HookTypes ==
  /\ alerts = [r \in Requests |-> alerts[r]] /\ posts \in 0..MaxPosts
  /\ \A r \in Requests : IsSeq(alerts[r]) /\ Len(alerts[r]) <= 2

\* Pollers are started in their order, and one that has polled is next due within an
\* interval of where its window ended.
Paced ==
  \A p \in Pollers :
    /\ p > started => step[p] = "unborn"
    /\ step[p] # "unborn" => poller[p].every > 0
    /\ poller[p].from < poller[p].lastSeen => poller[p].due <= poller[p].lastSeen + poller[p].every

LokiInv == LokiTypes /\ Paced /\ WindowsTile /\ ModesRaised

IInv == ChannelTypes /\ LokiInv /\ K8sTypes /\ HookTypes

-----------------------------------------------------------------------------
(* Sequences of whatever.                                                  *)

LEMMA SeqSteps ==
  ASSUME NEW s, IsSeq(s)
  PROVE  /\ Len(s) \in Nat
         /\ \A x : IsSeq(Append(s, x)) /\ Len(Append(s, x)) = Len(s) + 1
         /\ s # <<>> => IsSeq(Tail(s)) /\ Len(Tail(s)) = Len(s) - 1
<1> PICK T : s \in Seq(T)
  BY DEF IsSeq
<1>1. ASSUME NEW x PROVE IsSeq(Append(s, x)) /\ Len(Append(s, x)) = Len(s) + 1
  <2> DEFINE U == T \union {x}
  <2>1. s \in Seq(U) /\ x \in U
    BY SeqMonotonic
  <2> HIDE DEF U
  <2>2. Append(s, x) \in Seq(U) /\ Len(Append(s, x)) = Len(s) + 1
    BY <2>1
  <2> QED  BY <2>2 DEF IsSeq
<1>2. ASSUME s # <<>> PROVE IsSeq(Tail(s)) /\ Len(Tail(s)) = Len(s) - 1
  <2>1. Tail(s) \in Seq(T) /\ Len(Tail(s)) = Len(s) - 1
    BY <1>2
  <2> QED  BY <2>1 DEF IsSeq
<1> QED  BY <1>1, <1>2

LEMMA SeqPairs ==
  ASSUME NEW a, NEW b, NEW n \in 1..2
  PROVE  IsSeq(SubSeq(<<a, b>>, 1, n)) /\ Len(SubSeq(<<a, b>>, 1, n)) <= 2
<1> DEFINE T == {a, b}
           s == <<a, b>>
<1>1. s \in Seq(T) /\ Len(s) = 2 /\ \A i \in 1..n : s[i] \in T
  OBVIOUS
<1> HIDE DEF s, T
<1>2. SubSeq(s, 1, n) \in Seq(T) /\ Len(SubSeq(s, 1, n)) = IF 1 <= n THEN n - 1 + 1 ELSE 0
  BY <1>1, SubSeqProperties
<1>3. IsSeq(SubSeq(s, 1, n)) /\ Len(SubSeq(s, 1, n)) <= 2
  BY <1>2 DEF IsSeq
<1> QED  BY <1>3 DEF s

-----------------------------------------------------------------------------
(* The channel, the watcher and the webhook.                               *)

LEMMA ChannelSteps ==
  ASSUME ChannelTypes, UNCHANGED live
  PROVE  /\ \A s : Send(s) \/ TrySend(s) => ChannelTypes'
         /\ Take => ChannelTypes'
         /\ UNCHANGED signals => ChannelTypes'
<1>1. IsSeq(signals) /\ Len(signals) <= SignalBufSize /\ live \in BOOLEAN /\ SignalBufSize \in Nat
  BY SignalChannelAssumption DEF ChannelTypes
<1>2. UNCHANGED signals => ChannelTypes'
  BY <1>1 DEF ChannelTypes, IsSeq
<1>3. ASSUME NEW s, Send(s) \/ TrySend(s) PROVE ChannelTypes'
  <2>1. IsSeq(Append(signals, s)) /\ Len(Append(signals, s)) = Len(signals) + 1 /\ Len(signals) \in Nat
    BY <1>1, SeqSteps
  <2>2. CASE signals' = Append(signals, s) /\ Room
    <3>1. IsSeq(signals')
      BY <2>1, <2>2
    <3> QED  BY <1>1, <2>1, <2>2, <3>1 DEF ChannelTypes, IsSeq, Room
  <2> QED  BY <1>2, <1>3, <2>2 DEF Send, TrySend
<1>4. ASSUME Take PROVE ChannelTypes'
  <2>1. IsSeq(Tail(signals)) /\ Len(Tail(signals)) = Len(signals) - 1 /\ Len(signals) \in Nat
    BY <1>1, <1>4, SeqSteps DEF Take
  <2>2. signals' = Tail(signals)
    BY <1>4 DEF Take
  <2>3. IsSeq(signals')
    BY <2>1, <2>2
  <2> QED  BY <1>1, <2>1, <2>2, <2>3 DEF ChannelTypes, IsSeq
<1> QED  BY <1>2, <1>3, <1>4

LEMMA K8sSteps ==
  ASSUME ChannelTypes, K8sTypes, K8sNext
  PROVE  ChannelTypes' /\ K8sTypes'
<1> PICK i \in Informers : Change(i) \/ Resync(i) \/ Handle(i) \/ EmitObject(i)
  BY DEF K8sNext
<1>0. /\ object = [j \in Informers |-> object[j]] /\ notices = [j \in Informers |-> notices[j]]
      /\ \A j \in Informers :
           /\ object[j] \in {Absent} \union Objects[j]
           /\ IsSeq(notices[j]) /\ Len(notices[j]) <= MaxNotices
  BY DEF K8sTypes
<1>1. UNCHANGED live
  BY DEF Change, Resync, Handle, EmitObject, channelVars
<1>2. ChannelTypes'
  BY <1>1, ChannelSteps DEF Change, Resync, Handle, EmitObject, channelVars
<1>3. MaxNotices \in Nat /\ MaxNotices >= 1 /\ Len(notices[i]) \in Nat
  BY <1>0, K8sWatcherAssumption, SeqSteps
<1>4. ASSUME NEW q, IsSeq(q), Len(q) <= MaxNotices, notices' = [notices EXCEPT ![i] = q],
             NEW o, o \in {Absent} \union Objects[i],
             object' = [object EXCEPT ![i] = o] \/ UNCHANGED object
      PROVE  K8sTypes'
  <2>1. /\ notices' = [j \in Informers |-> notices'[j]] /\ notices'[i] = q
        /\ \A j \in Informers \ {i} : notices'[j] = notices[j]
    BY <1>0, <1>4
  <2>2. /\ object' = [j \in Informers |-> object'[j]]
        /\ \A j \in Informers : object'[j] \in {Absent} \union Objects[j]
    BY <1>0, <1>4
  <2>3. \A j \in Informers : IsSeq(notices'[j]) /\ Len(notices'[j]) <= MaxNotices
    BY <1>0, <1>4, <2>1
  <2> QED  BY <2>1, <2>2, <2>3 DEF K8sTypes, IsSeq
<1>5. CASE Change(i)
  <2>1. PICK o \in Objects[i] : object' = [object EXCEPT ![i] = o]
    BY <1>5 DEF Change
  <2>2. notices' = [notices EXCEPT ![i] = Append(notices[i], object'[i])]
    BY <1>5 DEF Change, Queued
  <2>3. IsSeq(Append(notices[i], object'[i])) /\ Len(Append(notices[i], object'[i])) <= MaxNotices
    BY <1>0, <1>3, <1>5, SeqSteps DEF Change
  <2> QED  BY <1>2, <1>4, <2>1, <2>2, <2>3
<1>6. CASE Resync(i)
  <2>1. notices' = [notices EXCEPT ![i] = Append(notices[i], object'[i])] /\ object' = object
    BY <1>6 DEF Resync, Queued
  <2>2. IsSeq(Append(notices[i], object'[i])) /\ Len(Append(notices[i], object'[i])) <= MaxNotices
    <3>1. Len(notices[i]) = 0
      BY <1>6 DEF Resync
    <3>2. /\ IsSeq(Append(notices[i], object'[i]))
          /\ Len(Append(notices[i], object'[i])) = Len(notices[i]) + 1
      BY <1>0, SeqSteps
    <3> QED  BY <1>3, <3>1, <3>2
  <2> QED  BY <1>0, <1>2, <1>4, <2>1, <2>2
<1>7. CASE Handle(i)
  <2>1. notices' = [notices EXCEPT ![i] = Tail(notices[i])] /\ object' = object
    BY <1>7 DEF Handle
  <2>2. IsSeq(Tail(notices[i])) /\ Len(Tail(notices[i])) <= MaxNotices
    BY <1>0, <1>3, <1>7, SeqSteps DEF Handle
  <2> QED  BY <1>0, <1>2, <1>4, <2>1, <2>2
<1>8. CASE EmitObject(i)
  BY <1>0, <1>2, <1>8 DEF EmitObject, K8sTypes, IsSeq
<1> QED  BY <1>2, <1>5, <1>6, <1>7, <1>8

LEMMA HookSteps ==
  ASSUME ChannelTypes, HookTypes, HookNext
  PROVE  ChannelTypes' /\ HookTypes'
<1> PICK r \in Requests : Post(r) \/ EmitAlert(r)
  BY DEF HookNext
<1>0. /\ alerts = [q \in Requests |-> alerts[q]] /\ posts \in 0..MaxPosts /\ MaxPosts \in Nat
      /\ \A q \in Requests : IsSeq(alerts[q]) /\ Len(alerts[q]) <= 2
  BY AlertWebhookAssumption DEF HookTypes
<1>1. UNCHANGED live
  BY DEF Post, EmitAlert, channelVars
<1>2. ChannelTypes'
  BY <1>1, ChannelSteps DEF Post, EmitAlert, Offer, channelVars
<1>3. ASSUME NEW q, IsSeq(q), Len(q) <= 2, alerts' = [alerts EXCEPT ![r] = q],
             posts' \in 0..MaxPosts
      PROVE  HookTypes'
  <2>1. /\ alerts' = [j \in Requests |-> alerts'[j]] /\ alerts'[r] = q
        /\ \A j \in Requests \ {r} : alerts'[j] = alerts[j]
    BY <1>0, <1>3
  <2>2. \A j \in Requests : IsSeq(alerts'[j]) /\ Len(alerts'[j]) <= 2
    BY <1>0, <1>3, <2>1
  <2> QED  BY <1>3, <2>1, <2>2 DEF HookTypes, IsSeq
<1>4. CASE Post(r)
  <2>1. PICK a \in Alerts, b \in Alerts, n \in 1..2 :
               alerts' = [alerts EXCEPT ![r] = SubSeq(<<a, b>>, 1, n)]
    BY <1>4 DEF Post
  <2>2. posts' \in 0..MaxPosts
    BY <1>0, <1>4 DEF Post
  <2>3. IsSeq(SubSeq(<<a, b>>, 1, n)) /\ Len(SubSeq(<<a, b>>, 1, n)) <= 2
    BY SeqPairs
  <2> QED  BY <1>2, <1>3, <2>1, <2>2, <2>3
<1>5. CASE EmitAlert(r)
  <2>1. alerts' = [alerts EXCEPT ![r] = Tail(alerts[r])] /\ posts' = posts
    BY <1>5 DEF EmitAlert
  <2>2. IsSeq(Tail(alerts[r])) /\ Len(Tail(alerts[r])) <= 2
    <3>1. IsSeq(alerts[r]) /\ Len(alerts[r]) <= 2 /\ alerts[r] # <<>>
      BY <1>0, <1>5 DEF EmitAlert
    <3> QED  BY <3>1, SeqSteps
  <2> QED  BY <1>0, <1>2, <1>3, <2>1, <2>2
<1> QED  BY <1>2, <1>4, <1>5

-----------------------------------------------------------------------------
(* The pollers of Loki.                                                    *)

LEMMA LokiNumbers ==
  /\ MaxPollers \in Nat /\ 1 \in Pollers /\ MaxTime \in Nat /\ Intervals \subseteq Nat \ {0}
  /\ Max(Intervals) \in Nat /\ \A every \in Intervals : every <= Max(Intervals)
  /\ \A t : t \in Times <=> t \in Int /\ -Max(Intervals) <= t /\ t <= MaxTime
<1>1. \E x \in Intervals : \A y \in Intervals : x >= y
  BY LokiSourceAssumption
<1>2. Max(Intervals) \in Intervals /\ \A y \in Intervals : Max(Intervals) >= y
  BY <1>1 DEF Max
<1> DEFINE m == Max(Intervals)
<1>3. m \in Nat /\ MaxTime \in Nat /\ \A every \in Intervals : every <= m
  BY <1>2, LokiSourceAssumption
<1>4. Times = (-m)..MaxTime
  BY DEF Times
<1> HIDE DEF m
<1>5. \A t : t \in Times <=> t \in Int /\ -m <= t /\ t <= MaxTime
  BY <1>3, <1>4
<1> QED  BY <1>3, <1>5, LokiSourceAssumption DEF m, Pollers

LEMMA WindowIs ==
  ASSUME LokiTypes, NEW p \in Pollers
  PROVE  /\ Window(p) \subseteq Times
         /\ \A t \in Times : t \in Window(p) <=> poller[p].from <= t /\ t < poller[p].lastSeen
<1>1. poller[p].from \in Times /\ poller[p].lastSeen \in Times
  BY DEF LokiTypes, Poller
<1> QED  BY <1>1, LokiNumbers DEF Window

\* The tick after those missed is no more than an interval away.
LEMMA NextTick ==
  ASSUME NEW e \in Nat \ {0}, NEW n \in Nat
  PROVE  e * (n \div e + 1) \in Nat /\ e * (n \div e + 1) <= n + e
<1>1. e * (n \div e) <= n
  BY Z3T(30)
<1>2. n \div e \in Nat
  <2>1. n \div e \in Int
    OBVIOUS
  <2>2. n \div e >= 0
    OBVIOUS
  <2> QED  BY <2>1, <2>2
<1>3. e * (n \div e + 1) = e * (n \div e) + e /\ e * (n \div e) \in Nat
  BY <1>2
<1> DEFINE q == e * (n \div e)
<1>4. q \in Nat /\ q <= n /\ e * (n \div e + 1) = q + e
  BY <1>1, <1>3
<1> HIDE DEF q
<1> QED  BY <1>4

LEMMA InitLoki == Init => LokiInv
<1> SUFFICES ASSUME Init PROVE LokiInv
  OBVIOUS
<1>1. 0 \in Times /\ 0 \in 0..MaxTime /\ 0 \in 0..MaxPollers
  BY LokiNumbers
<1>2. Unstarted \in Poller /\ Unstarted.from = 0 /\ Unstarted.lastSeen = 0
  BY <1>1 DEF Unstarted, Poller
<1>3. \A every \in Intervals :
        /\ NewPoller(every) \in Poller
        /\ NewPoller(every).every > 0 /\ NewPoller(every).from = NewPoller(every).lastSeen
        /\ NewPoller(every).lastSeen = 0 - every
  BY <1>1, LokiNumbers DEF Init, LokiInit, NewPoller, FirstSeen, Poller
<1>4. /\ now = 0 /\ lines = {} /\ lost = {} /\ answered = {} /\ installed \in BOOLEAN
      /\ batch = [p \in Pollers |-> {}]
  BY DEF Init, LokiInit
<1>5. CASE /\ current = Nobody /\ started = 0 /\ blind = {}
           /\ step = [p \in Pollers |-> "unborn"]
           /\ poller = [p \in Pollers |-> Unstarted]
  <2>1. LokiTypes
    BY <1>1, <1>2, <1>4, <1>5 DEF LokiTypes, LokiSteps, Nobody
  <2>2. Paced
    BY <1>2, <1>5 DEF Paced
  <2> QED  BY <1>4, <1>5, <2>1, <2>2 DEF LokiInv, WindowsTile, ModesRaised, Matching, Nobody
<1>6. ASSUME NEW every \in Intervals, current = 1, started = 1,
             blind = {t \in Times : t < FirstSeen(every)},
             step = [p \in Pollers |-> IF p = 1 THEN "waiting" ELSE "unborn"],
             poller = [p \in Pollers |-> IF p = 1 THEN NewPoller(every) ELSE Unstarted]
      PROVE  LokiInv
  <2>1. LokiTypes
    <3>1. poller \in [Pollers -> Poller]
      BY <1>2, <1>3, <1>6
    <3>2. step \in [Pollers -> LokiSteps] /\ \A p \in Pollers : step[p] # "emitting"
      BY <1>6 DEF LokiSteps
    <3>3. blind \subseteq Times /\ started \in 0..MaxPollers /\ current \in 0..started
      BY <1>6, LokiNumbers DEF Pollers
    <3> QED  BY <1>1, <1>4, <1>6, <3>1, <3>2, <3>3 DEF LokiTypes
  <2>2. Paced
    <3> SUFFICES ASSUME NEW p \in Pollers
                 PROVE  /\ p > started => step[p] = "unborn"
                        /\ step[p] # "unborn" => poller[p].every > 0
                        /\ ~(poller[p].from < poller[p].lastSeen)
      BY DEF Paced
    <3>1. CASE p = 1
      <4>1. poller[p] = NewPoller(every) /\ ~(p > started)
        BY <1>6, <3>1
      <4>2. poller[p].from = poller[p].lastSeen /\ poller[p].lastSeen \in Int
        BY <1>3, <4>1, LokiNumbers
      <4> QED  BY <1>3, <4>1, <4>2
    <3>2. CASE p # 1
      <4>1. poller[p] = Unstarted /\ step[p] = "unborn"
        BY <1>6, <3>2
      <4> QED  BY <1>2, <4>1
    <3> QED  BY <3>1, <3>2
  <2>3. WindowsTile
    <3>1. poller[current] = NewPoller(every) /\ FirstSeen(every) = NewPoller(every).lastSeen
      BY <1>6, LokiNumbers DEF NewPoller
    <3> QED  BY <1>6, <3>1 DEF WindowsTile
  <2> QED  BY <1>4, <2>1, <2>2, <2>3 DEF LokiInv, ModesRaised, Matching
<1> QED  BY <1>5, <1>6 DEF Init, LokiInit

\* A step of one poller, which leaves the others as they are.
Moves(p, q, to, signalled) ==
  /\ poller' = [poller EXCEPT ![p] = q] /\ step' = [step EXCEPT ![p] = to]
  /\ batch' = [batch EXCEPT ![p] = signalled]
  /\ UNCHANGED <<installed, now, lines, current, started>>
  /\ (answered \union blind)' \subseteq Times /\ lost' \subseteq lines
  /\ q \in Poller /\ q.every = poller[p].every
  /\ q.from < q.lastSeen => q.due <= q.lastSeen + q.every
  /\ to \in LokiSteps \ {"unborn"} /\ step[p] # "unborn"
  /\ to = "emitting" <=> signalled # {}

LEMMA PollerMoves ==
  ASSUME LokiTypes, Paced, NEW p \in Pollers, NEW q, NEW to, NEW signalled,
         Moves(p, q, to, signalled)
  PROVE  /\ LokiTypes' /\ Paced'
         /\ poller'[p] = q /\ step'[p] = to /\ batch'[p] = signalled
         /\ \A r \in Pollers \ {p} :
              poller'[r] = poller[r] /\ step'[r] = step[r] /\ batch'[r] = batch[r]
<1> USE DEF Moves
<1>0. /\ step \in [Pollers -> LokiSteps] /\ poller \in [Pollers -> Poller]
      /\ batch = [r \in Pollers |-> batch[r]]
  BY DEF LokiTypes
<1>1. /\ poller'[p] = q /\ step'[p] = to /\ batch'[p] = signalled
      /\ \A r \in Pollers \ {p} :
           poller'[r] = poller[r] /\ step'[r] = step[r] /\ batch'[r] = batch[r]
      /\ poller' \in [Pollers -> Poller] /\ step' \in [Pollers -> LokiSteps]
      /\ batch' = [r \in Pollers |-> batch'[r]]
  BY <1>0
<1>2. \A r \in Pollers : step'[r] = "emitting" <=> batch'[r] # {}
  BY <1>1 DEF LokiTypes
<1>3. LokiTypes'
  BY <1>1, <1>2 DEF LokiTypes
<1>4. Paced'
  BY <1>1 DEF Paced
<1> QED  BY <1>1, <1>3, <1>4

LEMMA PollStep ==
  ASSUME LokiInv, NEW p \in Pollers, Poll(p)
  PROVE  LokiInv'
<1>0. /\ LokiTypes /\ Paced /\ step \in [Pollers -> LokiSteps] /\ poller \in [Pollers -> Poller]
      /\ poller[p] \in Poller /\ now \in Times /\ now \in Nat
      /\ batch = [r \in Pollers |-> batch[r]]
  BY LokiNumbers DEF LokiInv, LokiTypes
<1>1. /\ now >= poller[p].due /\ step[p] = "waiting" /\ step' = [step EXCEPT ![p] = "asking"]
      /\ UNCHANGED <<installed, now, lines, current, started, batch, answered, blind, lost, raised>>
  BY DEF Poll, Goes, lokiHistory
<1> DEFINE e == poller[p].every
           late == now - poller[p].due
           due == poller[p].due + e * (late \div e + 1)
           q == [poller[p] EXCEPT !.from = poller[p].lastSeen, !.lastSeen = now, !.due = due]
<1>2. e \in Nat \ {0} /\ late \in Nat /\ poller[p].due \in Nat
  BY <1>0, <1>1 DEF Paced, Poller
<1>3. due \in Nat /\ due <= now + e
  <2>1. e * (late \div e + 1) \in Nat /\ e * (late \div e + 1) <= late + e
    <3> HIDE DEF e, late
    <3> QED  BY <1>2, NextTick
  <2> DEFINE more == e * (late \div e + 1)
  <2> HIDE DEF more, e
  <2>2. more \in Nat /\ more <= late + e
    BY <2>1 DEF more, e
  <2>3. poller[p].due + more \in Nat /\ poller[p].due + more <= now + e
    BY <1>0, <1>2, <2>2
  <2> QED  BY <2>3 DEF more, e
<1>4. poller' = [poller EXCEPT ![p] = q]
  BY <1>0 DEF Poll, Poller
<1> HIDE DEF due
<1>5. /\ q \in Poller /\ q.every = poller[p].every /\ q.due = due /\ q.lastSeen = now
      /\ q.from = poller[p].lastSeen
  BY <1>0, <1>3 DEF Poller
<1> HIDE DEF q
<1>6. batch' = [batch EXCEPT ![p] = {}] /\ batch[p] = {}
  <2>1. batch[p] = {}
    BY <1>0, <1>1 DEF LokiTypes
  <2> QED  BY <1>0, <1>1, <2>1
<1>7. /\ LokiTypes' /\ Paced'
      /\ poller'[p] = q /\ step'[p] = "asking"
      /\ \A r \in Pollers \ {p} : poller'[r] = poller[r] /\ step'[r] = step[r]
  <2>1. (answered \union blind)' \subseteq Times /\ lost' \subseteq lines
    BY <1>0, <1>1 DEF LokiTypes
  <2>2. "asking" \in LokiSteps /\ "asking" # "unborn" /\ step[p] # "unborn"
    BY <1>1 DEF LokiSteps
  <2>3. q.from < q.lastSeen => q.due <= q.lastSeen + q.every
    BY <1>3, <1>5
  <2>4. "asking" = "emitting" <=> {} # {}
    OBVIOUS
  <2>5. UNCHANGED <<installed, now, lines, current, started>>
    BY <1>1
  <2>6. Moves(p, q, "asking", {})
    BY <1>1, <1>4, <1>5, <1>6, <2>1, <2>2, <2>3, <2>4, <2>5 DEF Moves
  <2>7. /\ LokiTypes' /\ Paced'
        /\ poller'[p] = q /\ step'[p] = "asking" /\ batch'[p] = {}
        /\ \A r \in Pollers \ {p} :
             poller'[r] = poller[r] /\ step'[r] = step[r] /\ batch'[r] = batch[r]
    BY <1>0, <2>6, PollerMoves
  <2> QED  BY <2>7
<1>8. WindowsTile'
  <2>1. CASE current = p
    <3>1. \A t \in Times : t < poller[p].lastSeen => t \in answered \union blind
      BY <1>1, <2>1, LokiNumbers DEF LokiInv, WindowsTile, Nobody, Pollers
    <3>2. Window(p)' = poller[p].lastSeen..(now - 1)
      BY <1>1, <1>5, <1>7 DEF Window
    <3>3. ASSUME NEW t \in Times, t < now PROVE t \in answered \union blind \/ t \in Window(p)'
      <4>1. t \in Int /\ poller[p].lastSeen \in Int /\ now \in Int
        BY <1>0, LokiNumbers DEF Poller
      <4> QED  BY <3>1, <3>2, <3>3, <4>1
    <3> QED  BY <1>1, <1>5, <1>7, <2>1, <3>3 DEF WindowsTile, Window
  <2>2. CASE current # p
    <3>1. current # Nobody => current \in Pollers \ {p}
      BY <1>0, <2>2, LokiNumbers DEF LokiTypes, Nobody, Pollers
    <3> QED  BY <1>1, <1>7, <3>1 DEF LokiInv, WindowsTile, Window
  <2> QED  BY <2>1, <2>2
<1>9. ModesRaised'
  BY <1>1 DEF LokiInv, ModesRaised, Matching
<1> QED  BY <1>7, <1>8, <1>9 DEF LokiInv

\* A window is over only when it was answered for or given up.
LEMMA TilesStay ==
  ASSUME WindowsTile, UNCHANGED current,
         (answered \union blind) \subseteq (answered \union blind)',
         current # Nobody =>
           /\ poller'[current].from = poller[current].from
           /\ poller'[current].lastSeen = poller[current].lastSeen
           /\ step[current] = "asking" =>
                step'[current] = "asking" \/ Window(current) \subseteq (answered \union blind)'
  PROVE  WindowsTile'
<1> SUFFICES ASSUME current # Nobody, NEW t \in Times, t < poller[current].lastSeen
             PROVE  \/ t \in (answered \union blind)'
                    \/ step'[current] = "asking" /\ t \in Window(current)'
  BY DEF WindowsTile
<1>1. Window(current)' = Window(current)
  BY DEF Window
<1>2. t \in answered \union blind \/ (step[current] = "asking" /\ t \in Window(current))
  BY DEF WindowsTile
<1> QED  BY <1>1, <1>2

LEMMA PollErrorStep ==
  ASSUME LokiInv, NEW p \in Pollers, PollError(p)
  PROVE  LokiInv'
<1>0. /\ LokiTypes /\ Paced /\ WindowsTile /\ ModesRaised /\ poller[p] \in Poller
      /\ step \in [Pollers -> LokiSteps] /\ poller \in [Pollers -> Poller]
      /\ batch = [r \in Pollers |-> batch[r]] /\ batch[p] = {}
  BY DEF LokiInv, LokiTypes, PollError, Goes
<1>1. /\ step[p] = "asking" /\ step' = [step EXCEPT ![p] = "waiting"]
      /\ blind' = blind \union Window(p)
      /\ UNCHANGED <<installed, now, lines, current, started, poller, batch, answered, lost, raised>>
  BY DEF PollError, Goes
<1>2. Moves(p, poller[p], "waiting", {})
  <2>1. poller' = [poller EXCEPT ![p] = poller[p]] /\ batch' = [batch EXCEPT ![p] = {}]
    BY <1>0, <1>1
  <2>2. (answered \union blind)' \subseteq Times /\ lost' \subseteq lines
    BY <1>0, <1>1, WindowIs DEF LokiTypes
  <2>3. poller[p].from < poller[p].lastSeen => poller[p].due <= poller[p].lastSeen + poller[p].every
    BY <1>0 DEF Paced
  <2> QED  BY <1>0, <1>1, <2>1, <2>2, <2>3 DEF Moves, LokiSteps
<1>3. /\ LokiTypes' /\ Paced'
      /\ \A r \in Pollers \ {p} : step'[r] = step[r]
  BY <1>0, <1>2, PollerMoves
<1>4. WindowsTile'
  <2>1. current # Nobody => current \in Pollers
    BY <1>0, LokiNumbers DEF LokiTypes, Nobody, Pollers
  <2>2. current # Nobody /\ step[current] = "asking" =>
          step'[current] = "asking" \/ Window(current) \subseteq (answered \union blind)'
    BY <1>1, <1>3, <2>1
  <2> QED  BY <1>0, <1>1, <2>2, TilesStay
<1>5. ModesRaised'
  BY <1>0, <1>1 DEF ModesRaised, Matching
<1> QED  BY <1>3, <1>4, <1>5 DEF LokiInv

LEMMA AnswerStep ==
  ASSUME LokiInv, NEW p \in Pollers, Answer(p)
  PROVE  LokiInv'
<1> DEFINE asked == {l \in lines : l.at \in Window(p)}
<1>0a. PICK sent \in SUBSET asked :
             /\ \E kept \in Extractions(sent) :
                  /\ Goes(p, "asking", IF kept = {} THEN "waiting" ELSE "emitting")
                  /\ batch' = [batch EXCEPT ![p] = {LogSignal(l) : l \in kept}]
             /\ lost' = lost \union (asked \ sent)
  BY DEF Answer
<1>1. PICK kept \in Extractions(sent) :
             /\ Goes(p, "asking", IF kept = {} THEN "waiting" ELSE "emitting")
             /\ batch' = [batch EXCEPT ![p] = {LogSignal(l) : l \in kept}]
             /\ lost' = lost \union (asked \ sent)
  BY <1>0a
<1>2. /\ answered' = answered \union Window(p)
      /\ UNCHANGED <<installed, now, lines, current, started, poller, blind, raised>>
  BY DEF Answer
<1>0. /\ LokiTypes /\ Paced /\ WindowsTile /\ ModesRaised /\ poller[p] \in Poller
      /\ step \in [Pollers -> LokiSteps] /\ poller \in [Pollers -> Poller]
      /\ batch = [r \in Pollers |-> batch[r]] /\ batch[p] = {}
  BY <1>1 DEF LokiInv, LokiTypes, Goes
<1> DEFINE found == {LogSignal(l) : l \in kept}
           to == IF kept = {} THEN "waiting" ELSE "emitting"
<1>3. Moves(p, poller[p], to, found)
  <2>1. poller' = [poller EXCEPT ![p] = poller[p]] /\ batch' = [batch EXCEPT ![p] = found]
    BY <1>0, <1>1, <1>2
  <2>2. (answered \union blind)' \subseteq Times /\ lost' \subseteq lines
    BY <1>0, <1>1, <1>2, WindowIs DEF LokiTypes
  <2>3. poller[p].from < poller[p].lastSeen => poller[p].due <= poller[p].lastSeen + poller[p].every
    BY <1>0 DEF Paced
  <2>4. to = "emitting" <=> found # {}
    OBVIOUS
  <2>5. to \in LokiSteps \ {"unborn"} /\ step[p] # "unborn" /\ step' = [step EXCEPT ![p] = to]
    BY <1>1 DEF LokiSteps, Goes
  <2> HIDE DEF to, found
  <2> QED  BY <1>0, <1>2, <2>1, <2>2, <2>3, <2>4, <2>5 DEF Moves
<1>4. /\ LokiTypes' /\ Paced' /\ batch'[p] = found
      /\ \A r \in Pollers \ {p} : step'[r] = step[r] /\ batch'[r] = batch[r]
  <2> HIDE DEF to, found
  <2> QED  BY <1>0, <1>3, PollerMoves
<1>5. WindowsTile'
  <2>1. current # Nobody => current \in Pollers
    BY <1>0, LokiNumbers DEF LokiTypes, Nobody, Pollers
  <2>2. current # Nobody /\ step[current] = "asking" =>
          step'[current] = "asking" \/ Window(current) \subseteq (answered \union blind)'
    BY <1>2, <1>4, <2>1
  <2> QED  BY <1>0, <1>2, <2>2, TilesStay
<1>6. ModesRaised'
  <2> SUFFICES ASSUME NEW l \in Matching(lines \ lost'), l.at \in answered'
               PROVE  \/ <<l.ns, Pattern(l)>> \in raised
                      \/ \E r \in Pollers : \E s \in batch'[r] :
                           s.key[1] = l.ns /\ s.reason = Pattern(l)
    BY <1>2 DEF ModesRaised, Pattern
  <2>1. l \in Matching(lines \ lost)
    BY <1>1 DEF Matching
  <2>2. CASE l.at \in answered
    <3>1. CASE <<l.ns, Pattern(l)>> \in raised
      BY <3>1
    <3>2. CASE \E r \in Pollers : \E s \in batch[r] : s.key[1] = l.ns /\ s.reason = Pattern(l)
      <4>1. PICK r \in Pollers : \E s \in batch[r] : s.key[1] = l.ns /\ s.reason = Pattern(l)
        BY <3>2
      <4>2. batch'[r] = batch[r]
        BY <1>0, <1>4, <4>1
      <4> QED  BY <4>1, <4>2
    <3> QED  BY <1>0, <2>1, <2>2, <3>1, <3>2 DEF ModesRaised
  <2>3. CASE l.at \in Window(p)
    <3>1. l \in Matching(sent)
      BY <1>1, <2>3 DEF Matching
    <3>2. PICK m \in kept : SameDedupeKey(l, m)
      BY <1>1, <3>1 DEF Extractions
    <3>3. LogSignal(m) \in batch'[p]
      BY <1>4
    <3>4. LogSignal(m).key[1] = l.ns /\ LogSignal(m).reason = Pattern(l)
      BY <3>2 DEF LogSignal, SameDedupeKey
    <3> QED  BY <3>3, <3>4
  <2> QED  BY <1>2, <2>2, <2>3
<1> QED  BY <1>4, <1>5, <1>6 DEF LokiInv

LEMMA EmitLogStep ==
  ASSUME LokiInv, NEW p \in Pollers, EmitLog(p)
  PROVE  LokiInv'
<1>1. PICK s \in batch[p] :
             /\ raised' = raised \union {<<s.key[1], s.reason>>}
             /\ batch' = [batch EXCEPT ![p] = batch[p] \ {s}]
             /\ Goes(p, "emitting", IF batch[p] = {s} THEN "waiting" ELSE "emitting")
             /\ UNCHANGED <<installed, now, lines, current, started, poller, answered, blind, lost>>
  BY DEF EmitLog
<1>0. /\ LokiTypes /\ Paced /\ WindowsTile /\ ModesRaised /\ poller[p] \in Poller
      /\ step \in [Pollers -> LokiSteps] /\ poller \in [Pollers -> Poller]
      /\ batch = [r \in Pollers |-> batch[r]]
  BY DEF LokiInv, LokiTypes
<1> DEFINE rest == batch[p] \ {s}
           to == IF batch[p] = {s} THEN "waiting" ELSE "emitting"
<1>2. Moves(p, poller[p], to, rest)
  <2>1. poller' = [poller EXCEPT ![p] = poller[p]] /\ batch' = [batch EXCEPT ![p] = rest]
    BY <1>0, <1>1
  <2>2. (answered \union blind)' \subseteq Times /\ lost' \subseteq lines
    BY <1>0, <1>1 DEF LokiTypes
  <2>3. poller[p].from < poller[p].lastSeen => poller[p].due <= poller[p].lastSeen + poller[p].every
    BY <1>0 DEF Paced
  <2>4. to = "emitting" <=> rest # {}
    BY <1>1
  <2>5. to \in LokiSteps \ {"unborn"} /\ step[p] # "unborn" /\ step' = [step EXCEPT ![p] = to]
    BY <1>1 DEF LokiSteps, Goes
  <2> HIDE DEF to, rest
  <2> QED  BY <1>0, <1>1, <2>1, <2>2, <2>3, <2>4, <2>5 DEF Moves
<1>3. /\ LokiTypes' /\ Paced' /\ batch'[p] = rest
      /\ \A r \in Pollers \ {p} : step'[r] = step[r] /\ batch'[r] = batch[r]
  <2> HIDE DEF to, rest
  <2> QED  BY <1>0, <1>2, PollerMoves
<1>4. WindowsTile'
  <2>1. current # Nobody => current \in Pollers
    BY <1>0, LokiNumbers DEF LokiTypes, Nobody, Pollers
  <2>2. current # Nobody /\ step[current] = "asking" => step'[current] = "asking"
    BY <1>1, <1>3, <2>1 DEF Goes
  <2> QED  BY <1>0, <1>1, <2>2, TilesStay
<1>5. ModesRaised'
  <2> SUFFICES ASSUME NEW l \in Matching(lines \ lost), l.at \in answered
               PROVE  \/ <<l.ns, Pattern(l)>> \in raised'
                      \/ \E r \in Pollers : \E m \in batch'[r] :
                           m.key[1] = l.ns /\ m.reason = Pattern(l)
    BY <1>1 DEF ModesRaised, Pattern
  <2>1. CASE <<l.ns, Pattern(l)>> \in raised
    BY <1>1, <2>1
  <2>2. CASE \E r \in Pollers : \E m \in batch[r] : m.key[1] = l.ns /\ m.reason = Pattern(l)
    <3>1. PICK r \in Pollers : \E m \in batch[r] : m.key[1] = l.ns /\ m.reason = Pattern(l)
      BY <2>2
    <3> PICK m \in batch[r] : m.key[1] = l.ns /\ m.reason = Pattern(l)
      BY <3>1
    <3>2. CASE r = p /\ m = s
      BY <1>1, <3>2
    <3>3. CASE ~(r = p /\ m = s)
      <4>1. m \in batch'[r]
        BY <1>3, <3>3
      <4> QED  BY <4>1
    <3> QED  BY <3>2, <3>3
  <2> QED  BY <1>0, <2>1, <2>2 DEF ModesRaised
<1> QED  BY <1>3, <1>4, <1>5 DEF LokiInv

\* A cancelled poller that waits is gone.
LEMMA StopStep ==
  ASSUME LokiInv, NEW p \in Pollers, StopPolling(p)
  PROVE  LokiInv'
<1>0. /\ LokiTypes /\ Paced /\ WindowsTile /\ ModesRaised /\ poller[p] \in Poller
      /\ step \in [Pollers -> LokiSteps] /\ poller \in [Pollers -> Poller]
      /\ batch = [r \in Pollers |-> batch[r]] /\ batch[p] = {}
  BY DEF LokiInv, LokiTypes, StopPolling, Goes
<1>1. /\ step[p] = "waiting" /\ step' = [step EXCEPT ![p] = "gone"]
      /\ UNCHANGED <<installed, now, lines, current, started, poller, batch, answered, blind,
                     lost, raised>>
  BY DEF StopPolling, Goes, lokiHistory
<1>2. Moves(p, poller[p], "gone", {})
  <2>1. poller' = [poller EXCEPT ![p] = poller[p]] /\ batch' = [batch EXCEPT ![p] = {}]
    BY <1>0, <1>1
  <2>2. (answered \union blind)' \subseteq Times /\ lost' \subseteq lines
    BY <1>0, <1>1 DEF LokiTypes
  <2>3. poller[p].from < poller[p].lastSeen => poller[p].due <= poller[p].lastSeen + poller[p].every
    BY <1>0 DEF Paced
  <2> QED  BY <1>0, <1>1, <2>1, <2>2, <2>3 DEF Moves, LokiSteps
<1>3. /\ LokiTypes' /\ Paced' /\ \A r \in Pollers \ {p} : step'[r] = step[r]
  BY <1>0, <1>2, PollerMoves
<1>4. WindowsTile'
  <2>1. current # Nobody => current \in Pollers
    BY <1>0, LokiNumbers DEF LokiTypes, Nobody, Pollers
  <2>2. current # Nobody /\ step[current] = "asking" => step'[current] = "asking"
    BY <1>1, <1>3, <2>1
  <2> QED  BY <1>0, <1>1, <2>2, TilesStay
<1>5. ModesRaised'
  BY <1>0, <1>1 DEF ModesRaised, Matching
<1> QED  BY <1>3, <1>4, <1>5 DEF LokiInv

\* The instants before the new poller's first window: asked for already, if the old one
\* was settled and not the more frequent, and blind otherwise.
LEMMA Handover ==
  ASSUME LokiTypes, Paced, WindowsTile, NEW every \in Intervals, NEW t \in Times,
         t < FirstSeen(every)
  PROVE  t \in answered \union blind \union Skipped(every)
<1>1. CASE current # Nobody /\ Settled(current) /\ every >= poller[current].every
  <2>1. current \in Pollers
    BY <1>1, LokiNumbers DEF LokiTypes, Nobody, Pollers
  <2>2. poller[current] \in Poller
    BY <2>1 DEF LokiTypes
  <2>3. /\ step[current] = "waiting" /\ now <= poller[current].due
        /\ poller[current].due <= poller[current].lastSeen + poller[current].every
    BY <1>1, <2>1 DEF Settled, Paced
  <2>4. t < poller[current].lastSeen
    BY <1>1, <2>2, <2>3, LokiNumbers DEF FirstSeen, Poller, LokiTypes
  <2> QED  BY <1>1, <2>3, <2>4 DEF WindowsTile
<1>2. CASE ~(current # Nobody /\ Settled(current) /\ every >= poller[current].every)
  <2>1. t \in Skipped(every)
    BY <1>2 DEF Skipped, FirstSeen
  <2> QED  BY <2>1
<1> QED  BY <1>1, <1>2

LEMMA ReloadStep ==
  ASSUME LokiInv, live \in BOOLEAN, NEW every \in Intervals, ReloadLoki(every)
  PROVE  LokiInv'
<1>0. /\ LokiTypes /\ Paced /\ WindowsTile /\ ModesRaised
      /\ step \in [Pollers -> LokiSteps] /\ poller \in [Pollers -> Poller]
      /\ now \in Nat /\ now \in Times /\ started \in Nat
  BY LokiNumbers DEF LokiInv, LokiTypes
<1> DEFINE p == started + 1
           q == NewPoller(every)
<1>1. /\ started < MaxPollers /\ started' = p /\ current' = p
      /\ step' = [step EXCEPT ![p] = "waiting"]
      /\ poller' = [OldCancelled EXCEPT ![p] = q]
      /\ blind' = blind \union Skipped(every)
      /\ UNCHANGED <<installed, now, lines, batch, answered, lost, raised>>
  BY DEF ReloadLoki
<1>2. p \in Pollers /\ p > started /\ step[p] = "unborn"
  BY <1>0, <1>1, LokiNumbers DEF Pollers, Paced
<1>3. /\ q \in Poller /\ q.every = every /\ every > 0 /\ every \in Nat
      /\ q.from = now - every /\ q.lastSeen = now - every
  <2>1. every \in Nat /\ every > 0 /\ every <= Max(Intervals)
    BY LokiNumbers
  <2>2. now - every \in Times /\ now + every \in Nat
    BY <1>0, <2>1, LokiNumbers
  <2> QED  BY <2>1, <2>2 DEF NewPoller, FirstSeen, Poller
<1>4. /\ OldCancelled \in [Pollers -> Poller]
      /\ \A r \in Pollers :
           /\ OldCancelled[r].every = poller[r].every /\ OldCancelled[r].due = poller[r].due
           /\ OldCancelled[r].from = poller[r].from
           /\ OldCancelled[r].lastSeen = poller[r].lastSeen
  <2> SUFFICES ASSUME NEW r \in Pollers
               PROVE  /\ OldCancelled[r] \in Poller
                      /\ OldCancelled[r].every = poller[r].every
                      /\ OldCancelled[r].due = poller[r].due
                      /\ OldCancelled[r].from = poller[r].from
                      /\ OldCancelled[r].lastSeen = poller[r].lastSeen
    BY DEF OldCancelled
  <2>1. poller[r] \in Poller
    BY <1>0
  <2> QED  BY <2>1 DEF OldCancelled, Poller
<1> HIDE DEF p, q
<1>5. /\ step' \in [Pollers -> LokiSteps] /\ step'[p] = "waiting"
      /\ poller' \in [Pollers -> Poller] /\ poller'[p] = q
      /\ \A r \in Pollers \ {p} : step'[r] = step[r] /\ poller'[r] = OldCancelled[r]
  BY <1>0, <1>1, <1>2, <1>3, <1>4 DEF LokiSteps
<1>6. LokiTypes'
  <2>1. started' \in 0..MaxPollers /\ current' \in 0..started'
    BY <1>0, <1>1, LokiNumbers DEF p
  <2>2. \A r \in Pollers : step'[r] = "emitting" <=> batch'[r] # {}
    BY <1>0, <1>1, <1>2, <1>5 DEF LokiTypes
  <2>3. (answered \union blind)' \subseteq Times
    BY <1>0, <1>1 DEF Skipped, LokiTypes
  <2> QED  BY <1>0, <1>1, <1>5, <2>1, <2>2, <2>3 DEF LokiTypes
<1>7. Paced'
  <2> SUFFICES ASSUME NEW r \in Pollers
               PROVE  /\ r > p => step'[r] = "unborn"
                      /\ step'[r] # "unborn" => poller'[r].every > 0
                      /\ poller'[r].from < poller'[r].lastSeen =>
                           poller'[r].due <= poller'[r].lastSeen + poller'[r].every
    BY <1>1 DEF Paced
  <2>1. CASE r = p
    BY <1>0, <1>3, <1>5, <2>1 DEF p
  <2>2. CASE r # p
    <3>1. r \in Nat /\ (r > p => r > started)
      BY <1>0 DEF p, Pollers
    <3> QED  BY <1>0, <1>4, <1>5, <2>2, <3>1 DEF Paced
  <2> QED  BY <2>1, <2>2
<1>8. WindowsTile'
  <2>1. \A t \in Times : t < FirstSeen(every) => t \in (answered \union blind)'
    BY <1>0, <1>1, Handover
  <2> QED  BY <1>1, <1>3, <1>5, <2>1 DEF WindowsTile, FirstSeen
<1>9. ModesRaised'
  BY <1>0, <1>1 DEF ModesRaised, Matching
<1> QED  BY <1>6, <1>7, <1>8, <1>9 DEF LokiInv

\* A line of an instant already answered for is lost.
LEMMA LogStep == LokiInv /\ Log => LokiInv'
<1> SUFFICES ASSUME LokiInv, Log PROVE LokiInv'
  OBVIOUS
<1>1. /\ UNCHANGED <<installed, now, current, started, step, poller, batch, answered, blind,
                     raised>>
      /\ lines \subseteq lines' /\ lost \subseteq lost' /\ lost' \subseteq lines \union lines'
  BY DEF LokiInv, LokiTypes, Log, pollerVars
<1>2. \A l \in lines' \ lines : l.at \in answered => l \in lost'
  BY DEF Log
<1>3. lost' \subseteq lines'
  BY <1>1 DEF LokiInv, LokiTypes, Log
<1>4. LokiTypes' /\ Paced' /\ WindowsTile'
  BY <1>1, <1>3 DEF LokiInv, LokiTypes, Paced, WindowsTile, Window
<1>5. ModesRaised'
  <2> SUFFICES ASSUME NEW l \in Matching(lines' \ lost'), l.at \in answered
               PROVE  \/ <<l.ns, Pattern(l)>> \in raised
                      \/ \E r \in Pollers : \E s \in batch[r] :
                           s.key[1] = l.ns /\ s.reason = Pattern(l)
    BY <1>1 DEF ModesRaised, Pattern
  <2>1. l \in Matching(lines \ lost)
    BY <1>1, <1>2 DEF Matching
  <2> QED  BY <2>1 DEF LokiInv, ModesRaised
<1> QED  BY <1>4, <1>5 DEF LokiInv

LEMMA LokiNextStep ==
  ASSUME LokiInv, live \in BOOLEAN
  PROVE  LokiNext => LokiInv'
<1>1. ASSUME NEW p \in Pollers, PollerStep(p) \/ StopPolling(p) PROVE LokiInv'
  BY <1>1, PollStep, PollErrorStep, AnswerStep, EmitLogStep, StopStep DEF PollerStep
<1>2. ASSUME NEW every \in Intervals, ReloadLoki(every) PROVE LokiInv'
  BY <1>2, ReloadStep
<1>3. CASE Tick
  <2>1. /\ UNCHANGED <<installed, lines, current, started, step, poller, batch, answered, blind,
                       lost, raised>>
        /\ now' \in 0..MaxTime
    BY <1>3, LokiNumbers DEF Tick, pollerVars, lokiHistory, LokiInv, LokiTypes
  <2> QED
    BY <2>1 DEF LokiInv, LokiTypes, Paced, WindowsTile, Window, ModesRaised, Matching
<1> QED  BY <1>1, <1>2, <1>3, LogStep DEF LokiNext

\* The end of the process cancels pollers and changes nothing else of them.
LEMMA CancelStep == LokiInv /\ Cancel => LokiInv'
<1> SUFFICES ASSUME LokiInv, Cancel PROVE LokiInv'
  OBVIOUS
<1>1. /\ UNCHANGED <<installed, now, lines, current, started, step, batch, answered, blind,
                     lost, raised>>
      /\ poller' = [p \in Pollers |-> IF step[p] = "unborn" THEN poller[p]
                                      ELSE [poller[p] EXCEPT !.cancelled = TRUE]]
  BY DEF Cancel, lokiHistory
<1>2. ASSUME NEW p \in Pollers
      PROVE  /\ poller'[p] \in Poller /\ poller'[p].every = poller[p].every
             /\ poller'[p].due = poller[p].due /\ poller'[p].from = poller[p].from
             /\ poller'[p].lastSeen = poller[p].lastSeen
  <2>1. poller[p] \in Poller
    BY DEF LokiInv, LokiTypes
  <2> QED  BY <1>1, <2>1 DEF Poller
<1>3. LokiTypes'
  <2>1. poller' \in [Pollers -> Poller]
    BY <1>1, <1>2
  <2> QED  BY <1>1, <2>1 DEF LokiInv, LokiTypes
<1>4. Paced'
  BY <1>1, <1>2 DEF LokiInv, Paced
<1>5. WindowsTile'
  <2>1. current # Nobody => current \in Pollers
    BY LokiNumbers DEF LokiInv, LokiTypes, Nobody, Pollers
  <2> QED  BY <1>1, <1>2, <2>1, TilesStay DEF LokiInv
<1>6. ModesRaised'
  BY <1>1 DEF LokiInv, ModesRaised, Matching
<1> QED  BY <1>3, <1>4, <1>5, <1>6 DEF LokiInv

-----------------------------------------------------------------------------
(* All of them.                                                            *)

LEMMA InitIInv == Init => IInv
<1> SUFFICES ASSUME Init PROVE IInv
  OBVIOUS
<1>0. IsSeq(<<>>) /\ Len(<<>>) = 0 /\ \A x : IsSeq(<<x>>) /\ Len(<<x>>) = 1
  <2>1. <<>> \in Seq({}) /\ \A x : <<x>> \in Seq({x})
    OBVIOUS
  <2> QED  BY <2>1 DEF IsSeq
<1>1. ChannelTypes
  BY <1>0, SignalChannelAssumption DEF Init, ChannelTypes
<1>2. LokiInv
  BY InitLoki
<1>3. K8sTypes
  <2>1. /\ object = [i \in Informers |-> object[i]]
        /\ \A i \in Informers : object[i] \in {Absent} \union Objects[i]
        /\ notices = [i \in Informers |->
                        IF i = "events" /\ object[i] # Absent THEN <<object[i]>> ELSE <<>>]
    BY DEF Init, K8sInit
  <2>2. \A i \in Informers : notices[i] = <<>> \/ notices[i] = <<object[i]>>
    BY <2>1
  <2>3. \A i \in Informers : IsSeq(notices[i]) /\ Len(notices[i]) <= MaxNotices
    <3> SUFFICES ASSUME NEW i \in Informers
                 PROVE  IsSeq(notices[i]) /\ Len(notices[i]) <= MaxNotices
      OBVIOUS
    <3>1. MaxNotices \in Nat /\ MaxNotices >= 1
      BY K8sWatcherAssumption
    <3>2. CASE notices[i] = <<>>
      BY <1>0, <3>1, <3>2
    <3>3. CASE notices[i] = <<object[i]>>
      <4>1. IsSeq(<<object[i]>>) /\ Len(<<object[i]>>) = 1
        BY <1>0
      <4> QED  BY <3>1, <3>3, <4>1
    <3> QED  BY <2>2, <3>2, <3>3
  <2> QED  BY <2>1, <2>3 DEF K8sTypes
<1>4. HookTypes
  BY <1>0 DEF Init, HookInit, HookTypes
<1> QED  BY <1>1, <1>2, <1>3, <1>4 DEF IInv

LEMMA NextIInv == IInv /\ [Next]_vars => IInv'
<1> SUFFICES ASSUME IInv, [Next]_vars PROVE IInv'
  OBVIOUS
<1>0. ChannelTypes /\ LokiInv /\ K8sTypes /\ HookTypes /\ live \in BOOLEAN
  BY DEF IInv, ChannelTypes
<1>1. UNCHANGED lokiVars => LokiInv'
  BY <1>0 DEF lokiVars, pollerVars, lokiHistory, LokiInv, LokiTypes, Paced, WindowsTile, Window,
              ModesRaised, Matching, Pattern
<1>2. UNCHANGED k8sVars => K8sTypes'
  BY <1>0 DEF k8sVars, K8sTypes, IsSeq
<1>3. UNCHANGED hookVars => HookTypes'
  BY <1>0 DEF hookVars, HookTypes, IsSeq
<1>4. CASE Cancel
  <2>1. ChannelTypes'
    BY <1>0, <1>4 DEF Cancel, ChannelTypes, IsSeq
  <2> QED  BY <1>0, <1>2, <1>3, <1>4, <2>1, CancelStep DEF Cancel, IInv
<1>5. CASE LokiNext /\ UNCHANGED <<k8sVars, hookVars>>
  <2>1. ChannelTypes'
    <3>1. UNCHANGED channelVars \/ (UNCHANGED live /\ \E s : TrySend(s))
      BY <1>5 DEF LokiNext, PollerStep, ReloadLoki, Poll, PollError, Answer, EmitLog,
                  StopPolling, Log, Tick
    <3> QED  BY <1>0, <3>1, ChannelSteps DEF channelVars
  <2> QED  BY <1>0, <1>2, <1>3, <1>5, <2>1, LokiNextStep DEF IInv
<1>6. CASE K8sNext /\ UNCHANGED <<lokiVars, hookVars>>
  BY <1>0, <1>1, <1>3, <1>6, K8sSteps DEF IInv
<1>7. CASE HookNext /\ UNCHANGED <<lokiVars, k8sVars>>
  BY <1>0, <1>1, <1>2, <1>7, HookSteps DEF IInv
<1>8. CASE Take /\ UNCHANGED <<lokiVars, k8sVars, hookVars>>
  <2>1. ChannelTypes'
    BY <1>0, <1>8, ChannelSteps DEF Take
  <2> QED  BY <1>0, <1>1, <1>2, <1>3, <1>8, <2>1 DEF IInv
<1>9. CASE UNCHANGED vars
  <2>1. ChannelTypes'
    BY <1>0, <1>9, ChannelSteps DEF vars, channelVars
  <2> QED  BY <1>0, <1>1, <1>2, <1>3, <1>9, <2>1 DEF IInv, vars
<1> QED  BY <1>4, <1>5, <1>6, <1>7, <1>8, <1>9 DEF Next

LEMMA AlwaysIInv == Spec => []IInv
  BY InitIInv, NextIInv, PTL DEF Spec

-----------------------------------------------------------------------------

\* Every variable of the channel and of its three sources keeps its type, the channel its
\* capacity (ingestor.go:44), and a poller has signals to emit only while it emits.
THEOREM IngestorTypeCorrect == Spec => []TypeOK
<1>1. IInv => TypeOK
  <2> SUFFICES ASSUME IInv PROVE TypeOK
    OBVIOUS
  <2>1. now \in Nat /\ started \in 0..MaxPollers /\ current \in 0..started
    BY LokiNumbers DEF IInv, LokiInv, LokiTypes
  <2>2. \A p \in Pollers :
          /\ poller[p] \in [every : Nat, lastSeen : Times, from : Times, due : Nat,
                            cancelled : BOOLEAN]
          /\ step[p] = "emitting" <=> batch[p] # {}
    BY DEF IInv, LokiInv, LokiTypes, Poller
  <2> QED
    BY <2>1, <2>2 DEF IInv, LokiInv, LokiTypes, LokiSteps, ChannelTypes, K8sTypes, HookTypes, TypeOK
<1> QED  BY <1>1, AlwaysIInv, PTL

\* The windows of the pollers tile time (loki.go:187-189): a line is not passed over because
\* a tick came late, a request failed or a reload replaced the poller, outside the gaps the
\* property names.
THEOREM WindowsTileTime == Spec => []WindowsTile
<1>1. IInv => WindowsTile
  BY DEF IInv, LokiInv
<1> QED  BY <1>1, AlwaysIInv, PTL

\* Keeping one line of a namespace and pattern (loki.go:223) hides no failure
\* mode that an answer showed.
THEOREM AnswersAreRaised == Spec => []ModesRaised
<1>1. IInv => ModesRaised
  BY DEF IInv, LokiInv
<1> QED  BY <1>1, AlwaysIInv, PTL
=============================================================================
