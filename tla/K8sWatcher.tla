----------------------------- MODULE K8sWatcher -----------------------------
(***************************************************************************)
(* The Kubernetes informers and their handlers (ingestor/k8s.go).  Each    *)
(* informer (events, pods, nodes) delivers notices one at a time: its       *)
(* handler maps the object to signals and waits for room for each of them, *)
(* holding up the informer.  A resync repeats the update of every stored   *)
(* object.                                                                 *)
(*                                                                         *)
(* One object of each kind.  An event is its type, reason, the words its   *)
(* message contains, and count; a pod its containers, each with the reason *)
(* it waits for and the reason it ended the last time; a node its Ready    *)
(* condition.                                                              *)
(***************************************************************************)
EXTENDS SignalChannel

CONSTANTS
  Objects,       \* of each informer, the objects the cluster may show
  MaxNotices,    \* bound on the notices an informer queues
  MaxChanges     \* bound on the changes of the cluster

ASSUME K8sWatcherAssumption ==
  /\ DOMAIN Objects = {"events", "pods", "nodes"}
  /\ MaxNotices \in Nat \ {0} /\ MaxChanges \in Nat

Informers == {"events", "pods", "nodes"}
Absent    == <<>>

VARIABLES
  object,     \* what the cluster shows, Absent if there is no such object
  notices,    \* the objects an informer has still to deliver
  sending,    \* the signals its handler has still to send
  changes     \* number of changes

k8sVars == <<object, notices, sending, changes>>

-----------------------------------------------------------------------------
(* Mapping.                                                                *)

K8sSignal(key, reason) == [source |-> "k8s-event", key |-> key, reason |-> reason]

WatchedEventReasons ==
  [OOMKilling |-> "OOMKilled", BackOff |-> "CrashLoopBackOff",
   FailedScheduling |-> "FailedScheduling", NodeNotReady |-> "NotReady"]

\* The signal's reason for an event, none for one that is not watched.
EventReasons(e) ==
  IF e.type # "Warning" THEN {}
  ELSE IF e.reason \in DOMAIN WatchedEventReasons THEN {WatchedEventReasons[e.reason]}
  ELSE IF e.reason = "Killing" /\ "OOM" \in e.words THEN {"OOMKilled"}
  ELSE IF e.reason = "Failed" /\ e.words \intersect {"ImagePullBackOff", "Back-off pulling"} # {}
       THEN {"ImagePullBackOff"}
  ELSE {}

BugEitherOr(c) ==
  IF c.waiting = "CrashLoopBackOff" THEN <<"CrashLoopBackOff">>
  ELSE IF c.waiting \in {"ImagePullBackOff", "ErrImagePull"} THEN <<"ImagePullBackOff">>
  ELSE IF c.lastEnd = "OOMKilled" THEN <<"OOMKilled">>
  ELSE <<>>

\* A container's last termination stays in its status when it runs again.
ContainerReasons(c) ==
  (CASE c.waiting = "CrashLoopBackOff" -> <<"CrashLoopBackOff">>
     [] c.waiting \in {"ImagePullBackOff", "ErrImagePull"} -> <<"ImagePullBackOff">>
     [] OTHER -> <<>>)
  \o (IF c.lastEnd = "OOMKilled" THEN <<"OOMKilled">> ELSE <<>>)

MapEvent(e) == SetToSeq({K8sSignal(e.key, r) : r \in EventReasons(e)})

MapPodCrash(pod) ==
  LET reasons == FlattenSeq([i \in DOMAIN pod.containers |->
                               ContainerReasons(pod.containers[i])])
  IN [i \in DOMAIN reasons |-> K8sSignal(pod.key, reasons[i])]

\* Ready = Unknown, the condition of a node that is gone, is no signal.
MapNode(n) == IF n.ready = "False" THEN <<K8sSignal(n.key, "NotReady")>> ELSE <<>>

SignalsOf(i, o) == CASE i = "events" -> MapEvent(o)
                     [] i = "pods"   -> MapPodCrash(o)
                     [] i = "nodes"  -> MapNode(o)

-----------------------------------------------------------------------------
(* Only the events informer has an AddFunc: the others hear of an object   *)
(* that was there before them by its first update, or by a resync.         *)

K8sInit ==
  /\ object \in [Informers -> {Absent} \union UNION {Objects[i] : i \in Informers}]
  /\ \A i \in Informers : object[i] \in {Absent} \union Objects[i]
  /\ notices = [i \in Informers |->
                  IF i = "events" /\ object[i] # Absent THEN <<object[i]>> ELSE <<>>]
  /\ sending = [i \in Informers |-> <<>>]
  /\ changes = 0

Queued(i) == notices' = [notices EXCEPT ![i] = Append(@, object'[i])]

Change(i) ==
  /\ live /\ object[i] # Absent /\ Len(notices[i]) < MaxNotices
  /\ changes < MaxChanges /\ changes' = changes + 1
  /\ \E o \in Objects[i] \ {object[i]} : object' = [object EXCEPT ![i] = o]
  /\ Queued(i)
  /\ UNCHANGED <<channelVars, sending>>

Resync(i) ==
  /\ live /\ object[i] # Absent /\ notices[i] = <<>>
  /\ UNCHANGED object
  /\ Queued(i)
  /\ UNCHANGED <<channelVars, sending, changes>>

\* handleEvent, handlePod, handleNode.
Handle(i) ==
  /\ live /\ notices[i] # <<>> /\ sending[i] = <<>>
  /\ sending' = [sending EXCEPT ![i] = SignalsOf(i, Head(notices[i]))]
  /\ notices' = [notices EXCEPT ![i] = Tail(@)]
  /\ UNCHANGED <<channelVars, object, changes>>

EmitObject(i) ==
  /\ sending[i] # <<>>
  /\ Send(Head(sending[i]))
  /\ sending' = [sending EXCEPT ![i] = Tail(@)]
  /\ UNCHANGED <<live, object, notices, changes>>

K8sNext == \E i \in Informers : Change(i) \/ Resync(i) \/ Handle(i) \/ EmitObject(i)

\* Every informer has a goroutine and a resync timer of its own; a blocked send
\* is served in the order it came, so it is not overtaken for ever.
K8sFairness ==
  \A i \in Informers :
    WF_k8sVars(Resync(i)) /\ WF_k8sVars(Handle(i)) /\ SF_k8sVars(EmitObject(i))

-----------------------------------------------------------------------------
(* Properties.                                                             *)

\* What is wrong with an object, as far as the watcher is meant to see it.
Wrong(i, o) ==
  CASE i = "events" -> EventReasons(o)
    [] i = "pods" ->
         {r \in {"CrashLoopBackOff", "ImagePullBackOff", "OOMKilled"} :
            \E n \in DOMAIN o.containers :
              LET c == o.containers[n] IN
              r \in {c.waiting, c.lastEnd} \/ (r = "ImagePullBackOff" /\ c.waiting = "ErrImagePull")}
    [] i = "nodes" -> IF o.ready = "False" THEN {"NotReady"} ELSE {}

\* As long as the correlator takes signals, everything that is wrong with an
\* object is signalled, and again and again, until the object changes or the
\* process shuts down: nothing is dropped, however full the channel is, and an
\* object that was broken before the agent started is not overlooked.
WrongIsSignalled ==
  WF_signals(Take) =>
    \A i \in Informers : \A o \in Objects[i] : \A r \in Wrong(i, o) :
      (object[i] = o /\ live) ~>
        (object[i] # o \/ ~live \/ K8sSignal(o.key, r) \in Range(signals))
=============================================================================
