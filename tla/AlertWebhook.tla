---------------------------- MODULE AlertWebhook ----------------------------
(***************************************************************************)
(* POST /webhook/alertmanager (ingestor/webhook.go): one goroutine for a   *)
(* request, one signal for each alert in it, and no waiting for room.      *)
(***************************************************************************)
EXTENDS SignalChannel

CONSTANTS
  Requests,      \* HTTP handler goroutines
  Alerts,        \* status, name and labels of the alerts sent
  MaxPosts       \* bound on the requests

ASSUME AlertWebhookAssumption == MaxPosts \in Nat

VARIABLES
  alerts,        \* of each handler: the alerts it has still to emit
  posts          \* number of requests with alerts in them still to come

hookVars == <<alerts, posts>>

HookInit == alerts = [r \in Requests |-> <<>>] /\ posts \in 0..MaxPosts

FirstNonEmpty(candidates) ==
  LET named == SelectSeq(candidates, LAMBDA c : c # "") IN
  IF named = <<>> THEN "" ELSE Head(named)

\* An alert's status is not looked at: one that is resolved signals like one
\* that fires.
MapAlert(a) ==
  [source |-> "prometheus-alert",
   key    |-> <<a.namespace, FirstNonEmpty(<<a.pod, a.deployment, a.service, a.job>>)>>,
   reason |-> IF a.alertname = "" THEN "UnknownAlert" ELSE a.alertname]

\* A body that is not JSON, or has no alerts, is answered at once.
Post(r) ==
  /\ alerts[r] = <<>> /\ posts > 0 /\ posts' = posts - 1
  /\ \E a, b \in Alerts : \E n \in 1..2 :
       alerts' = [alerts EXCEPT ![r] = SubSeq(<<a, b>>, 1, n)]
  /\ UNCHANGED channelVars

Offer(s) == TrySend(s)

EmitAlert(r) ==
  /\ alerts[r] # <<>>
  /\ Offer(MapAlert(Head(alerts[r])))
  /\ alerts' = [alerts EXCEPT ![r] = Tail(@)]
  /\ UNCHANGED <<live, posts>>

HookNext == \E r \in Requests : Post(r) \/ EmitAlert(r)

=============================================================================
