------------------------------ MODULE Ingestor ------------------------------
(***************************************************************************)
(* The ingestor as run.go starts it: the Loki poller, the Kubernetes       *)
(* watcher and the webhook's handlers send to one channel, the correlator  *)
(* takes from it, and one context ends them.                               *)
(***************************************************************************)
EXTENDS LokiSource, K8sWatcher, AlertWebhook

vars == <<channelVars, lokiVars, k8sVars, hookVars>>

Init ==
  /\ signals = <<>> /\ live = TRUE
  /\ LokiInit /\ K8sInit /\ HookInit

\* SIGTERM: every poller's context is a child of the cancelled one.
Cancel ==
  /\ live /\ live' = FALSE
  /\ poller' = [p \in Pollers |-> IF step[p] = "unborn" THEN poller[p]
                                  ELSE [poller[p] EXCEPT !.cancelled = TRUE]]
  /\ UNCHANGED <<signals, installed, now, lines, current, started, step, batch, lokiHistory,
                 k8sVars, hookVars>>

Next ==
  \/ Cancel
  \/ LokiNext /\ UNCHANGED <<k8sVars, hookVars>>
  \/ K8sNext /\ UNCHANGED <<lokiVars, hookVars>>
  \/ HookNext /\ UNCHANGED <<lokiVars, k8sVars>>
  \/ Take /\ UNCHANGED <<lokiVars, k8sVars, hookVars>>

Fairness == K8sFairness

Spec == Init /\ [][Next]_vars /\ Fairness

-----------------------------------------------------------------------------
\* Every variable has its type, and the channel its capacity.
TypeOK ==
  /\ Len(signals) <= SignalBufSize /\ {live, installed} \subseteq BOOLEAN
  /\ now \in Nat /\ current \in 0..started /\ started \in 0..MaxPollers
  /\ step \in [Pollers -> {"unborn", "waiting", "asking", "emitting", "gone"}]
  /\ \A p \in Pollers :
       /\ poller[p] \in [every : Nat, lastSeen : Times, from : Times, due : Nat,
                         cancelled : BOOLEAN]
       /\ step[p] = "emitting" <=> batch[p] # {}
  /\ answered \union blind \subseteq Times /\ lost \subseteq lines
  /\ \A i \in Informers : object[i] \in {Absent} \union Objects[i] /\ Len(notices[i]) <= MaxNotices
  /\ posts \in 0..MaxPosts /\ \A r \in Requests : Len(alerts[r]) <= 2
=============================================================================
