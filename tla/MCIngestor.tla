----------------------------- MODULE MCIngestor -----------------------------
EXTENDS Ingestor, TLC

MCLineKinds ==
  {[ns |-> "shop", app |-> "cart", patterns |-> {1, 2}],
   [ns |-> "bank", app |-> "api", patterns |-> {1}],
   [ns |-> "bank", app |-> "web", patterns |-> {}]}

MCObjects ==
  [events |-> {[key |-> "pod", type |-> "Warning", reason |-> "Killing",
                words |-> {"OOM"}, count |-> 1],
               [key |-> "pod", type |-> "Normal", reason |-> "Killing",
                words |-> {}, count |-> 1]},
   pods   |-> {[key |-> "pod", containers |-> <<>>],
               [key |-> "pod",
                containers |-> <<[waiting |-> "ErrImagePull", lastEnd |-> "OOMKilled"]>>]},
   nodes  |-> {[key |-> "node", ready |-> "False"], [key |-> "node", ready |-> "Unknown"]}]

MCAlerts ==
  {[status |-> "resolved", alertname |-> "", namespace |-> "shop", pod |-> "",
    deployment |-> "cart", service |-> "", job |-> ""]}

\* A cluster without Loki, or a Loki and nothing else that signals: the sources
\* meet only in the channel, which each of them fills by itself here.
MCInit ==
  /\ Init
  /\ installed <=> object = [i \in Informers |-> Absent]
  /\ posts = IF installed THEN 0 ELSE MaxPosts

MCSpec == MCInit /\ [][Next]_vars /\ Fairness
=============================================================================
