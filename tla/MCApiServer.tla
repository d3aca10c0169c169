---------------------------- MODULE MCApiServer ----------------------------
EXTENDS ApiServer, TLC

CONSTANT Crowds  \* how many requests to save and to turn the switch come

VARIABLE crowd

Symmetry ==
  Permutations(Saves) \union Permutations(Toggles) \union Permutations(Values)

MCCrowds == {<<2, 0>>, <<1, 1>>, <<0, 3>>}

MCInit == Init /\ crowd \in Crowds

MCNext ==
  /\ Next /\ UNCHANGED crowd
  /\ Cardinality({s \in Saves : handler'[s].step # "idle"}) <= crowd[1]
  /\ Cardinality({t \in Toggles : toggle'[t].step # "idle"}) <= crowd[2]

MCSpec == MCInit /\ [][MCNext]_<<vars, crowd>>
=============================================================================
