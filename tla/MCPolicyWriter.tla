--------------------------- MODULE MCPolicyWriter ---------------------------
(* One instance for the engine, the breaker and the git writer, which share *)
(* nothing: a behaviour is of one of the three.                             *)
EXTENDS MCPolicy, GitWriter, TLC

VARIABLE writing  \* the behaviour is of the git writer; engine and breaker rest

Symmetry == Permutations(Appliers) \union Permutations(Files)
                                   \union Permutations(Fields)

PWInit == MCInit /\ WriterInit /\ writing \in BOOLEAN /\ (writing => part = "breaker")

PWNext ==
  /\ \/ ~writing /\ MCNext /\ UNCHANGED writerVars
     \/ writing /\ WriterNext /\ UNCHANGED <<vars, breakerVars, part>>
  /\ UNCHANGED writing

PWSpec == PWInit /\ [][PWNext]_<<vars, breakerVars, part, writerVars, writing>>
=============================================================================
