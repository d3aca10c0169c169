------------------------------ MODULE MCPolicy ------------------------------
EXTENDS PolicyEngine, CircuitBreaker

VARIABLE part  \* which of the two an initial state is for; the other rests

\* One value below, inside and above each range, and both sides of a threshold.
MCConfidences == -1..3

\* While the breaker works, the engine has one proposal before it.
MCInit ==
  /\ \/ part = "engine"
     \/ /\ part = "breaker"
        /\ cfg = CHOOSE c \in Configs : TRUE
        /\ proposal = buildProposal(0, "scale-deployment")
  /\ Init /\ BreakerInit

MCNext ==
  /\ \/ part = "engine" /\ Next /\ UNCHANGED breakerVars
     \/ part = "breaker" /\ BreakerNext /\ UNCHANGED vars
  /\ UNCHANGED part

MCSpec == MCInit /\ [][MCNext]_<<vars, breakerVars, part>>

\* Every variable of the two has its type.
MCTypeOK == TypeOK /\ BreakerTypeOK
=============================================================================
