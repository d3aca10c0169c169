----------------------------- MODULE MCActions -----------------------------
EXTENDS Remediators, Verifier, TLC

VARIABLE part  \* which of the two an initial state is for; the other rests

Symmetry == Permutations(Slots)

File(limit, request, min) ==
  "replicas" :> Value(2, NoUnit) @@ "image" :> Value(2, NoUnit) @@ "minReplicas" :> min
    @@ "memory limit" :> limit @@ "memory request" :> request
    @@ "cpu limit" :> Value(1, "m") @@ "cpu request" :> Value(2, "m")

\* A complete manifest, and one without a memory request, with a minimum of
\* zero, and with a limit in a unit that a bump cannot parse.
MCFiles == {File(Value(2, "Mi"), Value(2, "Mi"), Value(1, NoUnit)),
            File(Value(1, "m"), None, Value(0, NoUnit))}

MCInit ==
  /\ Init /\ VerifierInit
  /\ part \in {"action", "verifier"}
  /\ part = "verifier" => repo.file["memory request"] # None

MCNext ==
  /\ \/ part = "action" /\ Next /\ UNCHANGED verifierVars
     \/ part = "verifier" /\ VerifierNext /\ UNCHANGED vars
  /\ UNCHANGED part

MCSpec == MCInit /\ [][MCNext]_<<vars, verifierVars, part>>

\* Every variable of the two has its type.
MCTypeOK == TypeOK /\ VerifierTypeOK
=============================================================================
