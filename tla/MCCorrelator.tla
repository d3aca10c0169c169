---------------------------- MODULE MCCorrelator ----------------------------
(* An instance of the correlator for TLC: two resources that fail.          *)
EXTENDS Correlator

CONSTANTS k1, k2, r1

MCSignals == {[key |-> k1, reason |-> r1, sev |-> 0],
              [key |-> k2, reason |-> r1, sev |-> 1]}
=============================================================================
