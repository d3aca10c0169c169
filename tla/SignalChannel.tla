--------------------------- MODULE SignalChannel ---------------------------
(***************************************************************************)
(* The channel every source of signals shares (Ingestor.signals), the      *)
(* context that ends them all, and the correlator's loop at the other end. *)
(* A signal is what the correlator tells apart: a key and a reason.        *)
(***************************************************************************)
EXTENDS Integers, Sequences, SequencesExt

CONSTANT SignalBufSize

ASSUME SignalChannelAssumption == SignalBufSize \in Nat \ {0}

VARIABLES
  signals,   \* the buffered channel
  live       \* parentCtx is not cancelled

channelVars == <<signals, live>>

BugNoBound == TRUE
Room == Len(signals) < SignalBufSize

\* "out <- sig" waits for room; a select with a default drops the signal.
Send(s) == Room /\ signals' = Append(signals, s)

TrySend(s) == signals' = IF Room THEN Append(signals, s) ELSE signals

\* The correlator's loop, until its context is cancelled.
Take == live /\ signals # <<>> /\ signals' = Tail(signals) /\ UNCHANGED live
=============================================================================
