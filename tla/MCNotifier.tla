----------------------------- MODULE MCNotifier -----------------------------
EXTENDS ApprovalRegistry, OutgoingCalls

VARIABLE part  \* which of the two a behaviour is about; the other rests

all == <<vars, outVars, part>>

MCInit == Init /\ OutInit /\ part \in {"approval", "calls"}

Approval(A) == part = "approval" /\ A /\ UNCHANGED <<outVars, part>>
Outgoing(A) == part = "calls" /\ A /\ UNCHANGED <<vars, part>>

MCNext == Approval(Next) \/ Outgoing(OutNext)

\* Fairness and OutFairness, each where its part is at work.
MCSpec ==
  /\ MCInit /\ [][MCNext]_all
  /\ WF_all(Approval(Tick))
  /\ \A r \in Requests : WF_all(Approval(Call(r) /\ pc[r] # "new"))
  /\ \A c \in Callers : WF_all(Outgoing(GoOn(c)))

\* Every variable of the two has its type.
MCTypeOK == TypeOK /\ OutTypeOK

\* Every call returns, so that no pipeline holds its worker for ever: the one
\* that waits for a human, and those to other services.
CallsReturn ==
  /\ \A r \in Requests : pc[r] = "persist" ~> pc[r] \in {"done", "lost"}
  /\ \A c \in Callers : call[c].step = "start" ~> call[c].step = "done"
=============================================================================
