--------------------------- MODULE NotifierProofs ---------------------------
(***************************************************************************)
(* Theorems about approvals, for every number of requests and of goroutines*)
(* that serve answers, and every timeout; and about the calls to other     *)
(* services, for every number of callers, retries and reloads.             *)
(***************************************************************************)
EXTENDS MCNotifier, FiniteSetTheorems, TLAPS

-----------------------------------------------------------------------------
(* Approvals.                                                              *)

Wins(h, r) == handler[h].step \in {"forget", "send"} /\ handler[h].req = r

-----------------------------------------------------------------------------
(* Type correctness.                                                       *)

LEMMA InitTypeOK == Init => TypeOK
<1> SUFFICES ASSUME Init PROVE TypeOK
  OBVIOUS
<1>1. 0 \in 0..(Timeout + 1) /\ 0 \in 0..Timeout
  BY TimeoutAssumption
<1>2. /\ age \in [Requests -> 0..(Timeout + 1)]
      /\ waited \in [Requests -> 0..Timeout]
  BY <1>1 DEF Init
<1>3. /\ pc \in [Requests -> Steps]
      /\ result \in [Requests -> Decisions \union {"none"}]
      /\ entries \subseteq Requests /\ rows \subseteq Requests
      /\ ch \in [Requests -> Answers \union {"none"}]
      /\ handler \in [Handlers -> Serving \union {Idle}]
      /\ accepted \in [Requests -> Answers \union {"none"}]
  BY DEF Init, Steps
<1>4. up \in BOOLEAN /\ ctxDone \in BOOLEAN /\ storeFailed \in BOOLEAN
  BY DEF Init
<1> QED  BY <1>2, <1>3, <1>4 DEF TypeOK

LEMMA ReturnTypeOK ==
  ASSUME TypeOK, NEW r \in Requests, NEW from, NEW d \in Decisions,
         Return(r, from, d)
  PROVE  TypeOK'
  BY DEF TypeOK, Return, Step, Steps, procVars, registry, store, time

LEMMA CallTypeOK ==
  ASSUME TypeOK, NEW r \in Requests, Call(r)
  PROVE  TypeOK'
<1> USE DEF Step, Steps, procVars, registry, store, time
<1>1. CASE NoCredentials(r)
  BY <1>1 DEF NoCredentials, TypeOK, Decisions, Answers
<1>2. CASE Register(r)  BY <1>2 DEF Register, TypeOK
<1>3. CASE UpsertApproval(r)  BY <1>3 DEF UpsertApproval, Writes, TypeOK
<1>4. CASE Deliver(r)  BY <1>4 DEF Deliver, TypeOK
<1>5. CASE PostFails(r)
  BY <1>5, ReturnTypeOK DEF PostFails, Decisions, Answers
<1>6. CASE PostSucceeds(r)  BY <1>6 DEF PostSucceeds, TypeOK
<1>7. CASE TakeAnswer(r)
  <2>1. ch[r] \in Decisions
    BY <1>7 DEF TakeAnswer, TypeOK, Decisions
  <2> QED  BY <1>7, <2>1, ReturnTypeOK DEF TakeAnswer
<1>8. CASE TimesOut(r)  BY <1>8, ReturnTypeOK DEF TimesOut, Decisions
<1>9. CASE Cancelled(r)
  BY <1>9, ReturnTypeOK DEF Cancelled, Decisions, Answers
<1>10. CASE Remove(r)  BY <1>10 DEF Remove, TypeOK
<1>11. CASE DeleteApproval(r)
  BY <1>11 DEF DeleteApproval, RowsWithout, Writes, TypeOK
<1> QED
  BY <1>1, <1>2, <1>3, <1>4, <1>5, <1>6, <1>7, <1>8, <1>9, <1>10, <1>11
     DEF Call

\* What the steps of a handler do to its record.
LEMMA HandlerStep ==
  ASSUME TypeOK, NEW h \in Handlers, Answer(h)
  PROVE  /\ handler[h] \in Serving
         /\ handler'[h] = Idle \/ handler'[h] \in Serving
         /\ handler' = [handler EXCEPT ![h] = handler'[h]]
<1>1. handler \in [Handlers -> Serving \union {Idle}]  BY DEF TypeOK
<1>2. handler[h].step # "idle"
  BY DEF Answer, Resolve, Forget, Send
<1>3. handler[h] \in Serving
  BY <1>1, <1>2 DEF Idle
<1>4. \A s \in {"forget", "send"} : [handler[h] EXCEPT !.step = s] \in Serving
  BY <1>3 DEF Serving
<1>5. \/ handler' = [handler EXCEPT ![h] = Idle]
      \/ \E s \in {"forget", "send"} :
           handler' = [handler EXCEPT ![h] = [handler[h] EXCEPT !.step = s]]
  BY <1>1 DEF Answer, Resolve, Forget, Send
<1> QED  BY <1>1, <1>3, <1>4, <1>5

LEMMA AnswerTypeOK ==
  ASSUME TypeOK, NEW h \in Handlers, Answer(h)
  PROVE  TypeOK'
<1>1. handler' \in [Handlers -> Serving \union {Idle}]
  BY HandlerStep DEF TypeOK
<1>2. handler[h].req \in Requests /\ handler[h].dec \in Answers
  BY HandlerStep DEF Serving
<1> USE <1>1, <1>2 DEF procVars, registry, store, time
<1>3. CASE Resolve(h)  BY <1>3 DEF Resolve, Resolved, TypeOK
<1>4. CASE Forget(h)  BY <1>4 DEF Forget, Writes, TypeOK
<1>5. CASE Send(h)  BY <1>5 DEF Send, TypeOK
<1> QED  BY <1>3, <1>4, <1>5 DEF Answer

\* A click starts a handler and does nothing else.
LEMMA ClickStep ==
  ASSUME TypeOK, NEW h \in Handlers, NEW r \in Requests, NEW d \in Answers,
         SlackClick(h, r, d) \/ WebClick(h, r, d)
  PROVE  /\ handler' = [handler EXCEPT ![h] =
                          [step |-> "resolve", req |-> r, dec |-> d]]
         /\ UNCHANGED <<procVars, pc, result, registry, store, time, accepted>>
  BY DEF SlackClick, WebClick, Serve

LEMMA NextTypeOK == TypeOK /\ [Next]_vars => TypeOK'
<1> SUFFICES ASSUME TypeOK, [Next]_vars PROVE TypeOK'
  OBVIOUS
<1> USE DEF procVars, registry, store, time
<1>1. CASE Tick
  <2>1. \A a, b \in Nat : Min2(a, b) \in 0..b
    BY DEF Min2
  <2>2. /\ age' \in [Requests -> 0..(Timeout + 1)]
        /\ waited' \in [Requests -> 0..Timeout]
    <3>1. ASSUME NEW r \in Requests
          PROVE  /\ Min2(age[r] + 1, Timeout + 1) \in 0..(Timeout + 1)
                 /\ Min2(waited[r] + 1, Timeout) \in 0..Timeout
      <4>1. age[r] \in 0..(Timeout + 1) /\ waited[r] \in 0..Timeout
        BY DEF TypeOK
      <4>2. /\ age[r] + 1 \in Nat /\ Timeout + 1 \in Nat
            /\ waited[r] + 1 \in Nat /\ Timeout \in Nat
        BY <4>1, TimeoutAssumption
      <4> QED  BY <2>1, <4>2
    <3>2. /\ age' \in [Requests -> 0..(Timeout + 1)]
      BY <1>1, <3>1 DEF Tick, TypeOK
    <3>3. waited' \in [Requests -> 0..Timeout]
      BY <1>1, <3>1 DEF Tick, TypeOK
    <3> QED  BY <3>2, <3>3
  <2> QED  BY <1>1, <2>2 DEF Tick, TypeOK
<1>2. CASE Cancel  BY <1>2 DEF Cancel, TypeOK
<1>3. CASE Crash  BY <1>3 DEF Crash, TypeOK, Steps
<1>4. CASE Restart  BY <1>4 DEF Restart, TypeOK
<1>5. ASSUME NEW r \in Requests, Call(r)
      PROVE  TypeOK'
  BY <1>5, CallTypeOK
<1>6. ASSUME NEW h \in Handlers, Answer(h)
      PROVE  TypeOK'
  BY <1>6, AnswerTypeOK
<1>7. ASSUME NEW h \in Handlers, NEW r \in Requests, NEW d \in Answers,
             SlackClick(h, r, d) \/ WebClick(h, r, d)
      PROVE  TypeOK'
  <2>1. [step |-> "resolve", req |-> r, dec |-> d] \in Serving
    BY DEF Serving
  <2> QED  BY <1>7, <2>1, ClickStep DEF TypeOK
<1>8. CASE UNCHANGED vars  BY <1>8 DEF vars, TypeOK
<1> QED
  BY <1>1, <1>2, <1>3, <1>4, <1>5, <1>6, <1>7, <1>8 DEF Next

-----------------------------------------------------------------------------
(* One answer.  An entry can be resolved because nothing was accepted for  *)
(* its request yet; what is accepted stays accepted, since a request is    *)
(* registered once; and it is held either by the one handler that resolved *)
(* it or by the channel.                                                   *)

Unanswered == \A r \in Requests :
  /\ r \in entries => pc[r] # "new"
  /\ r \in entries \/ pc[r] = "new" => accepted[r] = "none"

HeldOnce ==
  /\ \A r \in Requests : ch[r] # "none" => accepted[r] = ch[r]
  /\ \A h \in Handlers, r \in Requests : Wins(h, r) =>
       /\ accepted[r] = handler[h].dec
       /\ ch[r] = "none"
       /\ \A k \in Handlers : Wins(k, r) => k = h

Returned == \A r \in Requests :
  /\ pc[r] \in {"new", "persist", "post", "delivered", "wait"} =>
       result[r] = "none"
  /\ result[r] = "APPROVED" => accepted[r] = "APPROVED"

Held == Unanswered /\ HeldOnce /\ Returned

LEMMA InitHeld == Init => Held
  BY DEF Init, Held, Unanswered, HeldOnce, Returned, Wins, Idle

LEMMA CallHeld ==
  ASSUME TypeOK, Held, NEW r \in Requests, Call(r)
  PROVE  Held'
<1> USE DEF Held, Unanswered, HeldOnce, Returned, Wins, TypeOK, Step, procVars,
            registry, store, time
<1>1. CASE NoCredentials(r)  BY <1>1 DEF NoCredentials
<1>2. CASE Register(r)  BY <1>2 DEF Register
<1>3. CASE UpsertApproval(r)  BY <1>3 DEF UpsertApproval
<1>4. CASE Deliver(r)  BY <1>4 DEF Deliver
<1>5. CASE PostFails(r)  BY <1>5 DEF PostFails, Return
<1>6. CASE PostSucceeds(r)  BY <1>6 DEF PostSucceeds
<1>7. CASE TakeAnswer(r)  BY <1>7 DEF TakeAnswer, Return
<1>8. CASE TimesOut(r)  BY <1>8 DEF TimesOut, Return
<1>9. CASE Cancelled(r)  BY <1>9 DEF Cancelled, Return
<1>10. CASE Remove(r)  BY <1>10 DEF Remove
<1>11. CASE DeleteApproval(r)  BY <1>11 DEF DeleteApproval
<1> QED
  BY <1>1, <1>2, <1>3, <1>4, <1>5, <1>6, <1>7, <1>8, <1>9, <1>10, <1>11
     DEF Call

LEMMA AnswerHeld ==
  ASSUME TypeOK, Held, NEW h \in Handlers, Answer(h)
  PROVE  Held'
<1>0. /\ handler[h] \in Serving
      /\ handler \in [Handlers -> Serving \union {Idle}]
      /\ handler' = [handler EXCEPT ![h] = handler'[h]]
  BY HandlerStep DEF TypeOK
<1>1. PICK r \in Requests, d \in Answers :
             handler[h].req = r /\ handler[h].dec = d
  BY <1>0 DEF Serving
<1>2. d # "none"
  BY DEF Answers
<1> USE DEF Held, Unanswered, HeldOnce, Returned, Wins, registry, store
<1>3. CASE Resolve(h)
  <2>1. CASE r \in entries
    <3>1. /\ entries' = entries \ {r}
          /\ accepted' = [accepted EXCEPT ![r] = d]
          /\ UNCHANGED <<pc, result, ch>>
          /\ handler' = [handler EXCEPT ![h].step = "forget"]
      BY <1>1, <1>3, <2>1 DEF Resolve, Resolved
    <3>2. /\ handler'[h].step = "forget" /\ handler'[h].req = r
          /\ handler'[h].dec = d
      BY <1>0, <1>1, <3>1 DEF Serving
    <3>3. ASSUME NEW k \in Handlers, Wins(k, r)
          PROVE  FALSE
      <4>1. accepted[r] = "none" /\ accepted[r] = handler[k].dec
        BY <2>1, <3>3
      <4>2. handler[k] \in Serving
        BY <1>0, <3>3 DEF Idle
      <4> QED  BY <4>1, <4>2 DEF Serving, Answers
    <3>4. ch[r] = "none"
      BY <2>1
    <3>5. \A q \in Requests :
            accepted'[q] = IF q = r THEN d ELSE accepted[q]
      BY <3>1 DEF TypeOK
    <3>6. \A k \in Handlers, q \in Requests :
            Wins(k, q)' => IF k = h THEN q = r
                           ELSE Wins(k, q) /\ handler'[k] = handler[k] /\ q # r
      BY <1>0, <3>2, <3>3
    <3>7. Unanswered' /\ Returned'
      BY <2>1, <3>1, <3>5
    <3>8. \A q \in Requests : ch'[q] # "none" => accepted'[q] = ch'[q]
      BY <3>1, <3>4, <3>5
    <3>9. ASSUME NEW k \in Handlers, NEW q \in Requests, Wins(k, q)'
          PROVE  /\ accepted'[q] = handler'[k].dec /\ ch'[q] = "none"
                 /\ \A j \in Handlers : Wins(j, q)' => j = k
      <4>1. CASE k = h
        BY <3>1, <3>2, <3>4, <3>5, <3>6, <3>9, <4>1
      <4>2. CASE k # h
        BY <3>1, <3>5, <3>6, <3>9, <4>2
      <4> QED  BY <4>1, <4>2
    <3> QED  BY <3>7, <3>8, <3>9
  <2>2. CASE r \notin entries
    BY <1>0, <1>1, <1>3, <2>2 DEF Resolve, Idle, TypeOK
  <2> QED  BY <2>1, <2>2
<1>4. CASE Forget(h)
  <2>1. /\ handler' = [handler EXCEPT ![h].step = "send"]
        /\ handler[h].step = "forget"
        /\ UNCHANGED <<pc, result, entries, ch, accepted>>
    BY <1>4 DEF Forget
  <2>2. /\ handler'[h].step = "send" /\ handler'[h].req = r
        /\ handler'[h].dec = d
    BY <1>0, <1>1, <2>1 DEF Serving
  <2> QED  BY <1>0, <1>1, <2>1, <2>2
<1>5. CASE Send(h)
  <2>1. /\ ch' = [ch EXCEPT ![r] = d] /\ accepted[r] = d
        /\ handler' = [handler EXCEPT ![h] = Idle]
        /\ UNCHANGED <<pc, result, entries, accepted>>
        /\ \A k \in Handlers : Wins(k, r) => k = h
    <3>1. Wins(h, r)
      BY <1>1, <1>5 DEF Send
    <3>2. ch[r] = "none" /\ accepted[r] = d /\ \A k \in Handlers : Wins(k, r) => k = h
      BY <1>1, <3>1 DEF HeldOnce
    <3>3. /\ ch' = [ch EXCEPT ![r] = IF @ = "none" THEN d ELSE @]
          /\ handler' = [handler EXCEPT ![h] = Idle]
          /\ UNCHANGED <<pc, result, entries, accepted>>
      BY <1>1, <1>5 DEF Send
    <3> QED  BY <3>2, <3>3
  <2>2. \A q \in Requests : ch'[q] = IF q = r THEN d ELSE ch[q]
    BY <2>1 DEF TypeOK
  <2>3. \A k \in Handlers, q \in Requests :
          Wins(k, q)' => Wins(k, q) /\ handler'[k] = handler[k] /\ q # r
    BY <1>0, <2>1 DEF Idle
  <2>4. \A q \in Requests : ch'[q] # "none" => accepted'[q] = ch'[q]
    BY <2>1, <2>2
  <2>5. ASSUME NEW k \in Handlers, NEW q \in Requests, Wins(k, q)'
        PROVE  /\ accepted'[q] = handler'[k].dec /\ ch'[q] = "none"
               /\ \A j \in Handlers : Wins(j, q)' => j = k
    BY <2>1, <2>2, <2>3, <2>5
  <2> QED  BY <2>1, <2>4, <2>5
<1> QED  BY <1>3, <1>4, <1>5 DEF Answer

LEMMA NextHeld == TypeOK /\ Held /\ [Next]_vars => Held'
<1> SUFFICES ASSUME TypeOK, Held, [Next]_vars PROVE Held'
  OBVIOUS
<1> USE DEF procVars, registry, store
<1>1. CASE UNCHANGED <<pc, result, entries, ch, handler, accepted>>
  BY <1>1 DEF Held, Unanswered, HeldOnce, Returned, Wins
<1>2. CASE Tick \/ Cancel \/ Restart \/ UNCHANGED vars
  BY <1>1, <1>2 DEF Tick, Cancel, Restart, vars
<1>3. CASE Crash
  BY <1>3 DEF Crash, Held, Unanswered, HeldOnce, Returned, Wins, Idle, TypeOK
<1>4. ASSUME NEW r \in Requests, Call(r)
      PROVE  Held'
  BY <1>4, CallHeld
<1>5. ASSUME NEW h \in Handlers, Answer(h)
      PROVE  Held'
  BY <1>5, AnswerHeld
<1>6. ASSUME NEW h \in Handlers, NEW r \in Requests, NEW d \in Answers,
             SlackClick(h, r, d) \/ WebClick(h, r, d)
      PROVE  Held'
  BY <1>6, ClickStep DEF Held, Unanswered, HeldOnce, Returned, Wins, TypeOK
<1> QED  BY <1>1, <1>2, <1>3, <1>4, <1>5, <1>6 DEF Next

LEMMA AlwaysHeld == Spec => [](TypeOK /\ Held)
  BY InitTypeOK, NextTypeOK, InitHeld, NextHeld, PTL DEF Spec

\* APPROVED is only returned where a human approved this request.
THEOREM ApprovalFailsClosed == Spec => []FailClosed
<1>1. Held => FailClosed
  BY DEF Held, Returned, FailClosed
<1> QED  BY <1>1, AlwaysHeld, PTL

\* However many goroutines serve answers to a request, one wins.
THEOREM AnswersAreUnique == Spec => []OneAnswerWins
<1>1. ASSUME TypeOK, Held, NEW r \in Requests
      PROVE  Cardinality({h \in Handlers : Wins(h, r)})
               + (IF ch[r] = "none" THEN 0 ELSE 1) <= 1
  <2> DEFINE winners == {h \in Handlers : Wins(h, r)}
  <2>1. CASE winners = {}
    BY <2>1, FS_EmptySet
  <2>2. ASSUME NEW h \in winners
        PROVE  Cardinality(winners) = 1 /\ ch[r] = "none"
    <3>1. winners = {h} /\ ch[r] = "none"
      BY <1>1, <2>2 DEF Held, HeldOnce
    <3> QED  BY <3>1, FS_Singleton
  <2> QED  BY <2>1, <2>2
<1>2. TypeOK /\ Held => OneAnswerWins
  BY <1>1 DEF OneAnswerWins, Wins
<1> QED  BY <1>2, AlwaysHeld, PTL

-----------------------------------------------------------------------------
(* What is left behind.                                                    *)

Tidy ==
  /\ \A r \in entries : pc[r] \notin {"new", "unstore", "done", "lost"}
  /\ ~storeFailed => \A r \in rows : pc[r] \notin {"new", "done"}

LEMMA NextTidy == TypeOK /\ Tidy /\ [Next]_vars => Tidy'
<1> SUFFICES ASSUME TypeOK, Tidy, [Next]_vars PROVE Tidy'
  OBVIOUS
<1> USE DEF Tidy, TypeOK, Step, procVars, registry, store, time, Writes
<1>1. CASE UNCHANGED <<pc, entries, rows, storeFailed>>
  BY <1>1
<1>2. CASE Tick \/ Cancel \/ Restart \/ UNCHANGED vars
  BY <1>1, <1>2 DEF Tick, Cancel, Restart, vars
<1>3. CASE Crash  BY <1>3 DEF Crash
<1>4. ASSUME NEW r \in Requests, Call(r)
      PROVE  Tidy'
  <2>1. CASE NoCredentials(r)  BY <2>1 DEF NoCredentials
  <2>2. CASE Register(r) \/ UpsertApproval(r)
    BY <2>2 DEF Register, UpsertApproval
  <2>3. CASE Deliver(r) \/ PostSucceeds(r)
    BY <2>3 DEF Deliver, PostSucceeds
  <2>4. CASE PostFails(r) \/ TakeAnswer(r) \/ TimesOut(r) \/ Cancelled(r)
    BY <2>4 DEF PostFails, TakeAnswer, TimesOut, Cancelled, Return
  <2>5. CASE Remove(r)  BY <2>5 DEF Remove
  <2>6. CASE DeleteApproval(r)  BY <2>6 DEF DeleteApproval, RowsWithout
  <2> QED  BY <1>4, <2>1, <2>2, <2>3, <2>4, <2>5, <2>6 DEF Call
<1>5. ASSUME NEW h \in Handlers, Answer(h)
      PROVE  Tidy'
  BY <1>5 DEF Answer, Resolve, Resolved, Forget, Send
<1>6. ASSUME NEW h \in Handlers, NEW r \in Requests, NEW d \in Answers,
             SlackClick(h, r, d) \/ WebClick(h, r, d)
      PROVE  Tidy'
  BY <1>1, <1>6, ClickStep
<1> QED  BY <1>1, <1>2, <1>3, <1>4, <1>5, <1>6 DEF Next

\* No entry outlives the call that waits for it, and no row a finished call
\* whose store worked, whoever deleted last.
THEOREM NothingStaysBehind == Spec => []NothingLeftBehind
<1>1. Init => Tidy
  BY DEF Init, Tidy
<1>2. Tidy => NothingLeftBehind
  BY DEF Tidy, NothingLeftBehind
<1> QED
  BY <1>1, <1>2, InitTypeOK, NextTypeOK, NextTidy, PTL DEF Spec

-----------------------------------------------------------------------------
(* Calls to other services.                                                *)

MaxAttempt == IF MaxRetries > 3 THEN MaxRetries ELSE 3

CallType ==
  [kind : Kinds, leg : 1..2,
   step : {"idle", "start", "post", "send", "backoff", "done"},
   channel : Credentials, token : Credentials, attempt : 0..MaxAttempt,
   ok : BOOLEAN]

\* The history of failures is counted without a bound.
OutTypes == OutTypeOK /\ failures \in [Callers -> [Services -> Nat]]

LEMMA Plans ==
  /\ Plan("Escalate") = <<"slack", "pagerduty">>
  /\ Plan("Diagnose") = <<"diagnoser">>
  /\ Plan("Report") = <<"learner">>
  BY DEF Plan

LEMMA PlanLengths ==
  /\ Len(Plan("Escalate")) = 2
  /\ Len(Plan("Diagnose")) = 1
  /\ Len(Plan("Report")) = 1
  BY Plans

LEMMA TwoLegs ==
  ASSUME NEW kind \in Kinds, Len(Plan(kind)) = 2
  PROVE  kind = "Escalate"
<1>1. Len(Plan("Diagnose")) # 2 /\ Len(Plan("Report")) # 2
  BY Plans
<1>2. kind # "Diagnose" /\ kind # "Report"
  BY <1>1, Zenon
<1> QED  BY <1>2 DEF Kinds

LEMMA PlanServices ==
  /\ Plan("Escalate")[1] = "slack" /\ Plan("Escalate")[2] = "pagerduty"
  /\ Plan("Diagnose")[1] = "diagnoser" /\ Plan("Report")[1] = "learner"
  BY Plans

LEMMA RetriesBounded ==
  \A s \in Services : Retries(s) \in Nat /\ Retries(s) <= MaxAttempt
<1>1. MaxAttempt \in Nat /\ 3 <= MaxAttempt
  BY OutgoingAssumption DEF MaxAttempt
<1>2. (IF MaxRetries <= 0 THEN 3 ELSE MaxRetries) \in Nat
  BY OutgoingAssumption
<1>3. (IF MaxRetries <= 0 THEN 3 ELSE MaxRetries) <= MaxAttempt
  BY OutgoingAssumption DEF MaxAttempt
<1>4. Retries("slack") = (IF MaxRetries <= 0 THEN 3 ELSE MaxRetries)
  BY DEF Retries
<1>5. Retries("pagerduty") = (IF MaxRetries <= 0 THEN 3 ELSE MaxRetries)
  BY DEF Retries
<1>6. Retries("diagnoser") = 3 /\ Retries("learner") = 0
  BY DEF Retries
<1> QED  BY <1>1, <1>2, <1>3, <1>4, <1>5, <1>6 DEF Services

-----------------------------------------------------------------------------
(* How far a call is.                                                      *)

\* A leg that is over was dealt with, in one of the ways CallsDeliver allows.
Dealt(c, s) == \/ Reached(c, s) \/ cancelled \/ <<c, s>> \in excused
               \/ failures[c][s] > Retries(s)

Progress(c) ==
  /\ call[c].step = "idle" => call[c].leg = 1 /\ call[c].attempt = 0
  /\ call[c].step = "post" => service(c) = "slack"
  /\ call[c].leg <= Len(Plan(call[c].kind))
  /\ call[c].leg = 2 => Dealt(c, Plan(call[c].kind)[1])
  /\ call[c].step = "done" =>
       /\ call[c].leg = Len(Plan(call[c].kind))
       /\ Dealt(c, service(c))
       /\ call[c].ok => Reached(c, service(c))
  /\ failures[c][service(c)] >= call[c].attempt

\* PagerDuty is reached in the second leg only, with the key read at its start.
OneKey(c) == \A r \in reached : r[1] = c /\ r[2] = "pagerduty" =>
  /\ call[c].kind = "Escalate" /\ call[c].leg = 2
  /\ call[c].step \in {"send", "backoff", "done"}
  /\ r = <<c, "pagerduty", call[c].token>>

OutIInv == OutTypes /\ \A c \in Callers : Progress(c) /\ OneKey(c)

LEMMA ServiceOf ==
  ASSUME OutTypes, NEW c \in Callers, call[c].leg <= Len(Plan(call[c].kind))
  PROVE  /\ service(c) \in Services
         /\ service(c) = "slack" <=> call[c].kind = "Escalate" /\ call[c].leg = 1
         /\ service(c) = "pagerduty" <=> call[c].kind = "Escalate" /\ call[c].leg = 2
         /\ service(c) = "diagnoser" <=> call[c].kind = "Diagnose"
<1>1. call[c].kind \in Kinds /\ call[c].leg \in 1..2
  BY DEF OutTypes, OutTypeOK
<1> QED
  BY <1>1, PlanLengths, PlanServices DEF service, Services, Kinds

-----------------------------------------------------------------------------
(* Initially, and one step of a caller.                                    *)

LEMMA InitOutIInv == OutInit => OutIInv
<1> SUFFICES ASSUME OutInit PROVE OutIInv
  OBVIOUS
<1>1. NoKey \in Credentials /\ 0 \in Credentials
  BY OutgoingAssumption DEF Credentials
<1>2. MaxAttempt \in Nat
  BY OutgoingAssumption DEF MaxAttempt
<1>3. IdleCall \in CallType
  BY <1>1, <1>2 DEF IdleCall, CallType, Kinds
<1>4. call \in [Callers -> CallType]
  BY <1>3 DEF OutInit
<1>5. /\ creds \in [slack : Credentials, pagerduty : Credentials]
      /\ reload \in {<<>>} \union {<<k>> : k \in Credentials}
      /\ reloads \in 0..MaxReloads
      /\ reached \subseteq Callers \X Services \X Credentials
      /\ excused \subseteq Callers \X Services
      /\ failures \in [Callers -> [Services -> Nat]]
  BY <1>1, OutgoingAssumption DEF OutInit
<1>6. cancelled \in BOOLEAN
  BY DEF OutInit
<1>7. OutTypes
  BY <1>4, <1>5, <1>6 DEF OutTypes, OutTypeOK, CallType, MaxAttempt
<1>8. ASSUME NEW c \in Callers
      PROVE  Progress(c) /\ OneKey(c)
  <2>1. call[c] = IdleCall /\ reached = {}
    BY DEF OutInit
  <2>2. service(c) \in Services
    BY <1>7, <2>1, ServiceOf, PlanLengths DEF IdleCall
  <2>3. failures[c][service(c)] = 0
    BY <2>2 DEF OutInit
  <2> QED
    BY <2>1, <2>3, PlanLengths DEF IdleCall, Progress, OneKey
<1> QED  BY <1>7, <1>8 DEF OutIInv

\* What a caller's step leaves the others.
Grows(c) ==
  /\ \A h \in Callers \ {c} : call'[h] = call[h] /\ failures'[h] = failures[h]
  /\ reached \subseteq reached' /\ \A r \in reached' \ reached : r[1] = c
  /\ excused \subseteq excused' /\ cancelled' = cancelled

LEMMA OthersProgress ==
  ASSUME NEW c \in Callers, Grows(c), NEW h \in Callers \ {c},
         Progress(h) /\ OneKey(h)
  PROVE  (Progress(h) /\ OneKey(h))'
<1>1. /\ call'[h] = call[h] /\ failures'[h] = failures[h]
      /\ service(h)' = service(h)
  BY DEF Grows, service
<1>2. \A s : /\ Reached(h, s) => Reached(h, s)'
             /\ Dealt(h, s) => Dealt(h, s)'
  BY <1>1 DEF Grows, Dealt, Reached
<1>3. Progress(h)'
  BY <1>1, <1>2 DEF Progress
<1>4. OneKey(h)'
  BY <1>1 DEF OneKey, Grows
<1> QED  BY <1>3, <1>4

\* A leg that ends was dealt with, and the last one may have succeeded.
LEMMA EndLegProgress ==
  ASSUME OutTypes, NEW c \in Callers, Progress(c), NEW ok \in BOOLEAN,
         EndLeg(c, ok), call[c].step # "idle", call[c].step # "done",
         NEW s, s = service(c), Dealt(c, s)',
         ok => Reached(c, s)',
         failures' \in [Callers -> [Services -> Nat]],
         failures'[c][s] >= call[c].attempt,
         NEW first, first = Plan(call[c].kind)[1],
         Dealt(c, first) => Dealt(c, first)'
  PROVE  /\ call' \in [Callers -> CallType] /\ Progress(c)'
         /\ call' = [call EXCEPT ![c] = call'[c]]
         /\ \/ call'[c].step = "done" /\ call'[c].token = call[c].token
               /\ call'[c].kind = call[c].kind /\ call'[c].leg = call[c].leg
            \/ call[c].leg = 1 /\ call'[c].step = "start"
<1>1. /\ call \in [Callers -> CallType]
      /\ call[c] \in CallType /\ call[c].leg \in 1..2 /\ call[c].kind \in Kinds
  BY DEF OutTypes, OutTypeOK, CallType, MaxAttempt
<1>2. call[c].leg <= Len(Plan(call[c].kind)) /\ Len(Plan(call[c].kind)) \in 1..2
  BY <1>1, PlanLengths DEF Progress, Kinds
<1>3. CASE call[c].leg = Len(Plan(call[c].kind))
  <2>1. call' = [call EXCEPT ![c] = [call[c] EXCEPT !.step = "done", !.ok = ok]]
    BY <1>3 DEF EndLeg
  <2>2. /\ [call[c] EXCEPT !.step = "done", !.ok = ok] \in CallType
        /\ call'[c] = [call[c] EXCEPT !.step = "done", !.ok = ok]
    BY <1>1, <2>1 DEF CallType
  <2>3. /\ call'[c].step = "done" /\ call'[c].ok = ok
        /\ call'[c].leg = call[c].leg /\ call'[c].kind = call[c].kind
        /\ call'[c].attempt = call[c].attempt /\ call'[c].token = call[c].token
    BY <1>1, <2>2 DEF CallType
  <2>4. service(c)' = s
    BY <2>3 DEF service
  <2>5. Plan(call[c].kind)[1]' = first
    BY <2>3
  <2>6. call[c].leg = 2 => Dealt(c, Plan(call[c].kind)[1])'
    BY <2>5 DEF Progress, Dealt, Reached
  <2>7. Progress(c)'
    BY <1>1, <1>2, <1>3, <2>3, <2>4, <2>6 DEF Progress
  <2> QED
    BY <1>1, <2>1, <2>2, <2>3, <2>7
<1>4. CASE call[c].leg # Len(Plan(call[c].kind))
  <2>1. call' = [call EXCEPT ![c] =
          [call[c] EXCEPT !.step = "start", !.leg = call[c].leg + 1, !.attempt = 0]]
    BY <1>4 DEF EndLeg
  <2>2. call[c].leg = 1 /\ call[c].kind = "Escalate"
    <3>1. call[c].leg = 1 /\ Len(Plan(call[c].kind)) = 2
      <4> DEFINE n == Len(Plan(call[c].kind))
      <4>1. n \in 1..2 /\ call[c].leg \in 1..2 /\ call[c].leg <= n /\ call[c].leg # n
        BY <1>1, <1>2, <1>4
      <4> HIDE DEF n
      <4>2. call[c].leg = 1 /\ n = 2
        BY <4>1
      <4> QED  BY <4>2 DEF n
    <3> QED  BY <1>1, <3>1, TwoLegs
  <2>3. [call[c] EXCEPT !.step = "start", !.leg = call[c].leg + 1, !.attempt = 0]
          \in CallType
    <3>1. 0 \in 0..MaxAttempt /\ call[c].leg + 1 \in 1..2
      BY <2>2, OutgoingAssumption DEF MaxAttempt
    <3> HIDE DEF MaxAttempt
    <3> QED  BY <1>1, <3>1 DEF CallType
  <2>4. /\ call'[c] = [call[c] EXCEPT !.step = "start", !.leg = call[c].leg + 1,
                                     !.attempt = 0]
        /\ call'[c].step = "start" /\ call'[c].leg = 2
        /\ call'[c].kind = "Escalate" /\ call'[c].attempt = 0
    BY <1>1, <2>1, <2>2 DEF CallType
  <2>5. s = "slack" /\ service(c)' = "pagerduty"
    BY <2>2, <2>4, PlanServices DEF service
  <2>6. failures'[c]["pagerduty"] >= 0
    BY DEF Services
  <2>7. Progress(c)'
    BY <2>4, <2>5, <2>6, PlanServices, PlanLengths DEF Progress
  <2> QED  BY <1>1, <2>1, <2>2, <2>3, <2>4, <2>7
<1> QED  BY <1>3, <1>4

\* What is the same for every step of a caller's call.
StepAlone(c) ==
  /\ Grows(c)
  /\ reached' \subseteq Callers \X Services \X Credentials
  /\ excused' \subseteq Callers \X Services
  /\ failures' \in [Callers -> [Services -> Nat]]
  /\ \A s \in Services : failures'[c][s] >= failures[c][s]
  /\ UNCHANGED <<creds, reload, reloads>>

LEMMA DealtStays ==
  ASSUME OutTypes, NEW c \in Callers, StepAlone(c), NEW s \in Services, Dealt(c, s)
  PROVE  Dealt(c, s)'
<1>1. failures[c][s] > Retries(s) => failures'[c][s] > Retries(s)
  <2>1. failures[c][s] \in Nat /\ failures'[c][s] \in Nat
        /\ Retries(s) \in Nat /\ failures'[c][s] >= failures[c][s]
    BY RetriesBounded DEF OutTypes, StepAlone
  <2> QED  BY <2>1
<1> QED  BY <1>1 DEF Dealt, Reached, StepAlone, Grows

\* A step within a leg.
LEMMA StayProgress ==
  ASSUME OutTypes, NEW c \in Callers, StepAlone(c), Progress(c),
         call'[c].kind = call[c].kind, call'[c].leg = call[c].leg,
         call'[c].step \in {"start", "post", "send", "backoff"},
         NEW s, s = service(c), call'[c].step = "post" => s = "slack", failures'[c][s] >= call'[c].attempt
  PROVE  Progress(c)'
<1> DEFINE first == Plan(call[c].kind)[1]
<1>1. first \in Services
  BY PlanServices DEF OutTypes, OutTypeOK, Kinds, Services
<1>2. first' = first /\ service(c)' = s
  BY DEF service
<1>3. Dealt(c, first) => Dealt(c, first)'
  <2> HIDE DEF first
  <2>1. SUFFICES ASSUME Dealt(c, first) PROVE Dealt(c, first)'
    OBVIOUS
  <2>2. PICK t \in Services : t = first
    BY <1>1
  <2>3. Dealt(c, t)'
    BY <2>1, <2>2, DealtStays
  <2> QED  BY <1>2, <2>2, <2>3 DEF Dealt, Reached
<1> QED  BY <1>2, <1>3 DEF Progress

\* PagerDuty's leg keeps its key; the other legs and a leg that has not sent
\* anything yet have nothing to keep.
LEMMA KeyStays ==
  ASSUME OutTypes, NEW c \in Callers, Progress(c), OneKey(c),
         reached' \subseteq reached \union {<<c, service(c), call[c].token>>},
         \/ /\ call'[c].kind = call[c].kind /\ call'[c].leg = call[c].leg
            /\ call'[c].token = call[c].token
            /\ call'[c].step \in {"send", "backoff", "done"}
         \/ call[c].leg = 1
         \/ /\ call[c].step \in {"idle", "start", "post"}
            /\ reached' = reached
  PROVE  OneKey(c)'
<1>1. service(c) = "pagerduty" <=> call[c].kind = "Escalate" /\ call[c].leg = 2
  BY ServiceOf DEF Progress
<1>2. CASE call[c].leg = 1 \/ /\ call[c].step \in {"idle", "start", "post"}
                              /\ reached' = reached
  <2>1. \A r \in reached' : ~(r[1] = c /\ r[2] = "pagerduty")
    BY <1>1, <1>2 DEF OneKey
  <2> QED  BY <2>1 DEF OneKey
<1>3. CASE /\ call'[c].kind = call[c].kind /\ call'[c].leg = call[c].leg
           /\ call'[c].token = call[c].token
           /\ call'[c].step \in {"send", "backoff", "done"}
  BY <1>1, <1>3 DEF OneKey
<1> QED  BY <1>2, <1>3

LEMMA TypesStep ==
  ASSUME OutTypes, NEW c \in Callers, StepAlone(c), call' \in [Callers -> CallType]
  PROVE  OutTypes'
  BY DEF OutTypes, OutTypeOK, StepAlone, Grows, CallType, MaxAttempt

\* A step of a call that ends its leg.
LEMMA EndsLeg ==
  ASSUME OutIInv, NEW c \in Callers, StepAlone(c), NEW ok \in BOOLEAN, EndLeg(c, ok),
         call[c].step \in {"start", "send", "backoff"},
         NEW s, s = service(c), Dealt(c, s)', ok => Reached(c, s)',
         reached' \subseteq reached \union {<<c, service(c), call[c].token>>},
         call[c].step = "start" => reached' = reached
  PROVE  OutIInv'
<1>1. OutTypes /\ Progress(c) /\ OneKey(c)
  BY DEF OutIInv
<1>2. PICK first : first = Plan(call[c].kind)[1]
  OBVIOUS
<1>3. first \in Services
  BY <1>1, <1>2, PlanServices DEF OutTypes, OutTypeOK, Kinds, Services
<1>4. s \in Services
  BY <1>1, ServiceOf DEF Progress
<1>5. failures'[c][s] >= call[c].attempt
  <2>1. failures'[c][s] >= failures[c][s] /\ failures[c][s] >= call[c].attempt
    BY <1>1, <1>4 DEF StepAlone, Progress
  <2>2. /\ failures'[c][s] \in Int /\ failures[c][s] \in Int
        /\ call[c].attempt \in Int
    BY <1>1, <1>4 DEF StepAlone, OutTypes, OutTypeOK
  <2> QED  BY <2>1, <2>2
<1>6. Dealt(c, first) => Dealt(c, first)'
  BY <1>1, <1>3, DealtStays
<1>7. failures' \in [Callers -> [Services -> Nat]]
  BY DEF StepAlone
<1>8. /\ call' \in [Callers -> CallType] /\ Progress(c)'
      /\ \/ call'[c].step = "done" /\ call'[c].token = call[c].token
            /\ call'[c].kind = call[c].kind /\ call'[c].leg = call[c].leg
         \/ call[c].leg = 1 /\ call'[c].step = "start"
  BY <1>1, <1>2, <1>5, <1>6, <1>7, EndLegProgress
<1>9. OneKey(c)'
  BY <1>1, <1>8, KeyStays
<1>10. OutTypes'
  BY <1>1, <1>8, TypesStep
<1>11. \A h \in Callers \ {c} : Progress(h)' /\ OneKey(h)'
  BY OthersProgress DEF OutIInv, StepAlone
<1> QED  BY <1>8, <1>9, <1>10, <1>11 DEF OutIInv

\* A step of a call within a leg.
LEMMA StaysInLeg ==
  ASSUME OutIInv, NEW c \in Callers, StepAlone(c), call' \in [Callers -> CallType],
         call'[c].kind = call[c].kind, call'[c].leg = call[c].leg,
         call'[c].step \in {"post", "send", "backoff"},
         NEW s, s = service(c), call'[c].step = "post" => s = "slack", failures'[c][s] >= call'[c].attempt,
         reached' \subseteq reached \union {<<c, service(c), call[c].token>>},
         \/ /\ call'[c].token = call[c].token
            /\ call'[c].step \in {"send", "backoff"}
         \/ call[c].step \in {"start", "post"} /\ reached' = reached
  PROVE  OutIInv'
<1>1. OutTypes /\ Progress(c) /\ OneKey(c)
  BY DEF OutIInv
<1>2. Progress(c)'
  BY <1>1, StayProgress
<1>3. OneKey(c)'
  BY <1>1, KeyStays
<1>4. OutTypes'
  BY <1>1, TypesStep
<1>5. \A h \in Callers \ {c} : Progress(h)' /\ OneKey(h)'
  BY OthersProgress DEF OutIInv, StepAlone
<1> QED  BY <1>2, <1>3, <1>4, <1>5 DEF OutIInv

-----------------------------------------------------------------------------
(* The steps one by one.                                                   *)

Reads(c) ==
  /\ reached' \in {reached, reached \union {<<c, service(c), call[c].token>>}}
  /\ excused' \in {excused, excused \union {<<c, service(c)>>}}
  /\ failures' \in {failures, [failures EXCEPT ![c][service(c)] = @ + 1]}
  /\ UNCHANGED <<cancelled, creds, reload, reloads>>

LEMMA StepOf ==
  ASSUME OutIInv, NEW c \in Callers, Reads(c),
         \A h \in Callers \ {c} : call'[h] = call[h]
  PROVE  StepAlone(c)
<1>1. PICK s \in Services : s = service(c)
  BY ServiceOf DEF OutIInv, Progress
<1>2. call[c].token \in Credentials
  BY DEF OutIInv, OutTypes, OutTypeOK
<1>3. /\ failures' \in [Callers -> [Services -> Nat]]
      /\ \A t \in Services : failures'[c][t] >= failures[c][t]
      /\ \A h \in Callers \ {c} : failures'[h] = failures[h]
  BY <1>1 DEF OutIInv, OutTypes, Reads
<1>4. /\ reached' \subseteq Callers \X Services \X Credentials
      /\ reached \subseteq reached' /\ \A r \in reached' \ reached : r[1] = c
  BY <1>1, <1>2 DEF OutIInv, OutTypes, OutTypeOK, Reads
<1>5. excused' \subseteq Callers \X Services /\ excused \subseteq excused'
  BY <1>1 DEF OutIInv, OutTypes, OutTypeOK, Reads
<1> QED  BY <1>3, <1>4, <1>5 DEF StepAlone, Grows, Reads

LEMMA GoOnOutIInv ==
  ASSUME OutIInv, NEW c \in Callers, GoOn(c)
  PROVE  OutIInv'
<1>0. /\ OutTypes /\ Progress(c) /\ call \in [Callers -> CallType]
      /\ call[c] \in CallType
      /\ failures[c][service(c)] >= call[c].attempt
      /\ creds.slack \in Credentials /\ creds.pagerduty \in Credentials
  BY DEF OutIInv, OutTypes, OutTypeOK, CallType, MaxAttempt, Progress
<1>1. PICK s \in Services : s = service(c)
  BY <1>0, ServiceOf DEF Progress
<1>2. ASSUME NEW ok, EndLeg(c, ok)
      PROVE  \A h \in Callers \ {c} : call'[h] = call[h]
  BY <1>0, <1>2 DEF EndLeg
<1>3. CASE StartLeg(c)
  <2>0. /\ call[c].step = "start" /\ reached' = reached /\ failures' = failures
        /\ excused' \in {excused, excused \union {<<c, service(c)>>}}
        /\ UNCHANGED <<cancelled, creds, reload, reloads>>
    BY <1>3 DEF StartLeg
  <2>1. Reads(c)
    BY <2>0 DEF Reads
  <2>2. ASSUME call' = [call EXCEPT ![c].step = "post", ![c].channel = creds.slack],
               service(c) = "slack"
        PROVE  OutIInv'
    <3>1. /\ call' \in [Callers -> CallType]
          /\ call'[c].kind = call[c].kind /\ call'[c].leg = call[c].leg
          /\ call'[c].step = "post" /\ call'[c].attempt = call[c].attempt
          /\ \A h \in Callers \ {c} : call'[h] = call[h]
      BY <1>0, <2>2 DEF CallType
    <3> QED  BY <1>0, <1>1, <2>0, <2>1, <2>2, <3>1, StepOf, StaysInLeg
  <2>3. ASSUME NEW token \in Credentials,
               call' = [call EXCEPT ![c].step = "send", ![c].token = token]
        PROVE  OutIInv'
    <3>1. /\ call' \in [Callers -> CallType]
          /\ call'[c].kind = call[c].kind /\ call'[c].leg = call[c].leg
          /\ call'[c].step = "send" /\ call'[c].attempt = call[c].attempt
          /\ \A h \in Callers \ {c} : call'[h] = call[h]
      BY <1>0, <2>3 DEF CallType
    <3> QED  BY <1>0, <1>1, <2>0, <2>1, <3>1, StepOf, StaysInLeg
  <2>4. ASSUME call' = [call EXCEPT ![c].step = "send"]
        PROVE  OutIInv'
    <3>1. /\ call' \in [Callers -> CallType]
          /\ call'[c].kind = call[c].kind /\ call'[c].leg = call[c].leg
          /\ call'[c].step = "send" /\ call'[c].attempt = call[c].attempt
          /\ \A h \in Callers \ {c} : call'[h] = call[h]
      BY <1>0, <2>4 DEF CallType
    <3> QED  BY <1>0, <1>1, <2>0, <2>1, <3>1, StepOf, StaysInLeg
  <2>5. ASSUME EndLeg(c, FALSE), excused' = excused \union {<<c, service(c)>>}
        PROVE  OutIInv'
    <3>1. Dealt(c, s)'
      BY <1>1, <2>5 DEF Dealt
    <3> QED  BY <1>1, <1>2, <2>0, <2>1, <2>5, <3>1, StepOf, EndsLeg
  <2> QED
    BY <1>0, <1>3, <2>2, <2>3, <2>4, <2>5 DEF StartLeg
<1>4. CASE PostJSON(c)
  <2>1. /\ Reads(c) /\ call[c].step = "post" /\ reached' = reached
        /\ failures' = failures
    BY <1>0, <1>4 DEF PostJSON, Progress, Reads
  <2>2. /\ call' \in [Callers -> CallType]
        /\ call'[c].kind = call[c].kind /\ call'[c].leg = call[c].leg
        /\ call'[c].step = "send" /\ call'[c].attempt = call[c].attempt
        /\ \A h \in Callers \ {c} : call'[h] = call[h]
    BY <1>0, <1>4 DEF PostJSON, CallType
  <2> QED  BY <1>0, <1>1, <2>1, <2>2, StepOf, StaysInLeg
<1>5. CASE Served(c)
  <2>1. /\ Reads(c) /\ call[c].step = "send" /\ EndLeg(c, TRUE)
        /\ reached' = reached \union {<<c, service(c), call[c].token>>}
    BY <1>5 DEF Served, Reads, Reaches, TokenOf
  <2>2. Reached(c, s)' /\ Dealt(c, s)'
    <3>1. <<c, s, call[c].token>> \in reached'
      BY <1>1, <2>1
    <3>2. <<c, s, call[c].token>>[1] = c /\ <<c, s, call[c].token>>[2] = s
      OBVIOUS
    <3>3. Reached(c, s)'
      BY <3>1, <3>2, Zenon DEF Reached
    <3> QED  BY <3>3 DEF Dealt
  <2> QED  BY <1>1, <1>2, <2>1, <2>2, StepOf, EndsLeg
<1>6. CASE Refused(c)
  <2>1. /\ Reads(c) /\ call[c].step = "send" /\ EndLeg(c, FALSE)
        /\ reached' = reached /\ <<c, s>> \in excused'
    BY <1>1, <1>6 DEF Refused, Reads
  <2> QED  BY <1>1, <1>2, <2>1, StepOf, EndsLeg DEF Dealt
<1>7. CASE Fails(c)
  <2>1. /\ call[c].step = "send" /\ Reads(c)
        /\ failures' = [failures EXCEPT ![c][service(c)] = @ + 1]
        /\ reached' \subseteq reached \union {<<c, service(c), call[c].token>>}
    BY <1>7 DEF Fails, Reads, Reaches, TokenOf
  <2>2. failures'[c][s] = failures[c][s] + 1 /\ failures[c][s] \in Nat
    BY <1>0, <1>1, <2>1 DEF OutTypes
  <2>3. /\ call[c].attempt \in Nat /\ Retries(s) \in Nat
        /\ Retries(s) <= MaxAttempt /\ MaxAttempt \in Nat
    BY <1>0, RetriesBounded, OutgoingAssumption DEF CallType, MaxAttempt
  <2>4. CASE Again(c)
    <3>1. call' = [call EXCEPT ![c].step = "backoff", ![c].attempt = @ + 1]
      BY <1>7, <2>4 DEF Fails
    <3>2. call[c].attempt + 1 \in 0..MaxAttempt
      <4>1. call[c].attempt < Retries(s)
        BY <1>1, <2>4 DEF Again
      <4> QED  BY <2>3, <4>1
    <3>3. /\ call' \in [Callers -> CallType]
          /\ call'[c].kind = call[c].kind /\ call'[c].leg = call[c].leg
          /\ call'[c].step = "backoff" /\ call'[c].attempt = call[c].attempt + 1
          /\ call'[c].token = call[c].token
          /\ \A h \in Callers \ {c} : call'[h] = call[h]
      BY <1>0, <3>1, <3>2 DEF CallType
    <3>4. failures'[c][s] >= call'[c].attempt
      BY <1>0, <1>1, <2>2, <2>3, <3>3
    <3> QED  BY <1>1, <2>1, <3>3, <3>4, StepOf, StaysInLeg
  <2>5. CASE ~Again(c)
    <3>1. EndLeg(c, FALSE)
      BY <1>7, <2>5 DEF Fails
    <3>2. failures'[c][s] > Retries(s)
      <4>1. ~(call[c].attempt < Retries(s)) /\ failures[c][s] >= call[c].attempt
        BY <1>0, <1>1, <2>5 DEF Again
      <4> QED  BY <2>2, <2>3, <4>1
    <3>3. Dealt(c, s)'
      BY <3>2 DEF Dealt
    <3> QED  BY <1>1, <1>2, <2>1, <3>1, <3>3, StepOf, EndsLeg
  <2> QED  BY <2>4, <2>5
<1>8. CASE BackoffOver(c)
  <2>1. Reads(c) /\ call[c].step = "backoff" /\ reached' = reached /\ failures' = failures
    BY <1>8 DEF BackoffOver, Reads
  <2>2. /\ call' \in [Callers -> CallType]
        /\ call'[c].kind = call[c].kind /\ call'[c].leg = call[c].leg
        /\ call'[c].step = "send" /\ call'[c].attempt = call[c].attempt
        /\ call'[c].token = call[c].token
        /\ \A h \in Callers \ {c} : call'[h] = call[h]
    BY <1>0, <1>8 DEF BackoffOver, CallType
  <2> QED  BY <1>0, <1>1, <2>1, <2>2, StepOf, StaysInLeg
<1>9. CASE BackoffCancelled(c)
  <2>1. /\ Reads(c) /\ call[c].step = "backoff" /\ EndLeg(c, FALSE)
        /\ reached' = reached /\ cancelled'
    BY <1>9 DEF BackoffCancelled, Reads
  <2> QED  BY <1>1, <1>2, <2>1, StepOf, EndsLeg DEF Dealt
<1> QED
  BY <1>3, <1>4, <1>5, <1>6, <1>7, <1>8, <1>9 DEF GoOn

LEMMA BeginOutIInv ==
  ASSUME OutIInv, NEW c \in Callers, NEW kind \in Kinds, Begin(c, kind)
  PROVE  OutIInv'
<1>0. /\ OutTypes /\ Progress(c) /\ OneKey(c) /\ call \in [Callers -> CallType]
      /\ call[c] \in CallType
  BY DEF OutIInv, OutTypes, OutTypeOK, CallType, MaxAttempt
<1>1. /\ call[c].step = "idle" /\ call[c].leg = 1 /\ call[c].attempt = 0
      /\ UNCHANGED <<cancelled, creds, reload, reloads, reached, failures, excused>>
      /\ call' = [call EXCEPT ![c].step = "start", ![c].kind = kind]
  BY <1>0 DEF Begin, Progress
<1>2. /\ call' \in [Callers -> CallType]
      /\ call'[c].kind = kind /\ call'[c].leg = 1
      /\ call'[c].step = "start" /\ call'[c].attempt = 0
      /\ \A h \in Callers \ {c} : call'[h] = call[h]
  BY <1>0, <1>1 DEF CallType
<1>3. OutTypes'
  BY <1>0, <1>1, <1>2 DEF OutTypes, OutTypeOK, CallType, MaxAttempt
<1>4. Len(Plan(kind)) \in 1..2
  BY PlanLengths DEF Kinds
<1>5. Progress(c)'
  <2>1. service(c)' \in Services
    BY <1>2, PlanServices DEF service, Kinds, Services
  <2>2. failures'[c][service(c)'] >= 0
    BY <1>0, <1>1, <2>1 DEF OutTypes
  <2>3. /\ call'[c].step # "idle" /\ call'[c].step # "post"
        /\ call'[c].step # "done" /\ call'[c].leg # 2
    BY <1>2
  <2>4. call'[c].leg <= Len(Plan(call'[c].kind))
    <3>1. 1 <= Len(Plan(kind))
      BY <1>4
    <3> QED  BY <1>2, <3>1
  <2>5. failures'[c][service(c)'] >= call'[c].attempt
    BY <1>2, <2>2
  <2> QED  BY <2>3, <2>4, <2>5, Zenon DEF Progress
<1>6. OneKey(c)'
  BY <1>0, <1>1, <1>2 DEF OneKey
<1>7. \A h \in Callers \ {c} : Progress(h)' /\ OneKey(h)'
  BY <1>1, <1>2, OthersProgress DEF OutIInv, Grows
<1> QED  BY <1>3, <1>5, <1>6, <1>7 DEF OutIInv

\* A step that leaves the calls alone leaves what they are worth alone.
LEMMA QuietOutIInv ==
  ASSUME OutIInv, OutTypes', cancelled => cancelled',
         UNCHANGED <<call, reached, failures, excused>>
  PROVE  OutIInv'
<1> SUFFICES ASSUME NEW c \in Callers PROVE Progress(c)' /\ OneKey(c)'
  BY DEF OutIInv
<1>1. service(c)' = service(c)
  BY DEF service
<1>2. \A t : Reached(c, t)' = Reached(c, t) /\ (Dealt(c, t) => Dealt(c, t)')
  BY DEF Reached, Dealt
<1>3. Progress(c)'
  BY <1>1, <1>2 DEF OutIInv, Progress
<1>4. OneKey(c)'
  BY DEF OutIInv, OneKey
<1> QED  BY <1>3, <1>4

LEMMA NextOutIInv == OutIInv /\ [OutNext]_outVars => OutIInv'
<1> SUFFICES ASSUME OutIInv, [OutNext]_outVars PROVE OutIInv'
  OBVIOUS
<1>0. OutTypes
  BY DEF OutIInv
<1>1. ASSUME NEW c \in Callers, GoOn(c)
      PROVE  OutIInv'
  BY <1>1, GoOnOutIInv
<1>2. ASSUME NEW c \in Callers, NEW kind \in Kinds, Begin(c, kind)
      PROVE  OutIInv'
  BY <1>2, BeginOutIInv
<1>3. CASE ReloadSlack
  <2>1. reloads + 1 \in 0..MaxReloads /\ reloads + 1 \in Credentials
    BY <1>0, <1>3, OutgoingAssumption
       DEF ReloadSlack, OutTypes, OutTypeOK, Credentials
  <2>2. PICK slack \in {NoKey, reloads + 1}, key \in {NoKey, reloads + 1} :
               creds' = [creds EXCEPT !.slack = slack] /\ reload' = <<key>>
    BY <1>3 DEF ReloadSlack
  <2>3. slack \in Credentials /\ key \in Credentials
    BY <2>1 DEF Credentials
  <2>4. OutTypes'
    BY <1>0, <1>3, <2>1, <2>2, <2>3 DEF ReloadSlack, OutTypes, OutTypeOK
  <2> QED  BY <1>3, <2>4, QuietOutIInv DEF ReloadSlack
<1>4. CASE ReloadPagerDuty
  <2>1. reload[1] \in Credentials
    BY <1>0, <1>4 DEF ReloadPagerDuty, OutTypes, OutTypeOK
  <2>2. OutTypes'
    BY <1>0, <1>4, <2>1 DEF ReloadPagerDuty, OutTypes, OutTypeOK
  <2> QED  BY <1>4, <2>2, QuietOutIInv DEF ReloadPagerDuty
<1>5. CASE CancelCalls
  <2>1. OutTypes'
    BY <1>0, <1>5 DEF CancelCalls, OutTypes, OutTypeOK
  <2> QED  BY <1>5, <2>1, QuietOutIInv DEF CancelCalls
<1>6. CASE UNCHANGED outVars
  <2>1. OutTypes'
    BY <1>0, <1>6 DEF outVars, OutTypes, OutTypeOK
  <2> QED  BY <1>6, <2>1, QuietOutIInv DEF outVars
<1> QED
  BY <1>1, <1>2, <1>3, <1>4, <1>5, <1>6 DEF OutNext

LEMMA AlwaysOutIInv == OutSpec => []OutIInv
  BY InitOutIInv, NextOutIInv, PTL DEF OutSpec

-----------------------------------------------------------------------------

\* A finished call dealt with every service of its plan, and a diagnosis that
\* is returned came from the diagnoser.
THEOREM FinishedCallsDeliver == OutSpec => []CallsDeliver
<1>1. ASSUME OutIInv, NEW c \in Callers, call[c].step = "done"
      PROVE  /\ \A i \in DOMAIN Plan(call[c].kind) : Dealt(c, Plan(call[c].kind)[i])
             /\ call[c].kind = "Diagnose" /\ call[c].ok => Reached(c, "diagnoser")
  <2>1. Progress(c) /\ call[c].kind \in Kinds
    BY <1>1 DEF OutIInv, OutTypes, OutTypeOK
  <2>2. CASE call[c].kind = "Escalate"
    <3>1. call[c].leg = 2
      BY <1>1, <2>1, <2>2, PlanLengths DEF Progress
    <3>2. Dealt(c, Plan("Escalate")[1]) /\ Dealt(c, Plan("Escalate")[2])
      BY <1>1, <2>1, <2>2, <3>1 DEF Progress, service
    <3>3. DOMAIN Plan("Escalate") = 1..2
      BY Plans
    <3> QED  BY <2>2, <3>2, <3>3
  <2>3. CASE call[c].kind \in {"Diagnose", "Report"}
    <3>1. call[c].leg = 1
      BY <1>1, <2>1, <2>3, PlanLengths DEF Progress
    <3>2. Dealt(c, Plan(call[c].kind)[1])
      BY <1>1, <2>1, <3>1 DEF Progress, service
    <3>3. DOMAIN Plan(call[c].kind) = 1..1
      BY <2>3, Plans
    <3>4. call[c].kind = "Diagnose" /\ call[c].ok => Reached(c, "diagnoser")
      BY <1>1, <2>1, <3>1, PlanServices DEF Progress, service
    <3> QED  BY <2>3, <3>2, <3>3, <3>4
  <2> QED  BY <2>1, <2>2, <2>3 DEF Kinds
<1>2. OutIInv => CallsDeliver
  BY <1>1 DEF CallsDeliver, Dealt
<1> QED  BY <1>2, AlwaysOutIInv, PTL

\* An escalation pages with one key, however often it is sent.
THEOREM OnePage == OutSpec => []OnePagePerCall
<1>1. ASSUME OutIInv, NEW c \in Callers
      PROVE  Cardinality({r \in reached : r[1] = c /\ r[2] = "pagerduty"}) <= 1
  <2> DEFINE pages == {r \in reached : r[1] = c /\ r[2] = "pagerduty"}
  <2>1. pages \subseteq {<<c, "pagerduty", call[c].token>>}
    BY <1>1 DEF OutIInv, OneKey
  <2>2. CASE pages = {}
    BY <2>2, FS_EmptySet
  <2>3. CASE pages = {<<c, "pagerduty", call[c].token>>}
    <3>1. Cardinality({<<c, "pagerduty", call[c].token>>}) = 1
      BY FS_Singleton, Zenon
    <3> QED  BY <2>3, <3>1
  <2> QED  BY <2>1, <2>2, <2>3
<1>2. OutIInv => OnePagePerCall
  BY <1>1 DEF OnePagePerCall
<1> QED  BY <1>2, AlwaysOutIInv, PTL

-----------------------------------------------------------------------------
\* Approvals and calls, checked side by side, keep the types of both: the registry
\* holds known requests only, and no clock passes its timeout and no client its retries.
THEOREM NotifierTypeCorrect == MCSpec => []MCTypeOK
<1>1. MCInit => TypeOK /\ OutIInv
  BY InitTypeOK, InitOutIInv DEF MCInit
<1>2. TypeOK /\ OutIInv /\ [MCNext]_all => (TypeOK /\ OutIInv)'
  <2> SUFFICES ASSUME TypeOK, OutIInv, [MCNext]_all PROVE (TypeOK /\ OutIInv)'
    OBVIOUS
  <2>1. [Next]_vars /\ [OutNext]_outVars
    BY DEF MCNext, Approval, Outgoing, all
  <2> QED  BY <2>1, NextTypeOK, NextOutIInv
<1>3. TypeOK /\ OutIInv => MCTypeOK
  BY DEF MCTypeOK, OutIInv, OutTypes
<1> QED  BY <1>1, <1>2, <1>3, PTL DEF MCSpec
=============================================================================
