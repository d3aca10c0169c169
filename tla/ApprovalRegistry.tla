-------------------------- MODULE ApprovalRegistry --------------------------
(***************************************************************************)
(* Human approval of a remediation (agent/internal/notifier): a pipeline   *)
(* goroutine in SlackNotifier.RequestApproval, the registry of pending     *)
(* requests, the two ways a human answers (the Slack interactions handler  *)
(* and the web API), the store's pending_approvals table, and a crash.     *)
(*                                                                         *)
(* Each lock region, each write to the store and each channel operation is *)
(* a step of its own.  Time is counted in ticks from the registration of a *)
(* request (age) and from the start of its wait (waited).                  *)
(***************************************************************************)
EXTENDS Integers, FiniteSets

CONSTANTS
  Requests,       \* request IDs, each used by one call of RequestApproval
  Handlers,       \* goroutines that serve a human's answer
  Timeout         \* cfg.ApprovalTimeout in ticks

ASSUME TimeoutAssumption == Timeout \in Nat \ {0}

VARIABLES
  up,        \* the process runs
  ctxDone,   \* its context was cancelled
  pc,        \* the step of the call for each request
  result,    \* what the call returns
  entries,   \* registry.entries
  ch,        \* the one-place channel of each entry
  rows,      \* pending_approvals
  age,       \* ticks since register, up to Timeout + 1
  waited,    \* ticks in the select, up to Timeout
  handler,   \* each handler's step, request and decision
  accepted,    \* history: the decision resolve returned true for
  storeFailed  \* history: a query of the store failed

procVars == <<up, ctxDone>>
registry == <<entries, ch>>
store    == <<rows, storeFailed>>
time     == <<age, waited>>
vars == <<up, ctxDone, pc, result, entries, ch, rows, age, waited, handler,
          accepted, storeFailed>>

Answers   == {"APPROVED", "DENIED"}
Decisions == Answers \union {"TIMEOUT"}
Steps     == {"new", "persist", "post", "delivered", "wait", "remove",
              "unstore", "done", "lost"}
Idle      == [step |-> "idle"]
Serving   == [step : {"resolve", "forget", "send"}, req : Requests,
              dec : Answers]

\* A write of the store, or its failure, which nobody notices.
Writes(table) ==
  \/ rows' = table /\ UNCHANGED storeFailed
  \/ rows' = rows /\ storeFailed' = TRUE

Init ==
  /\ up = TRUE /\ ctxDone = FALSE
  /\ pc = [r \in Requests |-> "new"]
  /\ result = [r \in Requests |-> "none"]
  /\ entries = {} /\ rows = {}
  /\ ch = [r \in Requests |-> "none"]
  /\ age = [r \in Requests |-> 0] /\ waited = [r \in Requests |-> 0]
  /\ handler = [h \in Handlers |-> Idle]
  /\ accepted = [r \in Requests |-> "none"]
  /\ storeFailed = FALSE

-----------------------------------------------------------------------------
(* RequestApproval.                                                        *)

Step(r, from, to) == up /\ pc[r] = from /\ pc' = [pc EXCEPT ![r] = to]

\* The select's and the error paths' return; the deferred remove comes next.
Return(r, from, decision) ==
  /\ Step(r, from, "remove")
  /\ result' = [result EXCEPT ![r] = decision]
  /\ UNCHANGED <<procVars, registry, store, time, handler, accepted>>

NoCredentials(r) ==
  /\ Step(r, "new", "done")
  /\ result' = [result EXCEPT ![r] = "DENIED"]
  /\ UNCHANGED <<procVars, registry, store, time, handler, accepted>>

Register(r) ==
  /\ Step(r, "new", "persist")
  /\ entries' = entries \union {r}
  /\ UNCHANGED <<procVars, result, ch, store, time, handler, accepted>>

UpsertApproval(r) ==
  /\ Step(r, "persist", "post")
  /\ Writes(rows \union {r})
  /\ UNCHANGED <<procVars, result, registry, time, handler, accepted>>

\* postJSON: the message may be in the channel before the call returns, and
\* even when it returns an error.
Deliver(r) ==
  /\ Step(r, "post", "delivered")
  /\ UNCHANGED <<procVars, result, registry, store, time, handler, accepted>>

PostFails(r) == Return(r, "post", "DENIED") \/ Return(r, "delivered", "DENIED")

\* The timer of the select starts here, later than the registry's deadline.
PostSucceeds(r) ==
  /\ Step(r, "delivered", "wait")
  /\ UNCHANGED <<procVars, result, registry, store, time, handler, accepted>>

\* When several cases are ready, Go takes any of them.
TakeAnswer(r) == ch[r] # "none" /\ Return(r, "wait", ch[r])

BugWaitsForEver(r) == FALSE
TimerFired(r) == waited[r] >= Timeout
BugTimeoutApproves(r) == TimerFired(r) /\ Return(r, "wait", "APPROVED")
TimesOut(r) == TimerFired(r) /\ Return(r, "wait", "TIMEOUT")

Cancelled(r) == ctxDone /\ Return(r, "wait", "DENIED")

\* The deferred remove, and its delete in the store.
Remove(r) ==
  /\ Step(r, "remove", "unstore")
  /\ entries' = entries \ {r}
  /\ UNCHANGED <<procVars, result, ch, store, time, handler, accepted>>

BugRowStays(r) == rows
RowsWithout(r) == rows \ {r}

DeleteApproval(r) ==
  /\ Step(r, "unstore", "done")
  /\ Writes(RowsWithout(r))
  /\ UNCHANGED <<procVars, result, registry, time, handler, accepted>>

Call(r) ==
  \/ NoCredentials(r) \/ Register(r) \/ UpsertApproval(r) \/ Deliver(r)
  \/ PostFails(r) \/ PostSucceeds(r) \/ TakeAnswer(r) \/ TimesOut(r)
  \/ Cancelled(r) \/ Remove(r) \/ DeleteApproval(r)

-----------------------------------------------------------------------------
(* A human answers.                                                        *)

Serve(h, r, d) ==
  /\ up /\ handler[h] = Idle
  /\ handler' = [handler EXCEPT ![h] = [step |-> "resolve", req |-> r, dec |-> d]]
  /\ UNCHANGED <<procVars, pc, result, registry, store, time, accepted>>

\* isExpired: unknown, or past the registry's deadline.
isExpired(r) == r \notin entries \/ age[r] > Timeout

\* InteractionsHandler, up to its check; an expired request is answered so.
SlackClick(h, r, d) ==
  /\ pc[r] \notin {"new", "persist", "post"}
  /\ ~isExpired(r)
  /\ Serve(h, r, d)

\* api.resolveApproval goes to resolve directly; the page lists a request as
\* soon as it is registered.
WebClick(h, r, d) == pc[r] # "new" /\ Serve(h, r, d)

\* registry.resolve: the entry goes under the lock, so one answer wins.
BugKeepsEntry(r) == entries
Resolved(r) == entries \ {r}

Resolve(h) ==
  /\ handler[h].step = "resolve"
  /\ LET r == handler[h].req
     IN  IF r \in entries
         THEN /\ entries' = Resolved(r)
              /\ accepted' = [accepted EXCEPT ![r] = handler[h].dec]
              /\ handler' = [handler EXCEPT ![h].step = "forget"]
         ELSE /\ handler' = [handler EXCEPT ![h] = Idle]
              /\ UNCHANGED <<entries, accepted>>
  /\ UNCHANGED <<procVars, pc, result, ch, store, time>>

Forget(h) ==
  /\ handler[h].step = "forget"
  /\ Writes(rows \ {handler[h].req})
  /\ handler' = [handler EXCEPT ![h].step = "send"]
  /\ UNCHANGED <<procVars, pc, result, registry, time, accepted>>

\* The send never blocks: a full channel drops the result.
Send(h) ==
  /\ handler[h].step = "send"
  /\ LET r == handler[h].req
     IN  ch' = [ch EXCEPT ![r] = IF @ = "none" THEN handler[h].dec ELSE @]
  /\ handler' = [handler EXCEPT ![h] = Idle]
  /\ UNCHANGED <<procVars, pc, result, entries, store, time, accepted>>

Answer(h) == Resolve(h) \/ Forget(h) \/ Send(h)

-----------------------------------------------------------------------------
(* Time, cancellation, crash and restart.                                  *)

Min2(a, b) == IF a < b THEN a ELSE b

Tick ==
  /\ age' = [r \in Requests |->
               IF r \in entries THEN Min2(age[r] + 1, Timeout + 1) ELSE age[r]]
  /\ waited' = [r \in Requests |->
                  IF pc[r] = "wait" THEN Min2(waited[r] + 1, Timeout)
                  ELSE waited[r]]
  /\ UNCHANGED <<procVars, pc, result, registry, store, handler, accepted>>

Cancel ==
  /\ up /\ ~ctxDone /\ ctxDone' = TRUE
  /\ UNCHANGED <<up, pc, result, registry, store, time, handler, accepted>>

\* The calls die with the process; the rows stay.
Crash ==
  /\ up /\ up' = FALSE /\ ctxDone' = FALSE
  /\ pc' = [r \in Requests |->
              IF pc[r] \in {"new", "done"} THEN pc[r] ELSE "lost"]
  /\ entries' = {}
  /\ ch' = [r \in Requests |-> "none"]
  /\ handler' = [h \in Handlers |-> Idle]
  /\ UNCHANGED <<result, store, time, accepted>>

\* New opens the registry empty: nothing reads pending_approvals back.
Restart ==
  /\ ~up /\ up' = TRUE
  /\ UNCHANGED <<ctxDone, pc, result, registry, store, time, handler, accepted>>

Next ==
  \/ Tick \/ Cancel \/ Crash \/ Restart
  \/ \E r \in Requests : Call(r)
  \/ \E h \in Handlers : Answer(h)
  \/ \E h \in Handlers, r \in Requests, d \in Answers :
       SlackClick(h, r, d) \/ WebClick(h, r, d)

Spec == Init /\ [][Next]_vars

\* Time passes and a call that has begun goes on; postJSON ends because every
\* attempt has the client's timeout and the attempts are counted.
Fairness ==
  /\ WF_vars(Tick)
  /\ \A r \in Requests : WF_vars(Call(r) /\ pc[r] # "new")

-----------------------------------------------------------------------------
(* Properties.                                                             *)

\* Every variable has its type.
TypeOK ==
  /\ up \in BOOLEAN /\ ctxDone \in BOOLEAN /\ storeFailed \in BOOLEAN
  /\ pc \in [Requests -> Steps]
  /\ result \in [Requests -> Decisions \union {"none"}]
  /\ entries \subseteq Requests /\ rows \subseteq Requests
  /\ ch \in [Requests -> Answers \union {"none"}]
  /\ age \in [Requests -> 0..(Timeout + 1)]
  /\ waited \in [Requests -> 0..Timeout]
  /\ handler \in [Handlers -> Serving \union {Idle}]
  /\ accepted \in [Requests -> Answers \union {"none"}]

\* A pipeline is told APPROVED only if a human approved this very request:
\* errors, timeouts, cancellation and races all fail closed.
FailClosed ==
  \A r \in Requests : result[r] = "APPROVED" => accepted[r] = "APPROVED"

\* Of all the answers to one request, clicked twice or in two places, one is
\* accepted: the send never finds the channel full, and the page never says
\* twice that the decision was recorded.
OneAnswerWins ==
  \A r \in Requests :
    LET winners == {h \in Handlers : /\ handler[h].step \in {"forget", "send"}
                                    /\ handler[h].req = r}
    IN  Cardinality(winners) + (IF ch[r] = "none" THEN 0 ELSE 1) <= 1

\* The registry holds no request nobody waits for, and when a call is over the
\* store has no row of it, whichever of resolve and remove came last.
NothingLeftBehind ==
  /\ \A r \in entries : pc[r] \notin {"new", "unstore", "done", "lost"}
  /\ ~storeFailed => \A r \in rows : pc[r] # "done"

=============================================================================
