--------------------------- MODULE OutgoingCalls ---------------------------
(***************************************************************************)
(* The HTTP calls a pipeline makes to other services: Diagnose, Escalate   *)
(* (Slack, then PagerDuty) and Report, with their retries and backoffs,    *)
(* cancellation, answers that are lost, and credentials that a save on the *)
(* web page replaces while calls are under way.                            *)
(*                                                                         *)
(* A client is built once for the process.  Backoffs differ in length      *)
(* only, so a backoff is a state that ends.  Credentials are numbered by   *)
(* the save they come from; Slack's token and channel belong together, and *)
(* Slack refuses a post that mixes those of two saves.                     *)
(***************************************************************************)
EXTENDS Integers, Sequences, FiniteSets

CONSTANTS
  Callers,       \* goroutines, each of which makes one call
  MaxRetries,    \* NOTIFIER_MAX_RETRIES; the diagnosis client is given none
  NoKey,         \* a token, channel or routing key that is empty
  MaxReloads     \* bound on the number of reloads

ASSUME OutgoingAssumption ==
  /\ MaxRetries \in Int /\ MaxReloads \in Nat
  /\ NoKey \notin Nat

VARIABLES
  cancelled,   \* the pipelines' context
  creds,       \* SlackNotifier.cfg and PagerDutyClient.routingKey
  reload,      \* what is left of a CompositeNotifier.Reload under way
  reloads,     \* how many there were
  call,        \* each caller's call and how far it is
  reached,     \* history: which caller reached which service with which token
  failures,    \* history: attempts of each caller at each service that failed
  excused      \* history: legs without credentials, with mixed ones, or refused

outVars == <<cancelled, creds, reload, reloads, call, reached, failures, excused>>

Services == {"slack", "pagerduty", "diagnoser", "learner"}
Kinds    == {"Escalate", "Diagnose", "Report"}

\* CompositeNotifier.Escalate tries both, whatever becomes of the first.
Plan(kind) == CASE kind = "Escalate" -> <<"slack", "pagerduty">>
                [] kind = "Diagnose" -> <<"diagnoser">>
                [] kind = "Report"   -> <<"learner">>

\* Each constructor takes zero for three; run.go leaves the diagnosis client's
\* at zero, and the outcome client has no loop.
Retries(service) ==
  CASE service \in {"slack", "pagerduty"} -> IF MaxRetries <= 0 THEN 3 ELSE MaxRetries
    [] service = "diagnoser" -> 3
    [] service = "learner" -> 0

Credentials == {NoKey} \union 0..MaxReloads
IdleCall ==
  [kind |-> "Escalate", leg |-> 1, step |-> "idle", channel |-> NoKey,
   token |-> NoKey, attempt |-> 0, ok |-> FALSE]

service(c) == Plan(call[c].kind)[call[c].leg]

OutInit ==
  /\ cancelled = FALSE
  /\ creds \in [slack : {NoKey, 0}, pagerduty : {NoKey, 0}]
  /\ reload = <<>> /\ reloads = 0
  /\ call = [c \in Callers |-> IdleCall]
  /\ reached = {}
  /\ failures = [c \in Callers |-> [s \in Services |-> 0]]
  /\ excused = {}

-----------------------------------------------------------------------------
(* The calls.                                                              *)

BugStopsAtError(c, ok) ==
  call' = [call EXCEPT ![c] = [@ EXCEPT !.step = "done", !.ok = ok]]

\* A leg is over, well or not; Escalate goes on with its other leg.
EndLeg(c, ok) ==
  LET k == call[c]
  IN  call' = [call EXCEPT ![c] =
        IF k.leg = Len(Plan(k.kind)) THEN [k EXCEPT !.step = "done", !.ok = ok]
        ELSE [k EXCEPT !.step = "start", !.leg = k.leg + 1, !.attempt = 0]]

Begin(c, kind) ==
  /\ call[c].step = "idle"
  /\ call' = [call EXCEPT ![c].step = "start", ![c].kind = kind]
  /\ UNCHANGED <<cancelled, creds, reload, reloads, reached, failures, excused>>

\* Notify reads the channel and, later, postJSON the token; Trigger reads its
\* key once.  Without credentials the message is only logged.
StartLeg(c) ==
  /\ call[c].step = "start"
  /\ CASE service(c) = "slack" /\ creds.slack # NoKey ->
            /\ call' = [call EXCEPT ![c].step = "post", ![c].channel = creds.slack]
            /\ UNCHANGED excused
       [] service(c) = "pagerduty" /\ creds.pagerduty # NoKey ->
            /\ call' = [call EXCEPT ![c].step = "send", ![c].token = creds.pagerduty]
            /\ UNCHANGED excused
       [] service(c) \in {"diagnoser", "learner"} ->
            call' = [call EXCEPT ![c].step = "send"] /\ UNCHANGED excused
       [] OTHER ->
            EndLeg(c, FALSE) /\ excused' = excused \union {<<c, service(c)>>}
  /\ UNCHANGED <<cancelled, creds, reload, reloads, reached, failures>>

\* A reload since Notify leaves a post with the channel of another save.
PostJSON(c) ==
  /\ call[c].step = "post"
  /\ call' = [call EXCEPT ![c].step = "send", ![c].token = creds.slack]
  /\ excused' = IF creds.slack = call[c].channel THEN excused
                ELSE excused \union {<<c, "slack">>}
  /\ UNCHANGED <<cancelled, creds, reload, reloads, reached, failures>>

BugTokenNow(c) == IF service(c) = "pagerduty" THEN creds.pagerduty ELSE call[c].token
TokenOf(c) == call[c].token

Belongs(c) == service(c) = "slack" => call[c].channel = call[c].token
Reaches(c) == reached' = reached \union {<<c, service(c), TokenOf(c)>>}

\* The service took it, and said so.
Served(c) ==
  /\ call[c].step = "send" /\ ~cancelled /\ Belongs(c)
  /\ Reaches(c)
  /\ EndLeg(c, TRUE)
  /\ UNCHANGED <<cancelled, creds, reload, reloads, failures, excused>>

\* A client error, or an answer that cannot be decoded: no further attempt, and
\* the notifiers take it for success.  Slack refuses a mix of credentials; any
\* service may refuse for reasons of its own, such as a rate limit.
Refused(c) ==
  /\ call[c].step = "send" /\ ~cancelled
  /\ EndLeg(c, FALSE)
  /\ excused' = excused \union {<<c, service(c)>>}
  /\ UNCHANGED <<cancelled, creds, reload, reloads, reached, failures>>

BugOneMore(c) == call[c].attempt <= Retries(service(c))
Again(c) == call[c].attempt < Retries(service(c))

\* A server error, a network error or a cancelled context; the service may have
\* taken the request all the same.
Fails(c) ==
  /\ call[c].step = "send"
  /\ \/ UNCHANGED reached
     \/ Belongs(c) /\ Reaches(c)
  /\ failures' = [failures EXCEPT ![c][service(c)] = @ + 1]
  /\ IF Again(c)
     THEN call' = [call EXCEPT ![c].step = "backoff", ![c].attempt = @ + 1]
     ELSE EndLeg(c, FALSE)
  /\ UNCHANGED <<cancelled, creds, reload, reloads, excused>>

BackoffOver(c) ==
  /\ call[c].step = "backoff"
  /\ call' = [call EXCEPT ![c].step = "send"]
  /\ UNCHANGED <<cancelled, creds, reload, reloads, reached, failures, excused>>

BackoffCancelled(c) ==
  /\ call[c].step = "backoff" /\ cancelled
  /\ EndLeg(c, FALSE)
  /\ UNCHANGED <<cancelled, creds, reload, reloads, reached, failures, excused>>

GoOn(c) ==
  \/ StartLeg(c) \/ PostJSON(c) \/ Served(c) \/ Refused(c) \/ Fails(c)
  \/ BackoffOver(c) \/ BackoffCancelled(c)

-----------------------------------------------------------------------------
(* CompositeNotifier.Reload, and SIGTERM.                                  *)

ReloadSlack ==
  /\ reload = <<>> /\ reloads < MaxReloads /\ reloads' = reloads + 1
  /\ \E slack, key \in {NoKey, reloads + 1} :
       creds' = [creds EXCEPT !.slack = slack] /\ reload' = <<key>>
  /\ UNCHANGED <<cancelled, call, reached, failures, excused>>

ReloadPagerDuty ==
  /\ reload # <<>> /\ reload' = <<>>
  /\ creds' = [creds EXCEPT !.pagerduty = reload[1]]
  /\ UNCHANGED <<cancelled, reloads, call, reached, failures, excused>>

CancelCalls ==
  /\ ~cancelled /\ cancelled' = TRUE
  /\ UNCHANGED <<creds, reload, reloads, call, reached, failures, excused>>

OutNext ==
  \/ \E c \in Callers : GoOn(c) \/ \E kind \in Kinds : Begin(c, kind)
  \/ ReloadSlack \/ ReloadPagerDuty \/ CancelCalls

OutSpec == OutInit /\ [][OutNext]_outVars

\* Every attempt has the client's timeout, and every timer fires.
OutFairness == \A c \in Callers : WF_outVars(GoOn(c))

-----------------------------------------------------------------------------
(* Properties.                                                             *)

\* Every variable has its type, and no client retries oftener than the larger of
\* the two limits.
OutTypeOK ==
  /\ cancelled \in BOOLEAN /\ reloads \in 0..MaxReloads
  /\ creds \in [slack : Credentials, pagerduty : Credentials]
  /\ reload \in {<<>>} \union {<<k>> : k \in Credentials}
  /\ call \in [Callers -> [kind : Kinds, leg : 1..2,
                           step : {"idle", "start", "post", "send", "backoff", "done"},
                           channel : Credentials, token : Credentials,
                           attempt : 0..(IF MaxRetries > 3 THEN MaxRetries ELSE 3),
                           ok : BOOLEAN]]
  /\ reached \subseteq Callers \X Services \X Credentials
  /\ excused \subseteq Callers \X Services

Reached(c, s) == \E r \in reached : r[1] = c /\ r[2] = s

\* A call that is over reached every service of its plan, Slack's failure not
\* keeping PagerDuty from being told: unless it was cancelled, had no
\* credentials, was refused, failed as often as the client may try, or, for
\* Slack alone, the credentials were replaced between their two readings.  And
\* a diagnosis is returned only if the diagnoser gave one.
CallsDeliver ==
  \A c \in Callers : call[c].step = "done" =>
    /\ \A i \in DOMAIN Plan(call[c].kind) :
         LET s == Plan(call[c].kind)[i]
         IN  \/ Reached(c, s) \/ cancelled \/ <<c, s>> \in excused
             \/ failures[c][s] > Retries(s)
    /\ call[c].kind = "Diagnose" /\ call[c].ok => Reached(c, "diagnoser")

\* However often it is retried, and although answers are lost, an escalation
\* opens at most one PagerDuty incident: PagerDuty takes requests with the same
\* routing key and incident for one, and a key replaced meanwhile is not used.
OnePagePerCall ==
  \A c \in Callers :
    Cardinality({r \in reached : r[1] = c /\ r[2] = "pagerduty"}) <= 1
=============================================================================
