# A verification of the AutoSRE agent

AutoSRE watches a Kubernetes cluster, groups what it sees into incidents, asks a
diagnoser for the cause, decides by a policy whether it may act, changes a manifest in
the GitOps repository, and checks whether the incident went away. This directory holds
TLA+ modules for the Go agent (`agent/`) that does this, TLC configurations that check
them on small instances, and proofs, checked by TLAPS, of nearly all safety properties that
the configurations check. Line numbers below are those of the source at the commit
modelled.

    cd tla
    tlc -workers 2 -config MCOrchestrator.cfg MCOrchestrator.tla
    tlapm OrchestratorProofs.tla

Every module is written from the Go code. The documentation, comments and tests were
read for what they promise; where code and promise part, section 7 says so.

## 1. The system and its parts

    pods, nodes, events    Loki       Alertmanager
              \             |            /
               v            v           v
             ingestor --- signals (512) ---> correlator --- events (100) ---> orchestrator
                                               ^  |                              |
                                 recent signals|  | rows                         | one goroutine
                                               |  v                              | per incident
                                           verifier  store (SQLite)              v
                       diagnose -> policy -> approval -> dry run -> apply -> verify -> notify
                       (HTTP)      breaker   Slack/web               git writer

| part | state it keeps | operations | what makes it correct |
|---|---|---|---|
| ingestor (`internal/ingestor`) | informer stores, the current Loki poller and its last time, the signals channel | handlers of three informers, poll, reload, webhook post | no failure goes unsignalled except for named reasons; the webhook never blocks |
| correlator (`internal/correlator`) | one incident per resource with its deduplication times, the events channel | Process, ResolveStale, hydrate, Run | memory and table agree; incidents close when quiet |
| orchestrator (`internal/orchestrator`) | in-flight registry, semaphore, two switches, one goroutine per pipeline | Run, schedule, runPipeline, SetKillSwitch, SetApplyEnabled | one pipeline per incident, authorised changes only, no silent change, slots returned, the switch stops |
| policy engine and circuit breaker (`internal/policy`) | timestamps of unattended decisions | Evaluate, tripped, record, hydrate | the verdict is what the policy says; the rate of unattended changes is bounded |
| approvals (`internal/notifier`) | registry of waiting requests, their rows | RequestApproval, Slack and web answers, timer | fail closed, one answer counts, nothing stays behind |
| git writer (`internal/gitwriter`) | worktree, index, local and remote branch | EditField, commit, push | what Apply answers is true, no manifest is published empty, a failed edit is taken back |
| remediation actions (`internal/remediator`) | `applied`, the result of the edit | DryRun, Apply, Rollback of six actions | what is shown is applied, what was applied is undone |
| verifier (`internal/verifier`) | the window and the signals seen | Verify | a failure that goes on is not called recovered |
| outgoing clients (`notifier`, `diagnosis`, `outcome`) | Slack's and PagerDuty's credentials | Diagnose, Escalate, Report, Reload | what was not delivered has a reason; no second page; every call returns |
| settings (`settings`, `api/integrations.go` and its siblings) | master key, one row per category, the running component's setting | four save handlers, start, the diagnoser's push | what runs is what is saved; a secret left out stays |
| control plane (`api/api.go`, `api/safety.go`) | the two switches | read, set, record | the log tells the position |
| audit log (`audit/file_sink.go`) | the file, the encoder's first error | Record, Query, reopen | what was accepted can be read, in order |
| API roles, configuration, metrics, Alertmanager button | files, counters | | left out: section 8 |

How they interact. The three sources share one channel; informers wait for room,
Loki and the webhook drop. The correlator's two goroutines share the incident map under
a mutex and both send on the events channel, which drops when full. The orchestrator
takes only the event that an incident closed; it starts one goroutine per incident,
bounded by a semaphore. Pipelines share the circuit breaker, the approval registry, the
switches, the HTTP clients and the one clone of the GitOps repository. Verification reads
the correlator's incidents back. The web page's handlers replace the Loki poller, the git
writer's configuration, the notifiers' credentials and the diagnoser's model while all of
these work. Incidents, pending approvals, breaker events and settings survive in SQLite,
the audit log in its file; everything else is lost with the process.

What is hard here: goroutines that interleave between a check and its use; answers,
timers and cancellations that race; queues at their limit; crashes between a change in
memory, in the table, in the worktree and on the remote; time windows of different
lengths that overlap. PROJECT.json lists each such hazard with its line.

## 2. Plan

In order of importance, with what each step composes. Steps 1 to 10 are done.

1. `Orchestrator`, its abstract specification `IncidentLifecycle`, and the theorems.
2. `KillSwitch` on top of it: how many changes get past the switch.
3. `PolicyEngine` with the action builder, and `CircuitBreaker`.
4. `ApprovalRegistry`: Slack, web page, timer, store.
5. `Correlator` with its table and both channels.
6. `GitWriter`, one action per file read, file write and step of a git call, and `Verifier`.
7. `Ingestor`, composed of `LokiSource`, `K8sWatcher` and `AlertWebhook` over a shared
   `SignalChannel`.
8. `Remediators`: the six actions above an atomic writer.
9. `ApiServer`, composed of `Settings`, `ControlPlane` and `AuditLog`: handlers that
   save, reload and record with no lock across the three, crashes and restarts.
10. `OutgoingCalls`: retries, backoff, cancellation and replaced credentials.
11. Left: the correlator composed with the orchestrator over the real events channel
    (which closed incidents are never remediated), and the git writer's reload in the
    middle of an edit.

Abstract specifications worth stating: `IncidentLifecycle` (stated, refined and proved),
an approval as a write-once register that `ApprovalRegistry` implements, and a writer
whose edits are atomic, which `Remediators` assumes and `GitWriter` implements while
calls do not overlap.

Every safety property of a passing run is a theorem. Theorems still worth proving: that
`GitWriter` implements the atomic writer while calls do not overlap, and `ApprovalRegistry`
a write-once register; both need their abstract specifications first.

## 3. The modules and the code

**Orchestrator** (`orchestrator.go`, `pipeline.go`, `run.go`). `loop` is the Run
goroutine: `select`, or `acquire` while it waits in `schedule` for a slot, or `stopped`.
`events` is the correlator's channel, `inFlight` the registry, `sem` the semaphore. Each
pipeline goroutine has a stage `pc`, the incident in `job`, and the locals of
runPipeline: verdict, decision, dryRun, applied, outcome, and `told`, the message that
ended it. Each stage is one action with all its branches; the results of other
components are chosen freely, so what is shown does not depend on them. `Release`
belongs to the deferred calls: the slot is freed, then the incident leaves the registry.
`Cancel` is SIGTERM, `CleanExit` the end of runRun, `Crash` the loss of the process.

**KillSwitch** splits the orchestrator's steps by whether the switch is engaged and
counts, in `exposed`, the pipelines between the last reading of the switch and the call
of Apply when it was engaged and, in `late`, the calls begun after, counted up to one more
than the workers.

**IncidentLifecycle**, **OrchestratorRefinement**. The phases of an incident without
goroutines, queue or semaphore, and the mapping that reads the phase off the pipeline.

**PolicyEngine** (`engine.go`, `config.go`, `builder.go`, buildProposal). A step per
gate. The initial states are all policies the validator accepts over the entries a
proposal can meet, all confidences around the thresholds, and all actions. After the
last gate `Build` makes the action, with the defaults the builder fills in.

**CircuitBreaker** (`circuitbreaker.go`, two statements of `sqlite.go`). Ages instead of
times. Check, record and persist are separate steps, as the code locks them separately.
evict drops the leading run of old timestamps (`LeadingRun`); the table's query filters all
its rows, which amounts to the same, as both are in the order of their times.

**ApprovalRegistry** (`slack.go`, `registry.go`, `composite.go`, resolveApproval in
`api.go`). The waiting call, the handlers that look the entry up, remove it and send on
its channel in three steps, the timer, the table's rows. A restart forgets the waiter.

**Correlator** (`correlator.go`, `sqlite.go`). An entry per resource with its incident
number, whether it is open, its idle time and the age of each reason. Both goroutines,
the hydration, the upsert that may fail and the channel that drops are there.

**GitWriter** (`gitwriter.go`, `manifest.go`, Apply of a scale and of a memory bump). A
manifest is the values of its fields, a branch the sequence of its commits. Writing a
file truncates it and then fills it. go-git is external, and its calls lock nothing: every
call opens the repository for itself (`gitwriter.go:282`), Add reads the index file and then
writes it (`ReadIndex`, `Stage`), Commit reads HEAD for the parent, builds the tree from the
index and then sets the branch without comparing (`ReadHead`, `BuildTree`, `SetBranch`), so
that of two calls each may undo what the other did in between. Only a push compares, on the
remote's side. go-git 5.11 commits an unchanged tree, so the model does. A remote is assumed
to be configured. The history `mishaps` records whether a write failed, the process died or
two calls overlapped, because several promises hold only until then, and `lost` the calls
whose commit another call took off the branch.

**Remediators** (`remediator/*.go`, `quantity.go`, `remediate.go`, GetPreviousValue).
Above a writer that is atomic. One definition per action names its field, its value, the
companion field that the right-size actions also edit, and what Rollback restores; DryRun,
Apply and Rollback are shared, as their code is the same.
`log` holds the commits that touch the deployment's manifest, failed pushes included.

**Verifier** (`verifier.go`, `source.go`, parts of `correlator.go`). Polls at and after
the grace delay against an incident that keeps, drops or gets signals.

**OutgoingCalls** (`slack.go`, `pagerduty.go`, `composite.go`, `diagnosis/client.go`,
`outcome/client.go`). A call has a plan of one or two services; `leg` is the one it is at,
`attempt` how often it tried. Slack's channel and token are read in two steps, PagerDuty's
key in one. A failed attempt may have reached the service. Credentials are the number of
the save they come from. `reached`, `failures` and `excused` are history.

**AuditLog** (`file_sink.go`). The file is its terminated lines and what follows the last
of them; a failed write may leave a part of a line, or all of it but the newline, and sets
the encoder's error, after which this process writes no more. The next process opens the
file and writes on behind the torn line. `Contents` is the file as a reader splits it, and
`Query` gives the numbers of the lines it answers with.

**Settings** (`settings.go`, the handlers in `integrations.go`, `gitops.go`, `llm.go`,
`notifications.go`, the start in `run.go`). A save is a goroutine that loads, writes,
reloads and records; the reload differs by category: one assignment for Loki, an
assignment that a failing EnsureRepo follows for the git writer, two for the notifiers,
an HTTP request for the diagnoser. A behaviour is about one category, as they share only
the store and the log. `alone`, `misled` and `clean` record the exceptions the properties
name. The master key may be left short by a crash; then there is no store.

**ControlPlane** (handleKillSwitch in `api.go`, handleSetSafety in `safety.go`). Reading
the old position, setting the new one and recording the event are three steps; both
switches work in this way, so one stands for either.

**ApiServer** composes the three on one process and one log, with start, crash, restart.

**SignalChannel, LokiSource, K8sWatcher, AlertWebhook, Ingestor**. Every source has its
variables in its module; `Ingestor` interleaves them over the shared channel. A Loki
line has a namespace, an application and the failure patterns it matches; a poller has
its interval and the end of its last window. An informer hands a handler one object
after the other, by a change or by the resync every 30 seconds; the handler blocks on
the channel. The webhook sends or drops, alert by alert.

**MCPolicy, MCActions, MCNotifier** each put two components that share nothing into one
instance: `part` says which of the two a behaviour is about, and the other rests.
**MCPolicyWriter** does so with MCPolicy's two and the git writer.
**OrchestratorProofs, PolicyProofs, NotifierProofs, CorrelatorProofs, GitWriterProofs,
ActionProofs, IngestorProofs, ApiServerProofs** hold the theorems of section 5.

## 4. What is checked

Bounds are named in the `.cfg` files. They were chosen by what the mutants of
PROJECT.json need: for each property a plausible bug in a mapped definition, which the
run finds.

| run | instance | shows |
|---|---|---|
| orchestrator | 2 incidents, 2 goroutines, 2 workers, 1 event; 0.9M states | `OnePipelinePerIncident`, `InFlightExact`, `SlotsExact`, `ApplyAuthorised`, `ChangesAccountedFor` |
| orchestrator_live | the same with 1 worker, under fairness | `LateAppliesBounded`, `InFlightClears`, `KillDrains`, `ImplementsLifecycle` |
| policy_and_writer | all policies, confidences and actions over the entries a proposal can meet; 3 evaluations at a time, limit 2, one crash; and 2 goroutines, 2 fields of a manifest, 2 calls, all faults; 1.7M states | `VerdictIsPolicy`, `RateBounded`, `ResultIsTrue`, `NeverEmptied`, `FailureRestores` |
| notifier | 1 request, 3 handlers, a timeout of 2 ticks; and 1 caller, 2 retries, 2 reloads | `FailClosed`, `OneAnswerWins`, `NothingLeftBehind`, `CallsDeliver`, `OnePagePerCall`, `CallsReturn` |
| correlator | 2 resources, 1 event, windows 3 and 2, two incidents opened | `StoreAgrees`, `ClosedWhenQuiet`, `QuietIncidentsClose` |
| actions | 2 actions of every kind, 3 edits, 2 kinds of manifest; and a verification with 2 reasons, windows 2, 3 and 5, threshold 1 | `ActionContract`, `PersistentFailureSeen` |
| ingestor | 1 object per informer, 3 kinds of line, 2 pollers, 1 post | `WindowsTile`, `ModesRaised`, `WrongIsSignalled` |
| api | 2 saves, or a save and a turn of the switch, or 3 turns, in each of 4 categories; 2 values, 2 starts; 0.8M states | `RunningIsSaved`, `SecretsKept`, `AcceptedIsReadable`, `AuditTellsSwitch` |
| shutdown_abandons_pipelines | 1 incident | `CleanExitWaits` is violated: section 7 |
| resolver_panics | 2 resources | `NeverPanics` is violated: section 7 |
| memory_limit_not_judged | a bump factor of 2.5 and a limit of 2 | `AutoWithinMemoryLimit` is violated: section 7 |
| omitted_secret_is_lost | as api | `OmittedIsKept` is violated: section 7 |

Every passing run also checks the type invariant, except orchestrator_live, whose states
are those of the first; the git writer's types are a part of the invariant of its proofs.

Why the bounds are enough. Two pipelines and two workers show every conflict over an
incident or a slot, and one worker makes the loop wait; the theorems of section 5 hold
for all numbers. A channel of one place is full after one event, which is the
interesting case. Three evaluations show that the breaker's bound grows by one per
goroutine. One request is enough for the registry because its entries share nothing but
the map; three handlers are two that race and one that is late. One caller is enough for
the outgoing calls because callers share the credentials and do not change them; two
reloads replace both readings of one call. The theorems again hold for all numbers of
either. The correlator's run has one reason and one severity per resource. In the git
writer two calls are enough for each to come between any two steps of the other; the
theorems hold for all numbers of calls. In api, `MCCrowds` says how many requests of each sort come: two saves are the race
over a row, three turns are two that race and one that looks on, and a save with a turn
is the log they share; two starts are one restart, and the log is torn at most once
before it. The limit of a breaker set to zero, which means five, is in the definition and
not exercised. The ingestor's initial states have either Loki or the cluster and the
webhook: they meet only in the channel, which either side fills by itself.

Deadlock is checked except in policy_and_writer, ingestor, notifier, api and their
violation runs, which stop when their bounded inputs are used up: every call was made,
every evaluation has its verdict, every request was answered.

Some properties need a word.

* `InFlightClears`, `KillDrains`: an incident leaves the registry again and again, and an
  engaged switch ends all applying, unless an Apply hangs in its push, which has no
  deadline (`gitwriter.go:350`). `Stuck` names the incidents that such an Apply keeps: its
  own, and one that waits for a slot while every slot is held by such an Apply. Both
  exceptions are needed, and nothing else may hold an incident.
* `ResultIsTrue`: the commit of a call that was answered "ok" is on the remote branch,
  or another call that had read HEAD before it set the branch back over it (`lost`), which
  takes an overlap. The call is told "ok" all the same.
* `RateBounded`: within a window there are at most the limit's unattended decisions,
  plus one for each evaluation that was past the check at the same time, plus those a
  crash cut off from the table. The configuration promises the limit itself.
* `ClosedWhenQuiet`: an incident that is closed got no signal for longer than the
  difference of the two windows, not for the whole resolve window, as duplicates do not
  refresh it. A deduplication window of no length drops no signal, and then it was quiet
  for the whole resolve window.
* `AcceptedIsReadable`: all that Record accepted can be read in that order, but for fewer
  events than the file was opened times, as only what follows a torn line is lost.
* `WindowsTile`: every instant since the first poller started is covered by a window
  that Loki answered, except those that failed polls, reloads and late lines explain.
* `RunningIsSaved`: at rest, the component works with what a restart would load. The
  exceptions are named in `clean`: a reload that failed, two saves that overlapped, a
  diagnoser that restarted or served an old push, a start that could not load the row.
  Without `clean` it is false, and no document of the repository promises it.
* `CallsDeliver`: every service of a call's plan was reached, or the call was cancelled,
  had no credentials, was refused, or failed as often as the client may try.

## 5. What is proved

The theorems hold for every value of the constants: every set of incidents and
goroutines, every number of workers and size of a channel, every policy and scale of
confidence, any number of requests, handlers, callers, retries, reloads, saves, starts,
resources, manifests, pollers and crashes, and windows of every length.

| module | theorem | property |
|---|---|---|
| OrchestratorProofs | TypeCorrect | `TypeOK` |
| | AtMostOnePipeline | `OnePipelinePerIncident` |
| | RegistryExact | `InFlightExact` |
| | WorkersBounded | `SlotsExact` |
| | OnlyAuthorisedChanges | `ApplyAuthorised` |
| | NoSilentChange | `ChangesAccountedFor` |
| | KillSwitchBound | `LateAppliesBounded` |
| | RefinesLifecycle | `ImplementsLifecycle` |
| PolicyProofs | GatesDecidePolicy | `VerdictIsPolicy` |
| | RateIsBounded | `RateBounded` |
| | PolicyTypeCorrect | `MCTypeOK` of MCPolicy |
| NotifierProofs | ApprovalFailsClosed | `FailClosed` |
| | AnswersAreUnique | `OneAnswerWins` |
| | NothingStaysBehind | `NothingLeftBehind` |
| | FinishedCallsDeliver | `CallsDeliver` |
| | OnePage | `OnePagePerCall` |
| | NotifierTypeCorrect | `MCTypeOK` of MCNotifier |
| CorrelatorProofs | TypeCorrect | `TypeOK` |
| | StoreAgreesAlways | `StoreAgrees` |
| | ClosedWhenQuietAlways | `ClosedWhenQuiet` |
| GitWriterProofs | ApplyTellsTheTruth | `ResultIsTrue` |
| | NothingIsEmptied | `NeverEmptied` |
| | FailuresRestore | `FailureRestores` |
| ActionProofs | CallsKeepTheirPromise | `ActionContract` |
| | NoFalseRecovery | `PersistentFailureSeen` |
| | VerifierTypeCorrect, ActionsTypeCorrect | `VerifierTypeOK`, `MCTypeOK` of MCActions |
| IngestorProofs | WindowsTileTime | `WindowsTile` |
| | AnswersAreRaised | `ModesRaised` |
| | IngestorTypeCorrect | `TypeOK` |
| ApiServerProofs | RunsWhatIsSaved | `RunningIsSaved` |
| | SecretsStay | `SecretsKept` |
| | LogIsReadable | `AcceptedIsReadable` |
| | LogTellsSwitch | `AuditTellsSwitch` |
| | TypesHold | `TypeOK` |

Assumptions: the constants' only, each named in the module that declares them; for
instance a positive number of workers, a channel of at least one place, a value that is
no incident, a row that is absent being no setting, a longest poll interval (the code has
one configured at a time), and marks for a torn line that are no events. TLC evaluates them
in every run.

The orchestrator. That no two pipelines share an incident is not inductive: the step that
starts one relies on the registry, and a pipeline that frees its slot before it leaves
the registry must still be counted. The invariant therefore says that the registry holds
exactly the incidents of the active goroutines and the one the loop waits with, that
these are pairwise different, and that the semaphore's count is the number of goroutines
from start to the freeing of their slot. Each action changes one goroutine; a lemma per
group of stages shows what it does to the registry and the count, and the theorem for
the two properties follows from the same invariant. Authorisation and the account of
changes are invariants of one goroutine's locals and stage, proved stage by stage. For
the kill switch, the pipelines past the last check only become fewer while the switch is
engaged, as every way there reads it, and each late call takes one of them:
`late + Cardinality(PastLastCheck) <= exposed`.

The refinement. The phase of an incident is read off the one goroutine that works on it;
that it is one is `OnePipelinePerIncident`, so the mapping is well defined on the reachable
states and a step of a goroutine changes the phase of its own incident only. The abstract
bound on busy incidents follows because they inject into the goroutines that hold a slot.

The policy. The invariant says of each gate what the gates before it made of the verdict
(`Judged`), starting from AUTO; the property is that of the last gate. Ranks only fall,
so the order of the gates does not matter to it and no gate raises a verdict again.

Approvals. A request's answer is in one place: still in the registry (`Unanswered`), with
the one handler that removed the entry, or in the channel (`HeldOnce`); what a call returns
as APPROVED came from there (`Returned`). Entries and rows exist only between the steps of
the call that makes and removes them (`Tidy`).

Outgoing calls. `Progress` says that the legs before the present one were dealt with, in
one of the ways the property allows, and that the attempts of the present one are all
among the counted failures; `OneKey` that PagerDuty was reached with the key now in hand.

Settings. A save that is about to write holds the row's secret if it omits its own and was
not misled (`Remembers`). A reload that no other save overlapped is the only one and of
what the row holds (`Sole`), half done in the case of the notifiers; `Applied` adds that
with no reload under way a clean component works with the row, and, because a start without
a row leaves the diagnoser as it is, that this holds also of a dead process whose row was
never written.

The circuit breaker. How many decisions a window takes is not inductive, as the record in
memory is not the history: evictions, restarts and failing writes separate them. `Covers`
matches the two, a decision with an entry at most as old and in the same order, but for some
`missed` that a crash cut off between memory and table. `Remembered` says that such a match
exists with at most one miss per goroutine and crash; so a check that passes has seen all but
those, and `WithinBound` counts the ones under way. That evict's leading run is what it is, is
an induction over a sequence, which is done with the least number that fails.

The correlator. That table and memory agree holds of a process that hydrated
(`MemoryAgrees`); of one that has not, the open rows are those that were open at the crash
(`Kept`). `Numbered` makes an ID that of one incident, so that an upsert touches no other row.
For the closing, `Recent` relates the last signal to the idle time the correlator keeps: a
signal that was dropped came within the deduplication window of one that was not, in memory
and, through the row's idle time, over a restart.

The git writer. `Jobs` says what a call knows at each step and `Landed` that its commit is
where its step says, whoever pushed it, or was overwritten by another call's; these hold
whatever happens, as a step that sets the branch puts into `lost` all it takes off it, and
the remote branch only grows. Until two calls overlap, `Alone` follows the one call from
worktree to index, tree, commit and branch (the index and the HEAD it read are still those), so that what it
commits is what it computed and no tree has an empty manifest. Until any mishap, `Clean` says
that each manifest nobody edits is as the remote has or had it, and that a call in the middle
of its edit can restore what it found.

Actions. `OwnEdit` ties what Apply remembers to the action's own field, `Announced` what a
dry run showed to what Apply would do now, while nobody changed the clone, and `OnlyOwnFields`
everything else to what it was before Apply, but for the companion. The contract of a step
follows from these before it.

The verifier. `Steady`: while every tick has a signal, the counted ones account for the time
that passed, each for at most a deduplication window (`Spacing`), and none was forgotten by a
resolved incident. At the window's end there are then more than the threshold.

The ingestor. `WindowsTile` is inductive once `Paced` is known: pollers start in their order
and each is next due within an interval of where its window ended, so that a window, which
goes no further back than one interval, begins where the one before it ended. The three
sources touch no variable of each other but the channel.

The audit log. An event is recorded by the last step of its request (`Past`), so that a new
one is not in the file. What is accepted and what is in the file then keep their order
(`Ordered`), as an append adds one match, of the two ends. `FewLost` counts: a process may
lose one event, and only if it opened a file whose last line is torn. For the switch,
`SwitchInv` says that at most one request is past the switch and before the log, the switch
then being at its position, and that the unterminated end of the file is no turn of the switch
that the next write would spoil.

Only model-checked: liveness, which needs ENABLED and fairness, which the prover does not
reach: `InFlightClears`, `KillDrains`, `CallsReturn`, `QuietIncidentsClose`,
`WrongIsSignalled`. There are no recursive operators.

## 6. Fairness

* Orchestrator: weak fairness of the Run loop and of each pipeline, because a goroutine
  that can run is scheduled, and the calls of its stages end: diagnosis, notifications and
  outcome by their client's timeout (a configured one, `NOTIFIER_SEND_TIMEOUT`; zero would
  mean none), approval by its timer, verification by its window, the rest by being local. The
  exception is Apply. It runs on the process's context, which the push takes over without a
  deadline (`pipeline.go:204`, `gitwriter.go:350`), and go-git's HTTP client has no timeout, so
  that `ApplyReturn` has no fairness. None is assumed of events, operators, crashes or
  restarts either.
* ApprovalRegistry: the clock and the waiting goroutine; no handler need ever come.
* Correlator: the clock, the resolver's ticker, the hydration and the restart of the
  process by Kubernetes. No signal need come.
* OutgoingCalls: each caller's goroutine, because every attempt has the client's timeout
  and every backoff is a timer or the cancellation. No answer need come.
* K8sWatcher: each informer's goroutine and its resync timer, weakly; its send, strongly:
  a goroutine that waits to send on a Go channel is served in order, so it cannot be
  overtaken for ever while others take the place that becomes free. `WrongIsSignalled`
  also assumes, in its own statement, that the correlator keeps receiving.

The other modules state safety only, and assume no fairness.

## 7. Where the code and what is said of it part

Four are violated by runs:

* `CleanExitWaits`. `agent/cmd/autosre/run.go:366` says "Graceful shutdown: wait for
  in-flight pipelines". The wait group has the HTTP server and the Run loop, not the
  pipelines; the program reports a clean stop while pipelines are still running.
* `NeverPanics`. `correlator.go:141` says the resolver loop runs "until ctx is cancelled.
  It closes the Events() channel on exit". Run closes the channel and does not wait for
  the resolver, whose select may take one more tick, and the send panics.
* `AutoWithinMemoryLimit`. `policy/config.go:67` says "MaxMemoryBumpFactor is the maximum
  allowed memory multiplier for AUTO. Exceeding it downgrades to REQUIRE_APPROVAL." The
  pipeline proposes the factor 0 (`pipeline.go:285`), which no limit stops, and the builder
  then takes the configured one: 2.5 with a limit of 2.0 is applied without asking. With
  the defaults, 1.5 and 2.0, it does not show.
* `OmittedIsKept`. `api/integrations.go:186` says of the authorisation header that an
  omitted one is to "keep the existing saved value". The handler drops the error of the
  load (line 237), so that a save writes an empty secret over the row, and of two saves
  the later can put an old secret back; `gitops.go:93`, `llm.go:79` and
  `notifications.go:77` do the same. `SecretsKept` is what holds.

The others are described here; the modules state what does hold.

* Git writer. `docs/PROJECT_PROGRESS.md:200` says "restored on any git error — no
  half-committed state". A failed push restores the file and keeps the commit
  (`gitwriter.go:316`), which the next push publishes. With two calls at once, a commit
  can lack its own change or be taken off the branch by the other's, and "commits the
  change" (`gitwriter.go:201`) fails of a call that reports success.
* `orchestrator/pipeline.go:16` says that a pipeline "must not block indefinitely"; a push to
  a remote that neither answers nor hangs up does (section 6).
* Rollback of an action. `contracts.go:182` says "Rollback undoes the effect of Apply".
  The right-size actions restore one of their two fields, and nothing when the first
  field had its value already; PatchHPA turns a minimum of zero into two.
  `ActionContract` names these exceptions and shows that there are no others. No caller of Rollback
  exists outside the tests.
* Image rollback. `docs/PRD_STATUS.md:23` says that it "discovers the last-known-good
  image from git history". It takes the second newest commit to the file, so it
  alternates between two images when used twice and does nothing after an unrelated
  commit. The pipeline cannot build it at all: nothing sets KnownGoodRef.
* Kill switch. `orchestrator.go:189` says that no Apply calls are made once it is set;
  `LateAppliesBounded` says which still are. A pipeline it stops ends without a message.
* `orchestrator.go:5` says Apply is never called unless the configuration enables it;
  SetApplyEnabled also does. `orchestrator.go:164` calls scheduling non-blocking; the
  loop waits for a slot at line 174, and InFlightCount counts the waiting incident.
* Policy. `policy/config.go:47` says a rule "overrides" the mode's autonomy; it only
  tightens it (`engine.go:217`). The limit on replica change (`config.go:64`) is compared
  with a proposal that has no current replicas (`pipeline.go:281`), so that it limits the
  target itself; and a default target that is not positive is judged as it is and built as
  two.
* Circuit breaker. `config.go:74` promises a number of decisions; see `RateBounded`.
* Approvals. `composite.go:107` says the web page takes the same path as Slack; it does
  not look at the deadline (`slack.go:229` does). Rows of approvals survive a restart,
  their waiters do not, so that no answer reaches anybody.
* Correlator. `contracts.go:60` says an incident closes when no signals came for the
  resolve window; see `ClosedWhenQuiet`. The severity is that of the newest first signal
  and not the highest (`contracts.go:54`). The correlation window is configured and
  logged but never read. A reopened incident keeps its first opening time in the table.
* Verifier. `verifier.go:43` says RECOVERED is only given when no matching signal was
  seen; duplicates are never seen. `PersistentFailureSeen` needs a window longer than
  the deduplication window times one more than the threshold (a deduplication window of no
  length counts as one tick), and a resolve window longer than the deduplication window.
* Informers. `k8s.go:52` says the update handler fires when the count of an event grows;
  the resync (line 47) calls it every 30 seconds for every stored event, so that one
  warning keeps an incident open as long as the API server keeps the event. A container
  that was once OOM-killed stays signalled in the same way. The webhook takes a
  "resolved" alert for a failure.
* Loki. The authorisation header is saved and shown, and nothing passes it to a poller.
* Diagnosis. `diagnosis/client.go:32` says "Set to 0 to disable retries"; zero becomes
  three (line 48), as it does in the notifiers.
* Notifications. A client error of Slack or PagerDuty is logged and taken for success,
  and a PagerDuty error is logged as "triggered". Notify reads the channel and the post
  reads the token later, so that a reload between mixes two settings, which Slack refuses.
* Audit. FileSink.Query ignores the offset it is given (`audit.go:65`) and, having found
  as many events as the limit, returns the oldest.
* Switches. A restart sets both from the configuration without an event, so that the log
  may say "engaged" of a disengaged kill switch.
* Language model. A restarted diagnoser has its environment's model until the agent is
  restarted or the settings are saved again, although the page shows the row.

## 8. What is not modelled, and why

* Reload of the git writer to another repository or branch in the middle of an edit, and
  its first clone; `Settings` has the reload itself.
* A reload of Loki with an empty address, which stops polling (`ingestor.go:84`): the save
  handler refuses it and the start does not call it. The limit of 64 KB on a line that
  `Query` can read (`file_sink.go:65`): longer details than the API's events have.
* The memory, multi and webhook sinks: no configuration of the program builds them (the
  webhook sink panics when recorded to after Stop). Filters of a query.
* API handlers that read: pages of incidents and settings, connection tests, revealing a
  secret, the learner's statistics. They change nothing.
* Alertmanager auto-apply and cluster detection: one Kubernetes call behind a button.
* Slack's message layout and signature, roles and rate limits of the API, static files:
  no state that other parts read.
* Configuration and metrics: constants, and counters nothing reads.
* The Python diagnoser and learner, the web UI, charts and infrastructure: outside the
  agent; their answers are inputs here. Policy packs can be loaded by a function that
  nothing calls.
* SQLite, go-git, the Kubernetes client and Loki themselves: external, with the
  behaviour the code relies on.
