------------------------------ MODULE Settings ------------------------------
(***************************************************************************)
(* Integration settings saved from the web page while the agent runs: a    *)
(* save loads the category's row to keep the secrets the request omits,    *)
(* writes the row, reloads the running component, and records an event.    *)
(* No lock is held across these steps.  The four categories (Loki, GitOps, *)
(* language model, notifications) share nothing but the store and the log, *)
(* so a behaviour is about one of them.                                    *)
(*                                                                         *)
(* A setting is a pair: open stands for the fields a page shows and secret *)
(* for those it does not; of the notifier, open is the Slack credentials   *)
(* and secret the PagerDuty key, which are reloaded under different locks. *)
(***************************************************************************)
EXTENDS AuditLog

CONSTANTS
  Categories,    \* of "loki", "gitops", "llm", "notifications"
  Saves,         \* requests to save, each served by a goroutine
  Values,        \* what a field may be set to, besides being cleared
  None,          \* no row
  MaxStarts      \* bound on the number of starts of the agent

ASSUME SettingsAssumption ==
  /\ Categories \subseteq {"loki", "gitops", "llm", "notifications"}
  /\ Values \intersect {"cleared", "omitted", "env"} = {}
  /\ MaxStarts \in Nat
  /\ None \notin [open : Values \union {"cleared"}, secret : Values \union {"cleared"}]

VARIABLES
  category,    \* the category of this behaviour
  process,     \* "down", "starting" or "serving"
  masterKey,   \* ./data/master.key: "missing", "short" or "whole"
  store,       \* there is a settings.Store
  row,         \* the category's row of integration_settings
  running,     \* the setting the component works with; the diagnoser for llm
  late,        \* configurations pushed in vain that the diagnoser may yet serve
  handler,     \* each save: its step, the request's body, and what it saves
  alone,       \* history: saves whose reload no other save overlapped
  misled,      \* history: saves whose row was not loaded, or changed since
  clean        \* history: the last reload or start worked, undisturbed

settingsVars == <<category, process, masterKey, store, row, running, late,
                  handler, alone, misled, clean>>

Fields   == Values \union {"cleared"}
Setting  == [open : Fields, secret : Fields]
FromEnv  == [open |-> "env", secret |-> "env"]
Blank    == [open |-> "cleared", secret |-> "cleared"]

\* Only notifications takes every field as one that may be omitted; loki and
\* gitops refuse an empty address or path before anything else.
Bodies ==
  [open : CASE category = "notifications" -> Fields \union {"omitted"}
            [] category = "llm" -> Fields
            [] OTHER -> Values,
   secret : Fields \union {"omitted"}]

Idle == [step |-> "idle", body |-> Blank, saved |-> Blank]
Steps == {"idle", "load", "save", "reload", "reload second", "record", "answered"}

BugTakesBody(s) == [f \in {"open", "secret"} |->
                      IF handler[s].body[f] = "omitted" THEN "cleared"
                      ELSE handler[s].body[f]]
ToReload(s) == handler[s].saved

\* The part of a setting that reaches the component: nothing passes Loki's
\* authorisation header on.
Works(x) == IF category = "loki" THEN [x EXCEPT !.secret = "cleared"] ELSE x

BugKeepsPlaceholder(given, existing) == given
BugClears(given, existing) == IF given = "omitted" THEN "cleared" ELSE given
Resolve(given, existing) == IF given = "omitted" THEN existing ELSE given

SettingsInit ==
  /\ category \in Categories
  /\ process = "down" /\ masterKey = "missing" /\ store = FALSE
  /\ row = None /\ running = Works(FromEnv) /\ late = {}
  /\ handler = [s \in Saves |-> Idle]
  /\ alone = {} /\ misled = {} /\ clean = TRUE

-----------------------------------------------------------------------------
(* The handlers of POST /api/v1/integrations/...                           *)

At(s, step) == process = "serving" /\ handler[s].step = step
Goto(s, step) == handler' = [handler EXCEPT ![s].step = step]
Reloading == {s \in Saves : handler[s].step \in {"reload", "reload second"}}

Post(s) ==
  /\ At(s, "idle")
  /\ \E b \in Bodies :
       handler' = [handler EXCEPT ![s] =
         [step |-> IF store THEN "load" ELSE "answered", body |-> b, saved |-> Blank]]
  /\ UNCHANGED <<category, process, masterKey, store, row, running, late,
                 alone, misled, clean, auditVars>>

\* Every handler drops the error of its load, which then found nothing.
Load(s) ==
  /\ At(s, "load")
  /\ \E found \in {row, None} :
       LET existing == IF found = None THEN Blank ELSE found
           saved == [f \in {"open", "secret"} |->
                       Resolve(handler[s].body[f], existing[f])]
           refused == category = "llm" /\ saved.open # "cleared"
                                       /\ saved.secret = "cleared"
       IN  /\ handler' = [handler EXCEPT ![s] =
                [@ EXCEPT !.step = IF refused THEN "answered" ELSE "save",
                          !.saved = saved]]
           /\ misled' = IF found = row THEN misled ELSE misled \union {s}
  /\ UNCHANGED <<category, process, masterKey, store, row, running, late,
                 alone, clean, auditVars>>

Save(s) ==
  /\ At(s, "save")
  /\ row' = handler[s].saved
  /\ Goto(s, "reload")
  /\ alone' = IF Reloading = {} THEN alone \union {s} ELSE alone \ Reloading
  /\ misled' = misled \union {t \in Saves \ {s} : handler[t].step = "save"}
  /\ UNCHANGED <<category, process, masterKey, store, running, late, clean, auditVars>>

SaveFails(s) ==
  /\ At(s, "save") /\ Goto(s, "answered")
  /\ UNCHANGED <<category, process, masterKey, store, row, running, late,
                 alone, misled, clean, auditVars>>

\* Not applied: the answer says that the settings are saved and not in use.
Reloaded(s) == Goto(s, "record") /\ clean' = (s \in alone)
NotApplied(s) == Goto(s, "answered") /\ clean' = FALSE

ReloadLoki(s) ==
  /\ category = "loki" /\ At(s, "reload")
  /\ running' = Works(ToReload(s))
  /\ Reloaded(s)
  /\ UNCHANGED <<category, process, masterKey, store, row, late, alone, misled, auditVars>>

\* Writer.Reload replaces the configuration before EnsureRepo may fail.
ReloadGitOps(s) ==
  /\ category = "gitops" /\ At(s, "reload")
  /\ running' = ToReload(s)
  /\ Reloaded(s) \/ NotApplied(s)
  /\ UNCHANGED <<category, process, masterKey, store, row, late, alone, misled, auditVars>>

ReloadCredentials(s) ==
  /\ category = "notifications" /\ At(s, "reload")
  /\ running' = [running EXCEPT !.open = ToReload(s).open]
  /\ Goto(s, "reload second")
  /\ UNCHANGED <<category, process, masterKey, store, row, late, alone, misled,
                 clean, auditVars>>

ReloadRoutingKey(s) ==
  /\ At(s, "reload second")
  /\ running' = [running EXCEPT !.secret = ToReload(s).secret]
  /\ Reloaded(s)
  /\ UNCHANGED <<category, process, masterKey, store, row, late, alone, misled, auditVars>>

\* One POST to the diagnoser.  Without an answer it may have been served, or be
\* served later.
PushFails(x) ==
  \/ UNCHANGED <<running, late>>
  \/ running' = x /\ UNCHANGED late
  \/ late' = late \union {x} /\ UNCHANGED running

PushConfig(s) ==
  /\ category = "llm" /\ At(s, "reload")
  /\ \/ running' = ToReload(s) /\ UNCHANGED late /\ Reloaded(s)
     \/ PushFails(ToReload(s)) /\ NotApplied(s)
  /\ UNCHANGED <<category, process, masterKey, store, row, alone, misled, auditVars>>

RecordSaved(s) ==
  /\ At(s, "record")
  /\ Record([id |-> s, outcome |-> "saved"])
  /\ Goto(s, "answered")
  /\ UNCHANGED <<category, process, masterKey, store, row, running, late,
                 alone, misled, clean>>

HandleSave(s) ==
  \/ Post(s) \/ Load(s) \/ Save(s) \/ SaveFails(s)
  \/ ReloadLoki(s) \/ ReloadGitOps(s) \/ ReloadCredentials(s)
  \/ ReloadRoutingKey(s) \/ PushConfig(s) \/ RecordSaved(s)

-----------------------------------------------------------------------------
(* The diagnoser, which holds its configuration in memory.                 *)

ServeLate ==
  /\ \E x \in late : running' = x /\ late' = late \ {x}
  /\ clean' = FALSE
  /\ UNCHANGED <<category, process, masterKey, store, row, handler, alone,
                 misled, auditVars>>

RestartDiagnoser ==
  /\ category = "llm" /\ running # FromEnv
  /\ running' = FromEnv /\ late' = {} /\ clean' = FALSE
  /\ UNCHANGED <<category, process, masterKey, store, row, handler, alone,
                 misled, auditVars>>

-----------------------------------------------------------------------------
(* The agent's start, and its end.                                         *)

\* EnsureMasterKey.  WriteFile may leave a short file behind, by an error or by
\* a crash, and a short file is refused from then on; so is a store that cannot
\* be opened.
EnsureMasterKey ==
  /\ process = "down" /\ opened < MaxStarts
  /\ process' = "starting"
  /\ \/ masterKey \in {"missing", "whole"} /\ masterKey' = "whole" /\ store' = TRUE
     \/ masterKey = "missing" /\ masterKey' = "short" /\ store' = FALSE
     \/ masterKey' = masterKey /\ store' = FALSE
  /\ UNCHANGED <<category, row, running, late, handler, alone, misled, clean, auditVars>>

\* The row takes precedence over the environment; without a row, or if it
\* cannot be loaded, the environment's values stay.  The diagnoser is only
\* told of a row.
Start ==
  /\ process = "starting" /\ process' = "serving"
  /\ \/ /\ store /\ row # None
        /\ \/ running' = Works(row) /\ clean' = TRUE /\ UNCHANGED late
           \/ category = "llm" /\ PushFails(row) /\ clean' = FALSE
     \/ /\ store => row = None
        /\ running' = IF category = "llm" THEN running ELSE Works(FromEnv)
        /\ clean' = (clean /\ row = None)
        /\ UNCHANGED late
     \/ /\ store /\ row # None
        /\ running' = IF category = "llm" THEN running ELSE Works(FromEnv)
        /\ clean' = FALSE
        /\ UNCHANGED late
  /\ NewFileSink
  /\ UNCHANGED <<category, masterKey, store, row, handler, alone, misled>>

\* A handler cut off is never answered.
Stopped == [s \in Saves |-> IF handler[s].step = "idle" THEN handler[s]
                            ELSE [handler[s] EXCEPT !.step = "answered"]]

-----------------------------------------------------------------------------
(* Properties.                                                             *)

\* Every variable has its type.
SettingsTypeOK ==
  /\ category \in Categories
  /\ process \in {"down", "starting", "serving"}
  /\ masterKey \in {"missing", "short", "whole"}
  /\ store \in BOOLEAN /\ clean \in BOOLEAN
  /\ row \in Setting \union {None}
  /\ running \in [open : Fields \union {"env"}, secret : Fields \union {"env"}]
  /\ late \subseteq Setting
  /\ handler \in [Saves -> [step : Steps, body : [open : Fields \union {"omitted"},
                                                  secret : Fields \union {"omitted"}],
                            saved : Setting]]
  /\ alone \subseteq Saves /\ misled \subseteq Saves

Resting == \A s \in Saves : handler[s].step \in {"idle", "load", "save", "answered"}

\* While no save is between its write and the end of its reload, the component
\* works with what a restart would load: unless, since the last undisturbed
\* save or start, a reload failed, two saves overlapped, the diagnoser
\* restarted or served an old push, or the start could not load the row.
RunningIsSaved ==
  process = "serving" /\ Resting /\ clean =>
    running = IF row = None THEN Works(FromEnv) ELSE Works(row)

SecretOf(r) == IF r = None THEN "cleared" ELSE r.secret
KeepsSecret(s) ==
  handler[s].body.secret = "omitted" => SecretOf(row') = SecretOf(row)
Writes(s) == handler[s].step = "save" /\ handler'[s].step = "reload"

\* A secret that a request leaves out stays in the row, unless the load of that
\* very save failed or another save changed the row since.
SecretsKept ==
  [][\A s \in Saves : Writes(s) /\ s \notin misled => KeepsSecret(s)]_<<settingsVars, auditVars>>

\* What the comment on the request promises without these exceptions.
OmittedIsKept ==
  [][\A s \in Saves : Writes(s) => KeepsSecret(s)]_<<settingsVars, auditVars>>
=============================================================================
