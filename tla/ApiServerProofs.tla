-------------------------- MODULE ApiServerProofs --------------------------
(***************************************************************************)
(* Theorems about saving settings and turning switches while the agent     *)
(* runs, and about the audit log both write to, for every number of saves, *)
(* of turns, of values of a field and of starts, and every set of          *)
(* categories.                                                             *)
(***************************************************************************)
EXTENDS ApiServer, FiniteSetTheorems, SequenceTheorems, NaturalsInduction,
        WellFoundedInduction, TLAPS

Body == [open : Fields \union {"omitted"}, secret : Fields \union {"omitted"}]
Request == [step : Steps, body : Body, saved : Setting]

InReload(h) == h.step \in {"reload", "reload second"}

Types ==
  /\ TypeOK
  /\ process = "starting" => opened < MaxStarts

\* Handlers run in a process that serves, and only a diagnoser answers late.
Alive ==
  /\ process # "serving" =>
       \A s \in Saves : handler[s].step \in {"idle", "answered"}
  /\ late # {} => category = "llm"

\* What a save that is about to write knows of the row's secret.
Remembers ==
  \A s \in Saves :
    handler[s].step = "save" /\ handler[s].body.secret = "omitted" /\ s \notin misled
      => handler[s].saved.secret = SecretOf(row)

\* A reload that no other save overlapped is the only one, of what the row holds.
Sole ==
  \A s \in Saves :
    /\ s \in alone => handler[s].step \notin {"idle", "load", "save"}
    /\ s \in alone /\ InReload(handler[s]) =>
         /\ row = handler[s].saved
         /\ \A t \in Saves : InReload(handler[t]) => t = s
    /\ handler[s].step = "reload second" =>
         /\ category = "notifications"
         /\ s \in alone => running.open = handler[s].saved.open

Worked == IF row = None THEN Works(FromEnv) ELSE Works(row)

\* When no reload is under way, or none ever was, a clean component works with
\* the row.
Applied ==
  /\ row = None => \A s \in Saves : ~InReload(handler[s])
  /\ clean /\ (row = None \/ (process = "serving" /\ \A s \in Saves : ~InReload(handler[s])))
       => running = Worked

IInv == Types /\ Alive /\ Remembers /\ Sole /\ Applied

-----------------------------------------------------------------------------
(* Types.                                                                  *)

LEMMA Shapes ==
  /\ Blank \in Setting /\ FromEnv \in [open : Fields \union {"env"}, secret : Fields \union {"env"}]
  /\ None \notin Setting /\ Idle \in Request
  /\ Setting \subseteq [open : Fields \union {"env"}, secret : Fields \union {"env"}]
  /\ \A x \in Setting : Works(x) \in Setting
  /\ Works(FromEnv) \in [open : Fields \union {"env"}, secret : Fields \union {"env"}]
  /\ \A x : category # "loki" => Works(x) = x
<1>1. /\ Blank \in Setting
      /\ FromEnv \in [open : Fields \union {"env"}, secret : Fields \union {"env"}]
  BY DEF Blank, FromEnv, Setting, Fields
<1>2. None \notin Setting
  BY SettingsAssumption DEF Setting, Fields
<1>3. Idle \in Request
  BY <1>1 DEF Idle, Request, Steps, Body, Blank, Setting
<1>4. /\ \A x \in Setting : Works(x) \in Setting
      /\ Works(FromEnv) \in [open : Fields \union {"env"}, secret : Fields \union {"env"}]
      /\ \A x : category # "loki" => Works(x) = x
  BY <1>1 DEF Works, Setting, Fields
<1> QED  BY <1>1, <1>2, <1>3, <1>4 DEF Setting

LEMMA HandlerType ==
  ASSUME TypeOK
  PROVE  /\ handler \in [Saves -> Request]
         /\ \A s \in Saves : handler[s] \in Request /\ handler[s].saved \in Setting
                             /\ handler[s].body \in Body
<1>1. handler \in [Saves -> Request]
  BY DEF TypeOK, SettingsTypeOK, Request, Body
<1> QED  BY <1>1 DEF Request

LEMMA InitIInv == Init => IInv
<1> SUFFICES ASSUME Init PROVE IInv
  OBVIOUS
<1>1. handler \in [Saves -> Request] /\ \A s \in Saves : handler[s] = Idle
  BY Shapes DEF Init, SettingsInit
<1>2. SettingsTypeOK
  BY <1>1, Shapes, SettingsAssumption
     DEF Init, SettingsInit, SettingsTypeOK, Request, Body
<1>3. ControlTypeOK /\ opened = 0 /\ process = "down"
  BY AtStartAssumption
     DEF Init, AuditInit, SettingsInit, ControlInit, ControlTypeOK, ToggleIdle, ToggleSteps
<1>4. Types
  BY <1>2, <1>3, SettingsAssumption DEF Types, TypeOK
<1>5. \A s \in Saves : handler[s].step = "idle"
  BY <1>1 DEF Idle
<1> QED
  BY <1>4, <1>5 DEF IInv, Alive, Remembers, Sole, Applied, InReload, Worked,
                    Init, SettingsInit

-----------------------------------------------------------------------------
(* A step of one save that neither begins nor ends a reload.               *)

Moves(s, h) ==
  /\ handler' = [handler EXCEPT ![s] = h]
  /\ UNCHANGED <<category, process, masterKey, store, opened, controlVars>>

LEMMA Moved ==
  ASSUME IInv, NEW s \in Saves, NEW h \in Request, Moves(s, h)
  PROVE  /\ handler' \in [Saves -> Request]
         /\ handler'[s] = h
         /\ \A t \in Saves \ {s} : handler'[t] = handler[t]
         /\ ControlTypeOK' /\ opened' \in 0..MaxStarts
         /\ process' = "starting" => opened' < MaxStarts
<1>1. handler \in [Saves -> Request]
  BY HandlerType DEF IInv, Types
<1>2. /\ handler' \in [Saves -> Request] /\ handler'[s] = h
      /\ \A t \in Saves \ {s} : handler'[t] = handler[t]
  BY <1>1 DEF Moves
<1>3. ControlTypeOK' /\ opened' \in 0..MaxStarts
  BY DEF Moves, controlVars, IInv, Types, TypeOK, ControlTypeOK
<1>4. process' = "starting" => opened' < MaxStarts
  BY DEF Moves, IInv, Types
<1> QED  BY <1>2, <1>3, <1>4

LEMMA QuietStep ==
  ASSUME IInv, NEW s \in Saves, process = "serving", NEW h \in Request, Moves(s, h),
         UNCHANGED <<row, running, late, alone, clean>>,
         misled' \subseteq Saves, misled \subseteq misled',
         ~InReload(handler[s]), ~InReload(h),
         handler[s].step \in {"idle", "load", "save"} \/ h.step = "answered",
         h.step = "save" /\ h.body.secret = "omitted" /\ s \notin misled'
           => h.saved.secret = SecretOf(row)
  PROVE  IInv' /\ row' = row
<1>1. /\ handler' \in [Saves -> Request] /\ handler'[s] = h
      /\ \A t \in Saves \ {s} : handler'[t] = handler[t]
      /\ ControlTypeOK' /\ opened' \in 0..MaxStarts
      /\ process' = "starting" => opened' < MaxStarts
  BY Moved
<1>2. Types'
  BY <1>1 DEF Moves, IInv, Types, TypeOK, SettingsTypeOK, Request, Body
<1>3. Alive'
  BY <1>1 DEF Moves, IInv, Alive
<1>4. Remembers'
  BY <1>1 DEF IInv, Remembers, SecretOf
<1>5. Sole'
  BY <1>1 DEF Moves, IInv, Sole, InReload
<1>6. Applied'
  BY <1>1 DEF Moves, IInv, Applied, InReload, Worked, Works
<1> QED  BY <1>2, <1>3, <1>4, <1>5, <1>6 DEF IInv

-----------------------------------------------------------------------------
(* The write and the reload of one save.                                   *)

LEMMA SaveStep ==
  ASSUME IInv, NEW s \in Saves, Save(s), UNCHANGED controlVars
  PROVE  IInv'
<1>0. /\ handler \in [Saves -> Request] /\ handler[s] \in Request
      /\ handler[s].saved \in Setting
  BY HandlerType DEF IInv, Types
<1> DEFINE h == [handler[s] EXCEPT !.step = "reload"]
<1>1. h \in Request /\ h.step = "reload" /\ h.saved = handler[s].saved
  BY <1>0 DEF Request, Steps
<1>2. Moves(s, h) /\ handler[s].step = "save" /\ process = "serving"
  BY <1>0 DEF Save, At, Goto, Moves, auditVars
<1> HIDE DEF h
<1>3. /\ handler' \in [Saves -> Request] /\ handler'[s] = h
      /\ \A t \in Saves \ {s} : handler'[t] = handler[t]
      /\ ControlTypeOK' /\ opened' \in 0..MaxStarts
      /\ process' = "starting" => opened' < MaxStarts
  BY <1>1, <1>2, Moved
<1>4. /\ row' = handler[s].saved /\ UNCHANGED <<running, late, clean>>
      /\ alone' = IF Reloading = {} THEN alone \union {s} ELSE alone \ Reloading
      /\ misled' = misled \union {t \in Saves \ {s} : handler[t].step = "save"}
  BY DEF Save
<1>5. Types'
  BY <1>0, <1>2, <1>3, <1>4
     DEF Moves, IInv, Types, TypeOK, SettingsTypeOK, Request, Body
<1>6. Alive'
  BY <1>2, <1>3, <1>4 DEF Moves, IInv, Alive
<1>7. Remembers'
  BY <1>1, <1>3, <1>4 DEF IInv, Remembers
<1>8. \A t \in Saves : t \in Reloading <=> InReload(handler[t])
  BY DEF Reloading, InReload
<1>9. Sole'
  <2> SUFFICES ASSUME NEW t \in Saves
               PROVE  /\ t \in alone' => handler'[t].step \notin {"idle", "load", "save"}
                      /\ t \in alone' /\ InReload(handler'[t]) =>
                           /\ row' = handler'[t].saved
                           /\ \A u \in Saves : InReload(handler'[u]) => u = t
                      /\ handler'[t].step = "reload second" =>
                           /\ category' = "notifications"
                           /\ t \in alone' => running'.open = handler'[t].saved.open
    BY DEF Sole, InReload
  <2>1. s \notin alone
    BY <1>2 DEF IInv, Sole
  <2>2. CASE t = s
    BY <1>1, <1>3, <1>4, <1>8, <2>1, <2>2 DEF InReload
  <2>3. CASE t # s
    BY <1>2, <1>3, <1>4, <1>8, <2>3 DEF Moves, IInv, Sole, InReload
  <2> QED  BY <2>2, <2>3
<1>10. Applied'
  <2>1. row' # None /\ InReload(handler'[s])
    BY <1>0, <1>1, <1>3, <1>4, Shapes DEF InReload
  <2> QED  BY <2>1 DEF Applied, InReload
<1> QED  BY <1>5, <1>6, <1>7, <1>9, <1>10 DEF IInv

\* The end of a reload: it worked, or the component is no longer clean.
LEMMA ReloadStep ==
  ASSUME IInv, NEW s \in Saves, process = "serving", NEW step \in {"record", "answered"},
         Goto(s, step), InReload(handler[s]),
         UNCHANGED <<category, process, masterKey, store, row, alone, misled,
                     opened, controlVars>>,
         running' \in [open : Fields \union {"env"}, secret : Fields \union {"env"}],
         late' \subseteq Setting, late' # {} => category = "llm",
         clean' \in BOOLEAN,
         clean' => s \in alone /\ running' = Works(handler[s].saved)
  PROVE  IInv'
<1>0. /\ handler \in [Saves -> Request] /\ handler[s] \in Request
      /\ handler[s].saved \in Setting
  BY HandlerType DEF IInv, Types
<1> DEFINE h == [handler[s] EXCEPT !.step = step]
<1>1. h \in Request /\ h.step = step /\ ~InReload(h)
  BY <1>0 DEF Request, Steps, InReload
<1>2. Moves(s, h)
  BY <1>0 DEF Goto, Moves
<1> HIDE DEF h
<1>3. /\ handler' \in [Saves -> Request] /\ handler'[s] = h
      /\ \A t \in Saves \ {s} : handler'[t] = handler[t]
      /\ ControlTypeOK' /\ opened' \in 0..MaxStarts
      /\ process' = "starting" => opened' < MaxStarts
  BY <1>1, <1>2, Moved
<1>4. Types'
  BY <1>3 DEF Moves, IInv, Types, TypeOK, SettingsTypeOK, Request, Body
<1>5. Alive'
  BY <1>3 DEF IInv, Alive
<1>6. Remembers'
  BY <1>1, <1>3 DEF IInv, Remembers, SecretOf
<1>7. \A t \in Saves : t \in alone /\ InReload(handler[t]) => t = s
  BY DEF IInv, Sole
<1>8. Sole'
  BY <1>1, <1>3, <1>7 DEF IInv, Sole, InReload
<1>9. Applied'
  <2>1. row # None
    BY DEF IInv, Applied
  <2>2. clean' => running' = Works(row)
    BY DEF IInv, Sole
  <2>3. Works(row)' = Works(row)
    BY DEF Works
  <2> QED  BY <2>1, <2>2, <2>3 DEF Applied, Worked
<1> QED  BY <1>4, <1>5, <1>6, <1>8, <1>9 DEF IInv

LEMMA CredentialsStep ==
  ASSUME IInv, NEW s \in Saves, ReloadCredentials(s), UNCHANGED controlVars
  PROVE  IInv'
<1>0. /\ handler \in [Saves -> Request] /\ handler[s] \in Request
      /\ handler[s].saved \in Setting
      /\ running \in [open : Fields \union {"env"}, secret : Fields \union {"env"}]
  BY HandlerType DEF IInv, Types, TypeOK, SettingsTypeOK
<1> DEFINE h == [handler[s] EXCEPT !.step = "reload second"]
<1>1. h \in Request /\ h.step = "reload second" /\ h.saved = handler[s].saved
  BY <1>0 DEF Request, Steps
<1>2. /\ Moves(s, h) /\ handler[s].step = "reload" /\ process = "serving"
      /\ category = "notifications"
  BY <1>0 DEF ReloadCredentials, At, Goto, Moves, auditVars
<1> HIDE DEF h
<1>3. /\ handler' \in [Saves -> Request] /\ handler'[s] = h
      /\ \A t \in Saves \ {s} : handler'[t] = handler[t]
      /\ ControlTypeOK' /\ opened' \in 0..MaxStarts
      /\ process' = "starting" => opened' < MaxStarts
  BY <1>1, <1>2, Moved
<1>4. /\ running' = [running EXCEPT !.open = handler[s].saved.open]
      /\ UNCHANGED <<row, late, alone, misled, clean>>
  BY DEF ReloadCredentials, ToReload
<1>5. /\ running' \in [open : Fields \union {"env"}, secret : Fields \union {"env"}]
      /\ running'.open = handler[s].saved.open
  BY <1>0, <1>4 DEF Setting
<1>6. Types'
  BY <1>2, <1>3, <1>4, <1>5
     DEF Moves, IInv, Types, TypeOK, SettingsTypeOK, Request, Body
<1>7. Alive'
  BY <1>2, <1>3, <1>4 DEF Moves, IInv, Alive
<1>8. Remembers'
  BY <1>1, <1>3, <1>4 DEF IInv, Remembers, SecretOf
<1>9. Sole'
  <2> SUFFICES ASSUME NEW t \in Saves
               PROVE  /\ t \in alone' => handler'[t].step \notin {"idle", "load", "save"}
                      /\ t \in alone' /\ InReload(handler'[t]) =>
                           /\ row' = handler'[t].saved
                           /\ \A u \in Saves : InReload(handler'[u]) => u = t
                      /\ handler'[t].step = "reload second" =>
                           /\ category' = "notifications"
                           /\ t \in alone' => running'.open = handler'[t].saved.open
    BY DEF Sole, InReload
  <2>1. category' = category
    BY <1>2 DEF Moves
  <2>2. \A u \in Saves : InReload(handler'[u]) <=> InReload(handler[u])
    BY <1>1, <1>2, <1>3 DEF InReload
  <2>3. CASE t = s
    BY <1>1, <1>2, <1>3, <1>4, <1>5, <2>1, <2>2, <2>3 DEF IInv, Sole, InReload
  <2>4. CASE t # s
    <3>1. t \in alone => ~InReload(handler[t])
      BY <1>2, <2>4 DEF IInv, Sole, InReload
    <3> QED  BY <1>3, <1>4, <2>1, <2>2, <2>4, <3>1 DEF IInv, Sole, InReload
  <2> QED  BY <2>3, <2>4
<1>10. Applied'
  BY <1>1, <1>2, <1>3, <1>4 DEF IInv, Applied, InReload
<1> QED  BY <1>6, <1>7, <1>8, <1>9, <1>10 DEF IInv

LEMMA ReloadedSays ==
  ASSUME NEW s \in Saves, Reloaded(s)
  PROVE  Goto(s, "record") /\ clean' \in BOOLEAN /\ (clean' => s \in alone)
<1>1. Goto(s, "record")
  BY DEF Reloaded
<1>2. CASE s \in alone
  <2>1. clean' = TRUE
    BY <1>2, Zenon DEF Reloaded
  <2> QED  BY <1>1, <1>2, <2>1
<1>3. CASE s \notin alone
  <2>1. clean' = (s \in alone)
    BY DEF Reloaded
  <2>2. (s \in alone) = FALSE
    BY <1>3
  <2>3. clean' = FALSE
    BY <2>1, <2>2, Zenon
  <2> QED  BY <1>1, <2>3
<1> QED  BY <1>2, <1>3

LEMMA HandleSaveIInv ==
  ASSUME IInv, NEW s \in Saves, HandleSave(s), UNCHANGED controlVars
  PROVE  IInv'
<1>0. /\ handler \in [Saves -> Request] /\ handler[s] \in Request
      /\ handler[s].saved \in Setting /\ handler[s].body \in Body
      /\ running \in [open : Fields \union {"env"}, secret : Fields \union {"env"}]
      /\ row \in Setting \union {None} /\ late \subseteq Setting
      /\ misled \subseteq Saves
  BY HandlerType DEF IInv, Types, TypeOK, SettingsTypeOK
<1>1. CASE Post(s)
  <2>1. PICK b \in Bodies : handler' = [handler EXCEPT ![s] =
          [step |-> IF store THEN "load" ELSE "answered", body |-> b, saved |-> Blank]]
    BY <1>1 DEF Post
  <2>2. b \in Body
    BY DEF Bodies, Body, Fields
  <2> DEFINE h == [step |-> IF store THEN "load" ELSE "answered",
                   body |-> b, saved |-> Blank]
  <2>3. h \in Request /\ h.step \in {"load", "answered"}
    BY <2>2, Shapes DEF Request, Steps
  <2>4. /\ Moves(s, h) /\ process = "serving" /\ handler[s].step = "idle"
        /\ UNCHANGED <<row, running, late, alone, misled, clean>>
    BY <1>1, <2>1 DEF Post, At, Moves, auditVars
  <2> HIDE DEF h
  <2> QED  BY <1>0, <2>3, <2>4, QuietStep DEF InReload
<1>2. CASE Load(s)
  <2>1. PICK found \in {row, None} :
          LET existing == IF found = None THEN Blank ELSE found
              saved == [f \in {"open", "secret"} |->
                          Resolve(handler[s].body[f], existing[f])]
              refused == category = "llm" /\ saved.open # "cleared"
                                          /\ saved.secret = "cleared"
          IN  /\ handler' = [handler EXCEPT ![s] =
                   [@ EXCEPT !.step = IF refused THEN "answered" ELSE "save",
                             !.saved = saved]]
              /\ misled' = IF found = row THEN misled ELSE misled \union {s}
    BY <1>2 DEF Load
  <2> DEFINE existing == IF found = None THEN Blank ELSE found
             saved == [f \in {"open", "secret"} |->
                         Resolve(handler[s].body[f], existing[f])]
             refused == category = "llm" /\ saved.open # "cleared"
                                         /\ saved.secret = "cleared"
             h == [handler[s] EXCEPT !.step = IF refused THEN "answered" ELSE "save",
                                     !.saved = saved]
  <2>2. existing \in Setting /\ existing.secret = SecretOf(found)
    BY <1>0, Shapes DEF SecretOf, Blank
  <2>3. /\ saved \in Setting
        /\ handler[s].body.secret = "omitted" => saved.secret = SecretOf(found)
    BY <1>0, <2>2 DEF Resolve, Setting, Body
  <2>4. /\ h \in Request /\ h.step \in {"save", "answered"}
        /\ h.body = handler[s].body /\ h.saved = saved
    BY <1>0, <2>3 DEF Request, Steps
  <2>5. /\ Moves(s, h) /\ process = "serving" /\ handler[s].step = "load"
        /\ UNCHANGED <<row, running, late, alone, clean>>
        /\ misled' = IF found = row THEN misled ELSE misled \union {s}
    BY <1>0, <1>2, <2>1 DEF Load, At, Moves, auditVars
  <2> HIDE DEF h, saved, refused, existing
  <2>6. h.step = "save" /\ h.body.secret = "omitted" /\ s \notin misled'
          => h.saved.secret = SecretOf(row)
    BY <2>3, <2>4, <2>5
  <2> QED  BY <1>0, <2>4, <2>5, <2>6, QuietStep DEF InReload
<1>3. CASE SaveFails(s) \/ RecordSaved(s)
  <2> DEFINE h == [handler[s] EXCEPT !.step = "answered"]
  <2>1. h \in Request /\ h.step = "answered"
    BY <1>0 DEF Request, Steps
  <2>2. /\ Moves(s, h) /\ process = "serving" /\ handler[s].step \in {"save", "record"}
        /\ UNCHANGED <<row, running, late, alone, misled, clean>>
    BY <1>0, <1>3 DEF SaveFails, RecordSaved, Record, Goto, At, Moves, auditVars
  <2> HIDE DEF h
  <2> QED  BY <1>0, <2>1, <2>2, QuietStep DEF InReload
<1>4. CASE Save(s)
  BY <1>4, SaveStep
<1>5. CASE ReloadLoki(s)
  <2>1. running' = Works(handler[s].saved) /\ late' = late /\ category # "llm"
    BY <1>5 DEF ReloadLoki, ToReload
  <2>2. late' = {} \/ category = "llm"
    BY <2>1 DEF IInv, Alive
  <2>3. /\ process = "serving" /\ Goto(s, "record") /\ InReload(handler[s])
        /\ clean' \in BOOLEAN /\ (clean' => s \in alone)
        /\ UNCHANGED <<category, process, masterKey, store, row, alone, misled,
                       opened, controlVars>>
    BY <1>5, ReloadedSays DEF ReloadLoki, At, InReload, auditVars
  <2>4. running' \in [open : Fields \union {"env"}, secret : Fields \union {"env"}]
    BY <1>0, <2>1, Shapes
  <2> QED  BY <1>0, <2>1, <2>2, <2>3, <2>4, ReloadStep
<1>6. CASE ReloadGitOps(s)
  <2>1. running' = handler[s].saved /\ late' = late /\ category = "gitops"
    BY <1>6 DEF ReloadGitOps, ToReload
  <2>2. late' = {} /\ running' = Works(handler[s].saved)
    BY <2>1, Shapes DEF IInv, Alive
  <2>3. /\ process = "serving" /\ InReload(handler[s])
        /\ \/ Goto(s, "record") /\ clean' \in BOOLEAN /\ (clean' => s \in alone)
           \/ Goto(s, "answered") /\ clean' = FALSE
        /\ UNCHANGED <<category, process, masterKey, store, row, alone, misled,
                       opened, controlVars>>
    BY <1>6, ReloadedSays DEF ReloadGitOps, At, NotApplied, InReload, auditVars
  <2>4. running' \in [open : Fields \union {"env"}, secret : Fields \union {"env"}]
    BY <1>0, <2>1, Shapes
  <2> QED  BY <1>0, <2>1, <2>2, <2>3, <2>4, ReloadStep
<1>7. CASE ReloadCredentials(s)
  BY <1>7, CredentialsStep
<1>8. CASE ReloadRoutingKey(s)
  <2>1. /\ running' = [running EXCEPT !.secret = handler[s].saved.secret]
        /\ late' = late /\ handler[s].step = "reload second"
        /\ process = "serving" /\ Goto(s, "record") /\ clean' \in BOOLEAN /\ (clean' => s \in alone)
        /\ UNCHANGED <<category, process, masterKey, store, row, alone, misled,
                       opened, controlVars>>
    BY <1>8, ReloadedSays DEF ReloadRoutingKey, ToReload, At, auditVars
  <2>2. /\ category = "notifications" /\ late' = {}
        /\ s \in alone => running.open = handler[s].saved.open
    BY <2>1 DEF IInv, Alive, Sole
  <2>3. running' \in [open : Fields \union {"env"}, secret : Fields \union {"env"}]
    BY <1>0, <2>1 DEF Setting
  <2>4. s \in alone => running' = handler[s].saved
    BY <1>0, <2>1, <2>2 DEF Setting
  <2>5. Works(handler[s].saved) = handler[s].saved
    BY <2>2, Shapes
  <2>6. InReload(handler[s])
    BY <2>1 DEF InReload
  <2> QED  BY <1>0, <2>1, <2>2, <2>3, <2>4, <2>5, <2>6, ReloadStep
<1>9. CASE PushConfig(s)
  <2>1. /\ process = "serving" /\ InReload(handler[s]) /\ category = "llm"
        /\ \/ /\ Goto(s, "record") /\ clean' \in BOOLEAN /\ (clean' => s \in alone)
              /\ running' = handler[s].saved /\ late' = late
           \/ /\ Goto(s, "answered") /\ clean' = FALSE
              /\ running' \in {running, handler[s].saved}
              /\ late' \in {late, late \union {handler[s].saved}}
        /\ UNCHANGED <<category, process, masterKey, store, row, alone, misled,
                       opened, controlVars>>
    BY <1>9, ReloadedSays
       DEF PushConfig, PushFails, ToReload, At, NotApplied, InReload, auditVars
  <2>2. Works(handler[s].saved) = handler[s].saved
    BY <2>1, Shapes
  <2>3. /\ running' \in [open : Fields \union {"env"}, secret : Fields \union {"env"}]
        /\ late' \subseteq Setting
    BY <1>0, <2>1, Shapes
  <2> QED  BY <1>0, <2>1, <2>2, <2>3, ReloadStep
<1> QED
  BY <1>1, <1>2, <1>3, <1>4, <1>5, <1>6, <1>7, <1>8, <1>9 DEF HandleSave

-----------------------------------------------------------------------------
(* The diagnoser, the process and the switch.                              *)

\* The component changes by itself, or a handler of the switch takes a step.
LEMMA OutsideStep ==
  ASSUME IInv, Types', UNCHANGED <<category, process, row, handler, alone, misled>>,
         late' # {} => category = "llm",
         \/ UNCHANGED <<running, clean>>
         \/ category = "llm" /\ clean' = FALSE
  PROVE  IInv'
<1>1. Alive' /\ Remembers'
  BY DEF IInv, Alive, Remembers, SecretOf
<1>2. Sole'
  BY DEF IInv, Sole, InReload
<1>3. Applied'
  <2>1. Worked' = Worked /\ \A s \in Saves : InReload(handler[s])' = InReload(handler[s])
    BY DEF Worked, Works, InReload
  <2>2. Applied
    BY DEF IInv
  <2>3. CASE UNCHANGED <<running, clean>>
    BY <2>1, <2>2, <2>3 DEF Applied, InReload
  <2>4. CASE clean' = FALSE
    BY <2>2, <2>4 DEF Applied, InReload
  <2> QED  BY <2>3, <2>4
<1> QED  BY <1>1, <1>2, <1>3 DEF IInv

LEMMA ToggleTypes ==
  ASSUME IInv, NEW t \in Toggles, HandleToggle(t), UNCHANGED settingsVars
  PROVE  Types'
<1>0. Types /\ toggle \in [Toggles -> [step : ToggleSteps, to : Positions, prev : Positions]]
      /\ switch \in Positions /\ told \in BOOLEAN
  BY DEF IInv, Types, TypeOK, ControlTypeOK
<1>1. SettingsTypeOK' /\ process' = process
  BY <1>0 DEF Types, TypeOK, SettingsTypeOK, settingsVars
<1>2. ControlTypeOK' /\ opened' = opened
  <2>1. CASE PostToggle(t)
    <3>1. PICK p \in Positions :
            toggle' = [toggle EXCEPT ![t] = [@ EXCEPT !.step = "read", !.to = p]]
      BY <2>1 DEF PostToggle
    <3> QED  BY <1>0, <2>1, <3>1 DEF PostToggle, ControlTypeOK, ToggleSteps, auditVars
  <2>2. CASE ReadSwitch(t)
    BY <1>0, <2>2 DEF ReadSwitch, ControlTypeOK, ToggleSteps, auditVars
  <2>3. CASE SetSwitch(t)
    <3>1. (Unrecorded = {}) \in BOOLEAN
      OBVIOUS
    <3>2. /\ toggle' = [toggle EXCEPT ![t].step = "record"]
          /\ switch' = toggle[t].to /\ told' \in BOOLEAN /\ opened' = opened
      BY <2>3, <3>1 DEF SetSwitch, ToggleAt, auditVars
    <3> QED  BY <1>0, <3>2 DEF ControlTypeOK, ToggleSteps
  <2>4. CASE RecordToggle(t)
    <3>1. /\ toggle' = [toggle EXCEPT ![t].step = "answered"]
          /\ switch' = switch /\ told' \in BOOLEAN /\ opened' = opened
      BY <2>4 DEF RecordToggle, ToggleAt, Record
    <3> QED  BY <1>0, <3>1 DEF ControlTypeOK, ToggleSteps
  <2> QED  BY <2>1, <2>2, <2>3, <2>4 DEF HandleToggle
<1> QED  BY <1>0, <1>1, <1>2 DEF Types, TypeOK

LEMMA StartStep ==
  ASSUME IInv, Start, StartControl
  PROVE  IInv'
<1>0. /\ Types /\ row \in Setting \union {None} /\ late \subseteq Setting
      /\ running \in [open : Fields \union {"env"}, secret : Fields \union {"env"}]
      /\ clean \in BOOLEAN /\ opened \in 0..MaxStarts /\ MaxStarts \in Nat
  BY SettingsAssumption DEF IInv, Types, TypeOK, SettingsTypeOK
<1>1. /\ process = "starting" /\ process' = "serving" /\ opened' = opened + 1
      /\ UNCHANGED <<category, masterKey, store, row, handler, alone, misled>>
  BY DEF Start, NewFileSink
<1>2. \/ row # None /\ running' = Works(row) /\ clean' = TRUE /\ late' = late
      \/ /\ row # None /\ category = "llm" /\ clean' = FALSE
         /\ running' \in {running, row} /\ late' \in {late, late \union {row}}
      \/ /\ running' \in {running, Works(FromEnv)} /\ late' = late
         /\ row # None /\ clean' = FALSE
      \/ /\ running' = (IF category = "llm" THEN running ELSE Works(FromEnv))
         /\ row = None /\ clean' = clean /\ late' = late
  <2>1. (row = None) \in BOOLEAN
    OBVIOUS
  <2> QED  BY <1>0, <2>1 DEF Start, PushFails
<1>3. SettingsTypeOK'
  <2>1. running' \in [open : Fields \union {"env"}, secret : Fields \union {"env"}]
    <3>1. row # None => row \in Setting /\ Works(row) \in Setting
      BY <1>0, Shapes
    <3> QED  BY <1>0, <1>2, <3>1, Shapes
  <2>2. late' \subseteq Setting /\ clean' \in BOOLEAN
    BY <1>0, <1>2
  <2> QED  BY <1>0, <1>1, <2>1, <2>2 DEF Types, TypeOK, SettingsTypeOK
<1>4. ControlTypeOK'
  <2>1. told' \in BOOLEAN
    BY <1>0 DEF StartControl, Types, TypeOK, ControlTypeOK
  <2> QED  BY <1>0, <2>1, AtStartAssumption DEF StartControl, Types, TypeOK, ControlTypeOK
<1>5. Types'
  BY <1>0, <1>1, <1>3, <1>4 DEF Types, TypeOK
<1>6. \A s \in Saves : handler[s].step \in {"idle", "answered"}
  BY <1>1 DEF IInv, Alive
<1>7. Alive' /\ Remembers' /\ Sole'
  BY <1>1, <1>2, <1>6 DEF IInv, Alive, Remembers, Sole, InReload, SecretOf
<1>8. Applied'
  <2>1. /\ Works(row)' = Works(row) /\ Works(FromEnv)' = Works(FromEnv)
        /\ \A x : category # "loki" => Works(x) = x
    BY <1>1, Shapes DEF Works
  <2>2. \A s \in Saves : ~InReload(handler[s]) /\ ~InReload(handler'[s])
    BY <1>1, <1>6 DEF InReload
  <2>3. row' = row /\ (clean /\ row = None => running = Works(FromEnv))
    BY <1>1 DEF IInv, Applied, Worked
  <2>4. clean' => running' = IF row = None THEN Works(FromEnv) ELSE Works(row)
    BY <1>2, <2>3
  <2>5. Worked' = Worked
    BY <2>1, <2>3 DEF Worked
  <2>6. clean' => running' = Worked'
    BY <2>4, <2>5 DEF Worked
  <2>7. \A s \in Saves : ~InReload(handler[s])'
    BY <2>2 DEF InReload
  <2> QED  BY <2>6, <2>7, Zenon DEF Applied
<1> QED  BY <1>5, <1>7, <1>8 DEF IInv

LEMMA CrashStep ==
  ASSUME IInv, Crash
  PROVE  IInv'
<1>0. Types /\ handler \in [Saves -> Request]
  BY HandlerType DEF IInv, Types
<1>1. /\ process' = "down" /\ handler' = Stopped
      /\ UNCHANGED <<category, masterKey, store, row, running, late, alone, misled,
                     clean, switch, opened>>
      /\ told' = (told /\ Unrecorded = {}) /\ toggle' = ToggleStopped
  BY DEF Crash, auditVars
<1>2. /\ handler' \in [Saves -> Request]
      /\ \A s \in Saves : IF handler[s].step = "idle" THEN handler'[s] = handler[s]
                          ELSE handler'[s].step = "answered"
  BY <1>0, <1>1 DEF Stopped, Request, Steps
<1>3. SettingsTypeOK'
  BY <1>0, <1>1, <1>2 DEF Types, TypeOK, SettingsTypeOK, Request, Body
<1>4. ControlTypeOK'
  <2>1. told' \in BOOLEAN
    BY <1>0, <1>1 DEF Types, TypeOK, ControlTypeOK
  <2>2. toggle' \in [Toggles -> [step : ToggleSteps, to : Positions, prev : Positions]]
    BY <1>0, <1>1 DEF Types, TypeOK, ControlTypeOK, ToggleStopped, ToggleSteps
  <2> QED  BY <1>0, <1>1, <2>1, <2>2 DEF Types, TypeOK, ControlTypeOK
<1>5. Types'
  BY <1>0, <1>1, <1>3, <1>4 DEF Types, TypeOK
<1>6. \A s \in Saves : handler'[s].step \in {"idle", "answered"}
  BY <1>2
<1>7. Alive' /\ Remembers'
  BY <1>1, <1>6 DEF IInv, Alive, Remembers
<1>8. Sole'
  BY <1>1, <1>2, <1>6 DEF IInv, Sole, InReload
<1>9. Applied'
  BY <1>1, <1>6 DEF IInv, Applied, InReload, Worked, Works
<1> QED  BY <1>5, <1>7, <1>8, <1>9 DEF IInv

LEMMA NextIInv == IInv /\ [Next]_vars => IInv'
<1> SUFFICES ASSUME IInv, [Next]_vars PROVE IInv'
  OBVIOUS
<1>0. /\ Types /\ late \subseteq Setting /\ MaxStarts \in Nat
      /\ late # {} => category = "llm"
  BY SettingsAssumption DEF IInv, Alive, Types, TypeOK, SettingsTypeOK
<1>1. ASSUME NEW s \in Saves, HandleSave(s), UNCHANGED controlVars
      PROVE  IInv'
  BY <1>1, HandleSaveIInv
<1>2. ASSUME NEW t \in Toggles, HandleToggle(t), UNCHANGED settingsVars
      PROVE  IInv'
  BY <1>0, <1>2, ToggleTypes, OutsideStep DEF settingsVars
<1>3. CASE ServeLate /\ UNCHANGED controlVars
  <2>1. PICK x \in late : running' = x /\ late' = late \ {x}
    BY <1>3 DEF ServeLate
  <2>2. Types'
    BY <1>0, <1>3, <2>1, Shapes
       DEF ServeLate, controlVars, auditVars, Types, TypeOK, SettingsTypeOK, ControlTypeOK
  <2> QED  BY <1>0, <1>3, <2>1, <2>2, OutsideStep DEF ServeLate
<1>4. CASE RestartDiagnoser /\ UNCHANGED controlVars
  <2>1. Types'
    BY <1>0, <1>4, Shapes
       DEF RestartDiagnoser, controlVars, auditVars, Types, TypeOK, SettingsTypeOK,
           ControlTypeOK
  <2> QED  BY <1>4, <2>1, OutsideStep DEF RestartDiagnoser
<1>5. CASE EnsureMasterKey /\ UNCHANGED controlVars
  <2>1. Types'
    BY <1>0, <1>5
       DEF EnsureMasterKey, controlVars, auditVars, Types, TypeOK, SettingsTypeOK,
           ControlTypeOK
  <2>2. Alive' /\ Remembers' /\ Sole'
    BY <1>5 DEF EnsureMasterKey, IInv, Alive, Remembers, Sole, InReload, SecretOf
  <2>3. Applied'
    BY <1>5 DEF EnsureMasterKey, IInv, Applied, InReload, Worked, Works
  <2> QED  BY <2>1, <2>2, <2>3 DEF IInv
<1>6. CASE Start /\ StartControl
  BY <1>6, StartStep
<1>7. CASE Crash
  BY <1>7, CrashStep
<1>8. CASE UNCHANGED vars
  <2>1. Types'
    BY <1>0, <1>8
       DEF vars, settingsVars, controlVars, auditVars, Types, TypeOK, SettingsTypeOK,
           ControlTypeOK
  <2> QED  BY <1>0, <1>8, <2>1, OutsideStep DEF vars, settingsVars
<1> QED
  BY <1>1, <1>2, <1>3, <1>4, <1>5, <1>6, <1>7, <1>8 DEF Next

LEMMA AlwaysIInv == Spec => []IInv
  BY InitIInv, NextIInv, PTL DEF Spec

-----------------------------------------------------------------------------

\* Saves, reloads, turns of the switch, crashes and restarts keep every
\* variable of the API server in its type.
THEOREM TypesHold == Spec => []TypeOK
<1>1. IInv => TypeOK
  BY DEF IInv, Types
<1> QED  BY <1>1, AlwaysIInv, PTL

\* The component works with what a restart would load, however saves, failures
\* and restarts interleave, outside the exceptions the property names.
THEOREM RunsWhatIsSaved == Spec => []RunningIsSaved
<1>1. IInv => RunningIsSaved
  BY DEF IInv, Applied, InReload, RunningIsSaved, Resting, Worked
<1> QED  BY <1>1, AlwaysIInv, PTL

\* Only the save itself writes the row.
LEMMA WritesBySave ==
  ASSUME IInv, [Next]_vars, NEW s \in Saves, Writes(s)
  PROVE  Save(s)
<1>0. handler \in [Saves -> Request]
  BY HandlerType DEF IInv, Types
<1>1. handler[s].step = "save" /\ handler'[s].step = "reload"
  BY DEF Writes
<1>2. handler' # handler
  BY <1>1
<1>3. ~Crash
  <2>1. [handler[s] EXCEPT !.step = "answered"].step = "answered"
    BY <1>0 DEF Request
  <2>2. Stopped[s].step = "answered"
    BY <1>1, <2>1 DEF Stopped
  <2> QED  BY <1>1, <2>2 DEF Crash
<1>4. PICK t \in Saves : HandleSave(t)
  BY <1>2, <1>3
     DEF Next, vars, settingsVars, ServeLate, RestartDiagnoser, EnsureMasterKey, Start
<1>5. CASE t # s
  <2>1. PICK h : handler' = [handler EXCEPT ![t] = h]
    BY <1>4 DEF HandleSave, Post, Load, Save, SaveFails, ReloadLoki, ReloadGitOps,
                ReloadCredentials, ReloadRoutingKey, PushConfig, RecordSaved,
                Goto, Reloaded, NotApplied
  <2> QED  BY <1>0, <1>1, <1>5, <2>1
<1>6. CASE t = s
  <2>1. ~Goto(s, "answered")
    <3>1. [handler EXCEPT ![s].step = "answered"][s].step = "answered"
      BY <1>0 DEF Request
    <3> QED  BY <1>1, <3>1 DEF Goto
  <2> QED
    BY <1>1, <1>4, <1>6, <2>1
       DEF HandleSave, Post, Load, SaveFails, At, ReloadLoki, ReloadGitOps, ReloadCredentials,
           ReloadRoutingKey, PushConfig, RecordSaved
<1> QED  BY <1>5, <1>6

\* A secret left out of a request stays in the row, whatever else is under way:
\* unless the load of that save failed or the row changed under it.
THEOREM SecretsStay == Spec => SecretsKept
<1>1. ASSUME IInv, [Next]_vars
      PROVE  \A s \in Saves : Writes(s) /\ s \notin misled => KeepsSecret(s)
  <2> SUFFICES ASSUME NEW s \in Saves, Writes(s), s \notin misled,
                      handler[s].body.secret = "omitted"
               PROVE  SecretOf(row)' = SecretOf(row)
    BY DEF KeepsSecret, SecretOf
  <2>1. handler[s].saved.secret = SecretOf(row)
    BY <1>1 DEF IInv, Remembers, Writes
  <2>2. row' = handler[s].saved
    BY <1>1, WritesBySave DEF Save
  <2>3. handler[s].saved # None
    BY <1>1, HandlerType, Shapes DEF IInv, Types
  <2> QED  BY <2>1, <2>2, <2>3 DEF SecretOf
<1>2. ASSUME IInv, [Next]_vars
      PROVE  [\A s \in Saves : Writes(s) /\ s \notin misled => KeepsSecret(s)]_<<settingsVars, auditVars>>
  BY <1>1, <1>2
<1> QED  BY <1>2, AlwaysIInv, PTL DEF Spec, SecretsKept

-----------------------------------------------------------------------------
(* The audit log.                                                          *)

\* The events a request could have recorded: each is recorded by the last step of
\* its request.
Past ==
  {e \in Events :
     \/ e.outcome = "saved" /\ e.id \in Saves /\ handler[e.id].step = "answered"
     \/ e.outcome # "saved" /\ e.id \in Toggles /\ toggle[e.id].step = "answered"}

AuditTypes ==
  /\ lines \in Seq(Past \union {Garbage}) /\ tail \in Past \union {Garbage, Nothing}
  /\ accepted \in Seq(Past) /\ sticky \in BOOLEAN /\ opened \in Nat

Unfinished == \A i \in DOMAIN accepted : accepted[i] # tail

Ordered(a, c) ==
  \A i, j \in DOMAIN a : \A m, n \in DOMAIN c :
    c[m] = a[i] /\ c[n] = a[j] => (i < j <=> m < n)

Lost == ToSet(accepted) \ ToSet(Contents)

\* A process may lose one event, and only if the one before it left an unterminated line.
FewLost ==
  /\ IsFiniteSet(Lost)
  /\ opened = 0 => accepted = <<>> /\ tail = Nothing
  /\ opened > 0 => Cardinality(Lost) < opened
  /\ opened > 0 /\ tail # Nothing /\ ~sticky => Cardinality(Lost) + 1 < opened

AuditInv == AuditTypes /\ Unfinished /\ Ordered(accepted, Contents) /\ FewLost

Serving ==
  /\ process = "serving" => opened > 0
  /\ process # "serving" => Unrecorded = {}

LEMMA MarksAre ==
  /\ Nothing # Garbage /\ Nothing \notin Events /\ Garbage \notin Events
  /\ "saved" \notin Positions
  /\ Past \subseteq Events /\ Past' \subseteq Events
  BY EventsAssumption DEF Positions, Past

LEMMA ContentsAre ==
  ASSUME AuditTypes
  PROVE  /\ Contents \in Seq(Past \union {Garbage})
         /\ tail # Nothing => Contents = Append(lines, tail)
         /\ tail = Nothing => Contents = lines
<1> DEFINE L == Past \union {Garbage}
<1>1. lines \in Seq(L) /\ tail \in L \union {Nothing}
  BY DEF AuditTypes
<1> HIDE DEF L
<1>2. Contents \in Seq(L)
  BY <1>1 DEF Contents
<1> QED  BY <1>2 DEF L, Contents

\* What a call of Record does to the file as Query reads it.
Same == Contents' = Contents /\ accepted' = accepted /\ tail' = tail
Kept(e) == Contents' = Append(Contents, e) /\ accepted' = Append(accepted, e) /\ tail' = Nothing
Begun(z) == Contents' = Append(Contents, z) /\ accepted' = accepted /\ tail' = z
Spoilt ==
  /\ tail # Nothing /\ Contents = Append(lines, tail)
  /\ Contents' = Append(lines, Garbage)

LEMMA RecordSays ==
  ASSUME AuditTypes, NEW e \in Events, Record(e)
  PROVE  /\ lines' \in {lines, Append(lines, e), Append(lines, Garbage)}
         /\ tail' \in {tail, Garbage, e, Nothing}
         /\ sticky' \in BOOLEAN /\ opened' = opened
         /\ \/ Same /\ sticky'
            \/ ~sticky /\ tail = Nothing /\ Kept(e)
            \/ sticky' /\ (Begun(e) \/ Begun(Garbage))
            \/ sticky' /\ Spoilt /\ accepted' = accepted /\ tail' = Garbage
            \/ ~sticky /\ Spoilt /\ accepted' = Append(accepted, e) /\ tail' = Nothing
<1>1. e # Nothing /\ Garbage # Nothing
  BY MarksAre
<1>2. /\ tail # Nothing => Contents = Append(lines, tail)
      /\ tail = Nothing => Contents = lines
  BY DEF Contents
<1>3. /\ tail' # Nothing => Contents' = Append(lines', tail')
      /\ tail' = Nothing => Contents' = lines'
  BY DEF Contents
<1>4. CASE ~sticky /\ lines' = Written(e) /\ tail' = Nothing
           /\ accepted' = Append(accepted, e) /\ sticky' = sticky /\ opened' = opened
  BY <1>1, <1>2, <1>3, <1>4 DEF Written, Kept, Spoilt, AuditTypes
<1>5. CASE ~sticky /\ sticky' = AfterError /\ lines' = lines /\ accepted' = accepted
           /\ tail' \in {tail, Garbage} \union (IF tail = Nothing THEN {e} ELSE {})
           /\ opened' = opened
  BY <1>1, <1>2, <1>3, <1>5 DEF AfterError, Same, Begun, Spoilt
<1>6. CASE sticky /\ lines' = lines /\ tail' = tail /\ sticky' = sticky
           /\ accepted' = accepted /\ opened' = opened
  BY <1>2, <1>3, <1>6 DEF Same
<1> QED  BY <1>4, <1>5, <1>6 DEF Record

\* Matches of accepted events with lines are old ones, or that of the two ends.
LEMMA OrderGrows ==
  ASSUME NEW a, NEW c, NEW b, NEW d, NEW k \in Nat, NEW l \in Nat,
         DOMAIN a = 1..k, DOMAIN c = 1..l, Ordered(a, c),
         \A i \in DOMAIN b : \A n \in DOMAIN d : d[n] = b[i] =>
           \/ i \in DOMAIN a /\ n \in DOMAIN c /\ c[n] = a[i]
           \/ i = k + 1 /\ n = l + 1
  PROVE  Ordered(b, d)
<1> SUFFICES ASSUME NEW i \in DOMAIN b, NEW j \in DOMAIN b, NEW m \in DOMAIN d,
                    NEW n \in DOMAIN d, d[m] = b[i], d[n] = b[j]
             PROVE  i < j <=> m < n
  BY DEF Ordered
<1>1. (i \in DOMAIN a /\ m \in DOMAIN c /\ c[m] = a[i]) \/ (i = k + 1 /\ m = l + 1)
  OBVIOUS
<1>2. (j \in DOMAIN a /\ n \in DOMAIN c /\ c[n] = a[j]) \/ (j = k + 1 /\ n = l + 1)
  OBVIOUS
<1>3. CASE i \in DOMAIN a /\ m \in DOMAIN c /\ c[m] = a[i]
  <2>1. CASE j \in DOMAIN a /\ n \in DOMAIN c /\ c[n] = a[j]
    BY <1>3, <2>1 DEF Ordered
  <2>2. CASE j = k + 1 /\ n = l + 1
    BY <1>3, <2>2
  <2> QED  BY <1>2, <2>1, <2>2
<1>4. CASE i = k + 1 /\ m = l + 1
  BY <1>2, <1>4
<1> QED  BY <1>1, <1>3, <1>4

\* A recorded event is new, and of a request that ends with it.
Fresh(e) == e \in Events /\ e \notin Past /\ e \in Past' /\ Past \subseteq Past'

LEMMA SeqWidens ==
  ASSUME NEW S, NEW T, S \subseteq T, NEW q \in Seq(S)
  PROVE  q \in Seq(T)
  OBVIOUS

LEMMA RecordTypes ==
  ASSUME AuditInv, NEW e, Fresh(e), Record(e)
  PROVE  /\ AuditTypes'
         /\ \A i \in DOMAIN accepted : accepted[i] # e
         /\ \A n \in DOMAIN Contents : Contents[n] # e
<1> e \in Events
  BY DEF Fresh
<1>1. Past \union {Garbage} \subseteq Past' \union {Garbage} /\ e \in Past'
  BY DEF Fresh
<1> DEFINE L == Past' \union {Garbage}
<1>2. lines \in Seq(L) /\ accepted \in Seq(Past') /\ e \in L /\ Garbage \in L
  <2>1. lines \in Seq(Past \union {Garbage}) /\ accepted \in Seq(Past)
    BY DEF AuditInv, AuditTypes
  <2>2. Past \union {Garbage} \subseteq L /\ Past \subseteq Past'
    BY <1>1, MarksAre DEF Fresh
  <2>3. lines \in Seq(L)
    <3> HIDE DEF L
    <3> QED  BY <2>1, <2>2, SeqWidens
  <2>4. accepted \in Seq(Past')
    BY <2>1, <2>2, SeqWidens
  <2> QED  BY <1>1, <2>3, <2>4
<1>3. lines' \in Seq(L) /\ accepted' \in Seq(Past')
  <2>1. lines' \in {lines, Append(lines, e), Append(lines, Garbage)}
    BY RecordSays DEF AuditInv
  <2>2. accepted' \in {accepted, Append(accepted, e)}
    BY RecordSays DEF AuditInv, Same, Kept, Begun
  <2> HIDE DEF L
  <2>3. lines' \in Seq(L)
    BY <1>2, <2>1
  <2>4. accepted' \in Seq(Past')
    BY <1>1, <1>2, <2>2
  <2> QED  BY <2>3, <2>4
<1>4. tail' \in Past' \union {Garbage, Nothing}
  BY <1>1, RecordSays DEF AuditInv, AuditTypes
<1>5. AuditTypes'
  BY <1>3, <1>4, RecordSays DEF AuditTypes, AuditInv
<1>6. e \notin Past /\ e # Garbage
  BY MarksAre DEF Fresh
<1>7. \A i \in DOMAIN accepted : accepted[i] \in Past
  BY DEF AuditInv, AuditTypes
<1>8. \A n \in DOMAIN Contents : Contents[n] \in Past \union {Garbage}
  <2>1. Contents \in Seq(Past \union {Garbage})
    BY ContentsAre DEF AuditInv
  <2> QED  BY <2>1
<1> QED  BY <1>5, <1>6, <1>7, <1>8

\* Sequences one longer, as functions.
LEMMA Appended ==
  ASSUME NEW S, NEW q \in Seq(S), NEW x
  PROVE  /\ Len(q) \in Nat /\ DOMAIN q = 1..Len(q)
         /\ DOMAIN Append(q, x) = 1..(Len(q) + 1)
         /\ \A n \in 1..Len(q) : n # Len(q) + 1 /\ Append(q, x)[n] = q[n]
         /\ Append(q, x)[Len(q) + 1] = x
         /\ \A n \in 1..(Len(q) + 1) : n = Len(q) + 1 \/ n \in 1..Len(q)
<1>1. Len(q) \in Nat /\ DOMAIN q = 1..Len(q)
  OBVIOUS
<1> DEFINE T == S \union {x}
<1>2. q \in Seq(T) /\ x \in T
  OBVIOUS
<1> HIDE DEF T
<1>3. /\ DOMAIN Append(q, x) = 1..(Len(q) + 1)
      /\ \A n \in 1..Len(q) : Append(q, x)[n] = q[n]
      /\ Append(q, x)[Len(q) + 1] = x
  BY <1>2
<1> QED  BY <1>1, <1>3

LEMMA AppendedMembers ==
  ASSUME NEW S, NEW q \in Seq(S), NEW x
  PROVE  ToSet(Append(q, x)) = ToSet(q) \union {x}
<1> DEFINE r == Append(q, x)
           l == Len(q)
<1>1. /\ l \in Nat /\ DOMAIN q = 1..l /\ DOMAIN r = 1..(l + 1)
      /\ \A n \in 1..l : r[n] = q[n]
      /\ r[l + 1] = x
      /\ \A n \in 1..(l + 1) : n = l + 1 \/ n \in 1..l
  BY Appended
<1>2. 1..l \subseteq 1..(l + 1) /\ l + 1 \in 1..(l + 1)
  BY <1>1
<1> HIDE DEF r, l
<1>3. {r[n] : n \in DOMAIN r} = {q[n] : n \in DOMAIN q} \union {x}
  BY <1>1, <1>2
<1> QED  BY <1>3 DEF r, ToSet

LEMMA RecordOrdered ==
  ASSUME AuditInv, NEW e, Fresh(e), Record(e)
  PROVE  Ordered(accepted, Contents)' /\ Unfinished'
<1> e \in Events
  BY DEF Fresh
<1> DEFINE k == Len(accepted)
           l == Len(Contents)
<1>0. AuditTypes /\ Ordered(accepted, Contents) /\ Unfinished
  BY DEF AuditInv
<1>1. /\ \A i \in DOMAIN accepted : accepted[i] # e
      /\ \A n \in DOMAIN Contents : Contents[n] # e
  BY RecordTypes
<1>2. /\ accepted \in Seq(Past) /\ Contents \in Seq(Past \union {Garbage})
      /\ \A i \in DOMAIN accepted : accepted[i] # Garbage /\ accepted[i] # Nothing
      /\ e # Garbage /\ e # Nothing /\ Garbage # Nothing
  <2>1. accepted \in Seq(Past) /\ Contents \in Seq(Past \union {Garbage})
    BY <1>0, ContentsAre DEF AuditTypes
  <2>2. \A i \in DOMAIN accepted : accepted[i] \in Past
    BY <2>1
  <2> QED  BY <2>1, <2>2, MarksAre
<1>3. k \in Nat /\ l \in Nat /\ DOMAIN accepted = 1..k /\ DOMAIN Contents = 1..l
  BY <1>2
<1>4. SUFFICES /\ Unfinished'
               /\ \A i \in DOMAIN accepted' : \A n \in DOMAIN Contents' :
                    Contents'[n] = accepted'[i] =>
                      \/ i \in DOMAIN accepted /\ n \in DOMAIN Contents
                         /\ Contents[n] = accepted[i]
                      \/ i = k + 1 /\ n = l + 1
  <2> HIDE DEF k, l
  <2>1. Ordered(accepted', Contents')
    BY <1>0, <1>3, <1>4, OrderGrows
  <2> QED  BY <1>4, <2>1 DEF Ordered
<1>5. \A z : /\ DOMAIN Append(Contents, z) = 1..(l + 1)
             /\ \A n \in 1..l : Append(Contents, z)[n] = Contents[n]
             /\ Append(Contents, z)[l + 1] = z
             /\ \A n \in 1..(l + 1) : n = l + 1 \/ n \in 1..l
  BY <1>2, Appended
<1>6. /\ DOMAIN Append(accepted, e) = 1..(k + 1)
      /\ \A i \in 1..k : Append(accepted, e)[i] = accepted[i]
      /\ Append(accepted, e)[k + 1] = e
      /\ \A i \in 1..(k + 1) : i = k + 1 \/ i \in 1..k
  BY <1>2, Appended
<1>7. ASSUME Spoilt
      PROVE  /\ DOMAIN Contents' = 1..l
             /\ \A n \in 1..l : Contents'[n] \in {Contents[n], Garbage}
  <2>1. lines \in Seq(Past \union {Garbage})
    BY <1>0 DEF AuditTypes
  <2> DEFINE o == Len(lines)
  <2>2. \A z : /\ DOMAIN Append(lines, z) = 1..(o + 1)
               /\ \A n \in 1..o : Append(lines, z)[n] = lines[n]
               /\ Append(lines, z)[o + 1] = z
               /\ \A n \in 1..(o + 1) : n = o + 1 \/ n \in 1..o
    BY <2>1, Appended
  <2>3. Contents = Append(lines, tail) /\ Contents' = Append(lines, Garbage)
    BY <1>7 DEF Spoilt
  <2>4. DOMAIN Contents = 1..(o + 1) /\ DOMAIN Contents' = 1..(o + 1)
    BY <2>2, <2>3
  <2> HIDE DEF o
  <2> QED  BY <1>3, <2>2, <2>3, <2>4
<1> HIDE DEF k, l
<1>8. CASE Same
  BY <1>0, <1>3, <1>8 DEF Same, Unfinished
<1>9. CASE tail = Nothing /\ Kept(e)
  <2>1. Unfinished'
    BY <1>2, <1>3, <1>6, <1>9 DEF Unfinished, Kept
  <2> QED  BY <1>1, <1>3, <1>5, <1>6, <1>9, <2>1 DEF Kept
<1>10. ASSUME NEW z \in {e, Garbage}, Begun(z)
       PROVE  /\ Unfinished'
              /\ \A i \in DOMAIN accepted' : \A n \in DOMAIN Contents' :
                    Contents'[n] = accepted'[i] =>
                      \/ i \in DOMAIN accepted /\ n \in DOMAIN Contents
                         /\ Contents[n] = accepted[i]
                      \/ i = k + 1 /\ n = l + 1
  <2>1. Unfinished'
    BY <1>1, <1>2, <1>10 DEF Unfinished, Begun
  <2> QED  BY <1>1, <1>2, <1>3, <1>5, <1>10, <2>1 DEF Begun
<1>11. CASE Spoilt /\ accepted' = accepted /\ tail' = Garbage
  BY <1>2, <1>3, <1>7, <1>11 DEF Unfinished
<1>12. CASE Spoilt /\ accepted' = Append(accepted, e) /\ tail' = Nothing
  <2>1. Unfinished'
    BY <1>2, <1>3, <1>6, <1>12 DEF Unfinished
  <2>2. \A n \in DOMAIN Contents' : Contents'[n] # e
    BY <1>1, <1>2, <1>3, <1>7, <1>12
  <2> QED  BY <1>1, <1>2, <1>3, <1>6, <1>7, <1>12, <2>1, <2>2
<1> QED  BY <1>0, <1>8, <1>9, <1>10, <1>11, <1>12, RecordSays

LEMMA RecordFewLost ==
  ASSUME AuditInv, NEW e, Fresh(e), Record(e), opened > 0
  PROVE  FewLost'
<1> e \in Events
  BY DEF Fresh
<1>0. AuditTypes /\ Unfinished /\ FewLost
  BY DEF AuditInv
<1>1. accepted \in Seq(Past) /\ Contents \in Seq(Past \union {Garbage}) /\ e # Nothing
      /\ Nothing # Garbage /\ lines \in Seq(Past \union {Garbage})
      /\ \A i \in DOMAIN accepted : accepted[i] # Garbage
  <2>1. accepted \in Seq(Past) /\ lines \in Seq(Past \union {Garbage})
    BY <1>0 DEF AuditTypes
  <2>2. Contents \in Seq(Past \union {Garbage})
    BY <1>0, ContentsAre
  <2>3. \A i \in DOMAIN accepted : accepted[i] \in Past
    BY <2>1
  <2> QED  BY <2>1, <2>2, <2>3, MarksAre
<1>2. \A z : ToSet(Append(Contents, z)) = ToSet(Contents) \union {z}
  BY <1>1, AppendedMembers
<1>3. ToSet(Append(accepted, e)) = ToSet(accepted) \union {e}
  BY <1>1, AppendedMembers
<1>4. ASSUME Spoilt
      PROVE  ToSet(Contents) \subseteq ToSet(Contents') \union {tail}
  <2>1. \A z : ToSet(Append(lines, z)) = ToSet(lines) \union {z}
    BY <1>1, AppendedMembers
  <2> QED  BY <1>4, <2>1 DEF Spoilt
<1>5. Lost = ToSet(accepted) \ ToSet(Contents) /\ Lost' = ToSet(accepted') \ ToSet(Contents')
  BY DEF Lost
<1>6. tail \notin ToSet(accepted)
  BY <1>0 DEF Unfinished, ToSet
<1>7. CASE Lost' \subseteq Lost /\ (tail' = Nothing \/ sticky')
  <2>1. IsFiniteSet(Lost') /\ Cardinality(Lost') \in Nat /\ Cardinality(Lost) \in Nat
        /\ Cardinality(Lost') <= Cardinality(Lost)
    BY <1>0, <1>7, FS_Subset, FS_CardinalityType DEF FewLost
  <2>2. opened' = opened /\ opened \in Nat
    BY <1>0, RecordSays DEF AuditTypes
  <2> QED  BY <1>0, <1>7, <2>1, <2>2 DEF FewLost
<1>8. CASE Lost' \subseteq Lost \union {e} /\ tail' = Nothing /\ tail # Nothing /\ ~sticky
  <2>1. IsFiniteSet(Lost) /\ Cardinality(Lost) \in Nat /\ Cardinality(Lost) + 1 < opened
    BY <1>0, <1>8, FS_CardinalityType DEF FewLost
  <2>2. /\ IsFiniteSet(Lost \union {e})
        /\ Cardinality(Lost \union {e}) \in {Cardinality(Lost), Cardinality(Lost) + 1}
    BY <2>1, FS_AddElement
  <2>3. IsFiniteSet(Lost') /\ Cardinality(Lost') \in Nat
        /\ Cardinality(Lost') <= Cardinality(Lost \union {e})
    BY <1>8, <2>2, FS_Subset, FS_CardinalityType
  <2>4. opened' = opened /\ opened \in Nat
    BY <1>0, RecordSays DEF AuditTypes
  <2> QED  BY <1>8, <2>1, <2>2, <2>3, <2>4 DEF FewLost
<1>9. CASE Same /\ sticky'
  BY <1>5, <1>7, <1>9 DEF Same
<1>10. CASE ~sticky /\ tail = Nothing /\ Kept(e)
  <2>1. Lost' \subseteq Lost
    BY <1>2, <1>3, <1>5, <1>10 DEF Kept
  <2> QED  BY <1>7, <1>10, <2>1 DEF Kept
<1>11. CASE sticky' /\ (Begun(e) \/ Begun(Garbage))
  <2>1. Lost' \subseteq Lost
    BY <1>2, <1>5, <1>11 DEF Begun
  <2> QED  BY <1>7, <1>11, <2>1
<1>12. CASE sticky' /\ Spoilt /\ accepted' = accepted /\ tail' = Garbage
  <2>1. Lost' \subseteq Lost
    BY <1>4, <1>5, <1>6, <1>12
  <2> QED  BY <1>7, <1>12, <2>1
<1>13. CASE ~sticky /\ Spoilt /\ accepted' = Append(accepted, e) /\ tail' = Nothing
  <2>1. Lost' \subseteq Lost \union {e}
    BY <1>3, <1>4, <1>5, <1>6, <1>13
  <2> QED  BY <1>8, <1>13, <2>1 DEF Spoilt
<1> QED  BY <1>0, <1>9, <1>10, <1>11, <1>12, <1>13, RecordSays

LEMMA RecordKeeps ==
  ASSUME AuditInv, NEW e, Fresh(e), Record(e), opened > 0
  PROVE  AuditInv'
BY RecordTypes, RecordOrdered, RecordFewLost DEF AuditInv

\* A step that leaves the log alone, or opens it.
LEMMA LogKeeps ==
  ASSUME AuditInv, Past \subseteq Past', auditVars' = auditVars \/ NewFileSink
  PROVE  AuditInv'
<1>1. UNCHANGED <<lines, tail, accepted>>
  BY DEF auditVars, NewFileSink
<1>2. UNCHANGED <<Contents, Lost>>
  BY <1>1 DEF Contents, Lost
<1>3. sticky' \in BOOLEAN /\ opened' \in Nat
  BY DEF AuditInv, AuditTypes, auditVars, NewFileSink
<1>4. AuditTypes'
  <2>1. Past \union {Garbage} \subseteq Past' \union {Garbage}
    OBVIOUS
  <2>2. lines \in Seq(Past \union {Garbage}) /\ accepted \in Seq(Past)
    BY DEF AuditInv, AuditTypes
  <2>3. lines \in Seq(Past' \union {Garbage}) /\ accepted \in Seq(Past')
    BY <2>1, <2>2, SeqWidens
  <2> QED  BY <1>1, <1>3, <2>1, <2>3 DEF AuditInv, AuditTypes
<1>5. FewLost'
  <2>1. IsFiniteSet(Lost) /\ Cardinality(Lost) \in Nat /\ opened \in Nat
    BY FS_CardinalityType DEF AuditInv, FewLost, AuditTypes
  <2>2. CASE auditVars' = auditVars
    BY <1>2, <2>1, <2>2 DEF AuditInv, FewLost, auditVars
  <2>3. CASE NewFileSink
    <3>1. CASE opened = 0
      <4>1. Lost = {}
        BY <3>1 DEF Lost, AuditInv, FewLost, ToSet
      <4> QED  BY <1>1, <1>2, <2>1, <2>3, <3>1, <4>1, FS_EmptySet
               DEF AuditInv, FewLost, NewFileSink
    <3>2. CASE opened > 0
      BY <1>1, <1>2, <2>1, <2>3, <3>2 DEF AuditInv, FewLost, NewFileSink
    <3> QED  BY <2>1, <3>1, <3>2
  <2> QED  BY <2>2, <2>3
<1> QED  BY <1>1, <1>2, <1>4, <1>5 DEF AuditInv, Unfinished, Ordered

\* A request that is answered stays so.
LEMMA PastGrows ==
  ASSUME IInv, [Next]_vars
  PROVE  Past \subseteq Past'
<1>0. handler \in [Saves -> Request]
      /\ toggle \in [Toggles -> [step : ToggleSteps, to : Positions, prev : Positions]]
  BY HandlerType DEF IInv, Types, TypeOK, ControlTypeOK
<1>1. \A s \in Saves : handler[s].step = "answered" => handler'[s].step = "answered"
  <2> SUFFICES ASSUME NEW s \in Saves, handler[s].step = "answered"
               PROVE  handler'[s].step = "answered"
    OBVIOUS
  <2>1. CASE handler' = handler
    BY <2>1
  <2>2. ASSUME NEW r \in Saves, HandleSave(r)
        PROVE  handler'[s].step = "answered"
    <3>1. r # s
      BY <2>2 DEF HandleSave, At, Post, Load, Save, SaveFails, ReloadLoki, ReloadGitOps,
                  ReloadCredentials, ReloadRoutingKey, PushConfig, RecordSaved
    <3>2. PICK h : handler' = [handler EXCEPT ![r] = h]
      BY <2>2 DEF HandleSave, Post, Load, Save, SaveFails, ReloadLoki, ReloadGitOps,
                  ReloadCredentials, ReloadRoutingKey, PushConfig, RecordSaved,
                  Goto, Reloaded, NotApplied
    <3> QED  BY <1>0, <3>1, <3>2
  <2>3. CASE Crash
    <3>1. [handler[s] EXCEPT !.step = "answered"].step = "answered"
      BY <1>0 DEF Request
    <3> QED  BY <2>3, <3>1 DEF Crash, Stopped
  <2> QED
    BY <2>1, <2>2, <2>3
       DEF Next, vars, settingsVars, ServeLate, RestartDiagnoser, EnsureMasterKey, Start
<1>2. \A t \in Toggles : toggle[t].step = "answered" => toggle'[t].step = "answered"
  <2> SUFFICES ASSUME NEW t \in Toggles, toggle[t].step = "answered"
               PROVE  toggle'[t].step = "answered"
    OBVIOUS
  <2>1. CASE toggle' = toggle
    BY <2>1
  <2>2. ASSUME NEW r \in Toggles, HandleToggle(r)
        PROVE  toggle'[t].step = "answered"
    <3>1. r # t
      BY <2>2 DEF HandleToggle, PostToggle, ReadSwitch, SetSwitch, RecordToggle, ToggleAt
    <3>2. PICK h : toggle' = [toggle EXCEPT ![r] = h]
      BY <2>2 DEF HandleToggle, PostToggle, ReadSwitch, SetSwitch, RecordToggle, ToggleAt
    <3> QED  BY <1>0, <3>1, <3>2
  <2>3. CASE Crash
    <3>1. [toggle[t] EXCEPT !.step = "answered"].step = "answered"
      BY <1>0
    <3> QED  BY <2>3, <3>1 DEF Crash, ToggleStopped
  <2> QED
    BY <2>1, <2>2, <2>3
       DEF Next, vars, controlVars, Start, StartControl
<1> QED  BY <1>1, <1>2 DEF Past

\* The two steps that record an event, and the rest, which leave the log alone.
LEMMA WhoRecords ==
  ASSUME IInv, [Next]_vars
  PROVE  \/ auditVars' = auditVars
         \/ NewFileSink
         \/ process = "serving" /\ \E e : Fresh(e) /\ Record(e)
<1>0. handler \in [Saves -> Request]
      /\ toggle \in [Toggles -> [step : ToggleSteps, to : Positions, prev : Positions]]
  BY HandlerType DEF IInv, Types, TypeOK, ControlTypeOK
<1>1. ASSUME NEW s \in Saves, RecordSaved(s)
      PROVE  process = "serving" /\ \E e : Fresh(e) /\ Record(e)
  <2> DEFINE e == [id |-> s, outcome |-> "saved"]
  <2>1. handler[s].step = "record" /\ handler'[s].step = "answered"
    <3>1. [handler[s] EXCEPT !.step = "answered"].step = "answered"
      BY <1>0 DEF Request
    <3> QED  BY <1>0, <1>1, <3>1 DEF RecordSaved, At, Goto
  <2>2. e \in Events /\ e.id = s /\ e.outcome = "saved"
    BY DEF Events
  <2>3. e \notin Past /\ e \in Past'
    BY <2>1, <2>2 DEF Past
  <2>4. Record(e) /\ process = "serving"
    BY <1>1 DEF RecordSaved, At
  <2> HIDE DEF e
  <2> QED  BY <2>2, <2>3, <2>4, PastGrows DEF Fresh
<1>2. ASSUME NEW t \in Toggles, RecordToggle(t), process = "serving"
      PROVE  process = "serving" /\ \E e : Fresh(e) /\ Record(e)
  <2> DEFINE e == [id |-> t, outcome |-> toggle[t].to]
  <2>1. toggle[t].step = "record" /\ toggle'[t].step = "answered"
    <3>1. [toggle[t] EXCEPT !.step = "answered"].step = "answered"
      BY <1>0
    <3> QED  BY <1>0, <1>2, <3>1 DEF RecordToggle, ToggleAt
  <2>2. e \in Events /\ e.id = t /\ e.outcome # "saved"
    BY <1>0 DEF Events, Positions
  <2>3. e \notin Past /\ e \in Past'
    BY <2>1, <2>2 DEF Past
  <2>4. Record(e)
    BY <1>2 DEF RecordToggle, EventOutcome
  <2> HIDE DEF e
  <2> QED  BY <1>2, <2>2, <2>3, <2>4, PastGrows DEF Fresh
<1>3. ASSUME NEW s \in Saves, HandleSave(s), ~RecordSaved(s)
      PROVE  auditVars' = auditVars
  BY <1>3 DEF HandleSave, Post, Load, Save, SaveFails, ReloadLoki, ReloadGitOps,
              ReloadCredentials, ReloadRoutingKey, PushConfig, auditVars
<1>4. ASSUME NEW t \in Toggles, HandleToggle(t), ~RecordToggle(t)
      PROVE  auditVars' = auditVars
  BY <1>4 DEF HandleToggle, PostToggle, ReadSwitch, SetSwitch, auditVars
<1> QED
  BY <1>1, <1>2, <1>3, <1>4
     DEF Next, vars, ServeLate, RestartDiagnoser, EnsureMasterKey, Start, Crash, auditVars

LEMMA ServingStays ==
  ASSUME IInv, AuditInv, Serving, [Next]_vars
  PROVE  Serving'
<1>0. toggle \in [Toggles -> [step : ToggleSteps, to : Positions, prev : Positions]]
      /\ opened \in Nat
  BY DEF IInv, Types, TypeOK, ControlTypeOK, AuditInv, AuditTypes
<1>1. opened' \in Nat /\ opened' >= opened
  BY <1>0, WhoRecords DEF auditVars, NewFileSink, Record
<1>2. CASE process = "serving" /\ process' = "serving"
  BY <1>0, <1>1, <1>2 DEF Serving
<1>3. CASE Crash
  <2>1. \A t \in Toggles : [toggle[t] EXCEPT !.step = "answered"].step = "answered"
    BY <1>0
  <2>2. Unrecorded' = {}
    BY <1>3, <2>1 DEF Crash, Unrecorded, ToggleStopped
  <2> QED  BY <1>3, <2>2 DEF Crash, Serving
<1>4. CASE process # "serving" /\ process' = process /\ toggle' = toggle
  BY <1>4 DEF Serving, Unrecorded
<1>5. CASE EnsureMasterKey /\ UNCHANGED controlVars
  BY <1>5 DEF EnsureMasterKey, controlVars, Serving, Unrecorded
<1>6. CASE Start /\ StartControl
  BY <1>0, <1>6 DEF Start, StartControl, NewFileSink, Serving, Unrecorded
<1>7. CASE UNCHANGED vars
  BY <1>0, <1>7 DEF vars, settingsVars, controlVars, auditVars, Serving, Unrecorded
<1>8. ASSUME NEW s \in Saves, HandleSave(s)
      PROVE  process = "serving" /\ process' = "serving"
  BY <1>8 DEF HandleSave, At, Post, Load, Save, SaveFails, ReloadLoki, ReloadGitOps,
              ReloadCredentials, ReloadRoutingKey, PushConfig, RecordSaved
<1>9. CASE (ServeLate \/ RestartDiagnoser) /\ UNCHANGED controlVars
  BY <1>2, <1>4, <1>9 DEF ServeLate, RestartDiagnoser, controlVars
<1>10. CASE process = "serving" /\ UNCHANGED settingsVars
  BY <1>2, <1>10 DEF settingsVars
<1> QED  BY <1>2, <1>3, <1>5, <1>6, <1>7, <1>8, <1>9, <1>10 DEF Next

LEMMA AlwaysAuditInv == Spec => [](IInv /\ AuditInv /\ Serving)
<1>1. Init => AuditInv /\ Serving
  <2> SUFFICES ASSUME Init PROVE AuditInv /\ Serving
    OBVIOUS
  <2>1. lines = <<>> /\ accepted = <<>> /\ tail = Nothing /\ opened = 0 /\ sticky = FALSE
        /\ process = "down"
    BY DEF Init, AuditInit, SettingsInit
  <2>2. AuditTypes
    <3>1. \A S : <<>> \in Seq(S)
      OBVIOUS
    <3> QED  BY <2>1, <3>1 DEF AuditTypes
  <2>3. ToSet(accepted) = {} /\ Lost = {}
    BY <2>1 DEF ToSet, Lost
  <2>4. Unrecorded = {}
    BY DEF Init, ControlInit, ToggleIdle, Unrecorded
  <2> QED  BY <2>1, <2>2, <2>3, <2>4, FS_EmptySet
           DEF AuditInv, Unfinished, Ordered, FewLost, Serving
<1>2. IInv /\ AuditInv /\ Serving /\ [Next]_vars => AuditInv' /\ Serving'
  <2> SUFFICES ASSUME IInv, AuditInv, Serving, [Next]_vars PROVE AuditInv' /\ Serving'
    OBVIOUS
  <2>1. CASE auditVars' = auditVars \/ NewFileSink
    BY <2>1, LogKeeps, PastGrows, ServingStays
  <2>2. CASE process = "serving" /\ \E e : Fresh(e) /\ Record(e)
    BY <2>2, RecordKeeps, ServingStays DEF Serving
  <2> QED  BY <2>1, <2>2, WhoRecords
<1> QED  BY <1>1, <1>2, AlwaysIInv, PTL DEF Spec

\* What FileSink.Record accepted (file_sink.go:42) is read back by Query once and in
\* order, but for at most one event each time the file was opened again.
THEOREM LogIsReadable == Spec => []AcceptedIsReadable
<1>1. AuditInv => AcceptedIsReadable
  <2> SUFFICES ASSUME AuditInv PROVE AcceptedIsReadable
    OBVIOUS
  <2>1. \A i \in DOMAIN accepted : accepted[i] \in Events /\ accepted[i] # Garbage
    BY MarksAre DEF AuditInv, AuditTypes
  <2>2. ToSet(accepted) \ {Contents[n] : n \in Query} = Lost
    BY <2>1 DEF Lost, ToSet, Query
  <2>3. accepted # <<>> => Cardinality(Lost) < opened
    BY DEF AuditInv, AuditTypes, FewLost
  <2> QED  BY <2>2, <2>3 DEF AcceptedIsReadable, AuditInv, Ordered, Query
<1> QED  BY <1>1, AlwaysAuditInv, PTL

-----------------------------------------------------------------------------
(* The switch and the log.                                                 *)

Turns == {n \in Query : Contents[n].outcome \in Positions}

\* While the log tells the switch, at most one request is between them, and the
\* end of the file is no turn of the switch that the next event could spoil.
SwitchInv ==
  told =>
    /\ Unrecorded = {} =>
         LastPosition = switch /\ (tail \in Events => tail.outcome \notin Positions)
    /\ \A t \in Unrecorded : switch = toggle[t].to /\ Unrecorded = {t}

LEMMA Greatest ==
  ASSUME NEW k \in Nat, NEW S, S \subseteq 1..k, S # {}
  PROVE  \E x \in S : \A y \in S : x >= y
<1> DEFINE T == {n \in Nat : k - n \in S}
<1>1. T # {} /\ T \subseteq Nat
  <2>1. PICK x \in S : x \in 1..k
    OBVIOUS
  <2>2. k - x \in Nat /\ k - (k - x) = x
    BY <2>1
  <2> QED  BY <2>1, <2>2
<1> HIDE DEF T
<1>2. PICK m \in T : \A n \in T : ~(<<n, m>> \in OpToRel(<, Nat))
  BY <1>1, NatLessThanWellFounded, WFMin
<1>3. ASSUME NEW n \in T PROVE n >= m
  <2>1. n \in Nat /\ m \in Nat
    BY <1>1
  <2>2. ~(n < m)
    BY <1>2, <2>1 DEF OpToRel
  <2> QED  BY <2>1, <2>2
<1>4. m \in Nat /\ k - m \in S
  BY DEF T
<1>5. ASSUME NEW y \in S PROVE k - m >= y
  <2>1. y \in 1..k /\ k - y \in Nat /\ k - (k - y) = y
    OBVIOUS
  <2>2. k - y \in T
    BY <2>1 DEF T
  <2> QED  BY <1>3, <1>4, <2>1, <2>2
<1> QED  BY <1>4, <1>5

LEMMA TurnsAre ==
  ASSUME AuditTypes
  PROVE  /\ Len(Contents) \in Nat /\ DOMAIN Contents = 1..Len(Contents)
         /\ Turns \subseteq 1..Len(Contents)
         /\ Turns # {} => Max(Turns) \in Turns
<1>1. Len(Contents) \in Nat /\ DOMAIN Contents = 1..Len(Contents)
  <2>1. Contents \in Seq(Past \union {Garbage})
    BY ContentsAre
  <2> QED  BY <2>1
<1>2. Turns \subseteq 1..Len(Contents)
  BY <1>1 DEF Turns, Query
<1>3. ASSUME Turns # {} PROVE Max(Turns) \in Turns
  <2>1. \E x \in Turns : \A y \in Turns : x >= y
    BY <1>1, <1>2, <1>3, Greatest
  <2> QED  BY <2>1 DEF Max
<1> QED  BY <1>1, <1>2, <1>3

LEMMA PositionKept ==
  ASSUME AuditTypes, Turns' = Turns, \A n \in Turns : Contents'[n] = Contents[n]
  PROVE  LastPosition' = LastPosition
<1>1. /\ LastPosition = IF Turns = {} THEN AtStart ELSE Contents[Max(Turns)].outcome
      /\ LastPosition' = IF Turns' = {} THEN AtStart ELSE Contents'[Max(Turns')].outcome
  BY DEF LastPosition, Turns
<1> QED  BY <1>1, TurnsAre

\* An event that is no turn of the switch does not change what the log tells.
LEMMA SavedKeepsPosition ==
  ASSUME AuditInv, NEW e \in Events, e.outcome = "saved", Record(e),
         tail \in Events => tail.outcome \notin Positions
  PROVE  /\ LastPosition' = LastPosition
         /\ tail' \in Events => tail'.outcome \notin Positions
<1> DEFINE l == Len(Contents)
           Turn(x) == x # Garbage /\ x.outcome \in Positions
<1>0. AuditTypes /\ ~Turn(e) /\ ~Turn(Garbage) /\ Garbage \notin Events /\ Nothing \notin Events
  BY MarksAre DEF AuditInv
<1>1. tail \in Events \union {Garbage, Nothing}
  BY MarksAre DEF AuditInv, AuditTypes
<1>2. tail' \in Events => tail'.outcome \notin Positions
  BY <1>0, <1>1, RecordSays
<1>3. Contents \in Seq(Past \union {Garbage}) /\ lines \in Seq(Past \union {Garbage})
  BY <1>0, ContentsAre DEF AuditTypes
<1>4. /\ \A n : n \in Turns <=> n \in DOMAIN Contents /\ Turn(Contents[n])
      /\ \A n : n \in Turns' <=> n \in DOMAIN Contents' /\ Turn(Contents'[n])
  BY DEF Turns, Query
<1>5. l \in Nat /\ DOMAIN Contents = 1..l
  BY <1>3
<1>6. SUFFICES Turns' = Turns /\ \A n \in Turns : Contents'[n] = Contents[n]
  BY <1>0, <1>2, PositionKept
<1>7. CASE Contents' = Contents
  BY <1>4, <1>7
<1>8. ASSUME NEW z \in {e, Garbage}, Contents' = Append(Contents, z)
      PROVE  Turns' = Turns /\ \A n \in Turns : Contents'[n] = Contents[n]
  <2>1. /\ DOMAIN Contents' = 1..(l + 1)
        /\ \A n \in 1..l : n # l + 1 /\ Contents'[n] = Contents[n]
        /\ Contents'[l + 1] = z
        /\ \A n \in 1..(l + 1) : n = l + 1 \/ n \in 1..l
    BY <1>3, <1>8, Appended
  <2>2. ~Turn(z) /\ 1..l \subseteq 1..(l + 1)
    BY <1>0, <1>5
  <2> HIDE DEF l, Turn
  <2> QED  BY <1>4, <1>5, <2>1, <2>2
<1>9. CASE Spoilt
  <2> DEFINE o == Len(lines)
  <2>1. ~Turn(tail) /\ Contents = Append(lines, tail) /\ Contents' = Append(lines, Garbage)
    BY <1>0, <1>1, <1>9 DEF Spoilt
  <2>2. \A z : /\ DOMAIN Append(lines, z) = 1..(o + 1)
               /\ \A n \in 1..o : Append(lines, z)[n] = lines[n]
               /\ Append(lines, z)[o + 1] = z
               /\ \A n \in 1..(o + 1) : n = o + 1 \/ n \in 1..o
    BY <1>3, Appended
  <2>3. /\ DOMAIN Contents = 1..(o + 1) /\ DOMAIN Contents' = 1..(o + 1)
        /\ \A n \in 1..o : Contents'[n] = Contents[n]
        /\ Contents[o + 1] = tail /\ Contents'[o + 1] = Garbage
        /\ \A n \in 1..(o + 1) : n = o + 1 \/ n \in 1..o
    BY <2>1, <2>2
  <2> HIDE DEF o, Turn
  <2> QED  BY <1>0, <1>4, <2>1, <2>3
<1> QED  BY <1>0, <1>7, <1>8, <1>9, RecordSays DEF Same, Kept, Begun

\* A turn that is written whole is what the log tells.
LEMMA TurnTells ==
  ASSUME AuditTypes, NEW e \in Events, e.outcome \in Positions,
         Contents' = Append(Contents, e)
  PROVE  LastPosition' = e.outcome
<1> DEFINE l == Len(Contents)
<1>1. Contents \in Seq(Past \union {Garbage}) /\ e # Garbage
  BY ContentsAre, MarksAre
<1>2. l \in Nat /\ DOMAIN Contents' = 1..(l + 1) /\ Contents'[l + 1] = e
  BY <1>1, Appended
<1>3. l + 1 \in Turns' /\ Turns' \subseteq 1..(l + 1)
  BY <1>1, <1>2 DEF Turns, Query
<1>4. Max(Turns') = l + 1
  <2>1. l + 1 \in Turns' /\ \A y \in Turns' : l + 1 >= y
    BY <1>2, <1>3
  <2>2. Max(Turns') \in Turns' /\ Max(Turns') >= l + 1
    BY <2>1 DEF Max
  <2> HIDE DEF l
  <2>3. Max(Turns') \in 1..(l + 1)
    BY <1>3, <2>2
  <2> QED  BY <1>2, <2>2, <2>3
<1>5. LastPosition' = IF Turns' = {} THEN AtStart ELSE Contents'[Max(Turns')].outcome
  BY DEF LastPosition, Turns
<1> QED  BY <1>2, <1>3, <1>4, <1>5

LEMMA SwitchKept ==
  ASSUME SwitchInv, UNCHANGED <<lines, tail, switch>>, told' => told, Unrecorded' = Unrecorded,
         \A t \in Unrecorded : toggle'[t].to = toggle[t].to
  PROVE  SwitchInv'
<1>1. LastPosition' = LastPosition
  BY DEF LastPosition, Query, Contents
<1> QED  BY <1>1 DEF SwitchInv

LEMMA ToggleStep ==
  ASSUME IInv, AuditInv, SwitchInv, NEW t \in Toggles, HandleToggle(t)
  PROVE  SwitchInv'
<1>0. /\ toggle \in [Toggles -> [step : ToggleSteps, to : Positions, prev : Positions]]
      /\ toggle[t].to \in Positions
  BY DEF IInv, Types, TypeOK, ControlTypeOK
<1>1. CASE PostToggle(t) \/ ReadSwitch(t)
  <2>1. PICK h : /\ toggle' = [toggle EXCEPT ![t] = h]
                 /\ h.step # "record" /\ toggle[t].step # "record"
    <3>1. ASSUME NEW p \in Positions
          PROVE  [toggle[t] EXCEPT !.step = "read", !.to = p].step = "read"
      BY <1>0
    <3>2. [toggle[t] EXCEPT !.step = "set", !.prev = switch].step = "set"
      BY <1>0
    <3> QED  BY <1>1, <3>1, <3>2 DEF PostToggle, ReadSwitch
  <2>2. Unrecorded' = Unrecorded /\ \A r \in Unrecorded : toggle'[r].to = toggle[r].to
    BY <1>0, <2>1 DEF Unrecorded
  <2>3. UNCHANGED <<lines, tail, switch, told>>
    BY <1>1 DEF PostToggle, ReadSwitch, auditVars
  <2> QED  BY <2>2, <2>3, SwitchKept
<1>2. CASE SetSwitch(t)
  <2> DEFINE h == [toggle[t] EXCEPT !.step = "record"]
  <2>1. toggle' = [toggle EXCEPT ![t] = h] /\ h.step = "record" /\ h.to = toggle[t].to
    BY <1>0, <1>2 DEF SetSwitch, ToggleAt
  <2> HIDE DEF h
  <2>2. Unrecorded' = Unrecorded \union {t} /\ toggle'[t].to = toggle[t].to
    BY <1>0, <2>1 DEF Unrecorded
  <2>3. told' = (Unrecorded = {}) /\ switch' = toggle[t].to
    BY <1>2 DEF SetSwitch
  <2> QED  BY <2>2, <2>3 DEF SwitchInv
<1>3. CASE RecordToggle(t)
  <2> DEFINE h == [toggle[t] EXCEPT !.step = "answered"]
             e == [id |-> t, outcome |-> toggle[t].to]
  <2> SUFFICES ASSUME told' PROVE SwitchInv'
    BY DEF SwitchInv
  <2>1. toggle' = [toggle EXCEPT ![t] = h] /\ h.step = "answered" /\ t \in Unrecorded
    BY <1>0, <1>3 DEF RecordToggle, ToggleAt, Unrecorded
  <2>2. told /\ lines' # lines /\ Last(lines') # Garbage /\ switch' = switch
    BY <1>3 DEF RecordToggle
  <2>3. switch = toggle[t].to /\ Unrecorded = {t}
    BY <2>1, <2>2 DEF SwitchInv
  <2>4. e \in Events /\ e.outcome = toggle[t].to
    BY <1>0 DEF Events
  <2>5. Record(e)
    BY <1>3 DEF RecordToggle, EventOutcome
  <2> HIDE DEF h, e
  <2>6. Unrecorded' = {}
    BY <1>0, <2>1, <2>3 DEF Unrecorded
  <2>7. lines' = Written(e) /\ tail' = Nothing
    BY <2>2, <2>5 DEF Record
  <2>8. tail = Nothing
    <3>1. lines \in Seq(Past \union {Garbage})
      BY DEF AuditInv, AuditTypes
    <3>2. CASE lines' = Append(lines, Garbage)
      <4>1. Last(lines') = Garbage
        BY <3>1, <3>2, Appended DEF Last
      <4> QED  BY <2>2, <4>1
    <3> QED  BY <2>7, <3>2 DEF Written
  <2>9. Contents' = Append(Contents, e)
    BY <2>7, <2>8 DEF Contents, Written
  <2>10. LastPosition' = toggle[t].to
    BY <1>0, <2>4, <2>9, TurnTells DEF AuditInv
  <2> QED  BY <2>2, <2>3, <2>6, <2>7, <2>10, MarksAre DEF SwitchInv
<1> QED  BY <1>1, <1>2, <1>3 DEF HandleToggle

LEMMA SwitchStep ==
  ASSUME IInv, AuditInv, Serving, SwitchInv, [Next]_vars
  PROVE  SwitchInv'
<1>1. CASE UNCHANGED <<controlVars, lines, tail>>
  <2>1. Unrecorded' = Unrecorded
    BY <1>1 DEF controlVars, Unrecorded
  <2> QED  BY <1>1, <2>1, SwitchKept DEF controlVars
<1>2. ASSUME NEW s \in Saves, RecordSaved(s), UNCHANGED controlVars
      PROVE  SwitchInv'
  <2> SUFFICES ASSUME told' PROVE SwitchInv'
    BY DEF SwitchInv
  <2> DEFINE e == [id |-> s, outcome |-> "saved"]
  <2>1. e \in Events /\ e.outcome = "saved" /\ Record(e)
    BY <1>2 DEF Events, RecordSaved
  <2> HIDE DEF e
  <2>2. UNCHANGED <<switch, toggle, told, Unrecorded>>
    BY <1>2 DEF controlVars, Unrecorded
  <2>3. ASSUME Unrecorded = {}
        PROVE  LastPosition' = LastPosition /\ (tail' \in Events => tail'.outcome \notin Positions)
    BY <2>1, <2>2, <2>3, SavedKeepsPosition DEF SwitchInv
  <2>4. Events' = Events
    BY DEF Events
  <2> QED  BY <2>2, <2>3, <2>4 DEF SwitchInv
<1>3. CASE Start /\ StartControl
  <2>1. Unrecorded = {} /\ Unrecorded' = {}
    BY <1>3 DEF Start, StartControl, Serving, Unrecorded
  <2>2. UNCHANGED <<lines, tail>> /\ (told' => told /\ switch = switch')
    BY <1>3 DEF Start, StartControl, NewFileSink
  <2>3. LastPosition' = LastPosition
    BY <2>2 DEF LastPosition, Query, Contents
  <2> QED  BY <2>1, <2>2, <2>3 DEF SwitchInv
<1>4. CASE Crash
  <2>1. \A t \in Toggles : [toggle[t] EXCEPT !.step = "answered"].step = "answered"
    BY DEF IInv, Types, TypeOK, ControlTypeOK
  <2>2. Unrecorded' = {}
    BY <1>4, <2>1 DEF Crash, Unrecorded, ToggleStopped
  <2>3. told' => told /\ Unrecorded = {}
    BY <1>4 DEF Crash
  <2>4. UNCHANGED <<lines, tail, switch>>
    BY <1>4 DEF Crash, auditVars
  <2>5. LastPosition' = LastPosition
    BY <2>4 DEF LastPosition, Query, Contents
  <2> QED  BY <2>2, <2>3, <2>4, <2>5 DEF SwitchInv
<1>5. ASSUME NEW s \in Saves, HandleSave(s), ~RecordSaved(s), UNCHANGED controlVars
      PROVE  SwitchInv'
  BY <1>1, <1>5
     DEF HandleSave, Post, Load, Save, SaveFails, ReloadLoki, ReloadGitOps,
         ReloadCredentials, ReloadRoutingKey, PushConfig, auditVars
<1> QED
  BY <1>1, <1>2, <1>3, <1>4, <1>5, ToggleStep
     DEF Next, vars, ServeLate, RestartDiagnoser, EnsureMasterKey, auditVars

\* Whoever reads the log sees the position that handleKillSwitch (api.go:479) gave the
\* switch in its last turn, unless two handlers were interleaved, the event was not
\* written or a restart turned the switch.
THEOREM LogTellsSwitch == Spec => []AuditTellsSwitch
<1>1. Init => SwitchInv
  <2> SUFFICES ASSUME Init PROVE SwitchInv
    OBVIOUS
  <2>1. lines = <<>> /\ tail = Nothing /\ switch = AtStart
    BY DEF Init, AuditInit, ControlInit
  <2>2. Contents = <<>>
    BY <2>1 DEF Contents
  <2>3. LastPosition = AtStart
    BY <2>2 DEF LastPosition, Query
  <2>4. Unrecorded = {}
    BY DEF Init, ControlInit, ToggleIdle, Unrecorded
  <2> QED  BY <2>1, <2>3, <2>4, MarksAre DEF SwitchInv
<1>2. IInv /\ AuditInv /\ Serving /\ SwitchInv /\ [Next]_vars => SwitchInv'
  BY SwitchStep
<1>3. SwitchInv => AuditTellsSwitch
  BY DEF SwitchInv, AuditTellsSwitch
<1> QED  BY <1>1, <1>2, <1>3, AlwaysAuditInv, PTL DEF Spec

=============================================================================
