----------------------------- MODULE TurnInference -----------------------------
(***************************************************************************)
(* What a turn runs with: the model, the reasoning effort, the mode and the *)
(* permissions (CodexClient::start_turn and ThreadInferenceState in         *)
(* client.rs and model.rs, TurnStartParams in wire/mod.rs), and the model   *)
(* state the observer shows for the writer (worker/writer.rs).              *)
(*                                                                          *)
(* The app-server keeps all four from turn to turn.  The client remembers   *)
(* the model and the effort, resends them with every turn and resolves an   *)
(* override of the model alone against the catalog, which it loads page by  *)
(* page.  A turn that fails to begin ends the writer; a new one is told     *)
(* what is active by an app-server that `reports` it.                       *)
(***************************************************************************)
EXTENDS Integers, Sequences, SequencesExt

CONSTANTS Catalog,     \* the models, in the order of the app-server
          Efforts,
          MaxChanges,  \* bound on the models hidden or shown again
          MaxFailures, \* bound on failures
          None

Models == {Catalog[i].model : i \in DOMAIN Catalog}

CatalogAssumption ==
    /\ None \notin Models \cup Efforts
    /\ Catalog \in Seq([model : Models, default : Efforts, supported : SUBSET Efforts])
    /\ \A i, j \in DOMAIN Catalog : Catalog[i].model = Catalog[j].model => i = j
BoundsAssumption == MaxChanges \in Nat /\ MaxFailures \in Nat

VARIABLES
    hidden,    \* the models not in the visible catalog
    changes,
    active,    \* what the app-server runs the thread's turns with
    reports,   \* whether it reports the model and the effort
    open,      \* whether there is a writer
    inference, \* subscribed_thread_inference
    shown,     \* the model state the application shows
    op,        \* the turn being begun, or the last one
    before,    \* `active` when it was begun
    failures

server == <<hidden, changes, active, reports>>
client == <<open, inference, shown>>
vars == <<server, client, op, before, failures>>

Inference == [model : Models \cup {None}, effort : Efforts \cup {None}]
Modes == {"default", "plan"}
Presets == {"inherit", "request approval", "read only"}
TurnOptions == [model : Models \cup {None}, effort : Efforts \cup {None},
                mode : Modes, preset : Presets]
NoTurn == [step |-> "idle", valid |-> TRUE, cursor |-> 1, models |-> {},
           options |-> [model |-> None, effort |-> None, mode |-> "default",
                        preset |-> "inherit"]]

Running == [model : Models, effort : Efforts \cup {None}, mode : Modes,
            permissions : Presets]
Beginning == [step : {"idle", "catalog", "start", "applied", "done"}, valid : BOOLEAN,
              cursor : DOMAIN Catalog, models : SUBSET Models, options : TurnOptions]
TypeOK ==
    /\ hidden \subseteq Models /\ changes \in 0 .. MaxChanges /\ reports \in BOOLEAN
    /\ active \in Running /\ before \in Running
    /\ open \in BOOLEAN /\ inference \in Inference /\ shown \in Inference \cup {None}
    /\ op \in Beginning /\ failures \in 0 .. MaxFailures
    /\ op.step = "start" /\ op.options.model # None => op.options.effort # None

\* What a new writer is told, by the app-server's answer.
Reported == IF reports THEN [model |-> active.model, effort |-> active.effort]
            ELSE [model |-> None, effort |-> None]
\* emit_writer_model_state: nothing is shown without a model.
Emitted(found) == IF found.model = None THEN shown ELSE found

Init ==
    /\ hidden = {} /\ changes = 0 /\ reports \in BOOLEAN
    /\ active \in [model : Models, effort : Efforts \cup {None}, mode : Modes,
                   permissions : {"read only"}]
    /\ open = TRUE /\ inference = Reported
    /\ shown = IF reports THEN inference ELSE None
    /\ op = NoTurn /\ before = active /\ failures = 0

---------------------------------------------------------------------------
(* Beginning a turn                                                         *)

\* An error while a turn begins ends the writer.
Fail ==
    /\ open' = FALSE /\ op' = NoTurn
    /\ UNCHANGED <<server, inference, shown, before>>

\* The preferred effort where the model supports it, or else its default.
resolve_reasoning_effort(model, preferred) ==
    LET info == Catalog[CHOOSE i \in DOMAIN Catalog : Catalog[i].model = model]
    IN  IF preferred \in info.supported THEN preferred ELSE info.default

\* mutant of CollaborationModel: the mode is sent only where it is Plan
CollaborationModel_plan_only(options) ==
    IF options.mode # "plan" THEN None
    ELSE IF options.model # None THEN options.model ELSE inference.model

\* The model a collaboration mode is sent with; None when it is not sent.
CollaborationModel(options) ==
    IF options.model # None THEN options.model ELSE inference.model
CollaborationEffort(options) ==
    IF options.effort # None THEN options.effort ELSE inference.effort

IsModelOnly(options) == options.model # None /\ options.effort = None

begin_turn(options, valid) ==
    /\ open /\ op.step \in {"idle", "done"}
    /\ before' = active
    /\ op' = [NoTurn EXCEPT !.step = IF IsModelOnly(options) THEN "catalog" ELSE "start",
                            !.valid = valid, !.options = options]
    /\ UNCHANGED <<server, client, failures>>

\* A turn without input, or in Plan mode when no model is known, is not sent.
Refuse ==
    /\ \/ op.step \in {"catalog", "start"} /\ ~op.valid
       \/ op.step = "start" /\ op.options.mode = "plan"
                            /\ CollaborationModel(op.options) = None
    /\ Fail /\ UNCHANGED failures

\* The selected model must be in the catalog.
SelectModel(models) ==
    IF op.options.model \in models
      THEN /\ op' = [op EXCEPT !.step = "start", !.models = models,
                               !.options.effort =
                                 resolve_reasoning_effort(op.options.model, inference.effort)]
           /\ UNCHANGED <<server, client, before>>
      ELSE Fail

\* One page of the catalog, which holds a model unless that is hidden.
list_models ==
    /\ op.step = "catalog" /\ op.valid
    /\ LET models == op.models \cup ({Catalog[op.cursor].model} \ hidden)
       IN  IF op.cursor < Len(Catalog)
             THEN /\ op' = [op EXCEPT !.cursor = @ + 1, !.models = models]
                  /\ UNCHANGED <<server, client, before>>
             ELSE SelectModel(models)
    /\ UNCHANGED failures

\* The app-server begins the turn.  A collaboration mode takes precedence; what
\* is not sent stays as it was.
StartTurn ==
    /\ op.step = "start" /\ op.valid
    /\ op.options.mode = "plan" => CollaborationModel(op.options) # None
    /\ LET options == op.options
           sent == CollaborationModel(options) # None
       IN  active' =
             [model |-> IF sent THEN CollaborationModel(options) ELSE active.model,
              effort |-> IF sent THEN CollaborationEffort(options)
                         ELSE IF options.effort # None THEN options.effort ELSE active.effort,
              mode |-> IF sent THEN options.mode ELSE active.mode,
              permissions |-> IF options.preset = "inherit" THEN active.permissions
                              ELSE options.preset]
    /\ op' = [op EXCEPT !.step = "applied"]
    /\ UNCHANGED <<hidden, changes, reports, client, before, failures>>

\* ThreadInferenceState::apply
Applied(options) ==
    [model |-> IF options.model # None THEN options.model ELSE inference.model,
     effort |-> IF options.effort # None THEN options.effort ELSE inference.effort]

\* The answer: the client takes note of the override and shows it.
TurnStarted ==
    /\ op.step = "applied"
    /\ op' = [op EXCEPT !.step = "done"]
    /\ inference' = Applied(op.options)
    /\ shown' = IF op.options.model # None \/ op.options.effort # None
                  THEN Emitted(inference') ELSE shown
    /\ UNCHANGED <<server, open, before, failures>>

\* An error of the app-server, a lost connection or an answer that cannot be
\* read, before or after the turn has begun.
BeginFails ==
    /\ op.step \in {"catalog", "start", "applied"} /\ op.valid
    /\ failures < MaxFailures /\ failures' = failures + 1
    /\ Fail

\* Another writer is acquired, or the thread is forked or started.
AcquireWriter ==
    /\ ~open /\ open' = TRUE
    /\ inference' = Reported /\ shown' = Emitted(Reported)
    /\ UNCHANGED <<server, op, before, failures>>

\* The catalog changes, also while it is loaded.
CatalogChanges(model) ==
    /\ changes < MaxChanges /\ changes' = changes + 1
    /\ hidden' = IF model \in hidden THEN hidden \ {model} ELSE hidden \cup {model}
    /\ UNCHANGED <<active, reports, client, op, before, failures>>

Next ==
    \/ \E options \in TurnOptions, valid \in BOOLEAN : begin_turn(options, valid)
    \/ Refuse \/ list_models \/ StartTurn \/ TurnStarted \/ BeginFails
    \/ AcquireWriter
    \/ \E model \in Models : CatalogChanges(model)
Spec == Init /\ [][Next]_vars

---------------------------------------------------------------------------
(* Properties                                                               *)

\* What the client remembers, and what is shown, is what the app-server runs
\* the turns with, over any sequence of overrides, failures and new writers.
ShownIsActive ==
    open /\ op.step # "applied" =>
      /\ inference.model # None =>
           inference = [model |-> active.model, effort |-> active.effort]
      /\ inference.effort # None => inference.effort = active.effort
      /\ reports => shown = inference

\* A turn runs in the mode and with the model and the effort it was begun with,
\* although the app-server keeps those of the turn before.  An app-server that
\* does not report its model is not sent a mode it may have to leave.
TurnRunsAsAsked ==
    op.step \in {"applied", "done"} =>
      /\ reports \/ op.options.mode = "plan" => active.mode = op.options.mode
      /\ op.options.model # None => active.model = op.options.model
      /\ op.options.effort # None => active.effort = op.options.effort

\* What a turn does not override stays; the effort stays with another model
\* that supports it and is that model's default otherwise.
OthersAreKept ==
    op.step \in {"applied", "done"} =>
      /\ op.options.preset = "inherit" => active.permissions = before.permissions
      /\ op.options.model = None => active.model = before.model
      /\ op.options.model = None /\ op.options.effort = None => active.effort = before.effort
      /\ op.models # {} /\ reports =>
           \E i \in DOMAIN Catalog :
              /\ Catalog[i].model = active.model
              /\ IF before.effort \in Catalog[i].supported
                   THEN active.effort = before.effort
                   ELSE active.effort = Catalog[i].default
=============================================================================
