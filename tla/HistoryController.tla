--------------------------- MODULE HistoryController ---------------------------
(***************************************************************************)
(* The application's Codex history and conversation controllers             *)
(* (codexhistorycontroller*.cpp, codexconversationcontroller*.cpp) together  *)
(* with the observer they drive.  A controller acts on what it was last      *)
(* told, sends a command and shows its request as pending; the observer's    *)
(* events reach it through Qt's event queue, in order but late.              *)
(*                                                                          *)
(* The observer is ObserverActor seen from outside: each operation of an     *)
(* update is one step that also emits the operation's events.  `pending` is  *)
(* its channel, `following` the commands deferred while an operation or a    *)
(* turn is under way.  The app-server answers as it likes.  In `ui` the      *)
(* NotRequested write availability is "Idle", and the writer's states name   *)
(* the turn states.                                                          *)
(***************************************************************************)
EXTENDS ObserverInterface
LOCAL INSTANCE SequencesExt

CONSTANTS InitialThreads, \* active threads there are at the start
          UserOps,        \* what the user does in a run
          MaxCommands,    \* bound on the commands sent
          MaxFailures,    \* bound on the requests that fail
          MaxOthers,      \* bound on what other clients archive or restore
          IdleFailures    \* whether a writer's stream fails without a turn

InitialAssumption == InitialThreads \subseteq Threads

VARIABLES
    home,        \* the list each persisted thread is in; None before it exists
    interrupted, \* threads whose latest turn was interrupted
    gate,        \* ObserverOperationGate
    pending, work, following, \* the channel, the update under way, the deferred one
    phase,       \* of a turn: "none", "begins" or "runs"
    scope, watched, rt,       \* ObserverState
    snapshot,    \* whether the projection's latest turn is an interrupted one
    page,        \* the last page emitted, or None: the baseline is reset
    pageFails,   \* the page poll's health
    read,        \* the conversation poll: "unread", "failed" or "read"
    events,      \* Qt's event queue
    ui,          \* the two controllers
    asked, issued, failures, others, \* counters of the bounds
    displaced,   \* history: a turn that was refused took the last selection back
    overtaken    \* history: what an earlier selection asked was still on its way

commands == <<gate, pending, work, following, phase>>
observer == <<scope, watched, rt, snapshot>>
polls == <<page, pageFails, read>>
bounds == <<asked, issued, failures, others>>
controlled == <<home, interrupted, commands, observer, polls, events, ui, bounds>>
vars == <<controlled, displaced, overtaken>>

TurnStates == LiveRuntimeStates
Controllers ==
    [archived : BOOLEAN, listed : SUBSET Threads, loadingThreads : BOOLEAN, starting : BOOLEAN,
     forking : Threads \cup {None}, changing : Threads \cup {None},
     selected : Threads \cup {None}, loading : BOOLEAN, continuing : BOOLEAN,
     turn : TurnStates, activeTurn : LiveTurns \cup {None}, write : WriteStatuses,
     steering : BOOLEAN, stopping : BOOLEAN, interrupted : BOOLEAN]

TypeOK ==
    /\ home \in [Threads -> Scopes \cup {None}] /\ interrupted \subseteq Threads
    /\ gate \in Operations /\ {pending, work, following} \subseteq Updates
    /\ phase \in {"none", "begins", "runs"}
    /\ scope \in Scopes /\ watched \in Threads \cup {None} /\ rt \in Runtimes
    /\ snapshot \in BOOLEAN
    /\ page \in SUBSET Threads \cup {None} /\ pageFails \in BOOLEAN
    /\ read \in {"unread", "failed", "read"}
    /\ events \in Seq(Events) /\ ui \in Controllers
    /\ ui.activeTurn # None => ui.turn = "Active"
    /\ ui.forking \in {None, ui.selected} /\ (ui.loading => ui.selected # None)
    /\ phase # "none" => gate = "Turn" /\ rt.writer = watched
    /\ asked \in 0 .. MaxTurns /\ displaced \in BOOLEAN /\ overtaken \in BOOLEAN

Init ==
    /\ home = [t \in Threads |-> IF t \in InitialThreads THEN "Active" ELSE None]
    /\ interrupted \in SUBSET InitialThreads
    /\ gate = "Idle" /\ phase = "none"
    /\ pending = EmptyUpdate /\ work = EmptyUpdate /\ following = EmptyUpdate
    /\ scope = "Active" /\ watched = None /\ rt = reset /\ snapshot = FALSE
    /\ page = None /\ pageFails = FALSE /\ read = "unread" /\ events = <<>>
    /\ ui = [archived |-> FALSE, listed |-> {}, loadingThreads |-> TRUE, starting |-> FALSE,
             forking |-> None, changing |-> None, selected |-> None, loading |-> FALSE,
             continuing |-> FALSE, turn |-> "Detached", activeTurn |-> None, write |-> "Idle",
             steering |-> FALSE, stopping |-> FALSE, interrupted |-> FALSE]
    /\ asked = 0 /\ issued = 0 /\ failures = 0 /\ others = 0
    /\ displaced = FALSE /\ overtaken = FALSE

---------------------------------------------------------------------------
(* The controllers' state                                                    *)

turnInFlight(u) == u.turn \in {"Starting", "Active"}
mutationInFlight(u) ==
    u.starting \/ u.forking # None \/ turnInFlight(u) \/ u.changing # None
\* CodexHistoryActionState.busy: the list and the buttons are disabled
busy(u) == u.loadingThreads \/ u.loading \/ mutationInFlight(u)
forkReady(u) == u.turn \in {"Detached", "Idle"} /\ u.write \in {"Idle", "Writable"}

setTurnState(u, state, n) ==
    [u EXCEPT !.turn = state, !.activeTurn = n,
              !.steering = @ /\ state = "Active",
              !.stopping = @ /\ state \in {"Starting", "Active"}]

\* selection bug: the request for writing access of the former selection stays
reselect_keeping(u, t, wasInterrupted) ==
    [setTurnState(u, "Detached", None) EXCEPT
        !.selected = t, !.loading = FALSE, !.continuing = FALSE, !.interrupted = wasInterrupted]

\* what selecting, adopting and clearing a conversation reset alike
reselect(u, t, wasInterrupted) ==
    [setTurnState(u, "Detached", None) EXCEPT
        !.selected = t, !.loading = FALSE, !.continuing = FALSE, !.write = "Idle",
        !.interrupted = wasInterrupted]
beginLoadingThread(u, t) == [reselect(u, t, FALSE) EXCEPT !.loading = TRUE]
adoptConversation(u, t, wasInterrupted) == reselect(u, t, wasInterrupted)
clearSelection(u) == [reselect(u, None, FALSE) EXCEPT !.forking = None]
finishThreadLoading(u) ==
    IF u.changing = None THEN [u EXCEPT !.loadingThreads = FALSE] ELSE u

\* the observer accepts a command and the controllers show it as u
Ask(command, u) ==
    /\ issued < MaxCommands /\ Accepts(gate, command)
    /\ pending' = merge_command(pending, command)
    /\ gate' = Reserved(gate, command)
    /\ asked' = IF command \in StartTurn THEN command.turn ELSE asked
    /\ issued' = issued + 1 /\ ui' = u

---------------------------------------------------------------------------
(* What the user does                                                        *)

Does(operation) ==
    /\ operation \in UserOps
    /\ UNCHANGED <<home, interrupted, work, following, phase, observer, polls, events, failures,
                   others>>

\* a bound: Threads has one left to create
Room == \E t \in Threads : home[t] = None

\* an active selection with nothing under way
Ready == ui.selected # None /\ ~ui.archived /\ ~mutationInFlight(ui)

showArchivedThreads ==
    /\ Does("showArchived")
    /\ ~ui.loadingThreads /\ ~ui.loading /\ ~mutationInFlight(ui)
    /\ Ask(show_archived_async(~ui.archived),
           [clearSelection(ui) EXCEPT !.archived = ~@, !.listed = {}, !.loadingThreads = TRUE])

selectThread(t) ==
    /\ Does("select")
    /\ t \in ui.listed /\ t # ui.selected /\ ~busy(ui)
    /\ Ask(watch_async(t), beginLoadingThread(ui, t))

\* through a completed turn, which threads of the start have
forkSelectedThread ==
    /\ Does("fork")
    /\ Ready /\ ui.selected \in InitialThreads /\ Room
    /\ ~ui.loadingThreads /\ ~ui.loading /\ forkReady(ui)
    /\ Ask(fork_thread_async(ui.selected),
           [ui EXCEPT !.forking = ui.selected, !.loadingThreads = TRUE])

changeSelectedThreadLifecycle ==
    /\ Does("lifecycle")
    /\ ui.selected # None /\ ~mutationInFlight(ui) /\ ~ui.loadingThreads /\ ~ui.loading
    /\ Ask(IF ui.archived THEN restore_thread_async(ui.selected)
           ELSE archive_thread_async(ui.selected),
           [ui EXCEPT !.changing = ui.selected, !.loadingThreads = TRUE])

startThread ==
    /\ Does("start")
    /\ ~ui.archived /\ ~busy(ui) /\ Room
    /\ Ask(start_thread_async, [ui EXCEPT !.starting = TRUE])

acquireWriteAccess ==
    /\ Does("write")
    /\ Ready /\ ui.write \notin {"Checking", "Writable"}
    /\ Ask(acquire_write_async(ui.selected), [ui EXCEPT !.write = "Checking"])

releaseWriteAccess ==
    /\ Does("release")
    /\ ui.selected # None /\ ~ui.starting /\ ui.forking = None /\ ~turnInFlight(ui)
    /\ ui.write # "Idle"
    /\ Ask(release_write_async(ui.selected), [ui EXCEPT !.continuing = FALSE, !.write = "Idle"])

\* dispatchTurnStart and dispatchContinuation
Dispatches(u) ==
    /\ asked < MaxTurns
    /\ Ask(start_turn_async(u.selected, asked + 1),
           [setTurnState(u, "Starting", None) EXCEPT !.stopping = FALSE])

startTurn == Does("turn") /\ Ready /\ ui.write = "Writable" /\ Dispatches(ui)

continueTurn ==
    /\ Does("turn")
    /\ Ready /\ ui.interrupted
    /\ \/ ui.write = "Writable" /\ Dispatches(ui)
       \/ /\ ui.write = "Idle"
          /\ Ask(acquire_write_async(ui.selected),
                 [ui EXCEPT !.continuing = TRUE, !.write = "Checking"])

steerTurn ==
    /\ Does("control")
    /\ ui.selected # None /\ ~ui.archived /\ ui.changing = None
    /\ ui.turn = "Active" /\ ui.activeTurn # None /\ ~ui.steering /\ ~ui.stopping
    /\ ui.write = "Writable"
    /\ Ask(steer_turn_async(ui.selected, ui.activeTurn), [ui EXCEPT !.steering = TRUE])

interruptTurn ==
    /\ Does("control")
    /\ ui.selected # None /\ ~ui.archived /\ ui.changing = None /\ ~ui.starting
    /\ turnInFlight(ui) /\ ~ui.stopping
    /\ Ask(interrupt_turn_async(ui.selected, asked), [ui EXCEPT !.stopping = TRUE])

---------------------------------------------------------------------------
(* applyHistoryEvent of both controllers                                     *)

ConversationEvents ==
    {"ConversationUpdated", "ConversationError", "TurnSteered", "TurnSteerError", "TurnError",
     "TurnNotice", "ThreadWriteStateChanged", "ThreadRuntimeStateChanged"}

applyConversationEvent(u, e) ==
    CASE e.thread # u.selected -> u
      [] e.thread = u.selected /\ e.event = "ConversationUpdated" ->
            [u EXCEPT !.loading = FALSE, !.interrupted = e.interrupted,
                      !.continuing = @ /\ e.interrupted]
      [] e.thread = u.selected /\ e.event = "ConversationError" -> [u EXCEPT !.loading = FALSE]
      [] e.thread = u.selected /\ e.event \in {"TurnSteered", "TurnSteerError", "TurnError"} ->
            [u EXCEPT !.steering = FALSE]
      [] e.thread = u.selected /\ e.event = "TurnNotice" -> [u EXCEPT !.stopping = FALSE]
      [] e.thread = u.selected /\ e.event = "ThreadWriteStateChanged" ->
            [u EXCEPT !.write = e.status, !.continuing = @ /\ e.status = "Checking"]
      [] e.thread = u.selected /\ e.event = "ThreadRuntimeStateChanged" ->
            setTurnState(u, e.runtime, e.turn)

threadsUpdated(u, e) ==
    IF u.archived # (e.scope = "Archived") THEN u
    ELSE LET kept == IF u.selected \in e.page THEN u ELSE clearSelection(u)
         IN  finishThreadLoading(
                [(IF u.selected = None THEN u ELSE kept) EXCEPT
                    !.listed = e.page, !.changing = IF @ \in e.page THEN @ ELSE None])

\* lifecycle bug: a failed change is not taken for an answer
threadLifecycleError_ignored(u, e) == u

threadLifecycleError(u, e) ==
    IF e.thread = u.selected /\ e.thread = u.changing
    THEN [u EXCEPT !.changing = None, !.loadingThreads = FALSE, !.loading = FALSE]
    ELSE u

\* fork bug: a failed fork is not told apart from one that was never asked for
threadForkError_ignored(u, e) == u
threadForkError(u, e) == IF e.thread = u.forking THEN [u EXCEPT !.forking = None] ELSE u

threadForked(u, e) ==
    IF u.forking = None THEN u
    ELSE [adoptConversation(u, e.thread, e.interrupted) EXCEPT !.forking = None]

Applied(u, e) ==
    CASE e.event \in ConversationEvents -> applyConversationEvent(u, e)
      [] e.event = "ThreadsUpdated" -> threadsUpdated(u, e)
      [] e.event \in {"ThreadsRecovered", "ThreadsError"} ->
            IF u.archived = (e.scope = "Archived") THEN finishThreadLoading(u) ELSE u
      [] e.event = "ThreadStarted" ->
            [adoptConversation(u, e.thread, e.interrupted) EXCEPT !.starting = FALSE]
      [] e.event = "ThreadStartError" -> [u EXCEPT !.starting = FALSE]
      [] e.event = "ThreadForked" -> threadForked(u, e)
      [] e.event = "ThreadForkError" -> threadForkError(u, e)
      [] e.event = "ThreadLifecycleError" -> threadLifecycleError(u, e)

\* writing access that was asked for to continue the interrupted turn
Continues(u, v) ==
    /\ u.continuing /\ u.selected = v.selected /\ v.write = "Writable"
    /\ v.interrupted /\ ~v.archived /\ ~mutationInFlight(v)

applyHistoryEvent ==
    LET u == Applied(ui, Head(events))
    IN  /\ events # <<>> /\ events' = Tail(events)
        /\ IF Continues(ui, u) /\ gate = "Idle" /\ asked < MaxTurns /\ issued < MaxCommands
           THEN Dispatches(u)
           ELSE ui' = u /\ UNCHANGED <<pending, gate, asked, issued>>
        /\ UNCHANGED <<home, interrupted, work, following, phase, observer, polls, failures, others>>

---------------------------------------------------------------------------
(* The observer: updates                                                     *)

Emits(sequence) == events' = events \o sequence
Fails == failures < MaxFailures /\ failures' = failures + 1

\* the first part of the update under way that is left
Part ==
    CASE phase # "none" -> "turn"
      [] phase = "none" /\ work.scope # None -> "scope"
      [] phase = "none" /\ work.scope = None /\ work.watched # None -> "watch"
      [] phase = "none" /\ {work.scope, work.watched} = {None} /\ work.fork # None -> "fork"
      [] OTHER ->
            IF work.lifecycle # <<>> THEN "lifecycle"
            ELSE IF work.write # None THEN "write"
            ELSE IF work.start # None THEN "start"
            ELSE IF work.turn # None THEN "turn"
            ELSE IF work.controls # <<>> THEN "controls" ELSE "none"

TakeUpdate ==
    /\ Part = "none"
    /\ \/ following # EmptyUpdate /\ following' = EmptyUpdate
          /\ IF is_exclusive_operation_only(following)
             THEN work' = merge(following, pending) /\ pending' = EmptyUpdate
             ELSE work' = following /\ UNCHANGED pending
       \/ following = EmptyUpdate /\ pending # EmptyUpdate /\ work' = pending
          /\ pending' = EmptyUpdate /\ UNCHANGED following
    /\ UNCHANGED <<home, interrupted, gate, phase, observer, polls, events, ui, bounds>>

\* drive_operation while an operation is in flight
DeferCommands ==
    /\ Part # "none" /\ phase = "none" /\ pending # EmptyUpdate
    /\ following' = merge(following, pending) /\ pending' = EmptyUpdate
    /\ UNCHANGED <<home, interrupted, gate, work, phase, observer, polls, events, ui, bounds>>

Works(part, rest) ==
    /\ Part = part /\ work' = rest
    /\ UNCHANGED <<interrupted, pending, following, ui, asked, issued, others>>

set_thread_list_scope ==
    /\ Works("scope", [work EXCEPT !.scope = None])
    /\ IF scope = work.scope THEN UNCHANGED <<observer, polls>>
       ELSE /\ scope' = work.scope /\ watched' = None /\ rt' = reset /\ snapshot' = FALSE
            /\ page' = None /\ pageFails' = FALSE /\ read' = "unread"
    /\ UNCHANGED <<home, gate, phase, events, failures>>

watch ==
    /\ Works("watch", [work EXCEPT !.watched = None])
    /\ watched' = work.watched /\ rt' = reset /\ snapshot' = FALSE /\ read' = "unread"
    /\ UNCHANGED <<home, gate, phase, scope, page, pageFails, events, failures>>

---------------------------------------------------------------------------
(* Thread operations                                                         *)

\* a created thread is adopted with its writer and watched
Adopts(t) ==
    /\ home[t] = None /\ home' = [home EXCEPT ![t] = "Active"]
    /\ watched' = t /\ rt' = attach(t, "Idle", None) /\ snapshot' = FALSE
    /\ page' = None /\ pageFails' = FALSE /\ read' = "unread"
Granted(t) == <<thread_runtime_state(t, rt'), thread_write_state(t, "Writable")>>

\* a thread the app-server created although its answer was lost, or none
Lost == {home} \cup {[home EXCEPT ![t] = "Active"] : t \in {x \in Threads : home[x] = None}}

started(t) ==
    /\ Works("start", [work EXCEPT !.start = None])
    /\ scope = "Active" /\ Adopts(t)
    /\ gate' = "Idle" /\ Emits(<<thread_started(t)>> \o Granted(t))
    /\ UNCHANGED <<phase, scope, failures>>

start_fails ==
    /\ Works("start", [work EXCEPT !.start = None])
    /\ IF scope = "Archived" THEN UNCHANGED <<home, failures>> ELSE Fails /\ home' \in Lost
    /\ gate' = "Idle" /\ Emits(<<thread_start_error>>)
    /\ UNCHANGED <<phase, observer, polls>>

Forkable(t) == scope = "Active" /\ rt.conversation = t
               /\ (writer_matches(rt, t) => rt.runtime = "Idle")

forked(t) ==
    LET source == work.fork.thread
    IN  /\ Works("fork", [work EXCEPT !.fork = None])
        /\ Forkable(source) /\ Adopts(t)
        /\ gate' = "Idle" /\ Emits(<<thread_forked(t, FALSE)>> \o Granted(t))
        /\ UNCHANGED <<phase, scope, failures>>

\* a writer taken for the occasion is given back
fork_fails ==
    LET source == work.fork.thread
    IN  /\ Works("fork", [work EXCEPT !.fork = None])
        /\ IF Forkable(source) THEN Fails /\ home' \in Lost ELSE UNCHANGED <<home, failures>>
        /\ rt' = IF Forkable(source) /\ ~writer_matches(rt, source) THEN fail_stream(rt) ELSE rt
        /\ page' = None /\ pageFails' = FALSE
        /\ read' = IF Forkable(source) THEN "unread" ELSE read
        /\ gate' = "Idle" /\ Emits(<<thread_fork_error(source)>>)
        /\ UNCHANGED <<phase, scope, watched, snapshot>>

\* the events of a release; the projection is detached whoever holds the writer
Released(t) == <<thread_runtime_state(t, release_write(rt, t)), thread_write_state(t, "Idle")>>

lifecycle_changed ==
    LET request == Head(work.lifecycle)
        t == request.thread
        to == IF request.action = "Archive" THEN "Archived" ELSE "Active"
    IN  /\ Works("lifecycle", [work EXCEPT !.lifecycle = Tail(@)])
        /\ scope # to /\ home[t] = scope
        /\ home' = [home EXCEPT ![t] = to]
        /\ Emits(IF writer_matches(rt, t) THEN Released(t) ELSE <<>>)
        /\ page' = None /\ pageFails' = FALSE /\ read' = "unread"
        /\ IF watched = t THEN watched' = None /\ rt' = reset /\ snapshot' = FALSE
           ELSE UNCHANGED <<watched, rt, snapshot>>
        /\ UNCHANGED <<gate, phase, scope, failures>>

\* an answer that is lost may hide a change
lifecycle_fails ==
    LET request == Head(work.lifecycle)
        t == request.thread
        to == IF request.action = "Archive" THEN "Archived" ELSE "Active"
        released == scope # to /\ writer_matches(rt, t)
    IN  /\ Works("lifecycle", [work EXCEPT !.lifecycle = Tail(@)])
        /\ IF scope = to \/ home[t] # scope THEN UNCHANGED <<home, failures>>
           ELSE Fails /\ home' \in {home, [home EXCEPT ![t] = to]}
        /\ rt' = IF released THEN release_write(rt, t) ELSE rt
        /\ Emits((IF released THEN Released(t) ELSE <<>>) \o <<thread_lifecycle_error(t)>>)
        /\ UNCHANGED <<gate, phase, scope, watched, snapshot, polls>>

---------------------------------------------------------------------------
(* Writing access                                                            *)

\* What a writer that cannot be had is told as: another holds it, or any other error.
Refusals == {"Busy", "Unavailable"}

acquire_refused ==
    /\ Works("write", [work EXCEPT !.write = None])
    /\ work.write.kind = "AcquireWrite" /\ work.write.thread = watched
    /\ \/ /\ scope = "Archived" /\ Emits(<<thread_write_state(watched, "Unavailable")>>)
          /\ UNCHANGED <<rt, failures>>
       \/ /\ scope = "Active" /\ ~writer_matches(rt, watched) /\ Fails
          /\ rt' = shutdown_writer(rt)
          /\ \E status \in Refusals :
                Emits(<<thread_write_state(watched, "Checking"),
                        thread_write_state(watched, status)>>)
    /\ UNCHANGED <<home, gate, phase, scope, watched, snapshot, polls>>

acquired ==
    LET t == watched
        held == writer_matches(rt, t)
    IN  /\ Works("write", [work EXCEPT !.write = None])
        /\ work.write.kind = "AcquireWrite" /\ work.write.thread = t /\ scope = "Active"
        /\ rt' = IF held THEN rt ELSE attach(t, "Idle", None)
        /\ snapshot' = IF held THEN snapshot ELSE t \in interrupted
        /\ Emits((IF held THEN <<>>
                  ELSE <<thread_write_state(t, "Checking"), conversation_updated(t, snapshot')>>)
                 \o Granted(t))
        /\ UNCHANGED <<home, gate, phase, scope, watched, polls, failures>>

\* an acquisition for a thread that is not watched: nothing
acquire_skipped ==
    /\ Works("write", [work EXCEPT !.write = None])
    /\ work.write.kind = "AcquireWrite" /\ work.write.thread # watched
    /\ UNCHANGED <<home, gate, phase, observer, polls, events, failures>>

release ==
    /\ Works("write", [work EXCEPT !.write = None])
    /\ work.write.kind = "ReleaseWrite"
    /\ rt' = release_write(rt, work.write.thread) /\ Emits(Released(work.write.thread))
    /\ UNCHANGED <<home, gate, phase, scope, watched, snapshot, polls, failures>>

---------------------------------------------------------------------------
(* Turns                                                                     *)

Turn == work.turn.thread

\* the turn's thread is watched first; the controls of the update are dropped
RejectTurn ==
    /\ Works("turn", EmptyUpdate) /\ phase = "none"
    /\ ~(watched = Turn /\ writer_matches(rt, Turn))
    /\ watched' = Turn /\ rt' = detach(IF watched = Turn THEN rt ELSE reset)
    /\ read' = IF watched = Turn THEN read ELSE "unread"
    /\ snapshot' = IF watched = Turn THEN snapshot ELSE FALSE
    /\ gate' = "Idle"
    /\ Emits(<<thread_runtime_state(Turn, rt'), thread_write_state(Turn, "Unavailable"),
               turn_error(Turn)>>)
    /\ UNCHANGED <<home, phase, scope, page, pageFails, failures>>

BeginTurn ==
    /\ Works("turn", work) /\ phase = "none"
    /\ watched = Turn /\ writer_matches(rt, Turn)
    /\ phase' = "begins" /\ rt' = begin_turn(rt)
    /\ Emits(<<thread_runtime_state(Turn, rt')>>)
    /\ UNCHANGED <<home, gate, scope, watched, snapshot, polls, failures>>

\* apply_control: what each control is answered when the requests it makes succeed
Answer(w, c) ==
    CASE c.kind = "SteerTurn" ->
            IF Reaches(w, c) THEN <<turn_steered(c.thread)>> ELSE <<turn_steer_error(c.thread)>>
      [] c.kind = "InterruptTurn" ->
            IF Reaches(w, c) THEN <<>> ELSE <<turn_notice(c.thread)>>
Answers(w, controls) == FlattenSeq([i \in DOMAIN controls |-> Answer(w, controls[i])])

WithoutControls(u) == [u EXCEPT !.controls = <<>>]

\* the controls of the update, then those that came while the turn was begun
TurnBegins ==
    /\ phase = "begins" /\ phase' = "runs"
    /\ rt' = apply_event(rt, [event |-> "TurnStarted", turn |-> work.turn.turn])
    /\ Emits(<<thread_runtime_state(Turn, rt')>> \o Answers(rt', work.controls \o pending.controls))
    /\ work' = WithoutControls(work)
    /\ following' = merge(following, WithoutControls(pending)) /\ pending' = EmptyUpdate
    /\ UNCHANGED <<home, interrupted, gate, scope, watched, snapshot, polls, ui, bounds>>

ApplyTurnControls ==
    /\ phase = "runs" /\ pending # EmptyUpdate
    /\ Emits(Answers(rt, pending.controls))
    /\ following' = merge(following, WithoutControls(pending)) /\ pending' = EmptyUpdate
    /\ UNCHANGED <<home, interrupted, gate, work, phase, observer, polls, ui, bounds>>

EndTurn == /\ phase' = "none" /\ work' = EmptyUpdate /\ gate' = "Idle"
           /\ UNCHANGED <<home, pending, following, scope, watched, polls, ui, asked, issued, others>>

Failure(t) == <<thread_runtime_state(t, rt'), turn_error(t)>>

\* begin_turn or the stream fails: fail_stream
TurnFails ==
    /\ phase # "none" /\ Fails
    /\ rt' = fail_stream(rt) /\ EndTurn
    /\ \E status \in Refusals :
          Emits(<<thread_write_state(Turn, status)>> \o Failure(Turn))
    /\ interrupted' \in {interrupted, interrupted \cup {Turn}} /\ UNCHANGED snapshot

TurnCompletes ==
    /\ phase = "runs"
    /\ rt' = apply_event(rt, [event |-> "TurnCompleted", turn |-> work.turn.turn]) /\ EndTurn
    /\ interrupted' \in {interrupted \ {Turn}, interrupted \cup {Turn}}
    /\ snapshot' = (Turn \in interrupted')
    /\ Emits(<<thread_runtime_state(Turn, rt'), conversation_updated(Turn, snapshot')>>)
    /\ UNCHANGED failures

\* the controls of an update without a turn
apply_controls_idle ==
    /\ Works("controls", EmptyUpdate) /\ Emits(Answers(rt, work.controls))
    /\ UNCHANGED <<home, gate, phase, observer, polls, failures>>

---------------------------------------------------------------------------
(* Polls, the writer's stream and other clients                              *)

AtTop == Part = "none" /\ following = EmptyUpdate
Page == {t \in Threads : home[t] = scope}
PageIsDue == AtTop /\ (page # Page \/ pageFails)
ReadIsDue == AtTop /\ watched # None
             /\ (read # "read" \/ rt.conversation # watched \/ snapshot # (watched \in interrupted))

poll_threads ==
    /\ PageIsDue
    /\ page' = Page /\ pageFails' = FALSE
    /\ Emits(IF page # Page THEN <<threads_updated(scope, Page)>> ELSE <<threads_recovered(scope)>>)
    /\ UNCHANGED <<home, interrupted, commands, observer, read, ui, bounds>>

poll_threads_fails ==
    /\ PageIsDue /\ ~pageFails /\ Fails
    /\ pageFails' = TRUE /\ Emits(<<threads_error(scope)>>)
    /\ UNCHANGED <<home, interrupted, commands, observer, page, read, ui, asked, issued, others>>

\* the projection tells whether the snapshot is news
poll_conversation ==
    LET news == rt.conversation # watched \/ snapshot # (watched \in interrupted)
    IN  /\ ReadIsDue
        /\ read' = "read" /\ rt' = accept_snapshot(rt, watched)
        /\ snapshot' = (watched \in interrupted)
        /\ Emits(IF news THEN <<conversation_updated(watched, snapshot')>> ELSE <<>>)
        /\ UNCHANGED <<home, interrupted, commands, scope, watched, page, pageFails, ui, bounds>>

poll_conversation_fails ==
    /\ ReadIsDue /\ read = "unread" /\ Fails
    /\ read' = "failed" /\ Emits(<<conversation_error(watched)>>)
    /\ UNCHANGED <<home, interrupted, commands, observer, page, pageFails, ui, asked, issued, others>>

fail_writer_stream ==
    /\ IdleFailures /\ AtTop /\ pending = EmptyUpdate /\ rt.writer # None /\ Fails
    /\ rt' = fail_stream(rt)
    /\ \E status \in Refusals :
          Emits(<<thread_write_state(rt.writer, status), thread_runtime_state(rt.writer, rt')>>)
    /\ UNCHANGED <<home, interrupted, commands, scope, watched, snapshot, polls, ui, asked, issued,
                   others>>

OtherClientMoves(t) ==
    /\ others < MaxOthers /\ others' = others + 1
    /\ home[t] # None
    /\ home' = [home EXCEPT ![t] = CHOOSE s \in Scopes : s # home[t]]
    /\ UNCHANGED <<interrupted, commands, observer, polls, events, ui, asked, issued, failures>>

---------------------------------------------------------------------------
User ==
    \/ showArchivedThreads \/ forkSelectedThread \/ changeSelectedThreadLifecycle \/ startThread
    \/ acquireWriteAccess \/ releaseWriteAccess \/ startTurn \/ continueTurn \/ steerTurn
    \/ interruptTurn \/ \E t \in Threads : selectThread(t)

Worker ==
    \/ TakeUpdate \/ DeferCommands \/ set_thread_list_scope \/ watch
    \/ start_fails \/ fork_fails \/ lifecycle_changed \/ lifecycle_fails
    \/ acquire_refused \/ acquired \/ acquire_skipped \/ release
    \/ RejectTurn \/ BeginTurn \/ TurnBegins \/ ApplyTurnControls \/ TurnFails \/ TurnCompletes
    \/ apply_controls_idle
    \/ \E t \in Threads : started(t) \/ forked(t)

\* What keeps the worker at work.
IsBusy == {pending, work, following} # {EmptyUpdate} \/ phase # "none"

Polls == poll_threads \/ poll_threads_fails \/ poll_conversation \/ poll_conversation_fails

Step == \/ User \/ Worker \/ Polls \/ applyHistoryEvent \/ fail_writer_stream
        \/ \E t \in Threads : OtherClientMoves(t)

(* What the properties remember of the past.  `displaced`: a turn that was    *)
(* refused made the observer watch its thread again, the thread selected      *)
(* after it notwithstanding.  `overtaken`: a thread was selected while what    *)
(* an earlier selection of it asked for was still on its way, events of it or  *)
(* a request for its writer that the worker had begun to work off.            *)
OnItsWay(t) ==
    \/ \E i \in DOMAIN events : events[i].event \in ConversationEvents /\ events[i].thread = t
    \/ \E u \in {work, following} : u.write # None /\ u.write.thread = t
Remembers ==
    /\ displaced' = CASE Part = "turn" /\ watched' # watched -> TRUE
                      [] Part \in {"scope", "watch"} /\ work' # work -> FALSE
                      [] OTHER -> displaced /\ watched' = watched
    /\ overtaken' = IF ui'.selected = ui.selected THEN overtaken
                    ELSE events' = events /\ ui'.selected # None /\ OnItsWay(ui'.selected)

Next == Step /\ Remembers

Spec == Init /\ [][Next]_vars

---------------------------------------------------------------------------
\* Nothing is left to do on either side, but for the user.
Quiet ==
    ~IsBusy /\ events = <<>> /\ ~PageIsDue /\ ~ReadIsDue

(* Whatever the user asked for has been answered once all is quiet: no       *)
(* indicator is left over from a request whose answer was ignored, because   *)
(* it came after a page had cleared the selection or for another thread      *)
(* (applyHistoryEvent in both controllers).  Only a selection that a turn    *)
(* took back stays loading, and the writer asked for it stays unanswered.    *)
RequestsAreAnswered ==
    Quiet => /\ ~ui.loadingThreads /\ ~mutationInFlight(ui) /\ ~ui.steering /\ ~ui.stopping
             /\ ui.loading \/ ui.continuing \/ ui.write = "Checking" => displaced

(* Once all is quiet the controllers show what the observer watches: its     *)
(* scope, the list and, unless a turn took the selection back, the thread    *)
(* and whether its turn was interrupted.                                     *)
ShowsTheWatched ==
    Quiet => /\ ui.archived = (scope = "Archived") /\ ui.listed = Page
             /\ ui.selected # None /\ ~displaced =>
                    ui.selected = watched /\ ui.interrupted = (watched \in interrupted)

(* Once all is quiet the composer is writable exactly while the observer     *)
(* holds the writer of the selected thread, and it shows the turn state the  *)
(* observer has.  Events name their thread but not the selection they belong *)
(* to: after a page cleared the selection, the thread may be selected again  *)
(* with events of its former writer still on their way, and be shown with    *)
(* the writer it lost.  Of that, `overtaken`, and of a selection that a turn   *)
(* took back nothing is claimed.                                             *)
WritableIsHeld ==
    Quiet /\ ui.selected # None /\ ~overtaken /\ ~displaced =>
        /\ (ui.write = "Writable") = writer_matches(rt, ui.selected)
        /\ ui.turn = rt.runtime

(* While a thread is being archived or restored it stays selected: a failed  *)
(* change is only told to the selected thread                                *)
(* (codexhistorycontroller_events.cpp:165).                                  *)
LifecycleKeepsSelection == ui.changing \in {None, ui.selected}
=============================================================================
