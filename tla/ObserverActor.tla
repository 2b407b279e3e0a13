---------------------------- MODULE ObserverActor ----------------------------
(***************************************************************************)
(* The Codex history observer: client threads that call its C interface     *)
(* (observer/mod.rs), the bounded command channel, the gate that admits one *)
(* exclusive operation at a time, and the worker task (worker/actor.rs,     *)
(* operation.rs, state.rs, writer.rs) that drains commands into updates and *)
(* works them off, with the app-server's answers as choices of outcome.     *)
(*                                                                          *)
(* `stage` is the worker's await point.  In a driven stage an operation is  *)
(* in flight inside drive_operation and arrivals are merged into `driven`;  *)
(* what an operation changes becomes visible when it completes, since only  *)
(* the worker reads that state.  Timers are abstracted: a poll may be due   *)
(* whenever the loop looks.                                                 *)
(***************************************************************************)
EXTENDS WriterRuntime, FiniteSets

CONSTANTS Callers,        \* client threads using the handle
          Kinds,          \* kinds of command they issue
          InitialThreads, \* threads the app-server has at the start
          Capacity,       \* COMMAND_QUEUE_CAPACITY
          MaxCommands     \* bound on the commands issued

ASSUME CapacityAssumption == Capacity \in Nat \ {0}
ASSUME MaxCommandsAssumption == MaxCommands \in Nat
ASSUME ThreadsAssumption == InitialThreads \subseteq Threads

VARIABLES
    gate,       \* ObserverOperationGate
    callers,    \* per caller: a reserved command it has yet to send, or None
    queue,      \* the mpsc channel
    handle,     \* life of the WardCodexHistoryObserver
    cancelled,  \* CodexHistoryCancellation
    stage,      \* the worker's await point
    update,     \* the update being worked off: what is left of it
    following,  \* deferred by completed operations of this update
    driven,     \* deferred by the operation in flight
    pending,    \* deferred_update; EmptyUpdate is Option::None
    watched,    \* watched_thread
    scope,      \* thread_list_scope
    live,       \* WriterRuntime
    threads,    \* threads that exist, hence that a client can name
    delivered,  \* steers and interrupts sent to the app-server
    begun,      \* turns the app-server has begun
    selected,   \* the thread the client last selected, or was given
    asked,      \* turns accepted so far
    issued      \* commands issued so far

client == <<callers, selected, asked, issued>>
channel == <<queue, handle, cancelled>>
deferral == <<following, driven, pending>>
server == <<delivered, begun>>
view == <<watched, scope, live, threads, server>>
vars == <<gate, client, channel, stage, update, deferral, view>>

Operations == {"ThreadStart", "ThreadFork", "Turn"}
OperationOf(c) == CASE c.kind = "StartThread" -> "ThreadStart"
                    [] c.kind = "ForkThread" -> "ThreadFork"
                    [] c.kind = "StartTurn" -> "Turn"

DrivenStages == {"pollHistory", "pollConversation", "scope", "watch", "rename",
                 "fork", "lifecycle", "deselect", "write", "start",
                 "turnSelect", "turnBegin"}
Stages == DrivenStages \cup {"top", "drain", "turn", "turnRun", "turnDrain",
                             "finish", "exit", "stopped"}

TypeOK ==
    /\ gate \in Operations \cup {"Idle"}
    /\ callers \in [Callers -> Exclusive \cup {None}]
    /\ queue \in Seq(Command) /\ Len(queue) <= Capacity
    /\ handle \in {"open", "stopping", "joining", "destroyed"}
    /\ cancelled \in BOOLEAN
    /\ stage \in Stages
    /\ {update, following, driven, pending} \subseteq Updates
    /\ watched \in Threads \cup {None} /\ scope \in Scopes
    /\ live \in Runtimes
    /\ threads \subseteq Threads
    /\ delivered \subseteq Deliveries /\ begun \subseteq Turns
    /\ selected \in Threads \cup {None}
    /\ asked \in 0 .. MaxTurns /\ issued \in Nat

Init ==
    /\ gate = "Idle"
    /\ callers = [p \in Callers |-> None]
    /\ queue = <<>> /\ handle = "open" /\ cancelled = FALSE
    /\ stage = "top"
    /\ update = EmptyUpdate /\ following = EmptyUpdate
    /\ driven = EmptyUpdate /\ pending = EmptyUpdate
    /\ watched = None /\ scope = "Active" /\ live = reset
    /\ threads = InitialThreads /\ delivered = {} /\ begun = {}
    /\ selected = None /\ asked = 0 /\ issued = 0

-----------------------------------------------------------------------------
(* Clients.  They name threads that exist; turns and controls name the      *)
(* selected thread, as the interface asks.                                  *)
MayIssue(p, c) ==
    /\ handle = "open" /\ callers[p] = None
    /\ c.kind \in Kinds /\ issued < MaxCommands
    /\ "thread" \in DOMAIN c => c.thread \in threads
    /\ c \in StartTurn \cup TurnControl => c.thread = selected
    /\ c \in StartTurn => c.turn = asked + 1
    /\ c \in TurnControl => c.turn = asked

\* send_command; a refused try_send changes nothing
Send(p, c) ==
    /\ c \in Shared /\ MayIssue(p, c)
    /\ Len(queue) < Capacity
    /\ queue' = Append(queue, c)
    /\ issued' = issued + 1
    /\ selected' = CASE c \in Watch -> c.thread
                     [] c \in SetThreadListScope -> None
                     [] OTHER -> selected
    /\ UNCHANGED <<gate, callers, asked, handle, cancelled, stage, update,
                   deferral, view>>

\* gate bug: a store in place of the compare_exchange
Reserve_by_store(p, c) ==
    /\ c \in Exclusive /\ MayIssue(p, c)
    /\ gate' = OperationOf(c)
    /\ callers' = [callers EXCEPT ![p] = c]
    /\ issued' = issued + 1
    /\ UNCHANGED <<selected, asked, channel, stage, update, deferral, view>>

\* reserve_operation: the compare_exchange of send_exclusive_command
Reserve(p, c) ==
    /\ c \in Exclusive /\ MayIssue(p, c)
    /\ gate = "Idle"
    /\ gate' = OperationOf(c)
    /\ callers' = [callers EXCEPT ![p] = c]
    /\ issued' = issued + 1
    /\ UNCHANGED <<selected, asked, channel, stage, update, deferral, view>>

\* the try_send after it, which gives the reservation up when it fails
SendReserved(p) ==
    /\ callers[p] # None
    /\ callers' = [callers EXCEPT ![p] = None]
    /\ \/ /\ Len(queue) < Capacity
          /\ queue' = Append(queue, callers[p])
          /\ asked' = IF callers[p] \in StartTurn THEN callers[p].turn ELSE asked
          /\ UNCHANGED gate
       \/ /\ Len(queue) = Capacity
          /\ gate' = "Idle"
          /\ UNCHANGED <<queue, asked>>
    /\ UNCHANGED <<selected, issued, handle, cancelled, stage, update, deferral,
                   view>>

\* channel bug: Stop is sent beyond the capacity
SendStop_beyond_capacity ==
    /\ handle = "open" /\ \A p \in Callers : callers[p] = None
    /\ handle' = "stopping" /\ queue' = Append(queue, Stop)
    /\ UNCHANGED <<gate, client, cancelled, stage, update, deferral, view>>

\* Drop: a Stop that may not fit, the cancellation, the join
SendStop ==
    /\ handle = "open" /\ \A p \in Callers : callers[p] = None
    /\ handle' = "stopping"
    /\ queue' = IF Len(queue) < Capacity THEN Append(queue, Stop) ELSE queue
    /\ UNCHANGED <<gate, client, cancelled, stage, update, deferral, view>>

\* shutdown bug: Drop relies on the Stop command
Cancel_by_command_only ==
    /\ handle = "stopping" /\ handle' = "joining"
    /\ UNCHANGED <<gate, client, queue, cancelled, stage, update, deferral, view>>

Cancel ==
    /\ handle = "stopping"
    /\ handle' = "joining" /\ cancelled' = TRUE
    /\ UNCHANGED <<gate, client, queue, stage, update, deferral, view>>

Join ==
    /\ handle = "joining" /\ stage = "stopped"
    /\ handle' = "destroyed"
    /\ UNCHANGED <<gate, client, queue, cancelled, stage, update, deferral, view>>

-----------------------------------------------------------------------------
(* The worker's way through an update, in the order of run_observer.        *)

\* the first part of update u with something to do, given what is watched
NextStage(u, w, s) ==
    IF u.scope \notin {None, s} THEN "scope"
    ELSE IF u.watched # None THEN "watch"
    ELSE IF u.rename # None THEN "rename"
    ELSE IF u.fork # None THEN "fork"
    ELSE IF u.lifecycle # <<>> THEN "lifecycle"
    ELSE IF u.write # None
            /\ (u.write.kind = "AcquireWrite" => u.write.thread = w) THEN "write"
    ELSE IF u.start # None THEN "start"
    ELSE IF u.turn # None THEN IF u.turn.thread = w THEN "turn" ELSE "turnSelect"
    ELSE "finish"

\* drive_operation stops at once when it starts out cancelled
Enter(s) == stage' = IF cancelled /\ s \in DrivenStages THEN "exit" ELSE s

Proceed(u, w, s) == update' = u /\ Enter(NextStage(u, w, s))

\* an operation of the update completes; its deferred commands follow
Completes(s) == /\ stage = s
                /\ following' = merge(following, driven)
                /\ driven' = EmptyUpdate
                /\ UNCHANGED <<client, channel, pending, server>>

\* what the app-server may hand over with a subscription to thread t
Subscriptions(t) ==
    {attach(t, s, n) : s \in Statuses, n \in begun \cup {0, None}}

-----------------------------------------------------------------------------
(* The loop top and its select, biased towards cancellation, then commands. *)

StartPoll(s) ==
    /\ stage = "top" /\ is_empty(pending)
    /\ s \in {"pollHistory", "pollConversation"}
    /\ s = "pollConversation" => watched # None
    /\ Enter(s)
    /\ UNCHANGED <<gate, client, channel, update, deferral, view>>

\* deferral bug: what a poll deferred is forgotten
FinishPoll_forgetting ==
    /\ stage \in {"pollHistory", "pollConversation"}
    /\ stage' = "top" /\ driven' = EmptyUpdate
    /\ UNCHANGED <<gate, client, channel, update, following, pending, view>>

\* poll_threads and load_model_catalog leave this state alone; a conversation
\* poll that finds a change hands the snapshot to the projection
FinishPoll ==
    /\ stage \in {"pollHistory", "pollConversation"}
    /\ stage' = "top"
    /\ pending' = driven /\ driven' = EmptyUpdate
    /\ live' \in IF stage = "pollConversation"
                 THEN {live, accept_snapshot(live, watched)} ELSE {live}
    /\ UNCHANGED <<gate, client, channel, update, following, watched, scope,
                   threads, server>>

TakePending ==
    /\ stage = "top" /\ ~is_empty(pending)
    /\ pending' = EmptyUpdate
    /\ IF is_exclusive_operation_only(pending)
       THEN update' = pending /\ stage' = "drain"
       ELSE Proceed(pending, watched, scope)
    /\ UNCHANGED <<gate, client, channel, following, driven, view>>

\* the first command of a drain, and the ones try_recv finds after it
ReceiveCommand ==
    /\ \/ stage = "top" /\ is_empty(pending) /\ ~cancelled
       \/ stage = "drain"
    /\ queue # <<>> /\ Head(queue) # Stop
    /\ update' = merge_command(update, Head(queue))
    /\ queue' = Tail(queue)
    /\ stage' = "drain"
    /\ UNCHANGED <<gate, client, handle, cancelled, deferral, view>>

BeginUpdate ==
    /\ stage = "drain" /\ queue = <<>>
    /\ Proceed(update, watched, scope)
    /\ UNCHANGED <<gate, client, channel, deferral, view>>

\* stream events of a thread that is not watched are dropped
AcceptWriterEvent(e) ==
    /\ stage = "top" /\ is_empty(pending) /\ ~cancelled /\ queue = <<>>
    /\ live.writer # None
    /\ live' = IF live.writer = watched THEN apply_event(live, e) ELSE live
    /\ UNCHANGED <<gate, client, channel, stage, update, deferral, watched, scope,
                   threads, server>>

WriterStreamFails ==
    /\ stage = "top" /\ is_empty(pending) /\ ~cancelled /\ queue = <<>>
    /\ live.writer # None
    /\ live' = fail_stream(live)
    /\ UNCHANGED <<gate, client, channel, stage, update, deferral, watched, scope,
                   threads, server>>

LeaveLoop ==
    /\ \/ stage = "top" /\ is_empty(pending)
          /\ (cancelled \/ (queue # <<>> /\ Head(queue) = Stop))
       \/ stage = "drain" /\ queue # <<>> /\ Head(queue) = Stop
       \/ stage = "turnRun" /\ cancelled
       \/ stage \in {"turnRun", "turnDrain"} /\ queue # <<>> /\ Head(queue) = Stop
    /\ stage' = "exit"
    /\ UNCHANGED <<gate, client, channel, update, deferral, view>>

\* the end of run_observer: the gate opens, the writer's connection closes
Shutdown ==
    /\ stage = "exit"
    /\ stage' = "stopped"
    /\ gate' = "Idle" /\ live' = shutdown_writer(live)
    /\ UNCHANGED <<client, channel, update, deferral, watched, scope, threads,
                   server>>

-----------------------------------------------------------------------------
(* drive_operation while an operation is in flight.                         *)
DeferCommand ==
    /\ stage \in DrivenStages /\ ~cancelled
    /\ queue # <<>> /\ Head(queue) # Stop
    /\ driven' = merge_command(driven, Head(queue))
    /\ queue' = Tail(queue)
    /\ UNCHANGED <<gate, client, handle, cancelled, stage, update, following,
                   pending, view>>

\* Stop or the cancellation: the operation is awaited, the worker leaves
StopOperation ==
    /\ stage \in DrivenStages
    /\ cancelled \/ (queue # <<>> /\ Head(queue) = Stop)
    /\ cancelled' = TRUE /\ stage' = "exit"
    /\ UNCHANGED <<gate, client, queue, handle, update, deferral, view>>

-----------------------------------------------------------------------------
(* Operations of an update that are not exclusive.                          *)
\* selection bug: the change of scope keeps the writer
SetScope_keeping_writer ==
    /\ Completes("scope")
    /\ scope' = update.scope /\ watched' = None
    /\ Proceed([update EXCEPT !.scope = None], None, update.scope)
    /\ UNCHANGED <<gate, live, threads>>

SetScope ==
    /\ Completes("scope")
    /\ scope' = update.scope /\ watched' = None /\ live' = reset
    /\ Proceed([update EXCEPT !.scope = None], None, update.scope)
    /\ UNCHANGED <<gate, threads>>

WatchThread ==
    /\ Completes("watch")
    /\ watched' = update.watched /\ live' = reset
    /\ Proceed([update EXCEPT !.watched = None], update.watched, scope)
    /\ UNCHANGED <<gate, scope, threads>>

rename_thread ==
    /\ Completes("rename")
    /\ Proceed([update EXCEPT !.rename = None], watched, scope)
    /\ UNCHANGED <<gate, watched, scope, live, threads>>

\* change_thread_lifecycle: a writer of the thread is released before the
\* request; when it succeeds on the watched thread nothing is watched any more
change_thread_lifecycle ==
    LET r == Head(update.lifecycle)
        rest == [update EXCEPT !.lifecycle = Tail(@)]
        valid == <<scope, r.action>> \in
                    {<<"Active", "Archive">>, <<"Archived", "Restore">>}
    IN  /\ Completes("lifecycle")
        /\ live' = IF valid /\ writer_matches(live, r.thread)
                   THEN release_write(live, r.thread) ELSE live
        /\ \/ Proceed(rest, watched, scope)
           \/ /\ valid /\ watched = r.thread
              /\ update' = rest
              /\ Enter("deselect")
        /\ UNCHANGED <<gate, watched, scope, threads>>

\* selection bug: the projection of a thread that is gone is kept
Deselect_keeping_projection ==
    /\ Completes("deselect") /\ watched' = None
    /\ Proceed(update, None, scope)
    /\ UNCHANGED <<gate, scope, live, threads>>

Deselect ==
    /\ Completes("deselect")
    /\ watched' = None /\ live' = reset
    /\ Proceed(update, None, scope)
    /\ UNCHANGED <<gate, scope, threads>>

\* acquire_write and release_write
ChangeWriteAccess ==
    LET t == update.write.thread
    IN  /\ Completes("write")
        /\ live' \in
             IF update.write.kind = "ReleaseWrite" THEN {release_write(live, t)}
             ELSE IF scope = "Archived" \/ writer_matches(live, t) THEN {live}
             ELSE Subscriptions(t) \cup {shutdown_writer(live)}
        /\ Proceed([update EXCEPT !.write = None], watched, scope)
        /\ UNCHANGED <<gate, watched, scope, threads>>

-----------------------------------------------------------------------------
(* The exclusive operations.  The gate is released when they complete.      *)

\* a created thread is adopted with its writer and becomes the watched one
Adopt(t) ==
    /\ t \in Threads \ threads
    /\ threads' = threads \cup {t}
    /\ live' \in Subscriptions(t)
    /\ watched' = t

StartedThread(t) ==
    /\ stage = "start" /\ scope = "Active"
    /\ following' = merge(following, driven) /\ driven' = EmptyUpdate
    /\ gate' = "Idle"
    /\ Adopt(t) /\ selected' = t
    /\ Proceed([update EXCEPT !.write = None, !.start = None], t, scope)
    /\ UNCHANGED <<callers, asked, issued, channel, pending, scope, server>>

ThreadStartFails ==
    /\ Completes("start")
    /\ gate' = "Idle"
    /\ Proceed([update EXCEPT !.write = None, !.start = None], watched, scope)
    /\ UNCHANGED <<watched, scope, live, threads>>

\* fork_thread needs the conversation loaded and its writer idle, and takes
\* the writer for the occasion when the observer does not hold it
Forkable == scope = "Active" /\ live.conversation = update.fork.thread

ForkedThread(t) ==
    /\ stage = "fork" /\ Forkable
    /\ writer_matches(live, update.fork.thread) => live.runtime = "Idle"
    /\ following' = merge(following, driven) /\ driven' = EmptyUpdate
    /\ gate' = "Idle"
    /\ Adopt(t) /\ selected' = t
    /\ Proceed([update EXCEPT !.fork = None], t, scope)
    /\ UNCHANGED <<callers, asked, issued, channel, pending, scope, server>>

\* a writer taken for the occasion is given back, unless the failure was the
\* cancellation
ThreadForkFails ==
    /\ Completes("fork")
    /\ gate' = "Idle"
    /\ live' \in
         IF ~Forkable \/ writer_matches(live, update.fork.thread) THEN {live}
         ELSE {fail_stream(live)} \cup
              {v \in {shutdown_writer(live), attach(live.conversation, "Idle", None)} :
                  cancelled}
    /\ Proceed([update EXCEPT !.fork = None], watched, scope)
    /\ UNCHANGED <<watched, scope, threads>>

SelectTurnThread ==
    /\ Completes("turnSelect")
    /\ watched' = update.turn.thread /\ live' = reset
    /\ stage' = "turn"
    /\ UNCHANGED <<gate, update, scope, threads>>

\* gate bug: run_turn's completion does not release the gate
EndTurn_without_release ==
    /\ following' = merge(following, driven) /\ driven' = EmptyUpdate
    /\ update' = EmptyUpdate /\ stage' = "finish"
    /\ UNCHANGED <<gate, client, channel, pending, watched, scope, threads, delivered>>

\* run_turn returns: controls that came with the update went to the turn
EndTurn ==
    /\ gate' = "Idle"
    /\ following' = merge(following, driven) /\ driven' = EmptyUpdate
    /\ update' = EmptyUpdate /\ stage' = "finish"
    /\ UNCHANGED <<client, channel, pending, watched, scope, threads, delivered>>

RejectTurn ==
    /\ stage = "turn" /\ ~writer_matches(live, update.turn.thread)
    /\ live' = detach(live)
    /\ EndTurn /\ UNCHANGED begun

\* turn bug: the writer is not checked to be the one of the turn's thread
BeginTurn_unchecked ==
    /\ stage = "turn" /\ live' = begin_turn(live) /\ Enter("turnBegin")
    /\ UNCHANGED <<gate, client, channel, update, deferral, watched, scope,
                   threads, server>>

BeginTurn ==
    /\ stage = "turn" /\ writer_matches(live, update.turn.thread)
    /\ live' = begin_turn(live)
    /\ Enter("turnBegin")
    /\ UNCHANGED <<gate, client, channel, update, deferral, watched, scope,
                   threads, server>>

\* the answer may be lost after the app-server has begun the turn
TurnFailsToBegin ==
    /\ stage = "turnBegin"
    /\ live' = IF cancelled THEN live ELSE fail_stream(live)
    /\ begun' \in {begun, begun \cup {update.turn.turn}}
    /\ EndTurn

\* the started event, then the controls of the update and those that arrived
\* while the request was in flight
TurnBegins ==
    /\ stage = "turnBegin"
    /\ live' = apply_event(live, [event |-> "TurnStarted", turn |-> update.turn.turn])
    /\ begun' = begun \cup {update.turn.turn}
    /\ delivered' = delivered \cup apply_controls(live', update.controls \o driven.controls)
    /\ update' = [update EXCEPT !.controls = <<>>]
    /\ driven' = [driven EXCEPT !.controls = <<>>]
    /\ stage' = "turnRun"
    /\ UNCHANGED <<gate, client, channel, following, pending, watched, scope, threads>>

\* run_turn's loop drains commands: controls are applied, the rest deferred
ReceiveTurnCommand ==
    /\ (stage = "turnRun" /\ ~cancelled) \/ stage = "turnDrain"
    /\ queue # <<>> /\ Head(queue) # Stop
    /\ driven' = merge_command(driven, Head(queue))
    /\ queue' = Tail(queue)
    /\ stage' = "turnDrain"
    /\ UNCHANGED <<gate, client, handle, cancelled, update, following, pending, view>>

ApplyTurnControls ==
    /\ stage = "turnDrain" /\ queue = <<>>
    /\ delivered' = delivered \cup apply_controls(live, driven.controls)
    /\ driven' = [driven EXCEPT !.controls = <<>>]
    /\ stage' = "turnRun"
    /\ UNCHANGED <<gate, client, channel, update, following, pending, watched,
                   scope, live, threads, begun>>

Streaming == stage = "turnRun" /\ ~cancelled /\ queue = <<>>
Completion == [event |-> "TurnCompleted", turn |-> update.turn.turn]

AcceptTurnEvent(e) ==
    /\ Streaming /\ e # Completion
    /\ live' = apply_event(live, e)
    /\ UNCHANGED <<gate, client, channel, stage, update, deferral, watched, scope,
                   threads, server>>

TurnCompletes ==
    /\ Streaming
    /\ live' = apply_event(live, Completion)
    /\ EndTurn /\ UNCHANGED begun

TurnStreamFails ==
    /\ Streaming
    /\ live' = fail_stream(live)
    /\ EndTurn /\ UNCHANGED begun

\* the end of an update: controls without a turn to go to are applied now
FinishUpdate ==
    /\ stage = "finish"
    /\ delivered' = delivered \cup apply_controls(live, update.controls)
    /\ update' = EmptyUpdate
    /\ pending' = following /\ following' = EmptyUpdate
    /\ stage' = "top"
    /\ UNCHANGED <<gate, client, channel, driven, watched, scope, live, threads,
                   begun>>

-----------------------------------------------------------------------------
\* turn events name a turn begun for this observer, or another one (0)
Events == StatusChanged \cup TurnEvent(begun \cup {0})

ClientNext == \/ \E p \in Callers, c \in Command : Send(p, c) \/ Reserve(p, c)
              \/ \E p \in Callers : SendReserved(p)
              \/ SendStop \/ Cancel \/ Join

\* what the worker does of itself, the answers to its requests included
OperationCompletes ==
    \/ FinishPoll \/ SetScope \/ WatchThread \/ rename_thread
    \/ change_thread_lifecycle \/ Deselect \/ ChangeWriteAccess
    \/ ThreadStartFails \/ ThreadForkFails \/ SelectTurnThread
    \/ TurnFailsToBegin \/ TurnBegins
    \/ \E t \in Threads : StartedThread(t) \/ ForkedThread(t)
WorkerStep ==
    \/ OperationCompletes \/ TakePending \/ BeginUpdate \/ LeaveLoop \/ Shutdown
    \/ DeferCommand \/ StopOperation \/ RejectTurn \/ BeginTurn
    \/ ReceiveTurnCommand \/ ApplyTurnControls \/ FinishUpdate
TurnEnds == TurnCompletes \/ TurnStreamFails
StreamNext == \/ WriterStreamFails
              \/ \E e \in Events : AcceptWriterEvent(e) \/ AcceptTurnEvent(e)

WorkerNext == \/ WorkerStep \/ ReceiveCommand \/ TurnEnds \/ StreamNext
              \/ \E s \in DrivenStages : StartPoll(s)

\* the handle is gone: nothing is left to do
Terminated == handle = "destroyed" /\ UNCHANGED vars

Next == ClientNext \/ WorkerNext \/ Terminated

Spec == Init /\ [][Next]_vars

(* The worker thread runs: a step it can take it takes, and every request it *)
(* awaits completes, by answer, error, timeout or cancellation.  The select  *)
(* reaches the channel again and again between two polls, whose timers are   *)
(* at least half a second apart.  A client thread inside a C call goes on.   *)
(* Nobody is bound to issue a command, and no turn is bound to end.          *)
Fairness == /\ WF_vars(WorkerStep)
            /\ SF_vars(ReceiveCommand)
            /\ \A p \in Callers : WF_vars(SendReserved(p))
            /\ WF_vars(Cancel) /\ WF_vars(Join)

LiveSpec == Spec /\ Fairness

\* an app-server that completes its turns, or closes the stream
TurnsEnd == WF_vars(TurnEnds)

-----------------------------------------------------------------------------
(* The exclusive requests in flight, by where they are: with the client that *)
(* reserved, in the channel, in the update being worked off, or deferred.    *)
InFlight ==
    {<<"caller", p, callers[p]>> : p \in {x \in Callers : callers[x] # None}}
    \cup {<<"queue", i, queue[i]>> : i \in {j \in DOMAIN queue : queue[j] \in Exclusive}}
    \cup {<<"update", None, r>> : r \in Requests(update)}
    \cup {<<"following", None, r>> : r \in Requests(following)}
    \cup {<<"driven", None, r>> : r \in Requests(driven)}
    \cup {<<"pending", None, r>> : r \in Requests(pending)}

(* The gate tells the truth until the worker is gone: idle means that no     *)
(* exclusive request is left anywhere between the clients and the worker;    *)
(* held, that there is exactly one, of the kind the gate names.  Releasing   *)
(* early would let merge, which keeps the first of two requests, lose one;   *)
(* losing the request would leave the gate shut for good                     *)
(* (send_exclusive_command, finish_exclusive_operation, run_observer).       *)
GateHoldsOneRequest ==
    stage # "stopped" =>
        IF gate = "Idle" THEN InFlight = {}
        ELSE \E x \in InFlight : InFlight = {x} /\ OperationOf(x[3]) = gate

(* The writer and the projection always belong to the watched thread.  The   *)
(* loop drops the stream events of any other thread (actor.rs), so a writer  *)
(* that outlived its selection would be held, and never heard of again.      *)
WriterIsWatched ==
    stage # "stopped" => {live.writer, live.conversation} \subseteq {None, watched}

(* Without a writer there is no stream to end a turn, so the projection must *)
(* not show one, nor an idle thread: every path that gives the writer up     *)
(* detaches the projection too, except the shutdown of the worker.           *)
NoTurnWithoutWriter ==
    stage # "stopped" /\ live.writer = None => live = detach(live)

(* While archived history is shown no writer is held, whichever commands     *)
(* were coalesced with the change of scope and deferred around it.           *)
ArchivedIsReadOnly == scope = "Archived" => live.writer = None

(* A turn in flight keeps the thread it was asked for watched and its writer *)
(* held, whatever commands arrive meanwhile; they wait for it.               *)
TurnKeepsItsThread ==
    stage \in {"turnBegin", "turnRun", "turnDrain"} =>
        update.turn.thread = watched /\ live.writer = watched

(* A handle that is dropped is destroyed: the worker leaves whatever it is   *)
(* doing, a turn that never ends included, even when the Stop command did    *)
(* not fit into the channel.                                                 *)
DropReturns == handle = "stopping" ~> handle = "destroyed"

(* The gate opens again, if turns end: no path through an exclusive operation *)
(* forgets to release it.                                                     *)
GateReopens == TurnsEnd => (gate # "Idle" ~> gate = "Idle")

-----------------------------------------------------------------------------
(* What the documentation of the C interface says and the worker does not do. *)

(* "Selects the persisted thread observed" (mod.rs): once every command is    *)
(* worked off, the observer watches the thread selected last.                 *)
Settled == /\ stage = "top" /\ queue = <<>> /\ is_empty(pending)
           /\ \A p \in Callers : callers[p] = None
LastSelectionWatched == Settled /\ selected # None => watched = selected

(* "Requests interruption of the selected thread's active Codex turn": an     *)
(* interrupt issued for a turn that had begun never stops a later one.        *)
InterruptHitsItsTurn ==
    \A d \in delivered :
        d.kind = "InterruptTurn" /\ d.issuedAt \in begun => d.turn <= d.issuedAt
=============================================================================
