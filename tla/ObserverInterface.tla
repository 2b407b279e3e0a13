--------------------------- MODULE ObserverInterface ---------------------------
(***************************************************************************)
(* The C interface of a Codex history observer: the commands its functions  *)
(* enqueue (observer/mod.rs) and the events its sink emits                  *)
(* (observer/events/mod.rs).  A function first checks its arguments, then   *)
(* reserves the observer's one exclusive operation where its command needs  *)
(* it, then enqueues; it is refused without an effect when any of the three *)
(* fails.  Only the reservation is kept here: the application passes valid  *)
(* arguments and never fills the queue.                                     *)
(***************************************************************************)
EXTENDS WriterRuntime

\* What the gate holds: ObserverOperation
Operations == {"Idle", "ThreadStart", "ThreadFork", "Turn"}

OperationOf(command) ==
    CASE command \in StartThread -> "ThreadStart"
      [] command \in ForkThread -> "ThreadFork"
      [] command \in StartTurn -> "Turn"
      [] OTHER -> "Idle"

\* Whether a function accepts its command while the gate holds `active`.
Accepts(active, command) == OperationOf(command) = "Idle" \/ active = "Idle"

\* What the gate holds once the command is enqueued.
Reserved(active, command) ==
    IF OperationOf(command) = "Idle" THEN active ELSE OperationOf(command)

---------------------------------------------------------------------------
(* Commands, one operator per function                                      *)

watch_async(t) == [kind |-> "Watch", thread |-> t]
show_archived_async(archived) ==
    [kind |-> "SetThreadListScope", scope |-> IF archived THEN "Archived" ELSE "Active"]
acquire_write_async(t) == [kind |-> "AcquireWrite", thread |-> t]
release_write_async(t) == [kind |-> "ReleaseWrite", thread |-> t]
fork_thread_async(t) == [kind |-> "ForkThread", thread |-> t]
archive_thread_async(t) ==
    [kind |-> "ChangeThreadLifecycle", thread |-> t, action |-> "Archive"]
restore_thread_async(t) ==
    [kind |-> "ChangeThreadLifecycle", thread |-> t, action |-> "Restore"]
start_thread_async == [kind |-> "StartThread"]
start_turn_async(t, n) == [kind |-> "StartTurn", thread |-> t, turn |-> n]
continue_turn_async(t, n) == [kind |-> "StartTurn", thread |-> t, turn |-> n]
steer_turn_async(t, n) == [kind |-> "SteerTurn", thread |-> t, turn |-> n]
interrupt_turn_async(t, n) == [kind |-> "InterruptTurn", thread |-> t, turn |-> n]

---------------------------------------------------------------------------
(* Events, one operator per kind                                            *)

WriteStatuses == {"Idle", "Checking", "Writable", "Busy", "Unavailable"}

\* A page or its failure is tagged with the scope it was read in.
threads_updated(scope, page) ==
    [event |-> "ThreadsUpdated", scope |-> scope, page |-> page]
threads_recovered(scope) == [event |-> "ThreadsRecovered", scope |-> scope]
threads_error(scope) == [event |-> "ThreadsError", scope |-> scope]
\* A conversation tells whether its latest turn was interrupted.
conversation_updated(t, interrupted) ==
    [event |-> "ConversationUpdated", thread |-> t, interrupted |-> interrupted]
conversation_error(t) == [event |-> "ConversationError", thread |-> t]
thread_started(t) == [event |-> "ThreadStarted", thread |-> t, interrupted |-> FALSE]
thread_start_error == [event |-> "ThreadStartError"]
thread_forked(t, interrupted) ==
    [event |-> "ThreadForked", thread |-> t, interrupted |-> interrupted]
thread_fork_error(t) == [event |-> "ThreadForkError", thread |-> t]
thread_lifecycle_error(t) == [event |-> "ThreadLifecycleError", thread |-> t]
thread_write_state(t, status) ==
    [event |-> "ThreadWriteStateChanged", thread |-> t, status |-> status]
\* Only an active runtime tells its turn.
thread_runtime_state(t, w) ==
    [event |-> "ThreadRuntimeStateChanged", thread |-> t, runtime |-> w.runtime,
     turn |-> IF w.runtime = "Active" THEN w.liveTurn ELSE None]
turn_error(t) == [event |-> "TurnError", thread |-> t]
turn_notice(t) == [event |-> "TurnNotice", thread |-> t]
turn_steered(t) == [event |-> "TurnSteered", thread |-> t]
turn_steer_error(t) == [event |-> "TurnSteerError", thread |-> t]

\* Events by the fields they carry.
Events ==
    [event : {"ThreadsUpdated"}, scope : Scopes, page : SUBSET Threads]
      \cup [event : {"ThreadsRecovered", "ThreadsError"}, scope : Scopes]
      \cup [event : {"ConversationUpdated", "ThreadStarted", "ThreadForked"},
            thread : Threads, interrupted : BOOLEAN]
      \cup [event : {"ConversationError", "ThreadForkError", "ThreadLifecycleError", "TurnError",
                     "TurnNotice", "TurnSteered", "TurnSteerError"}, thread : Threads]
      \cup [event : {"ThreadStartError"}]
      \cup [event : {"ThreadWriteStateChanged"}, thread : Threads, status : WriteStatuses]
      \cup [event : {"ThreadRuntimeStateChanged"}, thread : Threads,
            runtime : LiveRuntimeStates, turn : LiveTurns \cup {None}]
=============================================================================
