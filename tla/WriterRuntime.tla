---------------------------- MODULE WriterRuntime ----------------------------
(***************************************************************************)
(* The writer an observer holds and the live projection of its thread       *)
(* (worker/writer.rs, live/mod.rs), as a record and the operations on it.   *)
(*   writer        the thread the CodexThreadWriter holds, or None          *)
(*   conversation  the thread whose snapshot the projection holds, or None  *)
(*   runtime       LiveRuntimeState, the active turn kept in liveTurn       *)
(*   liveTurn      LiveThreadProjection.live_turn_id: the number of a turn  *)
(*                 this observer asked for, 0 for any other turn, or None   *)
(* The turns, items and forkable turns of the snapshot are left out.        *)
(***************************************************************************)
EXTENDS CommandUpdate

\* ThreadRuntimeStatus as the app-server reports it
Statuses == {"NotLoaded", "Idle", "Active", "SystemError", "Unknown"}
LiveRuntimeStates ==
    {"Detached", "Starting", "Idle", "Active", "SystemError", "Unknown"}
LiveTurns == 0 .. MaxTurns

Runtimes == [writer : Threads \cup {None}, conversation : Threads \cup {None},
             runtime : LiveRuntimeStates, liveTurn : LiveTurns \cup {None}]

\* WriterRuntime::default, and what WriterRuntime::reset leaves behind
reset == [writer |-> None, conversation |-> None, runtime |-> "Detached",
          liveTurn |-> None]

writer_matches(w, thread) == w.writer = thread

runtime_from_status(status) == IF status = "NotLoaded" THEN "Detached" ELSE status

\* A subscription brings the thread, its status and its turn in progress.
attach(thread, status, turn) ==
    [writer |-> thread, conversation |-> thread,
     runtime |-> runtime_from_status(status),
     liveTurn |-> IF status = "Active" THEN turn ELSE None]

detach(w) == [w EXCEPT !.runtime = "Detached", !.liveTurn = None]
shutdown_writer(w) == [w EXCEPT !.writer = None]
begin_turn(w) == [w EXCEPT !.runtime = "Starting", !.liveTurn = None]
\* stream bug: the projection keeps its turn
fail_stream_attached(w) == shutdown_writer(w)
fail_stream(w) == shutdown_writer(detach(w))
accept_snapshot(w, thread) == [w EXCEPT !.conversation = thread]

release_write(w, thread) ==
    detach(IF writer_matches(w, thread) THEN shutdown_writer(w) ELSE w)

(* Events of the subscribed thread that move its runtime state.             *)
StatusChanged == [event : {"ThreadStatusChanged"}, status : Statuses]
TurnEvent(turns) == [event : {"TurnStarted", "TurnCompleted"}, turn : turns]

apply_event(w, e) ==
    CASE e.event = "ThreadStatusChanged" ->
            [w EXCEPT !.runtime = runtime_from_status(e.status),
                      !.liveTurn = IF e.status \in {"NotLoaded", "Idle"}
                                   THEN None ELSE @]
      [] e.event = "TurnStarted" ->
            [w EXCEPT !.runtime = "Active", !.liveTurn = e.turn]
      [] e.event = "TurnCompleted" ->
            [w EXCEPT !.runtime = IF @ = "SystemError" THEN @ ELSE "Idle",
                      !.liveTurn = None]

(* apply_control: the steer and interrupt requests that reach the app-server, *)
(* with the turn they name and the turn in effect when they were issued.      *)
Reaches(w, c) == /\ c \in TurnControl
                 /\ w.runtime = "Active" /\ w.liveTurn # None
                 /\ writer_matches(w, c.thread)
                 /\ c.kind = "SteerTurn" => w.liveTurn = c.turn

Deliveries ==
    [kind : {"SteerTurn", "InterruptTurn"}, issuedAt : LiveTurns, turn : LiveTurns]

apply_controls(w, controls) ==
    {[kind |-> c.kind, issuedAt |-> c.turn, turn |-> w.liveTurn] :
        c \in {controls[i] : i \in {j \in DOMAIN controls : Reaches(w, controls[j])}}}
=============================================================================
