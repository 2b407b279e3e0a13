---------------------------- MODULE HistorySession ----------------------------
(***************************************************************************)
(* Polling one persisted thread (CodexHistorySession and ThreadTracker in   *)
(* history.rs): complete reads, incremental reads of the active turn by     *)
(* cursor and page, the fallback from one to the other, one retry through a *)
(* new connection, and cancellation.  Meanwhile other processes append to   *)
(* the thread, revise its last turn and roll it back.                       *)
(*                                                                          *)
(* A turn is its id and its revision.  `op` is the poll in progress, with   *)
(* the request it awaits; each request sees the thread as it is when the    *)
(* app-server answers.                                                      *)
(***************************************************************************)
EXTENDS Integers, Sequences, SequencesExt

CONSTANTS Threads,
          PageSize,    \* turns in a page of thread/turns/list
          MaxTurns,    \* bound on the turns ever begun
          MaxRevision, \* bound on the revisions of a turn
          MaxFailures, \* bound on failed requests
          None

PageAssumption == PageSize \in Nat \ {0}
BoundsAssumption ==
    MaxTurns \in Nat /\ MaxRevision \in Nat /\ MaxFailures \in Nat
NoneAssumption == None \notin 1 .. MaxTurns

VARIABLES
    persisted,   \* per thread: its turns, as the app-server would read them
    begun,       \* turns ever begun
    previous,    \* ThreadTracker::previous
    cursor,      \* ThreadTracker::active_turn_cursor
    unsupported, \* thread_turns_list_unsupported
    cancelled,   \* CodexHistoryCancellation
    op,          \* the poll in progress
    failures,    \* requests that have failed
    last,        \* how the last poll ended
    view,        \* the thread as rendered by the caller
    witnessed    \* what the polled thread has been since the poll began

server == <<persisted, begun>>
tracker == <<previous, cursor, unsupported>>
vars == <<server, tracker, cancelled, op, failures, last, view, witnessed>>

Ids == 1 .. MaxTurns
Turn == [id : Ids, revision : 0 .. MaxRevision]
Snapshot == [thread : Threads, turns : Seq(Turn)]
\* What a poll awaits: the complete thread, the latest turn, a page from the
\* cursor on, or a new connection.
Idle == [step |-> "idle", thread |-> None, active |-> FALSE, retried |-> FALSE,
         read |-> <<>>, from |-> None]

TypeOK ==
    /\ persisted \in [Threads -> Seq(Turn)] /\ begun \in 0 .. MaxTurns
    /\ previous \in Snapshot \cup {None} /\ view \in Snapshot \cup {None}
    /\ cursor \in Ids \cup {None} /\ unsupported \in BOOLEAN
    /\ cancelled \in BOOLEAN /\ failures \in 0 .. MaxFailures
    /\ op \in [step : {"idle", "read", "latest", "pages", "reconnect"},
               thread : Threads \cup {None}, active : BOOLEAN, retried : BOOLEAN,
               read : Seq(Turn), from : Ids \cup {None}]
    /\ last \in {"none", "ok", "error"}
    /\ witnessed \subseteq Seq(Turn)

Init ==
    /\ persisted = [thread \in Threads |-> <<>>] /\ begun = 0
    /\ previous = None /\ cursor = None /\ unsupported = FALSE
    /\ cancelled = FALSE /\ op = Idle /\ failures = 0
    /\ last = "none" /\ view = None /\ witnessed = {}

---------------------------------------------------------------------------
(* Other processes                                                          *)

Persist(thread, turns) ==
    /\ persisted' = [persisted EXCEPT ![thread] = turns]
    /\ witnessed' = IF op.thread = thread THEN witnessed \cup {turns} ELSE witnessed
    /\ UNCHANGED <<tracker, cancelled, op, failures, last, view>>
TurnBegins(thread) ==
    /\ begun < MaxTurns /\ begun' = begun + 1
    /\ Persist(thread, Append(persisted[thread], [id |-> begun + 1, revision |-> 0]))
\* Only the last turn of a thread changes.
TurnProgresses(thread) ==
    LET turns == persisted[thread]
    IN  /\ turns # <<>> /\ turns[Len(turns)].revision < MaxRevision
        /\ Persist(thread, [turns EXCEPT ![Len(turns)].revision = @ + 1])
        /\ UNCHANGED begun
Rollback(thread) ==
    /\ persisted[thread] # <<>> /\ Persist(thread, Front(persisted[thread]))
    /\ UNCHANGED begun

---------------------------------------------------------------------------
(* The tracker                                                              *)

\* Baseline and Changed carry the snapshot, Unchanged nothing; the caller
\* renders what it is given.
record_snapshot(snapshot) ==
    /\ previous' = snapshot
    /\ view' = IF previous = snapshot THEN view ELSE snapshot
Succeed == op' = Idle /\ last' = "ok" /\ UNCHANGED <<cancelled, failures>>

\* record: a complete read forgets the cursor.
record(snapshot) == record_snapshot(snapshot) /\ cursor' = None

TurnIds(turns) == {turns[i].id : i \in DOMAIN turns}
\* mutant of Continues: the anchor may be any turn of the snapshot
Continues_anywhere(turns) ==
    /\ turns # <<>> /\ previous # None
    /\ turns[1].id \in TurnIds(previous.turns)

\* The turns continue the snapshot: the first of them is its last turn, and
\* none of the others is in it.
Continues(turns) ==
    /\ turns # <<>> /\ previous # None /\ previous.turns # <<>>
    /\ turns[1].id = previous.turns[Len(previous.turns)].id
    /\ \A i \in 2 .. Len(turns) :
          turns[i].id \notin TurnIds(previous.turns) \cup TurnIds(SubSeq(turns, 1, i - 1))
Merged(turns) == [previous EXCEPT !.turns = Front(@) \o turns]

---------------------------------------------------------------------------
(* Polls                                                                    *)

Begin(thread, step, active) ==
    /\ op = Idle /\ ~cancelled
    /\ op' = [Idle EXCEPT !.step = step, !.thread = thread, !.active = active,
                          !.from = cursor]
    /\ witnessed' = {persisted[thread]}
    /\ UNCHANGED <<server, tracker, cancelled, failures, last, view>>
poll_thread(thread) == Begin(thread, "read", FALSE)
\* The caller has established a baseline of the same thread, or none.
poll_active_thread(thread) ==
    /\ previous = None \/ (previous # None /\ previous.thread = thread)
    /\ Begin(thread,
             IF unsupported THEN "read" ELSE IF cursor = None THEN "latest" ELSE "pages",
             ~unsupported)

\* Back to a complete read, which has a retry of its own.
FallBack == op' = [op EXCEPT !.step = "read", !.active = FALSE, !.retried = FALSE]

ReadThread ==
    /\ op.step = "read" /\ ~cancelled
    /\ record([thread |-> op.thread, turns |-> persisted[op.thread]])
    /\ Succeed /\ UNCHANGED <<server, unsupported, witnessed>>

\* thread/turns/list, newest first, one turn; a cursor to it comes along
\* unless the thread has no turn.
ReadLatestTurn ==
    /\ op.step = "latest" /\ ~cancelled
    /\ LET turns == persisted[op.thread]
           page == IF turns = <<>> THEN <<>> ELSE <<turns[Len(turns)]>>
       IN  IF Continues(page)
             THEN /\ record_snapshot(Merged(page)) /\ cursor' = page[1].id
                  /\ Succeed
             ELSE /\ FallBack
                  /\ UNCHANGED <<previous, cursor, view, last, cancelled, failures>>
    /\ UNCHANGED <<server, unsupported, witnessed>>

From(turns, id) == \* the turns from a cursor on; none when it is not valid
    LET start == {i \in DOMAIN turns : turns[i].id = id}
    IN  IF start = {} THEN <<>> ELSE SubSeq(turns, CHOOSE i \in start : TRUE, Len(turns))
Page(turns, id) ==
    LET rest == From(turns, id)
    IN  SubSeq(rest, 1, IF Len(rest) < PageSize THEN Len(rest) ELSE PageSize)

\* The next cursor is there when more turns follow; it names the next one.
NextCursor(turns, id) ==
    LET rest == From(turns, id)
    IN  IF Len(rest) > PageSize THEN rest[PageSize + 1].id ELSE None

ReadPage ==
    /\ op.step = "pages" /\ ~cancelled
    /\ From(persisted[op.thread], op.from) # <<>>
    /\ LET turns == persisted[op.thread]
           read == op.read \o Page(turns, op.from)
           next == NextCursor(turns, op.from)
       IN  IF next # None
             THEN /\ op' = [op EXCEPT !.read = read, !.from = next]
                  /\ UNCHANGED <<previous, cursor, view, last, cancelled, failures>>
             ELSE IF Continues(read)
               THEN /\ record_snapshot(Merged(read))
                    /\ cursor' = IF Len(read) > 1 THEN None ELSE cursor
                    /\ Succeed
               ELSE /\ FallBack
                    /\ UNCHANGED <<previous, cursor, view, last, cancelled, failures>>
    /\ UNCHANGED <<server, unsupported, witnessed>>

Fail ==
    /\ op' = Idle /\ last' = "error"
    /\ UNCHANGED <<previous, unsupported, cancelled, view, witnessed>>

\* An error of the app-server: an incremental read falls back.
RequestFails ==
    /\ op.step \in {"read", "latest", "pages"} /\ ~cancelled
    /\ failures < MaxFailures /\ failures' = failures + 1
    /\ IF op.active
         THEN /\ FallBack /\ cursor' = None
              /\ UNCHANGED <<previous, unsupported, cancelled, view, witnessed, last>>
         ELSE Fail /\ UNCHANGED cursor
    /\ UNCHANGED server

\* The cursor's turn is gone: it is rejected, whatever the failures so far.
CursorRejected ==
    /\ op.step = "pages" /\ ~cancelled
    /\ From(persisted[op.thread], op.from) = <<>>
    /\ FallBack /\ cursor' = None
    /\ UNCHANGED <<server, previous, unsupported, cancelled, failures, last, view,
                   witnessed>>
MethodNotFound ==
    /\ op.step \in {"latest", "pages"} /\ ~cancelled
    /\ failures < MaxFailures /\ failures' = failures + 1
    /\ unsupported' = TRUE /\ FallBack
    /\ UNCHANGED <<server, previous, cursor, cancelled, last, view, witnessed>>

\* The connection is lost: the first time the poll reconnects.
ConnectionLost ==
    /\ op.step \in {"read", "latest", "pages"} /\ ~cancelled
    /\ failures < MaxFailures /\ failures' = failures + 1
    /\ IF ~op.retried
         THEN /\ op' = [op EXCEPT !.step = "reconnect"]
              /\ UNCHANGED <<tracker, cancelled, last, view, witnessed>>
         ELSE IF op.active
           THEN /\ FallBack /\ cursor' = None
                /\ UNCHANGED <<previous, unsupported, cancelled, view, witnessed, last>>
           ELSE Fail /\ UNCHANGED cursor
    /\ UNCHANGED server
\* The read starts anew on the new connection, where the cursor is void.
reconnect ==
    /\ op.step = "reconnect" /\ ~cancelled
    /\ op' = [op EXCEPT !.step = IF op.active THEN "latest" ELSE "read",
                        !.retried = TRUE, !.read = <<>>, !.from = None]
    /\ cursor' = None
    /\ UNCHANGED <<server, previous, unsupported, cancelled, failures, last, view,
                   witnessed>>
ReconnectFails ==
    /\ op.step = "reconnect" /\ ~cancelled
    /\ failures < MaxFailures /\ failures' = failures + 1
    /\ Fail /\ UNCHANGED <<server, cursor>>

Cancel ==
    /\ ~cancelled /\ cancelled' = TRUE
    /\ UNCHANGED <<server, tracker, op, failures, last, view, witnessed>>
PollInterrupted ==
    /\ op # Idle /\ cancelled
    /\ Fail /\ UNCHANGED <<server, cursor, failures>>
\* The caller discards what it rendered, to be given the whole thread again.
reset_thread_baseline ==
    /\ op = Idle /\ previous # None
    /\ previous' = None /\ cursor' = None /\ view' = None
    /\ UNCHANGED <<server, unsupported, cancelled, op, failures, last, witnessed>>

Answer ==
    \/ ReadThread \/ ReadLatestTurn \/ ReadPage \/ CursorRejected
    \/ reconnect \/ PollInterrupted
Next ==
    \/ \E thread \in Threads :
          \/ TurnBegins(thread) \/ TurnProgresses(thread) \/ Rollback(thread)
          \/ poll_thread(thread) \/ poll_active_thread(thread)
    \/ Answer \/ RequestFails \/ MethodNotFound \/ ConnectionLost \/ ReconnectFails
    \/ Cancel \/ reset_thread_baseline
\* Every request is answered, or ends otherwise (AppServerClient!RequestEnds).
Spec == Init /\ [][Next]_vars /\ WF_vars(Answer)

---------------------------------------------------------------------------
(* Properties                                                               *)

\* The thread a caller renders from Baseline and Changed alone is the one the
\* session compares with: Unchanged is said only of what the caller has.
ViewIsLastSnapshot == previous # None => view = previous

\* A poll that succeeds, however it was pieced together and whatever it fell
\* back to, is of the thread it was asked for, and returns its turns as they
\* were at one moment of the poll.
PollIsFresh ==
    op = Idle /\ last = "ok" /\ previous # None => previous.turns \in witnessed

\* A poll does not go on for ever: neither the fallbacks nor the retries go
\* round in circles.
Polling == op # Idle
=============================================================================
