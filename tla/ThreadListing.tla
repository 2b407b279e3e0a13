----------------------------- MODULE ThreadListing -----------------------------
(***************************************************************************)
(* Listing the persisted threads (CodexClient::list_all_threads with its    *)
(* pagination, and CodexHistorySession::poll_all_threads and                *)
(* poll_thread_page with the tracker of the last page).  A listing takes    *)
(* one request per page; between them threads are created, updated,         *)
(* archived and restored, and the connection may be lost.                   *)
(*                                                                          *)
(* The app-server lists the newest thread first.  A cursor is a time: the   *)
(* page holds threads not newer than that.  The app-server may have the     *)
(* next page begin with the thread the last one ended with.                 *)
(***************************************************************************)
EXTENDS Integers, Sequences, SequencesExt

CONSTANTS Threads,
          Limit,        \* threads in a page
          Starts,       \* cursors a caller asks for
          Overlaps,     \* TRUE: the next page begins with the last thread of this
          MaxTime,      \* bound on the changes to threads
          MaxFailures,  \* bound on failed requests
          None

LimitAssumption == Limit \in Nat \ {0}
OverlapsAssumption == Overlaps \subseteq BOOLEAN /\ Overlaps # {}
BoundsAssumption == MaxTime \in Nat \ 0 .. 1 /\ MaxFailures \in Nat
StartsAssumption == Starts \subseteq 0 .. MaxTime \cup {None} /\ None \notin Int

VARIABLES
    updated,   \* per thread: when it was last changed; 0 when it does not exist
    archived,  \* per thread: whether it is
    clock,
    previous,  \* ThreadPageTracker::previous
    op,        \* the poll in progress, or the last one
    cancelled, failures,
    view,      \* the page as rendered by the caller
    untouched, \* threads that did not change since the listing was begun
    seen       \* what the app-server could have listed since then

server == <<updated, archived, clock>>
history == <<untouched, seen>>
vars == <<server, previous, op, cancelled, failures, view, history>>

Times == 0 .. MaxTime
Summary == [id : Threads, updated : Times]
Polls == [step : {"idle", "list", "reconnect", "done", "error"}, all : BOOLEAN,
          archived : BOOLEAN, start : Times \cup {None}, cursor : Times \cup {None},
          requested : SUBSET Times, read : Seq(Summary), retried : BOOLEAN]
NoOp == [step |-> "idle", all |-> TRUE, archived |-> FALSE, start |-> None,
         cursor |-> None, requested |-> {}, read |-> <<>>, retried |-> FALSE]

TypeOK ==
    /\ updated \in [Threads -> Times] /\ archived \in [Threads -> BOOLEAN]
    /\ clock \in Times /\ cancelled \in BOOLEAN /\ failures \in 0 .. MaxFailures
    /\ previous \in Seq(Summary) \cup {None} /\ view \in Seq(Summary) \cup {None}
    /\ op \in Polls /\ (op.cursor # None => op.cursor \in op.requested)
    /\ untouched \subseteq Threads /\ seen \subseteq Summary

\* The summaries of the threads a request selects.
Listed(time, is_archived, from) ==
    {[id |-> t, updated |-> time[t]] :
        t \in {t \in Threads : /\ time[t] > 0 /\ is_archived[t] = op.archived
                               /\ from # None => time[t] <= from}}

Init ==
    /\ clock = 2 /\ archived = [t \in Threads |-> FALSE]
    /\ updated \in {times \in [Threads -> 0 .. 2] :
                      \A time \in 1 .. 2 : \E t \in Threads : {t} = {u \in Threads : times[u] = time}}
    /\ previous = None /\ op = NoOp /\ cancelled = FALSE /\ failures = 0
    /\ view = None /\ untouched = {} /\ seen = {}

---------------------------------------------------------------------------
(* What other processes do                                                  *)

Change(thread, is_archived) ==
    /\ clock < MaxTime /\ clock' = clock + 1
    /\ updated' = [updated EXCEPT ![thread] = clock']
    /\ archived' = [archived EXCEPT ![thread] = is_archived]
    /\ untouched' = untouched \ {thread}
    /\ seen' = seen \cup Listed(updated', archived', op.start)
    /\ UNCHANGED <<previous, op, cancelled, failures, view>>
CreateOrUpdate(thread) == Change(thread, archived[thread])
ArchiveOrRestore(thread) == updated[thread] > 0 /\ Change(thread, ~archived[thread])

---------------------------------------------------------------------------
(* Polls                                                                    *)

\* mutant of FirstRequest: what was read before is kept
FirstRequest_keeping_read(poll) ==
    [poll EXCEPT !.step = "list", !.cursor = poll.start,
                 !.requested = IF poll.start = None THEN {} ELSE {poll.start}]

\* A listing begins, the first time or again, at the cursor it was asked for.
FirstRequest(poll) ==
    [poll EXCEPT !.step = "list", !.cursor = poll.start, !.read = <<>>,
                 !.requested = IF poll.start = None THEN {} ELSE {poll.start}]

Poll(all, is_archived, start) ==
    /\ op.step \in {"idle", "done", "error"} /\ ~cancelled
    /\ op' = FirstRequest([NoOp EXCEPT !.all = all, !.archived = is_archived,
                                       !.start = start])
    /\ untouched' = Threads
    /\ seen' = {[id |-> t, updated |-> updated[t]] :
                  t \in {t \in Threads : /\ updated[t] > 0 /\ archived[t] = is_archived
                                         /\ start # None => updated[t] <= start}}
    /\ UNCHANGED <<server, previous, cancelled, failures, view>>
poll_all_threads(is_archived, start) == Poll(TRUE, is_archived, start)
poll_thread_page(is_archived, start) == Poll(FALSE, is_archived, start)

\* ThreadPageTracker::record: the caller is given a page unless it is unchanged.
record(page) ==
    /\ previous' = page
    /\ view' = IF previous # None /\ previous = page THEN view ELSE page

\* Some summaries in order, the newest first.
Ordered(summaries) ==
    {page \in UNION {[1 .. length -> summaries] : length \in 0 .. Limit} :
        /\ ToSet(page) = summaries
        /\ \A i, j \in DOMAIN page : i < j => page[i].updated > page[j].updated}

\* A page: the newest of the threads that the cursor leaves, and their order.
Pages == LET rest == Listed(updated, archived, op.cursor)
         IN  {page \in UNION {Ordered(newest) : newest \in SUBSET rest} :
                /\ \A thread \in rest \ ToSet(page), i \in DOMAIN page :
                      thread.updated < page[i].updated
                /\ ToSet(page) # rest => Len(page) = Limit}

\* What a page adds: its threads, without those that were read before.
Unread(read, page) == {thread \in ToSet(page) : \A i \in DOMAIN read : read[i].id # thread.id}

\* The next page begins after the last thread, or with it.
NextCursors(page) ==
    IF ToSet(page) = Listed(updated, archived, op.cursor) THEN {None}
    ELSE {page[Limit].updated - (IF overlap THEN 0 ELSE 1) : overlap \in Overlaps}

\* mutant of accept_next: a cursor may be repeated
accept_next_repeated(cursor) == TRUE

accept_next(cursor) == cursor \notin op.requested

\* One answered request of a listing; a repeated cursor is an error.
list_threads ==
    /\ op.step = "list" /\ ~cancelled
    /\ \E page \in Pages : \E next \in NextCursors(page), new \in Ordered(Unread(op.read, page)) :
         IF op.all /\ next # None
           THEN /\ op' = IF accept_next(next)
                           THEN [op EXCEPT !.cursor = next,
                                           !.requested = @ \cup {next},
                                           !.read = @ \o new]
                           ELSE [op EXCEPT !.step = "error"]
                /\ UNCHANGED <<previous, view>>
           ELSE /\ op' = [op EXCEPT !.step = "done"]
                /\ record(IF op.all THEN op.read \o new ELSE page)
    /\ UNCHANGED <<server, cancelled, failures, history>>

\* The connection is lost: the first time the listing begins anew on another.
ConnectionLost ==
    /\ op.step = "list" /\ ~cancelled
    /\ failures < MaxFailures /\ failures' = failures + 1
    /\ op' = [op EXCEPT !.step = IF op.retried THEN "error" ELSE "reconnect"]
    /\ UNCHANGED <<server, previous, cancelled, view, history>>
reconnect ==
    /\ op.step = "reconnect" /\ ~cancelled
    /\ op' = FirstRequest([op EXCEPT !.retried = TRUE])
    /\ untouched' = Threads /\ seen' = Listed(updated, archived, op.start)
    /\ UNCHANGED <<server, previous, cancelled, failures, view>>
RequestFails ==
    /\ op.step \in {"list", "reconnect"} /\ ~cancelled
    /\ failures < MaxFailures /\ failures' = failures + 1
    /\ op' = [op EXCEPT !.step = "error"]
    /\ UNCHANGED <<server, previous, cancelled, view, history>>
PollInterrupted ==
    /\ op.step \in {"list", "reconnect"} /\ cancelled
    /\ op' = [op EXCEPT !.step = "error"]
    /\ UNCHANGED <<server, previous, cancelled, failures, view, history>>

Cancel ==
    /\ ~cancelled /\ cancelled' = TRUE
    /\ UNCHANGED <<server, previous, op, failures, view, history>>
\* The caller has discarded what it rendered.
reset_thread_page_baseline ==
    /\ op.step \in {"done", "error"} /\ previous # None
    /\ previous' = None /\ view' = None /\ op' = NoOp
    /\ UNCHANGED <<server, cancelled, failures, history>>

Answer == list_threads \/ reconnect \/ PollInterrupted
Next ==
    \/ \E thread \in Threads : CreateOrUpdate(thread) \/ ArchiveOrRestore(thread)
    \/ \E is_archived \in BOOLEAN, start \in Starts :
          poll_all_threads(is_archived, start) \/ poll_thread_page(is_archived, start)
    \/ Answer \/ ConnectionLost \/ RequestFails
    \/ Cancel \/ reset_thread_page_baseline
\* Every request is answered, or ends otherwise.
Spec == Init /\ [][Next]_vars /\ WF_vars(Answer)

---------------------------------------------------------------------------
(* Properties                                                               *)

\* However pages overlap and threads move meanwhile, a complete listing has no
\* thread twice, and those that did not change are all there, newest first.
ListingIsComplete ==
    op.step = "done" /\ op.all =>
      /\ \A i, j \in DOMAIN previous : previous[i].id = previous[j].id => i = j
      /\ \A t \in untouched :
           [id |-> t, updated |-> updated[t]] \in Listed(updated, archived, op.start)
             => \E i \in DOMAIN previous : previous[i].id = t
      /\ \A i, j \in DOMAIN previous :
           i < j /\ previous[i].id \in untouched /\ previous[j].id \in untouched
             => previous[i].updated > previous[j].updated

\* A listing holds only what the app-server could have listed while it was
\* made: nothing of an attempt whose connection was lost, and no thread of the
\* other kind.
ListingIsOfTheAttempt ==
    op.step = "done" => ToSet(previous) \subseteq seen

\* Unchanged is said only of the page the caller has.
ViewIsLastPage == previous # None => view = previous

\* A poll does not go on for ever, whatever cursors the app-server hands out.
Polling == op.step \in {"list", "reconnect"}
=============================================================================
