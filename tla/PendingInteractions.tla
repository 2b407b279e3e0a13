-------------------------- MODULE PendingInteractions --------------------------
(***************************************************************************)
(* The user's answers to questions of the app-server, end to end: the       *)
(* question on the writer's connection (AppServerClient), the list emitted   *)
(* with every change, the cards of the application (codexinteractionmodel),  *)
(* and the answer on its way back as a control of a command update           *)
(* (writer.rs, apply_control).                                              *)
(*                                                                          *)
(* An answer names its question by the interaction id alone, and every       *)
(* connection counts its ids from 1.  Questions are kept here as pairs of    *)
(* connection and id; of that pair an answer carries the id.  The connection *)
(* an answer is `meant` for, and whether another had `replaced` it already as *)
(* the answer was given, are kept only to be compared with what it reaches.  *)
(* Questions come while a turn runs.  The writer's thread is the one         *)
(* watched; creating threads and archiving them is left out.                 *)
(***************************************************************************)
EXTENDS Naturals, Sequences

CONSTANTS Threads,
          MaxConnections, \* bound on the connections of writers
          MaxAsks,        \* bound on the questions of a connection
          MaxCommands,    \* bound on what the user does
          None

PendingInteractionsAssumption ==
    /\ None \notin Threads
    /\ MaxConnections \in Nat /\ MaxAsks \in Nat /\ MaxCommands \in Nat

VARIABLES
    opened,   \* connections opened so far
    conn,     \* the connection of the writer held, or 0
    server,   \* its app-server: "idle", "running" a turn, or "down"
    open,     \* the questions it has not settled
    asked,    \* its questions so far
    inbox,    \* its messages not read yet
    pending,  \* SubscriptionState::pending
    watched, driving,
    update,   \* the commands waiting, merged
    work,     \* what is left of the update being worked off
    events,   \* Qt's event queue
    ui,       \* the conversation controller
    reached,  \* what the last answer was meant for, and reached
    commands

appserver == <<opened, conn, server, open, asked, inbox>>
worker == <<pending, watched, driving>>
vars == <<appserver, worker, update, work, events, ui, reached, commands>>

Ids == 1 .. MaxAsks
Asked == [conn : 1 .. MaxConnections, id : Ids]
NoUpdate == [watch |-> None, write |-> None, turn |-> None, controls |-> <<>>]
Empty(u) == u = NoUpdate
InFlight(state) == state \in {"Starting", "Active"}

TypeOK ==
    /\ opened \in 0 .. MaxConnections /\ conn \in {0, opened}
    /\ server \in {"down", "idle", "running"} /\ open \subseteq 1 .. asked
    /\ asked \in 0 .. MaxAsks
    /\ pending \subseteq 1 .. asked /\ (conn = 0 => pending = {} /\ inbox = <<>>)
    /\ watched \in Threads /\ driving \in BOOLEAN
    /\ \A u \in {update, work} :
         /\ u.watch \in Threads \cup {None} /\ u.turn \in Threads \cup {None}
         /\ u.write \in {None} \cup [kind : {"acquire", "release"}, thread : Threads]
         /\ u.controls \in Seq([id : Ids, meant : 1 .. MaxConnections, replaced : BOOLEAN])
    /\ ui.thread \in Threads /\ ui.shown \subseteq Asked /\ ui.resolving \subseteq Ids
    /\ ui.write \in {"NotRequested", "Checking", "Writable", "Unavailable"}
    /\ ui.turn \in {"Detached", "Starting", "Active", "Idle"}
    /\ commands \in 0 .. MaxCommands

NewConversation(thread) ==
    [thread |-> thread, write |-> "NotRequested", turn |-> "Detached", shown |-> {},
     resolving |-> {}]

Init ==
    /\ opened = 0 /\ conn = 0 /\ server = "down" /\ open = {} /\ asked = 0 /\ inbox = <<>>
    /\ pending = {} /\ watched \in Threads /\ driving = FALSE
    /\ update = NoUpdate /\ work = NoUpdate /\ events = <<>>
    /\ ui = NewConversation(watched)
    /\ reached = [meant |-> 0, on |-> 0, replaced |-> FALSE] /\ commands = 0

---------------------------------------------------------------------------
(* The app-server                                                           *)

Says(kind, id) ==
    /\ conn # 0 /\ inbox' = Append(inbox, [kind |-> kind, id |-> id])
    /\ UNCHANGED <<opened, conn, worker, update, work, events, ui, reached, commands>>
ServerAsks ==
    /\ server = "running" /\ asked < MaxAsks /\ asked' = asked + 1
    /\ open' = open \cup {asked'} /\ Says("ask", asked') /\ UNCHANGED server
\* It answers its question itself, or another client of the thread does.
ServerResolves(id) ==
    /\ server = "running" /\ id \in open /\ open' = open \ {id}
    /\ Says("resolved", id) /\ UNCHANGED <<server, asked>>
ServerCompletesTurn ==
    /\ server = "running" /\ server' = "idle" /\ open' = {}
    /\ Says("completed", 0) /\ UNCHANGED asked
ServerExits ==
    /\ server # "down" /\ server' = "down" /\ open' = {}
    /\ Says("lost", 0) /\ UNCHANGED asked

---------------------------------------------------------------------------
(* The worker's events                                                      *)

Event(thread, kind, value) == [thread |-> thread, kind |-> kind, value |-> value]
emit_thread_write_state(status) == <<Event(watched, "write", status)>>
emit_thread_runtime_state(state) == <<Event(watched, "turn", state)>>
emit_pending_interactions(ids) ==
    <<Event(watched, "list", {[conn |-> conn, id |-> id] : id \in ids})>>
Emit(more) == events' = events \o more

\* mutant of Listed: the list is emitted when there is something to ask
Listed_unless_empty(ids) == IF ids = {} THEN <<>> ELSE emit_pending_interactions(ids)
\* The list that goes with a change of what is pending.
Listed(ids) == emit_pending_interactions(ids)

\* The writer is shut down with its connection.
Drop ==
    /\ conn' = 0 /\ pending' = {} /\ inbox' = <<>> /\ server' = "down" /\ open' = {}
    /\ asked' = 0 /\ driving' = FALSE /\ UNCHANGED opened
fail_stream ==
    /\ Drop
    /\ Emit(emit_thread_write_state("Unavailable") \o emit_thread_runtime_state("Detached")
              \o Listed({}))

---------------------------------------------------------------------------
(* The worker                                                               *)

\* What waits is taken as one update; during a turn its controls alone.
TakeUpdate ==
    /\ ~driving /\ Empty(work) /\ ~Empty(update)
    /\ work' = update /\ update' = NoUpdate
    /\ UNCHANGED <<appserver, worker, events, ui, reached, commands>>
TakeControls ==
    /\ driving /\ Empty(work) /\ update.controls # <<>>
    /\ work' = [NoUpdate EXCEPT !.controls = update.controls]
    /\ update' = [update EXCEPT !.controls = <<>>]
    /\ UNCHANGED <<appserver, worker, events, ui, reached, commands>>

select_thread ==
    /\ work.watch # None /\ work' = [work EXCEPT !.watch = None]
    /\ watched' = work.watch /\ Drop
    /\ Emit(<<Event(work.watch, "list", {})>>)
    /\ UNCHANGED <<update, ui, reached, commands>>

\* Only the watched thread is acquired; a writer that is held is kept.
acquire_write ==
    /\ work.watch = None /\ work.write # None /\ work.write.kind = "acquire"
    /\ work' = [work EXCEPT !.write = None]
    /\ \/ work.write.thread # watched /\ UNCHANGED <<appserver, worker, events>>
       \/ /\ work.write.thread = watched /\ conn # 0
          /\ Emit(emit_thread_runtime_state("Idle") \o emit_thread_write_state("Writable"))
          /\ UNCHANGED <<appserver, worker>>
       \/ /\ work.write.thread = watched /\ conn = 0 /\ opened < MaxConnections
          /\ opened' = opened + 1 /\ conn' = opened' /\ server' = "idle"
          /\ Emit(emit_thread_write_state("Checking") \o Listed({})
                    \o emit_thread_runtime_state("Idle") \o emit_thread_write_state("Writable"))
          /\ UNCHANGED <<open, asked, inbox, worker>>
       \/ /\ work.write.thread = watched /\ conn = 0
          /\ Emit(emit_thread_write_state("Checking") \o emit_thread_write_state("Unavailable"))
          /\ UNCHANGED <<appserver, worker>>
    /\ UNCHANGED <<update, ui, reached, commands>>
release_write ==
    /\ work.watch = None /\ work.write # None /\ work.write.kind = "release"
    /\ work' = [work EXCEPT !.write = None]
    /\ LET thread == work.write.thread
       IN  /\ IF thread = watched THEN Drop ELSE UNCHANGED <<appserver, pending, driving>>
           /\ Emit(<<Event(thread, "list", {}), Event(thread, "turn", "Detached"),
                     Event(thread, "write", "NotRequested")>>)
    /\ UNCHANGED <<watched, update, ui, reached, commands>>

\* A turn of a thread that is not watched selects its thread first, which takes
\* the writer along; without a writer of its thread the turn is refused.  A turn
\* begins with the controls that came with it, and one that is refused or fails
\* to begin takes them along.
run_turn ==
    /\ work.watch = None /\ work.write = None /\ work.turn # None
    /\ watched' = work.turn
    /\ \/ /\ \/ work.turn # watched /\ Drop
             \/ work.turn = watched /\ conn = 0 /\ UNCHANGED <<appserver, pending, driving>>
          /\ Emit(<<Event(work.turn, "turn", "Detached"),
                    Event(work.turn, "write", "Unavailable")>>)
          /\ work' = NoUpdate
       \/ /\ work.turn = watched /\ conn # 0 /\ server # "down"
          /\ server' = "running" /\ driving' = TRUE
          /\ Emit(emit_thread_runtime_state("Starting") \o emit_thread_runtime_state("Active"))
          /\ work' = [work EXCEPT !.turn = None]
          /\ UNCHANGED <<opened, conn, open, asked, inbox, pending>>
       \/ /\ work.turn = watched /\ conn # 0
          /\ fail_stream /\ work' = NoUpdate
    /\ UNCHANGED <<update, ui, reached, commands>>

\* An answer that cannot be given brings a notice, and the list as it is.
resolve_interaction ==
    /\ work.watch = None /\ work.write = None /\ work.turn = None /\ work.controls # <<>>
    /\ work' = [work EXCEPT !.controls = Tail(@)]
    /\ LET answer == Head(work.controls)
       IN  \/ conn = 0 /\ UNCHANGED <<open, pending, events, reached>>
           \/ /\ conn # 0 /\ answer.id \in pending
              /\ pending' = pending \ {answer.id} /\ Emit(Listed(pending'))
              /\ open' = open \ {answer.id}
              /\ reached' = [meant |-> answer.meant, on |-> conn, replaced |-> answer.replaced]
           \/ /\ conn # 0 /\ (answer.id \notin pending \/ server = "down")
              /\ Emit(Listed(pending)) /\ UNCHANGED <<open, pending, reached>>
    /\ UNCHANGED <<opened, conn, server, asked, inbox, watched, driving, update, ui, commands>>

\* The next message of the writer, once no command waits.
next_writer_update ==
    /\ Empty(work) /\ inbox # <<>>
    /\ IF driving THEN update.controls = <<>> ELSE Empty(update)
    /\ LET message == Head(inbox)
           Read == inbox' = Tail(inbox) /\ UNCHANGED <<opened, conn, server, open, asked>>
       IN  \/ /\ message.kind = "ask" /\ Read
              /\ pending' = pending \cup {message.id} /\ Emit(Listed(pending'))
              /\ UNCHANGED driving
           \/ /\ message.kind = "resolved" /\ Read
              /\ pending' = pending \ {message.id}
              /\ IF message.id \in pending THEN Emit(Listed(pending')) ELSE UNCHANGED events
              /\ UNCHANGED driving
           \/ /\ message.kind = "completed" /\ Read
              /\ pending' = {} /\ driving' = FALSE
              /\ Emit((IF pending # {} THEN Listed({}) ELSE <<>>)
                        \o emit_thread_runtime_state("Idle"))
           \/ message.kind = "lost" /\ fail_stream
    /\ UNCHANGED <<watched, work, update, ui, reached, commands>>

---------------------------------------------------------------------------
(* The application                                                          *)

\* mutant of reconcileInteractions: an empty list is taken for nothing new
reconcileInteractions_unless_empty(u, list) ==
    IF list = {} THEN u ELSE [u EXCEPT !.shown = list, !.resolving = {}]
reconcileInteractions(u, list) == [u EXCEPT !.shown = list, !.resolving = {}]

applyHistoryEvent ==
    /\ events # <<>> /\ events' = Tail(events)
    /\ LET event == Head(events)
       IN  ui' = IF event.thread # ui.thread THEN ui
                 ELSE CASE event.kind = "write" -> [ui EXCEPT !.write = event.value]
                        [] event.kind = "turn" -> [ui EXCEPT !.turn = event.value]
                        [] event.kind = "list" -> reconcileInteractions(ui, event.value)
    /\ UNCHANGED <<appserver, worker, update, work, reached, commands>>

Sends(more) ==
    /\ commands < MaxCommands /\ commands' = commands + 1 /\ update' = more
    /\ UNCHANGED <<appserver, worker, work, events, reached>>
selectThread(thread) ==
    /\ thread # ui.thread /\ ~InFlight(ui.turn)
    /\ ui' = NewConversation(thread) /\ Sends([update EXCEPT !.watch = thread])
acquireWriteAccess ==
    /\ ~InFlight(ui.turn) /\ ui.write \notin {"Checking", "Writable"}
    /\ ui' = [ui EXCEPT !.write = "Checking"]
    /\ Sends([update EXCEPT !.write = [kind |-> "acquire", thread |-> ui.thread]])
releaseWriteAccess ==
    /\ ~InFlight(ui.turn) /\ ui.write # "NotRequested"
    /\ ui' = [ui EXCEPT !.write = "NotRequested"]
    /\ Sends([update EXCEPT !.write = [kind |-> "release", thread |-> ui.thread]])
\* The observer takes one turn at a time: the gate is open again when the turn
\* is over, or was not begun.
Reserved == update.turn # None \/ work.turn # None \/ driving
startTurn ==
    /\ ~InFlight(ui.turn) /\ ui.write = "Writable" /\ ~Reserved
    /\ ui' = [ui EXCEPT !.turn = "Starting"]
    /\ Sends([update EXCEPT !.turn = ui.thread])
\* A card that is not resolving can be answered.
sendInteractionResponse(card) ==
    /\ card \in ui.shown /\ card.id \notin ui.resolving
    /\ ui' = [ui EXCEPT !.resolving = @ \cup {card.id}]
    /\ Sends([update EXCEPT !.controls =
                 Append(@, [id |-> card.id, meant |-> card.conn,
                            replaced |-> conn \notin {0, card.conn}])])

Server ==
    \/ ServerAsks \/ ServerCompletesTurn \/ ServerExits
    \/ \E id \in Ids : ServerResolves(id)
Worker ==
    \/ TakeUpdate \/ TakeControls \/ select_thread \/ acquire_write \/ release_write
    \/ run_turn \/ resolve_interaction \/ next_writer_update
User ==
    \/ \E thread \in Threads : selectThread(thread)
    \/ acquireWriteAccess \/ releaseWriteAccess \/ startTurn
    \/ \E card \in Asked : sendInteractionResponse(card)
Next == Server \/ Worker \/ applyHistoryEvent \/ User

Spec == Init /\ [][Next]_vars

---------------------------------------------------------------------------
(* Properties                                                               *)

\* An answer is given to the question of its card or to none, although it names
\* only an id that every connection uses: when the question was settled, or the
\* writer lost, released or replaced before it arrives, it is dropped or refused.
\* The exception is an answer on a card of a writer that another had replaced
\* already, the list of that one still on its way: it may reach a question of the
\* new writer that has the same id.
AnswersReachTheirQuestions == reached.meant = reached.on \/ reached.replaced

\* Once all is quiet, the cards are the questions pending on the writer, none
\* of them marked as being answered.
Quiet ==
    /\ Empty(update) /\ Empty(work) /\ inbox = <<>> /\ events = <<>>
CardsArePending ==
    Quiet => /\ ui.shown = {[conn |-> conn, id |-> id] : id \in pending}
             /\ ui.resolving = {}
=============================================================================
