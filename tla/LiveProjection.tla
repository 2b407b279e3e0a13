--------------------------- MODULE LiveProjection ---------------------------
(***************************************************************************)
(* The conversation the observer shows of one thread: the fold of the      *)
(* writer's event stream and of the polled, lagging history                *)
(* (ward-core/src/ffi/codex/live/mod.rs), driven by the writer runtime     *)
(* (observer/worker/writer.rs).  The thread is one the observer started,   *)
(* so its conversation is always known.  The app-server is external:       *)
(*   - it streams a turn's notifications in order, and its history follows *)
(*     its own state at any distance, an agent message only once it is     *)
(*     whole or its turn has ended;                                        *)
(*   - it may give the first turn and its messages other identifiers in    *)
(*     the history than on the stream (Renumbers);                         *)
(*   - when its connection is lost the turn it ran is interrupted, and     *)
(*     what was not stored may be gone.                                    *)
(* A message's text is the sequence of its words; a command has one chunk  *)
(* of output.  All users write the same prompt and all answers are alike,  *)
(* so that messages of two turns are told apart by their place alone.      *)
(***************************************************************************)
EXTENDS Naturals, Sequences, SequencesExt, FiniteSets

CONSTANTS
    MaxTurns,        \* bound: turns of the thread
    Words,           \* bound: words of an agent message
    QueueBound,      \* bound: notifications under way
    MaxBreaks,       \* bound: releases and lost connections
    Renumbers,       \* the history renumbers the first turn and its messages
    DropsUnfinished, \* the history never gets the message a turn's end cut off
    OmitsTiming,     \* the history leaves out a turn's timing
    Breaks,          \* the connection may be lost
    Tracked,         \* the app-server tells the thread's status
    ByItself         \* the app-server may begin a turn after the first itself

LiveProjectionAssumption ==
    /\ MaxTurns \in Nat \ {0} /\ Words \in Nat \ {0}
    /\ QueueBound \in Nat \ {0} /\ MaxBreaks \in Nat
    /\ {Renumbers, DropsUnfinished, OmitsTiming, Breaks, Tracked, ByItself} \subseteq BOOLEAN

VARIABLES
    truth,          \* the turns as the app-server has them
    store,          \* the turns as its history has them
    stream,         \* notifications on their way to the worker
    attached,       \* the worker holds the thread's writer
    live,           \* the LiveThreadProjection
    pending,        \* pending_conversation_emit
    driving,        \* the turn run_turn is driving, or 0
    due,            \* conversation_due is set
    baseline,       \* the turns of the session's last read
    view,           \* the last ConversationUpdated the application got
    ends,           \* turn ends reported for each turn run_turn began
    begun,          \* the turns run_turn began
    idled,          \* those told idle, the end not heard, while it drove them
    breaks          \* releases and lost connections so far

server == <<truth, store>>
vars == <<truth, store, stream, attached, live, pending, driving, due, baseline,
          view, ends, begun, idled, breaks>>

Terminal == {"completed", "interrupted", "failed"}
Messages == {"user", "agent"}
NoTurn == [id |-> 0, status |-> "none", timed |-> FALSE, items |-> <<>>]
NoRetained == [index |-> 0, turn |-> NoTurn]

Item(n, kind, text, status) ==
    [id |-> <<n, kind>>, kind |-> kind, text |-> text, status |-> status]
Ids(turns) == [i \in DOMAIN turns |-> turns[i].id]
Ended(turns) == SelectSeq(turns, LAMBDA t : t.status \in Terminal)
terminal_turn_ids(turns) == Ids(Ended(turns))
Running(turns) == turns # <<>> /\ Last(turns).status = "inProgress"
AnswerOf(n) == [w \in 1..Words |-> w]

(* What a history read of the turns returns.                               *)
StoredId(n) == IF Renumbers /\ n = 1 THEN MaxTurns + 1 ELSE n
StoredItem(item) ==
    IF item.kind \in Messages THEN [item EXCEPT !.id[1] = StoredId(@)] ELSE item
StoredTurn(t) ==
    LET kept == SelectSeq(t.items,
                    LAMBDA i : i.kind # "agent" \/ i.text = AnswerOf(t.id)
                              \/ (t.status \in Terminal /\ ~DropsUnfinished))
    IN [t EXCEPT !.id = StoredId(@), !.timed = @ /\ ~OmitsTiming,
                 !.items = [k \in DOMAIN kept |-> StoredItem(kept[k])]]
Persisted(turns) == [i \in DOMAIN turns |-> StoredTurn(turns[i])]

-----------------------------------------------------------------------------
(* The projection's helpers.                                               *)
TurnIndex(turns, id) == SelectInSeq(turns, LAMBDA t : t.id = id)
ItemIndex(items, id) == SelectInSeq(items, LAMBDA i : i.id = id)

turn_mut_or_insert(turns, id) ==
    IF TurnIndex(turns, id) # 0 THEN turns
    ELSE Append(turns, [NoTurn EXCEPT !.id = id, !.status = "inProgress"])

upsert_item(items, item) ==
    LET i == ItemIndex(items, item.id)
    IN IF i = 0 THEN Append(items, item) ELSE [items EXCEPT ![i] = item]

merge_turn(turns, update) ==
    LET i == TurnIndex(turns, update.id)
    IN IF i = 0 THEN Append(turns, update)
       ELSE [turns EXCEPT ![i].status = update.status,
                          ![i].timed = @ \/ update.timed,
                          ![i].items = FoldLeft(upsert_item, @, update.items)]

append_agent_message(items, id, word) ==
    LET i == ItemIndex(items, id)
    IN IF i = 0 THEN Append(items, Item(id[1], "agent", <<word>>, "none"))
       ELSE [items EXCEPT ![i].text = Append(@, word)]

append_activity_output(items, id, chunk) ==
    LET i == ItemIndex(items, id)
    IN IF i = 0 THEN items ELSE [items EXCEPT ![i].text = Append(@, chunk)]

retain_turn(p, id) ==
    LET i == TurnIndex(p.conversation, id)
    IN IF i = 0 THEN p
       ELSE [p EXCEPT !.retained = [index |-> i, turn |-> p.conversation[i]]]

(* The items of the turn an item notification is about, after it.          *)
EditItems(items, e) ==
    CASE e.kind = "item"   -> upsert_item(items, e.item)
      [] e.kind = "delta"  -> append_agent_message(items, e.id, e.word)
      [] e.kind = "output" -> append_activity_output(items, e.id, e.word)

Incremental(e) == e.kind \in {"delta", "output"}
AboutItem(e) == e.kind \in {"item", "delta", "output"}

(* An output notification for an unknown command inserts its turn but      *)
(* reports no change.                                                      *)
ChangesConversation(p, e) ==
    CASE e.kind = "status" -> FALSE
      [] e.kind = "output" ->
           LET i == TurnIndex(p.conversation, e.turn)
           IN i # 0 /\ ItemIndex(p.conversation[i].items, e.id) # 0
      [] e.kind \notin {"status", "output"} -> TRUE

apply_event(p, e) ==
    IF e.kind = "status"
    THEN [p EXCEPT !.live_turn = IF e.status = "idle" THEN 0 ELSE @,
                   !.runtime = e.status]
    ELSE IF AboutItem(e)
    THEN LET turns == turn_mut_or_insert(p.conversation, e.turn)
             edited == [turns EXCEPT ![TurnIndex(turns, e.turn)].items =
                                        EditItems(@, e)]
         IN retain_turn([p EXCEPT !.conversation = edited], e.turn)
    ELSE LET merged == [p EXCEPT !.conversation = merge_turn(@, e.turn)]
         IN IF e.kind = "started"
            THEN retain_turn([merged EXCEPT !.live_turn = e.turn.id,
                                            !.runtime = "active"], e.turn.id)
            ELSE [retain_turn(merged, e.turn.id) EXCEPT
                      !.live_turn = 0, !.runtime = "idle"]

-----------------------------------------------------------------------------
(* Folding a history read into the projection.                             *)
turn_covers(snapshot, retained) ==
    /\ snapshot.status = retained.status
    /\ retained.timed => snapshot.timed
    /\ ToSet(retained.items) \subseteq ToSet(snapshot.items)

turns_share_stable_identity(left, right) ==
    \/ left.id = right.id
    \/ \E i \in ToSet(left.items), j \in ToSet(right.items) : i.id = j.id

messages_represent_same_logical_item(left, right) ==
    /\ left.kind = right.kind /\ left.kind \in Messages
    /\ left.text = right.text

MessagesOf(turn) == SelectSeq(turn.items, LAMBDA i : i.kind \in Messages)

turns_have_equivalent_message_sequence(left, right) ==
    LET l == MessagesOf(left)
        r == MessagesOf(right)
    IN /\ l # <<>> /\ Len(l) = Len(r)
       /\ \A k \in DOMAIN l : messages_represent_same_logical_item(l[k], r[k])

\* mutant of find_snapshot_turn_index: the content fallback is left out
find_snapshot_turn_index_by_id(turns, retained) ==
    SelectInSeq(turns, LAMBDA t : turns_share_stable_identity(t, retained.turn))

find_snapshot_turn_index(turns, retained) ==
    LET i == SelectInSeq(turns,
                LAMBDA t : turns_share_stable_identity(t, retained.turn))
    IN IF i = 0 /\ retained.index = 1 /\ turns # <<>>
          /\ turns_have_equivalent_message_sequence(turns[1], retained.turn)
       THEN 1 ELSE i

merge_snapshot_activity(snapshot, retained) ==
    IF snapshot.status \notin Terminal /\ retained.status \in Terminal
    THEN retained ELSE snapshot

\* mutant of merge_snapshot_item: the history's message always wins
merge_snapshot_item_stored(snapshot, retained, terminal) == snapshot

merge_snapshot_item(snapshot, retained, terminal) ==
    CASE snapshot.kind = "command" -> merge_snapshot_activity(snapshot, retained)
      [] snapshot.kind = "user"    -> IF terminal THEN snapshot ELSE retained
      [] snapshot.kind = "agent"   ->
           IF terminal \/ IsPrefix(retained.text, snapshot.text)
           THEN snapshot ELSE retained

(* One retained item is placed: over the item with its identifier, else    *)
(* over the next equal message, else at the cursor.  acc.used marks the    *)
(* items that have been matched.                                           *)
PlaceRetained(acc, item, terminal) ==
    LET same == {k \in DOMAIN acc.items : ~acc.used[k] /\ acc.items[k].id = item.id}
        alike == {k \in DOMAIN acc.items :
                    /\ k > acc.cursor /\ ~acc.used[k]
                    /\ messages_represent_same_logical_item(acc.items[k], item)}
        found == IF same # {} THEN same ELSE alike
        k == CHOOSE x \in found : \A y \in found : x <= y
    IN IF found # {}
       THEN [items  |-> [acc.items EXCEPT ![k] =
                            merge_snapshot_item(@, item, terminal)],
             used   |-> [acc.used EXCEPT ![k] = TRUE],
             cursor |-> IF k > acc.cursor THEN k ELSE acc.cursor]
       ELSE [items  |-> InsertAt(acc.items, acc.cursor + 1, item),
             used   |-> InsertAt(acc.used, acc.cursor + 1, TRUE),
             cursor |-> acc.cursor + 1]

merge_snapshot_turn(snapshot, retained) ==
    LET terminal == snapshot.status \in Terminal
        start == [items |-> snapshot.items, cursor |-> 0,
                  used |-> [k \in DOMAIN snapshot.items |-> FALSE]]
        placed == FoldLeft(LAMBDA acc, i : PlaceRetained(acc, i, terminal),
                           start, retained.items)
    IN [snapshot EXCEPT !.status = IF terminal THEN @ ELSE retained.status,
                        !.timed = @ \/ retained.timed,
                        !.items = placed.items]

(* The projection with the snapshot merged over its retained turn.         *)
merge_retained_live_turn(p, turns) ==
    LET i == find_snapshot_turn_index(turns, p.retained)
        len == Len(turns)
        slot == IF p.retained.index - 1 < len THEN p.retained.index ELSE len + 1
    IN IF i = 0
       THEN [p EXCEPT !.conversation = InsertAt(turns, slot, p.retained.turn)]
       ELSE LET merged == merge_snapshot_turn(turns[i], p.retained.turn)
            IN [p EXCEPT !.conversation = [turns EXCEPT ![i] = merged],
                         !.retained = [index |-> i, turn |-> merged]]

accept_snapshot(p, turns) ==
    LET q == [p EXCEPT !.forkable = terminal_turn_ids(turns)]
        i == find_snapshot_turn_index(turns, p.retained)
        covered == IF p.retained.index = 0 THEN TRUE
                   ELSE IF i = 0 THEN FALSE
                   ELSE turn_covers(turns[i], p.retained.turn)
    IN IF covered THEN [q EXCEPT !.conversation = turns, !.retained = NoRetained]
       ELSE merge_retained_live_turn(q, turns)

\* mutant of needs_persisted_reconciliation: an ended turn needs no read
needs_persisted_reconciliation_never(p) == FALSE

needs_persisted_reconciliation(p) ==
    /\ p.conversation # <<>>
    /\ Last(p.conversation).status \in Terminal
    /\ Last(p.conversation).id \notin ToSet(p.forkable)

mark_turn_failed(turns, id) ==
    LET i == TurnIndex(turns, id)
        Failed(item) == IF item.status = "running"
                        THEN [item EXCEPT !.status = "failed"] ELSE item
    IN IF i = 0 THEN turns
       ELSE [turns EXCEPT ![i].status = "failed",
                          ![i].items = [k \in DOMAIN @ |-> Failed(@[k])]]

attach(turns) ==
    LET active == SelectLastInSeq(turns, LAMBDA t : t.status = "inProgress")
        id == IF Running(turns) /\ active # 0 THEN turns[active].id ELSE 0
        p == [conversation |-> turns, forkable |-> terminal_turn_ids(turns),
              retained |-> NoRetained, live_turn |-> id,
              runtime |-> IF Running(turns) THEN "active" ELSE "idle"]
    IN retain_turn(p, id)

detach(p) == [p EXCEPT !.live_turn = 0, !.runtime = "detached"]

Shown(p) == [turns |-> p.conversation, forkable |-> p.forkable]

-----------------------------------------------------------------------------
Init ==
    /\ truth = <<>> /\ store = <<>> /\ stream = <<>>
    /\ attached = TRUE
    /\ live = attach(<<>>)
    /\ pending = FALSE /\ driving = 0 /\ due = TRUE
    /\ baseline = <<>>
    /\ view = Shown(attach(<<>>))
    /\ ends = [n \in 1..MaxTurns |-> 0]
    /\ begun = {} /\ idled = {} /\ breaks = 0

(* The app-server: its turns, their notifications and its history.         *)
Tells(es) ==
    /\ attached => Len(stream) + Len(es) <= QueueBound
    /\ stream' = IF attached THEN stream \o es ELSE stream

NewTurn(n) == [NoTurn EXCEPT !.id = n, !.status = "inProgress"]
Status(s) == IF Tracked THEN <<[kind |-> "status", status |-> s]>> ELSE <<>>
Started(n) == [kind |-> "started", turn |-> NewTurn(n)]
Completed(n, status) ==
    [kind |-> "completed",
     turn |-> [NoTurn EXCEPT !.id = n, !.status = status, !.timed = TRUE]]

Current == Len(truth)
Has(kind) == \E i \in ToSet(truth[Current].items) : i.kind = kind
TextOf(kind) ==
    LET items == truth[Current].items
        i == ItemIndex(items, <<Current, kind>>)
    IN IF i = 0 THEN <<>> ELSE items[i].text
Upserts(item) ==
    truth' = [truth EXCEPT ![Current].items = upsert_item(@, item)]
Worker ==
    <<attached, live, pending, driving, due, baseline, view, ends, begun, idled, breaks>>

StreamItem(item) ==
    /\ Running(truth)
    /\ Upserts(item)
    /\ Tells(<<[kind |-> "item", turn |-> Current, item |-> item]>>)
    /\ UNCHANGED <<Worker, store>>

ServerBegins ==
    /\ ByItself /\ truth # <<>> /\ ~Running(truth) /\ Current < MaxTurns
    /\ truth' = Append(truth, NewTurn(Current + 1))
    /\ Tells(Append(Status("active"), Started(Current + 1)))
    /\ UNCHANGED <<Worker, store>>

ServerPrompts ==
    Running(truth) /\ ~Has("user") /\ StreamItem(Item(Current, "user", <<>>, "none"))

CommandStarts ==
    /\ Running(truth) /\ Has("user") /\ ~Has("command") /\ ~Has("agent")
    /\ StreamItem(Item(Current, "command", <<>>, "running"))

CommandRuns ==
    LET id == <<Current, "command">>
        item == Item(Current, "command", <<1>>, "running")
    IN /\ Running(truth) /\ item \notin ToSet(truth[Current].items)
       /\ Item(Current, "command", <<>>, "running") \in ToSet(truth[Current].items)
       /\ Upserts(item)
       /\ Tells(<<[kind |-> "output", turn |-> Current, id |-> id, word |-> 1]>>)
       /\ UNCHANGED <<Worker, store>>

CommandEnds ==
    /\ Running(truth)
    /\ Item(Current, "command", <<1>>, "running") \in ToSet(truth[Current].items)
    /\ \E status \in {"completed", "failed"} :
          StreamItem(Item(Current, "command", <<1>>, status))

CommandIdle ==
    \A i \in ToSet(truth[Current].items) : i.status # "running"

AgentSpeaks ==
    LET text == TextOf("agent")
        word == Len(text) + 1
    IN /\ Running(truth) /\ Has("user") /\ CommandIdle /\ word <= Words
       /\ Upserts(Item(Current, "agent", Append(text, word), "none"))
       /\ Tells(<<[kind |-> "delta", turn |-> Current, id |-> <<Current, "agent">>,
                   word |-> word]>>)
       /\ UNCHANGED <<Worker, store>>

Close(turns, status) ==
    [turns EXCEPT ![Len(turns)] =
        [mark_turn_failed(<<@>>, @.id)[1] EXCEPT !.status = status]]

(* A message is repeated when its item completes; a turn that is           *)
(* interrupted drops the message it was saying or completes it as it is.   *)
(* The order of the turn's end and the thread's status is open.            *)
ServerEnds ==
    \E status \in {"completed", "interrupted"}, first \in BOOLEAN :
        /\ Running(truth) /\ Has("user") /\ CommandIdle
        /\ status = "completed" => TextOf("agent") = AnswerOf(Current)
        /\ truth' = [Close(truth, status) EXCEPT ![Current].timed = TRUE]
        /\ LET agent == Item(Current, "agent", TextOf("agent"), "none")
               whole == IF Has("agent") /\ (DropsUnfinished => agent.text = AnswerOf(Current))
                        THEN <<[kind |-> "item", turn |-> Current, item |-> agent]>>
                        ELSE <<>>
               completed == Completed(Current, status)
               end == IF first THEN Append(Status("idle"), completed)
                      ELSE <<completed>> \o Status("idle")
           IN Tells(whole \o end)
        /\ UNCHANGED <<Worker, store>>

Statuses(turns) == [i \in DOMAIN turns |-> turns[i].status]

(* The history follows; the thread list may or may not tell.               *)
Persist ==
    /\ store # truth
    /\ store' = truth
    /\ \E told \in BOOLEAN : due' = (due \/ told)
    /\ UNCHANGED <<truth, stream, attached, live, pending, driving, baseline, view,
                   ends, begun, idled, breaks>>

-----------------------------------------------------------------------------
Reports(n) == ends' = IF n \in begun THEN [ends EXCEPT ![n] = @ + 1] ELSE ends

(* WriterRuntime::accept_event, of the projection p.                       *)
AcceptEvent(p, e) ==
    LET q == apply_event(p, e)
        changed == ChangesConversation(p, e)
    IN /\ live' = q
       /\ pending' = IF changed THEN Incremental(e) ELSE pending
       /\ view' = IF changed /\ ~Incremental(e) THEN Shown(q) ELSE view

accept_event ==
    /\ attached /\ stream # <<>>
    /\ LET e == Head(stream)
       IN /\ AcceptEvent(live, e)
          /\ stream' = Tail(stream)
          /\ IF e.kind = "completed" THEN Reports(e.turn.id) ELSE UNCHANGED ends
          /\ IF e.kind = "completed" /\ driving = e.turn.id
             THEN driving' = 0 /\ due' = TRUE
             ELSE UNCHANGED <<driving, due>>
          /\ idled' = CASE e.kind = "status" /\ e.status = "idle" -> idled \cup ({driving} \ {0})
                        [] e.kind = "completed" -> idled \ {e.turn.id}
                        [] OTHER -> idled
    /\ UNCHANGED <<server, attached, baseline, begun, breaks>>

(* The emit interval, in the main loop and in run_turn.                    *)
flush_pending_conversation ==
    /\ pending
    /\ pending' = FALSE
    /\ view' = Shown(live)
    /\ UNCHANGED <<server, stream, attached, live, driving, due, baseline, ends,
                   begun, idled, breaks>>

(* run_turn begins: the answer to turn/start is accepted before any        *)
(* notification that is still queued.                                      *)
run_turn ==
    LET n == Current + 1
    IN /\ attached /\ driving = 0 /\ ~Running(truth) /\ n <= MaxTurns
       /\ truth' = Append(truth, NewTurn(n))
       /\ Tells(Append(Status("active"), Started(n)))
       /\ AcceptEvent([live EXCEPT !.live_turn = 0, !.runtime = "starting"], Started(n))
       /\ driving' = n
       /\ begun' = begun \cup {n}
       /\ UNCHANGED <<store, attached, due, baseline, ends, idled, breaks>>

\* mutant of FailStream: what was running is looked at after the detach
FailStream_late ==
    LET p == detach(live)
    IN /\ live' = p /\ pending' = FALSE
       /\ IF p.runtime \in {"starting", "active"} THEN Reports(driving)
          ELSE UNCHANGED ends
       /\ UNCHANGED view

(* WriterRuntime::fail_stream.                                             *)
FailStream ==
    LET turns == mark_turn_failed(live.conversation, live.live_turn)
        marked == live.live_turn # 0 /\ TurnIndex(live.conversation, live.live_turn) # 0
        p == detach(retain_turn([live EXCEPT !.conversation = turns], live.live_turn))
    IN /\ live' = p
       /\ view' = IF marked THEN Shown(p) ELSE view
       /\ IF live.runtime \in {"starting", "active"}
          THEN Reports(IF driving # 0 THEN driving ELSE live.live_turn)
          ELSE UNCHANGED ends
       /\ pending' = FALSE

(* The connection is lost and the app-server's turn with it.               *)
StreamFails ==
    /\ Breaks /\ attached /\ breaks < MaxBreaks
    /\ breaks' = breaks + 1
    /\ attached' = FALSE /\ stream' = <<>>
    /\ \E turns \in {truth, store} :
        /\ Len(turns) = Len(truth)
        /\ truth' = IF Running(turns) THEN Close(turns, "interrupted") ELSE turns
    /\ store' = truth'
    /\ FailStream
    /\ driving' = 0 /\ due' = TRUE
    /\ UNCHANGED <<baseline, begun, idled>>

(* The writer is released.                                                 *)
release_write ==
    /\ attached /\ driving = 0 /\ breaks < MaxBreaks
    /\ breaks' = breaks + 1
    /\ attached' = FALSE /\ stream' = <<>>
    /\ live' = detach(live)
    /\ pending' = FALSE
    /\ UNCHANGED <<server, driving, due, baseline, view, ends, begun, idled>>

(* The writer is acquired again: the app-server resumes the thread.        *)
acquire_write ==
    LET p == attach(Persisted(truth))
    IN /\ ~attached
       /\ attached' = TRUE /\ live' = p /\ view' = Shown(p)
       /\ pending' = FALSE
       /\ UNCHANGED <<server, stream, driving, due, baseline, ends, begun, idled, breaks>>

(* A poll's read changes the conversation or its fork points.              *)
Accepts(p, q) == p.conversation # q.conversation \/ p.forkable # q.forkable

(* A poll of the conversation that is due; the main loop polls nothing     *)
(* while it drives a turn.                                                 *)
poll_conversation ==
    LET turns == Persisted(store)
        p == IF turns = baseline THEN live ELSE accept_snapshot(live, turns)
    IN /\ due /\ driving = 0
       /\ baseline' = turns
       /\ live' = p
       /\ view' = IF Accepts(live, p) THEN Shown(p) ELSE view
       /\ due' = (Running(turns) \/ needs_persisted_reconciliation(p))
       /\ UNCHANGED <<server, stream, attached, pending, driving, ends, begun, idled, breaks>>

Server ==
    \/ ServerBegins \/ ServerPrompts
    \/ CommandStarts \/ CommandRuns \/ CommandEnds
    \/ AgentSpeaks \/ ServerEnds \/ Persist

Next ==
    \/ Server
    \/ accept_event \/ flush_pending_conversation
    \/ run_turn \/ StreamFails
    \/ release_write \/ acquire_write
    \/ poll_conversation

Spec == Init /\ [][Next]_vars

\* There is something to hear, to emit or to store, or a turn to go on with
\* that is not kept waiting to be heard; and what does these.
IsBusy ==
    \/ attached /\ stream # <<>>
    \/ pending
    \/ store # truth
    \/ Running(truth)
GoesOn ==
    \/ accept_event \/ flush_pending_conversation \/ Persist
    \/ ServerEnds \/ ServerPrompts \/ CommandRuns \/ CommandEnds

-----------------------------------------------------------------------------
TurnIds == 0..MaxTurns + 1
Texts == UNION {[1..k -> 1..Words] : k \in 0..Words}

ItemOK(i) ==
    /\ i.id = <<i.id[1], i.kind>> /\ i.id[1] \in TurnIds
    /\ i.kind \in Messages \cup {"command"}
    /\ i.status \in Terminal \cup {"none", "running"}
TurnOK(t) ==
    /\ t.id \in TurnIds \ {0} /\ t.status \in Terminal \cup {"inProgress"}
    /\ t.timed \in BOOLEAN
    /\ \A i \in ToSet(t.items) : ItemOK(i)
TurnsOK(turns) == \A t \in ToSet(turns) : TurnOK(t)

TypeOK ==
    /\ \A turns \in {truth, store, baseline, live.conversation, view.turns} :
          TurnsOK(turns)
    /\ live.retained = NoRetained \/
          (live.retained.index \in 1..MaxTurns + 1
           /\ live.retained.turn \in ToSet(live.conversation))
    /\ live.live_turn \in TurnIds
    /\ live.runtime \in {"detached", "starting", "active", "idle"}
    /\ driving \in 0..MaxTurns /\ begun \subseteq 1..MaxTurns /\ idled \subseteq begun
    /\ {attached, pending, due} \subseteq BOOLEAN
    /\ breaks \in 0..MaxBreaks

(* Everything said has been heard and everything stored has been read.     *)
Settled ==
    /\ stream = <<>> /\ driving = 0 /\ ~Running(truth)
    /\ store = truth /\ baseline = Persisted(store) /\ ~due

(* When all is quiet the application shows the turns of the history, each  *)
(* once, with its status and all of its items, and no item twice: what was *)
(* heard live and what was read are recognised as the same.                *)
Singular ==
    Settled /\ ~pending =>
        /\ Ids(view.turns) = Ids(baseline)
        /\ Statuses(view.turns) = Statuses(baseline)
        /\ \A n \in DOMAIN baseline :
              LET shown == view.turns[n].items
              IN /\ ToSet(baseline[n].items) \subseteq ToSet(shown)
                 /\ \A i, j \in DOMAIN shown : shown[i].kind = shown[j].kind => i = j

(* A turn can be forked at once it is stored, and nothing else can: when   *)
(* all is quiet the application can fork every turn it shows.              *)
ForkableIsShown ==
    Settled => view.forkable = Ids(view.turns)

(* The end of a turn that run_turn began is reported exactly once, by its  *)
(* completion or by an error.  Only when the connection is lost between     *)
(* the status that tells the thread idle and the turn's completion is      *)
(* neither reported: fail_stream then finds no turn active.                *)
EndIsReportedOnce ==
    \A n \in begun :
        \/ ends[n] = IF driving = n THEN 0 ELSE 1
        \/ ends[n] = 0 /\ n \in idled

(* A history read that does not have the turn's end takes nothing away of  *)
(* the retained turn: its messages keep their words, its commands that     *)
(* ended stay ended, and a turn that ended stays ended.                    *)
LivePollKeeps ==
    /\ poll_conversation /\ live.retained # NoRetained
    /\ ~\E t \in ToSet(Ended(Persisted(store))) :
          t.id \in {live.retained.turn.id, StoredId(live.retained.turn.id)}
    =>
    LET before == live.retained.turn
        after == UNION {ToSet(t.items) : t \in ToSet(live'.conversation)}
    IN /\ \A i \in ToSet(before.items) :
             \E j \in after :
                /\ j.kind = i.kind
                /\ i.kind = "agent" => IsPrefix(i.text, j.text)
                /\ i.status \in Terminal => j.status = i.status
       /\ before.status \in Terminal =>
             \E t \in ToSet(live'.conversation) : t.status = before.status

(* The conversation is read back in full: the turns shown are the          *)
(* history's and all of them can be forked.                                *)
ReadBack == Ids(Persisted(truth)) = Ids(view.turns) /\ view.forkable = Ids(view.turns)
=============================================================================
