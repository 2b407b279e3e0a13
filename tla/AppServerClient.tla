--------------------------- MODULE AppServerClient ---------------------------
(***************************************************************************)
(* One connection to a Codex app-server: the line protocol                  *)
(* (protocol/connection.rs), the interactions pending on a subscription     *)
(* (SubscriptionState in client.rs), the client's requests with their       *)
(* timeout and cancellation, and the life of the child process              *)
(* (app_server.rs).  The app-server is the environment: it emits            *)
(* notifications, asks questions, answers requests late or never, writes a  *)
(* stray line and exits, at any time.                                       *)
(*                                                                          *)
(* The client has one owner, which has one call in progress at a time: a    *)
(* request (`request`), the reply to a question the client cannot present   *)
(* (`refused`), or a read of the next event, which can be dropped while it  *)
(* waits for a message without losing anything (read_buffer).               *)
(***************************************************************************)
EXTENDS Integers, Sequences, FiniteSets, Functions

CONSTANTS Threads, Turns,
          Active,           \* turns that run when the client connects
          Asks,             \* requests of the app-server, by their request id
          ThreadOf,         \* the thread of a turn
          TurnOf,           \* the turn of a question
          Supported,        \* the questions Craftward can present
          Questions,        \* the parts of a question for user input
          PartsOf,          \* the parts of a question; none for an approval
          MaxInteractionId, \* u64::MAX
          MaxRequests,      \* bound on the client's requests
          MaxSent,          \* bound on the messages of the stream
          MaxStray,         \* bound on the lines that are no message at all
          None

ASSUME StreamAssumption ==
    /\ ThreadOf \in [Turns -> Threads]
    /\ TurnOf \in [Asks -> Turns]
    /\ Active \subseteq Turns /\ Supported \subseteq Asks
    /\ PartsOf \in [Asks -> SUBSET Questions]
ASSUME InteractionIdAssumption == MaxInteractionId \in Nat \ {0}
ASSUME NoneAssumption == None \notin Asks
ASSUME BoundsAssumption == MaxRequests \in Nat /\ MaxSent \in Nat

VARIABLES
    life,                    \* of the CodexClient
    child,                   \* the app-server process
    cancelled,               \* CancellationToken
    request,                 \* the request whose answer is awaited
    next_request_id,
    input,                   \* what the app-server has written
    pending_server_messages,
    pending,                 \* SubscriptionState::pending
    next_interaction_id,
    queued_events,
    refused,                 \* a question whose error reply is being written
    turns,                   \* the app-server: the state of each turn
    asked,                   \* whether it has asked a question, and settled it
    todo,                    \* the requests it has yet to answer
    sent,                    \* messages of the stream so far
    stray,                   \* stray lines so far
    handed,                  \* of those, taken up by the owner's event loop
    shown,                   \* per thread: the questions the owner was told of
    finished,                \* turns the owner was told are complete
    replies,                 \* replies written, per question
    outcome                  \* how the last request ended

process == <<life, child, cancelled>>
connection == <<request, next_request_id, input, pending_server_messages>>
subscription == <<pending, next_interaction_id, queued_events, refused>>
server == <<turns, asked, todo, sent, stray>>
owner == <<handed, shown, finished, replies, outcome>>
vars == <<process, connection, subscription, server, owner>>

Methods == {"initialize", "subscribe", "turn", "call"}
InteractionIds == 1 .. MaxInteractionId
StreamKinds == {"item", "resolved", "completed", "ask"}
Notification(kind, of) == [kind |-> kind, of |-> of, n |-> sent + 1]
IsStream(message) == message.kind \in StreamKinds

Messages ==
    [kind : {"item", "completed"}, of : Turns, n : 1 .. MaxSent]
      \cup [kind : {"ask", "resolved"}, of : Asks, n : 1 .. MaxSent]
      \cup [kind : {"response"}, of : 1 .. MaxRequests, n : {0}]
      \cup [kind : {"stray"}, of : {None}, n : {0}]

TypeOK ==
    /\ life \in {"new", "handshake", "open", "stopping", "gone"}
    /\ child \in {"absent", "running", "exited"} /\ cancelled \in BOOLEAN
    /\ request \in {None} \cup [id : 1 .. MaxRequests, method : Methods]
    /\ next_request_id \in 1 .. MaxRequests + 1
    /\ input \in Seq(Messages) /\ pending_server_messages \in Seq(Messages)
    /\ pending \in UNION {[ids -> Supported] : ids \in SUBSET InteractionIds}
    /\ next_interaction_id \in InteractionIds
    /\ queued_events \in Seq(Turns) /\ Len(queued_events) <= 1
    /\ refused \in (Asks \ Supported) \cup {None}
    /\ turns \in [Turns -> {"new", "running", "completed"}]
    /\ asked \in [Asks -> {"no", "open", "settled"}]
    /\ todo \subseteq 1 .. MaxRequests
    /\ sent \in 0 .. MaxSent /\ stray \in Nat /\ handed \in 0 .. MaxSent
    /\ shown \in [Threads -> SUBSET Supported] /\ finished \subseteq Turns
    /\ replies \in [Asks -> Nat]

Init ==
    /\ life = "new" /\ child = "absent" /\ cancelled = FALSE
    /\ request = None /\ next_request_id = 1
    /\ input = <<>> /\ pending_server_messages = <<>>
    /\ pending = << >> /\ next_interaction_id = 1
    /\ queued_events = <<>> /\ refused = None
    /\ turns = [turn \in Turns |-> IF turn \in Active THEN "running" ELSE "new"]
    /\ asked = [ask \in Asks |-> "no"] /\ todo = {}
    /\ sent = 0 /\ stray = 0 /\ handed = 0
    /\ shown = [thread \in Threads |-> {}] /\ finished = {}
    /\ replies = [ask \in Asks |-> 0]
    /\ outcome = [id |-> None, answer |-> None]

---------------------------------------------------------------------------
(* The app-server                                                           *)

Emit(kind, of) ==
    /\ child = "running" /\ sent < MaxSent
    /\ input' = Append(input, Notification(kind, of))
    /\ sent' = sent + 1
    /\ UNCHANGED <<process, request, next_request_id, pending_server_messages,
                   subscription, todo, stray, owner>>

ServerStartsTurn(turn) ==
    /\ turns[turn] = "new" /\ turns' = [turns EXCEPT ![turn] = "running"]
    /\ Emit("item", turn) /\ UNCHANGED asked
ServerAsks(ask) ==
    /\ asked[ask] = "no" /\ turns[TurnOf[ask]] = "running"
    /\ asked' = [asked EXCEPT ![ask] = "open"]
    /\ Emit("ask", ask) /\ UNCHANGED turns
\* A question is settled by its answer, by the app-server itself, or by
\* another client of the same thread.
ServerResolves(ask) ==
    /\ asked[ask] = "open" /\ asked' = [asked EXCEPT ![ask] = "settled"]
    /\ Emit("resolved", ask) /\ UNCHANGED turns
ServerCompletesTurn(turn) ==
    /\ turns[turn] = "running" /\ turns' = [turns EXCEPT ![turn] = "completed"]
    /\ Emit("completed", turn) /\ UNCHANGED asked

ServerAnswers(id) ==
    /\ child = "running" /\ id \in todo
    /\ input' = Append(input, [kind |-> "response", of |-> id, n |-> 0])
    /\ todo' = todo \ {id}
    /\ UNCHANGED <<process, request, next_request_id, pending_server_messages,
                   subscription, turns, asked, sent, stray, owner>>
ServerWritesStrayLine ==
    /\ child = "running" /\ stray < MaxStray
    /\ input' = Append(input, [kind |-> "stray", of |-> None, n |-> 0])
    /\ stray' = stray + 1
    /\ UNCHANGED <<process, request, next_request_id, pending_server_messages,
                   subscription, turns, asked, todo, sent, owner>>
ServerExits ==
    /\ child = "running" /\ child' = "exited"
    /\ UNCHANGED <<life, cancelled, connection, subscription, server, owner>>

---------------------------------------------------------------------------
(* Requests                                                                 *)

\* The request is written; when the child has exited the write fails, and the
\* request with it, and the connection is kept.
Write(method) ==
    /\ next_request_id <= MaxRequests
    /\ next_request_id' = next_request_id + 1
    /\ request' = [id |-> next_request_id, method |-> method]
    /\ todo' = todo \cup {next_request_id}
    /\ UNCHANGED <<cancelled, input, pending_server_messages, subscription,
                   turns, asked, sent, stray, owner>>

Connect ==
    /\ life = "new"
    /\ IF cancelled
         THEN life' = "gone" /\ UNCHANGED <<child, cancelled, connection,
                                            subscription, server, owner>>
         ELSE child' = "running" /\ life' = "handshake" /\ Write("initialize")
SpawnFails ==
    /\ life = "new" /\ life' = "gone"
    /\ UNCHANGED <<child, cancelled, connection, subscription, server, owner>>

Idle == life = "open" /\ request = None /\ refused = None /\ ~cancelled

BeginRequest(method) ==
    /\ Idle /\ child = "running" /\ method # "initialize"
    /\ Write(method) /\ UNCHANGED <<life, child>>

\* What a request leaves behind: a failed handshake stops the child, a
\* subscription starts with nothing pending.
EndRequest(succeeded) ==
    /\ request' = None
    /\ IF request.method = "initialize"
         THEN life' = IF succeeded THEN "open" ELSE "stopping"
         ELSE UNCHANGED life
    /\ IF succeeded /\ request.method = "subscribe"
         THEN /\ pending' = << >> /\ queued_events' = <<>>
              /\ shown' = [thread \in Threads |-> {}]
         ELSE UNCHANGED <<pending, queued_events, shown>>
    /\ UNCHANGED <<child, cancelled, next_request_id, next_interaction_id,
                   refused, server, handed, finished, replies>>

Awaiting == request # None /\ ~cancelled

\* mutant of RequestKeepsMessage: the latest message is put in front
RequestKeepsMessage_in_front ==
    /\ Awaiting /\ input # <<>> /\ IsStream(Head(input))
    /\ pending_server_messages' = <<Head(input)>> \o pending_server_messages
    /\ input' = Tail(input)
    /\ UNCHANGED <<process, request, next_request_id, subscription, server,
                   owner>>

RequestKeepsMessage ==
    /\ Awaiting /\ input # <<>> /\ IsStream(Head(input))
    /\ pending_server_messages' = Append(pending_server_messages, Head(input))
    /\ input' = Tail(input)
    /\ UNCHANGED <<process, request, next_request_id, subscription, server,
                   owner>>

RequestReadsAnswer ==
    /\ Awaiting /\ input # <<>> /\ ~IsStream(Head(input))
    /\ input' = Tail(input) /\ UNCHANGED pending_server_messages
    /\ IF Head(input).kind = "response" /\ Head(input).of = request.id
         THEN \E accepted \in BOOLEAN : \* an error, or a body it cannot decode
                /\ EndRequest(accepted)
                /\ outcome' = [id |-> request.id, answer |-> Head(input).of]
         ELSE /\ EndRequest(FALSE)
              /\ outcome' = [id |-> request.id, answer |-> None]

RequestMeetsEof ==
    /\ Awaiting /\ input = <<>> /\ child = "exited"
    /\ EndRequest(FALSE) /\ outcome' = [id |-> request.id, answer |-> None]
    /\ UNCHANGED <<input, pending_server_messages>>

\* turn/start has no timeout.  The connection is dropped with the child.
RequestTimesOut ==
    /\ Awaiting /\ request.method # "turn"
    /\ request' = None /\ life' = "stopping"
    /\ outcome' = [id |-> request.id, answer |-> None]
    /\ UNCHANGED <<child, cancelled, next_request_id, input,
                   pending_server_messages, subscription, server, handed,
                   shown, finished, replies>>

RequestInterrupted ==
    /\ request # None /\ cancelled
    /\ EndRequest(FALSE) /\ outcome' = [id |-> request.id, answer |-> None]
    /\ UNCHANGED <<input, pending_server_messages>>

---------------------------------------------------------------------------
(* The subscription                                                         *)

QuestionsOn(entries, thread) ==
    {entries[id] : id \in {i \in DOMAIN entries :
                             ThreadOf[TurnOf[entries[i]]] = thread}}
\* PendingInteractionsUpdated: the owner is told all that is pending there.
update_event(thread) ==
    shown' = [shown EXCEPT ![thread] = QuestionsOn(pending', thread)]

\* mutant of Successor: the identifier does not wrap
Successor_unbounded(id) == id + 1

Successor(id) == IF id = MaxInteractionId THEN 1 ELSE id + 1
Unused(id) == id \notin DOMAIN pending
Distance(id) == (id - next_interaction_id) % MaxInteractionId
\* mutant of allocate_interaction_id: an identifier in use is given again
allocate_interaction_id_unchecked == next_interaction_id

allocate_interaction_id ==
    CHOOSE id \in InteractionIds :
        /\ Unused(id)
        /\ \A other \in InteractionIds :
              Unused(other) => Distance(id) <= Distance(other)

Without(ids) == Restrict(pending, DOMAIN pending \ ids)
remove_external(ask) ==
    LET ids == {id \in DOMAIN pending : pending[id] = ask}
    IN  {id \in ids : \A other \in ids : id <= other}
finish_turn(turn) == {id \in DOMAIN pending : TurnOf[pending[id]] = turn}

Source == IF pending_server_messages # <<>> THEN pending_server_messages
                                            ELSE input
Message == Head(Source)
\* next_server_message: what a request has put aside comes first.
next_server_message ==
    /\ Idle /\ queued_events = <<>> /\ Source # <<>>
    /\ IF pending_server_messages # <<>>
         THEN /\ pending_server_messages' = Tail(pending_server_messages)
              /\ UNCHANGED input
         ELSE input' = Tail(input) /\ UNCHANGED pending_server_messages
    /\ handed' = IF IsStream(Message) THEN handed + 1 ELSE handed
    /\ UNCHANGED <<process, request, next_request_id, server, replies, outcome>>

NextQueuedEvent ==
    /\ Idle /\ queued_events # <<>>
    /\ queued_events' = Tail(queued_events)
    /\ finished' = finished \cup {Head(queued_events)}
    /\ UNCHANGED <<process, connection, pending, next_interaction_id, refused,
                   server, handed, shown, replies, outcome>>

\* An item, a notification that is ignored, or a line that is an error here.
NextItem ==
    /\ next_server_message /\ Message.kind \in {"item", "response", "stray"}
    /\ UNCHANGED <<subscription, shown, finished>>

NextResolved ==
    /\ next_server_message /\ Message.kind = "resolved"
    /\ LET ids == remove_external(Message.of)
       IN  /\ pending' = Without(ids)
           /\ IF ids = {} THEN UNCHANGED shown
                          ELSE update_event(ThreadOf[TurnOf[Message.of]])
    /\ UNCHANGED <<next_interaction_id, queued_events, refused, finished>>

\* Questions the turn leaves unanswered are withdrawn before its completion.
NextCompleted ==
    /\ next_server_message /\ Message.kind = "completed"
    /\ LET ids == finish_turn(Message.of)
       IN  /\ pending' = Without(ids)
           /\ IF ids = {}
                THEN /\ finished' = finished \cup {Message.of}
                     /\ UNCHANGED <<queued_events, shown>>
                ELSE /\ queued_events' = Append(queued_events, Message.of)
                     /\ update_event(ThreadOf[Message.of])
                     /\ UNCHANGED finished
    /\ UNCHANGED <<next_interaction_id, refused>>

\* Approvals of commands and of file changes, and user input; of other methods
\* nothing is known but the name.
pending_interaction(ask) == ask \in Supported

NextQuestion ==
    /\ next_server_message /\ Message.kind = "ask"
    /\ \E id \in InteractionIds : Unused(id) \* of 2^64 ids, one always is
    /\ next_interaction_id' = Successor(allocate_interaction_id)
    /\ IF pending_interaction(Message.of)
         THEN /\ pending' = [id \in DOMAIN pending \cup {allocate_interaction_id} |->
                               IF id = allocate_interaction_id THEN Message.of
                                                               ELSE pending[id]]
              /\ update_event(ThreadOf[TurnOf[Message.of]])
              /\ UNCHANGED refused
         ELSE refused' = Message.of /\ UNCHANGED <<pending, shown>>
    /\ UNCHANGED <<queued_events, finished>>

\* mutant of RefuseQuestion: it waits for an app-server that reads
RefuseQuestion_when_read ==
    /\ refused # None /\ child = "running" /\ refused' = None
    /\ replies' = [replies EXCEPT ![refused] = @ + 1]
    /\ UNCHANGED <<process, connection, pending, next_interaction_id,
                   queued_events, server, handed, shown, finished, outcome>>

\* The error reply is written.  The owner may drop the call meanwhile: the
\* reply stays in the buffer of the writer, only the event is lost.
RefuseQuestion ==
    /\ refused # None /\ refused' = None
    /\ replies' = [replies EXCEPT ![refused] =
                     IF child = "running" THEN @ + 1 ELSE @]
    /\ UNCHANGED <<process, connection, pending, next_interaction_id,
                   queued_events, server, handed, shown, finished, outcome>>

\* interaction_result: a decision for an approval; for user input one answer
\* for each part and for nothing else.
Bodies == {<<"decision">>} \cup
          {<<"answers", answers>> : answers \in UNION {[1 .. n -> Questions] : n \in 0 .. 2}}
interaction_result(ask, body) ==
    IF PartsOf[ask] = {}
      THEN body = <<"decision">>
      ELSE /\ body[1] = "answers"
           /\ IsInjective(body[2])
           /\ Range(body[2]) = PartsOf[ask]

\* mutant of resolve: the owner is not told what is left
resolve_silently(id, body) ==
    /\ Idle /\ id \in DOMAIN pending
    /\ interaction_result(pending[id], body)
    /\ child = "running"
    /\ replies' = [replies EXCEPT ![pending[id]] = @ + 1]
    /\ pending' = Without({id})
    /\ UNCHANGED <<process, connection, next_interaction_id, queued_events,
                   refused, server, handed, shown, finished, outcome>>

resolve(id, body) ==
    /\ Idle /\ id \in DOMAIN pending
    /\ interaction_result(pending[id], body)
    /\ child = "running"
    /\ replies' = [replies EXCEPT ![pending[id]] = @ + 1]
    /\ pending' = Without({id})
    /\ update_event(ThreadOf[TurnOf[pending[id]]])
    /\ UNCHANGED <<process, connection, next_interaction_id, queued_events,
                   refused, server, handed, finished, outcome>>

---------------------------------------------------------------------------
(* The end                                                                  *)

Cancel ==
    /\ ~cancelled /\ cancelled' = TRUE
    /\ UNCHANGED <<life, child, connection, subscription, server, owner>>
Shutdown ==
    /\ life = "open" /\ request = None /\ refused = None /\ life' = "stopping"
    /\ UNCHANGED <<child, cancelled, connection, subscription, server, owner>>
\* terminate_child: a child that runs is killed and waited for.
terminate_child ==
    /\ life = "stopping" /\ child' = "exited" /\ life' = "gone"
    /\ UNCHANGED <<cancelled, connection, subscription, server, owner>>

ServerNext ==
    \/ \E turn \in Turns : ServerStartsTurn(turn) \/ ServerCompletesTurn(turn)
    \/ \E ask \in Asks : ServerAsks(ask) \/ ServerResolves(ask)
    \/ \E id \in todo : ServerAnswers(id)
    \/ ServerWritesStrayLine
    \/ ServerExits
Await ==
    \/ RequestKeepsMessage \/ RequestReadsAnswer \/ RequestMeetsEof
    \/ RequestInterrupted
NextEvent ==
    \/ NextQueuedEvent \/ NextItem \/ NextResolved \/ NextCompleted
    \/ NextQuestion
Next ==
    \/ Connect \/ SpawnFails
    \/ \E method \in Methods : BeginRequest(method)
    \/ Await \/ RequestTimesOut \/ NextEvent \/ RefuseQuestion
    \/ \E id \in InteractionIds, body \in Bodies : resolve(id, body)
    \/ Cancel \/ Shutdown \/ terminate_child
    \/ ServerNext

Fairness ==
    /\ WF_vars(Await) /\ WF_vars(RequestTimesOut)
    /\ WF_vars(NextEvent) /\ WF_vars(RefuseQuestion) /\ WF_vars(terminate_child)
Spec == Init /\ [][Next]_vars /\ Fairness

---------------------------------------------------------------------------
(* Properties                                                               *)

\* The messages of the stream among those that wait.
Stream(messages) == {i \in DOMAIN messages : IsStream(messages[i])}

\* Every message of the stream reaches the owner's event loop once, in the
\* order of the app-server, however many requests were awaited in between.
StreamKeepsItsOrder ==
    LET waiting == pending_server_messages \o input
    IN  /\ {waiting[i].n : i \in Stream(waiting)} = handed + 1 .. sent
        /\ \A i, j \in Stream(waiting) : i < j => waiting[i].n < waiting[j].n

\* What the owner was last told is pending on a thread is what is pending
\* there: it neither offers a question that is settled nor misses one.
ShownIsPending ==
    \A thread \in Threads : shown[thread] = QuestionsOn(pending, thread)

\* When the owner learns that a turn is complete, none of its questions is
\* left for the user.
FinishedTurnAsksNothing ==
    \A thread \in Threads :
        \A ask \in shown[thread] : TurnOf[ask] \notin finished

\* A question is replied to once at most: not by a second answer, and not by
\* an answer on top of a refusal.
RepliedOnce == \A ask \in Asks : replies[ask] <= 1

\* A request never takes the answer to another one for its own, also when a
\* stray line made an earlier request leave its answer behind.
AnswerIsItsOwn == outcome.answer \in {None, outcome.id}

\* A question keeps its interaction id and an id its question while pending,
\* when the ids have wrapped around as well.
InteractionKeepsItsQuestion ==
    [][\A id \in DOMAIN pending \cap DOMAIN pending' : pending[id] = pending'[id]]_vars

\* No child process outlives its client.
ChildIsReaped == life = "gone" => child # "running"

\* A request other than turn/start ends, whatever the app-server does.
RequestEnds ==
    (request # None /\ request.method # "turn") ~> (request = None)

\* An owner that goes on reading learns of every message of the stream.
StreamIsDelivered ==
    (sent > handed) ~> (sent = handed \/ cancelled \/ life # "open"
                          \/ (request # None /\ request.method = "turn"))
=============================================================================
