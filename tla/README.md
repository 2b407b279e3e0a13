# Craftward: verification of the core

Craftward is a desktop application (Qt, C++) around a Rust core, *Ward*. It lets a user
read and continue Codex conversations kept by an app-server, and run macOS guests
("realms"). This directory holds TLA+ modules that model the parts of the core where
concurrency, failure and ordering decide whether it works, the TLC configurations that
check them, and TLAPS proofs of the facts that hold for every instance.

All paths below are relative to the repository. `observer/` stands for
`core/ward-core/src/ffi/codex/observer/`.

## 1. Inventory

| Component | State | Operations | Interacts with | Hard behaviour | Correct when |
|---|---|---|---|---|---|
| Observer handle (`observer/mod.rs`) | operation gate, channel sender, cancellation, worker thread | one C function per command, drop | worker: bounded channel of 32, gate, cancellation; clients on any thread | gate race, full channel, drop during anything | gate and requests in flight agree; drop returns |
| Commands (`observer/commands`) | `CommandUpdate` | `merge_command`, `merge`, drain | handle and worker | order of coalesced commands | nothing lost, reordered within a kind, or doubled |
| Worker loop (`observer/worker/actor.rs`, `operation.rs`) | watched thread, deferred updates, timers | drain, work an update off, poll, drive an operation | all of the observer | commands arriving while an operation is awaited, cancellation | as promised by the handle |
| Observer state, writer runtime, live projection (`worker/state.rs`, `writer.rs`, `live/`) | session, writer, projection of the thread | select, acquire, release, start, fork, archive, turn, control | app-server through a writer | partial failure, stream errors, stale controls | writer, projection and watch agree |
| Poll health (`worker/polling.rs`) | last error, threads not yet persisted | observe, reset, classify | worker | repeated errors, recovery | every change of health is told once |
| App-server client (`core/ward-codex`: `client.rs`, `protocol/`) | connection, pending messages, pending interactions | request, next event, resolve | app-server process | interleaved responses, cancelled reads | no event lost or reordered |
| History session and writer (`history.rs`) | connections, baselines | poll, rename, archive, acquire, turn | client | reconnect and retry, lost answers | a mutation is never repeated |
| History and conversation controllers (`app/src/ward/codex`) | selection, loading and pending flags, turn state | slots, events from the observer | observer by commands and queued events | stale events, flags never cleared | no flag is stuck |
| Realm machine (`core/ward-realm-vz/bridge/macos_vm.mm`, `macos_machine_state.mm`, `src/macos/vm.rs`, `ward-core/src/ffi/realm.rs`) | VM state, saved-state files, pending completion | start, pause, resume, stop, suspend, restore, discard | virtualization framework, controller by status events | guest stopping by itself, crash between file steps | a saved state is used only if the disk has not moved on |
| Realm controller (`app/src/ward/realm`) | cached capabilities, pending command | slots, status events | realm machine | status queued before a command | the bundle is not changed under a running guest |
| Realm bundle and installation (`core/ward-realm`, `ward-core/src/macos.rs`) | manifest, artifacts, installation state | begin, publish, open, persist, install | file system | crash while replacing, failed rollback | a bundle opens in a state it was put in |
| Highlighting document (`core/ward-highlighting/src/document.rs`) | text, checkpoints, pending batch | edit, configure, step, acknowledge | editor on another thread | edits racing results | styles converge to a complete parse |
| Messages (`core/ward-codex/src/user_message.rs`, `ffi/codex/wire.rs`) | none | parse the envelope of a message, merge its attachments | clients that write envelopes; the conversation view | near misses of the envelope, paths written otherwise | a message is recognised just if it is an envelope in one way |
| Pending interactions (`ward-codex`, `writer.rs`, `codexinteractionmodel.cpp`) | questions by id, cards, those being answered | ask, list, answer, resolve, withdraw | app-server, writer, application | a question settled by somebody else, another writer | an answer reaches the question it was given to |
| Others: markup, terminal tabs, timeline models, editor adapter, command line, shell | | | | single-threaded views and text processing | |

`PROJECT.json` lists each with its sources, and under `hazards` the places where the code
is hard to test.

## 2. What is modelled

### CommandUpdate
The commands and the update they are coalesced into, as pure operators: `merge_command`,
`merge`, `is_empty`, `is_exclusive_operation_only` carry the names of `commands/mod.rs`.
Optional fields take the newest intent (`Newest`) except the three exclusive requests,
which keep the first (`First`); lifecycle requests and controls queue up. Payloads are
dropped. Turns are numbered by the order in which they are asked for, and controls carry
the number of the turn in effect when they were issued, so that properties can tell which
turn a control was meant for.

### CommandDeferral
What `drive_operation` and `run_observer` do to a stream of commands: arrivals are merged
into the deferral of the operation in flight, which is merged into `following` when the
operation completes. `whole` is a history variable: the update one drain would have built. It is a
part of `MCApplication`.

### WriterRuntime
The writer and the live projection as one record, with `reset`, `attach`, `detach`,
`begin_turn`, `fail_stream`, `release_write`, `apply_event` and `apply_controls` as
operators on it. Turns and items of the snapshot are left out; the runtime state and the
turn in progress are kept because commands and controls depend on them.

### ObserverActor
Clients, gate, channel and worker. `stage` is the worker's await point:

| `stage` | code |
|---|---|
| `top` | loop top and its select (`actor.rs:98-246`) |
| `drain` | between `recv` and the last `try_recv` (`drain_commands`, `actor.rs:275-287`) |
| `pollHistory`, `pollConversation` | polls under `drive_operation` (threads or models, conversation) |
| `scope`, `watch`, `rename`, `fork`, `lifecycle`, `deselect`, `write`, `start`, `turnSelect` | the parts of an update, each under `drive_operation` |
| `turn`, `turnBegin`, `turnRun`, `turnDrain` | `WriterRuntime::run_turn` |
| `finish` | controls without a turn, `following` becomes the deferred update |
| `exit`, `stopped` | after the loop |

`update` holds what is left of the update, `driven` what arrived during the operation in
flight, `following` what earlier operations of the update deferred, `pending` the deferred
update of the loop. An operation's effect on writer, projection and watch takes place when
it completes: only the worker reads that state. An operation that is awaited after the
cancellation has no effect in the model, since only the shutdown follows.

The app-server is a choice: every request may succeed or fail, a subscription brings any
status, events come in any order, a lost answer may hide a turn that was begun
(`TurnFailsToBegin`). Timers are abstracted to "may be due"; this covers polling switched
on and off. Clients name threads that exist; turns and controls name the thread selected
last, as the interface asks. They need not wait for any event.

### ExclusiveOperations, ObserverOperations
The abstract promise about thread starts, forks and turns (idle, reserved, accepted,
running), and the refinement mapping under which the observer implements it.

### AppServerClient
One connection of `ward-codex`: the child process, the handshake, a request in flight with
its timeout and cancellation, the messages put aside while an answer is awaited
(`pending_server_messages`), the subscription with its pending interactions and queued
events, and the shutdown. `input` is what the app-server has written and the client has not
read. The app-server starts and completes turns, asks, resolves, answers, writes a stray
line or exits at any time. Notifications are numbered as they are sent, so that
`StreamKeepsItsOrder` can tell loss from reordering. Texts, and what a call is about, are
left out; an answer is known by the identifier it carries.

### HistorySession, ThreadListing, ThreadWriters
`HistorySession` reads a thread completely or from the cursor of the last read
(`history.rs`, `poll_thread`), while other clients add turns, roll them back or change the
last one; `view` is what the caller has, `previous` what "unchanged" is relative to.
`ThreadListing` loads the pages of `thread/list` while threads are created, updated and
archived between two pages; a page may overlap the one before it (`Overlaps`).
`ThreadWriters` is about operations that change threads (rename, archive, start, fork,
acquire), each on a process of its own or on the session's: an answer may be lost before or
after the request took effect, and `applied` counts how often it did.

### TurnInference
What a turn is run with: the options, the model and effort the client remembers, the model
catalog loaded for a turn that selects a model, the parameters sent. An app-server that does
not report its model is sent no mode. Any error while a turn is begun ends the writer, so the
property speaks of turns that are begun.

### UserMessage
The envelope around a user's message and its attachments. A text is a sequence of lines, a
line is known by what it is; the lines of files keep every place where they may be split. The
JSON of annotations is one line. Texts come with at most one mistake (a line too many, missing
or replaced, or an early end); attachments are added to texts without mistake. `Envelopes`
is the reference: the ways in which a text consists of sections and a request. UNC and POSIX
paths of the same names are one resource in the code (`wire.rs:491`), and in the reference.

### ObserverPolling
The worker's three polls, their health, what was read of a thread that was just started, the
events this emits, and what the application shows of them: lists, loading flags, errors. A
poll is one step; which of the polls due comes first is open. Errors that repeat are not
emitted. The application's selection, scope and refresh change what is polled. A read that
brings nothing new is not emitted either, whatever the application waits for: the user's refresh
of a conversation that is shown sets its loading flag, and nothing takes it away (finding 3).

### LiveProjection
The conversation folded from stream events and history reads (`live/mod.rs`), the turn that is
retained while it runs or until it is persisted, the fork points, and `run_turn` with the end
of a turn. The app-server is external: its history may renumber turns and items, leave timing
out, drop what the end of a turn cut off, and lag behind; with `ByItself` it begins turns that
nobody asked for, with `Tracked` it also tells when a thread turns active or idle. `ends` counts
the ends reported of each turn, `idled` keeps the turns during which the thread was told idle.
Terminal error texts are left out.

### ObserverInterface, HistoryController, PendingInteractions
`ObserverInterface` is the vocabulary between application and observer: the C functions as
commands, the protobuf events as records. `HistoryController` composes both sides: the user
acts through the controllers, the worker takes updates off (with the operators of
`CommandUpdate` and `WriterRuntime`), and events are delivered later, in order.
`busy` is the guard that the QML list puts on selecting. A worker's operation is one step.
Two history variables name what the code cannot tell: `displaced`, that a refused turn took the
user's selection back (finding 1), and `overtaken`, that a thread was selected while events or a
request of its former selection were still on their way.
`PendingInteractions` follows a question from the app-server through the writer to a card,
and the answer back: identifiers start anew with each connection, an answer names only an
identifier, updates are merged on the way, and the gate lets one turn in at a time. A turn of a
thread that is not watched selects it first, with its writer given up, and is then refused
(`actor.rs:494`). The answer carries what it was meant for, and whether another writer had
replaced the card's already, to be compared with what it reaches.

### RealmMachine
The bridge to the virtualization framework, its serial queue, the saved-state files, the event
queue to the main thread and `RealmController`. Every call into the framework may fail, the
guest may stop by itself at any time and be heard of later, and the process may exit between
two steps; then files and disk remain. `files` and `disk` carry versions, so that a
saved state can be compared with the disk it was saved with. When a bundle is exchanged it is
closed and the next one opened. `CanOpen` lets it be opened only once the closed machine's operation
in the framework has completed; `setBundleUrl` (`realmcontroller.cpp:73-79`) does not wait, and
that the old machine and the new one do not use one disk at a time is left to the framework, which is
expected to refuse a disk in use. What the framework allows (`canStart` and so on) is external.
`allows` begins as one of `Allowances`: whether the configuration can be saved, and how many
commands, failures, stops of the guest and openings are left.

### RealmManifest, RealmBundle
The realm, its validation, its encoding and the configuration made of it; and the bundle:
preparers that race for one destination, installers, the application, a user who edits the
manifest or moves files, and deaths between any two steps. A rename and a write that was
synced are taken to be durable; power loss is left out. Installers take turns (a guard of
`install`): nothing locks a bundle, so two at once would write the same disk
(`macos.rs:197`). That a failed preparation leaves nothing behind takes for granted that its
directory can be removed (`bundle.rs:124` ignores a failure). The bundle is edited only while
nobody installs. `setting` begins as one of
`Settings`: which preparers take part, which restore images there are, and how many edits and
failures.

### LineParser, HighlightDocument
The resumable parser over a small grammar (a comment over lines, a fallback that is taken back
later), and the document: edits, checkpoints, convergence, batches, acknowledgements and
rejections. `complete` highlights from the beginning and is the reference. The limit of 128
lines for a replay and sequence numbers are left out; batches may be refused once.

## 3. Runs

Modules of one area are checked by one MC module, one *part* at a time: a variable `part`
names the instance whose behaviours are explored, and the variables of the others are held.
The parts do not interact in such a run; it is a way of asking several questions of one
configuration. Where components do interact, a module of section 2 composes them
(`HistoryController`, `PendingInteractions`, `RealmMachine`, `RealmBundle`, `ObserverActor`).

| Run | Checks | Instance |
|---|---|---|
| `observer` | `TypeOK`, `GateHoldsOneRequest`, `TurnKeepsItsThread`, `WriterIsWatched`, `NoTurnWithoutWriter`, `ArchivedIsReadOnly` | 2 clients, 3 commands of every kind, channel of 2 |
| `observer_operations` | `ImplementsExclusiveOperations` (refinement), `GateReopens`, `DropReturns` | 1 client, 3 commands, channel of 1, so that Stop is lost |
| `codex_client` | `StreamKeepsItsOrder`, `QuestionsAreSettledOnce`, `InteractionKeepsItsQuestion` | connection: 2 threads with a running turn each, 3 questions of which one is not supported, 2 identifiers, 3 notifications and a stray line |
| | `ThreadPollsAreFresh` | history: 2 threads, pages of one turn, one failure; and one thread with a turn more |
| | `ChangesAreAppliedOnce`, `LeasesAreTheWriters` | writers: 3 operations on 3 threads and 4 processes, another client |
| | `ListingsAreComplete` | listing: 3 threads, pages of one, 3 changes meanwhile, with and without overlap |
| | `TurnsRunAsAsked` | inference: 2 models, 2 efforts, every combination of options, a changing catalog |
| | `MessagesAreUnderstood` | message: every order of up to 3 sections, one mistake (a line removed, cut off after, or 19 lines that may come too many or instead), 2 attachments |
| `codex_client_progress` | `RequestsAndEventsEnd`, `PollsEnd` (liveness) | connection, history and listing with 2 failures |
| `application` | `ErrorsAreWhatIsWrong` | polled, reselected, refreshed: 2 threads and one that is started, 2 commands, a fault that begins and ends |
| | `TurnsAreShownOnce`, `PollKeepsLive` | numbered (messages and turns renumbered), overlapping (the app-server begins turns), told (and tells the thread's status), broken (2 turns, the connection is lost), lost (one turn that is answered, likewise); 2 or 3 places in the queue |
| | `RequestsAreAnswered`, `WritableIsHeld` | browsing, writing: 3 commands of the user; turning (2 threads), releasing (1 thread): 5 with turns; contended: 4, and another client; one failure, but in contended |
| | `CardsAreTheQuestions` | cards: 2 threads, 2 connections, 5 commands |
| | `DeferralIsTransparent` | deferring: commands of every kind, 4 arrivals |
| `application_progress` | `ApplicationCatchesUp`, `WaitsEnd` (liveness) | polled (2 changes, a fault that begins and ends), refreshed, reconciling, serving, cards |
| `realm` | `ShowsTheMachine`, `SuspensionsAreSound`, `LifecycleEnds` (liveness) | 4 commands, the guest stops once, 2 openings; 2 failures, or 1 where the machine cannot be saved |
| | `BundlesCanBeTrusted`, `BundlesAreKept` | preparing: 2 preparers, 2 installers, 5 restore images, 2 failures; editing: 10 edits, two at a time |
| `highlight` | `SettlesAsWritten` | settling: 2 edits of texts of up to 4 lines, each once the parse has ended, batches pending or refused; reconfiguring: an edit once the parse has ended, and a change of theme at any time |
| | `EditsLoseNothing`, `Settles` (liveness) | editing, progressing: 2 edits, or one, at any time; work of one line at a time |
| `last_selection`, `interrupt_hits_its_turn`, `refresh_unanswered` | a sentence of the C interface's documentation each; violated | see Findings |
| `raced_edits` | what two tests of the document compare; violated | racing: 2 edits, the second before the first is parsed |

Each of the larger runs also has a type invariant (`ClientTypeOK`, `ApplicationTypeOK`,
`RealmTypeOK`).

**Bounds.** In the observer, `MaxCommands` bounds the commands issued, `Capacity` stands for
`COMMAND_QUEUE_CAPACITY` (32), `MaxTurns` bounds the turn numbers, `MaxArrivals` the
arrivals. Two existing threads (one watched, one not) and one that is yet to be created are
all that the code distinguishes; two clients are enough for the gate, which only one can
pass. Three commands allow select, acquire and start or archive to be coalesced or
deferred in every split over polls and operations. A capacity of one or two makes the
channel full in most interleavings. Symmetry over the existing threads and the clients is
used in `observer` only, which has no temporal property.

In the client, a page of one turn or thread makes every change fall between two pages.
Three turns are an anchor, one that was read and one that was not: enough for a read that is
joined in the wrong place. Two identifiers wrap around with one question still pending. One
retry is all the code makes, so a second failure ends an operation.

In the application, a fault and its recovery, or two faults, are all that health
distinguishes. Three or four commands allow a request, what overtakes it, and what the user
does with the answer; five let a turn take a selection back or an event of a former selection
reach the next, and let a second writer ask while answers meant for the first are on their way.
`RequestsAreAnswered` and `WritableIsHeld` name these cases in their statements (`displaced`,
`overtaken`); they also hold of writing, turning and releasing, the last with two threads, when
each is explored alone with six commands. In a queue of three places a turn is begun, answered and
completed before any of it is heard; where connections are lost this is a part with a single turn
(lost) beside one with two turns and two places (broken). `told` keeps two places: its turns run
or end without an answer. Two turns let one be live and one persisted. In the realm four commands reach start, pause, suspend and restore; two failures break a suspension
and then its clean-up. In the document two edits let the second meet what the first left.

**Fairness.** *Observer* (`Fairness` in ObserverActor): the worker is a thread of its own: a
step it can take it takes, and each request it awaits completes, because requests have
timeouts and are cancelled on shutdown (weak fairness of `WorkerStep`). Between two polls,
whose timers are at least half a second apart, the select reaches the channel (strong
fairness of `ReceiveCommand`, which a poll disables for a while). No command is ever bound to be
issued. That turns end (`WF_vars(TurnEnds)`) is an assumption about the app-server: the gate
could otherwise stay held by a turn forever, as it should. *Client*: what the client can read
it reads, its timers fire, and the child it has killed ends. The app-server owes nothing:
it may be silent for ever; `turn/start`, which has no timeout, is excepted from
`RequestsAndEventsEnd`. *Application*: timers elapse, what is due is polled, updates are
worked off, and Qt delivers queued events. The conditions of the form
`<>[]guard => []<><<A>>` are weak fairness of A with its guard named: it enables A, and TLC
is spared the search for a successor. *Realm*: the queue is served, the
framework completes what it has begun, and the main loop takes posted events in turn (strong,
because the user's commands disable it for a moment). *Highlighting*: the worker steps while
it has work, the editor takes or refuses each batch.

**Deadlock** is checked in the observer runs: the only state without a step is the one
after the handle was destroyed, which `Terminated` names. In all others the bounds are
used up at last and the run may stop.

## 4. Findings

1. *A coalesced selection is taken back* (`last_selection`). `StartTurn(a), Watch(b)` in one
   update: the worker watches b, then selects a for the turn, rejects the turn because the
   selection reset the writer, and stays with a. `mod.rs:229-231` promises that the
   selected thread's first read is emitted. The desktop application blocks the selection
   while it shows a turn in flight, which an earlier event may end too soon: see the
   observation on runtime events.
2. *An interrupt stops the next turn* (`interrupt_hits_its_turn`). Interrupts name a thread,
   not a turn. One that was issued as its turn completed is coalesced with the next
   `StartTurn` and applied to it (`writer.rs:464-466`).
3. *A refresh is not answered* (`refresh_unanswered`). Refreshing sets the loading flag of the
   conversation shown (`codexhistorycontroller.cpp:181`); the observer reads it again and, as
   nothing changed, emits nothing (`writer.rs:146`). The conversation stays loading, which keeps
   the user from archiving, forking and renaming it, and an error that was shown stays.
   `mod.rs:542-546` promises that the final outcome is delivered.
   `RequestsAreAnswered`, `ErrorsAreWhatIsWrong`, `ApplicationCatchesUp` and `WaitsEnd` except
   just this: a conversation refreshed while shown in full.
4. *An edit that overtakes a parse leaves old styles* (`raced_edits`). A parse that is cut short has
   renewed checkpoints of lines it passed; the next parse stops where it agrees with them
   (`document.rs:183`), though what lies behind was never parsed anew. The comment on
   `Document` and two tests (`document.rs:740` and `826`) claim what a complete highlight gives, also
   for edits that race a parse. `SettlesAsWritten` is about edits made once the parse has ended.

## 5. Proofs

Proofs hold for every value of the constants. All that is assumed of these are the named
assumptions of the modules, which the runs evaluate: `None` is not one of the things it
stands in for; sizes (a channel's places, a page, the interaction ids) are at least one
and bounds are naturals; every turn has a thread and every question a turn; the models of a
catalog are distinct; initial threads are threads; an allowance of a realm is a record of
naturals; the adapter reports sizes that fit a `u64`; texts and insertions are sequences of
characters, a document's settings are a language and a theme, and those a part of a run uses are among the run's. Where a run explores several *parts* (section 3), the theorem is about the run's own
specification: a part's invariant holds where the part is explored, and the others keep still.

- `Observer_proofs`, in five steps.
  *Merging and deferral*: `merge` and `merge_command` keep the type of updates, and merging a
  command into the newer of two updates is merging it into their merge (`MergeCommandMerge`); hence
  deferral is transparent (`DeferralCorrect`) for any number of threads and arrivals, and for any
  set of commands that are issued (`IssuedAssumption`, a hypothesis of the theorem).
  *Types* (`ObserverTypeCorrect`): the worker unwraps the part of the update it is working off
  (`update.fork.thread`, `Head(update.lifecycle)`, the turn of a running turn), so its steps are
  well-typed only because that part is there. `StageFits` says which part each await point needs,
  that the update is empty while the loop polls, and that nothing is kept for later while an
  update is worked off.
  *The writer* (`WriterIsWatchedCorrect`, `NoTurnWithoutWriterCorrect`,
  `ArchivedIsReadOnlyCorrect`, `TurnKeepsItsThreadCorrect`), from one invariant, `WriterInv`;
  none of the four is inductive alone. An acquisition attaches the thread its request
  names, so `WriterIsWatched` needs that this is the watched one, which is decided when the
  worker enters the stage and must still hold when the answer comes. A failed acquisition
  may shut the writer down without detaching the projection only because no writer of another
  thread was left; the events of a turn move the projection only while its writer is there.
  *The gate* (`GateCorrect`): `GateInv` names the place of the one exclusive request there
  may be (the client that reserved it, the channel, the update, one of three deferred updates)
  and says that all other places are empty (`Located`). Every step keeps the request there, moves
  it on, or takes it away and opens the gate. `merge` keeps the first of two requests: it loses
  none only because there never are two.
  *The refinement* (`OperationsImplemented`): with the gate's invariant, each step of the observer
  is one of `ExclusiveOperations` or a stutter; the lemmas say how each step moves the request.
- `CodexClient_proofs`, first about `AppServerClient`. `Flow`: the messages put aside, followed by the input, hold the
  notifications from the last one handed over on, each once and in order. A request that takes its
  answer out of the middle of the input puts the rest aside and keeps `Flow`, which is
  `StreamInOrder`. `Questioning` says where a question can be (not yet asked, in the stream,
  pending under one id, refused, replied to) and that a turn is completed after all that is asked
  in it; with `Reaped`, that a running child has a client, it gives `QuestionsSettled`. That an id
  keeps its question (`IdsKeepTheirQuestion`) needs the wrap-around of
  `allocate_interaction_id` to skip ids that are pending.
- `HistorySession_proofs` (`PollsAreFresh`). `Agree`: two states of one thread are equal
  before every turn that both have, because ids grow and only the last turn is revised; so
  what is read down to an anchor joins what was read before.
  `PagesFit`: the pages read so far are what precedes the cursor in the thread as it is. The
  proof showed that a page was cut in the wrong place when `PageSize > 1` and the rest is
  shorter, which the run, with pages of one, could not see; `Page` was corrected.
- `CodexClient_proofs`, then about `ThreadWriters` (`ChangesApplied`, `LeasesHeld`). Each connection is in one hand: the
  session's, a writer's or the operation's (`Separate`); a lease is that of a running process
  and of the thread it was made for (`LeasesFit`); a connection about to be handed out holds it
  (`Acquired`). How often a request may have been applied is bounded by the attempts that had
  an answer, or may still have one (`Applications`), and only rename and acquire try again.
- `CodexClient_proofs` also puts the parts of the client together, so that the theorems are about
  the properties that `codex_client` checks (`ConnectionIsFaithful`, `QuestionsKeepTheirIds`,
  `ThreadPollsStayFresh`, `ChangesAreNotRepeated`, `LeasesStayWithWriters`), and proves what a turn
  runs with (`TurnsKeepToWhatIsAsked`). The client never sees what the app-server made of a
  turn: it is right because what it will take note of is what it sent (`AnswerIsNoted`), and
  because a writer whose turn failed, applied or not, is not used again (`Beginnings`).
  `ListingsMissNothing` is about listings, with pages of any size: times differ between threads and
  only grow, so what is left to read is older than what was read, the last thread of a page at most
  being met again (`ReadFits`), and a thread that kept still is read or still to come
  (`RestFits`); what moves to the front meanwhile is lost to the listing, and the property does not ask for it.
  `ClientKeepsItsTypes` is about all parts: what a parsed message shows follows
  from its inputs alone, of which there is always one, and at most one more than a user adds.
- `ObserverPolling_proofs` (`PollsAreReported`), brought into the run by `Application_proofs`
  (`ErrorsAreReported`). What the worker remembers of a poll is compared with what the application
  shows of it, also while commands that change either are on their way. Three facts carry it. A
  scope on its way keeps the list loading, so that the user cannot send another one
  (`ScopeFollows`). Wherever an error is forgotten while it is shown, the page or the conversation
  is forgotten with it, so that the next success brings something new and takes it away
  (`ThreadErrors`, `ConversationErrors`); a refresh keeps the conversation, so after one the error
  may stay, and the property leaves refreshes out. And a conversation read again is not
  the one shown, since a started thread cannot be read before there is more of it
  (`ConversationIsRead`). The type invariant is proved too: a version is at most what changes
  and turns make of it (`Counted`).
- `PendingInteractions_proofs` (`AnswersAndCards`), brought into the run by `Application_proofs`
  (`CardsAreKept`). `ListFits`: the last list of questions on its way to the application is what is
  pending, and if none is on its way the cards are; so every change of what is pending has to
  emit a list, and a writer may be given up without one only with nothing pending (`TurnFits`, for
  a turn that is refused, or that selects its thread first). `ResolvingFits`: a card is being answered
  only while its answer or a list is on its way. `AnswersFit`: while an answer to a pending question
  is on its way, that question is of the present writer, unless another had replaced it already when the
  answer was given: ids are used again only by a new writer, which asks nothing before
  the answers on their way have been taken. `StrayFits`:
  a turn that selects its own thread and is then refused takes the watch away from the thread the
  application shows; from then until the next selection no writer is held and none will be, so there
  are no cards either. The search for the invariant showed that the model let a turn begin beside
  another, which the gate forbids, and that an answer to a card of a replaced writer may reach another
  question (see the observations).
- `Realm_proofs`, first the machine. `SuspensionsKeepTheGuest`: a kept file is of
  the disk as it is because nothing that runs the guest can be in flight while there is one
  (`FlightFits`: with a file kept the machine is idle and not running, or is being stopped), and a
  suspension that is told to have ended well ended in its last step, which stopped the guest after
  publication. `MachineIsShown`: the status told last, or the one shown when none is on its way, is
  the machine's unless a notice of the guest's stop is to come (`StatusFits`); events come generation
  by generation, so that those of a closed realm cannot hide the last one (`EventsFit`); and for
  every machine between a view's and the one in use a retarget is queued, in order
  (`ViewsFit`). `OpenFits` says what closing and exiting leave behind. Then the bundle:
  `BundlesAreTrusted` and `BundlesKeep`, from one invariant. The manifest and the disk are written
  by different steps, with failures and deaths between them, so `InstallerFits` says for each step
  of an installation what the manifest may claim meanwhile and what the disk may hold, and
  `DiskFits` that a bundle claimed to be prepared is blank, and one claimed to be installed complete, also
  when nobody installs. The rest is about the conversions: what `new_vz_macos` makes of an accepted
  restore image decodes to itself (`NewIsWhole`), and recording a state leaves a manifest that
  decodes to the realm with that state (`StateIsRecorded`); so a manifest edited by hand is
  either refused or carried over as it is.
- `Highlight_proofs` (`DocumentLosesNothing`, and `PartsLoseNothing` for the run). The document
  never recomputes all its lines nor restyles all its text, so each of its splices has to be right, for any text.
  `EditedStarts`: the lines found between the start of the first line an edit touches and the
  end of the last one, put between those before and those behind, moved, are the
  lines of the new text; it is here that a final newline that belongs to the next line must be
  dropped, and only then. `EditedStyles`: a character the edit did not touch keeps its cached
  style, the mapped pending range covers what it covered, and the lines found anew are all
  pending; so no style that is known and not shown gets out of the range. `ParseLineKeeps`: a
  line taken back restyles lines that came before it, of which the parser has kept the text
  (`ParserFits`), and what changed there is pending too. A batch of the present revision and settings shows the
  first pending styles (`PublishedFits`), so that acknowledging it may shorten the range; one of an
  earlier revision changes nothing. For the proof `line_starts` says which newline each line
  follows instead of sorting them, and the constants got their assumptions.

What stays with TLC:

- liveness (`RequestsAndEventsEnd`, `PollsEnd`, `ApplicationCatchesUp`, `WaitsEnd`, `LifecycleEnds`,
  `Settles`, `GateReopens`, `DropReturns`), which needs fairness and `ENABLED`;
- `MessagesAreUnderstood`, about what a recursive parser computes for every text: an induction over
  data;
- `SettlesAsWritten`: that a parse resumed at a checkpoint, and ended where it meets the states of
  the one before, gives what a complete parse gives;
- the type invariant of `application` (`ApplicationTypeOK`) as a whole; the types of the parts
  proved above are in their invariants;
- `TurnsAreShownOnce` and `PollKeepsLive`, about folds over conversations of any length;
- `RequestsAreAnswered` and `WritableIsHeld`, about the two controllers and the worker together. The
  search for their invariants led to the cases their statements now except (`displaced`,
  `overtaken`).

**Observations** that no sentence of the repository contradicts, so that they are no findings:

- A stray line ends a request whose answer is still to come; every later request then
  fails on an unknown identifier, and the session, which reconnects only when the connection is
  lost, keeps the connection (`connection.rs:85`).
- An answer to a question is written with neither timeout nor cancellation (`client.rs:730`);
  the event of a refused question is lost when its select is cancelled (`client.rs:223`).
- A read newer than queued notifications is overtaken by them when the writer is released
  in between (`writer.rs:146`). A turn the app-server began by itself may be reported twice or not at
  all when the connection is lost (`writer.rs:256`). So may the end of a turn that was asked for
  not be reported, when the connection is lost after the thread was told idle and before the turn's
  completion was heard: `fail_stream` finds no turn active. `TurnsAreShownOnce` excepts it (`idled`).
- A card stays until its withdrawal is delivered. Answered after its connection was lost, it names
  an id that the next connection may have used again by then, and answers that question
  (`writer.rs:356`, `codexinteractionmodel.cpp:81`); hence `CardsAreTheQuestions` excepts
  answers on a card of a writer that another had replaced as they were given.
- A release worked off after the fork of its thread detaches the forked thread
  (`state.rs:227`). The runs leave this combination of commands out.
- A runtime event on its way when a turn is started is taken for its state (`state.rs:181`). A
  user who acquires a thread, releases it and starts a turn as soon as the acquisition is
  reported loses sight of that turn with the release's report, may select another thread, and
  the selection is taken back as in finding 1: that thread stays loading until the next selection.
  `RequestsAreAnswered` and `WritableIsHeld` except it (`displaced`).
- A thread that is archived, though its answer was lost, and a page that clears the selection for it
  may let the user select the thread before it again as its acquisition is still reported: it
  is shown writable although selecting it dropped the writer. `WritableIsHeld` excepts threads that were
  selected while something of their former selection was on its way (`overtaken`).
- An interrupt received while an earlier operation of its turn's update is driven goes to
  `following`, which `run_turn` does not see (`actor.rs:509`): it waits until the turn is
  over. One received with the update, or while the begin request is in flight, reaches the turn.
- Another client that undoes an archive before the next page is read leaves the controller
  changing the thread (`codexhistorycontroller_events.cpp:66`).
- A status event queued before a command clears the pending command, and the user may then
  exchange the bundle under a running machine (`realmcontroller.cpp:485`).
- `persist` syncs the manifest's file, not its directory (`bundle.rs:317`): after a loss of power
  the former manifest may be back.

## 6. Not modelled, and the plan

Partly modelled, with what is missing:

- the observer's handle: the decoding of C arguments;
- event encoding and wire types: the model catalog, threads, items other than messages: plain
  copies of fields;
- the controllers: refresh, rename and the polling switch as the user's commands (their effect on
  polling is in `ObserverPolling`), inference selection, attachments being composed, the
  timeline;
- the runs of `LiveProjection` do not combine turns of the app-server's own with releases and lost
  connections, nor those of `HistoryController` the user's archiving, or turns, with other clients;
- syntax packs, themes and the third-party parser.

Left out for good: markup, text layout, drawing, terminal and editor adapters, the command
line and the application's shell, which are stateless or single-threaded views on third-party
code; and `xtask`, which builds packages.

What would come next: a proof that the controllers of the application have an answer on its way for
each pending request, where no selection is taken back; the live projection, where a turn is shown
once; and for highlighting, that a resumed parse comes to what a complete one gives.
