---------------------------- MODULE MCApplication ----------------------------
(***************************************************************************)
(* The observer as the application sees it, one part at a time: `part`      *)
(* names the module, and the instance of it, whose behaviours are explored. *)
(* The parts share the variables of the same name; a variable the part does *)
(* not have is None.                                                        *)
(***************************************************************************)
EXTENDS Naturals, Sequences, FiniteSets

CONSTANTS a, b, c, fault1, NotLoaded, TurnError, None,
          Parts,          \* those explored
          PollChanges, PollCommands, \* bounds of ObserverPolling
          ThreadCommands, \* bound of HistoryController
          CardThreads,    \* those of PendingInteractions, and its bounds
          CardConnections, CardAsks, CardCommands

VARIABLES
    part,
    watched, due, page, baseline, pending, work, ui, read, events, commands,
    stored, fault, polling, archived, health, active, summaries, conversation,
    unread, changes, faults,
    truth, store, stream, attached, live, driving, view, ends, begun, idled, breaks,
    home, interrupted, gate, following, phase, scope, rt, snapshot, pageFails,
    asked, issued, failures, others, displaced, overtaken,
    opened, conn, server, open, inbox, update, reached,
    whole, deferred, arriving, arrivals

---------------------------------------------------------------------------
(* ObserverPolling: while threads change, while the user goes to and fro, or *)
(* refreshes                                                                *)

Polled == INSTANCE ObserverPolling_proofs WITH
    Threads <- {a}, NewThread <- c, Errors <- {fault1}, Refreshes <- FALSE,
    MaxChanges <- PollChanges, MaxFaults <- 2, MaxCommands <- PollCommands
Reselected == INSTANCE ObserverPolling_proofs WITH
    Threads <- {a, b}, NewThread <- c, Errors <- {fault1}, Refreshes <- FALSE,
    MaxChanges <- 0, MaxFaults <- 1, MaxCommands <- 2
Refreshed == INSTANCE ObserverPolling_proofs WITH
    Threads <- {a}, NewThread <- c, Errors <- {fault1}, Refreshes <- TRUE,
    MaxChanges <- 0, MaxFaults <- 2, MaxCommands <- 2

(* LiveProjection: a history that renumbers and leaves timing out, one that  *)
(* drops what a turn's end cut off while the app-server begins turns of its  *)
(* own, without statuses of the thread and with them, and connections that   *)
(* are lost.  In a queue of three places a turn is begun, answered and       *)
(* completed before any of it is heard.                                      *)
Numbered == INSTANCE LiveProjection WITH
    MaxTurns <- 2, Words <- 2, QueueBound <- 3, MaxBreaks <- 0, Renumbers <- TRUE,
    DropsUnfinished <- FALSE, OmitsTiming <- TRUE, Breaks <- FALSE, Tracked <- FALSE,
    ByItself <- FALSE
Overlapping == INSTANCE LiveProjection WITH
    MaxTurns <- 2, Words <- 1, QueueBound <- 3, MaxBreaks <- 0, Renumbers <- FALSE,
    DropsUnfinished <- TRUE, OmitsTiming <- FALSE, Breaks <- FALSE, Tracked <- FALSE,
    ByItself <- TRUE
Told == INSTANCE LiveProjection WITH
    MaxTurns <- 2, Words <- 1, QueueBound <- 2, MaxBreaks <- 0, Renumbers <- FALSE,
    DropsUnfinished <- TRUE, OmitsTiming <- FALSE, Breaks <- FALSE, Tracked <- TRUE,
    ByItself <- TRUE
Broken == INSTANCE LiveProjection WITH
    MaxTurns <- 2, Words <- 1, QueueBound <- 2, MaxBreaks <- 1, Renumbers <- FALSE,
    DropsUnfinished <- TRUE, OmitsTiming <- FALSE, Breaks <- TRUE, Tracked <- TRUE,
    ByItself <- FALSE
Lost == INSTANCE LiveProjection WITH
    MaxTurns <- 1, Words <- 2, QueueBound <- 3, MaxBreaks <- 1, Renumbers <- FALSE,
    DropsUnfinished <- TRUE, OmitsTiming <- FALSE, Breaks <- TRUE, Tracked <- TRUE,
    ByItself <- FALSE
Reconciling == INSTANCE LiveProjection WITH
    MaxTurns <- 2, Words <- 1, QueueBound <- 3, MaxBreaks <- 0, Renumbers <- TRUE,
    DropsUnfinished <- FALSE, OmitsTiming <- FALSE, Breaks <- FALSE, Tracked <- FALSE,
    ByItself <- FALSE

(* HistoryController: what the user does in a run                           *)
Browsing == INSTANCE HistoryController WITH
    Threads <- {a, b, c}, InitialThreads <- {a, b}, MaxTurns <- 0,
    UserOps <- {"showArchived", "select", "fork", "lifecycle", "start", "write"},
    MaxCommands <- ThreadCommands, MaxFailures <- 1, MaxOthers <- 0, IdleFailures <- TRUE
Writing == INSTANCE HistoryController WITH
    Threads <- {a, b, c}, InitialThreads <- {a, b}, MaxTurns <- 0,
    UserOps <- {"showArchived", "select", "lifecycle", "write", "release"},
    MaxCommands <- ThreadCommands, MaxFailures <- 1, MaxOthers <- 0, IdleFailures <- TRUE
Turning == INSTANCE HistoryController WITH
    Threads <- {a, b, c}, InitialThreads <- {a, b}, MaxTurns <- 2,
    UserOps <- {"select", "write", "turn", "control"},
    MaxCommands <- 5, MaxFailures <- 1, MaxOthers <- 0, IdleFailures <- FALSE
Releasing == INSTANCE HistoryController WITH
    Threads <- {a, b, c}, InitialThreads <- {a}, MaxTurns <- 2,
    UserOps <- {"select", "write", "release", "turn"},
    MaxCommands <- 5, MaxFailures <- 1, MaxOthers <- 0, IdleFailures <- TRUE
Contended == INSTANCE HistoryController WITH
    Threads <- {a, b, c}, InitialThreads <- {a, b}, MaxTurns <- 0,
    UserOps <- {"showArchived", "select", "write"},
    MaxCommands <- 4, MaxFailures <- 0, MaxOthers <- 1, IdleFailures <- FALSE
Serving == INSTANCE HistoryController WITH
    Threads <- {a, b, c}, InitialThreads <- {a}, MaxTurns <- 1,
    UserOps <- {"showArchived", "select", "fork", "lifecycle", "start", "write", "turn"},
    MaxCommands <- 3, MaxFailures <- 1, MaxOthers <- 0, IdleFailures <- FALSE

(* PendingInteractions *)
Cards == INSTANCE PendingInteractions_proofs WITH
    Threads <- CardThreads, MaxConnections <- CardConnections, MaxAsks <- CardAsks,
    MaxCommands <- CardCommands

(* CommandDeferral: commands of every kind, of each kind two that differ     *)
Updates == INSTANCE CommandUpdate WITH Threads <- {a, b}, MaxTurns <- 2
Deferrable ==
    {x \in Updates!Command \ {Updates!Stop} :
        /\ x \in Updates!WriteAccess => (x.kind = "AcquireWrite") = (x.thread = a)
        /\ x \in Updates!ChangeThreadLifecycle => (x.action = "Archive") = (x.thread = a)
        /\ x \in Updates!StartTurn => (x.turn = 1) = (x.thread = a)
        /\ x \in Updates!TurnControl => x.kind = "InterruptTurn" /\ x.thread = a /\ x.turn = 1}
Deferring == INSTANCE CommandDeferral WITH
    Threads <- {a, b}, MaxTurns <- 2, Issued <- Deferrable, MaxArrivals <- 4

ASSUME PollingAssumption ==
    Polled!PollingAssumption /\ Reselected!PollingAssumption /\ Refreshed!PollingAssumption
ASSUME LiveAssumption ==
    /\ Numbered!LiveProjectionAssumption /\ Overlapping!LiveProjectionAssumption
    /\ Broken!LiveProjectionAssumption /\ Lost!LiveProjectionAssumption
ASSUME HistoryAssumption == Browsing!InitialAssumption /\ Turning!InitialAssumption
ASSUME CardsAssumption == Cards!PendingInteractionsAssumption
ASSUME DeferralAssumption == Deferring!IssuedAssumption

---------------------------------------------------------------------------
(* The variables that one module alone has, and those of several            *)

polling_only == <<stored, fault, polling, archived, health, active, summaries,
                  conversation, unread, changes, faults>>
live_only == <<truth, store, stream, attached, live, view, ends, begun, idled,
              breaks>>
history_only == <<home, interrupted, gate, following, phase, scope, rt, snapshot,
                  pageFails, issued, failures, others, displaced, overtaken>>
cards_only == <<opened, conn, server, open, inbox, update, reached>>
deferral_only == <<whole, deferred, arriving, arrivals>>

NoPolling ==
    /\ stored = None /\ fault = None /\ polling = None /\ archived = None
    /\ health = None /\ active = None /\ summaries = None /\ conversation = None
    /\ unread = None /\ changes = None /\ faults = None
NoLive ==
    /\ truth = None /\ store = None /\ stream = None /\ attached = None /\ live = None
    /\ view = None /\ ends = None /\ begun = None /\ idled = None /\ breaks = None
NoHistory ==
    /\ home = None /\ interrupted = None /\ gate = None /\ following = None
    /\ phase = None /\ scope = None /\ rt = None /\ snapshot = None
    /\ pageFails = None /\ issued = None /\ failures = None /\ others = None
    /\ displaced = None /\ overtaken = None
NoCards ==
    /\ opened = None /\ conn = None /\ server = None /\ open = None /\ inbox = None
    /\ update = None /\ reached = None
NoDeferral == whole = None /\ deferred = None /\ arriving = None /\ arrivals = None

PollingParts == {"polled", "reselected", "refreshed"}
LiveParts == {"numbered", "overlapping", "told", "broken", "lost", "reconciling"}
HistoryParts == {"browsing", "writing", "turning", "releasing", "contended", "serving"}

Init ==
    /\ part \in Parts
    /\ \/ /\ \/ part = "polled" /\ Polled!Init
             \/ part = "reselected" /\ Reselected!Init
             \/ part = "refreshed" /\ Refreshed!Init
          /\ events = None /\ driving = None /\ asked = None
          /\ NoLive /\ NoHistory /\ NoCards /\ NoDeferral
       \/ /\ \/ part = "numbered" /\ Numbered!Init
             \/ part = "overlapping" /\ Overlapping!Init
             \/ part = "told" /\ Told!Init
             \/ part = "broken" /\ Broken!Init
             \/ part = "lost" /\ Lost!Init
             \/ part = "reconciling" /\ Reconciling!Init
          /\ watched = None /\ page = None /\ work = None /\ ui = None /\ read = None
          /\ events = None /\ commands = None /\ asked = None
          /\ NoPolling /\ NoHistory /\ NoCards /\ NoDeferral
       \/ /\ \/ part = "browsing" /\ Browsing!Init
             \/ part = "writing" /\ Writing!Init
             \/ part = "turning" /\ Turning!Init
             \/ part = "releasing" /\ Releasing!Init
             \/ part = "contended" /\ Contended!Init
             \/ part = "serving" /\ Serving!Init
          /\ due = None /\ baseline = None /\ commands = None /\ driving = None
          /\ NoPolling /\ NoLive /\ NoCards /\ NoDeferral
       \/ /\ part = "cards" /\ Cards!Init
          /\ due = None /\ page = None /\ baseline = None /\ read = None
          /\ NoPolling /\ NoLive /\ NoHistory /\ NoDeferral
       \/ /\ part = "deferring" /\ Deferring!DeferralInit
          /\ watched = None /\ due = None /\ page = None /\ baseline = None /\ pending = None
          /\ work = None /\ ui = None /\ read = None /\ events = None /\ commands = None
          /\ driving = None /\ asked = None
          /\ NoPolling /\ NoLive /\ NoHistory /\ NoCards
Next ==
    /\ \/ /\ \/ part = "polled" /\ Polled!Next
             \/ part = "reselected" /\ Reselected!Next
             \/ part = "refreshed" /\ Refreshed!Next
          /\ UNCHANGED <<events, driving, asked, live_only, history_only, cards_only,
                         deferral_only>>
       \/ /\ \/ part = "numbered" /\ Numbered!Next
             \/ part = "overlapping" /\ Overlapping!Next
             \/ part = "told" /\ Told!Next
             \/ part = "broken" /\ Broken!Next
             \/ part = "lost" /\ Lost!Next
             \/ part = "reconciling" /\ Reconciling!Next
          /\ UNCHANGED <<watched, page, work, ui, read, events, commands, asked,
                         polling_only, history_only, cards_only, deferral_only>>
       \/ /\ \/ part = "browsing" /\ Browsing!Next
             \/ part = "writing" /\ Writing!Next
             \/ part = "turning" /\ Turning!Next
             \/ part = "releasing" /\ Releasing!Next
             \/ part = "contended" /\ Contended!Next
             \/ part = "serving" /\ Serving!Next
          /\ UNCHANGED <<due, baseline, commands, driving, polling_only, live_only,
                         cards_only, deferral_only>>
       \/ /\ part = "cards" /\ Cards!Next
          /\ UNCHANGED <<due, page, baseline, read, polling_only, live_only, history_only,
                         deferral_only>>
       \/ /\ part = "deferring" /\ Deferring!DeferralNext
          /\ UNCHANGED <<watched, due, page, baseline, pending, work, ui, read, events,
                         commands, driving, asked, polling_only, live_only, history_only,
                         cards_only>>
    /\ UNCHANGED part
vars == <<part, watched, due, page, baseline, pending, work, ui, read, events, commands,
          driving, asked, polling_only, live_only, history_only, cards_only,
          deferral_only>>
Spec == Init /\ [][Next]_vars

---------------------------------------------------------------------------
(* Properties of the parts                                                  *)

\* Every part keeps its variables in their types.
ApplicationTypeOK ==
    /\ part = "polled" => Polled!TypeOK
    /\ part = "reselected" => Reselected!TypeOK
    /\ part = "refreshed" => Refreshed!TypeOK
    /\ part \in LiveParts => Broken!TypeOK
    /\ part \in HistoryParts => Turning!TypeOK
    /\ part = "cards" => Cards!TypeOK
\* An error that is not repeated is one the user can see, a thread is reported
\* missing when it is and not when it was only just started, and an error goes
\* with the poll that succeeds (PollHealth, InitialConversationReads).
ErrorsAreWhatIsWrong ==
    /\ part \in PollingParts => Polled!SuppressedIsShown /\ Polled!MissingIsReported
    /\ part \in {"polled", "reselected"} => Polled!ErrorsAreWithdrawn
\* What was heard live and what was read of a thread are recognised as the
\* same: each turn and each message is shown once, and every turn that is
\* stored can be forked (merge_snapshot, forkable_turn_ids).  The end of a turn
\* is reported exactly once, also when the connection is lost (run_turn,
\* fail_writer_stream); only where it is lost after the thread was told idle
\* and before the turn's completion was heard, it may never be.
TurnsAreShownOnce ==
    /\ part = "numbered" => Numbered!Singular /\ Numbered!ForkableIsShown
                              /\ Numbered!EndIsReportedOnce
    /\ part \in {"overlapping", "told"} =>
         Overlapping!Singular /\ Overlapping!ForkableIsShown /\ Overlapping!EndIsReportedOnce
    /\ part = "broken" => Broken!Singular /\ Broken!EndIsReportedOnce
    /\ part = "lost" => Lost!Singular /\ Lost!EndIsReportedOnce
\* A history read that lags behind takes nothing away of the running turn
\* (merge_retained_live_turn).
PollKeepsLive == [][(part \in {"overlapping", "told"}) => Overlapping!LivePollKeeps]_vars
\* Once all is quiet no request of the user is left pending, neither loading
\* nor starting, forking, changing or writing, and the application shows what
\* the observer watches (applyHistoryEvent).  Only a selection that a turn
\* which is then refused takes back (run_observer) stays loading and is not
\* watched, and a conversation that was shown in full when the user refreshed
\* stays loading (accept_polled_conversation): RefreshIsAnswered.
RequestsAreAnswered ==
    /\ part \in PollingParts => Refreshed!RequestsAreAnswered
    /\ part \in HistoryParts => Browsing!RequestsAreAnswered /\ Browsing!ShowsTheWatched
    /\ part \in HistoryParts \ {"contended"} => Browsing!LifecycleKeepsSelection
\* Once all is quiet the composer is writable while the observer holds the
\* writer of the selected thread, and then alone.  Nothing is claimed of a
\* selection that a turn took back, nor where the thread was selected anew with
\* events of its former selection still on their way (applyHistoryEvent).
WritableIsHeld == part \in HistoryParts => Writing!WritableIsHeld
\* A refresh is answered like any other request: once it has been worked off
\* and the conversation read, the conversation is not left loading (mod.rs:542).
RefreshIsAnswered == part = "refreshed" => Refreshed!RefreshIsAnswered
\* However the commands that arrive are split over operations under way, the
\* update they are deferred into is the one that a single drain builds
\* (merge_command, CommandUpdate::merge, run_observer's `following`).
DeferralIsTransparent == part = "deferring" => Deferring!DeferralIsTransparent
\* An answer of the user reaches the question of its card or none, unless another
\* writer had replaced the card's as it was given, and once all is quiet the cards
\* are the questions pending on the writer (respondToInteraction,
\* resolve_interaction_async, reconcileInteractions).
CardsAreTheQuestions ==
    part = "cards" => Cards!AnswersReachTheirQuestions /\ Cards!CardsArePending

---------------------------------------------------------------------------
(* Progress.  Each fairness condition is over the variables of its part.    *)

polling_vars == Refreshed!vars
live_vars == Reconciling!vars
history_vars == Serving!controlled
cards_vars == Cards!vars

LiveSpec ==
    /\ Spec
    (* Timers elapse, what is due is polled, and commands that wait are taken. *)
    /\ \A poll \in {"threads", "catalog", "conversation"} :
          WF_polling_vars(part \in PollingParts /\ Refreshed!TimePasses(poll))
    /\ WF_polling_vars(part \in PollingParts /\ Refreshed!PollThreads)
    /\ WF_polling_vars(part \in PollingParts /\ Refreshed!load_model_catalog)
    /\ WF_polling_vars(part \in PollingParts /\ Refreshed!poll_conversation)
    /\ WF_polling_vars(part \in PollingParts /\ Refreshed!apply_polling_state)
    /\ WF_polling_vars(part \in PollingParts /\ Refreshed!TakeCommands)
    /\ WF_polling_vars(part \in PollingParts /\ Refreshed!WorkOff)
    (* The worker does not rest while there is something to hear, to emit or to  *)
    (* read, nor the app-server while a turn runs or its history is behind.      *)
    (* Each condition names the guards that enable its actions.                  *)
    /\ <>[](part = "reconciling" /\ Reconciling!IsBusy)
          => []<><<part = "reconciling" /\ Reconciling!GoesOn>>_vars
    /\ <>[](part = "reconciling" /\ due /\ driving = 0)
          => []<><<part = "reconciling" /\ Reconciling!poll_conversation>>_vars
    (* The worker works its updates off, its timers fire and turns end; Qt     *)
    (* delivers what is queued.                                                *)
    /\ <>[](part = "serving" /\ Serving!IsBusy)
          => []<><<part = "serving" /\ Serving!Worker>>_vars
    /\ WF_history_vars(part = "serving" /\ Serving!poll_threads)
    /\ WF_history_vars(part = "serving" /\ Serving!poll_conversation)
    /\ WF_history_vars(part = "serving" /\ Serving!applyHistoryEvent)
    /\ WF_cards_vars(part = "cards" /\ Cards!Worker)
    /\ WF_cards_vars(part = "cards" /\ Cards!applyHistoryEvent)

\* When nothing goes on failing, the application comes to show what the
\* app-server has stored and reports no error, and a live conversation is at
\* last read back in full, whatever the stream did not tell.
NothingFails == part \in PollingParts => Refreshed!Quiet
IsCurrent ==
    /\ part = "polled" => Polled!Current
    /\ part = "refreshed" => Refreshed!Current
    /\ part = "reconciling" => Reconciling!ReadBack
ApplicationCatchesUp == <>[]NothingFails => <>[]IsCurrent

\* Whatever the user waits for ends: a list or a conversation that is shown as
\* loading is loaded or an error is shown, a request on a thread gives the
\* controls back, and a card does not go on being answered.  A conversation is
\* not waited for that was refreshed while shown (RefreshIsAnswered), or that was
\* just started and has not been stored, and nothing but the catalog while
\* polling is disabled.
Waits ==
    \/ part \in PollingParts /\ Refreshed!Loads
    \/ part = "serving" /\ Serving!busy(ui)
    \/ part = "cards" /\ ui.resolving # {}
WaitsEnd == Waits ~> ~Waits
=============================================================================
