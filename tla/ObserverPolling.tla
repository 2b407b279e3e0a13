---------------------------- MODULE ObserverPolling ----------------------------
(***************************************************************************)
(* The polls of a Codex history observer (observer/worker/polling.rs, the   *)
(* polls of state.rs and the due times of actor.rs) and what the            *)
(* application shows of them.  Three things are polled: the page of         *)
(* threads, the model catalog and the watched conversation.  An error is    *)
(* shown once and not again while the poll keeps failing with it; a thread  *)
(* started here is not readable until the app-server has stored it.         *)
(*                                                                          *)
(* A poll is one step: commands that arrive meanwhile are deferred and the  *)
(* app-server is read at once.  The order of polls that are due together is *)
(* left open.  An event is applied by the application as it is emitted.     *)
(* The commands waiting are one update, merged as they are sent.  The live  *)
(* stream of a turn is only what it leaves behind, and it is stored by the  *)
(* time its turn ends.                                                      *)
(***************************************************************************)
EXTENDS Naturals

CONSTANTS Threads,      \* threads that exist from the start
          NewThread,    \* the thread that may be started
          Errors,       \* failures of the app-server
          NotLoaded,    \* its answer for a thread that is not stored
          TurnError,    \* the error of a turn
          Refreshes,    \* whether the user refreshes
          MaxChanges, MaxFaults, MaxCommands, \* bounds
          None

AllThreads == Threads \cup {NewThread}
Polls == {"threads", "catalog", "conversation"}
Failures == Errors \cup {NotLoaded}
Versions == 0 .. MaxChanges + MaxCommands
Pages == UNION {[list -> Versions] : list \in SUBSET AllThreads}
Conversations == [thread : AllThreads, version : Versions, live : BOOLEAN]

DistinctAssumption ==
    /\ NewThread \notin Threads /\ NotLoaded \notin Errors /\ TurnError \notin Failures
    /\ {"updated", "unchanged", "ok"} \cap Failures = {}
    /\ None \notin AllThreads \cup Failures \cup {TurnError, "ok"}
    /\ None \notin Pages \cup Conversations \cup Versions
BoundsAssumption ==
    MaxChanges \in Nat /\ MaxFaults \in Nat /\ MaxCommands \in Nat /\ Refreshes \in BOOLEAN

VARIABLES
    stored,   \* per thread: status, version, page summary, and whether it runs
    fault,    \* the error every request meets, or None
    polling,  \* the watch channel: wanted, changed; and the worker's: enabled
    watched, archived, due, health, active, summaries, page, baseline, conversation,
    unread,   \* InitialConversationReads::pending
    pending,  \* the commands waiting, merged into an update
    work,     \* what is left of the update being worked off
    ui,       \* what the application shows
    read,     \* how the last poll of the conversation ended
    changes, faults, commands

scheduled == <<polling, due>>
polled == <<health, active, summaries, page, baseline, conversation, unread, read>>
vars == <<stored, fault, scheduled, watched, archived, polled, pending, work, ui,
          changes, faults, commands>>

NoCommands == [watch |-> None, scope |-> None, refresh |-> FALSE, start |-> FALSE, turn |-> FALSE]

Stores == [status : {"absent", "new", "readable", "gone"},
           version : Versions, summary : Versions, running : BOOLEAN]
Updates == [watch : AllThreads \cup {None}, scope : BOOLEAN \cup {None},
            refresh : BOOLEAN, start : BOOLEAN, turn : BOOLEAN]
Views == [selected : AllThreads \cup {None}, archived : BOOLEAN, page : Pages,
          conversation : Conversations \cup {None}, busy : BOOLEAN,
          loading : [Polls -> BOOLEAN],
          error : [Polls -> Failures \cup {TurnError, None}]]

TypeOK ==
    /\ stored \in [AllThreads -> Stores] /\ fault \in Errors \cup {None}
    /\ polling \in [wanted : BOOLEAN, changed : BOOLEAN, enabled : BOOLEAN]
    /\ watched \in AllThreads \cup {None} /\ archived \in BOOLEAN /\ active \in BOOLEAN
    /\ due \in [Polls -> {"never", "later", "now"}]
    /\ health \in [Polls -> Failures \cup {None}]
    /\ summaries \in Pages /\ page \in Pages \cup {None}
    /\ baseline \in Versions \cup {None} /\ conversation \in Conversations \cup {None}
    /\ unread \subseteq {NewThread} /\ read \in Failures \cup {"ok", None}
    /\ pending \in Updates /\ work \in Updates /\ ui \in Views

Init ==
    /\ stored = [t \in AllThreads |->
                   [status |-> IF t = NewThread THEN "absent" ELSE "readable",
                    version |-> 0, summary |-> 0, running |-> FALSE]]
    /\ fault = None
    /\ polling = [wanted |-> TRUE, changed |-> FALSE, enabled |-> TRUE]
    /\ watched = None /\ archived = FALSE
    /\ due = [p \in Polls |-> IF p = "conversation" THEN "never" ELSE "now"]
    /\ health = [p \in Polls |-> None]
    /\ active = FALSE /\ summaries = [t \in {} |-> 0] /\ page = None
    /\ baseline = None /\ conversation = None /\ unread = {} /\ read = None
    /\ pending = NoCommands /\ work = NoCommands
    /\ ui = [selected |-> None, archived |-> FALSE, page |-> [t \in {} |-> 0],
             conversation |-> None, busy |-> FALSE,
             loading |-> [p \in Polls |-> p # "conversation"],
             error |-> [p \in Polls |-> None]]
    /\ changes = 0 /\ faults = 0 /\ commands = 0

---------------------------------------------------------------------------
(* The app-server, and other programs that use it                           *)

Listed == {t \in AllThreads : stored[t].status \in {"new", "readable"}}

\* Content is added to a thread.  Within a running turn the page need not tell.
Write(t) ==
    /\ stored[t].status \in {"new", "readable"} /\ changes < MaxChanges
    /\ \E running, told \in BOOLEAN :
         /\ told \/ (running /\ stored[t].running)
         /\ stored' = [stored EXCEPT ![t] =
              [status |-> "readable", version |-> @.version + 1, running |-> running,
               summary |-> IF told THEN @.summary + 1 ELSE @.summary]]
    /\ changes' = changes + 1
    /\ UNCHANGED <<fault, scheduled, watched, archived, polled, pending, work, ui, faults, commands>>
Delete(t) ==
    /\ stored[t].status = "readable" /\ changes < MaxChanges
    /\ stored' = [stored EXCEPT ![t].status = "gone", ![t].running = FALSE]
    /\ changes' = changes + 1
    /\ UNCHANGED <<fault, scheduled, watched, archived, polled, pending, work, ui, faults, commands>>
Fault(error) ==
    /\ error # fault /\ faults < MaxFaults
    /\ fault' = error /\ faults' = faults + 1
    /\ UNCHANGED <<stored, scheduled, watched, archived, polled, pending, work, ui, changes, commands>>

---------------------------------------------------------------------------
(* Due times                                                                *)

TimePasses(poll) ==
    /\ due[poll] = "later" /\ due' = [due EXCEPT ![poll] = "now"]
    /\ UNCHANGED <<stored, fault, polling, watched, archived, polled, pending, work, ui,
                   changes, faults, commands>>

apply_polling_state ==
    /\ work = NoCommands /\ polling.changed
    /\ polling' = [polling EXCEPT !.changed = FALSE, !.enabled = polling.wanted]
    /\ due' = [due EXCEPT
         !.threads = IF polling.wanted THEN "now" ELSE "never",
         !.conversation = CASE ~polling.wanted -> "never"
                            [] polling.wanted /\ watched # None -> "now"
                            [] OTHER -> @]
    /\ UNCHANGED <<stored, fault, watched, archived, polled, pending, work, ui,
                   changes, faults, commands>>

---------------------------------------------------------------------------
(* PollHealth                                                               *)

\* The effect of a poll that ended with `result` where the last error was `last`.
observe(last, result) ==
    CASE result \in Failures -> IF result = last THEN "repeated" ELSE "error"
      [] result = "unchanged" /\ last # None -> "recovered"
      [] OTHER -> result

\* mutant of LastError: a success is remembered like an error
LastError_any(result) == result

LastError(result) == IF result \in Failures THEN result ELSE None

\* Whether an effect is told to the application.
Shows(effect) == effect \in {"updated", "recovered", "error"}

\* The application once the event of an effect has reached it.
Emit(view, poll, effect, result) ==
    IF Shows(effect)
    THEN [view EXCEPT !.loading[poll] = FALSE,
                      !.error[poll] = IF effect = "error" THEN result ELSE None]
    ELSE view

---------------------------------------------------------------------------
(* Polls                                                                    *)

PollThreads ==
    LET listed == IF archived THEN {} ELSE Listed
        answer == [t \in listed |-> stored[t].summary]
        result == IF fault # None THEN fault
                  ELSE IF page = answer THEN "unchanged" ELSE "updated"
        effect == observe(health.threads, result)
        SummaryOf(list) == IF watched \in DOMAIN list THEN list[watched] ELSE None
        watched_thread_changed ==
            effect = "updated" /\ watched # None /\ SummaryOf(summaries) # SummaryOf(answer)
        Applied == LET view == [ui EXCEPT !.page = answer]
                   IN  IF view.selected \in listed \cup {None} THEN view
                       ELSE [view EXCEPT !.selected = None, !.conversation = None,
                                         !.error.conversation = None,
                                         !.loading.conversation = FALSE]
        view == IF effect = "updated" /\ ui.archived = archived THEN Applied ELSE ui
    IN  /\ work = NoCommands /\ due.threads = "now"
        /\ health' = [health EXCEPT !.threads = LastError(result)]
        /\ page' = IF effect = "updated" THEN answer ELSE page
        /\ summaries' = IF effect = "updated" THEN answer ELSE summaries
        /\ due' = [due EXCEPT
             !.threads = IF polling.enabled THEN "later" ELSE "never",
             !.conversation = IF watched_thread_changed THEN "now" ELSE @]
        /\ ui' = IF ui.archived = archived THEN Emit(view, "threads", effect, result) ELSE ui
        /\ UNCHANGED <<stored, fault, polling, watched, archived, active, baseline,
                       conversation, unread, read, pending, work, changes, faults, commands>>

load_model_catalog ==
    LET result == IF fault # None THEN fault ELSE "updated"
        effect == observe(health.catalog, result)
    IN  /\ work = NoCommands /\ due.catalog = "now"
        /\ health' = [health EXCEPT !.catalog = LastError(result)]
        /\ due' = [due EXCEPT !.catalog = IF result = "updated" THEN "never" ELSE "later"]
        /\ ui' = Emit(ui, "catalog", effect, result)
        /\ UNCHANGED <<stored, fault, polling, watched, archived, active, summaries, page,
                       baseline, conversation, unread, read, pending, work, changes, faults, commands>>

Snapshot(t) == [thread |-> t, version |-> stored[t].version, live |-> FALSE]

\* mutant of classify: a thread started here is forgiven for good
classify_always(result) ==
    IF result = NotLoaded /\ watched = NewThread THEN "unchanged" ELSE result

classify(result) ==
    IF result = NotLoaded /\ watched \in unread THEN "unchanged" ELSE result

\* mutant of NextConversationPoll: a thread that runs is left to the page
NextConversationPoll_settled(result, runs, waits, lives) ==
    CASE ~polling.enabled -> "never"
      [] polling.enabled /\ (result \in Failures \/ waits \/ lives) -> "later"
      [] OTHER -> "never"

\* Failed and FollowUp poll again, Settled waits for a change of the page.
NextConversationPoll(result, runs, waits, lives) ==
    CASE ~polling.enabled -> "never"
      [] polling.enabled /\ (result \in Failures \/ waits \/ runs \/ lives) -> "later"
      [] OTHER -> "never"

\* accept_snapshot: nothing is emitted when the snapshot shows nothing new.
poll_conversation ==
    LET answer == CASE fault # None -> fault
                    [] fault = None /\ stored[watched].status # "readable" -> NotLoaded
                    [] OTHER -> IF baseline = stored[watched].version THEN "unchanged" ELSE "updated"
        result == classify(answer)
        effect == observe(health.conversation, result)
        snapshot == Snapshot(watched)
        updated == effect = "updated"
        view == IF updated THEN [ui EXCEPT !.conversation = snapshot] ELSE ui
    IN  /\ work = NoCommands /\ due.conversation = "now" /\ watched # None
        /\ health' = [health EXCEPT !.conversation = LastError(result)]
        /\ unread' = IF answer \in Failures THEN unread ELSE unread \ {watched}
        /\ baseline' = IF updated THEN snapshot.version ELSE baseline
        /\ active' = IF updated THEN stored[watched].running ELSE active
        /\ conversation' = IF updated THEN snapshot ELSE conversation
        /\ ui' = IF ui.selected = watched /\ ~(updated /\ conversation = snapshot)
                 THEN Emit(view, "conversation", effect, result) ELSE ui
        /\ due' = [due EXCEPT !.conversation =
                NextConversationPoll(result, active', watched \in unread',
                                     conversation' # None /\ conversation'.live)]
        /\ read' = IF answer \in Failures THEN answer ELSE "ok"
        /\ UNCHANGED <<stored, fault, polling, watched, archived, summaries, page, pending, work,
                       changes, faults, commands>>

---------------------------------------------------------------------------
(* Commands                                                                 *)

TakeCommands ==
    /\ work = NoCommands /\ pending # NoCommands
    /\ work' = pending /\ pending' = NoCommands
    /\ UNCHANGED <<stored, fault, scheduled, watched, archived, polled, ui,
                   changes, faults, commands>>

\* mutant of select_thread: the baseline outlives the selection
select_thread_keeping_baseline ==
    /\ active' = FALSE /\ conversation' = None /\ read' = None
    /\ health' = [health EXCEPT !.conversation = None] /\ UNCHANGED baseline

\* Whatever was known of the watched thread is forgotten.
select_thread ==
    /\ active' = FALSE /\ baseline' = None /\ conversation' = None /\ read' = None
    /\ health' = [health EXCEPT !.conversation = None]

SetThreadListScope ==
    /\ work.scope # None
    /\ work' = [work EXCEPT !.scope = None]
    /\ IF work.scope = archived
       THEN UNCHANGED <<archived, health, summaries, page, watched, due, active,
                        baseline, conversation, read>>
       ELSE /\ archived' = work.scope /\ watched' = None
            /\ summaries' = [t \in {} |-> 0] /\ page' = None
            /\ active' = FALSE /\ baseline' = None /\ conversation' = None /\ read' = None
            /\ health' = [health EXCEPT !.threads = None, !.conversation = None]
            /\ due' = [due EXCEPT !.threads = "now", !.conversation = "never"]
    /\ UNCHANGED <<stored, fault, polling, unread, pending, ui, changes, faults, commands>>

Watch ==
    /\ work.scope = None /\ work.watch # None
    /\ work' = [work EXCEPT !.watch = None]
    /\ watched' = work.watch /\ select_thread
    /\ due' = [due EXCEPT !.conversation = "now"]
    /\ UNCHANGED <<stored, fault, polling, archived, summaries, page, unread, pending, ui,
                   changes, faults, commands>>

\* mutant of Refresh: what was reported before stays suppressed
Refresh_unhealthy ==
    /\ work.scope = None /\ work.watch = None /\ work.refresh
    /\ work' = [work EXCEPT !.refresh = FALSE]
    /\ page' = None /\ baseline' = None
    /\ due' = [p \in Polls |-> IF p = "conversation" /\ watched = None THEN due[p] ELSE "now"]
    /\ UNCHANGED <<stored, fault, polling, watched, archived, health, active, summaries,
                   conversation, unread, read, pending, ui, changes, faults, commands>>

Refresh ==
    /\ work.scope = None /\ work.watch = None /\ work.refresh
    /\ work' = [work EXCEPT !.refresh = FALSE]
    /\ health' = [p \in Polls |-> None] /\ page' = None /\ baseline' = None /\ read' = None
    /\ due' = [p \in Polls |-> IF p = "conversation" /\ watched = None THEN due[p] ELSE "now"]
    /\ UNCHANGED <<stored, fault, polling, watched, archived, active, summaries,
                   conversation, unread, pending, ui, changes, faults, commands>>

\* The writer's subscription shows the new thread; its first read may come too soon.
Starts ==
    LET snapshot == Snapshot(NewThread)
    IN  /\ ~archived /\ fault = None
        /\ stored' = [stored EXCEPT ![NewThread].status = "new"]
        /\ watched' = NewThread /\ unread' = unread \cup {NewThread}
        /\ active' = FALSE /\ baseline' = None /\ conversation' = snapshot /\ read' = None
        /\ health' = [health EXCEPT !.threads = None, !.conversation = None] /\ page' = None
        /\ due' = [due EXCEPT !.threads = "now", !.conversation = "later"]
        /\ ui' = [ui EXCEPT !.selected = NewThread, !.conversation = snapshot, !.busy = FALSE,
                            !.loading.conversation = FALSE, !.error.conversation = None]
StartFails ==
    /\ archived \/ fault # None
    /\ ui' = [ui EXCEPT !.busy = FALSE]
    /\ UNCHANGED <<stored, watched, unread, active, baseline, conversation, read, health, page, due>>
start_thread ==
    /\ work.scope = None /\ work.watch = None /\ ~work.refresh /\ work.start
    /\ work' = [work EXCEPT !.start = FALSE]
    /\ Starts \/ StartFails
    /\ UNCHANGED <<fault, polling, archived, summaries, pending, changes, faults, commands>>

\* The turn has ended: its messages are shown, or its error.
TurnEnds ==
    LET next == stored[watched].version + 1
        shown == [thread |-> watched, version |-> next, live |-> TRUE]
    IN  /\ fault = None /\ stored[watched].status \in {"new", "readable"}
        /\ ~stored[watched].running
        /\ stored' = [stored EXCEPT ![watched] = [status |-> "readable", version |-> next,
                                     summary |-> @.summary + 1, running |-> FALSE]]
        /\ conversation' = shown
        /\ ui' = IF ui.selected # watched THEN [ui EXCEPT !.busy = FALSE]
                 ELSE [ui EXCEPT !.conversation = shown, !.busy = FALSE,
                                 !.loading.conversation = FALSE, !.error.conversation = None]
TurnFails ==
    /\ ui' = IF ui.selected # watched THEN [ui EXCEPT !.busy = FALSE]
             ELSE [ui EXCEPT !.busy = FALSE, !.error.conversation = TurnError]
    /\ UNCHANGED <<stored, conversation>>
run_turn ==
    /\ work = [NoCommands EXCEPT !.turn = TRUE] /\ work' = NoCommands
    /\ watched # None
    /\ health' = [health EXCEPT !.conversation = None] /\ read' = None
    /\ due' = [due EXCEPT !.threads = "now", !.conversation = "later"]
    /\ TurnEnds \/ TurnFails
    /\ UNCHANGED <<fault, polling, watched, archived, active, summaries, page, baseline,
                   unread, pending, changes, faults, commands>>

---------------------------------------------------------------------------
(* The application                                                          *)

Send(update) ==
    /\ commands < MaxCommands /\ commands' = commands + 1
    /\ pending' = update
    /\ UNCHANGED <<stored, fault, scheduled, watched, archived, polled, work, changes, faults>>

SelectThread(t) ==
    /\ t \in DOMAIN ui.page /\ t # ui.selected /\ ~ui.busy
    /\ Send([pending EXCEPT !.watch = t])
    /\ ui' = [ui EXCEPT !.selected = t, !.conversation = None,
                        !.loading.conversation = TRUE, !.error.conversation = None]
PressRefresh ==
    /\ Refreshes /\ ~ui.busy
    /\ Send([pending EXCEPT !.refresh = TRUE])
    /\ ui' = [ui EXCEPT !.error.catalog = None,
         !.loading = [p \in Polls |-> p = "conversation" /\ ui.selected = None => @[p]]]
ShowArchivedThreads ==
    /\ ~ui.busy /\ ~ui.loading.threads /\ ~ui.loading.conversation
    /\ Send([pending EXCEPT !.scope = ~ui.archived])
    /\ ui' = [ui EXCEPT !.archived = ~@, !.page = [t \in {} |-> 0], !.selected = None,
                        !.conversation = None, !.loading.threads = TRUE,
                        !.error.threads = None, !.error.conversation = None]
StartThread ==
    /\ ~ui.busy /\ ~ui.archived /\ ~ui.loading.threads /\ ~ui.loading.conversation
    /\ stored[NewThread].status = "absent"
    /\ Send([pending EXCEPT !.start = TRUE]) /\ ui' = [ui EXCEPT !.busy = TRUE]
StartTurn ==
    /\ ~ui.busy /\ ~ui.archived /\ ui.selected # None
    /\ Send([pending EXCEPT !.turn = TRUE])
    /\ ui' = [ui EXCEPT !.busy = TRUE, !.error.conversation = None]
SetPollingEnabled ==
    /\ commands < MaxCommands /\ commands' = commands + 1
    /\ polling' = [polling EXCEPT !.wanted = ~@, !.changed = TRUE]
    /\ UNCHANGED <<stored, fault, due, watched, archived, polled, pending, work, ui,
                   changes, faults>>

WorkOff == SetThreadListScope \/ Watch \/ Refresh \/ start_thread \/ run_turn
Worker ==
    \/ apply_polling_state \/ PollThreads \/ load_model_catalog \/ poll_conversation
    \/ TakeCommands \/ WorkOff
User ==
    \/ \E t \in AllThreads : SelectThread(t)
    \/ PressRefresh \/ ShowArchivedThreads \/ StartThread \/ StartTurn \/ SetPollingEnabled
Next ==
    \/ Worker \/ User
    \/ \E poll \in Polls : TimePasses(poll)
    \/ \E t \in AllThreads : Write(t) \/ Delete(t)
    \/ \E error \in Errors \cup {None} : Fault(error)
Spec == Init /\ [][Next]_vars

---------------------------------------------------------------------------
(* Properties                                                               *)

Settled == pending = NoCommands /\ work = NoCommands
\* The watched thread and the scope are those the application shows.
Matches(poll) ==
    CASE poll = "threads" -> archived = ui.archived
      [] poll = "conversation" -> watched = ui.selected /\ watched # None
      [] OTHER -> TRUE

\* An error that is suppressed from now on is one the user can see: nothing
\* that takes it off the screen leaves it remembered (PollHealth and its resets).
SuppressedIsShown ==
    Settled => \A p \in Polls :
      Matches(p) /\ health[p] # None => ui.error[p] \in {health[p], TurnError}

\* An error of a poll goes when the poll succeeds, whether or not the success
\* brings anything new.  Only a poll that is due may be about to take it off,
\* where polling is disabled none need be due, and a missing thread that is
\* forgiven reports nothing.
ErrorsAreWithdrawn ==
    Settled => \A p \in Polls :
      Matches(p) /\ ui.error[p] \in Failures /\ health[p] # ui.error[p]
        => due[p] = "now" \/ ~polling.enabled \/ (p = "conversation" /\ watched \in unread)

\* A started thread is not reported missing before it could be read once, and
\* a thread that was readable and is gone is.
MissingIsReported ==
    Settled /\ Matches("conversation") /\ read # None =>
      /\ ui.error.conversation = NotLoaded => watched \notin unread
      /\ read = NotLoaded /\ watched \notin unread => ui.error.conversation = NotLoaded

\* When all is quiet, what is shown is what is stored and no error remains, but
\* for that of a conversation which was refreshed (RefreshIsAnswered).
Quiet ==
    /\ polling = [wanted |-> TRUE, changed |-> FALSE, enabled |-> TRUE]
    /\ fault = None /\ Settled
Current ==
    /\ ~ui.archived => ui.page = [t \in Listed |-> stored[t].summary]
    /\ ui.selected # None /\ stored[ui.selected].status = "readable" =>
         /\ ui.conversation # None /\ ui.conversation.version = stored[ui.selected].version
         /\ ui.error.conversation \in {None, TurnError} \/ Refreshes
    /\ ui.error.threads = None /\ ui.error.catalog = None

\* Everything asked of the worker has been done and the selected thread was read.
IsRead == Settled /\ due.conversation = "never" /\ Matches("conversation") /\ read = "ok"

\* What a user waits for is answered: a conversation that could be read is not
\* left loading, unless the user refreshed it while it was shown in full.
RequestsAreAnswered ==
    IsRead /\ ui.loading.conversation =>
        Refreshes /\ ui.conversation # None /\ ui.conversation = conversation
\* Nor then: "its final outcome is delivered through the Codex event callback"
\* (ward_codex_history_refresh_async, observer/mod.rs:542).  The code does not keep
\* this: the poll that follows finds nothing new and tells nothing.
RefreshIsAnswered == IsRead => ~ui.loading.conversation

\* What the user waits to see, where something is polled and can be read.
Loads ==
    \/ ui.loading.catalog
    \/ polling.wanted /\ \/ ui.loading.threads
                         \/ /\ ui.loading.conversation /\ ui.selected \notin unread
                            /\ Refreshes => ui.conversation = None
=============================================================================
