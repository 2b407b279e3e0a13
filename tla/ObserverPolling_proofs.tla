------------------------ MODULE ObserverPolling_proofs ------------------------
(***************************************************************************)
(* What the application shows of the polls, for every set of threads, every  *)
(* set of errors and any bound on changes, faults and commands.              *)
(*                                                                          *)
(* IInv says what the worker remembers of a poll (PollHealth) in terms of    *)
(* what the application shows of it, also while commands wait that will      *)
(* change either: a scope on its way keeps the list loading, so that it is   *)
(* not followed by another; where a conversation was selected, a refresh     *)
(* asked for or a turn asked for, the error of the poll concerned is not     *)
(* compared before the command is worked off.  An error that is no longer    *)
(* remembered goes with the next success because that success brings         *)
(* something new: what was known of the page or of the conversation was      *)
(* forgotten with it (page, baseline and conversation).                      *)
(***************************************************************************)
EXTENDS ObserverPolling, TLAPS

\* A command of some kind waits, with the update being worked off or after it.
WatchWaits == pending.watch # None \/ work.watch # None
RefreshWaits == pending.refresh \/ work.refresh
TurnWaits == pending.turn \/ work.turn
\* The conversation that is watched is the one the application shows.
Watching == watched # None /\ watched = ui.selected
Withdrawn == due.conversation = "now" \/ ~polling.enabled \/ watched \in unread

\* The worker's scope is the application's, or follows while the list loads.
ScopeFollows ==
    /\ archived # ui.archived => ui.loading.threads
    /\ pending.scope # None =>
         pending.scope = ui.archived /\ archived # ui.archived /\ work.scope = None
    /\ work.scope # None => work.scope = ui.archived /\ archived # ui.archived
RefreshesOnly == RefreshWaits => Refreshes

ThreadErrors ==
    archived = ui.archived =>
      /\ health.threads # None => ui.error.threads = health.threads
      /\ ui.error.threads \in Failures /\ health.threads = None =>
           page = None /\ (due.threads = "now" \/ ~polling.enabled)
CatalogErrors ==
    /\ health.catalog # None /\ (~RefreshWaits \/ ui.error.catalog \in Failures)
         => ui.error.catalog = health.catalog
    /\ ui.error.catalog \in Failures /\ health.catalog = None => due.catalog = "now"
ConversationErrors ==
    Watching /\ ~WatchWaits =>
      /\ health.conversation # None /\ ~TurnWaits
           => ui.error.conversation = health.conversation
      /\ read = NotLoaded /\ ~TurnWaits /\ watched \notin unread
           => ui.error.conversation = NotLoaded
      /\ ~Refreshes /\ ui.error.conversation \in Failures =>
           \/ health.conversation = ui.error.conversation
           \/ /\ health.conversation = None /\ baseline = None /\ conversation = None
              /\ Withdrawn
      /\ ~Refreshes /\ ui.loading.conversation
           => baseline = None /\ conversation = None /\ read # "ok"
MissingIsNotForgiven == ui.error.conversation = NotLoaded => ui.selected \notin unread
\* A conversation as it was read is of the version that was read, or the start
\* of the new thread, which cannot be read until there is more of it.
ConversationIsRead ==
    ~Refreshes /\ conversation # None /\ ~conversation.live =>
      \/ conversation.version = baseline
      \/ /\ conversation.thread = NewThread
         /\ stored[NewThread].version >= conversation.version
         /\ stored[NewThread].status = "readable"
              => stored[NewThread].version > conversation.version

\* No version is beyond what changes and turns make of it.
Turns == (IF pending.turn THEN 1 ELSE 0) + (IF work.turn THEN 1 ELSE 0)
Counted ==
    /\ changes \in 0 .. MaxChanges /\ commands \in 0 .. MaxCommands
    /\ \A t \in AllThreads : /\ stored[t].summary <= stored[t].version
                             /\ stored[t].version + Turns <= changes + commands

IInv ==
    /\ TypeOK /\ Counted /\ ScopeFollows /\ RefreshesOnly /\ ThreadErrors /\ CatalogErrors
    /\ ConversationErrors /\ MissingIsNotForgiven /\ ConversationIsRead

PollingAssumption == DistinctAssumption /\ BoundsAssumption

---------------------------------------------------------------------------
(* Polls and their effects                                                  *)

\* What a poll is reported as, by how it ended.
LEMMA EffectOf ==
  ASSUME PollingAssumption, NEW last \in Failures \cup {None},
         NEW result \in Failures \cup {"updated", "unchanged"}
  PROVE  /\ LastError(result) = IF result \in Failures THEN result ELSE None
         /\ observe(last, result) =
              IF result \in Failures THEN (IF result = last THEN "repeated" ELSE "error")
              ELSE IF result = "unchanged" /\ last # None THEN "recovered" ELSE result
BY DEF PollingAssumption, DistinctAssumption, observe, LastError

\* A page is of some threads.
LEMMA IsPage ==
  ASSUME NEW list \in SUBSET AllThreads, NEW summary \in [list -> Versions]
  PROVE  summary \in Pages
BY DEF Pages

LEMMA NoPage == ASSUME PollingAssumption PROVE [t \in {} |-> 0] \in Pages
<1>1. 0 \in Versions
  BY DEF PollingAssumption, BoundsAssumption, Versions
<1>2. [t \in {} |-> 0] \in [{} -> Versions]
  BY <1>1
<1> QED BY <1>2, IsPage

\* What is shown of a poll changes with its effect, and nothing else does.
ShowsEffect(shown, view, poll, effect, result) ==
    /\ shown \in Views
    /\ shown.selected = view.selected /\ shown.archived = view.archived
    /\ shown.page = view.page /\ shown.conversation = view.conversation
    /\ \A p \in Polls \ {poll} :
         shown.loading[p] = view.loading[p] /\ shown.error[p] = view.error[p]
    /\ IF Shows(effect)
       THEN /\ shown.loading[poll] = FALSE
            /\ shown.error[poll] = IF effect = "error" THEN result ELSE None
       ELSE shown.loading[poll] = view.loading[poll] /\ shown.error[poll] = view.error[poll]
LEMMA EmitShows ==
  ASSUME PollingAssumption, NEW view \in Views, NEW poll \in Polls, NEW effect, NEW result,
         effect = "error" => result \in Failures
  PROVE  ShowsEffect(Emit(view, poll, effect, result), view, poll, effect, result)
BY DEF Emit, Views, ShowsEffect

---------------------------------------------------------------------------
(* The initial states                                                       *)

LEMMA PollingStarts == ASSUME PollingAssumption, Init PROVE IInv
<1> USE DEF PollingAssumption, DistinctAssumption, BoundsAssumption, Init
<1>1. TypeOK
  <2>1. 0 \in Versions
    BY DEF Versions
  <2>2. [t \in {} |-> 0] \in Pages
    BY NoPage
  <2>3. stored \in [AllThreads -> Stores]
    BY <2>1 DEF Stores
  <2>4. NoCommands \in Updates
    BY DEF NoCommands, Updates
  <2>5. ui \in Views
    BY <2>2 DEF Views
  <2>6. due \in [Polls -> {"never", "later", "now"}]
    OBVIOUS
  <2>7. health \in [Polls -> Failures \cup {None}]
    OBVIOUS
  <2> QED BY <2>2, <2>3, <2>4, <2>5, <2>6, <2>7 DEF TypeOK
<1>2. Counted
  <2>1. Turns = 0
    BY DEF Turns, NoCommands
  <2> QED BY <2>1 DEF Counted
<1>3. ScopeFollows /\ RefreshesOnly
  BY DEF ScopeFollows, RefreshesOnly, RefreshWaits, NoCommands
<1>4. ThreadErrors /\ CatalogErrors
  BY DEF ThreadErrors, CatalogErrors, Polls, Failures
<1>5. ConversationErrors /\ MissingIsNotForgiven /\ ConversationIsRead
  BY DEF ConversationErrors, MissingIsNotForgiven, ConversationIsRead, Watching
<1> QED BY <1>1, <1>2, <1>3, <1>4, <1>5 DEF IInv

---------------------------------------------------------------------------
(* The app-server                                                           *)

LEMMA ServerKeeps ==
  ASSUME PollingAssumption, IInv,
         \/ \E t \in AllThreads : Write(t) \/ Delete(t)
         \/ \E error \in Errors \cup {None} : Fault(error)
  PROVE  IInv'
<1> USE DEF scheduled, polled
<1>1. /\ UNCHANGED <<polling, due, watched, archived, health, active, summaries, page, baseline,
                     conversation, unread, read, pending, work, ui, commands>>
  BY DEF Write, Delete, Fault
<1>2. /\ stored' \in [AllThreads -> Stores] /\ fault' \in Errors \cup {None}
      /\ Counted'
      /\ \A t \in AllThreads :
           /\ stored'[t].version >= stored[t].version
           /\ stored'[t].status = "readable" =>
                stored[t].status = "readable" \/ stored'[t].version > stored[t].version
  <2>1. ASSUME NEW t \in AllThreads, Write(t) PROVE <1>2
    BY <2>1, <1>1 DEF Write, IInv, TypeOK, Counted, Turns, Stores, Versions, PollingAssumption, BoundsAssumption
  <2>2. ASSUME NEW t \in AllThreads, Delete(t) PROVE <1>2
    BY <2>2, <1>1 DEF Delete, IInv, TypeOK, Counted, Turns, Stores, Versions, PollingAssumption, BoundsAssumption
  <2>3. ASSUME NEW error \in Errors \cup {None}, Fault(error) PROVE <1>2
    BY <2>3, <1>1 DEF Fault, IInv, TypeOK, Counted, Turns, Stores, Versions, PollingAssumption, BoundsAssumption
  <2> QED BY <2>1, <2>2, <2>3
<1>3. TypeOK'
  BY <1>1, <1>2 DEF IInv, TypeOK
<1>4. ScopeFollows' /\ RefreshesOnly' /\ ThreadErrors' /\ CatalogErrors' /\ MissingIsNotForgiven'
  BY <1>1 DEF IInv, ScopeFollows, RefreshesOnly, RefreshWaits, ThreadErrors, CatalogErrors,
              MissingIsNotForgiven
<1>5. ConversationErrors'
  BY <1>1 DEF IInv, ConversationErrors, Watching, WatchWaits, TurnWaits, Withdrawn
<1>6. ConversationIsRead'
  BY <1>1, <1>2 DEF IInv, ConversationIsRead, TypeOK, Conversations, Versions, Stores, AllThreads, PollingAssumption, BoundsAssumption
<1> QED BY <1>2, <1>3, <1>4, <1>5, <1>6 DEF IInv

---------------------------------------------------------------------------
(* Due times                                                                *)

LEMMA TimersKeep ==
  ASSUME PollingAssumption, IInv,
         apply_polling_state \/ \E poll \in Polls : TimePasses(poll)
  PROVE  IInv'
<1> USE DEF scheduled, polled
<1>1. /\ UNCHANGED <<stored, fault, watched, archived, health, active, summaries, page, baseline,
                     conversation, unread, read, pending, work, ui, changes, faults, commands>>
  BY DEF apply_polling_state, TimePasses
<1>2. /\ polling' \in [wanted : BOOLEAN, changed : BOOLEAN, enabled : BOOLEAN]
      /\ due' \in [Polls -> {"never", "later", "now"}]
      /\ due.catalog = "now" => due'.catalog = "now"
      /\ due.threads = "now" \/ ~polling.enabled =>
           due'.threads = "now" \/ ~polling'.enabled
      /\ Watching /\ Withdrawn => due'.conversation = "now" \/ ~polling'.enabled \/ watched \in unread
  <2>1. CASE apply_polling_state
    BY <2>1, <1>1 DEF apply_polling_state, IInv, TypeOK, Polls, Watching, Withdrawn
  <2>2. ASSUME NEW poll \in Polls, TimePasses(poll) PROVE <1>2
    BY <2>2, <1>1 DEF TimePasses, IInv, TypeOK, Polls, Withdrawn
  <2> QED BY <2>1, <2>2
<1>3. TypeOK' /\ Counted'
  BY <1>1, <1>2 DEF IInv, TypeOK, Counted, Turns
<1>4. ScopeFollows' /\ RefreshesOnly' /\ MissingIsNotForgiven' /\ ConversationIsRead'
  BY <1>1 DEF IInv, ScopeFollows, RefreshesOnly, RefreshWaits, MissingIsNotForgiven, ConversationIsRead
<1>5. ThreadErrors' /\ CatalogErrors'
  BY <1>1, <1>2 DEF IInv, ThreadErrors, CatalogErrors, RefreshWaits
<1>6. ConversationErrors'
  BY <1>1, <1>2 DEF IInv, ConversationErrors, Watching, WatchWaits, TurnWaits, Withdrawn
<1> QED BY <1>3, <1>4, <1>5, <1>6 DEF IInv

---------------------------------------------------------------------------
(* Polls                                                                    *)

LEMMA ThreadsPollKeeps == ASSUME PollingAssumption, IInv, PollThreads PROVE IInv'
<1> USE DEF PollingAssumption
<1> DEFINE listed == IF archived THEN {} ELSE Listed
           answer == [t \in listed |-> stored[t].summary]
           result == IF fault # None THEN fault
                     ELSE IF page = answer THEN "unchanged" ELSE "updated"
           effect == observe(health.threads, result)
           renewed == [ui EXCEPT !.page = answer]
           applied == IF renewed.selected \in listed \cup {None} THEN renewed
                      ELSE [renewed EXCEPT !.selected = None, !.conversation = None,
                                           !.error.conversation = None,
                                           !.loading.conversation = FALSE]
           view == IF effect = "updated" /\ ui.archived = archived THEN applied ELSE ui
<1>1. /\ UNCHANGED <<stored, fault, polling, watched, archived, active, baseline,
                     conversation, unread, read, pending, work, changes, faults, commands>>
      /\ health' = [health EXCEPT !.threads = LastError(result)]
      /\ page' = IF effect = "updated" THEN answer ELSE page
      /\ summaries' = IF effect = "updated" THEN answer ELSE summaries
      /\ ui' = IF ui.archived = archived THEN Emit(view, "threads", effect, result) ELSE ui
  BY DEF PollThreads
<1>0. due' = [due EXCEPT !.threads = IF polling.enabled THEN "later" ELSE "never",
                         !.conversation = due'.conversation]
      /\ due'.conversation \in {"now", due.conversation}
  BY DEF PollThreads, IInv, TypeOK, Polls
<1>2. answer \in Pages
  <2>1. listed \in SUBSET AllThreads
    BY DEF Listed
  <2>2. answer \in [listed -> Versions]
    BY <2>1 DEF IInv, TypeOK, Stores
  <2> QED BY <2>1, <2>2, IsPage
<1>3. result \in Failures \cup {"updated", "unchanged"} /\ health.threads \in Failures \cup {None}
  BY DEF IInv, TypeOK, Failures, Polls
<1>4. /\ LastError(result) = IF result \in Failures THEN result ELSE None
      /\ effect = IF result \in Failures THEN (IF result = health.threads THEN "repeated" ELSE "error")
                  ELSE IF result = "unchanged" /\ health.threads # None THEN "recovered" ELSE result
  BY <1>3, EffectOf
<1>5. /\ view \in Views /\ view.archived = ui.archived
      /\ view.error.threads = ui.error.threads /\ view.error.catalog = ui.error.catalog
      /\ view.loading.threads = ui.loading.threads
      /\ view.selected \in {ui.selected, None}
      /\ view.selected = None /\ ui.selected # None => view.error.conversation = None
      /\ view.selected = ui.selected =>
           /\ view.error.conversation = ui.error.conversation
           /\ view.loading.conversation = ui.loading.conversation
  BY <1>2 DEF IInv, TypeOK, Views, Polls
<1> HIDE DEF view, result, effect, answer, listed
<1>6. effect = "error" => result \in Failures
  BY <1>3, <1>4
<1>7. /\ ui' \in Views /\ ui'.archived = ui.archived
      /\ ui'.selected \in {ui.selected, None} /\ ui'.error.catalog = ui.error.catalog
      /\ ui'.selected = None /\ ui.selected # None => ui'.error.conversation = None
      /\ ui'.selected = ui.selected =>
           /\ ui'.error.conversation = ui.error.conversation
           /\ ui'.loading.conversation = ui.loading.conversation
      /\ ui.archived # archived => ui'.loading.threads = ui.loading.threads
      /\ ui.archived = archived => ui'.error.threads = IF Shows(effect) THEN (IF effect = "error" THEN result ELSE None) ELSE ui.error.threads
  <2>1. CASE ui.archived # archived
    BY <1>1, <2>1 DEF IInv, TypeOK
  <2>2. CASE ui.archived = archived
    <3>1. ui' = Emit(view, "threads", effect, result)
      BY <1>1, <2>2
    <3>2. ShowsEffect(ui', view, "threads", effect, result)
      BY <3>1, <1>5, <1>6, EmitShows DEF Polls
    <3> QED BY <3>2, <2>2, <1>5 DEF ShowsEffect, Polls
  <2> QED BY <2>1, <2>2
<1>8. TypeOK' /\ Counted'
  <2>1. health' \in [Polls -> Failures \cup {None}]
    BY <1>1, <1>3, <1>4 DEF IInv, TypeOK
  <2>2. due' \in [Polls -> {"never", "later", "now"}]
    BY <1>0 DEF IInv, TypeOK, Polls
  <2> QED BY <1>1, <1>2, <1>7, <2>1, <2>2 DEF IInv, TypeOK, Counted, Turns
<1>9. ScopeFollows' /\ RefreshesOnly'
  BY <1>1, <1>7 DEF IInv, ScopeFollows, RefreshesOnly, RefreshWaits
<1>13. MissingIsNotForgiven' /\ ConversationIsRead'
  BY <1>1, <1>7 DEF IInv, MissingIsNotForgiven, ConversationIsRead, DistinctAssumption, Failures
<1>14. /\ health'.threads = LastError(result) /\ health'.catalog = health.catalog
       /\ due'.catalog = due.catalog
  BY <1>0, <1>1 DEF IInv, TypeOK, Polls
<1>10. ThreadErrors'
  <2> SUFFICES ASSUME archived = ui.archived PROVE ThreadErrors'
    BY <1>1, <1>7 DEF ThreadErrors
  <2>1. health'.threads # None => ui'.error.threads = health'.threads
    BY <1>3, <1>4, <1>7, <1>14 DEF IInv, ThreadErrors, Shows, DistinctAssumption
  <2>2. ASSUME ui'.error.threads \in Failures PROVE health'.threads # None
    <3>1. page = None => result # "unchanged"
      BY <1>2 DEF result, DistinctAssumption, IInv, TypeOK, Failures
    <3> QED BY <2>2, <3>1, <1>3, <1>4, <1>7, <1>14 DEF IInv, ThreadErrors, Shows, DistinctAssumption
  <2> QED BY <2>1, <2>2 DEF ThreadErrors
<1>11. CatalogErrors'
  BY <1>1, <1>7, <1>14 DEF IInv, CatalogErrors, RefreshWaits
<1>12. ConversationErrors'
  <2>1. health'.conversation = health.conversation
    BY <1>1 DEF IInv, TypeOK, Polls
  <2> QED BY <2>1, <1>0, <1>1, <1>7 DEF IInv, ConversationErrors, Watching, WatchWaits, TurnWaits, Withdrawn
<1> QED BY <1>8, <1>9, <1>10, <1>11, <1>12, <1>13 DEF IInv

LEMMA CatalogPollKeeps == ASSUME PollingAssumption, IInv, load_model_catalog PROVE IInv'
<1> USE DEF PollingAssumption
<1> DEFINE result == IF fault # None THEN fault ELSE "updated"
           effect == observe(health.catalog, result)
<1>1. /\ UNCHANGED <<stored, fault, polling, watched, archived, active, summaries, page,
                       baseline, conversation, unread, read, pending, work, changes, faults, commands>>
      /\ health' = [health EXCEPT !.catalog = LastError(result)]
      /\ due' = [due EXCEPT !.catalog = IF result = "updated" THEN "never" ELSE "later"]
      /\ ui' = Emit(ui, "catalog", effect, result)
  BY DEF load_model_catalog
<1>2. result \in Failures \cup {"updated", "unchanged"} /\ health.catalog \in Failures \cup {None}
  BY DEF IInv, TypeOK, Failures, Polls
<1>3. /\ LastError(result) = IF result \in Failures THEN result ELSE None
      /\ effect = IF result \in Failures THEN (IF result = health.catalog THEN "repeated" ELSE "error")
                  ELSE IF result = "unchanged" /\ health.catalog # None THEN "recovered" ELSE result
  BY <1>2, EffectOf
<1>4. result # "unchanged"
  BY DEF IInv, TypeOK, Failures, DistinctAssumption
<1> HIDE DEF result, effect
<1>5. /\ ui' \in Views /\ ui'.archived = ui.archived /\ ui'.selected = ui.selected
      /\ ui'.error.threads = ui.error.threads /\ ui'.error.conversation = ui.error.conversation
      /\ ui'.loading.threads = ui.loading.threads
      /\ ui'.loading.conversation = ui.loading.conversation
      /\ ui'.error.catalog = IF Shows(effect) THEN (IF effect = "error" THEN result ELSE None) ELSE ui.error.catalog
  <2>1. effect = "error" => result \in Failures
    BY <1>2, <1>3
  <2>2. ui \in Views
    BY DEF IInv, TypeOK
  <2>3. ShowsEffect(ui', ui, "catalog", effect, result)
    BY <1>1, <2>1, <2>2, EmitShows DEF Polls
  <2> QED BY <2>3 DEF ShowsEffect, Polls
<1>6. /\ health' \in [Polls -> Failures \cup {None}] /\ due' \in [Polls -> {"never", "later", "now"}]
      /\ health'.catalog = LastError(result) 
      /\ health'.threads = health.threads /\ health'.conversation = health.conversation
      /\ due'.threads = due.threads /\ due'.conversation = due.conversation
  BY <1>1, <1>2, <1>3 DEF IInv, TypeOK, Polls
<1>7. TypeOK' /\ Counted'
  BY <1>1, <1>5, <1>6 DEF IInv, TypeOK, Counted, Turns
<1>8. ScopeFollows' /\ RefreshesOnly' /\ MissingIsNotForgiven' /\ ConversationIsRead'
  BY <1>1, <1>5 DEF IInv, ScopeFollows, RefreshesOnly, RefreshWaits, MissingIsNotForgiven, ConversationIsRead
<1>9. ThreadErrors'
  BY <1>1, <1>5, <1>6 DEF IInv, ThreadErrors
<1>10. CatalogErrors'
  BY <1>1, <1>2, <1>3, <1>4, <1>5, <1>6 DEF IInv, CatalogErrors, RefreshWaits, Shows, DistinctAssumption
<1>11. ConversationErrors'
  BY <1>1, <1>5, <1>6 DEF IInv, ConversationErrors, Watching, WatchWaits, TurnWaits, Withdrawn
<1> QED BY <1>7, <1>8, <1>9, <1>10, <1>11 DEF IInv

LEMMA ConversationPollKeeps == ASSUME PollingAssumption, IInv, poll_conversation PROVE IInv'
<1> USE DEF PollingAssumption
<1> DEFINE answer == CASE fault # None -> fault
                    [] fault = None /\ stored[watched].status # "readable" -> NotLoaded
                    [] OTHER -> IF baseline = stored[watched].version THEN "unchanged" ELSE "updated"
           result == classify(answer)
           effect == observe(health.conversation, result)
           snapshot == Snapshot(watched)
           updated == effect = "updated"
           view == IF updated THEN [ui EXCEPT !.conversation = snapshot] ELSE ui
           follows == NextConversationPoll(result, active', watched \in unread',
                                     conversation' # None /\ conversation'.live)
<1>1. /\ UNCHANGED <<stored, fault, polling, watched, archived, summaries, page, pending, work,
                       changes, faults, commands>>
      /\ watched # None
  BY DEF poll_conversation
<1>0. /\ health' = [health EXCEPT !.conversation = LastError(result)]
      /\ unread' = IF answer \in Failures THEN unread ELSE unread \ {watched}
      /\ baseline' = IF updated THEN snapshot.version ELSE baseline
      /\ active' = IF updated THEN stored[watched].running ELSE active
      /\ conversation' = IF updated THEN snapshot ELSE conversation
      /\ ui' = IF ui.selected = watched /\ ~(updated /\ conversation = snapshot)
                 THEN Emit(view, "conversation", effect, result) ELSE ui
      /\ due' = [due EXCEPT !.conversation = follows]
      /\ read' = IF answer \in Failures THEN answer ELSE "ok"
  BY DEF poll_conversation
<1>2. watched \in AllThreads /\ snapshot \in Conversations /\ snapshot.version = stored[watched].version
      /\ ~snapshot.live /\ snapshot.thread = watched /\ stored[watched].running \in BOOLEAN
  BY <1>0, <1>1 DEF IInv, TypeOK, Snapshot, Conversations, Stores
<1>3. /\ answer \in Failures \cup {"updated", "unchanged"}
      /\ answer = "unchanged" => baseline = stored[watched].version
      /\ answer = "updated" => stored[watched].status = "readable" /\ baseline # stored[watched].version
  BY DEF IInv, TypeOK, Failures, DistinctAssumption
<1>4. result = IF answer = NotLoaded /\ watched \in unread THEN "unchanged" ELSE answer
  BY DEF classify
<1>5. result \in Failures \cup {"updated", "unchanged"} /\ health.conversation \in Failures \cup {None}
  <2>1. health.conversation \in Failures \cup {None}
    BY DEF IInv, TypeOK, Polls
  <2> HIDE DEF answer, result
  <2> QED BY <2>1, <1>3, <1>4
<1>6. /\ LastError(result) = IF result \in Failures THEN result ELSE None
      /\ effect = IF result \in Failures THEN (IF result = health.conversation THEN "repeated" ELSE "error")
                  ELSE IF result = "unchanged" /\ health.conversation # None THEN "recovered" ELSE result
  BY <1>5, EffectOf
<1>7. follows \in {"never", "later", "now"}
  BY DEF NextConversationPoll
<1>8. watched \in unread' /\ polling.enabled => follows = "later"
  BY DEF NextConversationPoll
<1> HIDE DEF answer, result, effect, snapshot, follows
<1>9. view \in Views /\ view.archived = ui.archived /\ view.selected = ui.selected
      /\ view.error = ui.error /\ view.loading = ui.loading
  BY <1>2 DEF IInv, TypeOK, Views
<1> HIDE DEF view
<1>10. /\ ui' \in Views /\ ui'.archived = ui.archived /\ ui'.selected = ui.selected
      /\ ui'.error.threads = ui.error.threads /\ ui'.error.catalog = ui.error.catalog
      /\ ui'.loading.threads = ui.loading.threads
      /\ IF ui.selected = watched /\ effect \in {"updated", "recovered", "error"}
            /\ ~(effect = "updated" /\ conversation = snapshot)
         THEN /\ ui'.error.conversation = IF effect = "error" THEN result ELSE None
              /\ ui'.loading.conversation = FALSE
         ELSE /\ ui'.error.conversation = ui.error.conversation
              /\ ui'.loading.conversation = ui.loading.conversation
  <2>1. effect = "error" => result \in Failures
    BY <1>5, <1>6
  <2>2. CASE ui.selected = watched /\ ~(updated /\ conversation = snapshot)
    <3>1. ui' = Emit(view, "conversation", effect, result)
      BY <1>0, <1>1, <2>2
    <3>2. ShowsEffect(ui', view, "conversation", effect, result)
      BY <3>1, <2>1, <1>9, EmitShows DEF Polls
    <3> QED BY <3>2, <2>2, <1>9 DEF ShowsEffect, Polls, Shows
  <2>3. CASE ~(ui.selected = watched /\ ~(updated /\ conversation = snapshot))
    BY <1>0, <1>1, <2>3 DEF IInv, TypeOK
  <2> QED BY <2>2, <2>3
<1>11. /\ health' \in [Polls -> Failures \cup {None}] /\ due' \in [Polls -> {"never", "later", "now"}]
      /\ health'.conversation = LastError(result) 
      /\ health'.threads = health.threads /\ health'.catalog = health.catalog
      /\ due'.threads = due.threads /\ due'.catalog = due.catalog /\ due'.conversation = follows
  BY <1>0, <1>1, <1>5, <1>6, <1>7 DEF IInv, TypeOK, Polls
<1>12. TypeOK' /\ Counted'
  <2>1. baseline' \in Versions \cup {None} /\ conversation' \in Conversations \cup {None}
        /\ active' \in BOOLEAN
    BY <1>0, <1>1, <1>2 DEF IInv, TypeOK, Conversations
  <2>2. read' \in Failures \cup {"ok", None} /\ unread' \subseteq {NewThread}
    BY <1>0, <1>1 DEF IInv, TypeOK
  <2> QED BY <1>0, <1>1, <1>10, <1>11, <2>1, <2>2 DEF IInv, TypeOK, Counted, Turns
<1>13. ScopeFollows' /\ RefreshesOnly'
  BY <1>1, <1>10 DEF IInv, ScopeFollows, RefreshesOnly, RefreshWaits
<1>14. ThreadErrors' /\ CatalogErrors'
  BY <1>1, <1>10, <1>11 DEF IInv, ThreadErrors, CatalogErrors, RefreshWaits
<1>15. MissingIsNotForgiven'
  BY <1>0, <1>1, <1>3, <1>4, <1>5, <1>6, <1>10 DEF IInv, MissingIsNotForgiven, DistinctAssumption, Failures
<1>16. ConversationIsRead'
  BY <1>0, <1>1, <1>2 DEF IInv, ConversationIsRead
<1>17. updated /\ ~Refreshes => conversation # snapshot
  BY <1>0, <1>1, <1>2, <1>3, <1>4, <1>5, <1>6 DEF IInv, TypeOK, ConversationIsRead, DistinctAssumption, Versions, Stores
<1>19. baseline = None => answer # "unchanged"
  BY <1>2, <1>3 DEF IInv, TypeOK, Stores, DistinctAssumption
<1>18. ConversationErrors'
  <2> SUFFICES ASSUME Watching', ~WatchWaits' PROVE ConversationErrors'
    BY DEF ConversationErrors
  <2>1. ui.selected = watched /\ Watching /\ ~WatchWaits /\ (TurnWaits' <=> TurnWaits)
    BY <1>0, <1>1, <1>10 DEF Watching, WatchWaits, TurnWaits
  <2>2. health'.conversation # None /\ ~TurnWaits' => ui'.error.conversation = health'.conversation
    BY <2>1, <1>5, <1>6, <1>10, <1>11 DEF IInv, ConversationErrors, DistinctAssumption
  <2>3. read' = NotLoaded /\ ~TurnWaits' /\ watched' \notin unread' => ui'.error.conversation = NotLoaded
    BY <2>1, <2>2, <1>0, <1>1, <1>3, <1>4, <1>6, <1>11 DEF DistinctAssumption, Failures
  <2>4. ASSUME ~Refreshes, ui'.error.conversation \in Failures
        PROVE  \/ health'.conversation = ui'.error.conversation
               \/ health'.conversation = None /\ baseline' = None /\ conversation' = None
                  /\ Withdrawn'
    <3>1. CASE result \in Failures
      BY <2>1, <2>4, <3>1, <1>0, <1>5, <1>6, <1>10, <1>11
         DEF IInv, ConversationErrors, DistinctAssumption
    <3>2. CASE result = "updated"
      BY <2>1, <2>4, <3>2, <1>5, <1>6, <1>10, <1>17 DEF DistinctAssumption
    <3>3. CASE result = "unchanged"
      <4>1. health.conversation = None /\ ui'.error.conversation = ui.error.conversation
        BY <2>1, <2>4, <3>3, <1>5, <1>6, <1>10 DEF DistinctAssumption
      <4>2. baseline = None /\ conversation = None
        BY <2>1, <2>4, <4>1 DEF IInv, ConversationErrors, DistinctAssumption
      <4>3. answer = NotLoaded /\ watched \in unread
        BY <3>3, <4>2, <1>3, <1>4, <1>19
      <4>4. unread' = unread /\ baseline' = None /\ conversation' = None
        BY <3>3, <4>2, <4>3, <1>0, <1>6 DEF Failures, DistinctAssumption
      <4>5. health'.conversation = None
        BY <3>3, <1>6, <1>11 DEF DistinctAssumption
      <4>6. Withdrawn'
        BY <1>1, <4>3, <4>4 DEF Withdrawn
      <4> QED BY <4>4, <4>5, <4>6
    <3> QED BY <3>1, <3>2, <3>3, <1>5
  <2>5. ASSUME ~Refreshes, ui'.loading.conversation
        PROVE  baseline' = None /\ conversation' = None /\ read' # "ok"
    <3>1. ui.loading.conversation
      BY <2>5, <1>10
    <3>2. baseline = None /\ conversation = None
      BY <2>1, <2>5, <3>1 DEF IInv, ConversationErrors
    <3>3. effect # "updated"
      BY <2>1, <2>5, <1>10, <1>17
    <3>4. answer \in Failures
      BY <3>2, <3>3, <1>3, <1>4, <1>6, <1>19 DEF DistinctAssumption, Failures
    <3> QED BY <3>2, <3>3, <3>4, <1>0 DEF DistinctAssumption
  <2> QED BY <2>2, <2>3, <2>4, <2>5, <1>1 DEF ConversationErrors
<1> QED BY <1>12, <1>13, <1>14, <1>15, <1>16, <1>18 DEF IInv

---------------------------------------------------------------------------
(* Commands                                                                 *)

LEMMA TakeKeeps == ASSUME PollingAssumption, IInv, TakeCommands PROVE IInv'
<1> USE DEF scheduled, polled
<1>1. /\ UNCHANGED <<stored, fault, polling, due, watched, archived, health, active, summaries, page,
                     baseline, conversation, unread, read, ui, changes, faults, commands>>
      /\ work = NoCommands /\ work' = pending /\ pending' = NoCommands
  BY DEF TakeCommands
<1>2. NoCommands \in Updates
  BY DEF NoCommands, Updates
<1>3. TypeOK'
  BY <1>1, <1>2 DEF IInv, TypeOK
<1>4. Turns' = Turns
  BY <1>1 DEF Turns, NoCommands
<1>5. Counted'
  BY <1>1, <1>4 DEF IInv, Counted
<1>6. ScopeFollows'
  BY <1>1 DEF IInv, ScopeFollows, NoCommands
<1>7. /\ WatchWaits' <=> WatchWaits
      /\ RefreshWaits' <=> RefreshWaits
      /\ TurnWaits' <=> TurnWaits
  BY <1>1 DEF WatchWaits, RefreshWaits, TurnWaits, NoCommands
<1>8. RefreshesOnly' /\ ThreadErrors' /\ CatalogErrors' /\ ConversationErrors'
  BY <1>1, <1>7 DEF IInv, RefreshesOnly, ThreadErrors, CatalogErrors, ConversationErrors, Watching, Withdrawn
<1>9. MissingIsNotForgiven' /\ ConversationIsRead'
  BY <1>1 DEF IInv, MissingIsNotForgiven, ConversationIsRead
<1> QED BY <1>3, <1>5, <1>6, <1>8, <1>9 DEF IInv

LEMMA ScopeKeeps == ASSUME PollingAssumption, IInv, SetThreadListScope PROVE IInv'
<1> USE DEF scheduled, polled
<1>1. /\ UNCHANGED <<stored, fault, polling, unread, pending, ui, changes, faults, commands>>
      /\ work.scope # None /\ work' = [work EXCEPT !.scope = None]
  BY DEF SetThreadListScope
<1>2. /\ work.scope = ui.archived /\ archived # ui.archived /\ pending.scope = None
  BY <1>1 DEF IInv, ScopeFollows
<1>3. /\ archived' = ui.archived /\ watched' = None
      /\ summaries' = [t \in {} |-> 0] /\ page' = None
      /\ active' = FALSE /\ baseline' = None /\ conversation' = None /\ read' = None
      /\ health' = [health EXCEPT !.threads = None, !.conversation = None]
      /\ due' = [due EXCEPT !.threads = "now", !.conversation = "never"]
  BY <1>2 DEF SetThreadListScope
<1>4. /\ health' \in [Polls -> Failures \cup {None}] /\ due' \in [Polls -> {"never", "later", "now"}]
      /\ health'.threads = None /\ health'.catalog = health.catalog
      /\ due'.threads = "now" /\ due'.catalog = due.catalog
  BY <1>3 DEF IInv, TypeOK, Polls
<1>5. /\ work' \in Updates /\ work'.scope = None
      /\ work'.refresh = work.refresh /\ work'.turn = work.turn
  BY <1>1 DEF IInv, TypeOK, Updates
<1>6. TypeOK'
  <2>1. summaries' \in Pages
    BY <1>3, NoPage
  <2>2. archived' \in BOOLEAN
    BY <1>3 DEF IInv, TypeOK, Views
  <2> QED BY <1>1, <1>3, <1>4, <1>5, <2>1, <2>2 DEF IInv, TypeOK
<1>7. Counted'
  BY <1>1, <1>5 DEF IInv, Counted, Turns
<1>8. ScopeFollows' /\ RefreshesOnly'
  BY <1>1, <1>2, <1>3, <1>5 DEF IInv, ScopeFollows, RefreshesOnly, RefreshWaits
<1>9. ThreadErrors' /\ CatalogErrors'
  BY <1>1, <1>3, <1>4, <1>5 DEF IInv, ThreadErrors, CatalogErrors, RefreshWaits
<1>10. ConversationErrors' /\ MissingIsNotForgiven' /\ ConversationIsRead'
  BY <1>1, <1>3 DEF IInv, ConversationErrors, Watching, MissingIsNotForgiven, ConversationIsRead
<1> QED BY <1>6, <1>7, <1>8, <1>9, <1>10 DEF IInv

LEMMA WatchKeeps == ASSUME PollingAssumption, IInv, Watch PROVE IInv'
<1> USE DEF scheduled, polled
<1>1. /\ UNCHANGED <<stored, fault, polling, archived, summaries, page, unread, pending, ui,
                   changes, faults, commands>>
      /\ work.scope = None /\ work.watch # None /\ work' = [work EXCEPT !.watch = None]
      /\ watched' = work.watch
      /\ active' = FALSE /\ baseline' = None /\ conversation' = None /\ read' = None
      /\ health' = [health EXCEPT !.conversation = None]
      /\ due' = [due EXCEPT !.conversation = "now"]
  BY DEF Watch, select_thread
<1>2. /\ health' \in [Polls -> Failures \cup {None}] /\ due' \in [Polls -> {"never", "later", "now"}]
      /\ health'.threads = health.threads /\ health'.catalog = health.catalog
      /\ health'.conversation = None
      /\ due'.threads = due.threads /\ due'.catalog = due.catalog /\ due'.conversation = "now"
  BY <1>1 DEF IInv, TypeOK, Polls
<1>3. /\ work' \in Updates /\ work.watch \in AllThreads \cup {None} /\ work'.scope = work.scope
      /\ work'.refresh = work.refresh /\ work'.turn = work.turn
  BY <1>1 DEF IInv, TypeOK, Updates
<1>4. TypeOK'
  BY <1>1, <1>2, <1>3 DEF IInv, TypeOK
<1>5. Counted'
  BY <1>1, <1>3 DEF IInv, Counted, Turns
<1>6. ScopeFollows' /\ RefreshesOnly'
  BY <1>1, <1>3 DEF IInv, ScopeFollows, RefreshesOnly, RefreshWaits
<1>7. ThreadErrors' /\ CatalogErrors'
  BY <1>1, <1>2, <1>3 DEF IInv, ThreadErrors, CatalogErrors, RefreshWaits
<1>8. ConversationErrors'
  BY <1>1, <1>2 DEF ConversationErrors, Withdrawn, PollingAssumption, DistinctAssumption, Failures
<1>9. MissingIsNotForgiven' /\ ConversationIsRead'
  BY <1>1 DEF IInv, MissingIsNotForgiven, ConversationIsRead
<1> QED BY <1>4, <1>5, <1>6, <1>7, <1>8, <1>9 DEF IInv

LEMMA RefreshKeeps == ASSUME PollingAssumption, IInv, Refresh PROVE IInv'
<1> USE DEF scheduled, polled
<1>1. /\ UNCHANGED <<stored, fault, polling, watched, archived, active, summaries,
                   conversation, unread, pending, ui, changes, faults, commands>>
      /\ work.scope = None /\ work.refresh /\ work' = [work EXCEPT !.refresh = FALSE]
      /\ health' = [p \in Polls |-> None] /\ page' = None /\ baseline' = None /\ read' = None
      /\ due' = [p \in Polls |-> IF p = "conversation" /\ watched = None THEN due[p] ELSE "now"]
  BY DEF Refresh
<1>2. /\ health' \in [Polls -> Failures \cup {None}] /\ due' \in [Polls -> {"never", "later", "now"}]
      /\ health'.threads = None /\ health'.catalog = None /\ health'.conversation = None
      /\ due'.threads = "now" /\ due'.catalog = "now"
  BY <1>1 DEF IInv, TypeOK, Polls
<1>3. /\ work' \in Updates /\ work'.scope = work.scope /\ work'.watch = work.watch
      /\ ~work'.refresh /\ work'.turn = work.turn
  BY <1>1 DEF IInv, TypeOK, Updates
<1>4. Refreshes
  BY <1>1 DEF IInv, RefreshesOnly, RefreshWaits
<1>5. TypeOK'
  BY <1>1, <1>2, <1>3 DEF IInv, TypeOK
<1>6. Counted'
  BY <1>1, <1>3 DEF IInv, Counted, Turns
<1>7. ScopeFollows' /\ RefreshesOnly'
  BY <1>1, <1>3, <1>4 DEF IInv, ScopeFollows, RefreshesOnly
<1>8. ThreadErrors' /\ CatalogErrors'
  BY <1>1, <1>2 DEF ThreadErrors, CatalogErrors
<1>9. ConversationErrors' /\ MissingIsNotForgiven' /\ ConversationIsRead'
  BY <1>1, <1>2, <1>4 DEF IInv, ConversationErrors, MissingIsNotForgiven, ConversationIsRead,
                          PollingAssumption, DistinctAssumption, Failures
<1> QED BY <1>5, <1>6, <1>7, <1>8, <1>9 DEF IInv

LEMMA StartKeeps == ASSUME PollingAssumption, IInv, start_thread PROVE IInv'
<1> USE DEF scheduled, polled
<1>1. /\ UNCHANGED <<fault, polling, archived, summaries, pending, changes, faults, commands>>
      /\ work.scope = None /\ work.watch = None /\ work' = [work EXCEPT !.start = FALSE]
  BY DEF start_thread
<1>2. /\ work' \in Updates /\ work'.scope = work.scope /\ work'.watch = work.watch
      /\ work'.refresh = work.refresh /\ work'.turn = work.turn
  BY <1>1 DEF IInv, TypeOK, Updates
<1>3. /\ WatchWaits' <=> WatchWaits
      /\ RefreshWaits' <=> RefreshWaits
      /\ TurnWaits' <=> TurnWaits
      /\ Turns' = Turns
  BY <1>1, <1>2 DEF WatchWaits, RefreshWaits, TurnWaits, Turns
<1>4. RefreshesOnly'
  BY <1>3 DEF IInv, RefreshesOnly
<1>5. CASE Starts
  <2> DEFINE snapshot == Snapshot(NewThread)
  <2>1. /\ stored' = [stored EXCEPT ![NewThread].status = "new"]
        /\ watched' = NewThread /\ unread' = unread \cup {NewThread}
        /\ active' = FALSE /\ baseline' = None /\ conversation' = snapshot /\ read' = None
        /\ health' = [health EXCEPT !.threads = None, !.conversation = None] /\ page' = None
        /\ due' = [due EXCEPT !.threads = "now", !.conversation = "later"]
        /\ ui' = [ui EXCEPT !.selected = NewThread, !.conversation = snapshot, !.busy = FALSE,
                            !.loading.conversation = FALSE, !.error.conversation = None]
    BY <1>5 DEF Starts
  <2>2. /\ snapshot \in Conversations /\ snapshot.version = stored[NewThread].version
        /\ ~snapshot.live /\ snapshot.thread = NewThread
    BY DEF IInv, TypeOK, Snapshot, Conversations, Stores, AllThreads
  <2> HIDE DEF snapshot
  <2>3. /\ stored' \in [AllThreads -> Stores]
        /\ stored'[NewThread].status = "new"
        /\ \A t \in AllThreads : /\ stored'[t].version = stored[t].version
                                 /\ stored'[t].summary = stored[t].summary
    BY <2>1 DEF IInv, TypeOK, Stores, AllThreads
  <2>4. /\ health' \in [Polls -> Failures \cup {None}] /\ due' \in [Polls -> {"never", "later", "now"}]
        /\ health'.threads = None /\ health'.catalog = health.catalog /\ health'.conversation = None
        /\ due'.threads = "now" /\ due'.catalog = due.catalog
    BY <2>1 DEF IInv, TypeOK, Polls
  <2>5. /\ ui' \in Views /\ ui'.archived = ui.archived
        /\ ui'.error.threads = ui.error.threads /\ ui'.error.catalog = ui.error.catalog
        /\ ui'.error.conversation = None
        /\ ui'.loading.threads = ui.loading.threads /\ ~ui'.loading.conversation
    BY <2>1, <2>2 DEF IInv, TypeOK, Views, Polls, AllThreads
  <2>6. TypeOK'
    BY <1>1, <1>2, <2>1, <2>2, <2>3, <2>4, <2>5 DEF IInv, TypeOK, AllThreads
  <2>7. Counted'
    BY <1>1, <1>3, <2>3 DEF IInv, Counted
  <2>8. ScopeFollows'
    BY <1>1, <1>2, <2>5 DEF IInv, ScopeFollows
  <2>9. ThreadErrors' /\ CatalogErrors'
    BY <1>1, <1>3, <2>1, <2>4, <2>5 DEF IInv, ThreadErrors, CatalogErrors
  <2>10. ConversationErrors' /\ MissingIsNotForgiven'
    BY <2>1, <2>4, <2>5 DEF ConversationErrors, MissingIsNotForgiven, PollingAssumption, DistinctAssumption, Failures
  <2>11. ConversationIsRead'
    <3>1. stored'[NewThread].version >= snapshot.version
      BY <2>2, <2>3 DEF AllThreads, IInv, TypeOK, Conversations, Versions, PollingAssumption, BoundsAssumption
    <3> QED BY <2>1, <2>2, <2>3, <3>1 DEF ConversationIsRead
  <2> QED BY <1>4, <2>6, <2>7, <2>8, <2>9, <2>10, <2>11 DEF IInv
<1>6. CASE StartFails
  <2>1. /\ UNCHANGED <<stored, watched, unread, active, baseline, conversation, read, health, page, due>>
        /\ ui' = [ui EXCEPT !.busy = FALSE]
    BY <1>6 DEF StartFails
  <2>2. /\ ui' \in Views /\ ui'.archived = ui.archived /\ ui'.selected = ui.selected
        /\ ui'.error = ui.error /\ ui'.loading = ui.loading
    BY <2>1 DEF IInv, TypeOK, Views
  <2>3. TypeOK' /\ Counted'
    BY <1>1, <1>2, <1>3, <2>1, <2>2 DEF IInv, TypeOK, Counted
  <2>4. ScopeFollows' /\ MissingIsNotForgiven' /\ ConversationIsRead'
    BY <1>1, <1>2, <2>1, <2>2 DEF IInv, ScopeFollows, MissingIsNotForgiven, ConversationIsRead
  <2>5. ThreadErrors' /\ CatalogErrors' /\ ConversationErrors'
    BY <1>1, <1>3, <2>1, <2>2 DEF IInv, ThreadErrors, CatalogErrors, ConversationErrors, Watching, Withdrawn
  <2> QED BY <1>4, <2>3, <2>4, <2>5 DEF IInv
<1> QED BY <1>5, <1>6 DEF start_thread

LEMMA TurnKeeps == ASSUME PollingAssumption, IInv, run_turn PROVE IInv'
<1> USE DEF scheduled, polled
<1>1. /\ UNCHANGED <<fault, polling, watched, archived, active, summaries, page, baseline,
                   unread, pending, changes, faults, commands>>
      /\ work = [NoCommands EXCEPT !.turn = TRUE] /\ work' = NoCommands /\ watched # None
      /\ health' = [health EXCEPT !.conversation = None] /\ read' = None
      /\ due' = [due EXCEPT !.threads = "now", !.conversation = "later"]
  BY DEF run_turn
<1>2. /\ work' \in Updates /\ work'.scope = work.scope /\ work'.watch = work.watch
      /\ work'.refresh = work.refresh /\ work.turn /\ ~work'.turn
  BY <1>1 DEF Updates, NoCommands
<1>3. /\ health' \in [Polls -> Failures \cup {None}] /\ due' \in [Polls -> {"never", "later", "now"}]
      /\ health'.threads = health.threads /\ health'.catalog = health.catalog
      /\ health'.conversation = None
      /\ due'.threads = "now" /\ due'.catalog = due.catalog
  BY <1>1 DEF IInv, TypeOK, Polls
<1>4. /\ ui' \in Views /\ ui'.archived = ui.archived /\ ui'.selected = ui.selected
      /\ ui'.error.threads = ui.error.threads /\ ui'.error.catalog = ui.error.catalog
      /\ ui'.loading.threads = ui.loading.threads
      /\ ui.selected = watched => ui'.error.conversation \in {None, TurnError}
      /\ ui.selected # watched => ui'.error.conversation = ui.error.conversation
      /\ conversation' \in Conversations \cup {None} /\ stored' \in [AllThreads -> Stores] /\ Counted'
      /\ ui.selected = watched /\ ui'.loading.conversation =>
           conversation' = conversation /\ ui.loading.conversation
      /\ conversation' # conversation => conversation'.live /\ conversation' # None
      /\ conversation' = conversation \/ conversation'.live
      /\ conversation' = conversation => stored' = stored \/ conversation.live
  <2>1. Turns' = Turns - 1
    BY <1>1, <1>2 DEF Turns
  <2>2. CASE TurnEnds
    <3> DEFINE next == stored[watched].version + 1
               shown == [thread |-> watched, version |-> next, live |-> TRUE]
    <3>1. /\ stored' = [stored EXCEPT ![watched] = [status |-> "readable", version |-> next,
                                     summary |-> @.summary + 1, running |-> FALSE]]
          /\ conversation' = shown
          /\ ui' = IF ui.selected # watched THEN [ui EXCEPT !.busy = FALSE]
                 ELSE [ui EXCEPT !.conversation = shown, !.busy = FALSE,
                                 !.loading.conversation = FALSE, !.error.conversation = None]
      BY <2>2 DEF TurnEnds
    <3>2. watched \in AllThreads
      BY <1>1 DEF IInv, TypeOK
    <3>3. /\ Turns \in Nat /\ Turns >= 1 /\ changes + commands \in Versions
          /\ stored[watched].version \in Nat /\ stored[watched].summary \in Nat
          /\ stored[watched].summary <= stored[watched].version
          /\ stored[watched].version + Turns <= changes + commands
      BY <3>2, <1>2 DEF Turns, IInv, Counted, TypeOK, Stores, Versions, PollingAssumption, BoundsAssumption
    <3>4. next \in Versions /\ stored[watched].summary + 1 \in Versions
      BY <3>3 DEF Versions, IInv, Counted, PollingAssumption, BoundsAssumption
    <3>5. shown \in Conversations /\ shown.live /\ shown # None
      <4>1. shown \in Conversations /\ shown.live
        BY <3>2, <3>4 DEF Conversations
      <4> HIDE DEF shown
      <4> QED BY <4>1 DEF PollingAssumption, DistinctAssumption
    <3>6. stored' \in [AllThreads -> Stores]
      BY <3>1, <3>2, <3>4 DEF IInv, TypeOK, Stores
    <3>7. Counted'
      BY <3>1, <3>2, <3>3, <2>1, <1>1 DEF IInv, Counted, TypeOK, Stores, Versions, PollingAssumption, BoundsAssumption
    <3> HIDE DEF shown
    <3>8. /\ ui' \in Views /\ ui'.archived = ui.archived /\ ui'.selected = ui.selected
          /\ ui'.error.threads = ui.error.threads /\ ui'.error.catalog = ui.error.catalog
          /\ ui'.loading.threads = ui.loading.threads
          /\ ui.selected = watched => ui'.error.conversation = None /\ ~ui'.loading.conversation
          /\ ui.selected # watched => ui'.error.conversation = ui.error.conversation
      BY <3>1, <3>5 DEF IInv, TypeOK, Views, Polls
    <3> QED BY <3>1, <3>5, <3>6, <3>7, <3>8
  <2>3. CASE TurnFails
    <3>1. stored' = stored /\ conversation' = conversation
      BY <2>3 DEF TurnFails
    <3>2. Counted'
      BY <3>1, <2>1, <1>1 DEF IInv, Counted, TypeOK, Stores, Versions, Turns, PollingAssumption, BoundsAssumption
    <3>3. /\ ui' \in Views /\ ui'.archived = ui.archived /\ ui'.selected = ui.selected
          /\ ui'.error.threads = ui.error.threads /\ ui'.error.catalog = ui.error.catalog
          /\ ui'.loading = ui.loading
          /\ ui.selected = watched => ui'.error.conversation = TurnError
          /\ ui.selected # watched => ui'.error.conversation = ui.error.conversation
      BY <2>3 DEF TurnFails, IInv, TypeOK, Views, Polls
    <3> QED BY <3>1, <3>2, <3>3 DEF IInv, TypeOK
  <2> QED BY <2>2, <2>3 DEF run_turn
<1>5. TypeOK'
  BY <1>1, <1>2, <1>3, <1>4 DEF IInv, TypeOK
<1>6. ScopeFollows' /\ RefreshesOnly'
  BY <1>1, <1>2, <1>4 DEF IInv, ScopeFollows, RefreshesOnly, RefreshWaits
<1>7. ThreadErrors' /\ CatalogErrors'
  BY <1>1, <1>2, <1>3, <1>4 DEF IInv, ThreadErrors, CatalogErrors, RefreshWaits
<1>8. MissingIsNotForgiven'
  BY <1>1, <1>4 DEF IInv, MissingIsNotForgiven, PollingAssumption, DistinctAssumption, Failures
<1>9. ConversationIsRead'
  BY <1>1, <1>4 DEF IInv, ConversationIsRead
<1>10. ConversationErrors'
  BY <1>1, <1>2, <1>3, <1>4 DEF IInv, ConversationErrors, Watching, WatchWaits, PollingAssumption, DistinctAssumption, Failures
<1> QED BY <1>4, <1>5, <1>6, <1>7, <1>8, <1>9, <1>10 DEF IInv

---------------------------------------------------------------------------
(* The application                                                          *)

\* What a command of the user leaves alone.
LEMMA SendKeeps ==
  ASSUME PollingAssumption, IInv, NEW update \in Updates, Send(update)
  PROVE  /\ UNCHANGED <<stored, fault, polling, due, watched, archived, health, active, summaries,
                        page, baseline, conversation, unread, read, work, changes, faults>>
         /\ pending' = update /\ Counted' /\ ConversationIsRead'
<1> USE DEF scheduled, polled
<1>1. /\ UNCHANGED <<stored, fault, polling, due, watched, archived, health, active, summaries,
                     page, baseline, conversation, unread, read, work, changes, faults>>
      /\ pending' = update /\ commands < MaxCommands /\ commands' = commands + 1
  BY DEF Send
<1>2. Turns' <= Turns + 1 /\ Turns \in Nat /\ Turns' \in Nat
  BY <1>1 DEF Turns
<1>3. Counted'
  BY <1>1, <1>2 DEF IInv, Counted, TypeOK, Stores, Versions, PollingAssumption, BoundsAssumption
<1>4. ConversationIsRead'
  BY <1>1 DEF IInv, ConversationIsRead
<1> QED BY <1>1, <1>3, <1>4

LEMMA SelectKeeps ==
  ASSUME PollingAssumption, IInv, NEW t \in AllThreads, SelectThread(t) PROVE IInv'
<1> DEFINE update == [pending EXCEPT !.watch = t]
<1>1. /\ update \in Updates /\ update.scope = pending.scope /\ update.watch = t /\ update.refresh = pending.refresh
  BY DEF IInv, TypeOK, Updates
<1>2. /\ Send(update)
      /\ ui' = [ui EXCEPT !.selected = t, !.conversation = None,
                        !.loading.conversation = TRUE, !.error.conversation = None]
  BY DEF SelectThread
<1> HIDE DEF update
<1>3. /\ UNCHANGED <<stored, fault, polling, due, watched, archived, health, active, summaries,
                     page, baseline, conversation, unread, read, work, changes, faults>>
      /\ pending' = update /\ Counted' /\ ConversationIsRead'
  BY <1>1, <1>2, SendKeeps
<1>4. /\ ui' \in Views /\ ui'.archived = ui.archived
      /\ ui'.error.threads = ui.error.threads /\ ui'.error.catalog = ui.error.catalog
      /\ ui'.error.conversation = None /\ ui'.loading.threads = ui.loading.threads
  BY <1>2 DEF IInv, TypeOK, Views, Polls
<1>5. TypeOK'
  BY <1>1, <1>3, <1>4 DEF IInv, TypeOK
<1>6. ScopeFollows' /\ RefreshesOnly'
  BY <1>1, <1>3, <1>4 DEF IInv, ScopeFollows, RefreshesOnly, RefreshWaits
<1>7. ThreadErrors' /\ CatalogErrors'
  BY <1>1, <1>3, <1>4 DEF IInv, ThreadErrors, CatalogErrors, RefreshWaits
<1>8. WatchWaits'
  BY <1>1, <1>3 DEF WatchWaits, PollingAssumption, DistinctAssumption
<1>9. ConversationErrors' /\ MissingIsNotForgiven'
  BY <1>4, <1>8 DEF ConversationErrors, MissingIsNotForgiven, PollingAssumption, DistinctAssumption, Failures
<1> QED BY <1>3, <1>5, <1>6, <1>7, <1>9 DEF IInv

LEMMA PressRefreshKeeps == ASSUME PollingAssumption, IInv, PressRefresh PROVE IInv'
<1> DEFINE update == [pending EXCEPT !.refresh = TRUE]
<1>1. /\ update \in Updates /\ update.scope = pending.scope /\ update.watch = pending.watch
      /\ update.refresh /\ update.turn = pending.turn
  BY DEF IInv, TypeOK, Updates
<1>2. /\ Send(update) /\ Refreshes
      /\ ui' = [ui EXCEPT !.error.catalog = None,
         !.loading = [p \in Polls |-> p = "conversation" /\ ui.selected = None => @[p]]]
  BY DEF PressRefresh
<1> HIDE DEF update
<1>3. /\ UNCHANGED <<stored, fault, polling, due, watched, archived, health, active, summaries,
                     page, baseline, conversation, unread, read, work, changes, faults>>
      /\ pending' = update /\ Counted' /\ ConversationIsRead'
  BY <1>1, <1>2, SendKeeps
<1>4. /\ ui' \in Views /\ ui'.archived = ui.archived /\ ui'.selected = ui.selected
      /\ ui'.error.threads = ui.error.threads /\ ui'.error.catalog = None
      /\ ui'.error.conversation = ui.error.conversation /\ ui'.loading.threads
  BY <1>2 DEF IInv, TypeOK, Views, Polls
<1>5. TypeOK'
  BY <1>1, <1>3, <1>4 DEF IInv, TypeOK
<1>6. RefreshWaits' /\ (WatchWaits' <=> WatchWaits) /\ (TurnWaits' <=> TurnWaits)
  BY <1>1, <1>3 DEF RefreshWaits, WatchWaits, TurnWaits
<1>7. ScopeFollows' /\ RefreshesOnly'
  BY <1>1, <1>2, <1>3, <1>4 DEF IInv, ScopeFollows, RefreshesOnly
<1>8. ThreadErrors' /\ CatalogErrors'
  BY <1>3, <1>4, <1>6 DEF IInv, ThreadErrors, CatalogErrors, PollingAssumption, DistinctAssumption
<1>9. ConversationErrors' /\ MissingIsNotForgiven'
  BY <1>2, <1>3, <1>4, <1>6 DEF IInv, ConversationErrors, Watching, MissingIsNotForgiven
<1> QED BY <1>3, <1>5, <1>7, <1>8, <1>9 DEF IInv

LEMMA ShowArchivedKeeps == ASSUME PollingAssumption, IInv, ShowArchivedThreads PROVE IInv'
<1> DEFINE update == [pending EXCEPT !.scope = ~ui.archived]
<1>1. /\ update \in Updates /\ update.scope = ~ui.archived /\ update.refresh = pending.refresh
  BY DEF IInv, TypeOK, Updates, Views
<1>2. /\ Send(update) /\ ~ui.loading.threads
      /\ ui' = [ui EXCEPT !.archived = ~@, !.page = [t \in {} |-> 0], !.selected = None,
                        !.conversation = None, !.loading.threads = TRUE,
                        !.error.threads = None, !.error.conversation = None]
  BY DEF ShowArchivedThreads
<1> HIDE DEF update
<1>3. /\ UNCHANGED <<stored, fault, polling, due, watched, archived, health, active, summaries,
                     page, baseline, conversation, unread, read, work, changes, faults>>
      /\ pending' = update /\ Counted' /\ ConversationIsRead'
  BY <1>1, <1>2, SendKeeps
<1>4. /\ ui' \in Views /\ ui'.archived = ~ui.archived /\ ui'.selected = None
      /\ ui'.error.catalog = ui.error.catalog
      /\ ui'.error.conversation = None /\ ui'.loading.threads
  BY <1>2, NoPage DEF IInv, TypeOK, Views, Polls
<1>5. archived = ui.archived /\ work.scope = None
  BY <1>2 DEF IInv, ScopeFollows
<1>6. archived # ui'.archived
  BY <1>4, <1>5 DEF IInv, TypeOK
<1>7. TypeOK'
  BY <1>1, <1>3, <1>4 DEF IInv, TypeOK
<1>8. ScopeFollows' /\ RefreshesOnly'
  BY <1>1, <1>3, <1>4, <1>5, <1>6 DEF IInv, ScopeFollows, RefreshesOnly, RefreshWaits
<1>9. ThreadErrors' /\ CatalogErrors'
  BY <1>1, <1>3, <1>4, <1>6 DEF IInv, ThreadErrors, CatalogErrors, RefreshWaits
<1>10. ConversationErrors' /\ MissingIsNotForgiven'
  BY <1>3, <1>4 DEF ConversationErrors, Watching, MissingIsNotForgiven, PollingAssumption, DistinctAssumption, Failures
<1> QED BY <1>3, <1>7, <1>8, <1>9, <1>10 DEF IInv

LEMMA AskKeeps ==
  ASSUME PollingAssumption, IInv, StartThread \/ StartTurn PROVE IInv'
<1>1. PICK update \in Updates :
        /\ Send(update) /\ update.scope = pending.scope /\ update.watch = pending.watch
        /\ update.refresh = pending.refresh /\ (pending.turn => update.turn)
        /\ ui'.error.conversation = ui.error.conversation \/ (update.turn /\ ui'.error.conversation = None)
  <2>1. CASE StartThread
    <3>1. [pending EXCEPT !.start = TRUE] \in Updates
      BY DEF IInv, TypeOK, Updates
    <3> QED BY <2>1, <3>1 DEF StartThread, IInv, TypeOK, Updates, Views
  <2>2. CASE StartTurn
    <3>1. [pending EXCEPT !.turn = TRUE] \in Updates
      BY DEF IInv, TypeOK, Updates
    <3> QED BY <2>2, <3>1 DEF StartTurn, IInv, TypeOK, Updates, Views, Polls
  <2> QED BY <2>1, <2>2
<1>2. /\ UNCHANGED <<stored, fault, polling, due, watched, archived, health, active, summaries,
                     page, baseline, conversation, unread, read, work, changes, faults>>
      /\ pending' = update /\ Counted' /\ ConversationIsRead'
  BY <1>1, SendKeeps
<1>3. /\ ui' \in Views /\ ui'.archived = ui.archived /\ ui'.selected = ui.selected
      /\ ui'.error.threads = ui.error.threads /\ ui'.error.catalog = ui.error.catalog
      /\ ui'.loading = ui.loading
  <2>1. ui \in Views
    BY DEF IInv, TypeOK
  <2>2. CASE StartThread
    BY <2>1, <2>2 DEF StartThread, Views
  <2>3. CASE StartTurn
    BY <2>1, <2>3 DEF StartTurn, Views, Polls
  <2> QED BY <2>2, <2>3
<1>4. TypeOK'
  BY <1>2, <1>3 DEF IInv, TypeOK
<1>5. (RefreshWaits' <=> RefreshWaits) /\ (WatchWaits' <=> WatchWaits) /\ (TurnWaits => TurnWaits')
  BY <1>1, <1>2 DEF RefreshWaits, WatchWaits, TurnWaits
<1>6. ScopeFollows' /\ RefreshesOnly'
  BY <1>1, <1>2, <1>3, <1>5 DEF IInv, ScopeFollows, RefreshesOnly
<1>7. ThreadErrors' /\ CatalogErrors'
  BY <1>2, <1>3, <1>5 DEF IInv, ThreadErrors, CatalogErrors
<1>8. CASE ui'.error.conversation = ui.error.conversation
  BY <1>2, <1>3, <1>4, <1>5, <1>6, <1>7, <1>8
     DEF IInv, ConversationErrors, Watching, Withdrawn, MissingIsNotForgiven
<1>9. CASE update.turn /\ ui'.error.conversation = None
  <2>1. TurnWaits'
    BY <1>2, <1>9 DEF TurnWaits
  <2> QED BY <1>2, <1>3, <1>4, <1>5, <1>6, <1>7, <1>9, <2>1
          DEF IInv, ConversationErrors, Watching, MissingIsNotForgiven, PollingAssumption, DistinctAssumption, Failures
<1> QED BY <1>1, <1>8, <1>9

LEMMA SetPollingKeeps == ASSUME PollingAssumption, IInv, SetPollingEnabled PROVE IInv'
<1> USE DEF polled
<1>1. /\ UNCHANGED <<stored, fault, due, watched, archived, health, active, summaries, page, baseline,
                     conversation, unread, read, pending, work, ui, changes, faults>>
      /\ polling' = [polling EXCEPT !.wanted = ~@, !.changed = TRUE]
      /\ commands < MaxCommands /\ commands' = commands + 1
  BY DEF SetPollingEnabled
<1>2. polling' \in [wanted : BOOLEAN, changed : BOOLEAN, enabled : BOOLEAN]
      /\ polling'.enabled = polling.enabled
  BY <1>1 DEF IInv, TypeOK
<1>3. TypeOK'
  BY <1>1, <1>2 DEF IInv, TypeOK
<1>4. Turns' = Turns /\ Turns \in Nat
  BY <1>1 DEF Turns
<1>5. Counted'
  BY <1>1, <1>4 DEF IInv, Counted, TypeOK, Stores, Versions, PollingAssumption, BoundsAssumption
<1>6. ScopeFollows' /\ RefreshesOnly' /\ MissingIsNotForgiven' /\ ConversationIsRead'
  BY <1>1 DEF IInv, ScopeFollows, RefreshesOnly, RefreshWaits, MissingIsNotForgiven, ConversationIsRead
<1>7. ThreadErrors' /\ CatalogErrors'
  BY <1>1, <1>2 DEF IInv, ThreadErrors, CatalogErrors, RefreshWaits
<1>8. ConversationErrors'
  BY <1>1, <1>2 DEF IInv, ConversationErrors, Watching, WatchWaits, TurnWaits, Withdrawn
<1> QED BY <1>3, <1>5, <1>6, <1>7, <1>8 DEF IInv

---------------------------------------------------------------------------
(* What is shown of the polls                                               *)

\* No step breaks the invariant.
LEMMA PollingStep == ASSUME PollingAssumption, IInv, [Next]_vars PROVE IInv'
<1>1. CASE UNCHANGED vars
  BY <1>1 DEF vars, scheduled, polled, IInv, TypeOK, Counted, Turns, ScopeFollows, RefreshesOnly,
              ThreadErrors, CatalogErrors, ConversationErrors, MissingIsNotForgiven, ConversationIsRead,
              WatchWaits, RefreshWaits, TurnWaits, Watching, Withdrawn
<1>2. CASE Worker
  BY <1>2, TimersKeep, ThreadsPollKeeps, CatalogPollKeeps, ConversationPollKeeps, TakeKeeps,
     ScopeKeeps, WatchKeeps, RefreshKeeps, StartKeeps, TurnKeeps DEF Worker, WorkOff
<1>3. CASE User
  BY <1>3, SelectKeeps, PressRefreshKeeps, ShowArchivedKeeps, AskKeeps, SetPollingKeeps DEF User
<1>4. CASE \E poll \in Polls : TimePasses(poll)
  BY <1>4, TimersKeep
<1>5. CASE \/ \E t \in AllThreads : Write(t) \/ Delete(t)
           \/ \E error \in Errors \cup {None} : Fault(error)
  BY <1>5, ServerKeeps
<1> QED BY <1>1, <1>2, <1>3, <1>4, <1>5 DEF Next

\* The errors shown are what is wrong.
LEMMA PollingFollows ==
  ASSUME PollingAssumption, IInv
  PROVE  SuppressedIsShown /\ MissingIsReported /\ (~Refreshes => ErrorsAreWithdrawn)
<1>1. Settled => ~WatchWaits /\ ~RefreshWaits /\ ~TurnWaits
  BY DEF Settled, NoCommands, WatchWaits, RefreshWaits, TurnWaits
<1>2. Matches("threads") => archived = ui.archived
  BY DEF Matches
<1>3. Matches("conversation") => Watching
  BY DEF Matches, Watching
<1>4. SuppressedIsShown
  BY <1>1, <1>2, <1>3 DEF IInv, SuppressedIsShown, ThreadErrors, CatalogErrors, ConversationErrors, Polls
<1>5. MissingIsReported
  BY <1>1, <1>3 DEF IInv, MissingIsReported, ConversationErrors, MissingIsNotForgiven, Watching
<1>6. ASSUME ~Refreshes PROVE ErrorsAreWithdrawn
  <2> SUFFICES ASSUME Settled, NEW p \in Polls, Matches(p), ui.error[p] \in Failures,
                      health[p] # ui.error[p]
               PROVE  due[p] = "now" \/ ~polling.enabled \/ (p = "conversation" /\ watched \in unread)
    BY DEF ErrorsAreWithdrawn
  <2>1. CASE p = "threads"
    BY <2>1, <1>2 DEF IInv, ThreadErrors
  <2>2. CASE p = "catalog"
    BY <2>2, <1>1 DEF IInv, CatalogErrors
  <2>3. CASE p = "conversation"
    BY <2>3, <1>1, <1>3, <1>6 DEF IInv, ConversationErrors, Withdrawn
  <2> QED BY <2>1, <2>2, <2>3 DEF Polls
<1> QED BY <1>4, <1>5, <1>6

\* An error that is not reported again is one the user can see, a thread is
\* reported missing when it is and not when it was only just started, and where
\* the user does not refresh, an error goes with the poll that succeeds
\* (PollHealth, InitialConversationReads).
THEOREM PollsAreReported ==
  ASSUME PollingAssumption
  PROVE  Spec => [](/\ TypeOK /\ SuppressedIsShown /\ MissingIsReported
                    /\ ~Refreshes => ErrorsAreWithdrawn)
<1>1. Spec => []IInv
  BY PollingStarts, PollingStep, PTL DEF Spec
<1>2. IInv => /\ TypeOK /\ SuppressedIsShown /\ MissingIsReported
              /\ ~Refreshes => ErrorsAreWithdrawn
  BY PollingFollows DEF IInv
<1> QED BY <1>1, <1>2, PTL
=============================================================================
