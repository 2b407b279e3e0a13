-------------------------- MODULE Application_proofs --------------------------
(***************************************************************************)
(* The parts of what the application sees, side by side: what is proved of   *)
(* the polls, and of the user's answers and the cards, holds as the runs of  *)
(* MCApplication explore them, for any parts explored and any bounds.  A     *)
(* part's invariant holds where it is explored; the others keep still.       *)
(***************************************************************************)
EXTENDS MCApplication, TLAPS

\* The cards are in their invariant wherever they are explored.
CardsPart == part = "cards" => Cards!IInv

\* They begin in it.
LEMMA CardsPartInit == Init => CardsPart
BY CardsAssumption, Cards!CardsStart DEF Init, CardsPart, PollingParts, LiveParts, HistoryParts

\* A step of the application is one of the cards, or not theirs.
LEMMA CardsPartStep == CardsPart /\ [Next]_vars => CardsPart'
<1> SUFFICES ASSUME CardsPart, [Next]_vars PROVE CardsPart'
  OBVIOUS
<1>1. CASE part = "cards"
  <2>1. [Cards!Next]_(Cards!vars) /\ part' = "cards"
    BY <1>1 DEF Next, vars, cards_only, Cards!vars, Cards!appserver, Cards!worker
  <2> QED BY <1>1, <2>1, CardsAssumption, Cards!CardsStep DEF CardsPart
<1>2. CASE part # "cards"
  BY <1>2 DEF Next, vars, CardsPart
<1> QED BY <1>1, <1>2

\* An answer reaches the question of its card or none, unless another writer had
\* replaced the card's as it was given, and once all is quiet the cards are the
\* questions pending on the writer (respondToInteraction,
\* resolve_interaction_async, reconcileInteractions).
THEOREM CardsAreKept == Spec => []CardsAreTheQuestions
<1>1. CardsPart => CardsAreTheQuestions
  BY CardsAssumption, Cards!CardsFollow DEF CardsPart, CardsAreTheQuestions
<1> QED BY <1>1, CardsPartInit, CardsPartStep, PTL DEF Spec

---------------------------------------------------------------------------
(* The polls                                                                *)

\* The polls are in their invariant wherever they are explored.
PollingPart ==
    /\ part = "polled" => Polled!IInv
    /\ part = "reselected" => Reselected!IInv
    /\ part = "refreshed" => Refreshed!IInv

\* They begin in it.
LEMMA PollingPartInit == Init => PollingPart
<1> SUFFICES ASSUME Init PROVE PollingPart
  OBVIOUS
<1>1. ASSUME part = "polled" PROVE Polled!Init
  BY <1>1 DEF Init
<1>2. ASSUME part = "reselected" PROVE Reselected!Init
  BY <1>2 DEF Init
<1>3. ASSUME part = "refreshed" PROVE Refreshed!Init
  BY <1>3 DEF Init
<1>4. ASSUME part = "polled" PROVE Polled!IInv
  BY <1>1, <1>4, PollingAssumption, Polled!PollingStarts
<1>5. ASSUME part = "reselected" PROVE Reselected!IInv
  BY <1>2, <1>5, PollingAssumption, Reselected!PollingStarts
<1>6. ASSUME part = "refreshed" PROVE Refreshed!IInv
  BY <1>3, <1>6, PollingAssumption, Refreshed!PollingStarts
<1> QED BY <1>4, <1>5, <1>6 DEF PollingPart

\* What a step of the polls may change is what the other parts leave alone.
polled == <<stored, fault, polling, due, watched, archived, health, active, summaries, page,
            baseline, conversation, unread, read, pending, work, ui, changes, faults, commands>>

\* A step of the application is one of the polls, or not theirs.
LEMMA PollingPartStep == PollingPart /\ [Next]_vars => PollingPart'
<1> SUFFICES ASSUME PollingPart, [Next]_vars PROVE PollingPart'
  OBVIOUS
<1>0. part' = part
  BY DEF Next, vars
<1>1. ASSUME UNCHANGED vars PROVE UNCHANGED polled
  BY <1>1 DEF vars, polled, polling_only
<1>2. ASSUME part = "polled" PROVE Polled!IInv'
  <2>1. Polled!Next \/ UNCHANGED polled
    BY <1>1, <1>2 DEF Next
  <2>2. [Polled!Next]_(Polled!vars)
    BY <2>1 DEF polled, Polled!vars, Polled!scheduled, Polled!polled
  <2> QED BY <1>2, <2>2, PollingAssumption, Polled!PollingStep DEF PollingPart
<1>3. ASSUME part = "reselected" PROVE Reselected!IInv'
  <2>1. Reselected!Next \/ UNCHANGED polled
    BY <1>1, <1>3 DEF Next
  <2>2. [Reselected!Next]_(Reselected!vars)
    BY <2>1 DEF polled, Reselected!vars, Reselected!scheduled, Reselected!polled
  <2> QED BY <1>3, <2>2, PollingAssumption, Reselected!PollingStep DEF PollingPart
<1>4. ASSUME part = "refreshed" PROVE Refreshed!IInv'
  <2>1. Refreshed!Next \/ UNCHANGED polled
    BY <1>1, <1>4 DEF Next
  <2>2. [Refreshed!Next]_(Refreshed!vars)
    BY <2>1 DEF polled, Refreshed!vars, Refreshed!scheduled, Refreshed!polled
  <2> QED BY <1>4, <2>2, PollingAssumption, Refreshed!PollingStep DEF PollingPart
<1> QED BY <1>0, <1>2, <1>3, <1>4 DEF PollingPart

\* An error that is not repeated is one the user can see, a thread is reported
\* missing when it is and not when it was only just started, and where the user
\* does not refresh, an error goes with the poll that succeeds (PollHealth,
\* InitialConversationReads).
THEOREM ErrorsAreReported == Spec => []ErrorsAreWhatIsWrong
<1>1. PollingPart => ErrorsAreWhatIsWrong
  <2> SUFFICES ASSUME PollingPart PROVE ErrorsAreWhatIsWrong
    OBVIOUS
  <2>1. ASSUME part = "polled"
        PROVE  Polled!SuppressedIsShown /\ Polled!MissingIsReported /\ Polled!ErrorsAreWithdrawn
    BY <2>1, PollingAssumption, Polled!PollingFollows DEF PollingPart
  <2>2. ASSUME part = "reselected"
        PROVE  Reselected!SuppressedIsShown /\ Reselected!MissingIsReported
               /\ Reselected!ErrorsAreWithdrawn
    BY <2>2, PollingAssumption, Reselected!PollingFollows DEF PollingPart
  <2>3. ASSUME part = "refreshed"
        PROVE  Refreshed!SuppressedIsShown /\ Refreshed!MissingIsReported
    BY <2>3, PollingAssumption, Refreshed!PollingFollows DEF PollingPart
  (* These say the same of each instance. *)
  <2>4. /\ Reselected!SuppressedIsShown => Polled!SuppressedIsShown
        /\ Refreshed!SuppressedIsShown => Polled!SuppressedIsShown
    BY DEF Polled!SuppressedIsShown, Reselected!SuppressedIsShown, Refreshed!SuppressedIsShown,
           Polled!Settled, Reselected!Settled, Refreshed!Settled, Polled!NoCommands,
           Reselected!NoCommands, Refreshed!NoCommands, Polled!Matches, Reselected!Matches,
           Refreshed!Matches, Polled!Polls, Reselected!Polls, Refreshed!Polls
  <2>5. /\ Reselected!MissingIsReported => Polled!MissingIsReported
        /\ Refreshed!MissingIsReported => Polled!MissingIsReported
    BY DEF Polled!MissingIsReported, Reselected!MissingIsReported, Refreshed!MissingIsReported,
           Polled!Settled, Reselected!Settled, Refreshed!Settled, Polled!NoCommands,
           Reselected!NoCommands, Refreshed!NoCommands, Polled!Matches, Reselected!Matches,
           Refreshed!Matches
  <2>6. Reselected!ErrorsAreWithdrawn => Polled!ErrorsAreWithdrawn
    BY DEF Polled!ErrorsAreWithdrawn, Reselected!ErrorsAreWithdrawn, Polled!Settled,
           Reselected!Settled, Polled!NoCommands, Reselected!NoCommands, Polled!Matches,
           Reselected!Matches, Polled!Polls, Reselected!Polls, Polled!Failures, Reselected!Failures
  <2> QED BY <2>1, <2>2, <2>3, <2>4, <2>5, <2>6 DEF ErrorsAreWhatIsWrong, PollingParts
<1> QED BY <1>1, PollingPartInit, PollingPartStep, PTL DEF Spec
=============================================================================
