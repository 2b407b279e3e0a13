---------------------- MODULE PendingInteractions_proofs ----------------------
(***************************************************************************)
(* The answers of the user and the cards, for every set of threads and every *)
(* bound on connections, questions and commands.                            *)
(*                                                                          *)
(* What is pending, the lists on their way to the application and the cards *)
(* it shows agree at every moment: the last list on its way is what is      *)
(* pending, and if none is, the cards are.  Every change of what is pending *)
(* must emit a list for that, and so must every change of the writer that   *)
(* can have something pending.                                              *)
(* The thread shown need not be the one watched: a turn the observer refuses *)
(* may take a selection back.  Then it holds no writer, and asks nothing.    *)
(***************************************************************************)
EXTENDS PendingInteractions, SequenceTheorems, TLAPS

(* The types.                                                               *)
WriteStates == {"NotRequested", "Checking", "Writable", "Unavailable"}
TurnStates == {"Detached", "Starting", "Active", "Idle"}
Answers == [id : Ids, meant : 1 .. MaxConnections, replaced : BOOLEAN]
Updates == [watch : Threads \cup {None},
            write : {None} \cup [kind : {"acquire", "release"}, thread : Threads],
            turn : Threads \cup {None}, controls : Seq(Answers)]
Told == [thread : Threads, kind : {"write"}, value : WriteStates]
          \cup [thread : Threads, kind : {"turn"}, value : TurnStates]
          \cup [thread : Threads, kind : {"list"}, value : SUBSET Asked]
Said == [kind : {"ask", "resolved"}, id : Ids] \cup [kind : {"completed", "lost"}, id : {0}]
Shows == [thread : Threads, write : WriteStates, turn : TurnStates,
          shown : SUBSET Asked, resolving : SUBSET Ids]

Typed ==
    /\ opened \in 0 .. MaxConnections /\ conn \in {0, opened}
    /\ asked \in 0 .. MaxAsks /\ open \subseteq 1 .. asked
    /\ pending \subseteq Ids /\ inbox \in Seq(Said)
    /\ watched \in Threads /\ driving \in BOOLEAN
    /\ update \in Updates /\ work \in Updates
    /\ events \in Seq(Told) /\ ui \in Shows
    /\ conn = 0 => pending = {} /\ inbox = <<>>

(* What the conversation will be on once all commands are worked off.        *)
Selecting == update.watch # None \/ work.watch # None
Target == IF update.watch # None THEN update.watch
          ELSE IF work.watch # None THEN work.watch ELSE watched
Asking == {[conn |-> conn, id |-> id] : id \in pending}

\* Of a queue of events: none, or the last of them, lists the questions of a thread.
IsList(e, t) == e.kind = "list" /\ e.thread = t
NoList(evs, t) == \A i \in DOMAIN evs : ~IsList(evs[i], t)
LastList(evs, t, v) ==
    \E i \in DOMAIN evs : /\ IsList(evs[i], t) /\ evs[i].value = v
                          /\ \A j \in DOMAIN evs : j > i => ~IsList(evs[j], t)

\* The last list on its way, or else the one shown, is what is pending.
ListFits ==
    ~Selecting => \/ LastList(events, ui.thread, Asking)
                  \/ NoList(events, ui.thread) /\ ui.shown = Asking

\* The answers on their way.
Given == {update.controls[i] : i \in DOMAIN update.controls}
           \cup {work.controls[i] : i \in DOMAIN work.controls}

\* A card is being answered while its answer or a list is on its way.
ResolvingFits ==
    /\ ui.resolving \subseteq {card.id : card \in ui.shown}
    /\ ~Selecting /\ NoList(events, ui.thread) => ui.resolving \subseteq {x.id : x \in Given}

\* A turn is asked for on the thread shown; one the worker will refuse finds
\* nothing pending.
TurnFits ==
    /\ update.turn # None => update.turn = ui.thread \/ update.watch # None
    /\ work.turn # None => work.watch # None \/ work.turn = watched \/ pending = {}

\* The writer is asked for, or given up, for the thread shown.
WriteFits == update.write # None => update.write.thread = ui.thread \/ update.watch # None

\* Where the thread shown is not the one watched in the end, a turn that was
\* refused took the selection back: no writer is held, and none will be.
StrayFits ==
    ui.thread # Target =>
        /\ ~Selecting /\ conn = 0
        /\ work.write # None => work.write.thread = ui.thread

\* An answer given while its writer was not replaced is meant for the one held, or
\* finds nothing pending: a question is taken only once no answer is on its way.
AnswersFit ==
    /\ \A x \in Given : x.replaced \/ x.meant = conn \/ pending = {}
    /\ AnswersReachTheirQuestions

Rest ==
    StrayFits /\ WriteFits /\ ListFits /\ ResolvingFits /\ TurnFits /\ AnswersFit
IInv == Typed /\ Rest

-----------------------------------------------------------------------------
\* Two stretches of events without a list make one without.
LEMMA NoListConcat ==
  ASSUME NEW S, NEW s \in Seq(S), NEW e \in Seq(S), NEW t, NoList(s, t), NoList(e, t)
  PROVE  NoList(s \o e, t)
<1> DEFINE longer == s \o e
<1>1. longer \in Seq(S) /\ Len(longer) = Len(s) + Len(e)
      /\ \A i \in 1 .. Len(longer) : longer[i] = IF i <= Len(s) THEN s[i] ELSE e[i - Len(s)]
  BY ConcatProperties
<1>2. Len(s) \in Nat /\ Len(e) \in Nat /\ DOMAIN s = 1 .. Len(s) /\ DOMAIN e = 1 .. Len(e)
      /\ DOMAIN longer = 1 .. Len(longer)
  BY <1>1, LenProperties
<1> HIDE DEF longer
<1>3. ASSUME NEW i \in 1 .. Len(longer) PROVE ~IsList(longer[i], t)
  <2>1. CASE i <= Len(s)
    BY <1>1, <1>2, <2>1 DEF NoList
  <2>2. CASE i > Len(s)
    <3>1. i - Len(s) \in 1 .. Len(e) /\ longer[i] = e[i - Len(s)]
      BY <1>1, <1>2, <2>2
    <3> QED BY <1>2, <3>1 DEF NoList
  <2> QED BY <1>2, <2>1, <2>2
<1> QED BY <1>2, <1>3 DEF NoList, longer

\* The last list of what comes after is the last.
LEMMA LastListConcat ==
  ASSUME NEW S, NEW s \in Seq(S), NEW e \in Seq(S), NEW t, NEW v, LastList(e, t, v)
  PROVE  LastList(s \o e, t, v)
<1> DEFINE longer == s \o e
<1>1. longer \in Seq(S) /\ Len(longer) = Len(s) + Len(e)
      /\ \A i \in 1 .. Len(longer) : longer[i] = IF i <= Len(s) THEN s[i] ELSE e[i - Len(s)]
  BY ConcatProperties
<1>2. Len(s) \in Nat /\ Len(e) \in Nat /\ DOMAIN s = 1 .. Len(s) /\ DOMAIN e = 1 .. Len(e)
      /\ DOMAIN longer = 1 .. Len(longer)
  BY <1>1, LenProperties
<1> HIDE DEF longer
<1>3. PICK k \in 1 .. Len(e) : /\ IsList(e[k], t) /\ e[k].value = v
                               /\ \A j \in 1 .. Len(e) : j > k => ~IsList(e[j], t)
  BY <1>2 DEF LastList
<1>4. Len(s) + k \in 1 .. Len(longer) /\ longer[Len(s) + k] = e[k]
  <2>1. Len(s) + k \in 1 .. Len(longer) /\ ~(Len(s) + k <= Len(s)) /\ Len(s) + k - Len(s) = k
    BY <1>1, <1>2
  <2> QED BY ONLY <1>1, <2>1
<1>5. ASSUME NEW j \in 1 .. Len(longer), j > Len(s) + k PROVE ~IsList(longer[j], t)
  <2>1. j - Len(s) \in 1 .. Len(e) /\ j - Len(s) > k /\ longer[j] = e[j - Len(s)]
    BY <1>1, <1>2, <1>5
  <2> QED BY <1>3, <2>1
<1> QED BY <1>2, <1>3, <1>4, <1>5 DEF LastList, longer

\* The last list stays the last when none comes after it.
LEMMA LastListKept ==
  ASSUME NEW S, NEW s \in Seq(S), NEW e \in Seq(S), NEW t, NEW v, LastList(s, t, v),
         NoList(e, t)
  PROVE  LastList(s \o e, t, v)
<1> DEFINE longer == s \o e
<1>1. longer \in Seq(S) /\ Len(longer) = Len(s) + Len(e)
      /\ \A i \in 1 .. Len(longer) : longer[i] = IF i <= Len(s) THEN s[i] ELSE e[i - Len(s)]
  BY ConcatProperties
<1>2. Len(s) \in Nat /\ Len(e) \in Nat /\ DOMAIN s = 1 .. Len(s) /\ DOMAIN e = 1 .. Len(e)
      /\ DOMAIN longer = 1 .. Len(longer)
  BY <1>1, LenProperties
<1> HIDE DEF longer
<1>3. PICK k \in 1 .. Len(s) : /\ IsList(s[k], t) /\ s[k].value = v
                               /\ \A j \in 1 .. Len(s) : j > k => ~IsList(s[j], t)
  BY <1>2 DEF LastList
<1>4. k \in 1 .. Len(longer) /\ longer[k] = s[k]
  BY <1>1, <1>2
<1>5. ASSUME NEW j \in 1 .. Len(longer), j > k PROVE ~IsList(longer[j], t)
  <2>1. CASE j <= Len(s)
    BY <1>1, <1>2, <1>3, <1>5, <2>1
  <2>2. CASE j > Len(s)
    <3>1. j - Len(s) \in 1 .. Len(e) /\ longer[j] = e[j - Len(s)]
      BY <1>1, <1>2, <2>2
    <3> QED BY <1>2, <3>1 DEF NoList
  <2> QED BY <1>2, <2>1, <2>2
<1> QED BY <1>2, <1>3, <1>4, <1>5 DEF LastList, longer

\* Taking the first event takes a list only if it is the last there is.
LEMMA TailOfList ==
  ASSUME NEW S, NEW s \in Seq(S), s # <<>>, NEW t, NEW v, LastList(s, t, v)
  PROVE  \/ LastList(Tail(s), t, v)
         \/ NoList(Tail(s), t) /\ IsList(Head(s), t) /\ Head(s).value = v
<1> DEFINE rest == Tail(s)
<1>1. rest \in Seq(S) /\ Len(rest) = Len(s) - 1 /\ Head(s) = s[1]
      /\ \A i \in 1 .. Len(rest) : rest[i] = s[i + 1]
  BY HeadTailProperties
<1>2. Len(s) \in Nat \ {0} /\ DOMAIN s = 1 .. Len(s) /\ DOMAIN rest = 1 .. Len(rest)
  BY <1>1, LenProperties, EmptySeq
<1> HIDE DEF rest
<1>3. PICK k \in 1 .. Len(s) : /\ IsList(s[k], t) /\ s[k].value = v
                               /\ \A j \in 1 .. Len(s) : j > k => ~IsList(s[j], t)
  BY <1>2 DEF LastList
<1>4. CASE k = 1
  <2>1. ASSUME NEW j \in 1 .. Len(rest) PROVE ~IsList(rest[j], t)
    <3>1. j + 1 \in 1 .. Len(s) /\ j + 1 > k /\ rest[j] = s[j + 1]
      BY <1>1, <1>2, <1>4
    <3> QED BY <1>3, <3>1
  <2>2. NoList(rest, t)
    BY <1>2, <2>1 DEF NoList
  <2> QED BY <1>1, <1>3, <1>4, <2>2 DEF rest
<1>5. CASE k # 1
  <2>1. k - 1 \in 1 .. Len(rest) /\ rest[k - 1] = s[k]
    BY <1>1, <1>2, <1>5
  <2>2. ASSUME NEW j \in 1 .. Len(rest), j > k - 1 PROVE ~IsList(rest[j], t)
    <3>1. j + 1 \in 1 .. Len(s) /\ j + 1 > k /\ rest[j] = s[j + 1]
      BY <1>1, <1>2, <2>2
    <3> QED BY <1>3, <3>1
  <2>3. LastList(rest, t, v)
    BY <1>2, <1>3, <2>1, <2>2 DEF LastList
  <2> QED BY <2>3 DEF rest
<1> QED BY <1>4, <1>5

\* Taking the first event takes the only list if it is one.
LEMMA TailOfNone ==
  ASSUME NEW S, NEW s \in Seq(S), s # <<>>, NEW t
  PROVE  /\ NoList(s, t) => NoList(Tail(s), t) /\ ~IsList(Head(s), t)
         /\ NoList(Tail(s), t) /\ ~NoList(s, t) => IsList(Head(s), t)
<1> DEFINE rest == Tail(s)
<1>1. rest \in Seq(S) /\ Len(rest) = Len(s) - 1 /\ Head(s) = s[1]
      /\ \A i \in 1 .. Len(rest) : rest[i] = s[i + 1]
  BY HeadTailProperties
<1>2. Len(s) \in Nat \ {0} /\ DOMAIN s = 1 .. Len(s) /\ DOMAIN rest = 1 .. Len(rest)
  BY <1>1, LenProperties, EmptySeq
<1> HIDE DEF rest
<1>3. \A i \in 1 .. Len(rest) : i + 1 \in 1 .. Len(s)
  BY <1>1, <1>2
<1>4. ASSUME NEW i \in 1 .. Len(s), i # 1
      PROVE  i - 1 \in 1 .. Len(rest) /\ s[i] = rest[i - 1]
  <2>1. i - 1 \in 1 .. Len(rest) /\ (i - 1) + 1 = i
    BY <1>1, <1>2, <1>4
  <2> QED BY ONLY <1>1, <2>1
<1>5. 1 \in 1 .. Len(s)
  BY <1>2
<1> QED BY <1>1, <1>2, <1>3, <1>4, <1>5 DEF NoList, rest

-----------------------------------------------------------------------------
(* What an action emits: no list, or a list of one thread, not followed by    *)
(* another.                                                                 *)
Mute(more) == more \in Seq(Told) /\ \A t \in Threads : NoList(more, t)
Lists(more, thread, v) ==
    /\ more \in Seq(Told) /\ LastList(more, thread, v)
    /\ \A t \in Threads \ {thread} : NoList(more, t)

\* One event, a list or not.
LEMMA Single ==
  ASSUME NEW e \in Told
  PROVE  /\ e.kind # "list" => Mute(<<e>>)
         /\ e.kind = "list" => Lists(<<e>>, e.thread, e.value)
<1>1. <<e>> \in Seq(Told) /\ DOMAIN <<e>> = 1 .. 1 /\ <<e>>[1] = e
  OBVIOUS
<1>2. \A i \in 1 .. 1 : i = 1
  OBVIOUS
<1>3. 1 \in 1 .. 1
  OBVIOUS
<1> QED BY <1>1, <1>2, <1>3 DEF Mute, Lists, NoList, LastList, IsList

\* A write state is not a list.
LEMMA WriteIsMute ==
  ASSUME NEW t \in Threads, NEW v \in WriteStates PROVE Mute(<<Event(t, "write", v)>>)
<1>1. Event(t, "write", v) \in Told /\ Event(t, "write", v).kind = "write"
  BY DEF Event, Told
<1> QED BY <1>1, Single

\* The state of a turn is not a list.
LEMMA TurnIsMute ==
  ASSUME NEW t \in Threads, NEW v \in TurnStates PROVE Mute(<<Event(t, "turn", v)>>)
<1>1. Event(t, "turn", v) \in Told /\ Event(t, "turn", v).kind = "turn"
  BY DEF Event, Told
<1> QED BY <1>1, Single

\* A list is one of its thread.
LEMMA ListIsTold ==
  ASSUME NEW t \in Threads, NEW v \in SUBSET Asked PROVE Lists(<<Event(t, "list", v)>>, t, v)
<1>1. /\ Event(t, "list", v) \in Told /\ Event(t, "list", v).kind = "list"
      /\ Event(t, "list", v).thread = t /\ Event(t, "list", v).value = v
  BY DEF Event, Told
<1> QED BY <1>1, Single

\* No list, and then none.
LEMMA MuteThenMute ==
  ASSUME NEW m, NEW n, Mute(m), Mute(n) PROVE Mute(m \o n)
<1>1. m \in Seq(Told) /\ n \in Seq(Told)
  BY DEF Mute
<1>2. m \o n \in Seq(Told)
  BY <1>1, ConcatProperties
<1>3. \A t \in Threads : NoList(m \o n, t)
  BY <1>1, NoListConcat DEF Mute
<1> QED BY <1>2, <1>3 DEF Mute

\* No list, and then one.
LEMMA MuteThenLists ==
  ASSUME NEW m, NEW n, NEW t, NEW v, Mute(m), Lists(n, t, v) PROVE Lists(m \o n, t, v)
<1>1. m \in Seq(Told) /\ n \in Seq(Told)
  BY DEF Mute, Lists
<1>2. m \o n \in Seq(Told)
  BY <1>1, ConcatProperties
<1>3. \A u \in Threads \ {t} : NoList(m \o n, u)
  BY <1>1, NoListConcat DEF Mute, Lists
<1>4. LastList(m \o n, t, v)
  BY <1>1, LastListConcat DEF Lists
<1> QED BY <1>2, <1>3, <1>4 DEF Lists

\* A list, and then none.
LEMMA ListsThenMute ==
  ASSUME NEW m, NEW n, NEW t \in Threads, NEW v, Lists(m, t, v), Mute(n)
  PROVE  Lists(m \o n, t, v)
<1>1. m \in Seq(Told) /\ n \in Seq(Told)
  BY DEF Mute, Lists
<1>2. m \o n \in Seq(Told)
  BY <1>1, ConcatProperties
<1>3. \A u \in Threads \ {t} : NoList(m \o n, u)
  BY <1>1, NoListConcat DEF Mute, Lists
<1>4. NoList(n, t)
  BY DEF Mute
<1>5. LastList(m \o n, t, v)
  BY <1>1, <1>4, LastListKept DEF Lists
<1> QED BY <1>2, <1>3, <1>5 DEF Lists

\* What the refusal of a turn emits.
LEMMA PairIsMute ==
  ASSUME NEW t \in Threads, NEW v \in TurnStates, NEW w \in WriteStates
  PROVE  Mute(<<Event(t, "turn", v), Event(t, "write", w)>>)
<1>1. <<Event(t, "turn", v), Event(t, "write", w)>>
        = <<Event(t, "turn", v)>> \o <<Event(t, "write", w)>>
  OBVIOUS
<1> QED BY <1>1, WriteIsMute, TurnIsMute, MuteThenMute

\* What the release of a writer emits.
LEMMA TripleLists ==
  ASSUME NEW t \in Threads, NEW v \in TurnStates, NEW w \in WriteStates
  PROVE  Lists(<<Event(t, "list", {}), Event(t, "turn", v), Event(t, "write", w)>>, t, {})
<1>1. <<Event(t, "list", {}), Event(t, "turn", v), Event(t, "write", w)>>
        = <<Event(t, "list", {})>> \o <<Event(t, "turn", v), Event(t, "write", w)>>
  OBVIOUS
<1>2. Lists(<<Event(t, "list", {})>>, t, {})
  BY ListIsTold
<1> QED BY <1>1, <1>2, PairIsMute, ListsThenMute

\* What emitting does to the lists on their way.
LEMMA Emitted ==
  ASSUME events \in Seq(Told), NEW more, Emit(more), NEW t \in Threads
  PROVE  /\ Mute(more) => /\ events' \in Seq(Told)
                          /\ NoList(events', t) => NoList(events, t)
                          /\ NoList(events, t) => NoList(events', t)
                          /\ \A v : LastList(events, t, v) => LastList(events', t, v)
         /\ \A u, v : Lists(more, u, v) =>
              /\ events' \in Seq(Told)
              /\ u = t => LastList(events', t, v) /\ ~NoList(events', t)
              /\ u # t => /\ NoList(events', t) => NoList(events, t)
                          /\ NoList(events, t) => NoList(events', t)
                          /\ \A w : LastList(events, t, w) => LastList(events', t, w)
<1>1. events' = events \o more
  BY DEF Emit
<1>2. ASSUME more \in Seq(Told) PROVE events' \in Seq(Told)
  BY <1>1, <1>2, ConcatProperties
<1>3. ASSUME more \in Seq(Told), NoList(more, t)
      PROVE  /\ NoList(events', t) => NoList(events, t)
             /\ NoList(events, t) => NoList(events', t)
             /\ \A v : LastList(events, t, v) => LastList(events', t, v)
  <2>1. NoList(events, t) => NoList(events', t)
    BY <1>1, <1>3, NoListConcat
  <2>2. ASSUME NEW v, LastList(events, t, v) PROVE LastList(events', t, v)
    BY <1>1, <1>3, <2>2, LastListKept
  <2>3. NoList(events', t) => NoList(events, t)
    <3>1. Len(events) \in Nat /\ Len(more) \in Nat /\ DOMAIN events = 1 .. Len(events)
      BY LenProperties, <1>3
    <3>2. DOMAIN events' = 1 .. Len(events) + Len(more)
          /\ \A i \in 1 .. Len(events) : events'[i] = events[i]
      <4>1. /\ events \o more \in Seq(Told) /\ Len(events \o more) = Len(events) + Len(more)
            /\ \A i \in 1 .. Len(events \o more) : (events \o more)[i]
                  = IF i <= Len(events) THEN events[i] ELSE more[i - Len(events)]
        BY <1>3, ConcatProperties
      <4>2. DOMAIN events' = 1 .. Len(events) + Len(more)
        BY <4>1, <1>1, LenProperties
      <4> QED BY <4>1, <4>2, <3>1, <1>1
    <3>3. \A i \in 1 .. Len(events) : i \in 1 .. Len(events) + Len(more)
      BY <3>1
    <3> QED BY <3>1, <3>2, <3>3 DEF NoList
  <2> QED BY <2>1, <2>2, <2>3
<1>4. ASSUME NEW v, Lists(more, t, v) PROVE LastList(events', t, v) /\ ~NoList(events', t)
  <2>1. LastList(events', t, v)
    BY <1>1, <1>4, LastListConcat DEF Lists
  <2> QED BY <2>1 DEF LastList, NoList
<1>5. ASSUME NEW u, NEW v, Lists(more, u, v), u # t PROVE more \in Seq(Told) /\ NoList(more, t)
  BY <1>5 DEF Lists
<1>6. ASSUME Mute(more) PROVE more \in Seq(Told) /\ NoList(more, t)
  BY <1>6 DEF Mute
<1>7. ASSUME NEW u, NEW v, Lists(more, u, v) PROVE more \in Seq(Told)
  BY <1>7 DEF Lists
<1> QED BY <1>2, <1>3, <1>4, <1>5, <1>6, <1>7

\* What the actions emit.
LEMMA Emissions ==
  ASSUME PendingInteractionsAssumption, Typed
  PROVE  /\ Lists(emit_thread_write_state("Unavailable")
                    \o emit_thread_runtime_state("Detached") \o Listed({}), watched, {})
         /\ Lists(emit_thread_write_state("Checking") \o Listed({})
                    \o emit_thread_runtime_state("Idle")
                    \o emit_thread_write_state("Writable"), watched, {})
         /\ Mute(emit_thread_runtime_state("Idle") \o emit_thread_write_state("Writable"))
         /\ Mute(emit_thread_write_state("Checking")
                   \o emit_thread_write_state("Unavailable"))
         /\ Mute(emit_thread_runtime_state("Starting")
                   \o emit_thread_runtime_state("Active"))
         /\ Lists(Listed({}) \o emit_thread_runtime_state("Idle"), watched, {})
         /\ Mute(<<>> \o emit_thread_runtime_state("Idle"))
         /\ \A ids \in SUBSET Ids : conn # 0 =>
              Lists(Listed(ids), watched, {[conn |-> conn, id |-> id] : id \in ids})
<1>1. watched \in Threads
  BY DEF Typed
<1>2. \A v \in WriteStates : Mute(emit_thread_write_state(v))
  BY <1>1, WriteIsMute DEF emit_thread_write_state
<1>3. \A v \in TurnStates : Mute(emit_thread_runtime_state(v))
  BY <1>1, TurnIsMute DEF emit_thread_runtime_state
<1>4. {"Checking", "Writable", "Unavailable"} \subseteq WriteStates
      /\ {"Detached", "Starting", "Active", "Idle"} \subseteq TurnStates
  BY DEF WriteStates, TurnStates
<1>5. Lists(Listed({}), watched, {})
  <2>1. {[conn |-> conn, id |-> id] : id \in {}} = {}
    OBVIOUS
  <2>2. Listed({}) = <<Event(watched, "list", {})>>
    BY <2>1 DEF Listed, emit_pending_interactions
  <2> QED BY <1>1, <2>2, ListIsTold
<1>6. ASSUME NEW ids \in SUBSET Ids, conn # 0
      PROVE  Lists(Listed(ids), watched, {[conn |-> conn, id |-> id] : id \in ids})
  <2>1. conn \in 1 .. MaxConnections
    BY <1>6 DEF Typed, PendingInteractionsAssumption
  <2>2. {[conn |-> conn, id |-> id] : id \in ids} \in SUBSET Asked
    BY <2>1 DEF Asked
  <2> QED BY <1>1, <2>2, ListIsTold DEF Listed, emit_pending_interactions
<1>7. Mute(emit_thread_write_state("Unavailable") \o emit_thread_runtime_state("Detached"))
      /\ Mute(emit_thread_runtime_state("Idle") \o emit_thread_write_state("Writable"))
      /\ Mute(emit_thread_write_state("Checking") \o emit_thread_write_state("Unavailable"))
      /\ Mute(emit_thread_runtime_state("Starting") \o emit_thread_runtime_state("Active"))
  BY <1>2, <1>3, <1>4, MuteThenMute
<1>8. Lists(emit_thread_write_state("Unavailable")
              \o emit_thread_runtime_state("Detached") \o Listed({}), watched, {})
  BY <1>5, <1>7, MuteThenLists
<1>9. Lists(emit_thread_write_state("Checking") \o Listed({})
              \o emit_thread_runtime_state("Idle")
              \o emit_thread_write_state("Writable"), watched, {})
  <2>1. Lists(emit_thread_write_state("Checking") \o Listed({}), watched, {})
    BY <1>2, <1>4, <1>5, MuteThenLists
  <2>2. Lists(emit_thread_write_state("Checking") \o Listed({})
                \o emit_thread_runtime_state("Idle"), watched, {})
    BY <1>1, <1>3, <1>4, <2>1, ListsThenMute
  <2> QED BY <1>1, <1>2, <1>4, <2>2, ListsThenMute
<1>10. Lists(Listed({}) \o emit_thread_runtime_state("Idle"), watched, {})
  BY <1>1, <1>3, <1>4, <1>5, ListsThenMute
<1>11. Mute(<<>> \o emit_thread_runtime_state("Idle"))
  <2>1. <<>> \o emit_thread_runtime_state("Idle") = emit_thread_runtime_state("Idle")
    BY DEF emit_thread_runtime_state
  <2> QED BY <1>3, <1>4, <2>1
<1> QED BY <1>6, <1>7, <1>8, <1>9, <1>10, <1>11

-----------------------------------------------------------------------------
(* What keeps the parts of the invariant.                                   *)
\* The list fits as long as nothing takes or changes it.
LEMMA ListStays ==
  ASSUME ListFits, Asking' = Asking, ui' = ui, ~Selecting' => ~Selecting,
         NoList(events, ui.thread) => NoList(events', ui.thread),
         \A v : LastList(events, ui.thread, v) => LastList(events', ui.thread, v)
  PROVE  ListFits'
BY DEF ListFits

\* The list fits when it has just been emitted.
LEMMA ListAnew ==
  ASSUME LastList(events', ui.thread, Asking'), ui' = ui PROVE ListFits'
BY DEF ListFits

\* Cards being answered stay so as long as their answers are on the way.
LEMMA ResolvingStays ==
  ASSUME ResolvingFits, ui' = ui, ~Selecting' => ~Selecting,
         NoList(events', ui.thread) => NoList(events, ui.thread), Given \subseteq Given'
  PROVE  ResolvingFits'
BY DEF ResolvingFits

\* Cards being answered stay so until the list on its way is there.
LEMMA ResolvingAnew ==
  ASSUME ResolvingFits, ui' = ui, ~NoList(events', ui.thread)
  PROVE  ResolvingFits'
BY DEF ResolvingFits

\* Answers stay right while nothing is asked and no writer is opened beside a question.
LEMMA AnswersStay ==
  ASSUME AnswersFit, Given' \subseteq Given, pending' \subseteq pending,
         conn' = conn \/ pending' = {}, reached' = reached
  PROVE  AnswersFit'
BY DEF AnswersFit, AnswersReachTheirQuestions

\* While a writer is held and no selection waits, its thread is the one shown.
LEMMA Here ==
  ASSUME StrayFits, conn # 0 PROVE Selecting \/ ui.thread = watched
BY DEF StrayFits, Selecting, Target

\* A thread that is shown though not watched stays so while no writer is opened.
LEMMA StrayStays ==
  ASSUME StrayFits, UNCHANGED <<watched, update, ui>>, work.watch = None, work'.watch = None,
         work'.write = None \/ work'.write = work.write,
         conn' = 0 \/ conn' = conn \/ ui.thread = Target
  PROVE  StrayFits'
<1>1. (Selecting' <=> Selecting) /\ Target' = Target
  BY DEF Selecting, Target
<1> QED BY <1>1 DEF StrayFits

\* Where the answers are.
LEMMA GivenIsControls ==
  /\ update' = update /\ work'.controls = work.controls => Given' = Given
  /\ work = NoUpdate => Given = {update.controls[i] : i \in DOMAIN update.controls}
  /\ (update = NoUpdate \/ update.controls = <<>>) /\ (work = NoUpdate \/ work.controls = <<>>)
        => Given = {}
<1>1. NoUpdate.controls = <<>> /\ DOMAIN <<>> = {}
  BY DEF NoUpdate
<1> QED BY <1>1 DEF Given

\* What the app-server does changes nothing but its own state.
LEMMA RestStays ==
  ASSUME Rest, UNCHANGED <<conn, pending, watched, update, work, events, ui, reached>>
  PROVE  Rest'
<1>1. Given' = Given /\ (Selecting' <=> Selecting) /\ Target' = Target /\ Asking' = Asking
  BY DEF Given, Selecting, Target, Asking
<1>2. ListFits' /\ ResolvingFits' /\ AnswersFit'
  BY <1>1, ListStays, ResolvingStays, AnswersStay DEF Rest
<1> QED BY <1>1, <1>2 DEF Rest, TurnFits, WriteFits, StrayFits

-----------------------------------------------------------------------------
\* What the app-server says.
LEMMA ServerPreserves ==
  ASSUME PendingInteractionsAssumption, IInv, Server
  PROVE  IInv'
<1> DEFINE Heard ==
      \E kind \in {"ask", "resolved", "completed", "lost"}, id \in Ids \cup {0} :
        /\ [kind |-> kind, id |-> id] \in Said
        /\ Says(kind, id) /\ asked' \in 0 .. MaxAsks /\ open' \subseteq 1 .. asked'
<1>1. Heard
  <2>1. CASE ServerAsks
    <3>1. asked' \in 1 .. MaxAsks /\ asked' = asked + 1 /\ open' = open \cup {asked'}
      BY <2>1 DEF ServerAsks, IInv, Typed, PendingInteractionsAssumption
    <3>2. open' \subseteq 1 .. asked'
      BY <3>1 DEF IInv, Typed, PendingInteractionsAssumption
    <3>3. [kind |-> "ask", id |-> asked'] \in Said /\ asked' \in Ids \cup {0}
      BY <3>1 DEF Said, Ids
    <3>4. asked' \in 0 .. MaxAsks
      BY <3>1 DEF PendingInteractionsAssumption
    <3> QED BY <2>1, <3>2, <3>3, <3>4 DEF ServerAsks
  <2>2. ASSUME NEW id \in Ids, ServerResolves(id) PROVE Heard
    <3>1. [kind |-> "resolved", id |-> id] \in Said
      BY DEF Said
    <3>2. asked' \in 0 .. MaxAsks /\ open' \subseteq 1 .. asked'
      BY <2>2 DEF ServerResolves, IInv, Typed
    <3> QED BY <2>2, <3>1, <3>2 DEF ServerResolves
  <2>3. CASE ServerCompletesTurn
    <3>1. [kind |-> "completed", id |-> 0] \in Said
      BY DEF Said
    <3>2. asked' \in 0 .. MaxAsks /\ open' \subseteq 1 .. asked'
      BY <2>3 DEF ServerCompletesTurn, IInv, Typed
    <3> QED BY <2>3, <3>1, <3>2 DEF ServerCompletesTurn
  <2>4. CASE ServerExits
    <3>1. [kind |-> "lost", id |-> 0] \in Said
      BY DEF Said
    <3>2. asked' \in 0 .. MaxAsks /\ open' \subseteq 1 .. asked'
      BY <2>4 DEF ServerExits, IInv, Typed
    <3> QED BY <2>4, <3>1, <3>2 DEF ServerExits
  <2> QED BY <2>1, <2>2, <2>3, <2>4 DEF Server
<1>0. PICK kind \in {"ask", "resolved", "completed", "lost"}, id \in Ids \cup {0} :
        /\ [kind |-> kind, id |-> id] \in Said
        /\ Says(kind, id) /\ asked' \in 0 .. MaxAsks /\ open' \subseteq 1 .. asked'
  BY <1>1
<1>2. /\ conn # 0 /\ inbox' = Append(inbox, [kind |-> kind, id |-> id])
      /\ UNCHANGED <<opened, conn, pending, watched, driving, update, work, events, ui, reached>>
  BY <1>0 DEF Says, worker
<1>3. inbox' \in Seq(Said)
  BY <1>0, <1>2, AppendProperties DEF IInv, Typed
<1>4. Typed'
  BY <1>0, <1>2, <1>3 DEF IInv, Typed
<1>5. Rest'
  BY <1>2, RestStays DEF IInv
<1> QED BY <1>4, <1>5 DEF IInv

\* An update that is taken keeps what it asks for.
LEMMA TakingPreserves ==
  ASSUME IInv, TakeUpdate \/ TakeControls
  PROVE  IInv'
<1>1. NoUpdate \in Updates
  <2>1. <<>> \in Seq(Answers)
    BY EmptySeq
  <2> QED BY <2>1 DEF NoUpdate, Updates
<1>2. /\ UNCHANGED <<opened, conn, asked, open, inbox, pending, watched, driving, events, ui, reached>>
      /\ work = NoUpdate /\ update \in Updates
  BY DEF TakeUpdate, TakeControls, Empty, appserver, worker, IInv, Typed
<1>3. CASE TakeUpdate
  <2>1. work' = update /\ update' = NoUpdate
    BY <1>3 DEF TakeUpdate
  <2>2. Typed'
    BY <1>1, <1>2, <2>1 DEF IInv, Typed
  <2>3. /\ NoUpdate.watch = None /\ NoUpdate.write = None /\ NoUpdate.turn = None
        /\ NoUpdate.controls = <<>>
    BY DEF NoUpdate
  <2>4. Given' = Given
    BY <1>2, <2>1, <2>3, GivenIsControls DEF Given
  <2>5. (Selecting' <=> Selecting) /\ Target' = Target /\ Asking' = Asking
    BY <1>2, <2>1, <2>3 DEF Selecting, Target, Asking
  <2>6. ListFits' /\ ResolvingFits' /\ AnswersFit'
    BY <1>2, <2>4, <2>5, ListStays, ResolvingStays, AnswersStay DEF IInv, Rest
  <2>7. WriteFits' /\ StrayFits'
    BY <1>2, <2>1, <2>3, <2>5 DEF IInv, Rest, WriteFits, StrayFits, Selecting
  <2>8. TurnFits'
    <3>1. ASSUME update.turn # None, update.watch = None
          PROVE  update.turn = watched \/ pending = {}
      <4>1. ui.thread = update.turn /\ Target = watched
        BY <1>2, <2>3, <3>1 DEF IInv, Rest, TurnFits, Target
      <4> QED BY <4>1 DEF IInv, Typed, Rest, StrayFits
    <3> QED BY <1>2, <2>1, <2>3, <3>1 DEF TurnFits
  <2> QED BY <2>2, <2>6, <2>7, <2>8 DEF IInv, Rest
<1>4. CASE TakeControls
  <2>1. /\ work' = [NoUpdate EXCEPT !.controls = update.controls]
        /\ update' = [update EXCEPT !.controls = <<>>]
    BY <1>4 DEF TakeControls
  <2>2. /\ work'.watch = None /\ work'.write = None /\ work'.turn = None
        /\ work'.controls = update.controls
        /\ update'.watch = update.watch /\ update'.write = update.write
        /\ update'.turn = update.turn /\ update'.controls = <<>>
        /\ work' \in Updates /\ update' \in Updates
    BY <1>1, <1>2, <2>1 DEF NoUpdate, Updates
  <2>3. Typed'
    BY <1>2, <2>2 DEF IInv, Typed
  <2>4. Given' = Given
    BY <1>2, <2>2 DEF Given, NoUpdate
  <2>5. (Selecting' <=> Selecting) /\ Target' = Target /\ Asking' = Asking
    BY <1>2, <2>2 DEF Selecting, Target, NoUpdate, Asking
  <2>6. ListFits' /\ ResolvingFits' /\ AnswersFit'
    BY <1>2, <2>4, <2>5, ListStays, ResolvingStays, AnswersStay DEF IInv, Rest
  <2>7. TurnFits' /\ WriteFits' /\ StrayFits'
    BY <1>2, <2>2, <2>5 DEF IInv, Rest, TurnFits, WriteFits, StrayFits
  <2> QED BY <2>3, <2>6, <2>7 DEF IInv, Rest
<1> QED BY <1>3, <1>4

\* A writer that is dropped leaves nothing pending.
LEMMA Dropped ==
  ASSUME PendingInteractionsAssumption, Typed, Drop
  PROVE
    /\ opened' \in 0 .. MaxConnections /\ conn' \in {0, opened'} /\ asked' \in 0 .. MaxAsks
    /\ open' \subseteq 1 .. asked' /\ pending' \subseteq Ids /\ inbox' \in Seq(Said)
    /\ driving' \in BOOLEAN /\ pending' = {} /\ inbox' = <<>> /\ conn' = 0
    /\ pending' \subseteq pending /\ Asking' = {}
<1>1. <<>> \in Seq(Said)
  BY EmptySeq
<1>2. opened' \in 0 .. MaxConnections /\ conn' = 0 /\ asked' = 0 /\ open' = {} /\ pending' = {}
      /\ inbox' = <<>> /\ driving' = FALSE
  BY DEF Drop, Typed
<1>3. asked' \in 0 .. MaxAsks
  BY <1>2 DEF PendingInteractionsAssumption
<1>4. Asking' = {}
  BY <1>2 DEF Asking
<1> QED BY <1>1, <1>2, <1>3, <1>4

\* The selection of a thread: select_thread.
LEMMA SelectPreserves ==
  ASSUME PendingInteractionsAssumption, IInv, select_thread
  PROVE  IInv'
<1> DEFINE t == work.watch
           more == <<Event(t, "list", {})>>
<1>1. /\ t # None /\ work' = [work EXCEPT !.watch = None] /\ watched' = t /\ Drop /\ Emit(more)
      /\ UNCHANGED <<update, ui, reached>> /\ work \in Updates
  BY DEF select_thread, IInv, Typed
<1>2. /\ t \in Threads /\ work' \in Updates /\ work'.watch = None /\ work'.turn = work.turn
      /\ work'.controls = work.controls
  BY <1>1 DEF Updates
<1>3. Lists(more, t, {})
  BY <1>2, ListIsTold
<1> HIDE DEF more
<1>4. Asking' = {} /\ pending' = {} /\ pending' \subseteq pending
  BY <1>1, Dropped DEF IInv
<1>5. events' \in Seq(Told) /\ LastList(events', t, {}) /\ ~NoList(events', t)
  BY <1>1, <1>2, <1>3, Emitted DEF IInv, Typed
<1>6. Typed'
  <2>1. work' \in Updates /\ watched' \in Threads /\ events' \in Seq(Told)
    BY <1>1, <1>2, <1>5
  <2> QED BY <1>1, <2>1, Dropped DEF IInv, Typed
<1>7. Target' = Target /\ ui.thread = Target /\ (~Selecting' => ui.thread = t)
  BY <1>1, <1>2 DEF IInv, Rest, StrayFits, Target, Selecting
<1>8. ListFits'
  BY <1>1, <1>4, <1>5, <1>7 DEF ListFits
<1>9. ResolvingFits'
  BY <1>1, <1>5, <1>7 DEF IInv, Rest, ResolvingFits
<1>10. Given' = Given
  BY <1>1, <1>2 DEF Given
<1>11. AnswersFit'
  BY <1>1, <1>4, <1>10, AnswersStay DEF IInv, Rest
<1>12. TurnFits' /\ WriteFits' /\ StrayFits'
  BY <1>1, <1>2, <1>4, <1>7 DEF IInv, Rest, TurnFits, WriteFits, StrayFits
<1> QED BY <1>6, <1>8, <1>9, <1>11, <1>12 DEF IInv, Rest

-----------------------------------------------------------------------------
(* What the worker does with its writer: the list is emitted anew, or nothing *)
(* of it changes.                                                            *)
Quietly ==
    /\ Asking' = Asking
    /\ NoList(events', ui.thread) => NoList(events, ui.thread)
    /\ NoList(events, ui.thread) => NoList(events', ui.thread)
    /\ \A v : LastList(events, ui.thread, v) => LastList(events', ui.thread, v)
Anew == LastList(events', ui.thread, Asking') /\ ~NoList(events', ui.thread)

\* A step of the worker on its writer keeps the rest of the invariant.
LEMMA RestKept ==
  ASSUME IInv, UNCHANGED <<update, ui>>, work.watch = None, work'.watch = None,
         Selecting \/ Quietly \/ Anew, AnswersFit', TurnFits', StrayFits',
         \/ Selecting \/ Anew
         \/ Given \subseteq Given'
         \/ pending = {}
  PROVE  Rest'
<1>1. Selecting' <=> Selecting
  BY DEF Selecting
<1>2. ListFits'
  <2>1. CASE Selecting
    BY <1>1, <2>1 DEF ListFits
  <2> QED BY <1>1, <2>1, ListStays, ListAnew DEF IInv, Rest, Quietly, Anew
<1>3. ResolvingFits'
  <2>1. CASE Anew
    BY <2>1, ResolvingAnew DEF IInv, Rest, Anew
  <2>2. CASE Quietly /\ Given \subseteq Given'
    BY <1>1, <2>2, ResolvingStays DEF IInv, Rest, Quietly
  <2>3. CASE Quietly /\ pending = {}
    <3>1. Asking = {}
      BY <2>3 DEF Asking
    <3>2. ASSUME ~Selecting, NoList(events, ui.thread) PROVE ui.resolving = {}
      <4>1. ui.shown = {}
        BY <3>1, <3>2 DEF IInv, Rest, ListFits, LastList, NoList
      <4> QED BY <4>1 DEF IInv, Rest, ResolvingFits
    <3> QED BY <1>1, <2>3, <3>2 DEF IInv, Rest, ResolvingFits, Quietly
  <2>4. CASE Selecting
    BY <1>1, <2>4 DEF IInv, Rest, ResolvingFits
  <2> QED BY <2>1, <2>2, <2>3, <2>4
<1> QED BY <1>2, <1>3 DEF IInv, Rest, WriteFits

\* Emitting no list changes nothing of it.
LEMMA MuteIsQuiet ==
  ASSUME Typed, NEW more, Mute(more), Emit(more), Asking' = Asking
  PROVE  Quietly /\ events' \in Seq(Told)
<1>1. ui.thread \in Threads /\ events \in Seq(Told)
  BY DEF Typed, Shows
<1> QED BY <1>1, Emitted DEF Quietly

\* Emitting the list of another thread changes nothing of it.
LEMMA OtherIsQuiet ==
  ASSUME Typed, NEW more, NEW u, NEW v, u # ui.thread, Lists(more, u, v), Emit(more),
         Asking' = Asking
  PROVE  Quietly /\ events' \in Seq(Told)
<1>1. ui.thread \in Threads /\ events \in Seq(Told)
  BY DEF Typed, Shows
<1> QED BY <1>1, Emitted DEF Quietly

\* Emitting the list of a thread brings it anew if that thread is the one shown.
LEMMA ListIsAnew ==
  ASSUME Typed, NEW more, NEW u, Lists(more, u, Asking'), Emit(more)
  PROVE  (u = ui.thread => Anew) /\ events' \in Seq(Told)
<1>1. ui.thread \in Threads /\ events \in Seq(Told)
  BY DEF Typed, Shows
<1> QED BY <1>1, Emitted DEF Anew

\* What is emitted are events.
LEMMA EmittedIsTold ==
  ASSUME Typed, NEW more, NEW u, NEW v, Lists(more, u, v), Emit(more)
  PROVE  events' \in Seq(Told)
BY ConcatProperties DEF Typed, Emit, Lists

\* A writer is acquired, kept or refused: acquire_write.
LEMMA AcquirePreserves ==
  ASSUME PendingInteractionsAssumption, IInv, acquire_write
  PROVE  IInv'
<1>1. /\ work.watch = None /\ work' = [work EXCEPT !.write = None]
      /\ UNCHANGED <<update, ui, reached, watched, pending, driving, open, asked, inbox>>
      /\ work \in Updates
  BY DEF acquire_write, appserver, worker, IInv, Typed
<1>2. /\ work' \in Updates /\ work'.watch = None /\ work'.turn = work.turn
      /\ work'.controls = work.controls
  BY <1>1 DEF Updates
<1>3. Given' = Given
  BY <1>1, <1>2 DEF Given
<1> DEFINE Fits == /\ Selecting \/ Quietly \/ Anew
                   /\ conn' = conn \/ (pending = {} /\ (Selecting \/ ui.thread = watched))
                   /\ opened' \in 0 .. MaxConnections /\ conn' \in {0, opened'}
                   /\ events' \in Seq(Told)
                   /\ conn' = 0 => conn = 0
<1>4. ASSUME UNCHANGED <<appserver, worker, events>> PROVE Fits
  BY <1>4 DEF Quietly, Asking, appserver, worker, IInv, Typed
<1>5. ASSUME Emit(emit_thread_runtime_state("Idle") \o emit_thread_write_state("Writable")),
             UNCHANGED <<appserver, worker>>
      PROVE  Fits
  <2>1. conn' = conn /\ pending' = pending /\ opened' = opened /\ Asking' = Asking
    BY <1>5 DEF appserver, worker, Asking
  <2> QED BY <1>5, <2>1, MuteIsQuiet, Emissions DEF IInv, Typed
<1>6. ASSUME conn = 0, opened < MaxConnections, opened' = opened + 1, conn' = opened',
             work.write # None, work.write.thread = watched,
             Emit(emit_thread_write_state("Checking") \o Listed({})
                    \o emit_thread_runtime_state("Idle") \o emit_thread_write_state("Writable"))
      PROVE  Fits
  <2>1. pending = {} /\ pending' = {}
    BY <1>1, <1>6 DEF IInv, Typed
  <2>2. Asking' = {}
    BY <2>1 DEF Asking
  <2>3. opened' \in 0 .. MaxConnections /\ conn' # 0
    BY <1>6 DEF IInv, Typed, PendingInteractionsAssumption
  <2>4. (watched = ui.thread => Anew) /\ events' \in Seq(Told)
    BY <1>6, <2>2, ListIsAnew, Emissions DEF IInv
  <2>5. Selecting \/ ui.thread = watched
    BY <1>1, <1>6 DEF IInv, Rest, StrayFits, Selecting, Target
  <2> QED BY <1>6, <2>1, <2>3, <2>4, <2>5
<1>7. ASSUME Emit(emit_thread_write_state("Checking")
                    \o emit_thread_write_state("Unavailable")),
             UNCHANGED <<appserver, worker>>
      PROVE  Fits
  <2>1. conn' = conn /\ pending' = pending /\ opened' = opened /\ Asking' = Asking
    BY <1>7 DEF appserver, worker, Asking
  <2> QED BY <1>7, <2>1, MuteIsQuiet, Emissions DEF IInv, Typed
<1>8. Fits
  BY <1>4, <1>5, <1>6, <1>7 DEF acquire_write
<1>9. Typed'
  BY <1>1, <1>2, <1>8 DEF IInv, Typed
<1>10. AnswersFit'
  <2>1. Given' \subseteq Given /\ pending' \subseteq pending /\ reached' = reached
        /\ (conn' = conn \/ pending' = {})
    BY <1>1, <1>3, <1>8
  <2> QED BY <2>1, AnswersStay DEF IInv, Rest
<1>11. TurnFits'
  BY <1>1, <1>2 DEF IInv, Rest, TurnFits
<1>12. StrayFits'
  <2>1. conn' = conn \/ ui.thread = Target
    BY <1>1, <1>8 DEF IInv, Rest, StrayFits, Selecting, Target
  <2>2. work'.write = None
    BY <1>1 DEF Updates
  <2> QED BY <1>1, <1>2, <2>1, <2>2, StrayStays DEF IInv, Rest
<1>13. Rest'
  BY <1>1, <1>2, <1>3, <1>8, <1>10, <1>11, <1>12, RestKept
<1> QED BY <1>9, <1>13 DEF IInv

\* A writer is released: release_write.
LEMMA ReleasePreserves ==
  ASSUME PendingInteractionsAssumption, IInv, release_write
  PROVE  IInv'
<1> DEFINE t == work.write.thread
           more == <<Event(t, "list", {}), Event(t, "turn", "Detached"),
                     Event(t, "write", "NotRequested")>>
<1>1. /\ work.watch = None /\ work' = [work EXCEPT !.write = None]
      /\ UNCHANGED <<update, ui, reached, watched>>
      /\ Emit(more) /\ work \in Updates
      /\ IF t = watched THEN Drop ELSE UNCHANGED <<appserver, pending, driving>>
  BY DEF release_write, IInv, Typed
<1>2. /\ work' \in Updates /\ work'.watch = None /\ work'.turn = work.turn
      /\ work'.controls = work.controls /\ t \in Threads
  BY <1>1 DEF release_write, Updates
<1>3. Given' = Given
  BY <1>1, <1>2 DEF Given
<1>4. Lists(more, t, {})
  BY <1>2, TripleLists DEF TurnStates, WriteStates
<1> HIDE DEF more
<1>5. ui.thread = watched \/ Selecting \/ (t = ui.thread /\ conn = 0)
  BY <1>1 DEF release_write, IInv, Rest, StrayFits, Selecting, Target
<1>6. \/ t = watched /\ Drop
      \/ t # watched /\ UNCHANGED <<opened, conn, open, asked, inbox, pending, driving>>
  BY <1>1 DEF appserver
<1>7. /\ opened' \in 0 .. MaxConnections /\ conn' \in {0, opened'} /\ asked' \in 0 .. MaxAsks
      /\ open' \subseteq 1 .. asked' /\ pending' \subseteq Ids /\ inbox' \in Seq(Said)
      /\ driving' \in BOOLEAN /\ (conn' = 0 => pending' = {} /\ inbox' = <<>>)
      /\ pending' \subseteq pending /\ conn' \in {0, conn}
      /\ conn' = conn \/ pending' = {}
      /\ t = watched => Asking' = {}
      /\ t # watched => Asking' = Asking
  BY <1>6, Dropped DEF IInv, Typed, Asking
<1>8. (Selecting \/ Quietly \/ Anew) /\ events' \in Seq(Told)
  <2>1. CASE t = watched
    <3>1. (t = ui.thread => Anew) /\ events' \in Seq(Told)
      BY <1>1, <1>4, <1>7, <2>1, ListIsAnew DEF IInv
    <3> QED BY <1>5, <2>1, <3>1
  <2>2. CASE t # watched /\ t = ui.thread /\ conn = 0
    <3>1. Asking' = {}
      BY <1>7, <2>2 DEF IInv, Typed, Asking
    <3>2. Anew /\ events' \in Seq(Told)
      BY <1>1, <1>4, <2>2, <3>1, ListIsAnew DEF IInv
    <3> QED BY <3>2
  <2>3. CASE t # watched /\ t # ui.thread
    BY <1>1, <1>4, <1>7, <2>3, OtherIsQuiet DEF IInv
  <2>4. CASE t # watched /\ Selecting
    BY <1>1, <1>4, <2>4, EmittedIsTold DEF IInv
  <2> QED BY <1>5, <2>1, <2>2, <2>3, <2>4
<1>9. Typed'
  BY <1>1, <1>2, <1>7, <1>8 DEF IInv, Typed
<1>10. AnswersFit'
  BY <1>1, <1>3, <1>7, AnswersStay DEF IInv, Rest
<1>11. TurnFits'
  BY <1>1, <1>2, <1>7 DEF IInv, Rest, TurnFits
<1>12. StrayFits'
  <2>1. work'.write = None
    BY <1>1 DEF Updates
  <2> QED BY <1>1, <1>2, <1>7, <2>1, StrayStays DEF IInv, Rest
<1>13. Rest'
  BY <1>1, <1>2, <1>3, <1>8, <1>10, <1>11, <1>12, RestKept
<1> QED BY <1>9, <1>13 DEF IInv

\* The update that asks for nothing.
LEMMA NothingTaken == NoUpdate \in Updates /\ NoUpdate.watch = None /\ NoUpdate.write = None
                      /\ NoUpdate.turn = None /\ NoUpdate.controls = <<>> /\ DOMAIN NoUpdate.controls = {}
<1>1. <<>> \in Seq(Answers) /\ DOMAIN <<>> = {}
  BY EmptySeq
<1> QED BY <1>1 DEF NoUpdate, Updates

\* A turn begins, is refused or fails: run_turn.
LEMMA TurnPreserves ==
  ASSUME PendingInteractionsAssumption, IInv, run_turn
  PROVE  IInv'
<1>1. /\ work.watch = None /\ work.turn # None /\ watched' = work.turn
      /\ UNCHANGED <<update, ui, reached>> /\ work \in Updates /\ work.turn \in Threads
  BY DEF run_turn, IInv, Typed, Updates
<1>2. CASE /\ \/ work.turn # watched /\ Drop
              \/ work.turn = watched /\ conn = 0 /\ UNCHANGED <<appserver, pending, driving>>
           /\ Emit(<<Event(work.turn, "turn", "Detached"),
                    Event(work.turn, "write", "Unavailable")>>)
           /\ work' = NoUpdate
  <2>1. pending = {} /\ Asking = {}
    BY <1>1, <1>2 DEF IInv, Typed, Rest, TurnFits, Asking
  <2>2. /\ opened' \in 0 .. MaxConnections /\ conn' = 0 /\ asked' \in 0 .. MaxAsks
        /\ open' \subseteq 1 .. asked' /\ pending' = {} /\ inbox' = <<>> /\ inbox' \in Seq(Said)
        /\ driving' \in BOOLEAN /\ Asking' = {}
    BY <1>2, <2>1, Dropped DEF IInv, Typed, appserver, Asking
  <2>3. Mute(<<Event(work.turn, "turn", "Detached"), Event(work.turn, "write", "Unavailable")>>)
    BY <1>1, PairIsMute DEF TurnStates, WriteStates
  <2>4. Quietly /\ events' \in Seq(Told)
    BY <1>2, <2>1, <2>2, <2>3, MuteIsQuiet DEF IInv
  <2>5. Typed'
    BY <1>1, <1>2, <2>2, <2>4, NothingTaken DEF IInv, Typed
  <2>6. Given' \subseteq Given
    BY <1>1, <1>2, NothingTaken DEF Given
  <2>7. AnswersFit'
    BY <1>1, <2>1, <2>2, <2>6, AnswersStay DEF IInv, Rest
  <2>8. TurnFits'
    BY <1>1, <1>2, NothingTaken DEF IInv, Rest, TurnFits
  <2>9. StrayFits'
    <3>1. update.watch # None => ui.thread = update.watch
      BY DEF IInv, Rest, StrayFits, Selecting, Target
    <3> QED BY <1>1, <1>2, <2>2, <3>1, NothingTaken DEF StrayFits, Selecting, Target
  <2>10. Rest'
    BY <1>1, <1>2, <2>1, <2>4, <2>7, <2>8, <2>9, NothingTaken, RestKept
  <2> QED BY <2>5, <2>10 DEF IInv
<1>3. CASE /\ work.turn = watched /\ driving' = TRUE
           /\ Emit(emit_thread_runtime_state("Starting") \o emit_thread_runtime_state("Active"))
           /\ work' = [work EXCEPT !.turn = None]
           /\ UNCHANGED <<opened, conn, open, asked, inbox, pending>>
  <2>1. /\ work' \in Updates /\ work'.watch = None /\ work'.turn = None
        /\ work'.write = work.write /\ work'.controls = work.controls
    BY <1>1, <1>3 DEF Updates
  <2>2. Asking' = Asking
    BY <1>3 DEF Asking
  <2>3. Quietly /\ events' \in Seq(Told)
    BY <1>3, <2>2, MuteIsQuiet, Emissions DEF IInv
  <2>4. Typed'
    BY <1>1, <1>3, <2>1, <2>3 DEF IInv, Typed
  <2>5. Given' = Given
    BY <1>1, <2>1 DEF Given
  <2>6. AnswersFit'
    BY <1>1, <1>3, <2>5, AnswersStay DEF IInv, Rest
  <2>7. TurnFits'
    BY <1>1, <2>1 DEF IInv, Rest, TurnFits
  <2>8. StrayFits'
    BY <1>1, <1>3, <2>1, StrayStays DEF IInv, Rest
  <2>9. Rest'
    BY <1>1, <2>1, <2>3, <2>5, <2>6, <2>7, <2>8, RestKept
  <2> QED BY <2>4, <2>9 DEF IInv
<1>4. CASE work.turn = watched /\ conn # 0 /\ fail_stream /\ work' = NoUpdate
  <2>1. Drop
    BY <1>4 DEF fail_stream
  <2>2. Asking' = {} /\ pending' = {} /\ pending' \subseteq pending /\ conn' = 0
    BY <2>1, Dropped DEF IInv
  <2>3. (watched = ui.thread => Anew) /\ events' \in Seq(Told)
    BY <1>4, <2>2, ListIsAnew, Emissions DEF IInv, fail_stream
  <2>4. Typed'
    BY <1>1, <1>4, <2>1, <2>3, Dropped, NothingTaken DEF IInv, Typed
  <2>5. Given' \subseteq Given
    BY <1>1, <1>4, NothingTaken DEF Given
  <2>6. AnswersFit'
    BY <1>1, <2>2, <2>5, AnswersStay DEF IInv, Rest
  <2>7. TurnFits'
    BY <1>1, <1>4, NothingTaken DEF IInv, Rest, TurnFits
  <2>8. StrayFits'
    BY <1>1, <1>4, <2>2, NothingTaken, StrayStays DEF IInv, Rest
  <2>9. Selecting \/ Anew
    BY <1>4, <2>3, Here DEF IInv, Rest
  <2>10. Rest'
    BY <1>1, <1>4, <2>6, <2>7, <2>8, <2>9, NothingTaken, RestKept
  <2> QED BY <2>4, <2>10 DEF IInv
<1> QED BY <1>1, <1>2, <1>3, <1>4 DEF run_turn

\* An answer is taken: resolve_interaction.
LEMMA ResolvePreserves ==
  ASSUME PendingInteractionsAssumption, IInv, resolve_interaction
  PROVE  IInv'
<1> DEFINE answer == Head(work.controls)
<1>1. /\ work.watch = None /\ work.turn = None /\ work.controls # <<>>
      /\ work' = [work EXCEPT !.controls = Tail(@)] /\ work \in Updates
      /\ UNCHANGED <<opened, conn, asked, inbox, watched, driving, update, ui>>
  BY DEF resolve_interaction, IInv, Typed
<1>2. work.controls \in Seq(Answers)
  BY <1>1 DEF Updates
<1>3. /\ Tail(work.controls) \in Seq(Answers) /\ Len(Tail(work.controls)) = Len(work.controls) - 1
      /\ \A i \in 1 .. Len(Tail(work.controls)) : Tail(work.controls)[i] = work.controls[i + 1]
      /\ answer = work.controls[1]
  BY <1>1, <1>2, HeadTailProperties
<1>4. /\ DOMAIN work.controls = 1 .. Len(work.controls) /\ Len(work.controls) \in Nat \ {0}
      /\ DOMAIN Tail(work.controls) = 1 .. Len(Tail(work.controls))
  BY <1>1, <1>2, <1>3, LenProperties, EmptySeq
<1>5. /\ work'.controls = Tail(work.controls) /\ work'.watch = None /\ work'.turn = None
      /\ work' \in Updates
  BY <1>1, <1>3 DEF Updates
<1>6. \A i \in DOMAIN Tail(work.controls) :
        i + 1 \in DOMAIN work.controls /\ Tail(work.controls)[i] = work.controls[i + 1]
  BY <1>3, <1>4
<1>7. answer \in Given
  BY <1>3, <1>4 DEF Given
<1>8. Given' \subseteq Given
  BY <1>1, <1>5, <1>6 DEF Given
<1> HIDE DEF answer
<1>9. TurnFits'
  BY <1>1, <1>5 DEF IInv, Rest, TurnFits
<1>0. StrayFits'
  <2>1. work'.write = work.write
    BY <1>1 DEF Updates
  <2> QED BY <1>1, <1>5, <2>1, StrayStays DEF IInv, Rest
<1>10. CASE conn = 0 /\ UNCHANGED <<open, pending, events, reached>>
  <2>1. Typed'
    BY <1>1, <1>5, <1>10 DEF IInv, Typed
  <2>2. Quietly /\ pending = {}
    BY <1>1, <1>10 DEF Quietly, Asking, IInv, Typed
  <2>3. AnswersFit'
    BY <1>1, <1>8, <1>10, AnswersStay DEF IInv, Rest
  <2>4. Rest'
    BY <1>0, <1>1, <1>5, <1>9, <2>2, <2>3, RestKept
  <2> QED BY <2>1, <2>4 DEF IInv
<1>11. CASE /\ conn # 0 /\ answer.id \in pending
            /\ pending' = pending \ {answer.id} /\ Emit(Listed(pending'))
            /\ open' = open \ {answer.id}
            /\ reached' = [meant |-> answer.meant, on |-> conn, replaced |-> answer.replaced]
  <2>1. pending' \in SUBSET Ids /\ pending' \subseteq pending /\ open' \subseteq 1 .. asked
    BY <1>11 DEF IInv, Typed
  <2>2. Asking' = {[conn |-> conn, id |-> id] : id \in pending'}
    BY <1>1 DEF Asking
  <2>3. (Selecting \/ Anew) /\ events' \in Seq(Told)
    BY <1>11, <2>1, <2>2, Here, ListIsAnew, Emissions DEF IInv, Rest
  <2>4. Typed'
    BY <1>1, <1>5, <1>11, <2>1, <2>3 DEF IInv, Typed
  <2>5. AnswersReachTheirQuestions'
    BY <1>7, <1>11 DEF AnswersReachTheirQuestions, AnswersFit, IInv, Rest
  <2>6. AnswersFit'
    BY <1>1, <1>8, <2>1, <2>5 DEF AnswersFit, IInv, Rest
  <2>7. Rest'
    BY <1>0, <1>1, <1>5, <1>9, <2>3, <2>6, RestKept
  <2> QED BY <2>4, <2>7 DEF IInv
<1>12. CASE conn # 0 /\ Emit(Listed(pending)) /\ UNCHANGED <<open, pending, reached>>
  <2>1. pending \in SUBSET Ids
    BY DEF IInv, Typed
  <2>2. Asking' = {[conn |-> conn, id |-> id] : id \in pending}
    BY <1>1, <1>12 DEF Asking
  <2>3. (Selecting \/ Anew) /\ events' \in Seq(Told)
    BY <1>12, <2>1, <2>2, Here, ListIsAnew, Emissions DEF IInv, Rest
  <2>4. Typed'
    BY <1>1, <1>5, <1>12, <2>3 DEF IInv, Typed
  <2>5. AnswersFit'
    BY <1>1, <1>8, <1>12, AnswersStay DEF IInv, Rest
  <2>6. Rest'
    BY <1>0, <1>1, <1>5, <1>9, <2>3, <2>5, RestKept
  <2> QED BY <2>4, <2>6 DEF IInv
<1> QED BY <1>10, <1>11, <1>12 DEF resolve_interaction, answer

\* A message of the app-server is taken: next_writer_update.
LEMMA MessagePreserves ==
  ASSUME PendingInteractionsAssumption, IInv, next_writer_update
  PROVE  IInv'
<1> DEFINE message == Head(inbox)
           Read == inbox' = Tail(inbox) /\ UNCHANGED <<opened, conn, server, open, asked>>
<1>1. /\ work = NoUpdate /\ inbox # <<>> /\ inbox \in Seq(Said)
      /\ update = NoUpdate \/ update.controls = <<>>
      /\ UNCHANGED <<watched, work, update, ui, reached>>
  BY DEF next_writer_update, Empty, IInv, Typed
<1>2. /\ work.watch = None /\ work'.watch = None /\ work.turn = None /\ work'.turn = None
      /\ Given = {} /\ Given' = {}
  BY <1>1, NothingTaken, GivenIsControls DEF Given
<1>3. message \in Said /\ Tail(inbox) \in Seq(Said) /\ conn # 0
  BY <1>1, HeadTailProperties DEF IInv, Typed
<1> HIDE DEF message
<1>4. TurnFits'
  BY <1>1, <1>2 DEF IInv, Rest, TurnFits
<1>5. AnswersFit'
  BY <1>1, <1>2 DEF IInv, Rest, AnswersFit, AnswersReachTheirQuestions
<1>0. ASSUME conn' \in {0, conn} PROVE StrayFits'
  BY <1>0, <1>1, <1>2, StrayStays DEF IInv, Rest
<1>6. ASSUME NEW ids \in SUBSET Ids, Read, pending' = ids, Emit(Listed(ids)), driving' = driving
      PROVE  IInv'
  <2>1. Asking' = {[conn |-> conn, id |-> id] : id \in ids}
    BY <1>6 DEF Asking
  <2>2. (Selecting \/ Anew) /\ events' \in Seq(Told)
    BY <1>3, <1>6, <2>1, Here, ListIsAnew, Emissions DEF IInv, Rest
  <2>3. Typed'
    BY <1>1, <1>3, <1>6, <2>2 DEF IInv, Typed
  <2>4. Rest'
    BY <1>0, <1>1, <1>2, <1>4, <1>5, <1>6, <2>2, RestKept
  <2> QED BY <2>3, <2>4 DEF IInv
<1>7. CASE /\ message.kind = "ask" /\ Read /\ pending' = pending \cup {message.id}
           /\ Emit(Listed(pending')) /\ UNCHANGED driving
  <2>1. pending' \in SUBSET Ids
    BY <1>3, <1>7 DEF Said, IInv, Typed
  <2> QED BY <1>6, <1>7, <2>1
<1>8. CASE /\ message.kind = "resolved" /\ Read /\ pending' = pending \ {message.id}
           /\ IF message.id \in pending THEN Emit(Listed(pending')) ELSE UNCHANGED events
           /\ UNCHANGED driving
  <2>1. pending' \in SUBSET Ids
    BY <1>8 DEF IInv, Typed
  <2>2. CASE message.id \in pending
    BY <1>6, <1>8, <2>1, <2>2
  <2>3. CASE message.id \notin pending
    <3>1. pending' = pending /\ events' = events
      BY <1>8, <2>3
    <3>2. Quietly
      BY <1>8, <3>1 DEF Quietly, Asking
    <3>3. Typed'
      BY <1>1, <1>3, <1>8, <3>1 DEF IInv, Typed
    <3>4. Rest'
      BY <1>0, <1>1, <1>2, <1>4, <1>5, <1>8, <3>2, RestKept
    <3> QED BY <3>3, <3>4 DEF IInv
  <2> QED BY <2>2, <2>3
<1>9. CASE /\ message.kind = "completed" /\ Read /\ pending' = {} /\ driving' = FALSE
           /\ Emit((IF pending # {} THEN Listed({}) ELSE <<>>)
                        \o emit_thread_runtime_state("Idle"))
  <2>1. Asking' = {}
    BY <1>9 DEF Asking
  <2>2. (Selecting \/ Quietly \/ Anew) /\ events' \in Seq(Told)
    <3>1. CASE pending # {}
      <4>1. Emit(Listed({}) \o emit_thread_runtime_state("Idle"))
        BY <1>9, <3>1
      <4> QED BY <1>3, <2>1, <4>1, Here, ListIsAnew, Emissions DEF IInv, Rest
    <3>2. CASE pending = {}
      <4>1. Emit(<<>> \o emit_thread_runtime_state("Idle")) /\ conn' = conn /\ pending' = pending
        BY <1>9, <3>2
      <4>2. Asking' = Asking
        BY <4>1 DEF Asking
      <4> QED BY <4>1, <4>2, MuteIsQuiet, Emissions DEF IInv
    <3> QED BY <3>1, <3>2
  <2>3. Typed'
    BY <1>1, <1>3, <1>9, <2>2 DEF IInv, Typed
  <2>4. Rest'
    BY <1>0, <1>1, <1>2, <1>4, <1>5, <1>9, <2>2, RestKept
  <2> QED BY <2>3, <2>4 DEF IInv
<1>10. CASE fail_stream
  <2>1. Drop
    BY <1>10 DEF fail_stream
  <2>2. Asking' = {}
    BY <2>1, Dropped DEF IInv
  <2>3. (Selecting \/ Anew) /\ events' \in Seq(Told)
    BY <1>3, <1>10, <2>2, Here, ListIsAnew, Emissions DEF IInv, Rest, fail_stream
  <2>4. Typed'
    BY <1>1, <2>1, <2>3, Dropped DEF IInv, Typed
  <2>5. Rest'
    BY <1>0, <1>1, <1>2, <1>4, <1>5, <2>1, <2>3, Dropped, RestKept DEF IInv
  <2> QED BY <2>4, <2>5 DEF IInv
<1> QED BY <1>7, <1>8, <1>9, <1>10 DEF next_writer_update, message

-----------------------------------------------------------------------------
\* The application hears of it: applyHistoryEvent.
LEMMA EventPreserves ==
  ASSUME IInv, applyHistoryEvent
  PROVE  IInv'
<1> DEFINE event == Head(events)
<1>1. /\ events # <<>> /\ events \in Seq(Told) /\ events' = Tail(events) /\ ui \in Shows
      /\ UNCHANGED <<opened, conn, asked, open, inbox, pending, watched, driving, update, work,
                     reached>>
  BY DEF applyHistoryEvent, appserver, worker, IInv, Typed
<1>2. event \in Told /\ events' \in Seq(Told)
  BY <1>1, HeadTailProperties
<1>3. ui' = IF event.thread # ui.thread THEN ui
            ELSE CASE event.kind = "write" -> [ui EXCEPT !.write = event.value]
                   [] event.kind = "turn" -> [ui EXCEPT !.turn = event.value]
                   [] event.kind = "list" -> [ui EXCEPT !.shown = event.value, !.resolving = {}]
  BY DEF applyHistoryEvent, reconcileInteractions
<1>4. /\ NoList(events, ui.thread) => NoList(Tail(events), ui.thread) /\ ~IsList(event, ui.thread)
      /\ NoList(Tail(events), ui.thread) /\ ~NoList(events, ui.thread) => IsList(event, ui.thread)
  BY <1>1, TailOfNone
<1>5. \A v : LastList(events, ui.thread, v) =>
        \/ LastList(Tail(events), ui.thread, v)
        \/ NoList(Tail(events), ui.thread) /\ IsList(event, ui.thread) /\ event.value = v
  BY <1>1, TailOfList
<1> HIDE DEF event
<1>6. /\ ui' \in Shows /\ ui'.thread = ui.thread
      /\ \/ IsList(event, ui.thread) /\ ui'.shown = event.value /\ ui'.resolving = {}
         \/ ~IsList(event, ui.thread) /\ ui'.shown = ui.shown /\ ui'.resolving = ui.resolving
  <2>1. CASE event.thread # ui.thread
    BY <1>1, <1>3, <2>1 DEF IsList
  <2>2. CASE event.thread = ui.thread /\ event.kind = "write"
    <3>1. event.value \in WriteStates /\ ui' = [ui EXCEPT !.write = event.value]
      BY <1>2, <1>3, <2>2 DEF Told
    <3> QED BY <1>1, <2>2, <3>1 DEF IsList, Shows
  <2>3. CASE event.thread = ui.thread /\ event.kind = "turn"
    <3>1. event.value \in TurnStates /\ ui' = [ui EXCEPT !.turn = event.value]
      BY <1>2, <1>3, <2>3 DEF Told
    <3> QED BY <1>1, <2>3, <3>1 DEF IsList, Shows
  <2>4. CASE event.thread = ui.thread /\ event.kind = "list"
    <3>1. event.value \in SUBSET Asked
          /\ ui' = [ui EXCEPT !.shown = event.value, !.resolving = {}]
      BY <1>2, <1>3, <2>4 DEF Told
    <3> QED BY <1>1, <2>4, <3>1 DEF IsList, Shows
  <2> QED BY <1>2, <2>1, <2>2, <2>3, <2>4 DEF Told
<1>7. (Selecting' <=> Selecting) /\ Target' = Target /\ Given' = Given /\ Asking' = Asking
  BY <1>1 DEF Selecting, Target, Given, Asking
<1>8. ListFits'
  <2> SUFFICES ASSUME ~Selecting
               PROVE  \/ LastList(events', ui'.thread, Asking')
                      \/ NoList(events', ui'.thread) /\ ui'.shown = Asking'
    BY <1>7 DEF ListFits
  <2>1. CASE LastList(events, ui.thread, Asking)
    BY <1>1, <1>5, <1>6, <1>7, <2>1
  <2>2. CASE NoList(events, ui.thread) /\ ui.shown = Asking
    BY <1>1, <1>4, <1>6, <1>7, <2>2
  <2> QED BY <2>1, <2>2 DEF IInv, Rest, ListFits
<1>9. ResolvingFits'
  BY <1>1, <1>4, <1>6, <1>7 DEF IInv, Rest, ResolvingFits
<1>10. AnswersFit'
  BY <1>1, <1>7, AnswersStay DEF IInv, Rest
<1>11. TurnFits' /\ WriteFits' /\ StrayFits'
  BY <1>1, <1>6, <1>7 DEF IInv, Rest, TurnFits, WriteFits, StrayFits
<1>12. Typed'
  BY <1>1, <1>2, <1>6 DEF IInv, Typed
<1> QED BY <1>8, <1>9, <1>10, <1>11, <1>12 DEF IInv, Rest

\* The user selects a thread.
LEMMA SelectingPreserves ==
  ASSUME PendingInteractionsAssumption, IInv, NEW t \in Threads, selectThread(t)
  PROVE  IInv'
<1>1. /\ ui' = NewConversation(t) /\ update' = [update EXCEPT !.watch = t] /\ update \in Updates
      /\ UNCHANGED <<opened, conn, asked, open, inbox, pending, watched, driving, work, events,
                     reached>>
  BY DEF selectThread, Sends, appserver, worker, IInv, Typed
<1>2. /\ update' \in Updates /\ update'.watch = t /\ update'.controls = update.controls
      /\ update'.turn = update.turn /\ t # None
  BY <1>1 DEF Updates, PendingInteractionsAssumption
<1>3. ui' \in Shows /\ ui'.thread = t /\ ui'.resolving = {}
  BY <1>1 DEF NewConversation, Shows, WriteStates, TurnStates
<1>4. Given' = Given /\ Selecting' /\ Target' = t
  BY <1>1, <1>2 DEF Given, Selecting, Target
<1>5. Typed'
  BY <1>1, <1>2, <1>3 DEF IInv, Typed
<1>6. AnswersFit'
  BY <1>1, <1>4, AnswersStay DEF IInv, Rest
<1>7. TurnFits' /\ WriteFits' /\ StrayFits'
  BY <1>1, <1>2, <1>3, <1>4 DEF IInv, Rest, TurnFits, WriteFits, StrayFits
<1> QED BY <1>3, <1>4, <1>5, <1>6, <1>7 DEF IInv, Rest, ListFits, ResolvingFits

\* The user asks for the writer, gives it up or begins a turn.
LEMMA WritingPreserves ==
  ASSUME IInv, acquireWriteAccess \/ releaseWriteAccess \/ startTurn
  PROVE  IInv'
<1>1. /\ UNCHANGED <<opened, conn, asked, open, inbox, pending, watched, driving, work, events,
                     reached>>
      /\ update \in Updates /\ ui \in Shows /\ ui.thread \in Threads
  BY DEF acquireWriteAccess, releaseWriteAccess, startTurn, Sends, appserver, worker, IInv,
         Typed, Shows
<1>2. /\ update' \in Updates /\ update'.watch = update.watch
      /\ update'.controls = update.controls
      /\ update'.turn = update.turn \/ update'.turn = ui.thread
      /\ update'.write = update.write \/ update'.write.thread = ui.thread
      /\ ui' \in Shows /\ ui'.thread = ui.thread /\ ui'.shown = ui.shown
      /\ ui'.resolving = ui.resolving
  <2>1. CASE acquireWriteAccess
    BY <1>1, <2>1 DEF acquireWriteAccess, Sends, Updates, Shows, WriteStates
  <2>2. CASE releaseWriteAccess
    BY <1>1, <2>2 DEF releaseWriteAccess, Sends, Updates, Shows, WriteStates
  <2>3. CASE startTurn
    BY <1>1, <2>3 DEF startTurn, Sends, Updates, Shows, TurnStates
  <2> QED BY <2>1, <2>2, <2>3
<1>3. Given' = Given /\ (Selecting' <=> Selecting) /\ Target' = Target /\ Asking' = Asking
  BY <1>1, <1>2 DEF Given, Selecting, Target, Asking
<1>4. Typed'
  BY <1>1, <1>2 DEF IInv, Typed
<1>5. AnswersFit'
  BY <1>1, <1>3, AnswersStay DEF IInv, Rest
<1>6. TurnFits'
  BY <1>1, <1>2 DEF IInv, Rest, TurnFits
<1>7. ListFits' /\ ResolvingFits' /\ WriteFits' /\ StrayFits'
  BY <1>1, <1>2, <1>3 DEF IInv, Rest, ListFits, ResolvingFits, WriteFits, StrayFits
<1> QED BY <1>4, <1>5, <1>6, <1>7 DEF IInv, Rest

\* The user answers a question.
LEMMA AnswerPreserves ==
  ASSUME IInv, NEW card \in Asked, sendInteractionResponse(card)
  PROVE  IInv'
<1> DEFINE answer == [id |-> card.id, meant |-> card.conn, replaced |-> conn \notin {0, card.conn}]
<1>1. /\ UNCHANGED <<opened, conn, asked, open, inbox, pending, watched, driving, work, events,
                     reached>>
      /\ update \in Updates /\ ui \in Shows /\ card \in ui.shown
      /\ ui' = [ui EXCEPT !.resolving = @ \cup {card.id}]
      /\ update' = [update EXCEPT !.controls = Append(@, answer)]
  BY DEF sendInteractionResponse, Sends, appserver, worker, IInv, Typed
<1>2. card.id \in Ids /\ card.conn \in 1 .. MaxConnections
  BY DEF Asked
<1>3. answer \in Answers /\ answer.id = card.id /\ answer.meant = card.conn
      /\ (answer.replaced \/ card.conn = conn \/ conn = 0)
  BY <1>2 DEF Answers
<1> HIDE DEF answer
<1>4. update.controls \in Seq(Answers)
  BY <1>1 DEF Updates
<1>5. /\ Append(update.controls, answer) \in Seq(Answers)
      /\ Len(Append(update.controls, answer)) = Len(update.controls) + 1
      /\ \A i \in 1 .. Len(update.controls) :
           Append(update.controls, answer)[i] = update.controls[i]
      /\ Append(update.controls, answer)[Len(update.controls) + 1] = answer
  BY <1>3, <1>4, AppendProperties
<1>6. /\ update' \in Updates /\ update'.watch = update.watch /\ update'.turn = update.turn
      /\ update'.write = update.write
      /\ update'.controls = Append(update.controls, answer)
  BY <1>1, <1>5 DEF Updates
<1>7. /\ ui' \in Shows /\ ui'.thread = ui.thread /\ ui'.shown = ui.shown
      /\ ui'.resolving = ui.resolving \cup {card.id}
  BY <1>1, <1>2 DEF Shows
<1>8. Given' = Given \cup {answer}
  <2>1. Len(update.controls) \in Nat /\ DOMAIN update.controls = 1 .. Len(update.controls)
        /\ DOMAIN update'.controls = 1 .. Len(update.controls) + 1
    BY <1>4, <1>5, <1>6, LenProperties
  <2>2. /\ \A i \in 1 .. Len(update.controls) : i \in 1 .. Len(update.controls) + 1
        /\ \A i \in 1 .. Len(update.controls) + 1 :
             i \in 1 .. Len(update.controls) \/ i = Len(update.controls) + 1
        /\ Len(update.controls) + 1 \in 1 .. Len(update.controls) + 1
    BY <2>1
  <2>3. {update'.controls[i] : i \in DOMAIN update'.controls}
          = {update.controls[i] : i \in DOMAIN update.controls} \cup {answer}
    BY <1>5, <1>6, <2>1, <2>2
  <2> QED BY <1>1, <2>3 DEF Given
<1>9. (Selecting' <=> Selecting) /\ Target' = Target /\ Asking' = Asking
  BY <1>1, <1>6 DEF Selecting, Target, Asking
<1>10. Typed'
  BY <1>1, <1>6, <1>7 DEF IInv, Typed
<1>11. ListFits' /\ TurnFits' /\ WriteFits' /\ StrayFits'
  BY <1>1, <1>6, <1>7, <1>9 DEF IInv, Rest, ListFits, TurnFits, WriteFits, StrayFits
<1>12. ResolvingFits'
  BY <1>1, <1>3, <1>7, <1>8, <1>9 DEF IInv, Rest, ResolvingFits
<1>13. AnswersFit'
  <2>1. conn = 0 => pending = {}
    BY DEF IInv, Typed
  <2> QED BY <1>1, <1>3, <1>8, <2>1 DEF IInv, Rest, AnswersFit, AnswersReachTheirQuestions
<1> QED BY <1>10, <1>11, <1>12, <1>13 DEF IInv, Rest

-----------------------------------------------------------------------------
\* The invariant holds at first.
LEMMA CardsStart ==
  ASSUME PendingInteractionsAssumption
  PROVE  Init => IInv
<1> SUFFICES ASSUME Init PROVE IInv
  OBVIOUS
<1>1. NoUpdate \in Updates /\ NoUpdate.watch = None /\ NoUpdate.write = None
      /\ NoUpdate.turn = None /\ NoUpdate.controls = <<>> /\ DOMAIN NoUpdate.controls = {}
  BY NothingTaken
<1>2. <<>> \in Seq(Said) /\ <<>> \in Seq(Told) /\ DOMAIN <<>> = {}
  BY EmptySeq
<1>3. ui \in Shows /\ ui.thread = watched /\ ui.shown = {} /\ ui.resolving = {}
  BY DEF Init, NewConversation, Shows, WriteStates, TurnStates
<1>4. Typed
  <2>1. opened \in 0 .. MaxConnections /\ conn \in {0, opened} /\ asked \in 0 .. MaxAsks
        /\ open \subseteq 1 .. asked /\ pending = {} /\ watched \in Threads
    BY DEF Init, PendingInteractionsAssumption
  <2>2. inbox = <<>> /\ events = <<>> /\ update = NoUpdate /\ work = NoUpdate /\ driving = FALSE
    BY DEF Init
  <2> QED BY <1>1, <1>2, <1>3, <2>1, <2>2 DEF Typed
<1>5. Given = {} /\ Asking = {} /\ ~Selecting /\ Target = watched /\ NoList(events, ui.thread)
  BY <1>1, <1>2 DEF Init, Given, Asking, Selecting, Target, NoList
<1> QED BY <1>1, <1>3, <1>4, <1>5 DEF Init, IInv, Rest, ListFits, ResolvingFits, TurnFits, WriteFits,
                                      StrayFits, AnswersFit, AnswersReachTheirQuestions

\* Every step keeps the invariant.
LEMMA CardsStep ==
  ASSUME PendingInteractionsAssumption
  PROVE  IInv /\ [Next]_vars => IInv'
<1> SUFFICES ASSUME IInv, [Next]_vars PROVE IInv'
  OBVIOUS
<1>1. CASE Worker
  BY <1>1, TakingPreserves, SelectPreserves, AcquirePreserves, ReleasePreserves,
     TurnPreserves, ResolvePreserves, MessagePreserves
     DEF Worker
<1>2. CASE User
  BY <1>2, SelectingPreserves, WritingPreserves, AnswerPreserves DEF User
<1>3. CASE UNCHANGED vars
  <2>1. Typed'
    BY <1>3 DEF vars, appserver, worker, IInv, Typed
  <2>2. Rest'
    BY <1>3, RestStays DEF vars, appserver, worker, IInv
  <2> QED BY <2>1, <2>2 DEF IInv
<1> QED BY <1>1, <1>2, <1>3, ServerPreserves, EventPreserves DEF Next

\* What is promised follows from the invariant.
LEMMA CardsFollow == IInv => AnswersReachTheirQuestions /\ CardsArePending
<1> SUFFICES ASSUME IInv, Quiet PROVE CardsArePending
  BY DEF IInv, Rest, AnswersFit, CardsArePending
<1>1. update = NoUpdate /\ work = NoUpdate /\ events = <<>>
  BY DEF Quiet, Empty
<1>2. ~Selecting /\ NoList(events, ui.thread)
      /\ ~LastList(events, ui.thread, Asking)
  <2>1. DOMAIN <<>> = {}
    OBVIOUS
  <2> QED BY <1>1, <2>1, NothingTaken DEF Selecting, NoList, LastList
<1>3. Given = {}
  BY <1>1, NothingTaken, GivenIsControls
<1> QED BY <1>2, <1>3 DEF IInv, Rest, ListFits, ResolvingFits, CardsArePending, Asking

\* An answer reaches the question of its card or none, whatever is lost, released,
\* selected or begun on its way, unless another writer had replaced the card's as
\* it was given; and once all is quiet the cards are the questions pending on the
\* writer (respondToInteraction, resolve_interaction_async, reconcileInteractions).
THEOREM AnswersAndCards ==
  ASSUME PendingInteractionsAssumption
  PROVE  Spec => [](AnswersReachTheirQuestions /\ CardsArePending)
<1>1. Spec => []IInv
  BY CardsStart, CardsStep, PTL DEF Spec
<1> QED BY <1>1, CardsFollow, PTL
=============================================================================
