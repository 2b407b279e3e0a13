------------------------- MODULE HistorySession_proofs -------------------------
(***************************************************************************)
(* Proofs about HistorySession: a poll that succeeds leaves the session,    *)
(* and the caller, with the polled thread as it is persisted at that        *)
(* moment, whichever requests it was pieced together from.                  *)
(*                                                                          *)
(* The turns of a thread grow in their ids, and only the last of them is    *)
(* revised, so two states of a thread that share a turn are equal before    *)
(* it (Agree).  IInv says that the remembered snapshot agrees so with what  *)
(* is persisted, and that the pages read so far are, as long as the cursor  *)
(* is valid, the persisted turns just before it (PagesFit).                 *)
(***************************************************************************)
EXTENDS HistorySession, SequenceTheorems, TLAPS

Assumptions == PageAssumption /\ BoundsAssumption /\ NoneAssumption

\* A thread as it may be persisted: the ids of its turns grow.
Growing(turns) == \A i, j \in DOMAIN turns : i < j => turns[i].id < turns[j].id
UpTo(turns, bound) == \A i \in DOMAIN turns : turns[i].id <= bound
\* Two states of a thread agree before every turn that both have.
Agree(one, other) ==
    \A i \in DOMAIN one, j \in DOMAIN other :
        one[i].id = other[j].id => i = j /\ \A k \in 1 .. i - 1 : one[k] = other[k]
\* A state of a thread follows on another.
Follows(turns, next, bound) ==
    /\ next \in Seq(Turn) /\ Growing(next)
    /\ \A j \in DOMAIN next :
          \/ next[j].id > bound
          \/ /\ j \in DOMAIN turns /\ next[j].id = turns[j].id
             /\ \A k \in 1 .. j - 1 : next[k] = turns[k]
\* Turns read are a thread's from a place on.
Ending(read, turns, place) ==
    /\ place \in 1 .. Len(turns) /\ Len(read) = Len(turns) - place + 1
    /\ \A k \in DOMAIN read : read[k] = turns[place + k - 1]

Threaded ==
    \A thread \in Threads : Growing(persisted[thread]) /\ UpTo(persisted[thread], begun)
Remembered ==
    previous # None => UpTo(previous.turns, begun)
                       /\ Agree(previous.turns, persisted[previous.thread])
OnTheThread ==
    /\ op.step # "idle" => op.thread \in Threads /\ persisted[op.thread] \in witnessed
    /\ op.step = "idle" => op = Idle
    /\ op.active \/ op.step \in {"latest", "pages"} =>
          op.active /\ (previous # None => previous.thread = op.thread)
CursorsFit ==
    /\ cursor # None => cursor <= begun
    /\ op.from # None => op.from <= begun
    /\ op.step = "pages" => op.from # None
PagesFit ==
    op.step = "pages" =>
        \A j \in DOMAIN persisted[op.thread] : persisted[op.thread][j].id = op.from =>
            /\ Len(op.read) < j
            /\ \A k \in DOMAIN op.read :
                  op.read[k] = persisted[op.thread][j - Len(op.read) + k - 1]
IInv ==
    /\ TypeOK /\ Threaded /\ Remembered /\ OnTheThread /\ CursorsFit /\ PagesFit
    /\ ViewIsLastSnapshot /\ PollIsFresh

---------------------------------------------------------------------------
(* Threads and their turns                                                  *)

\* A turn of a thread.
LEMMA TurnFacts ==
    ASSUME BoundsAssumption, NEW turns \in Seq(Turn)
    PROVE  /\ Len(turns) \in Nat /\ DOMAIN turns = 1 .. Len(turns)
           /\ \A i \in DOMAIN turns :
                 /\ turns[i] \in Turn /\ turns[i].id \in Ids /\ turns[i].id \in Nat
                 /\ turns[i].revision \in 0 .. MaxRevision
<1> SUFFICES ASSUME NEW i \in 1 .. Len(turns)
             PROVE  turns[i] \in Turn /\ turns[i].id \in Ids /\ turns[i].id \in Nat
                    /\ turns[i].revision \in 0 .. MaxRevision
  OBVIOUS
<1>1. turns[i] \in Turn
  BY ElementOfSeq
<1> QED BY <1>1 DEF Turn, Ids, BoundsAssumption

\* A turn is at one place of a thread.
LEMMA OnePlace ==
    ASSUME BoundsAssumption, NEW turns \in Seq(Turn), Growing(turns),
           NEW i \in DOMAIN turns, NEW j \in DOMAIN turns, turns[i].id = turns[j].id
    PROVE  i = j
<1>1. i \in Nat /\ j \in Nat /\ turns[i].id \in Nat /\ turns[j].id \in Nat
  BY TurnFacts
<1> QED BY <1>1 DEF Growing

\* A thread agrees with itself,
LEMMA AgreesWithItself ==
    ASSUME BoundsAssumption, NEW turns \in Seq(Turn), Growing(turns)
    PROVE  Agree(turns, turns)
BY OnePlace DEF Agree

\* and what agrees with it agrees with what follows on it.
LEMMA AgreesWithTheNext ==
    ASSUME BoundsAssumption, NEW known \in Seq(Turn), NEW turns \in Seq(Turn), NEW next,
           NEW bound \in Nat, UpTo(known, bound), Agree(known, turns),
           Follows(turns, next, bound)
    PROVE  Agree(known, next)
<1> SUFFICES ASSUME NEW i \in DOMAIN known, NEW j \in DOMAIN next, known[i].id = next[j].id
             PROVE  i = j /\ \A k \in 1 .. i - 1 : known[k] = next[k]
  BY DEF Agree
<1>1. known[i].id <= bound /\ known[i].id \in Nat
  BY TurnFacts DEF UpTo
<1>2. j \in DOMAIN turns /\ next[j].id = turns[j].id /\ \A k \in 1 .. j - 1 : next[k] = turns[k]
  BY <1>1 DEF Follows
<1>3. i = j /\ \A k \in 1 .. i - 1 : known[k] = turns[k]
  BY <1>2 DEF Agree
<1> QED BY <1>2, <1>3

\* What other processes do to a thread: a turn begins,
LEMMA BeginningFollows ==
    ASSUME BoundsAssumption, NEW turns \in Seq(Turn), Growing(turns),
           NEW bound \in 0 .. MaxTurns, UpTo(turns, bound), bound < MaxTurns
    PROVE  LET next == Append(turns, [id |-> bound + 1, revision |-> 0])
           IN  Follows(turns, next, bound) /\ UpTo(next, bound + 1)
<1> DEFINE turn == [id |-> bound + 1, revision |-> 0]
           next == Append(turns, turn)
<1>1. turn \in Turn /\ turn.id = bound + 1 /\ bound \in Nat
  BY DEF Turn, Ids, BoundsAssumption
<1> HIDE DEF turn
<1>2. /\ next \in Seq(Turn) /\ Len(next) = Len(turns) + 1 /\ next[Len(turns) + 1] = turn
      /\ \A i \in 1 .. Len(turns) : next[i] = turns[i]
  BY <1>1, AppendProperties
<1> HIDE DEF next
<1>3. /\ Len(turns) \in Nat /\ DOMAIN turns = 1 .. Len(turns)
      /\ DOMAIN next = 1 .. Len(turns) + 1
      /\ \A i \in 1 .. Len(turns) : turns[i].id \in Nat /\ turns[i].id <= bound
  BY <1>2, TurnFacts DEF UpTo
<1>4. Growing(next)
  <2> SUFFICES ASSUME NEW i \in DOMAIN next, NEW j \in DOMAIN next, i < j
               PROVE  next[i].id < next[j].id
    BY DEF Growing
  <2>1. CASE j = Len(turns) + 1
    BY <2>1, <1>1, <1>2, <1>3
  <2>2. CASE j # Len(turns) + 1
    BY <2>2, <1>2, <1>3 DEF Growing
  <2> QED BY <2>1, <2>2
<1>5. UpTo(next, bound + 1)
  BY <1>1, <1>2, <1>3 DEF UpTo
<1>6. \A j \in DOMAIN next :
         \/ next[j].id > bound
         \/ /\ j \in DOMAIN turns /\ next[j].id = turns[j].id
            /\ \A k \in 1 .. j - 1 : next[k] = turns[k]
  BY <1>1, <1>2, <1>3
<1> QED BY <1>2, <1>4, <1>5, <1>6 DEF Follows, next, turn

\* the last turn is revised,
LEMMA RevisionFollows ==
    ASSUME BoundsAssumption, NEW turns \in Seq(Turn), Growing(turns),
           NEW bound \in Nat, UpTo(turns, bound),
           turns # <<>>, turns[Len(turns)].revision < MaxRevision
    PROVE  LET next == [turns EXCEPT ![Len(turns)].revision = @ + 1]
           IN  Follows(turns, next, bound) /\ UpTo(next, bound)
<1> DEFINE next == [turns EXCEPT ![Len(turns)].revision = @ + 1]
           place == Len(turns)
<1>1. place \in 1 .. Len(turns) /\ Len(turns) \in Nat /\ DOMAIN turns = 1 .. Len(turns)
  BY TurnFacts, EmptySeq
<1>2. turns[place] \in Turn /\ turns[place].revision + 1 \in 0 .. MaxRevision
  BY <1>1, TurnFacts DEF BoundsAssumption
<1>3. /\ DOMAIN next = 1 .. Len(turns)
      /\ next[place] = [turns[place] EXCEPT !.revision = @ + 1]
      /\ \A i \in 1 .. Len(turns) : i # place => next[i] = turns[i]
  BY <1>1
<1>4. next[place] \in Turn /\ next[place].id = turns[place].id
  BY <1>2, <1>3 DEF Turn
<1>5. next \in Seq(Turn)
  <2>1. next \in [1 .. Len(turns) -> Turn]
    BY <1>1, <1>3, <1>4, TurnFacts
  <2> QED BY <1>1, <2>1, IsASeq
<1> HIDE DEF next, place
<1>6. \A i \in 1 .. Len(turns) : next[i].id = turns[i].id
  BY <1>3, <1>4
<1>7. Growing(next) /\ UpTo(next, bound)
  BY <1>1, <1>3, <1>6 DEF Growing, UpTo
<1>8. \A j \in DOMAIN next :
         /\ j \in DOMAIN turns /\ next[j].id = turns[j].id
         /\ \A k \in 1 .. j - 1 : next[k] = turns[k]
  BY <1>1, <1>3, <1>6 DEF place
<1> QED BY <1>5, <1>7, <1>8 DEF Follows, next, place

\* the last turn is rolled back.
LEMMA RollbackFollows ==
    ASSUME BoundsAssumption, NEW turns \in Seq(Turn), Growing(turns),
           NEW bound \in Nat, UpTo(turns, bound), turns # <<>>
    PROVE  Follows(turns, Front(turns), bound) /\ UpTo(Front(turns), bound)
<1> DEFINE next == Front(turns)
<1>1. Len(turns) \in Nat /\ Len(turns) > 0 /\ DOMAIN turns = 1 .. Len(turns)
  BY TurnFacts, EmptySeq
<1>2. /\ next \in Seq(Turn) /\ Len(next) = Len(turns) - 1
      /\ \A i \in 1 .. Len(turns) - 1 : next[i] = turns[i]
  BY <1>1, SubSeqProperties DEF Front
<1>3. DOMAIN next = 1 .. Len(turns) - 1
  BY <1>1, <1>2
<1> HIDE DEF next
<1>4. Growing(next) /\ UpTo(next, bound)
  BY <1>1, <1>2, <1>3 DEF Growing, UpTo
<1>5. \A j \in DOMAIN next :
         /\ j \in DOMAIN turns /\ next[j].id = turns[j].id
         /\ \A k \in 1 .. j - 1 : next[k] = turns[k]
  BY <1>1, <1>2, <1>3
<1> QED BY <1>2, <1>4, <1>5 DEF Follows, next

---------------------------------------------------------------------------
(* Reading                                                                  *)

\* A valid cursor: what it reads from.
LEMMA ValidCursor ==
    ASSUME BoundsAssumption, NEW turns \in Seq(Turn), Growing(turns),
           NEW j \in DOMAIN turns
    PROVE  LET rest == From(turns, turns[j].id)
           IN  /\ rest \in Seq(Turn) /\ Len(rest) = Len(turns) - j + 1
               /\ \A i \in 1 .. Len(rest) : rest[i] = turns[j + i - 1]
<1> DEFINE start == {i \in DOMAIN turns : turns[i].id = turns[j].id}
<1>1. start = {j}
  BY OnePlace
<1>2. From(turns, turns[j].id) = SubSeq(turns, j, Len(turns))
  BY <1>1 DEF From
<1>3. Len(turns) \in Nat /\ j \in 1 .. Len(turns)
  BY TurnFacts
<1> QED BY <1>2, <1>3, SubSeqProperties

\* A cursor that reads something is valid.
LEMMA CursorHasPlace ==
    ASSUME NEW turns, NEW id, From(turns, id) # <<>>
    PROVE  \E j \in DOMAIN turns : turns[j].id = id
BY DEF From

\* A page read after others.
LEMMA PageRead ==
    ASSUME BoundsAssumption, PageAssumption, NEW turns \in Seq(Turn), Growing(turns),
           NEW j \in DOMAIN turns, NEW read \in Seq(Turn), Len(read) < j,
           \A k \in DOMAIN read : read[k] = turns[j - Len(read) + k - 1]
    PROVE  LET id == turns[j].id
               size == IF Len(turns) - j + 1 < PageSize THEN Len(turns) - j + 1 ELSE PageSize
               all == read \o Page(turns, id)
           IN  /\ all \in Seq(Turn) /\ Len(all) = Len(read) + size
               /\ \A k \in DOMAIN all : all[k] = turns[j - Len(read) + k - 1]
<1> DEFINE id == turns[j].id
           rest == From(turns, id)
           size == IF Len(turns) - j + 1 < PageSize THEN Len(turns) - j + 1 ELSE PageSize
           page == Page(turns, id)
           all == read \o page
<1>1. /\ rest \in Seq(Turn) /\ Len(rest) = Len(turns) - j + 1
      /\ \A i \in 1 .. Len(rest) : rest[i] = turns[j + i - 1]
  BY ValidCursor
<1>2. Len(turns) \in Nat /\ j \in 1 .. Len(turns) /\ PageSize \in Nat \ {0} /\ Len(read) \in Nat
      /\ DOMAIN read = 1 .. Len(read)
  BY TurnFacts DEF PageAssumption
<1>3. page = SubSeq(rest, 1, size) /\ size \in 1 .. Len(rest)
  <2>1. size = IF Len(rest) < PageSize THEN Len(rest) ELSE PageSize
    BY <1>1
  <2>2. page = SubSeq(rest, 1, IF Len(rest) < PageSize THEN Len(rest) ELSE PageSize)
    BY DEF Page
  <2>3. Len(rest) \in Nat /\ Len(rest) >= 1
    BY <1>1, <1>2
  <2> HIDE DEF rest, page, size
  <2> QED BY <1>2, <2>1, <2>2, <2>3
<1> HIDE DEF size, page, rest
<1>4. /\ page \in Seq(Turn) /\ Len(page) = size
      /\ \A i \in 1 .. size : page[i] = rest[i]
  BY <1>1, <1>3, SubSeqProperties
<1>5. /\ all \in Seq(Turn) /\ Len(all) = Len(read) + size
      /\ \A k \in 1 .. Len(all) :
            all[k] = IF k <= Len(read) THEN read[k] ELSE page[k - Len(read)]
  <2>1. size \in Nat /\ Len(rest) \in Nat
    BY <1>1, <1>2, <1>3
  <2>2. /\ read \o page \in Seq(Turn) /\ Len(read \o page) = Len(read) + Len(page)
        /\ \A k \in 1 .. Len(read) + Len(page) :
              (read \o page)[k] = IF k <= Len(read) THEN read[k] ELSE page[k - Len(read)]
    BY <1>4, ConcatProperties
  <2> QED BY <2>1, <2>2, <1>4
<1> HIDE DEF all, id
<1>6. \A k \in DOMAIN all : all[k] = turns[j - Len(read) + k - 1]
  <2> SUFFICES ASSUME NEW k \in 1 .. Len(all) PROVE all[k] = turns[j - Len(read) + k - 1]
    BY <1>5
  <2>1. CASE k <= Len(read)
    <3>1. k \in DOMAIN read /\ all[k] = read[k]
      BY <2>1, <1>2, <1>5
    <3> QED BY <3>1
  <2>2. CASE k > Len(read)
    <3>1. k - Len(read) \in 1 .. size /\ k - Len(read) \in 1 .. Len(rest)
      BY <2>2, <1>1, <1>2, <1>3, <1>5
    <3>2. all[k] = turns[j + (k - Len(read)) - 1]
      BY <2>2, <3>1, <1>1, <1>2, <1>4, <1>5
    <3>3. j + (k - Len(read)) - 1 = j - Len(read) + k - 1
      BY <1>2, <3>1
    <3> QED BY <3>2, <3>3
  <2> QED BY <2>1, <2>2, <1>2, <1>3, <1>5
<1> QED BY <1>5, <1>6 DEF all, page, size, id

\* Turns read that continue a snapshot make the thread of it.
LEMMA ContinuationIsTheThread ==
    ASSUME BoundsAssumption, NEW known \in Seq(Turn), NEW turns \in Seq(Turn),
           NEW read \in Seq(Turn), NEW place, Ending(read, turns, place),
           Agree(known, turns), known # <<>>, read # <<>>,
           read[1].id = known[Len(known)].id
    PROVE  Front(known) \o read = turns
<1>1. /\ Len(known) \in Nat /\ Len(known) > 0 /\ Len(turns) \in Nat /\ Len(read) \in Nat
      /\ place \in 1 .. Len(turns) /\ Len(read) = Len(turns) - place + 1
      /\ DOMAIN known = 1 .. Len(known) /\ DOMAIN turns = 1 .. Len(turns)
      /\ DOMAIN read = 1 .. Len(read)
  BY TurnFacts, EmptySeq DEF Ending
<1>2. 1 \in DOMAIN read /\ read[1] = turns[place]
  BY <1>1 DEF Ending
<1>3. place = Len(known) /\ \A k \in 1 .. Len(known) - 1 : known[k] = turns[k]
  <2>1. Len(known) \in DOMAIN known /\ known[Len(known)].id = turns[place].id
    BY <1>1, <1>2
  <2> QED BY <2>1, <1>1 DEF Agree
<1>4. /\ Front(known) \in Seq(Turn) /\ Len(Front(known)) = place - 1
      /\ \A i \in 1 .. place - 1 : Front(known)[i] = known[i]
  BY <1>1, <1>3, SubSeqProperties DEF Front
<1> DEFINE all == Front(known) \o read
<1>5. /\ all \in Seq(Turn) /\ Len(all) = Len(turns)
      /\ \A k \in 1 .. Len(all) :
            all[k] = IF k <= place - 1 THEN Front(known)[k] ELSE read[k - (place - 1)]
  <2>1. place - 1 + Len(read) = Len(turns)
    BY <1>1
  <2> QED BY <2>1, <1>4, ConcatProperties
<1> HIDE DEF all
<1>6. \A k \in 1 .. Len(all) : all[k] = turns[k]
  <2> SUFFICES ASSUME NEW k \in 1 .. Len(all) PROVE all[k] = turns[k]
    OBVIOUS
  <2>1. CASE k <= place - 1
    BY <2>1, <1>1, <1>3, <1>4, <1>5
  <2>2. CASE k > place - 1
    <3>1. k - (place - 1) \in 1 .. Len(read) /\ place + (k - (place - 1)) - 1 = k
      BY <2>2, <1>1, <1>5
    <3>2. all[k] = read[k - (place - 1)]
      BY <2>2, <1>1, <1>5
    <3> QED BY <3>1, <3>2, <1>1 DEF Ending
  <2> QED BY <2>1, <2>2, <1>1, <1>5
<1> QED BY <1>5, <1>6, SeqEqual DEF all

---------------------------------------------------------------------------
(* Steps                                                                    *)

\* Another process changes a thread.
LEMMA PersistStep ==
    ASSUME Assumptions, IInv, NEW thread \in Threads, NEW turns, Persist(thread, turns),
           Follows(persisted[thread], turns, begun), UpTo(turns, begun'),
           begun' \in 0 .. MaxTurns, begun <= begun'
    PROVE  IInv'
<1>1. TypeOK /\ Threaded /\ begun \in Nat /\ begun' \in Nat
  BY DEF IInv, TypeOK, Assumptions, BoundsAssumption
<1>2. /\ persisted' = [persisted EXCEPT ![thread] = turns]
      /\ UNCHANGED <<previous, cursor, unsupported, cancelled, op, failures, last, view>>
      /\ witnessed' = IF op.thread = thread THEN witnessed \cup {turns} ELSE witnessed
      /\ turns \in Seq(Turn) /\ Growing(turns)
  BY DEF Persist, tracker, Follows
<1>3. /\ persisted' \in [Threads -> Seq(Turn)] /\ persisted'[thread] = turns
      /\ \A other \in Threads : other # thread => persisted'[other] = persisted[other]
  BY <1>1, <1>2 DEF TypeOK
<1>4. TypeOK'
  BY <1>1, <1>2, <1>3 DEF TypeOK
<1>5. Threaded'
  <2> SUFFICES ASSUME NEW other \in Threads
               PROVE  Growing(persisted'[other]) /\ UpTo(persisted'[other], begun')
    BY DEF Threaded, Growing, UpTo
  <2>1. CASE other = thread
    BY <2>1, <1>2, <1>3
  <2>2. CASE other # thread
    <3>1. Growing(persisted[other]) /\ UpTo(persisted[other], begun)
      BY <1>1 DEF Threaded
    <3>2. \A i \in DOMAIN persisted[other] : persisted[other][i].id \in Nat
      BY <1>1, TurnFacts DEF TypeOK, Assumptions
    <3> QED BY <3>1, <3>2, <2>2, <1>1, <1>3 DEF UpTo
  <2> QED BY <2>1, <2>2
<1>6. Remembered'
  <2> SUFFICES ASSUME previous # None
               PROVE  /\ UpTo(previous.turns, begun')
                      /\ Agree(previous.turns, persisted'[previous.thread])
    BY <1>2 DEF Remembered, Agree, UpTo
  <2>1. /\ previous.thread \in Threads /\ previous.turns \in Seq(Turn)
        /\ UpTo(previous.turns, begun) /\ Agree(previous.turns, persisted[previous.thread])
    BY <1>1 DEF TypeOK, Snapshot, IInv, Remembered
  <2>2. \A i \in DOMAIN previous.turns : previous.turns[i].id \in Nat
    BY <2>1, TurnFacts DEF Assumptions
  <2>3. UpTo(previous.turns, begun')
    BY <2>1, <2>2, <1>1 DEF UpTo
  <2>4. CASE previous.thread = thread
    <3>1. persisted[thread] \in Seq(Turn)
      BY <1>1 DEF TypeOK
    <3> QED BY <3>1, <2>1, <2>3, <2>4, <1>1, <1>3, AgreesWithTheNext DEF Assumptions
  <2>5. CASE previous.thread # thread
    BY <2>1, <2>3, <2>5, <1>3
  <2> QED BY <2>4, <2>5
<1>7. OnTheThread'
  BY <1>1, <1>2, <1>3 DEF OnTheThread, IInv
<1>8. CursorsFit'
  <2>1. (cursor # None => cursor \in Nat) /\ (op.from # None => op.from \in Nat)
    BY <1>1 DEF TypeOK, Ids
  <2> QED BY <2>1, <1>1, <1>2 DEF CursorsFit, IInv
<1>9. PagesFit'
  <2> SUFFICES ASSUME op.step = "pages", NEW j \in DOMAIN persisted'[op.thread],
                      persisted'[op.thread][j].id = op.from
               PROVE  /\ Len(op.read) < j
                      /\ \A k \in DOMAIN op.read :
                            op.read[k] = persisted'[op.thread][j - Len(op.read) + k - 1]
    BY <1>2 DEF PagesFit
  <2>1. op.thread \in Threads /\ op.from \in Ids /\ op.from <= begun /\ op.from \in Nat
        /\ op.read \in Seq(Turn)
    BY <1>1 DEF IInv, OnTheThread, CursorsFit, TypeOK, Ids
  <2>2. CASE op.thread # thread
    BY <2>1, <2>2, <1>3 DEF IInv, PagesFit
  <2>3. CASE op.thread = thread
    <3>1. /\ j \in DOMAIN persisted[thread] /\ turns[j].id = persisted[thread][j].id
          /\ \A k \in 1 .. j - 1 : turns[k] = persisted[thread][k]
      BY <2>1, <2>3, <1>1, <1>3 DEF Follows
    <3>2. /\ Len(op.read) < j
          /\ \A k \in DOMAIN op.read : op.read[k] = persisted[thread][j - Len(op.read) + k - 1]
      BY <3>1, <2>3, <1>3 DEF IInv, PagesFit
    <3>3. \A k \in DOMAIN op.read : j - Len(op.read) + k - 1 \in 1 .. j - 1
      <4>1. j \in Nat /\ Len(op.read) \in Nat /\ DOMAIN op.read = 1 .. Len(op.read)
        BY <2>1, <2>3, <1>2, <1>3
      <4> QED BY <4>1, <3>2
    <3> QED BY <3>1, <3>2, <3>3, <2>3, <1>3
  <2> QED BY <2>2, <2>3
<1>10. ViewIsLastSnapshot' /\ PollIsFresh'
  BY <1>2 DEF IInv, ViewIsLastSnapshot, PollIsFresh
<1> QED BY <1>4, <1>5, <1>6, <1>7, <1>8, <1>9, <1>10 DEF IInv

\* A poll succeeds with the thread as it is.
LEMMA SuccessStep ==
    ASSUME Assumptions, IInv, op.step # "idle",
           record_snapshot([thread |-> op.thread, turns |-> persisted[op.thread]]),
           cursor' \in Ids \cup {None}, cursor' # None => cursor' <= begun,
           Succeed, UNCHANGED <<server, unsupported, witnessed>>
    PROVE  IInv'
<1> DEFINE turns == persisted[op.thread]
<1>1. /\ TypeOK /\ op.thread \in Threads /\ turns \in witnessed /\ turns \in Seq(Turn)
      /\ Growing(turns) /\ UpTo(turns, begun)
  BY DEF IInv, OnTheThread, TypeOK, Threaded
<1>2. /\ previous' = [thread |-> op.thread, turns |-> turns]
      /\ view' = IF previous = previous' THEN view ELSE previous'
      /\ op' = Idle /\ last' = "ok"
      /\ UNCHANGED <<persisted, begun, unsupported, witnessed, cancelled, failures>>
  BY DEF record_snapshot, Succeed, server
<1>3. /\ Idle.step = "idle" /\ Idle.from = None /\ Idle.active = FALSE
      /\ Idle \in [step : {"idle", "read", "latest", "pages", "reconnect"},
                   thread : Threads \cup {None}, active : BOOLEAN, retried : BOOLEAN,
                   read : Seq(Turn), from : Ids \cup {None}]
  BY DEF Idle
<1> HIDE DEF turns
<1>4. previous' \in Snapshot /\ previous'.turns = turns /\ previous'.thread = op.thread
  BY <1>1, <1>2 DEF Snapshot
<1>5. TypeOK'
  BY <1>1, <1>2, <1>3, <1>4 DEF TypeOK
<1>6. Threaded'
  BY <1>2 DEF IInv, Threaded, Growing, UpTo
<1>7. Remembered'
  <2>1. Agree(turns, turns)
    BY <1>1, AgreesWithItself DEF Assumptions
  <2>2. UpTo(previous'.turns, begun') /\ Agree(previous'.turns, persisted'[previous'.thread])
    BY <2>1, <1>1, <1>2, <1>4 DEF turns
  <2> QED BY <2>2 DEF Remembered, UpTo, Agree
<1>8. OnTheThread' /\ CursorsFit' /\ PagesFit'
  BY <1>2, <1>3 DEF OnTheThread, CursorsFit, PagesFit
<1>9. ViewIsLastSnapshot' /\ PollIsFresh'
  BY <1>1, <1>2, <1>4 DEF IInv, ViewIsLastSnapshot, PollIsFresh
<1> QED BY <1>5, <1>6, <1>7, <1>8, <1>9 DEF IInv

\* A poll goes on, or ends otherwise.
LEMMA OtherStep ==
    ASSUME Assumptions, IInv, UNCHANGED <<server, previous, view>>,
           TypeOK', OnTheThread', CursorsFit', PagesFit', PollIsFresh'
    PROVE  IInv'
<1>1. Threaded' /\ Remembered'
  BY DEF IInv, Threaded, Remembered, server, Growing, UpTo, Agree
<1> QED BY <1>1 DEF IInv, ViewIsLastSnapshot

\* It falls back to a complete read, with the cursor or without.
LEMMA FallBackStep ==
    ASSUME Assumptions, IInv, op.step # "idle", FallBack,
           UNCHANGED <<server, previous, view, cancelled, last, witnessed>>,
           cursor' \in {cursor, None}, unsupported' \in BOOLEAN,
           failures' \in 0 .. MaxFailures
    PROVE  IInv'
<1>1. TypeOK /\ OnTheThread /\ CursorsFit
  BY DEF IInv
<1>2. /\ op' = [op EXCEPT !.step = "read", !.active = FALSE, !.retried = FALSE]
      /\ op'.step = "read" /\ op'.active = FALSE /\ op'.thread = op.thread
      /\ op'.from = op.from
  BY <1>1 DEF FallBack, TypeOK
<1>3. TypeOK'
  BY <1>1, <1>2 DEF TypeOK, server
<1>4. OnTheThread' /\ CursorsFit' /\ PagesFit' /\ PollIsFresh'
  <2>1. OnTheThread'
    BY <1>1, <1>2 DEF OnTheThread, server
  <2>2. CursorsFit'
    BY <1>1, <1>2 DEF CursorsFit, server
  <2>3. PagesFit' /\ PollIsFresh'
    BY <1>2 DEF PagesFit, PollIsFresh, Idle
  <2> QED BY <2>1, <2>2, <2>3
<1> QED BY <1>3, <1>4, OtherStep

\* It fails.
LEMMA FailStep ==
    ASSUME Assumptions, IInv, Fail, UNCHANGED <<server, cursor>>,
           failures' \in 0 .. MaxFailures
    PROVE  IInv'
<1>1. TypeOK /\ CursorsFit
  BY DEF IInv
<1>2. /\ op' = Idle /\ last' = "error"
      /\ UNCHANGED <<persisted, begun, previous, cursor, unsupported, cancelled, view, witnessed>>
  BY DEF Fail, server
<1>3. TypeOK'
  BY <1>1, <1>2 DEF TypeOK, Idle
<1>4. OnTheThread' /\ CursorsFit' /\ PagesFit' /\ PollIsFresh'
  BY <1>1, <1>2 DEF OnTheThread, CursorsFit, PagesFit, PollIsFresh, Idle
<1> QED BY <1>2, <1>3, <1>4, OtherStep DEF server

\* What the tracker makes of turns that continue its snapshot.
LEMMA MergedIsTheThread ==
    ASSUME Assumptions, IInv, op.step \in {"latest", "pages"}, NEW read \in Seq(Turn), NEW place,
           Ending(read, persisted[op.thread], place), Continues(read)
    PROVE  Merged(read) = [thread |-> op.thread, turns |-> persisted[op.thread]]
<1>1. /\ op.thread \in Threads /\ persisted[op.thread] \in Seq(Turn)
      /\ previous # None /\ previous \in Snapshot /\ previous.thread = op.thread
      /\ Agree(previous.turns, persisted[op.thread])
      /\ previous.turns # <<>> /\ read # <<>>
      /\ read[1].id = previous.turns[Len(previous.turns)].id
  BY DEF IInv, OnTheThread, TypeOK, Remembered, Continues
<1>2. previous.turns \in Seq(Turn)
  BY <1>1 DEF Snapshot
<1>3. Front(previous.turns) \o read = persisted[op.thread]
  BY <1>1, <1>2, ContinuationIsTheThread DEF Assumptions
<1>4. Merged(read) = [thread |-> previous.thread, turns |-> Front(previous.turns) \o read]
  <2>1. PICK thread \in Threads, turns \in Seq(Turn) :
            previous = [thread |-> thread, turns |-> turns]
    BY <1>1 DEF Snapshot
  <2> DEFINE all == Front(previous.turns) \o read
  <2>2. Merged(read) = [previous EXCEPT !.turns = all]
    BY DEF Merged
  <2> HIDE DEF all
  <2>3. [previous EXCEPT !.turns = all] = [thread |-> thread, turns |-> all]
    BY <2>1
  <2> QED BY <2>1, <2>2, <2>3 DEF all
<1> QED BY <1>1, <1>3, <1>4

\* The latest turn is read,
LEMMA LatestStep ==
    ASSUME Assumptions, IInv, ReadLatestTurn
    PROVE  IInv'
<1> DEFINE turns == persisted[op.thread]
           page == IF turns = <<>> THEN <<>> ELSE <<turns[Len(turns)]>>
<1>1. /\ op.step = "latest" /\ op.thread \in Threads /\ turns \in Seq(Turn)
      /\ TypeOK /\ UpTo(turns, begun) /\ UNCHANGED <<server, unsupported, witnessed>>
  BY DEF ReadLatestTurn, IInv, OnTheThread, TypeOK, Threaded
<1>2. CASE Continues(page)
  <2>1. /\ record_snapshot(Merged(page)) /\ cursor' = page[1].id /\ Succeed
    BY <1>2 DEF ReadLatestTurn
  <2>2. turns # <<>> /\ page = <<turns[Len(turns)]>>
    BY <1>2 DEF Continues
  <2>3. /\ Len(turns) \in DOMAIN turns /\ turns[Len(turns)] \in Turn /\ Len(turns) \in Nat
        /\ turns[Len(turns)].id \in Ids
    BY <2>2, <1>1, TurnFacts, EmptySeq DEF Assumptions
  <2>4. page \in Seq(Turn) /\ Ending(page, turns, Len(turns)) /\ page[1].id = turns[Len(turns)].id
    BY <2>2, <2>3 DEF Ending
  <2> HIDE DEF page, turns
  <2>5. Merged(page) = [thread |-> op.thread, turns |-> turns]
    BY <2>4, <1>1, <1>2, MergedIsTheThread DEF turns
  <2>6. cursor' \in Ids /\ cursor' <= begun
    BY <2>1, <2>3, <2>4, <1>1 DEF UpTo
  <2> QED BY <2>1, <2>5, <2>6, <1>1, SuccessStep DEF turns
<1>3. CASE ~Continues(page)
  <2>1. FallBack /\ UNCHANGED <<previous, cursor, view, last, cancelled, failures>>
    BY <1>3 DEF ReadLatestTurn
  <2> QED BY <2>1, <1>1, FallBackStep DEF TypeOK
<1> QED BY <1>2, <1>3

\* or a page.
LEMMA PageStep ==
    ASSUME Assumptions, IInv, ReadPage
    PROVE  IInv'
<1> DEFINE turns == persisted[op.thread]
           read == op.read \o Page(turns, op.from)
           next == NextCursor(turns, op.from)
<1>1. /\ op.step = "pages" /\ op.thread \in Threads /\ turns \in Seq(Turn)
      /\ Growing(turns) /\ UpTo(turns, begun) /\ op.read \in Seq(Turn)
      /\ TypeOK /\ OnTheThread /\ CursorsFit
      /\ UNCHANGED <<server, unsupported, witnessed>> /\ From(turns, op.from) # <<>>
  BY DEF ReadPage, IInv, OnTheThread, TypeOK, Threaded
<1>2. PICK j \in DOMAIN turns : turns[j].id = op.from
  BY <1>1, CursorHasPlace
<1>3. /\ Len(op.read) < j
      /\ \A k \in DOMAIN op.read : op.read[k] = turns[j - Len(op.read) + k - 1]
  BY <1>1, <1>2 DEF IInv, PagesFit
<1> DEFINE size == IF Len(turns) - j + 1 < PageSize THEN Len(turns) - j + 1 ELSE PageSize
<1>4. /\ read \in Seq(Turn) /\ Len(read) = Len(op.read) + size
      /\ \A k \in DOMAIN read : read[k] = turns[j - Len(op.read) + k - 1]
  <2>1. read = op.read \o Page(turns, turns[j].id)
    BY <1>2
  <2> HIDE DEF turns, read
  <2> QED BY <2>1, <1>1, <1>3, PageRead DEF Assumptions
<1>5. /\ Len(turns) \in Nat /\ j \in 1 .. Len(turns) /\ DOMAIN turns = 1 .. Len(turns)
      /\ PageSize \in Nat \ {0} /\ Len(op.read) \in Nat
      /\ \A i \in DOMAIN turns : turns[i].id \in Ids /\ turns[i].id \in Nat
  BY <1>1, TurnFacts DEF Assumptions, PageAssumption
<1>6. /\ Len(turns) - j + 1 > PageSize =>
            j + PageSize \in DOMAIN turns /\ next = turns[j + PageSize].id
      /\ Len(turns) - j + 1 <= PageSize => next = None
  <2> DEFINE rest == From(turns, op.from)
  <2>1. /\ Len(rest) = Len(turns) - j + 1
        /\ \A i \in 1 .. Len(rest) : rest[i] = turns[j + i - 1]
    BY <1>1, <1>2, ValidCursor DEF Assumptions
  <2>2. next = IF Len(rest) > PageSize THEN rest[PageSize + 1].id ELSE None
    BY DEF NextCursor
  <2> HIDE DEF rest, next, turns
  <2>3. ASSUME Len(rest) > PageSize
        PROVE  j + PageSize \in DOMAIN turns /\ rest[PageSize + 1] = turns[j + PageSize]
    <3>1. PageSize + 1 \in 1 .. Len(rest) /\ j + (PageSize + 1) - 1 = j + PageSize
      BY <2>1, <2>3, <1>5
    <3> QED BY <3>1, <2>1, <1>5
  <2> QED BY <2>1, <2>2, <2>3, <1>5
<1>7. /\ next # None => /\ op' = [op EXCEPT !.read = read, !.from = next]
                        /\ UNCHANGED <<previous, cursor, view, last, cancelled, failures>>
      /\ next = None /\ Continues(read) =>
            /\ record_snapshot(Merged(read)) /\ Succeed
            /\ cursor' = IF Len(read) > 1 THEN None ELSE cursor
      /\ next = None /\ ~Continues(read) =>
            FallBack /\ UNCHANGED <<previous, cursor, view, last, cancelled, failures>>
  BY DEF ReadPage
<1> HIDE DEF turns, read, next
<1>8. CASE next # None
  <2>1. Len(turns) - j + 1 > PageSize /\ j + PageSize \in DOMAIN turns
        /\ next = turns[j + PageSize].id /\ size = PageSize
    BY <1>5, <1>6, <1>8
  <2>2. /\ op' = [op EXCEPT !.read = read, !.from = next] /\ next \in Ids
        /\ UNCHANGED <<persisted, begun, previous, cursor, view, last, cancelled, failures,
                       unsupported, witnessed>>
    BY <2>1, <1>1, <1>5, <1>7, <1>8 DEF server
  <2>3. /\ op'.read = read /\ op'.from = next /\ op'.step = op.step /\ op'.thread = op.thread
        /\ op'.active = op.active
    BY <2>2, <1>1 DEF TypeOK
  <2>4. TypeOK'
    BY <2>2, <1>1, <1>4 DEF TypeOK
  <2>5. OnTheThread'
    BY <2>2, <2>3, <1>1 DEF OnTheThread
  <2>6. CursorsFit'
    BY <2>1, <2>2, <2>3, <1>1, <1>8 DEF CursorsFit, UpTo
  <2>7. PagesFit'
    <3> SUFFICES ASSUME NEW i \in DOMAIN turns, turns[i].id = next
                 PROVE  /\ Len(read) < i
                        /\ \A k \in DOMAIN read : read[k] = turns[i - Len(read) + k - 1]
      BY <2>2, <2>3 DEF PagesFit, turns
    <3>1. i = j + PageSize
      BY <2>1, <1>1, OnePlace DEF Assumptions
    <3>2. Len(read) = Len(op.read) + PageSize
      BY <2>1, <1>4
    <3>3. i - Len(read) = j - Len(op.read)
      BY <3>1, <3>2, <1>5
    <3> QED BY <3>1, <3>2, <3>3, <1>3, <1>4, <1>5
  <2>8. PollIsFresh'
    BY <2>3, <1>1 DEF PollIsFresh, Idle
  <2> QED BY <2>2, <2>4, <2>5, <2>6, <2>7, <2>8, OtherStep DEF server
<1>9. CASE next = None /\ Continues(read)
  <2>1. Len(turns) - j + 1 <= PageSize /\ size = Len(turns) - j + 1
    <3>1. \A i \in DOMAIN turns : turns[i].id # None
      BY <1>5 DEF Ids, Assumptions, NoneAssumption
    <3> QED BY <3>1, <1>5, <1>6, <1>9
  <2> DEFINE place == j - Len(op.read)
  <2>2. place \in 1 .. Len(turns) /\ Len(read) = Len(turns) - place + 1
    <3>1. Len(read) = Len(op.read) + (Len(turns) - j + 1)
      BY <2>1, <1>4
    <3>2. Len(op.read) < j /\ Len(op.read) \in Nat /\ j \in 1 .. Len(turns) /\ Len(turns) \in Nat
      BY <1>3, <1>5
    <3>3. \A n, l \in Nat : \A i \in 1 .. n :
             l < i => i - l \in 1 .. n /\ l + (n - i + 1) = n - (i - l) + 1
      OBVIOUS
    <3> HIDE DEF size
    <3> QED BY <3>1, <3>2, <3>3
  <2>3. Ending(read, turns, place)
    BY <2>2, <1>4 DEF Ending
  <2>4. Merged(read) = [thread |-> op.thread, turns |-> turns]
    BY <2>3, <1>1, <1>4, <1>9, MergedIsTheThread DEF turns
  <2>5. /\ record_snapshot([thread |-> op.thread, turns |-> turns]) /\ Succeed
        /\ cursor' \in {cursor, None}
    BY <2>4, <1>7, <1>9
  <2>6. cursor' \in Ids \cup {None} /\ (cursor' # None => cursor' <= begun)
    BY <2>5, <1>1 DEF TypeOK, CursorsFit
  <2> QED BY <2>5, <2>6, <1>1, SuccessStep DEF turns
<1>10. CASE next = None /\ ~Continues(read)
  BY <1>1, <1>7, <1>10, FallBackStep DEF TypeOK
<1> QED BY <1>8, <1>9, <1>10

\* A poll begins.
LEMMA BeginStep ==
    ASSUME Assumptions, IInv, NEW thread \in Threads,
           poll_thread(thread) \/ poll_active_thread(thread)
    PROVE  IInv'
<1>1. TypeOK /\ CursorsFit /\ op = Idle
  BY DEF IInv, poll_thread, poll_active_thread, Begin
<1>2. PICK step \in {"read", "latest", "pages"}, active \in BOOLEAN :
        /\ Begin(thread, step, active)
        /\ step = "pages" => cursor # None
        /\ active \/ step # "read" => active /\ (previous # None => previous.thread = thread)
  <2>1. CASE poll_thread(thread)
    BY <2>1 DEF poll_thread
  <2>2. CASE poll_active_thread(thread)
    <3>1. CASE unsupported
      BY <2>2, <3>1 DEF poll_active_thread
    <3>2. CASE ~unsupported /\ cursor = None
      BY <2>2, <3>2 DEF poll_active_thread
    <3>3. CASE ~unsupported /\ cursor # None
      BY <2>2, <3>3 DEF poll_active_thread
    <3> QED BY <3>1, <3>2, <3>3
  <2> QED BY <2>1, <2>2
<1>3. /\ op' = [step |-> step, thread |-> thread, active |-> active, retried |-> FALSE,
                read |-> <<>>, from |-> cursor]
      /\ witnessed' = {persisted[thread]}
      /\ UNCHANGED <<persisted, begun, previous, cursor, unsupported, cancelled, failures, last,
                     view>>
  BY <1>2 DEF Begin, Idle, server, tracker
<1>4. TypeOK'
  BY <1>1, <1>3 DEF TypeOK
<1>5. OnTheThread' /\ CursorsFit'
  BY <1>1, <1>2, <1>3 DEF OnTheThread, CursorsFit, Idle
<1>6. PagesFit'
  <2> SUFFICES ASSUME NEW j \in DOMAIN persisted[thread] PROVE Len(<<>>) < j
    BY <1>3 DEF PagesFit
  <2>1. persisted[thread] \in Seq(Turn)
    BY <1>1 DEF TypeOK
  <2> QED BY <2>1
<1>7. PollIsFresh'
  BY <1>3 DEF PollIsFresh, Idle
<1> QED BY <1>3, <1>4, <1>5, <1>6, <1>7, OtherStep DEF server

\* A poll reconnects, once.
LEMMA ReconnectStep ==
    ASSUME Assumptions, IInv, reconnect
    PROVE  IInv'
<1>1. TypeOK /\ OnTheThread /\ CursorsFit /\ op.step = "reconnect"
  BY DEF IInv, reconnect
<1>2. PICK step \in {"latest", "read"} :
        /\ op' = [op EXCEPT !.step = step, !.retried = TRUE, !.read = <<>>, !.from = None]
        /\ step = "latest" => op.active
        /\ cursor' = None
        /\ UNCHANGED <<persisted, begun, previous, unsupported, cancelled, failures, last, view,
                       witnessed>>
  BY DEF reconnect, server
<1>3. /\ op'.step = step /\ op'.thread = op.thread /\ op'.active = op.active
      /\ op'.from = None
  BY <1>1, <1>2 DEF TypeOK
<1>4. TypeOK'
  <2>1. op' = [step |-> step, thread |-> op.thread, active |-> op.active, retried |-> TRUE,
               read |-> <<>>, from |-> None]
    BY <1>1, <1>2 DEF TypeOK
  <2>2. /\ op.thread \in Threads \cup {None} /\ op.active \in BOOLEAN /\ <<>> \in Seq(Turn)
        /\ step \in {"idle", "read", "latest", "pages", "reconnect"}
    BY <1>1 DEF TypeOK
  <2> QED BY <2>1, <2>2, <1>1, <1>2 DEF TypeOK
<1>5. OnTheThread' /\ CursorsFit'
  BY <1>1, <1>2, <1>3 DEF OnTheThread, CursorsFit
<1>6. PagesFit' /\ PollIsFresh'
  BY <1>2, <1>3 DEF PagesFit, PollIsFresh, Idle
<1> QED BY <1>2, <1>4, <1>5, <1>6, OtherStep DEF server

\* A request fails, by an answer or with the connection.
LEMMA FailureStep ==
    ASSUME Assumptions, IInv,
           \/ RequestFails \/ MethodNotFound \/ ConnectionLost \/ ReconnectFails
           \/ CursorRejected \/ PollInterrupted
    PROVE  IInv'
<1>1. TypeOK /\ OnTheThread /\ CursorsFit /\ MaxFailures \in Nat
  BY DEF IInv, Assumptions, BoundsAssumption
<1>2. op.step # "idle"
  BY <1>1 DEF RequestFails, MethodNotFound, ConnectionLost, ReconnectFails, CursorRejected,
              PollInterrupted, OnTheThread
<1>3. failures' \in 0 .. MaxFailures
  BY <1>1 DEF TypeOK, RequestFails, MethodNotFound, ConnectionLost, ReconnectFails,
              CursorRejected, PollInterrupted
<1>4. \/ Fail /\ UNCHANGED <<server, cursor>>
      \/ /\ FallBack /\ UNCHANGED <<server, previous, view, cancelled, last, witnessed>>
         /\ cursor' \in {cursor, None} /\ unsupported' \in BOOLEAN
      \/ /\ op.step \in {"read", "latest", "pages"}
         /\ op' = [op EXCEPT !.step = "reconnect"]
         /\ UNCHANGED <<server, tracker, cancelled, last, view, witnessed>>
  BY <1>1 DEF TypeOK, RequestFails, MethodNotFound, ConnectionLost, ReconnectFails,
              CursorRejected, PollInterrupted
<1>5. CASE op.step \in {"read", "latest", "pages"}
           /\ op' = [op EXCEPT !.step = "reconnect"]
           /\ UNCHANGED <<server, tracker, cancelled, last, view, witnessed>>
  <2>1. /\ op'.step = "reconnect" /\ op'.thread = op.thread /\ op'.active = op.active
        /\ op'.from = op.from
        /\ UNCHANGED <<persisted, begun, previous, cursor, unsupported, cancelled, last, view,
                       witnessed>>
    BY <1>1, <1>5 DEF TypeOK, server, tracker
  <2>2. TypeOK'
    BY <2>1, <1>1, <1>3, <1>5 DEF TypeOK
  <2>3. OnTheThread' /\ CursorsFit' /\ PagesFit' /\ PollIsFresh'
    BY <2>1, <1>1, <1>2 DEF OnTheThread, CursorsFit, PagesFit, PollIsFresh, Idle
  <2> QED BY <2>1, <2>2, <2>3, OtherStep DEF server
<1> QED BY <1>2, <1>3, <1>4, <1>5, FailStep, FallBackStep

\* The caller cancels, or discards its baseline.
LEMMA CallerStep ==
    ASSUME Assumptions, IInv, Cancel \/ reset_thread_baseline \/ UNCHANGED vars
    PROVE  IInv'
<1>1. CASE Cancel \/ UNCHANGED vars
  <2>1. /\ cancelled' \in BOOLEAN
        /\ UNCHANGED <<persisted, begun, previous, cursor, unsupported, op, failures, last, view,
                       witnessed>>
    BY <1>1 DEF Cancel, vars, server, tracker, IInv, TypeOK
  <2>2. TypeOK' /\ OnTheThread' /\ CursorsFit' /\ PagesFit' /\ PollIsFresh'
    BY <2>1 DEF IInv, TypeOK, OnTheThread, CursorsFit, PagesFit, PollIsFresh
  <2> QED BY <2>1, <2>2, OtherStep DEF server
<1>2. CASE reset_thread_baseline
  <2>1. /\ previous' = None /\ cursor' = None /\ view' = None /\ op = Idle
        /\ UNCHANGED <<persisted, begun, unsupported, cancelled, op, failures, last, witnessed>>
    BY <1>2 DEF reset_thread_baseline, server
  <2>2. TypeOK' /\ CursorsFit' /\ PagesFit'
    BY <2>1 DEF IInv, TypeOK, CursorsFit, PagesFit, Idle
  <2>3. OnTheThread' /\ Remembered' /\ ViewIsLastSnapshot' /\ PollIsFresh'
    BY <2>1 DEF IInv, OnTheThread, Remembered, ViewIsLastSnapshot, PollIsFresh, Idle
  <2>4. Threaded'
    BY <2>1 DEF IInv, Threaded, Growing, UpTo
  <2> QED BY <2>2, <2>3, <2>4 DEF IInv
<1> QED BY <1>1, <1>2

\* IInv holds in the initial states,
LEMMA HistoryInit ==
    ASSUME Assumptions, Init
    PROVE  IInv
<1>1. <<>> \in Seq(Turn) /\ Growing(<<>>) /\ UpTo(<<>>, 0)
  BY DEF Growing, UpTo
<1>2. TypeOK
  <2>1. Idle \in [step : {"idle", "read", "latest", "pages", "reconnect"},
                   thread : Threads \cup {None}, active : BOOLEAN, retried : BOOLEAN,
                   read : Seq(Turn), from : Ids \cup {None}]
    BY DEF Idle
  <2>2. 0 \in 0 .. MaxTurns /\ 0 \in 0 .. MaxFailures
    BY DEF Assumptions, BoundsAssumption
  <2>3. persisted \in [Threads -> Seq(Turn)] /\ {} \subseteq Seq(Turn)
    BY <1>1 DEF Init
  <2> QED BY <2>1, <2>2, <2>3 DEF Init, TypeOK
<1>3. Threaded /\ Remembered /\ OnTheThread /\ CursorsFit /\ PagesFit
  BY <1>1 DEF Init, Threaded, Remembered, OnTheThread, CursorsFit, PagesFit, Idle
<1> QED BY <1>2, <1>3 DEF IInv, Init, ViewIsLastSnapshot, PollIsFresh

\* and every step keeps it.
LEMMA HistoryStep ==
    ASSUME Assumptions, IInv, [Next]_vars
    PROVE  IInv'
<1>1. /\ TypeOK /\ Threaded /\ begun \in Nat /\ begun \in 0 .. MaxTurns /\ MaxTurns \in Nat
      /\ BoundsAssumption
  BY DEF IInv, TypeOK, Assumptions, BoundsAssumption
<1>2. ASSUME NEW thread \in Threads,
             TurnBegins(thread) \/ TurnProgresses(thread) \/ Rollback(thread)
      PROVE  IInv'
  <2> DEFINE turns == persisted[thread]
  <2>1. turns \in Seq(Turn) /\ Growing(turns) /\ UpTo(turns, begun)
    BY <1>1 DEF TypeOK, Threaded
  <2> HIDE DEF turns
  <2>2. PICK next : /\ Persist(thread, next) /\ Follows(turns, next, begun)
                    /\ UpTo(next, begun') /\ begun' \in 0 .. MaxTurns /\ begun <= begun'
    <3>1. CASE TurnBegins(thread)
      <4>1. /\ begun < MaxTurns /\ begun' = begun + 1
            /\ Persist(thread, Append(turns, [id |-> begun + 1, revision |-> 0]))
        BY <3>1 DEF TurnBegins, turns
      <4> QED BY <4>1, <2>1, <1>1, BeginningFollows
    <3>2. CASE TurnProgresses(thread)
      <4>1. /\ turns # <<>> /\ turns[Len(turns)].revision < MaxRevision /\ begun' = begun
            /\ Persist(thread, [turns EXCEPT ![Len(turns)].revision = @ + 1])
        BY <3>2 DEF TurnProgresses, turns
      <4> QED BY <4>1, <2>1, <1>1, RevisionFollows
    <3>3. CASE Rollback(thread)
      <4>1. turns # <<>> /\ begun' = begun /\ Persist(thread, Front(turns))
        BY <3>3 DEF Rollback, turns
      <4> QED BY <4>1, <2>1, <1>1, RollbackFollows
    <3> QED BY <1>2, <3>1, <3>2, <3>3
  <2> QED BY <2>2, PersistStep DEF turns
<1>3. CASE ReadThread
  <2>1. /\ op.step # "idle" /\ cursor' = None /\ Succeed
        /\ record_snapshot([thread |-> op.thread, turns |-> persisted[op.thread]])
        /\ UNCHANGED <<server, unsupported, witnessed>>
    BY <1>3 DEF ReadThread, record
  <2> QED BY <2>1, SuccessStep
<1> QED
  BY <1>2, <1>3, BeginStep, LatestStep, PageStep, ReconnectStep, FailureStep, CallerStep
     DEF Next, Answer

\* A poll that succeeds, however it was pieced together, is of one moment of the
\* poll, and Unchanged is said only of what the caller has: what poll_thread and
\* poll_active_thread return.
THEOREM PollsAreFresh ==
    ASSUME Assumptions
    PROVE  Spec => [](PollIsFresh /\ ViewIsLastSnapshot)
<1>1. Init => IInv
  BY HistoryInit
<1>2. IInv /\ [Next]_vars => IInv'
  BY HistoryStep
<1>3. IInv => PollIsFresh /\ ViewIsLastSnapshot
  BY DEF IInv
<1> QED BY <1>1, <1>2, <1>3, PTL DEF Spec
=============================================================================
