-------------------------- MODULE CodexClient_proofs --------------------------
(***************************************************************************)
(* Proofs about AppServerClient, and what is proved of the other parts of    *)
(* the client as the runs of MCCodexClient explore them, for any parts       *)
(* explored and any bounds.                                                  *)
(*                                                                         *)
(* The inductive invariant IInv of AppServerClient has three parts.  Flow:   *)
(* the messages put aside by requests, followed by the input not read yet,   *)
(* hold each message of the stream from handed + 1 to sent once and in       *)
(* order.  Questioning: a question is on its way, pending, refused or        *)
(* settled, and in one of these states only; what is told as finished has    *)
(* nothing of it left.  Reaped: a running child has a client.                *)
(*                                                                         *)
(* The parts lie side by side: a part's invariant holds where it is          *)
(* explored; the others keep still.                                          *)
(***************************************************************************)
EXTENDS MCCodexClient, SequenceTheorems, NaturalsInduction, WellFoundedInduction, TLAPS

\* The messages of the stream among some, and that they are those from low + 1
\* to high, each once and in order.
In(messages) == {messages[i] : i \in Stream(messages)}
InOrder(messages, low, high) ==
    /\ low <= high
    /\ {messages[i].n : i \in Stream(messages)} = low + 1 .. high
    /\ \A i, j \in Stream(messages) : i < j => messages[i].n < messages[j].n

\* What a message is, by its kind.
LEMMA MessageFacts ==
    ASSUME NEW m \in Messages
    PROVE  /\ m.n \in Nat
           /\ IsStream(m) <=> m.kind \notin {"response", "stray"}
           /\ m.kind \in {"item", "completed"} => m.of \in Turns
           /\ m.kind \in {"ask", "resolved"} => m.of \in Asks
           /\ m.kind = "response" => m.of \in 1 .. MaxRequests
           /\ m.kind \in {"item", "completed", "ask", "resolved", "response", "stray"}
           /\ IsStream(m) => m.n \in 1 .. MaxSent
BY DEF Messages, IsStream, StreamKinds

\* The places of the stream's messages, and their numbers.
LEMMA Numbered ==
    ASSUME NEW w \in Seq(Messages)
    PROVE  \A i \in Stream(w) :
              i \in Nat /\ i \in 1 .. Len(w) /\ w[i] \in Messages /\ IsStream(w[i]) /\ w[i].n \in Nat
<1> SUFFICES ASSUME NEW i \in Stream(w)
             PROVE  i \in Nat /\ i \in 1 .. Len(w) /\ w[i] \in Messages /\ IsStream(w[i]) /\ w[i].n \in Nat
  OBVIOUS
<1>1. i \in 1 .. Len(w) /\ IsStream(w[i]) /\ Len(w) \in Nat
  BY DEF Stream
<1>2. w[i] \in Messages
  BY <1>1, ElementOfSeq
<1> QED BY <1>1, <1>2, MessageFacts

\* The next message of the stream keeps the order.
LEMMA AppendStream ==
    ASSUME NEW w \in Seq(Messages), NEW m \in Messages, IsStream(m),
           NEW low \in Nat, NEW high \in Nat, m.n = high + 1, InOrder(w, low, high)
    PROVE  InOrder(Append(w, m), low, high + 1) /\ In(Append(w, m)) = In(w) \cup {m}
<1> DEFINE v == Append(w, m)
<1>1. /\ v \in Seq(Messages) /\ Len(v) = Len(w) + 1 /\ v[Len(w) + 1] = m
      /\ \A i \in 1 .. Len(w) : v[i] = w[i]
  BY AppendProperties
<1>2. Stream(v) = Stream(w) \cup {Len(w) + 1}
  BY <1>1 DEF Stream
<1>3. \A i \in Stream(w) : i \in 1 .. Len(w) /\ v[i] = w[i]
  BY <1>1 DEF Stream
<1>4. In(v) = In(w) \cup {m}
  BY <1>1, <1>2, <1>3 DEF In
<1>5. {v[i].n : i \in Stream(v)} = {w[i].n : i \in Stream(w)} \cup {high + 1}
  BY <1>1, <1>2, <1>3
<1>6. \A i \in Stream(w) : w[i].n \in low + 1 .. high
  BY DEF InOrder
<1>7. \A i, j \in Stream(v) : i < j => v[i].n < v[j].n
  <2> SUFFICES ASSUME NEW i \in Stream(v), NEW j \in Stream(v), i < j PROVE v[i].n < v[j].n
    OBVIOUS
  <2>1. i \in Stream(w)
    <3>1. j \in Nat /\ i \in Nat /\ j <= Len(w) + 1 /\ Len(w) \in Nat
      BY <1>2, Numbered
    <3> QED BY <3>1, <1>2
  <2>2. CASE j \in Stream(w)
    BY <2>1, <2>2, <1>3 DEF InOrder
  <2>3. CASE j = Len(w) + 1
    <3>1. v[i] = w[i] /\ w[i].n \in low + 1 .. high /\ v[j] = m
      BY <2>1, <2>3, <1>1, <1>3, <1>6
    <3> QED BY <3>1
  <2> HIDE DEF v
  <2> QED BY <2>2, <2>3, <1>2
<1>8. low + 1 .. high + 1 = (low + 1 .. high) \cup {high + 1} /\ low <= high + 1
  BY DEF InOrder
<1> HIDE DEF v
<1> QED BY <1>4, <1>5, <1>7, <1>8 DEF InOrder, v

\* The message at a place k, taken out.
Removed(messages, k, rest) ==
    /\ Len(rest) = Len(messages) - 1
    /\ \A i \in 1 .. Len(rest) : rest[i] = messages[IF i < k THEN i ELSE i + 1]

\* A message that is not of the stream is taken out of it without effect.
LEMMA RemoveOther ==
    ASSUME NEW w \in Seq(Messages), NEW v \in Seq(Messages), NEW k \in 1 .. Len(w),
           Removed(w, k, v), ~IsStream(w[k]),
           NEW low \in Nat, NEW high \in Nat, InOrder(w, low, high)
    PROVE  InOrder(v, low, high) /\ In(v) = In(w)
<1> DEFINE At(i) == IF i < k THEN i ELSE i + 1
           From(i) == IF i < k THEN i ELSE i - 1
<1>1. \A i \in Stream(v) : At(i) \in Stream(w) /\ v[i] = w[At(i)] /\ i \in Nat
  BY DEF Stream, Removed
<1>2. \A i \in Stream(w) : From(i) \in Stream(v) /\ v[From(i)] = w[i]
  <2> SUFFICES ASSUME NEW i \in Stream(w) PROVE From(i) \in Stream(v) /\ v[From(i)] = w[i]
    OBVIOUS
  <2>1. i \in 1 .. Len(w) /\ i # k /\ IsStream(w[i])
    BY DEF Stream
  <2>2. From(i) \in 1 .. Len(v) /\ At(From(i)) = i
    <3>1. Len(v) = Len(w) - 1 /\ Len(w) \in Nat
      BY DEF Removed
    <3> QED BY <2>1, <3>1
  <2>3. v[From(i)] = w[At(From(i))] /\ From(i) \in DOMAIN v
    <3>1. \A j \in 1 .. Len(v) : v[j] = w[At(j)]
      BY DEF Removed
    <3>2. DOMAIN v = 1 .. Len(v)
      OBVIOUS
    <3> HIDE DEF From, At
    <3> QED BY <2>2, <3>1, <3>2
  <2>4. v[From(i)] = w[i]
    BY <2>2, <2>3
  <2> HIDE DEF From
  <2> QED BY <2>1, <2>3, <2>4 DEF Stream
<1>3. In(v) = In(w)
  BY <1>1, <1>2 DEF In
<1>4. {v[i].n : i \in Stream(v)} = {w[i].n : i \in Stream(w)}
  BY <1>1, <1>2
<1>5. \A i, j \in Stream(v) : i < j => At(i) < At(j)
  BY <1>1
<1> QED BY <1>1, <1>3, <1>4, <1>5 DEF InOrder

\* The first message of the stream, taken, is the one with the least number.
LEMMA TakeStream ==
    ASSUME NEW w \in Seq(Messages), w # <<>>, IsStream(Head(w)),
           NEW low \in Nat, NEW high \in Nat, InOrder(w, low, high)
    PROVE  /\ InOrder(Tail(w), low + 1, high)
           /\ In(Tail(w)) \subseteq In(w) /\ Head(w) \in In(w)
           /\ \A m \in In(Tail(w)) : Head(w).n < m.n
           /\ low < high
<1> DEFINE v == Tail(w)
<1>1. /\ Len(w) \in Nat /\ Len(w) > 0 /\ Head(w) = w[1] /\ Head(w) \in Messages
      /\ v \in Seq(Messages) /\ Len(v) = Len(w) - 1
      /\ \A i \in 1 .. Len(v) : v[i] = w[i + 1]
  BY HeadTailProperties
<1>2. 1 \in Stream(w)
  BY <1>1 DEF Stream
<1>n. \A i \in Stream(w) : i \in Nat /\ w[i].n \in Nat
  BY Numbered
<1> HIDE DEF v
<1>3. \A i \in Stream(v) : i + 1 \in Stream(w) /\ v[i] = w[i + 1] /\ i \in Nat /\ i >= 1
  BY <1>1 DEF Stream
<1>4. \A i \in Stream(w) : i # 1 => i - 1 \in Stream(v) /\ v[i - 1] = w[i]
  BY <1>1 DEF Stream
<1>5. \A i \in Stream(w) : w[i].n \in low + 1 .. high
  BY DEF InOrder
<1>6. \A i \in Stream(w) : i # 1 => w[1].n < w[i].n
  <2> SUFFICES ASSUME NEW i \in Stream(w), i # 1 PROVE w[1].n < w[i].n
    OBVIOUS
  <2>1. i \in 1 .. Len(w)
    BY Numbered
  <2>2. 1 < i
    BY <2>1
  <2> QED BY <2>2, <1>2 DEF InOrder
<1>7. w[1].n = low + 1
  <2>1. w[1].n \in low + 1 .. high
    BY <1>2, <1>5
  <2>2. low + 1 \in {w[i].n : i \in Stream(w)}
    <3>1. low + 1 \in low + 1 .. high
      BY <2>1
    <3> QED BY <3>1 DEF InOrder
  <2>3. PICK i \in Stream(w) : w[i].n = low + 1
    BY <2>2
  <2> QED BY <2>1, <2>3, <1>6, <1>n
<1>8. {v[i].n : i \in Stream(v)} = low + 2 .. high
  <2>1. \A i \in Stream(v) : v[i].n \in low + 2 .. high
    <3> SUFFICES ASSUME NEW i \in Stream(v) PROVE v[i].n \in low + 2 .. high
      OBVIOUS
    <3>1. i + 1 \in Stream(w) /\ v[i] = w[i + 1] /\ i + 1 # 1
      BY <1>3
    <3>2. w[i + 1].n \in low + 1 .. high /\ w[1].n < w[i + 1].n
      BY <3>1, <1>5, <1>6
    <3> QED BY <3>1, <3>2, <1>7
  <2>2. ASSUME NEW n \in low + 2 .. high PROVE \E i \in Stream(v) : v[i].n = n
    <3>1. PICK i \in Stream(w) : w[i].n = n
      <4>1. n \in {w[i].n : i \in Stream(w)}
        <5>1. n \in low + 1 .. high
          OBVIOUS
        <5> QED BY <5>1 DEF InOrder
      <4> QED BY <4>1
    <3>2. i # 1
      BY <3>1, <1>7
    <3> QED BY <3>1, <3>2, <1>4
  <2> QED BY <2>1, <2>2
<1>9. \A i, j \in Stream(v) : i < j => v[i].n < v[j].n
  <2> SUFFICES ASSUME NEW i \in Stream(v), NEW j \in Stream(v), i < j PROVE v[i].n < v[j].n
    OBVIOUS
  <2>1. i + 1 < j + 1 /\ i + 1 \in Stream(w) /\ j + 1 \in Stream(w)
    BY <1>3
  <2>2. w[i + 1].n < w[j + 1].n
    BY <2>1 DEF InOrder
  <2> QED BY <2>2, <1>3
<1>10. \A m \in In(v) : w[1].n < m.n /\ m \in In(w)
  <2> SUFFICES ASSUME NEW i \in Stream(v) PROVE w[1].n < v[i].n /\ v[i] \in In(w)
    BY DEF In
  <2>1. i + 1 \in Stream(w) /\ v[i] = w[i + 1] /\ i + 1 # 1
    BY <1>3
  <2> QED BY <2>1, <1>6 DEF In
<1>11. Head(w) \in In(w)
  BY <1>1, <1>2 DEF In
<1>12. low + 1 <= high
  <2>1. w[1].n \in low + 1 .. high
    BY <1>2, <1>5
  <2> QED BY <2>1
<1>13. low + 2 = (low + 1) + 1
  OBVIOUS
<1>14. InOrder(v, low + 1, high)
  BY <1>8, <1>9, <1>12, <1>13 DEF InOrder
<1>15. low < high
  BY <1>12
<1>16. In(v) \subseteq In(w) /\ \A m \in In(v) : Head(w).n < m.n
  BY <1>1, <1>10
<1> QED BY <1>11, <1>14, <1>15, <1>16 DEF v

\* A set of numbers has a least one.
LEMMA NaturalsHaveLeast ==
    ASSUME NEW T \in SUBSET Nat, T # {}
    PROVE  \E x \in T : \A y \in T : x <= y
<1> DEFINE R == OpToRel(<, Nat)
<1>1. IsWellFoundedOn(R, Nat)
  BY NatLessThanWellFounded
<1> HIDE DEF R
<1>2. PICK x \in T : \A y \in T : ~(<<y, x>> \in R)
  BY <1>1, WFMin
<1>3. \A y \in T : <<y, x>> \in R <=> y < x
  BY DEF R, OpToRel
<1>4. \A y \in T : x \in Nat /\ y \in Nat /\ ~(y < x)
  BY <1>2, <1>3
<1>5. \A y \in T : x <= y
  BY <1>4
<1> QED BY <1>5

\* allocate_interaction_id ends at an id that is not in use, if there is one:
\* that at the least distance from next_interaction_id.
LEMMA AllocationIsUnused ==
    ASSUME InteractionIdAssumption, next_interaction_id \in InteractionIds,
           NEW id \in InteractionIds, Unused(id)
    PROVE  allocate_interaction_id \in InteractionIds /\ Unused(allocate_interaction_id)
<1> DEFINE Far == {Distance(other) : other \in {i \in InteractionIds : Unused(i)}}
<1>1. \A other \in InteractionIds : Distance(other) \in Nat
  BY DEF InteractionIds, Distance, InteractionIdAssumption
<1>2. Far \subseteq Nat /\ Far # {}
  BY <1>1
<1> HIDE DEF Far
<1>3. PICK least \in Far : \A other \in Far : least <= other
  BY <1>2, NaturalsHaveLeast
<1> USE DEF Far
<1>4. \E i \in InteractionIds :
         Unused(i) /\ \A other \in InteractionIds : Unused(other) => Distance(i) <= Distance(other)
  BY <1>3
<1> QED BY <1>4 DEF allocate_interaction_id

\* Two queues, one after the other: a message appended to the second;
LEMMA ConcatAppend ==
    ASSUME NEW S, NEW u \in Seq(S), NEW v \in Seq(S), NEW m \in S
    PROVE  u \o Append(v, m) = Append(u \o v, m)
BY AppendIsConcat, ConcatAssociative, ConcatProperties

\* the head of the second moved to the end of the first;
LEMMA ConcatMove ==
    ASSUME NEW S, NEW u \in Seq(S), NEW v \in Seq(S), v # <<>>
    PROVE  Append(u, Head(v)) \o Tail(v) = u \o v
<1>1. Head(v) \in S /\ Tail(v) \in Seq(S) /\ v = <<Head(v)>> \o Tail(v) /\ <<Head(v)>> \in Seq(S)
  BY HeadTailProperties
<1>2. Append(u, Head(v)) = u \o <<Head(v)>>
  BY <1>1, AppendIsConcat
<1> QED BY <1>1, <1>2, ConcatAssociative

\* the head of the second taken;
LEMMA ConcatRemoved ==
    ASSUME NEW S, NEW u \in Seq(S), NEW v \in Seq(S), v # <<>>
    PROVE  /\ Len(u) + 1 \in 1 .. Len(u \o v)
           /\ (u \o v)[Len(u) + 1] = Head(v)
           /\ Removed(u \o v, Len(u) + 1, u \o Tail(v))
<1>1. /\ Head(v) = v[1] /\ Tail(v) \in Seq(S) /\ Len(v) > 0 /\ Len(Tail(v)) = Len(v) - 1
      /\ \A i \in 1 .. Len(Tail(v)) : Tail(v)[i] = v[i + 1]
  BY HeadTailProperties
<1> DEFINE w == u \o v
           x == u \o Tail(v)
<1>2. /\ Len(w) = Len(u) + Len(v) /\ \A i \in 1 .. Len(w) : w[i] = IF i <= Len(u) THEN u[i] ELSE v[i - Len(u)]
  BY ConcatProperties
<1>3. /\ Len(x) = Len(u) + Len(v) - 1
      /\ \A i \in 1 .. Len(x) : x[i] = IF i <= Len(u) THEN u[i] ELSE Tail(v)[i - Len(u)]
  BY <1>1, ConcatProperties
<1>4. Len(u) \in Nat /\ Len(v) \in Nat
  OBVIOUS
<1> HIDE DEF w, x
<1>5. \A i \in 1 .. Len(x) : x[i] = w[IF i < Len(u) + 1 THEN i ELSE i + 1]
  <2> SUFFICES ASSUME NEW i \in 1 .. Len(x) PROVE x[i] = w[IF i < Len(u) + 1 THEN i ELSE i + 1]
    OBVIOUS
  <2>1. CASE i <= Len(u)
    BY <2>1, <1>1, <1>2, <1>3, <1>4
  <2>2. CASE i > Len(u)
    <3>1. x[i] = Tail(v)[i - Len(u)] /\ i - Len(u) \in 1 .. Len(Tail(v))
      BY <2>2, <1>1, <1>3, <1>4
    <3>2. w[i + 1] = v[(i - Len(u)) + 1]
      <4>1. i + 1 \in 1 .. Len(w) /\ ~(i + 1 <= Len(u)) /\ (i + 1) - Len(u) = (i - Len(u)) + 1
        BY <2>2, <1>2, <1>3, <1>4
      <4>2. w[i + 1] = v[(i + 1) - Len(u)]
        BY <4>1, <1>2
      <4> QED BY <4>1, <4>2
    <3> QED BY <2>2, <3>1, <3>2, <1>1
  <2> QED BY <2>1, <2>2, <1>3, <1>4
<1>6. Len(u) + 1 \in 1 .. Len(w) /\ w[Len(u) + 1] = v[1]
  BY <1>1, <1>2, <1>4
<1>7. Removed(w, Len(u) + 1, x)
  BY <1>2, <1>3, <1>4, <1>5 DEF Removed
<1> QED BY <1>1, <1>6, <1>7 DEF w, x

\* the head of the first taken.
LEMMA ConcatTail ==
    ASSUME NEW S, NEW u \in Seq(S), NEW v \in Seq(S), u # <<>>
    PROVE  Tail(u) \o v = Tail(u \o v) /\ Head(u \o v) = Head(u) /\ u \o v # <<>>
<1>1. /\ Head(u) = u[1] /\ Tail(u) \in Seq(S) /\ Len(u) > 0 /\ Len(Tail(u)) = Len(u) - 1
      /\ \A i \in 1 .. Len(Tail(u)) : Tail(u)[i] = u[i + 1]
  BY HeadTailProperties
<1> DEFINE w == u \o v
           x == Tail(u) \o v
<1>2. /\ w \in Seq(S) /\ Len(w) = Len(u) + Len(v)
      /\ \A i \in 1 .. Len(w) : w[i] = IF i <= Len(u) THEN u[i] ELSE v[i - Len(u)]
  BY ConcatProperties
<1>3. /\ x \in Seq(S) /\ Len(x) = Len(u) + Len(v) - 1
      /\ \A i \in 1 .. Len(x) : x[i] = IF i <= Len(Tail(u)) THEN Tail(u)[i] ELSE v[i - Len(Tail(u))]
  BY <1>1, ConcatProperties
<1>4. Len(u) \in Nat /\ Len(v) \in Nat
  OBVIOUS
<1> HIDE DEF w, x
<1>5. w # <<>> /\ Head(w) = w[1] /\ w[1] = u[1]
  BY <1>1, <1>2, <1>4
<1>6. Tail(w) \in Seq(S) /\ Len(Tail(w)) = Len(w) - 1 /\ \A i \in 1 .. Len(Tail(w)) : Tail(w)[i] = w[i + 1]
  BY <1>2, <1>5, HeadTailProperties
<1>7. \A i \in 1 .. Len(x) : x[i] = Tail(w)[i]
  <2> SUFFICES ASSUME NEW i \in 1 .. Len(x) PROVE x[i] = Tail(w)[i]
    OBVIOUS
  <2>0. i \in 1 .. Len(Tail(w)) /\ i + 1 \in 1 .. Len(w) /\ Tail(w)[i] = w[i + 1]
    BY <1>2, <1>3, <1>4, <1>6
  <2>1. CASE i <= Len(Tail(u))
    BY <2>0, <2>1, <1>1, <1>2, <1>3, <1>4
  <2>2. CASE i > Len(Tail(u))
    <3>1. x[i] = v[i - Len(Tail(u))]
      <4>1. ~(i <= Len(Tail(u)))
        BY <2>2, <1>1, <1>3, <1>4
      <4> QED BY <1>3, <4>1
    <3>2. w[i + 1] = v[(i + 1) - Len(u)]
      BY <2>0, <2>2, <1>1, <1>2, <1>4
    <3>3. i - Len(Tail(u)) = (i + 1) - Len(u)
      BY <1>1, <1>4
    <3> QED BY <2>0, <3>1, <3>2, <3>3
  <2>3. i \in Nat /\ Len(Tail(u)) \in Nat
    BY <1>1, <1>3, <1>4
  <2> HIDE DEF x
  <2>4. i <= Len(Tail(u)) \/ i > Len(Tail(u))
    BY <2>3
  <2> QED BY <2>1, <2>2, <2>4
<1>8. x = Tail(w)
  BY <1>2, <1>3, <1>6, <1>7, SeqEqual
<1> QED BY <1>1, <1>5, <1>8 DEF w, x

---------------------------------------------------------------------------
\* What the owner has not taken yet, and the messages of the stream in it.
Waiting == pending_server_messages \o input
InStream == In(Waiting)
Flow == TypeOK /\ InOrder(Waiting, handed, sent)

\* The types of what is waiting.
LEMMA WaitingType ==
    ASSUME TypeOK
    PROVE  /\ Waiting \in Seq(Messages) /\ input \in Seq(Messages)
           /\ pending_server_messages \in Seq(Messages) /\ sent \in Nat /\ handed \in Nat
BY ConcatProperties DEF TypeOK, Waiting

\* The types of what is on its way in the stream.
LEMMA InStreamType ==
    ASSUME TypeOK
    PROVE  \A m \in InStream : m \in Messages /\ IsStream(m) /\ m.n \in Nat
BY WaitingType, Numbered DEF InStream, In

\* A number belongs to one message of the stream.
LEMMA StreamUnique ==
    ASSUME Flow
    PROVE  /\ \A m1, m2 \in InStream : m1.n = m2.n => m1 = m2
           /\ \A m \in InStream : m.n <= sent
<1>1. \A i \in Stream(Waiting) : i \in Nat /\ Waiting[i].n \in Nat /\ Waiting[i].n \in handed + 1 .. sent
  BY WaitingType, Numbered DEF Flow, InOrder
<1>2. \A i, j \in Stream(Waiting) : i < j => Waiting[i].n < Waiting[j].n
  BY DEF Flow, InOrder
<1>3. \A i, j \in Stream(Waiting) : Waiting[i].n = Waiting[j].n => i = j
  BY <1>1, <1>2
<1>4. \A m \in InStream : \E i \in Stream(Waiting) : m = Waiting[i]
  BY DEF InStream, In
<1>5. \A m \in InStream : m.n <= sent
  BY <1>1, <1>4, WaitingType DEF Flow
<1>6. \A m1, m2 \in InStream : m1.n = m2.n => m1 = m2
  BY <1>3, <1>4
<1> QED BY <1>5, <1>6

\* The app-server sends a message of the stream.
LEMMA Emitted ==
    ASSUME Flow, NEW kind \in StreamKinds, NEW of, Emit(kind, of),
           Notification(kind, of) \in Messages
    PROVE  /\ InOrder(Waiting, handed, sent)'
           /\ InStream' = InStream \cup {Notification(kind, of)}
<1> DEFINE m == Notification(kind, of)
<1>1. IsStream(m) /\ m.n = sent + 1
  BY DEF Notification, IsStream
<1>2. Waiting' = Append(Waiting, m) /\ handed' = handed /\ sent' = sent + 1
  BY WaitingType, ConcatAppend DEF Flow, Emit, Waiting, owner
<1>3. InOrder(Waiting, handed, sent)
  BY DEF Flow
<1> HIDE DEF m
<1>4. InOrder(Append(Waiting, m), handed, sent + 1) /\ In(Append(Waiting, m)) = In(Waiting) \cup {m}
  BY <1>1, <1>3, WaitingType, AppendStream DEF Flow, m
<1>5. InOrder(Waiting', handed', sent') /\ In(Waiting') = In(Waiting) \cup {m}
  BY <1>2, <1>4
<1> QED BY <1>5 DEF InStream, InOrder, In, Stream, IsStream, m

\* What is waiting stays as it is.
LEMMA StreamKept ==
    ASSUME Flow, Waiting' = Waiting, handed' = handed, sent' = sent
    PROVE  InOrder(Waiting, handed, sent)' /\ InStream' = InStream
<1>1. InOrder(Waiting', handed', sent') /\ In(Waiting') = In(Waiting)
  BY DEF Flow
<1> QED BY <1>1 DEF InStream, InOrder, In, Stream, IsStream

\* The app-server sends what is not of the stream.
LEMMA OtherAppended ==
    ASSUME Flow, NEW m \in Messages, ~IsStream(m), input' = Append(input, m),
           UNCHANGED <<pending_server_messages, handed, sent>>
    PROVE  InOrder(Waiting, handed, sent)' /\ InStream' = InStream
<1>1. Waiting' = Append(Waiting, m)
  BY WaitingType, ConcatAppend DEF Flow, Waiting
<1>2. Len(Append(Waiting, m)) = Len(Waiting) + 1
  BY WaitingType, AppendProperties DEF Flow
<1>3. Append(Waiting, m) \in Seq(Messages) /\ Append(Waiting, m)[Len(Waiting) + 1] = m
      /\ Len(Waiting) \in Nat
      /\ \A i \in 1 .. Len(Waiting) : Waiting[i] = Append(Waiting, m)[i]
  BY WaitingType, AppendProperties DEF Flow
<1>4. Stream(Append(Waiting, m)) = Stream(Waiting)
  <2>1. DOMAIN Append(Waiting, m) = (DOMAIN Waiting) \cup {Len(Waiting) + 1}
    BY <1>2, <1>3, WaitingType DEF Flow
  <2>2. DOMAIN Waiting = 1 .. Len(Waiting)
    BY WaitingType DEF Flow
  <2> QED BY <2>1, <2>2, <1>3 DEF Stream
<1>5. \A i \in Stream(Waiting) : Append(Waiting, m)[i] = Waiting[i]
  BY <1>3, WaitingType, Numbered DEF Flow
<1>6. InOrder(Append(Waiting, m), handed, sent) /\ In(Append(Waiting, m)) = In(Waiting)
  <2> DEFINE v == Append(Waiting, m)
  <2>1. {v[i].n : i \in Stream(v)} = {Waiting[i].n : i \in Stream(Waiting)}
    BY <1>4, <1>5
  <2>2. {v[i] : i \in Stream(v)} = {Waiting[i] : i \in Stream(Waiting)}
    BY <1>4, <1>5
  <2>3. \A i, j \in Stream(v) : i < j => v[i].n < v[j].n
    <3> SUFFICES ASSUME NEW i \in Stream(v), NEW j \in Stream(v), i < j PROVE v[i].n < v[j].n
      OBVIOUS
    <3>1. i \in Stream(Waiting) /\ j \in Stream(Waiting)
      BY <1>4
    <3>2. v[i] = Waiting[i] /\ v[j] = Waiting[j]
      BY <3>1, <1>5
    <3>3. Waiting[i].n < Waiting[j].n
      BY <3>1 DEF Flow, InOrder
    <3> QED BY <3>2, <3>3
  <2>4. handed <= sent /\ {Waiting[i].n : i \in Stream(Waiting)} = handed + 1 .. sent
    BY DEF Flow, InOrder
  <2> HIDE DEF v
  <2>5. InOrder(v, handed, sent)
    BY <2>1, <2>3, <2>4 DEF InOrder
  <2> QED BY <2>2, <2>5 DEF In, v
<1>7. InOrder(Waiting', handed', sent') /\ In(Waiting') = In(Waiting)
  BY <1>1, <1>6
<1> QED BY <1>7 DEF InStream, InOrder, In, Stream, IsStream

\* A line that is no message of the stream is read by a request.
LEMMA OtherRead ==
    ASSUME Flow, input # <<>>, ~IsStream(Head(input)), input' = Tail(input),
           UNCHANGED <<pending_server_messages, handed, sent>>
    PROVE  InOrder(Waiting, handed, sent)' /\ InStream' = InStream
<1> DEFINE k == Len(pending_server_messages) + 1
           w == pending_server_messages \o Tail(input)
<1>1. k \in 1 .. Len(Waiting) /\ Waiting[k] = Head(input) /\ Removed(Waiting, k, w)
  BY WaitingType, ConcatRemoved DEF Flow, Waiting
<1>2. w \in Seq(Messages)
  BY WaitingType, HeadTailProperties, ConcatProperties DEF Flow
<1>3. Waiting' = w
  BY DEF Waiting
<1> HIDE DEF w, k
<1>4. InOrder(w, handed, sent) /\ In(w) = In(Waiting)
  <2>1. ~IsStream(Waiting[k])
    BY <1>1
  <2>2. InOrder(Waiting, handed, sent) /\ handed \in Nat /\ sent \in Nat /\ Waiting \in Seq(Messages)
    BY WaitingType DEF Flow
  <2> QED BY <1>1, <1>2, <2>1, <2>2, RemoveOther
<1>5. InOrder(Waiting', handed', sent') /\ In(Waiting') = In(Waiting)
  BY <1>3, <1>4
<1> QED BY <1>5 DEF InStream, InOrder, In, Stream, IsStream

\* A message of the stream is put aside by a request.
LEMMA StreamPutAside ==
    ASSUME Flow, RequestKeepsMessage
    PROVE  InOrder(Waiting, handed, sent)' /\ InStream' = InStream
<1>1. Waiting' = Waiting
  BY WaitingType, ConcatMove DEF Flow, RequestKeepsMessage, Waiting
<1> QED BY <1>1, StreamKept DEF RequestKeepsMessage, server, owner

\* What the owner's event loop reads.
LEMMA SourceIsHead ==
    ASSUME TypeOK, Source # <<>>
    PROVE  /\ Waiting # <<>> /\ Message = Head(Waiting) /\ Message \in Messages
           /\ next_server_message => Waiting' = Tail(Waiting)
<1>1. CASE pending_server_messages # <<>>
  <2>1. /\ Waiting # <<>> /\ Head(Waiting) = Head(pending_server_messages)
        /\ Tail(Waiting) = Tail(pending_server_messages) \o input
    BY <1>1, WaitingType, ConcatTail DEF Waiting
  <2>2. Source = pending_server_messages /\ Head(pending_server_messages) \in Messages
    BY <1>1, WaitingType, HeadTailProperties DEF Source
  <2> QED BY <1>1, <2>1, <2>2 DEF Message, next_server_message, Waiting
<1>2. CASE pending_server_messages = <<>>
  <2>1. Source = input /\ input # <<>> /\ Head(input) \in Messages /\ Tail(input) \in Seq(Messages)
    BY <1>2, WaitingType, HeadTailProperties DEF Source
  <2>2. Waiting = input /\ <<>> \o Tail(input) = Tail(input)
    BY <1>2, <2>1, WaitingType, ConcatEmptySeq DEF Waiting
  <2> QED BY <1>2, <2>1, <2>2 DEF Message, next_server_message, Waiting
<1> QED BY <1>1, <1>2

\* next_server_message takes a message of the stream.
LEMMA StreamTaken ==
    ASSUME Flow, next_server_message, IsStream(Message)
    PROVE  /\ InOrder(Waiting, handed, sent)' /\ handed < sent /\ handed' = handed + 1
           /\ InStream' \subseteq InStream /\ Message \in InStream
           /\ \A m \in InStream' : Message.n < m.n
<1>1. Source # <<>> /\ handed' = handed + 1 /\ sent' = sent
  BY DEF next_server_message, server
<1>2. Waiting # <<>> /\ Message = Head(Waiting) /\ Waiting' = Tail(Waiting)
  BY <1>1, SourceIsHead DEF Flow
<1>3. /\ InOrder(Tail(Waiting), handed + 1, sent)
      /\ In(Tail(Waiting)) \subseteq In(Waiting) /\ Head(Waiting) \in In(Waiting)
      /\ \A m \in In(Tail(Waiting)) : Head(Waiting).n < m.n
      /\ handed < sent
  BY <1>2, WaitingType, TakeStream DEF Flow
<1>4. InOrder(Waiting', handed', sent') /\ In(Waiting') \subseteq In(Waiting)
      /\ \A m \in In(Waiting') : Message.n < m.n
  BY <1>1, <1>2, <1>3
<1> QED BY <1>1, <1>2, <1>3, <1>4 DEF InStream, InOrder, In, Stream, IsStream

\* next_server_message takes what is not of the stream.
LEMMA OtherTaken ==
    ASSUME Flow, next_server_message, ~IsStream(Message)
    PROVE  InOrder(Waiting, handed, sent)' /\ InStream' = InStream
<1>1. Source # <<>> /\ handed' = handed /\ sent' = sent
  BY DEF next_server_message, server
<1>2. Waiting # <<>> /\ Message = Head(Waiting) /\ Waiting' = Tail(Waiting)
  BY <1>1, SourceIsHead DEF Flow
<1> DEFINE w == Tail(Waiting)
<1>3. /\ w \in Seq(Messages) /\ Head(Waiting) = Waiting[1] /\ Len(w) = Len(Waiting) - 1
      /\ Len(Waiting) \in Nat /\ Len(Waiting) > 0
      /\ \A i \in 1 .. Len(w) : w[i] = Waiting[i + 1]
  BY <1>2, WaitingType, HeadTailProperties DEF Flow
<1> HIDE DEF w
<1>4. Removed(Waiting, 1, w) /\ 1 \in 1 .. Len(Waiting)
  BY <1>3 DEF Removed
<1>5. InOrder(w, handed, sent) /\ In(w) = In(Waiting)
  <2>1. ~IsStream(Waiting[1])
    BY <1>2, <1>3
  <2>2. InOrder(Waiting, handed, sent) /\ handed \in Nat /\ sent \in Nat /\ Waiting \in Seq(Messages)
    BY WaitingType DEF Flow
  <2> QED BY <1>3, <1>4, <2>1, <2>2, RemoveOther
<1>6. InOrder(Waiting', handed', sent') /\ In(Waiting') = In(Waiting)
  BY <1>1, <1>2, <1>5 DEF w
<1> QED BY <1>6 DEF InStream, InOrder, In, Stream, IsStream

---------------------------------------------------------------------------
\* What is told of a question and of a turn.
IsPending(ask) == \E id \in DOMAIN pending : pending[id] = ask
ToldTurns == finished \cup {queued_events[i] : i \in DOMAIN queued_events}

\* Where a question can be: asked once in the stream, not yet pending when asked
\* there, pending under one id, refused and not replied to.
AskedOnce ==
    \A m1, m2 \in InStream :
        m1.kind = "ask" /\ m2.kind = "ask" /\ m1.of = m2.of => m1.n = m2.n
AsksFit ==
    \A m \in InStream : m.kind = "ask" =>
        asked[m.of] # "no" /\ replies[m.of] = 0 /\ refused # m.of /\ ~IsPending(m.of)
PendingFit ==
    \A id \in DOMAIN pending :
        /\ asked[pending[id]] # "no" /\ replies[pending[id]] = 0
        /\ \A other \in DOMAIN pending : pending[other] = pending[id] => other = id
RefusedFits == refused # None => asked[refused] # "no" /\ replies[refused] = 0
RepliesFit ==
    \A ask \in Asks : replies[ask] <= 1 /\ (asked[ask] = "no" => replies[ask] = 0)
\* A turn is completed after all that is asked in it, and told after it is.
CompletedLast ==
    \A m \in InStream : m.kind = "completed" =>
        /\ turns[m.of] = "completed"
        /\ \A other \in InStream :
              \/ other.kind = "completed" /\ other.of = m.of
              \/ other.kind = "ask" /\ TurnOf[other.of] = m.of
              => other.n <= m.n
ToldAsLast ==
    \A turn \in Turns : turn \in ToldTurns =>
        /\ turns[turn] = "completed"
        /\ \A m \in InStream : /\ m.kind = "completed" => m.of # turn
                               /\ m.kind = "ask" => TurnOf[m.of] # turn
        /\ \A id \in DOMAIN pending : TurnOf[pending[id]] # turn
\* A running child has a client.
Reaped == /\ life = "new" => child = "absent"
          /\ child = "running" => life \notin {"new", "gone"}
Questioning ==
    /\ AskedOnce /\ AsksFit /\ PendingFit /\ RefusedFits /\ RepliesFit
    /\ CompletedLast /\ ToldAsLast /\ ShownIsPending
IInv == Flow /\ Questioning /\ Reaped

\* Messages that leave the stream leave the questions as they are.
LEMMA LessOnTheWay ==
    ASSUME Questioning, InStream' \subseteq InStream,
           UNCHANGED <<pending, refused, turns, asked, replies, finished, queued_events, shown>>
    PROVE  Questioning'
<1>1. AskedOnce'
  BY DEF Questioning, AskedOnce
<1>2. AsksFit'
  BY DEF Questioning, AsksFit, IsPending
<1>3. PendingFit' /\ RefusedFits' /\ RepliesFit'
  BY DEF Questioning, PendingFit, RefusedFits, RepliesFit
<1>4. CompletedLast'
  BY DEF Questioning, CompletedLast
<1>5. ToldAsLast'
  BY DEF Questioning, ToldAsLast, ToldTurns
<1>6. ShownIsPending'
  BY DEF Questioning, ShownIsPending, QuestionsOn
<1> QED BY <1>1, <1>2, <1>3, <1>4, <1>5, <1>6 DEF Questioning

\* A new subscription.
LEMMA NothingPending ==
    ASSUME Questioning, InStream' \subseteq InStream,
           UNCHANGED <<refused, turns, asked, replies, finished>>,
           pending' = << >>, queued_events' = <<>>, shown' = [thread \in Threads |-> {}]
    PROVE  Questioning'
<1>0. DOMAIN pending' = {} /\ DOMAIN queued_events' = {}
  OBVIOUS
<1>1. AskedOnce'
  BY DEF Questioning, AskedOnce
<1>2. AsksFit'
  BY <1>0 DEF Questioning, AsksFit, IsPending
<1>3. PendingFit' /\ RefusedFits' /\ RepliesFit'
  BY <1>0 DEF Questioning, PendingFit, RefusedFits, RepliesFit
<1>4. CompletedLast'
  BY DEF Questioning, CompletedLast
<1>5. ToldAsLast'
  BY <1>0 DEF Questioning, ToldAsLast, ToldTurns
<1>6. ShownIsPending'
  BY <1>0 DEF ShownIsPending, QuestionsOn
<1> QED BY <1>1, <1>2, <1>3, <1>4, <1>5, <1>6 DEF Questioning

\* What a message of the stream is of.
LEMMA TypedMessages ==
    ASSUME TypeOK, NEW m \in InStream
    PROVE  /\ m.n \in Nat
           /\ m.kind = "ask" => m.of \in Asks
           /\ m.kind = "resolved" => m.of \in Asks
           /\ m.kind = "completed" => m.of \in Turns
<1>1. m \in Messages
  BY InStreamType
<1> QED BY <1>1, MessageFacts

\* What the app-server sends is a message.
LEMMA NotificationType ==
    ASSUME TypeOK, sent < MaxSent, NEW kind \in StreamKinds, NEW of,
           kind \in {"item", "completed"} => of \in Turns,
           kind \in {"ask", "resolved"} => of \in Asks
    PROVE  /\ Notification(kind, of) \in Messages
           /\ Notification(kind, of).kind = kind /\ Notification(kind, of).of = of
           /\ Notification(kind, of).n = sent + 1
BY BoundsAssumption DEF TypeOK, StreamKinds, Notification, Messages

\* An item, or that a question is settled.
LEMMA NewsQuestions ==
    ASSUME Questioning, NEW m, InStream' \subseteq InStream \cup {m}, m.kind \in {"item",
           "resolved"},
           UNCHANGED <<pending, refused, replies, finished, queued_events, shown>>,
           \A turn \in Turns : turns[turn] = "completed" => turns'[turn] = "completed",
           \A ask \in Asks : asked[ask] # "no" <=> asked'[ask] # "no", TypeOK
    PROVE  Questioning'
<1>0. \A x \in InStream' : x.kind \in {"ask", "completed"} => x \in InStream
  OBVIOUS
<1>t. \A x \in InStream : /\ x.kind = "ask" => x.of \in Asks
                          /\ x.kind = "completed" => x.of \in Turns
  BY InStreamType, MessageFacts
<1>1. AskedOnce'
  BY <1>0 DEF Questioning, AskedOnce
<1>2. AsksFit'
  BY <1>0, <1>t DEF Questioning, AsksFit, IsPending
<1>3. PendingFit' /\ RefusedFits' /\ RepliesFit'
  <2>1. \A id \in DOMAIN pending : pending[id] \in Asks
    BY StreamAssumption DEF TypeOK
  <2>2. refused # None => refused \in Asks
    BY DEF TypeOK
  <2>3. PendingFit'
    BY <2>1 DEF Questioning, PendingFit
  <2>4. RefusedFits'
    BY <2>2 DEF Questioning, RefusedFits
  <2>5. RepliesFit'
    BY DEF Questioning, RepliesFit
  <2> QED BY <2>3, <2>4, <2>5
<1>4. CompletedLast'
  BY <1>0, <1>t DEF Questioning, CompletedLast
<1>5. ToldAsLast'
  BY <1>0, <1>t DEF Questioning, ToldAsLast, ToldTurns
<1>6. ShownIsPending'
  BY DEF Questioning, ShownIsPending, QuestionsOn
<1> QED BY <1>1, <1>2, <1>3, <1>4, <1>5, <1>6 DEF Questioning

\* The types that the steps on questions rest on.
LEMMA TypedStream ==
    ASSUME TypeOK
    PROVE  /\ \A m \in InStream : /\ m.kind \in {"ask", "resolved"} => m.of \in Asks
                                  /\ m.kind \in {"item", "completed"} => m.of \in Turns
                                 /\ m.n \in Nat
           /\ \A id \in DOMAIN pending : pending[id] \in Supported /\ pending[id] \in Asks
           /\ refused # None => refused \in Asks \ Supported
           /\ \A ask \in Asks : TurnOf[ask] \in Turns /\ ThreadOf[TurnOf[ask]] \in Threads
           /\ \A turn \in Turns : ThreadOf[turn] \in Threads
<1>1. \A m \in InStream : /\ m.kind \in {"ask", "resolved"} => m.of \in Asks
                          /\ m.kind \in {"item", "completed"} => m.of \in Turns
                          /\ m.n \in Nat
  BY InStreamType, MessageFacts
<1>2. \A id \in DOMAIN pending : pending[id] \in Supported /\ pending[id] \in Asks
  BY StreamAssumption DEF TypeOK
<1>3. refused # None => refused \in Asks \ Supported
  BY DEF TypeOK
<1>4. /\ \A ask \in Asks : TurnOf[ask] \in Turns /\ ThreadOf[TurnOf[ask]] \in Threads
      /\ \A turn \in Turns : ThreadOf[turn] \in Threads
  BY StreamAssumption
<1> QED BY <1>1, <1>2, <1>3, <1>4

\* The steps of the app-server: a turn starts,
LEMMA StartStep ==
    ASSUME IInv, NEW turn \in Turns, ServerStartsTurn(turn)
    PROVE  InOrder(Waiting, handed, sent)' /\ Questioning'
<1>1. /\ Emit("item", turn) /\ sent < MaxSent /\ UNCHANGED asked
      /\ UNCHANGED <<pending, refused, replies, finished, queued_events, shown>>
  BY DEF ServerStartsTurn, Emit, subscription, owner
<1>2. \A t \in Turns : turns[t] = "completed" => turns'[t] = "completed"
  BY DEF ServerStartsTurn, IInv, Flow, TypeOK
<1>3. "item" \in StreamKinds
  BY DEF StreamKinds
<1>4. Notification("item", turn) \in Messages /\ Notification("item", turn).kind = "item"
  BY <1>1, <1>3, NotificationType DEF IInv, Flow
<1>5. InOrder(Waiting, handed, sent)' /\ InStream' = InStream \cup {Notification("item", turn)}
  BY <1>1, <1>3, <1>4, Emitted DEF IInv
<1> QED BY <1>1, <1>2, <1>4, <1>5, NewsQuestions DEF IInv, Flow

\* a question is settled,
LEMMA SettledStep ==
    ASSUME IInv, NEW ask \in Asks, ServerResolves(ask)
    PROVE  InOrder(Waiting, handed, sent)' /\ Questioning'
<1>1. /\ Emit("resolved", ask) /\ sent < MaxSent /\ UNCHANGED turns
      /\ UNCHANGED <<pending, refused, replies, finished, queued_events, shown>>
  BY DEF ServerResolves, Emit, subscription, owner
<1>2. \A other \in Asks : asked[other] # "no" <=> asked'[other] # "no"
  BY DEF ServerResolves, IInv, Flow, TypeOK
<1>3. "resolved" \in StreamKinds
  BY DEF StreamKinds
<1>4. Notification("resolved", ask) \in Messages /\ Notification("resolved", ask).kind = "resolved"
  BY <1>1, <1>3, NotificationType DEF IInv, Flow
<1>5. InOrder(Waiting, handed, sent)' /\ InStream' = InStream \cup {Notification("resolved", ask)}
  BY <1>1, <1>3, <1>4, Emitted DEF IInv
<1> QED BY <1>1, <1>2, <1>4, <1>5, NewsQuestions DEF IInv, Flow

\* a question is asked,
LEMMA AskStep ==
    ASSUME IInv, NEW ask \in Asks, ServerAsks(ask)
    PROVE  InOrder(Waiting, handed, sent)' /\ Questioning'
<1> DEFINE m == Notification("ask", ask)
<1>1. /\ Emit("ask", ask) /\ sent < MaxSent
      /\ UNCHANGED <<turns, pending, refused, replies, finished, queued_events, shown>>
  BY DEF ServerAsks, Emit, subscription, owner
<1>2. "ask" \in StreamKinds
  BY DEF StreamKinds
<1>3. m \in Messages /\ m.kind = "ask" /\ m.of = ask /\ m.n = sent + 1
  BY <1>1, <1>2, NotificationType DEF IInv, Flow
<1>4. InOrder(Waiting, handed, sent)' /\ InStream' = InStream \cup {m}
  BY <1>1, <1>2, <1>3, Emitted DEF IInv
<1>5. /\ asked[ask] = "no" /\ turns[TurnOf[ask]] = "running"
      /\ asked'[ask] # "no" /\ \A other \in Asks : other # ask => asked'[other] = asked[other]
  BY DEF ServerAsks, IInv, Flow, TypeOK
<1>6. TypeOK /\ Questioning /\ sent \in Nat /\ \A x \in InStream : x.n <= sent
  BY StreamUnique, WaitingType DEF IInv, Flow
<1> HIDE DEF m
<1>7. \A x \in InStream' : x.kind = "ask" /\ x.of = ask => x = m
  BY <1>4, <1>5, <1>6 DEF Questioning, AsksFit
<1>8. replies[ask] = 0 /\ refused # ask /\ ~IsPending(ask)
  <2>1. replies[ask] = 0
    BY <1>5, <1>6 DEF Questioning, RepliesFit
  <2>2. ~IsPending(ask)
    BY <1>5, <1>6 DEF Questioning, PendingFit, IsPending
  <2>3. refused # ask
    BY <1>5, <1>6, NoneAssumption DEF Questioning, RefusedFits
  <2> QED BY <2>1, <2>2, <2>3
<1>9. AskedOnce'
  BY <1>3, <1>4, <1>6, <1>7 DEF Questioning, AskedOnce
<1>10. AsksFit'
  <2> SUFFICES ASSUME NEW x \in InStream', x.kind = "ask"
               PROVE  asked'[x.of] # "no" /\ replies'[x.of] = 0 /\ refused' # x.of /\ ~IsPending(x.of)'
    BY DEF AsksFit
  <2>1. CASE x = m
    BY <2>1, <1>1, <1>3, <1>5, <1>8 DEF IsPending
  <2>2. CASE x \in InStream
    <3>1. x.of \in Asks /\ asked[x.of] # "no" /\ replies[x.of] = 0 /\ refused # x.of /\ ~IsPending(x.of)
      <4>1. x.of \in Asks
        BY <2>2, <1>6, TypedMessages
      <4> QED BY <4>1, <2>2, <1>6 DEF Questioning, AsksFit
    <3> QED BY <3>1, <1>1, <1>5 DEF IsPending
  <2> QED BY <2>1, <2>2, <1>4
<1>11. PendingFit' /\ RefusedFits' /\ RepliesFit'
  BY <1>1, <1>5, <1>6, TypedStream DEF Questioning, PendingFit, RefusedFits, RepliesFit
<1>12. CompletedLast'
  BY <1>1, <1>3, <1>4, <1>5, <1>6, TypedStream DEF Questioning, CompletedLast
<1>13. ToldAsLast'
  BY <1>1, <1>3, <1>4, <1>5, <1>6, TypedStream DEF Questioning, ToldAsLast, ToldTurns
<1>14. ShownIsPending'
  BY <1>1, <1>6 DEF Questioning, ShownIsPending, QuestionsOn
<1> QED BY <1>4, <1>9, <1>10, <1>11, <1>12, <1>13, <1>14 DEF Questioning

\* a turn is completed.
LEMMA CompletionStep ==
    ASSUME IInv, NEW turn \in Turns, ServerCompletesTurn(turn)
    PROVE  InOrder(Waiting, handed, sent)' /\ Questioning'
<1> DEFINE m == Notification("completed", turn)
<1>1. /\ Emit("completed", turn) /\ sent < MaxSent
      /\ UNCHANGED <<asked, pending, refused, replies, finished, queued_events, shown>>
  BY DEF ServerCompletesTurn, Emit, subscription, owner
<1>2. "completed" \in StreamKinds
  BY DEF StreamKinds
<1>3. m \in Messages /\ m.kind = "completed" /\ m.of = turn /\ m.n = sent + 1
  BY <1>1, <1>2, NotificationType DEF IInv, Flow
<1>4. InOrder(Waiting, handed, sent)' /\ InStream' = InStream \cup {m}
  BY <1>1, <1>2, <1>3, Emitted DEF IInv
<1>5. /\ turns[turn] = "running" /\ turns'[turn] = "completed"
      /\ \A other \in Turns : other # turn => turns'[other] = turns[other]
  BY DEF ServerCompletesTurn, IInv, Flow, TypeOK
<1>6. TypeOK /\ Questioning /\ sent \in Nat /\ \A x \in InStream : x.n <= sent
  BY StreamUnique, WaitingType DEF IInv, Flow
<1> HIDE DEF m
<1>7. turn \notin ToldTurns /\ \A x \in InStream : x.kind = "completed" => x.of # turn
  BY <1>5, <1>6 DEF Questioning, CompletedLast, ToldAsLast
<1>9. AskedOnce'
  BY <1>3, <1>4, <1>6 DEF Questioning, AskedOnce
<1>10. AsksFit'
  BY <1>1, <1>3, <1>4, <1>6 DEF Questioning, AsksFit, IsPending
<1>11. PendingFit' /\ RefusedFits' /\ RepliesFit'
  BY <1>1, <1>6 DEF Questioning, PendingFit, RefusedFits, RepliesFit
<1>12. CompletedLast'
  <2> SUFFICES ASSUME NEW x \in InStream', x.kind = "completed"
               PROVE  /\ turns'[x.of] = "completed"
                      /\ \A other \in InStream' :
                            \/ other.kind = "completed" /\ other.of = x.of
                            \/ other.kind = "ask" /\ TurnOf[other.of] = x.of
                            => other.n <= x.n
    BY <1>1 DEF CompletedLast
  <2>1. CASE x = m
    <3>1. \A other \in InStream' : other.n <= x.n
      <4>1. \A other \in InStream : other.n \in Nat /\ other.n <= sent
        BY <1>6, TypedMessages
      <4> QED BY <4>1, <2>1, <1>3, <1>4, <1>6
    <3> QED BY <3>1, <2>1, <1>3, <1>5
  <2>2. CASE x \in InStream
    <3>1. /\ x.of \in Turns /\ x.of # turn /\ turns[x.of] = "completed"
          /\ \A other \in InStream :
                \/ other.kind = "completed" /\ other.of = x.of
                \/ other.kind = "ask" /\ TurnOf[other.of] = x.of
                => other.n <= x.n
      BY <2>2, <1>6, <1>7, TypedStream DEF Questioning, CompletedLast
    <3> QED BY <3>1, <1>3, <1>4, <1>5
  <2> QED BY <2>1, <2>2, <1>4
<1>13. ToldAsLast'
  BY <1>1, <1>3, <1>4, <1>5, <1>6, <1>7, TypedStream DEF Questioning, ToldAsLast, ToldTurns
<1>14. ShownIsPending'
  BY <1>1, <1>6 DEF Questioning, ShownIsPending, QuestionsOn
<1> QED BY <1>4, <1>9, <1>10, <1>11, <1>12, <1>13, <1>14 DEF Questioning

\* What the owner's event loop reads.

LEMMA QueuedStep ==
    ASSUME IInv, NextQueuedEvent
    PROVE  Questioning'
<1> DEFINE turn == Head(queued_events)
<1>1. /\ finished' = finished \cup {turn} /\ queued_events' = Tail(queued_events)
      /\ UNCHANGED <<pending, refused, replies, turns, asked, shown>>
      /\ InStream' = InStream
  BY DEF NextQueuedEvent, connection, server, InStream, Waiting, In, Stream, IsStream
<1>2. TypeOK /\ Questioning /\ queued_events \in Seq(Turns) /\ queued_events # <<>>
  BY DEF IInv, Flow, TypeOK, NextQueuedEvent
<1>3. turn \in Turns /\ \A t \in Turns : t \in ToldTurns' => t \in ToldTurns
  <2>1. turn = queued_events[1] /\ 1 \in DOMAIN queued_events /\ turn \in Turns
    BY <1>2
  <2>2. \A i \in DOMAIN Tail(queued_events) :
           i + 1 \in DOMAIN queued_events /\ Tail(queued_events)[i] = queued_events[i + 1]
    BY <1>2, HeadTailProperties
  <2> QED BY <1>1, <2>1, <2>2 DEF ToldTurns
<1>4. ToldAsLast'
  BY <1>1, <1>2, <1>3 DEF Questioning, ToldAsLast
<1>5. AskedOnce' /\ AsksFit' /\ PendingFit' /\ RefusedFits' /\ RepliesFit' /\ CompletedLast'
  BY <1>1, <1>2 DEF Questioning, AskedOnce, AsksFit, IsPending, PendingFit, RefusedFits,
                    RepliesFit, CompletedLast
<1>6. ShownIsPending'
  BY <1>1, <1>2 DEF Questioning, ShownIsPending, QuestionsOn
<1> QED BY <1>4, <1>5, <1>6 DEF Questioning

\* A finished turn keeps having no question.
LEMMA TurnsStayTold ==
    ASSUME Questioning, NEW ids, pending' = Without(ids), InStream' \subseteq InStream,
           UNCHANGED <<turns, finished, queued_events>>
    PROVE  ToldAsLast'
<1>1. \A id \in DOMAIN pending' : id \in DOMAIN pending /\ pending'[id] = pending[id]
  BY DEF Without, Restrict
<1> QED BY <1>1 DEF Questioning, ToldAsLast, ToldTurns

\* A question is taken out of those pending, by the app-server's word or with
\* its turn, or because it is answered.
LEMMA Withdrawn ==
    ASSUME Questioning, TypeOK, NEW ids, ids \subseteq DOMAIN pending, pending' = Without(ids),
           InStream' \subseteq InStream,
           UNCHANGED <<refused, turns, asked>>,
           NEW thread, \A id \in ids : ThreadOf[TurnOf[pending[id]]] = thread,
           \/ shown' = [shown EXCEPT ![thread] = QuestionsOn(pending', thread)]
           \/ ids = {} /\ shown' = shown,
           \A ask \in Asks : \/ replies'[ask] = replies[ask]
                            \/ \E id \in ids : pending[id] = ask /\ replies'[ask] = replies[ask] + 1,
           ToldAsLast'
    PROVE  Questioning'
<1>1. /\ DOMAIN pending' = (DOMAIN pending) \ ids
      /\ \A id \in DOMAIN pending' : id \in DOMAIN pending /\ pending'[id] = pending[id]
  BY DEF Without, Restrict
<1>2. \A ask \in Asks : (\A id \in ids : pending[id] # ask) => replies'[ask] = replies[ask]
  OBVIOUS
<1>3. AskedOnce'
  BY DEF Questioning, AskedOnce
<1>4. AsksFit'
  <2> SUFFICES ASSUME NEW x \in InStream', x.kind = "ask"
               PROVE  asked'[x.of] # "no" /\ replies'[x.of] = 0 /\ refused' # x.of /\ ~IsPending(x.of)'
    BY DEF AsksFit
  <2>1. x.of \in Asks
    BY TypedMessages
  <2>2. asked[x.of] # "no" /\ replies[x.of] = 0 /\ refused # x.of /\ ~IsPending(x.of)
    BY DEF Questioning, AsksFit
  <2> QED BY <1>1, <1>2, <2>1, <2>2 DEF IsPending
<1>5. PendingFit'
  BY <1>1, <1>2, TypedStream DEF Questioning, PendingFit
<1>6. RefusedFits'
  BY <1>2, TypedStream DEF Questioning, RefusedFits
<1>7. RepliesFit'
  BY TypedStream DEF Questioning, RepliesFit, PendingFit
<1>8. CompletedLast'
  BY DEF Questioning, CompletedLast
<1>10. ShownIsPending'
  <2> SUFFICES ASSUME NEW other \in Threads PROVE shown'[other] = QuestionsOn(pending', other)
    BY DEF ShownIsPending, QuestionsOn
  <2>1. shown[other] = QuestionsOn(pending, other)
    BY DEF Questioning, ShownIsPending
  <2>2. CASE other = thread /\ ids # {}
    BY <2>2 DEF TypeOK
  <2>3. CASE other # thread \/ ids = {}
    <3>1. shown'[other] = shown[other] \/ (ids = {} /\ shown'[other] = QuestionsOn(pending', other))
      BY <2>3 DEF TypeOK
    <3>2. QuestionsOn(pending', other) = QuestionsOn(pending, other)
      BY <1>1, <2>3 DEF QuestionsOn
    <3> QED BY <2>1, <3>1, <3>2
  <2> QED BY <2>2, <2>3
<1> QED BY <1>3, <1>4, <1>5, <1>6, <1>7, <1>8, <1>10 DEF Questioning

\* The steps of the event loop: it learns that a question is settled,
LEMMA ResolvedStep ==
    ASSUME IInv, NextResolved
    PROVE  InOrder(Waiting, handed, sent)' /\ Questioning'
<1> DEFINE ids == remove_external(Message.of)
           thread == ThreadOf[TurnOf[Message.of]]
<1>1. /\ next_server_message /\ Message.kind = "resolved" /\ pending' = Without(ids)
      /\ UNCHANGED <<refused, turns, asked, finished, replies, queued_events>>
      /\ IF ids = {} THEN UNCHANGED shown ELSE update_event(thread)
  BY DEF NextResolved, next_server_message, server
<1>2. IsStream(Message) /\ TypeOK /\ Questioning
  BY <1>1 DEF IsStream, StreamKinds, IInv, Flow
<1>3. InOrder(Waiting, handed, sent)' /\ InStream' \subseteq InStream
  BY <1>1, <1>2, StreamTaken DEF IInv
<1>4. ids \subseteq DOMAIN pending /\ \A id \in ids : ThreadOf[TurnOf[pending[id]]] = thread
  BY DEF remove_external
<1> HIDE DEF ids, thread
<1>5. ToldAsLast'
  BY <1>1, <1>2, <1>3, TurnsStayTold
<1> QED BY <1>1, <1>2, <1>3, <1>4, <1>5, Withdrawn DEF update_event

\* that a turn is completed,
LEMMA CompletedStep ==
    ASSUME IInv, NextCompleted
    PROVE  InOrder(Waiting, handed, sent)' /\ Questioning'
<1> DEFINE done == Message.of
           ids == finish_turn(done)
           thread == ThreadOf[done]
<1>1. /\ next_server_message /\ Message.kind = "completed" /\ pending' = Without(ids)
      /\ UNCHANGED <<refused, turns, asked, replies>>
      /\ queued_events = <<>>
  BY DEF NextCompleted, next_server_message, server
<1>2. \/ ids = {} /\ finished' = finished \cup {done} /\ UNCHANGED <<queued_events, shown>>
      \/ queued_events' = Append(queued_events, done) /\ update_event(thread) /\ UNCHANGED finished
  BY DEF NextCompleted
<1>3. IsStream(Message) /\ TypeOK /\ Questioning
  BY <1>1 DEF IsStream, StreamKinds, IInv, Flow
<1>4. /\ InOrder(Waiting, handed, sent)' /\ InStream' \subseteq InStream /\ Message \in InStream
      /\ \A m \in InStream' : Message.n < m.n
  BY <1>1, <1>3, StreamTaken DEF IInv
<1>5. ids \subseteq DOMAIN pending /\ \A id \in ids : ThreadOf[TurnOf[pending[id]]] = thread
  BY DEF finish_turn
<1>6. \A id \in DOMAIN pending : TurnOf[pending[id]] = done => id \in ids
  BY DEF finish_turn
<1>7. \A m \in InStream' : /\ m.kind = "completed" => m.of # done
                           /\ m.kind = "ask" => TurnOf[m.of] # done
  <2> SUFFICES ASSUME NEW m \in InStream',
                      ~ (/\ m.kind = "completed" => m.of # done
                         /\ m.kind = "ask" => TurnOf[m.of] # done)
               PROVE  FALSE
    OBVIOUS
  <2> HIDE DEF done
  <2>1. m \in InStream /\ Message.n < m.n /\ m.n \in Nat /\ Message.n \in Nat
    BY <1>3, <1>4, TypedMessages
  <2>2. m.n <= Message.n
    BY <2>1, <1>1, <1>3, <1>4 DEF Questioning, CompletedLast, done
  <2> QED BY <2>1, <2>2
<1>8. done \in Turns /\ turns[done] = "completed"
  BY <1>1, <1>3, <1>4, TypedStream DEF Questioning, CompletedLast
<1>9. \A t \in Turns : t \in ToldTurns' => t \in ToldTurns \/ t = done
  <2>1. \A i \in DOMAIN <<done>> : <<done>>[i] = done
    OBVIOUS
  <2>2. Append(<<>>, done) = <<done>> /\ DOMAIN <<>> = {}
    OBVIOUS
  <2> QED BY <1>1, <1>2, <2>1, <2>2 DEF ToldTurns
<1>10. \/ shown' = [shown EXCEPT ![thread] = QuestionsOn(pending', thread)]
       \/ ids = {} /\ shown' = shown
  BY <1>2 DEF update_event
<1> HIDE DEF ids, thread, done
<1>11. \A ask \in Asks : replies'[ask] = replies[ask]
  BY <1>1
<1>12. ToldAsLast'
  <2>1. \A id \in DOMAIN pending' : id \in DOMAIN pending /\ pending'[id] = pending[id] /\ id \notin ids
    BY <1>1 DEF Without, Restrict
  <2>2. \A t \in Turns : t \in ToldTurns =>
           /\ turns'[t] = "completed"
           /\ \A m \in InStream' : /\ m.kind = "completed" => m.of # t
                                   /\ m.kind = "ask" => TurnOf[m.of] # t
           /\ \A id \in DOMAIN pending' : TurnOf[pending'[id]] # t
    BY <2>1, <1>1, <1>3, <1>4 DEF Questioning, ToldAsLast
  <2>3. /\ turns'[done] = "completed"
        /\ \A m \in InStream' : /\ m.kind = "completed" => m.of # done
                                /\ m.kind = "ask" => TurnOf[m.of] # done
        /\ \A id \in DOMAIN pending' : TurnOf[pending'[id]] # done
    BY <2>1, <1>1, <1>6, <1>7, <1>8
  <2>4. \A t \in Turns : t \in ToldTurns' =>
           /\ turns'[t] = "completed"
           /\ \A m \in InStream' : /\ m.kind = "completed" => m.of # t
                                   /\ m.kind = "ask" => TurnOf[m.of] # t
           /\ \A id \in DOMAIN pending' : TurnOf[pending'[id]] # t
    BY <2>2, <2>3, <1>9
  <2> QED BY <2>4 DEF ToldAsLast
<1>13. Questioning'
  BY <1>1, <1>3, <1>4, <1>5, <1>10, <1>11, <1>12, Withdrawn
<1> QED BY <1>4, <1>13

\* of an item,
LEMMA ItemStep ==
    ASSUME IInv, NextItem
    PROVE  InOrder(Waiting, handed, sent)' /\ Questioning'
<1>1. /\ next_server_message
      /\ UNCHANGED <<pending, refused, turns, asked, replies, finished, queued_events, shown>>
  BY DEF NextItem, next_server_message, subscription, server
<1>2. InOrder(Waiting, handed, sent)' /\ InStream' \subseteq InStream
  BY <1>1, StreamTaken, OtherTaken DEF IInv
<1> QED BY <1>1, <1>2, LessOnTheWay DEF IInv

\* it answers a question,
LEMMA AnswerStep ==
    ASSUME IInv, NEW id \in InteractionIds, NEW body, resolve(id, body)
    PROVE  Questioning'
<1> DEFINE thread == ThreadOf[TurnOf[pending[id]]]
           ids == {id}
<1>1. /\ id \in DOMAIN pending /\ pending' = Without(ids) /\ update_event(thread)
      /\ replies' = [replies EXCEPT ![pending[id]] = @ + 1]
      /\ UNCHANGED <<refused, turns, asked, finished, queued_events>> /\ InStream' = InStream
  BY DEF resolve, connection, server, InStream, Waiting, In, Stream, IsStream
<1>2. TypeOK /\ Questioning
  BY DEF IInv, Flow
<1>3. \A ask \in Asks : \/ replies'[ask] = replies[ask]
                        \/ \E i \in ids : pending[i] = ask /\ replies'[ask] = replies[ask] + 1
  BY <1>1, <1>2, TypedStream DEF TypeOK
<1>4. ToldAsLast'
  BY <1>1, <1>2, TurnsStayTold
<1>5. ids \subseteq DOMAIN pending /\ \A i \in ids : ThreadOf[TurnOf[pending[i]]] = thread
  BY <1>1
<1> HIDE DEF thread, ids
<1> QED BY <1>1, <1>2, <1>3, <1>4, <1>5, Withdrawn DEF update_event

\* refuses one,
LEMMA RefusalStep ==
    ASSUME IInv, RefuseQuestion
    PROVE  Questioning'
<1>1. /\ refused # None /\ refused' = None
      /\ UNCHANGED <<pending, turns, asked, finished, queued_events, shown>> /\ InStream' = InStream
  BY DEF RefuseQuestion, connection, server, InStream, Waiting, In, Stream, IsStream
<1>2. TypeOK /\ Questioning
  BY DEF IInv, Flow
<1>3. /\ refused \in Asks \ Supported /\ replies[refused] = 0 /\ asked[refused] # "no"
      /\ \A ask \in Asks : ask # refused => replies'[ask] = replies[ask]
      /\ replies'[refused] <= 1
  BY <1>1, <1>2, TypedStream DEF RefuseQuestion, TypeOK, Questioning, RefusedFits
<1>4. AskedOnce' /\ CompletedLast' /\ RefusedFits'
  BY <1>1, <1>2 DEF Questioning, AskedOnce, CompletedLast, RefusedFits
<1>5. AsksFit'
  <2> SUFFICES ASSUME NEW x \in InStream, x.kind = "ask"
               PROVE  asked'[x.of] # "no" /\ replies'[x.of] = 0 /\ refused' # x.of /\ ~IsPending(x.of)'
    BY <1>1 DEF AsksFit
  <2>1. x.of \in Asks
    BY <1>2, TypedMessages
  <2>2. asked[x.of] # "no" /\ replies[x.of] = 0 /\ refused # x.of /\ ~IsPending(x.of)
    BY <1>2 DEF Questioning, AsksFit
  <2> QED BY <1>1, <1>3, <2>1, <2>2, NoneAssumption DEF IsPending
<1>6. PendingFit'
  BY <1>1, <1>2, <1>3, TypedStream DEF Questioning, PendingFit
<1>7. RepliesFit'
  BY <1>1, <1>2, <1>3 DEF Questioning, RepliesFit
<1>8. ToldAsLast'
  BY <1>1, <1>2 DEF Questioning, ToldAsLast, ToldTurns
<1>9. ShownIsPending'
  BY <1>1, <1>2 DEF Questioning, ShownIsPending, QuestionsOn
<1> QED BY <1>4, <1>5, <1>6, <1>7, <1>8, <1>9 DEF Questioning

\* and is asked one.
LEMMA QuestionStep ==
    ASSUME IInv, NextQuestion
    PROVE  InOrder(Waiting, handed, sent)' /\ Questioning'
<1> DEFINE ask == Message.of
           new == allocate_interaction_id
<1>1. /\ next_server_message /\ Message.kind = "ask"
      /\ UNCHANGED <<turns, asked, finished, queued_events, replies>>
  BY DEF NextQuestion, next_server_message, server
<1>2. IsStream(Message) /\ TypeOK /\ Questioning
  BY <1>1 DEF IsStream, StreamKinds, IInv, Flow
<1>3. /\ InOrder(Waiting, handed, sent)' /\ InStream' \subseteq InStream /\ Message \in InStream
      /\ \A m \in InStream' : Message.n < m.n
  BY <1>1, <1>2, StreamTaken DEF IInv
<1>4. new \in InteractionIds /\ new \notin DOMAIN pending
  <2>1. PICK id \in InteractionIds : Unused(id)
    BY DEF NextQuestion
  <2>2. new \in InteractionIds /\ Unused(new)
    BY <2>1, <1>2, InteractionIdAssumption, AllocationIsUnused DEF TypeOK
  <2> QED BY <2>2 DEF Unused
<1>5. /\ ask \in Asks /\ asked[ask] # "no" /\ replies[ask] = 0 /\ refused = None
      /\ \A id \in DOMAIN pending : pending[id] # ask
  <2>1. ask \in Asks
    BY <1>1, <1>2, <1>3, TypedMessages
  <2>2. asked[ask] # "no" /\ replies[ask] = 0 /\ ~IsPending(ask)
    BY <1>1, <1>2, <1>3 DEF Questioning, AsksFit
  <2>3. refused = None
    BY <1>1 DEF next_server_message, Idle
  <2> QED BY <2>1, <2>2, <2>3 DEF IsPending
<1>6. \A m \in InStream' : m \in InStream /\ (m.kind = "ask" => m.of # ask)
  <2> SUFFICES ASSUME NEW m \in InStream', m.kind = "ask", m.of = ask PROVE FALSE
    BY <1>3
  <2>1. m \in InStream /\ Message.n < m.n /\ m.n \in Nat /\ Message.n \in Nat
    BY <1>2, <1>3, TypedMessages
  <2>2. m.n = Message.n
    BY <2>1, <1>1, <1>2, <1>3 DEF Questioning, AskedOnce
  <2> QED BY <2>1, <2>2
<1>7. AskedOnce' /\ CompletedLast'
  BY <1>1, <1>2, <1>3 DEF Questioning, AskedOnce, CompletedLast
<1>8. RepliesFit'
  BY <1>1, <1>2 DEF Questioning, RepliesFit
<1>9. TurnOf[ask] \notin ToldTurns
  <2>1. TurnOf[ask] \in Turns
    BY <1>2, <1>5, TypedStream
  <2> QED BY <2>1, <1>1, <1>2, <1>3 DEF Questioning, ToldAsLast
<1>10. ToldTurns' = ToldTurns
  BY <1>1 DEF ToldTurns
<1>11. CASE pending_interaction(ask)
  <2>1. /\ pending' = [id \in DOMAIN pending \cup {new} |-> IF id = new THEN ask ELSE pending[id]]
        /\ update_event(ThreadOf[TurnOf[ask]]) /\ UNCHANGED refused
    BY <1>11 DEF NextQuestion
  <2> HIDE DEF new, ask
  <2>2. /\ DOMAIN pending' = DOMAIN pending \cup {new} /\ pending'[new] = ask
        /\ \A id \in DOMAIN pending : pending'[id] = pending[id]
    BY <2>1, <1>4
  <2>3. AsksFit'
    <3> SUFFICES ASSUME NEW x \in InStream', x.kind = "ask"
                 PROVE  asked'[x.of] # "no" /\ replies'[x.of] = 0 /\ refused' # x.of /\ ~IsPending(x.of)'
      BY DEF AsksFit
    <3>1. asked[x.of] # "no" /\ replies[x.of] = 0 /\ refused # x.of /\ ~IsPending(x.of) /\ x.of # ask
      BY <1>2, <1>6 DEF Questioning, AsksFit
    <3> QED BY <3>1, <1>1, <2>1, <2>2 DEF IsPending
  <2>4. PendingFit' /\ RefusedFits'
    BY <2>1, <2>2, <1>1, <1>2, <1>5 DEF Questioning, PendingFit, RefusedFits
  <2>5. ToldAsLast'
    BY <2>2, <1>1, <1>2, <1>3, <1>9, <1>10 DEF Questioning, ToldAsLast
  <2>6. ShownIsPending'
    <3> SUFFICES ASSUME NEW other \in Threads PROVE shown'[other] = QuestionsOn(pending', other)
      BY DEF ShownIsPending, QuestionsOn
    <3>1. shown[other] = QuestionsOn(pending, other) /\ shown \in [Threads -> SUBSET Supported]
      BY <1>2 DEF Questioning, ShownIsPending, TypeOK
    <3>2. CASE other = ThreadOf[TurnOf[ask]]
      BY <2>1, <3>1, <3>2 DEF update_event
    <3>3. CASE other # ThreadOf[TurnOf[ask]]
      <4>1. QuestionsOn(pending', other) = QuestionsOn(pending, other)
        BY <2>2, <3>3 DEF QuestionsOn
      <4> QED BY <2>1, <3>1, <3>3, <4>1 DEF update_event
    <3> QED BY <3>2, <3>3
  <2> QED BY <1>3, <1>7, <1>8, <2>3, <2>4, <2>5, <2>6 DEF Questioning
<1>12. CASE ~pending_interaction(ask)
  <2>1. refused' = ask /\ UNCHANGED <<pending, shown>>
    BY <1>12 DEF NextQuestion
  <2> HIDE DEF new, ask
  <2>2. AsksFit'
    BY <2>1, <1>1, <1>2, <1>6 DEF Questioning, AsksFit, IsPending
  <2>3. PendingFit' /\ RefusedFits'
    BY <2>1, <1>1, <1>2, <1>5 DEF Questioning, PendingFit, RefusedFits
  <2>4. ToldAsLast'
    BY <2>1, <1>1, <1>2, <1>3, <1>10 DEF Questioning, ToldAsLast
  <2>5. ShownIsPending'
    BY <2>1, <1>2 DEF Questioning, ShownIsPending, QuestionsOn
  <2> QED BY <1>3, <1>7, <1>8, <2>2, <2>3, <2>4, <2>5 DEF Questioning
<1> QED BY <1>11, <1>12

---------------------------------------------------------------------------
\* Requests, and what leaves the stream and the questions as they are.
LEMMA EndRequestQuestions ==
    ASSUME Questioning, NEW succeeded \in BOOLEAN, EndRequest(succeeded),
           InStream' \subseteq InStream
    PROVE  Questioning'
<1>1. UNCHANGED <<refused, turns, asked, replies, finished>>
  BY DEF EndRequest, server
<1>2. \/ pending' = << >> /\ queued_events' = <<>> /\ shown' = [thread \in Threads |-> {}]
      \/ UNCHANGED <<pending, queued_events, shown>>
  BY DEF EndRequest
<1> QED BY <1>1, <1>2, LessOnTheWay, NothingPending

\* a request waits or ends,
LEMMA RequestStep ==
    ASSUME IInv, Await
    PROVE  InOrder(Waiting, handed, sent)' /\ Questioning'
<1>1. CASE RequestKeepsMessage
  <2>1. InOrder(Waiting, handed, sent)' /\ InStream' \subseteq InStream
    BY <1>1, StreamPutAside DEF IInv
  <2>2. UNCHANGED <<pending, refused, turns, asked, replies, finished, queued_events, shown>>
    BY <1>1 DEF RequestKeepsMessage, subscription, server, owner
  <2> QED BY <2>1, <2>2, LessOnTheWay DEF IInv
<1>2. CASE RequestReadsAnswer
  <2>1. PICK succeeded \in BOOLEAN : EndRequest(succeeded)
    BY <1>2 DEF RequestReadsAnswer
  <2>2. /\ input # <<>> /\ ~IsStream(Head(input)) /\ input' = Tail(input)
        /\ UNCHANGED <<pending_server_messages, handed, sent>>
    BY <1>2, <2>1 DEF RequestReadsAnswer, EndRequest, server
  <2>3. InOrder(Waiting, handed, sent)' /\ InStream' \subseteq InStream
    BY <2>2, OtherRead DEF IInv
  <2> QED BY <2>1, <2>3, EndRequestQuestions DEF IInv
<1>3. CASE RequestMeetsEof \/ RequestInterrupted
  <2>1. EndRequest(FALSE) /\ UNCHANGED <<input, pending_server_messages>>
    BY <1>3 DEF RequestMeetsEof, RequestInterrupted
  <2>2. Waiting' = Waiting /\ UNCHANGED <<handed, sent>>
    BY <2>1 DEF Waiting, EndRequest, server
  <2>3. InOrder(Waiting, handed, sent)' /\ InStream' \subseteq InStream
    BY <2>2, StreamKept DEF IInv
  <2> QED BY <2>1, <2>3, EndRequestQuestions DEF IInv
<1> QED BY <1>1, <1>2, <1>3 DEF Await

\* nothing of it all changes,
LEMMA QuietStep ==
    ASSUME IInv,
           UNCHANGED <<pending, refused, turns, asked, replies, finished, queued_events, shown,
                       pending_server_messages, input, handed, sent>>
    PROVE  InOrder(Waiting, handed, sent)' /\ Questioning'
<1>1. Waiting' = Waiting
  BY DEF Waiting
<1>2. InOrder(Waiting, handed, sent)' /\ InStream' = InStream
  BY <1>1, StreamKept DEF IInv
<1> QED BY <1>2, LessOnTheWay DEF IInv

\* or the input alone grows.
LEMMA AppendedStep ==
    ASSUME IInv, NEW m \in Messages, ~IsStream(m), input' = Append(input, m),
           UNCHANGED <<pending, refused, turns, asked, replies, finished, queued_events, shown,
                       pending_server_messages, handed, sent>>
    PROVE  InOrder(Waiting, handed, sent)' /\ Questioning'
<1>1. InOrder(Waiting, handed, sent)' /\ InStream' = InStream
  BY OtherAppended DEF IInv
<1> QED BY <1>1, LessOnTheWay DEF IInv

---------------------------------------------------------------------------
(* Types                                                                    *)

Pendings == UNION {[ids -> Supported] : ids \in SUBSET InteractionIds}

\* The types of the pending interactions.
LEMMA IsPendings ==
    ASSUME NEW ids \in SUBSET InteractionIds, NEW f \in [ids -> Supported]
    PROVE  f \in Pendings
BY DEF Pendings

\* The pending interactions of a state,
LEMMA PendingType ==
    ASSUME TypeOK
    PROVE  /\ DOMAIN pending \in SUBSET InteractionIds
           /\ pending \in [DOMAIN pending -> Supported]
BY DEF TypeOK

\* those left,
LEMMA WithoutType ==
    ASSUME TypeOK, NEW ids
    PROVE  Without(ids) \in Pendings
<1> DEFINE rest == DOMAIN pending \ ids
<1>1. rest \in SUBSET InteractionIds /\ Without(ids) \in [rest -> Supported]
  BY PendingType DEF Without, Restrict
<1> HIDE DEF rest
<1> QED BY <1>1, IsPendings

\* and those shown on a thread.
LEMMA QuestionsOnType ==
    ASSUME NEW p \in Pendings, NEW thread
    PROVE  QuestionsOn(p, thread) \in SUBSET Supported
BY DEF Pendings, QuestionsOn

\* Every step keeps the types: the app-server's,
LEMMA ServerType ==
    ASSUME TypeOK, ServerNext
    PROVE  TypeOK'
<1>1. /\ UNCHANGED <<life, cancelled, request, next_request_id, pending_server_messages,
                     pending,
                     next_interaction_id, queued_events, refused, handed, shown, finished, replies>>
      /\ child' \in {child, "exited"}
  BY DEF ServerNext, ServerStartsTurn, ServerCompletesTurn, ServerAsks, ServerResolves,
         ServerAnswers, ServerWritesStrayLine, ServerExits, Emit, process, connection,
         subscription, owner, server
<1>2. input' \in Seq(Messages) /\ sent' \in 0 .. MaxSent
  <2>1. ASSUME NEW kind \in StreamKinds, NEW of, Emit(kind, of),
               kind \in {"item", "completed"} => of \in Turns,
               kind \in {"ask", "resolved"} => of \in Asks
        PROVE  input' \in Seq(Messages) /\ sent' \in 0 .. MaxSent
    <3>1. sent < MaxSent /\ sent' = sent + 1 /\ input' = Append(input, Notification(kind, of))
      BY <2>1 DEF Emit
    <3>2. Notification(kind, of) \in Messages
      BY <2>1, <3>1, NotificationType
    <3> QED BY <3>1, <3>2, BoundsAssumption DEF TypeOK
  <2>2. CASE \E turn \in Turns : ServerStartsTurn(turn) \/ ServerCompletesTurn(turn)
    BY <2>1, <2>2 DEF ServerStartsTurn, ServerCompletesTurn, StreamKinds
  <2>3. CASE \E ask \in Asks : ServerAsks(ask) \/ ServerResolves(ask)
    BY <2>1, <2>3 DEF ServerAsks, ServerResolves, StreamKinds
  <2>4. CASE \E id \in todo : ServerAnswers(id)
    <3>1. PICK id \in todo : ServerAnswers(id)
      BY <2>4
    <3>2. [kind |-> "response", of |-> id, n |-> 0] \in Messages
      BY DEF TypeOK, Messages
    <3> QED BY <3>1, <3>2 DEF ServerAnswers, TypeOK
  <2>5. CASE ServerWritesStrayLine
    <3>1. [kind |-> "stray", of |-> None, n |-> 0] \in Messages
      BY DEF Messages
    <3> QED BY <2>5, <3>1 DEF ServerWritesStrayLine, TypeOK
  <2>6. CASE ServerExits
    BY <2>6 DEF ServerExits, connection, server, TypeOK
  <2> QED BY <2>2, <2>3, <2>4, <2>5, <2>6 DEF ServerNext
<1>3. turns' \in [Turns -> {"new", "running", "completed"}]
  BY DEF TypeOK, ServerNext, ServerStartsTurn, ServerCompletesTurn, ServerAsks,
         ServerResolves, ServerAnswers, ServerWritesStrayLine, ServerExits, server
<1>4. asked' \in [Asks -> {"no", "open", "settled"}]
  BY DEF TypeOK, ServerNext, ServerStartsTurn, ServerCompletesTurn, ServerAsks,
         ServerResolves, ServerAnswers, ServerWritesStrayLine, ServerExits, server
<1>5. todo' \subseteq todo /\ stray' \in {stray, stray + 1}
  BY DEF ServerNext, ServerStartsTurn, ServerCompletesTurn, ServerAsks, ServerResolves,
         ServerAnswers, ServerWritesStrayLine, ServerExits, Emit, server
<1>6. todo' \subseteq 1 .. MaxRequests /\ stray' \in Nat
  BY <1>5 DEF TypeOK
<1> QED BY <1>1, <1>2, <1>3, <1>4, <1>6 DEF TypeOK, InteractionIds

\* the writing of a request,
LEMMA WriteType ==
    ASSUME TypeOK, NEW method \in Methods, Write(method), life' \in {life, "handshake"},
           child' \in {child, "running"}
    PROVE  TypeOK'
<1>1. /\ request' = [id |-> next_request_id, method |-> method]
      /\ next_request_id' = next_request_id + 1 /\ next_request_id \in 1 .. MaxRequests
      /\ todo' = todo \cup {next_request_id}
      /\ UNCHANGED <<cancelled, input, pending_server_messages, pending, next_interaction_id,
                     queued_events, refused, turns, asked, sent, stray, handed, shown, finished,
                     replies>>
  BY BoundsAssumption DEF Write, TypeOK, subscription, owner
<1>2. request' \in [id : 1 .. MaxRequests, method : Methods]
  BY <1>1
<1>3. next_request_id' \in 1 .. MaxRequests + 1 /\ todo' \subseteq 1 .. MaxRequests
  <2>1. next_request_id' \in 1 .. MaxRequests + 1
    BY <1>1, BoundsAssumption
  <2>2. todo \subseteq 1 .. MaxRequests
    BY DEF TypeOK
  <2> QED BY <1>1, <2>1, <2>2
<1> QED BY <1>1, <1>2, <1>3 DEF TypeOK, InteractionIds

\* its end,
LEMMA EndRequestType ==
    ASSUME TypeOK, NEW succeeded \in BOOLEAN, EndRequest(succeeded), request # None,
           input' \in Seq(Messages), pending_server_messages' \in Seq(Messages)
    PROVE  TypeOK'
<1>1. /\ request' = None /\ life' \in {life, "open", "stopping"}
      /\ UNCHANGED <<child, cancelled, next_request_id, next_interaction_id, refused, turns,
                     asked,
                     todo, sent, stray, handed, finished, replies>>
  BY DEF EndRequest, server
<1>2. \/ pending' = << >> /\ queued_events' = <<>> /\ shown' = [thread \in Threads |-> {}]
      \/ UNCHANGED <<pending, queued_events, shown>>
  BY DEF EndRequest
<1>3. pending' \in Pendings
  <2>1. << >> \in [{} -> Supported] /\ {} \in SUBSET InteractionIds
    OBVIOUS
  <2>2. << >> \in Pendings
    BY <2>1, IsPendings
  <2> QED BY <2>2, <1>2 DEF TypeOK, Pendings
<1>4. queued_events' \in Seq(Turns) /\ Len(queued_events') <= 1 /\ shown' \in [Threads -> SUBSET Supported]
  <2>1. <<>> \in Seq(Turns) /\ Len(<<>>) <= 1
    OBVIOUS
  <2>2. [thread \in Threads |-> {}] \in [Threads -> SUBSET Supported]
    OBVIOUS
  <2> QED BY <2>1, <2>2, <1>2 DEF TypeOK
<1> QED BY <1>1, <1>3, <1>4 DEF TypeOK, InteractionIds, Pendings

\* what it waits for,
LEMMA RequestType ==
    ASSUME TypeOK, Await
    PROVE  TypeOK'
<1>1. CASE RequestKeepsMessage
  <2>1. /\ input # <<>> /\ input' = Tail(input)
        /\ pending_server_messages' = Append(pending_server_messages, Head(input))
    BY <1>1 DEF RequestKeepsMessage
  <2>2. input' \in Seq(Messages) /\ pending_server_messages' \in Seq(Messages)
    BY <2>1 DEF TypeOK
  <2> QED BY <1>1, <2>2 DEF RequestKeepsMessage, process, subscription, server, owner,
                            TypeOK, InteractionIds
<1>2. CASE RequestReadsAnswer
  <2>1. PICK succeeded \in BOOLEAN : EndRequest(succeeded)
    BY <1>2 DEF RequestReadsAnswer
  <2>2. input' \in Seq(Messages) /\ pending_server_messages' \in Seq(Messages) /\ request # None
    BY <1>2 DEF RequestReadsAnswer, Awaiting, TypeOK
  <2> QED BY <2>1, <2>2, EndRequestType
<1>3. CASE RequestMeetsEof \/ RequestInterrupted
  <2>1. /\ EndRequest(FALSE) /\ UNCHANGED <<input, pending_server_messages>> /\ request # None
    BY <1>3 DEF RequestMeetsEof, RequestInterrupted, Awaiting
  <2>2. input' \in Seq(Messages) /\ pending_server_messages' \in Seq(Messages)
    BY <2>1 DEF TypeOK
  <2> QED BY <2>1, <2>2, EndRequestType
<1> QED BY <1>1, <1>2, <1>3 DEF Await

\* What the event loop reads keeps its types with what is pending in its type.
LEMMA EventType ==
    ASSUME TypeOK, handed' = handed \/ (handed < sent /\ handed' = handed + 1),
           UNCHANGED <<life, child, cancelled, request, next_request_id, turns, asked, todo,
                       sent,
                       stray, replies>>,
           input' \in Seq(Messages), pending_server_messages' \in Seq(Messages),
           pending' \in Pendings, next_interaction_id' \in InteractionIds,
           queued_events' \in Seq(Turns), Len(queued_events') <= 1,
           refused' \in (Asks \ Supported) \cup {None},
           finished' \subseteq Turns, NEW thread,
           shown' = shown \/ shown' = [shown EXCEPT ![thread] = QuestionsOn(pending', thread)]
    PROVE  TypeOK'
<1>1. shown' \in [Threads -> SUBSET Supported]
  <2>1. QuestionsOn(pending', thread) \in SUBSET Supported
    BY QuestionsOnType
  <2> QED BY <2>1 DEF TypeOK
<1>2. handed' \in 0 .. MaxSent
  BY BoundsAssumption DEF TypeOK
<1> QED BY <1>1, <1>2 DEF TypeOK, InteractionIds, Pendings

\* what the event loop finds,
LEMMA SourceType ==
    ASSUME IInv, next_server_message
    PROVE  /\ handed' = handed \/ (handed < sent /\ handed' = handed + 1)
           /\ UNCHANGED <<life, child, cancelled, request, next_request_id, turns, asked, todo,
                          sent, stray, replies>>
           /\ input' \in Seq(Messages) /\ pending_server_messages' \in Seq(Messages)
           /\ Message \in Messages /\ queued_events = <<>> /\ TypeOK
<1>1. TypeOK /\ Source # <<>> /\ queued_events = <<>>
      /\ UNCHANGED <<life, child, cancelled, request, next_request_id, turns, asked, todo,
                     sent, stray, replies>>
  BY DEF IInv, Flow, next_server_message, process, server
<1>2. Message \in Messages
  BY <1>1, SourceIsHead
<1>3. input' \in Seq(Messages) /\ pending_server_messages' \in Seq(Messages)
  <2>1. CASE pending_server_messages # <<>>
    <3>1. pending_server_messages' = Tail(pending_server_messages) /\ input' = input
      BY <2>1 DEF next_server_message
    <3> QED BY <2>1, <3>1, <1>1, WaitingType, HeadTailProperties
  <2>2. CASE pending_server_messages = <<>>
    <3>1. pending_server_messages' = pending_server_messages /\ input' = Tail(input) /\ input # <<>>
      BY <2>2, <1>1 DEF next_server_message, Source
    <3> QED BY <3>1, <1>1, WaitingType, HeadTailProperties
  <2> QED BY <2>1, <2>2
<1>4. handed' = handed \/ (handed < sent /\ handed' = handed + 1)
  BY StreamTaken DEF next_server_message, IInv
<1> QED BY <1>1, <1>2, <1>3, <1>4

\* what it does,
LEMMA NextEventType ==
    ASSUME IInv, NextEvent
    PROVE  TypeOK'
<1> DEFINE Fits == /\ pending \in Pendings /\ next_interaction_id \in InteractionIds
                   /\ queued_events \in Seq(Turns) /\ Len(queued_events) <= 1
                   /\ refused \in (Asks \ Supported) \cup {None} /\ finished \subseteq Turns
<1>0. TypeOK /\ Fits
  BY DEF IInv, Flow, TypeOK, Pendings
<1>1. CASE NextQueuedEvent
  <2>1. /\ queued_events # <<>> /\ queued_events' = Tail(queued_events)
        /\ finished' = finished \cup {Head(queued_events)}
        /\ UNCHANGED <<process, connection, pending, next_interaction_id, refused,
                       server, handed, shown, replies, outcome>>
    BY <1>1 DEF NextQueuedEvent
  <2>2. queued_events' \in Seq(Turns) /\ Len(queued_events') <= 1 /\ finished' \subseteq Turns
    BY <1>0, <2>1
  <2> QED BY <1>0, <2>1, <2>2 DEF process, connection, server, TypeOK, InteractionIds
<1>2. CASE NextItem
  <2>1. /\ next_server_message
        /\ UNCHANGED <<pending, next_interaction_id, queued_events, refused, finished, shown>>
    BY <1>2 DEF NextItem, subscription
  <2>2. Fits'
    BY <1>0, <2>1 DEF InteractionIds, Pendings
  <2> QED BY <2>1, <2>2, SourceType, EventType
<1>3. CASE NextResolved
  <2>1. /\ next_server_message /\ pending' = Without(remove_external(Message.of))
        /\ UNCHANGED <<next_interaction_id, queued_events, refused, finished>>
        /\ shown' = shown \/ update_event(ThreadOf[TurnOf[Message.of]])
    BY <1>3 DEF NextResolved
  <2>2. Fits'
    BY <1>0, <2>1, WithoutType DEF InteractionIds, Pendings
  <2> QED BY <2>1, <2>2, SourceType, EventType DEF update_event
<1>4. CASE NextCompleted
  <2>1. /\ next_server_message /\ pending' = Without(finish_turn(Message.of))
        /\ Message.kind = "completed"
        /\ UNCHANGED <<next_interaction_id, refused>>
        /\ finished' \subseteq finished \cup {Message.of}
        /\ queued_events' = queued_events \/ queued_events' = Append(queued_events, Message.of)
        /\ shown' = shown \/ update_event(ThreadOf[Message.of])
    BY <1>4 DEF NextCompleted
  <2>2. Message.of \in Turns /\ queued_events = <<>>
    BY <2>1, SourceType, MessageFacts
  <2>3. queued_events' \in Seq(Turns) /\ Len(queued_events') <= 1
    <3>1. Append(queued_events, Message.of) \in Seq(Turns) /\ Len(Append(queued_events, Message.of)) = 1
      BY <2>2, <1>0, AppendProperties
    <3> QED BY <1>0, <2>1, <3>1
  <2>4. Fits'
    BY <1>0, <2>1, <2>2, <2>3, WithoutType DEF InteractionIds, Pendings
  <2> QED BY <2>1, <2>4, SourceType, EventType DEF update_event
<1>5. CASE NextQuestion
  <2> DEFINE new == allocate_interaction_id
  <2>1. /\ next_server_message /\ Message.kind = "ask"
        /\ next_interaction_id' = Successor(new) /\ UNCHANGED <<queued_events, finished>>
    BY <1>5 DEF NextQuestion
  <2>2. Message.of \in Asks
    BY <2>1, SourceType, MessageFacts
  <2>3. new \in InteractionIds
    BY <1>0, <1>5, InteractionIdAssumption, AllocationIsUnused DEF NextQuestion
  <2>4. Successor(new) \in InteractionIds
    BY <2>3, InteractionIdAssumption DEF Successor, InteractionIds
  <2>5. CASE pending_interaction(Message.of)
    <3>1. /\ pending' = [id \in DOMAIN pending \cup {new} |-> IF id = new THEN Message.of
                                                                      ELSE pending[id]]
          /\ update_event(ThreadOf[TurnOf[Message.of]]) /\ UNCHANGED refused
      BY <1>5, <2>5 DEF NextQuestion
    <3> HIDE DEF new
    <3>2. pending' \in [DOMAIN pending \cup {new} -> Supported]
      BY <1>0, <2>5, <3>1, PendingType DEF pending_interaction
    <3>3. DOMAIN pending \cup {new} \in SUBSET InteractionIds
      BY <1>0, <2>3, PendingType
    <3>4. pending' \in Pendings
      BY <3>2, <3>3, IsPendings
    <3>5. Fits'
      BY <1>0, <2>1, <2>4, <3>1, <3>4 DEF InteractionIds, Pendings
    <3> QED BY <2>1, <3>1, <3>5, SourceType, EventType DEF update_event
  <2>6. CASE ~pending_interaction(Message.of)
    <3>1. refused' = Message.of /\ UNCHANGED <<pending, shown>>
      BY <1>5, <2>6 DEF NextQuestion
    <3> HIDE DEF new
    <3>2. Fits'
      BY <1>0, <2>1, <2>2, <2>4, <2>6, <3>1
         DEF InteractionIds, Pendings, pending_interaction
    <3> QED BY <2>1, <3>1, <3>2, SourceType, EventType
  <2> QED BY <2>5, <2>6
<1> QED BY <1>1, <1>2, <1>3, <1>4, <1>5 DEF NextEvent

\* and the rest.
LEMMA RestType ==
    ASSUME TypeOK,
           \/ Connect \/ SpawnFails \/ (\E method \in Methods : BeginRequest(method))
           \/ RequestTimesOut \/ RefuseQuestion
           \/ (\E id \in InteractionIds, body \in Bodies : resolve(id, body))
           \/ Cancel \/ Shutdown \/ terminate_child
    PROVE  TypeOK'
<1>1. CASE Connect
  <2>1. "initialize" \in Methods
    BY DEF Methods
  <2>2. CASE cancelled
    BY <1>1, <2>2 DEF Connect, connection, subscription, server, owner, TypeOK,
                      InteractionIds
  <2>3. CASE ~cancelled
    BY <1>1, <2>1, <2>3, WriteType DEF Connect
  <2> QED BY <2>2, <2>3
<1>2. CASE SpawnFails \/ Cancel \/ Shutdown \/ terminate_child
  <2>1. /\ life' \in {life, "gone", "stopping"} /\ child' \in {child, "exited"}
        /\ cancelled' \in {cancelled, TRUE} /\ UNCHANGED <<connection, subscription, server,
                                                           owner>>
    BY <1>2 DEF SpawnFails, Cancel, Shutdown, terminate_child
  <2>2. life' \in {"new", "handshake", "open", "stopping", "gone"} /\ cancelled' \in BOOLEAN
        /\ child' \in {"absent", "running", "exited"}
    BY <2>1 DEF TypeOK
  <2> QED BY <2>1, <2>2 DEF connection, subscription, server, owner, TypeOK, InteractionIds
<1>3. CASE \E method \in Methods : BeginRequest(method)
  BY <1>3, WriteType DEF BeginRequest
<1>4. CASE RequestTimesOut
  BY <1>4 DEF RequestTimesOut, subscription, server, TypeOK, InteractionIds
<1>5. CASE RefuseQuestion
  <2>1. refused' = None /\ replies' \in [Asks -> Nat]
    BY <1>5 DEF RefuseQuestion, TypeOK
  <2> QED BY <1>5, <2>1 DEF RefuseQuestion, process, connection, server, TypeOK,
                            InteractionIds
<1>6. CASE \E id \in InteractionIds, body \in Bodies : resolve(id, body)
  <2>1. PICK id \in InteractionIds, body \in Bodies : resolve(id, body)
    BY <1>6
  <2>2. /\ replies' = [replies EXCEPT ![pending[id]] = @ + 1] /\ pending' = Without({id})
        /\ shown' = [shown EXCEPT ![ThreadOf[TurnOf[pending[id]]]] =
                        QuestionsOn(pending', ThreadOf[TurnOf[pending[id]]])]
        /\ UNCHANGED <<process, connection, next_interaction_id, queued_events,
                       refused, server, handed, finished, outcome>>
    BY <2>1 DEF resolve, update_event
  <2>3. replies' \in [Asks -> Nat]
    <3>1. pending[id] \in Asks
      BY <2>1, TypedStream DEF resolve
    <3> QED BY <2>2, <3>1 DEF TypeOK
  <2>4. pending' \in Pendings
    BY <2>2, WithoutType
  <2>5. shown' \in [Threads -> SUBSET Supported]
    <3>1. QuestionsOn(pending', ThreadOf[TurnOf[pending[id]]]) \in SUBSET Supported
      BY <2>4, QuestionsOnType
    <3> QED BY <2>2, <3>1 DEF TypeOK
  <2> QED BY <2>2, <2>3, <2>4, <2>5 DEF process, connection, server, TypeOK, InteractionIds,
                                        Pendings
<1> QED BY <1>1, <1>2, <1>3, <1>4, <1>5, <1>6

\* Every step keeps a running child with its client.
LEMMA ReapedStep ==
    ASSUME Reaped, [Next]_vars
    PROVE  Reaped'
<1>1. CASE UNCHANGED vars
  BY <1>1 DEF vars, process, Reaped
<1>2. CASE Connect
  BY <1>2 DEF Connect, Write, Reaped
<1>3. CASE SpawnFails \/ Cancel \/ Shutdown \/ terminate_child \/ RequestTimesOut
  BY <1>3 DEF SpawnFails, Cancel, Shutdown, terminate_child, RequestTimesOut, Reaped
<1>4. CASE \E method \in Methods : BeginRequest(method)
  BY <1>4 DEF BeginRequest, Idle, Reaped
<1>5. CASE Await
  <2>1. \/ UNCHANGED <<life, child>>
        \/ child' = child /\ life' \in {life, "open", "stopping"}
    BY <1>5 DEF Await, RequestKeepsMessage, RequestReadsAnswer, RequestMeetsEof,
                RequestInterrupted, EndRequest, process
  <2> QED BY <2>1 DEF Reaped
<1>6. CASE NextEvent \/ RefuseQuestion \/ \E id \in InteractionIds, body \in Bodies : resolve(id, body)
  <2>1. UNCHANGED <<life, child>>
    BY <1>6 DEF NextEvent, NextQueuedEvent, NextItem, NextResolved, NextCompleted,
                NextQuestion, next_server_message, RefuseQuestion, resolve, process
  <2> QED BY <2>1 DEF Reaped
<1>7. CASE ServerNext
  <2>1. UNCHANGED life /\ child' \in {child, "exited"} /\ (child' # child => child = "running")
    BY <1>7 DEF ServerNext, ServerStartsTurn, ServerCompletesTurn, ServerAsks,
                ServerResolves, ServerAnswers, ServerWritesStrayLine, ServerExits, Emit,
                process
  <2> QED BY <2>1 DEF Reaped
<1> QED BY <1>1, <1>2, <1>3, <1>4, <1>5, <1>6, <1>7 DEF Next


\* IInv holds in the initial states,
LEMMA ClientInitially ==
    ASSUME Init
    PROVE  IInv
<1>1. TypeOK
  <2>1. << >> \in [{} -> Supported] /\ {} \in SUBSET InteractionIds
    OBVIOUS
  <2>2. pending \in Pendings
    BY <2>1, IsPendings DEF Init
  <2>3. next_interaction_id \in InteractionIds /\ next_request_id \in 1 .. MaxRequests + 1
    BY InteractionIdAssumption, BoundsAssumption DEF Init, InteractionIds
  <2>4. queued_events \in Seq(Turns) /\ Len(queued_events) <= 1 /\ input \in Seq(Messages)
        /\ pending_server_messages \in Seq(Messages)
    BY DEF Init
  <2>5. turns \in [Turns -> {"new", "running", "completed"}] /\ asked \in [Asks -> {"no", "open", "settled"}]
        /\ shown \in [Threads -> SUBSET Supported] /\ replies \in [Asks -> Nat]
    BY DEF Init
  <2>6. life = "new" /\ child = "absent" /\ cancelled = FALSE /\ request = None /\ refused = None
        /\ todo = {} /\ finished = {} /\ sent \in 0 .. MaxSent /\ handed \in 0 .. MaxSent /\ stray \in Nat
    BY BoundsAssumption DEF Init
  <2> QED BY <2>2, <2>3, <2>4, <2>5, <2>6 DEF TypeOK, Pendings
<1>2. Waiting = <<>> /\ Stream(Waiting) = {} /\ InStream = {}
  <2>1. Waiting = <<>>
    BY ConcatEmptySeq DEF Waiting, Init
  <2>2. DOMAIN <<>> = {}
    OBVIOUS
  <2> QED BY <2>1, <2>2 DEF Stream, InStream, In
<1>3. InOrder(Waiting, handed, sent)
  BY <1>2 DEF InOrder, Init
<1>4. Questioning
  <2>1. DOMAIN pending = {} /\ DOMAIN queued_events = {} /\ refused = None
    BY DEF Init
  <2>2. AskedOnce /\ AsksFit /\ CompletedLast
    BY <1>2 DEF AskedOnce, AsksFit, CompletedLast
  <2>3. PendingFit /\ RefusedFits /\ RepliesFit
    BY <2>1 DEF PendingFit, RefusedFits, RepliesFit, Init
  <2>4. ToldAsLast
    BY <2>1 DEF ToldAsLast, ToldTurns, Init
  <2>5. ShownIsPending
    BY <2>1 DEF ShownIsPending, QuestionsOn, Init
  <2> QED BY <2>2, <2>3, <2>4, <2>5 DEF Questioning
<1> QED BY <1>1, <1>3, <1>4 DEF IInv, Flow, Reaped, Init

\* and every step keeps it.
LEMMA ClientStep ==
    ASSUME IInv, [Next]_vars
    PROVE  IInv'
<1>t. TypeOK
  BY DEF IInv, Flow
<1>1. TypeOK'
  <2>1. CASE UNCHANGED vars
    BY <1>t, <2>1 DEF vars, process, connection, subscription, server, owner, TypeOK,
                      InteractionIds
  <2>2. CASE Next
    BY <1>t, <2>2, ServerType, RequestType, NextEventType, RestType DEF Next
  <2> QED BY <2>1, <2>2
<1>2. Reaped'
  BY ReapedStep DEF IInv
<1>3. InOrder(Waiting, handed, sent)' /\ Questioning'
  <2>1. CASE UNCHANGED vars
    BY <2>1, QuietStep DEF vars, process, connection, subscription, server, owner
  <2>2. CASE Connect \/ SpawnFails \/ \E method \in Methods : BeginRequest(method)
    BY <2>2, QuietStep DEF Connect, SpawnFails, BeginRequest, Write, connection,
                           subscription, server, owner
  <2>3. CASE Await
    BY <2>3, RequestStep
  <2>4. CASE RequestTimesOut \/ Cancel \/ Shutdown \/ terminate_child
    BY <2>4, QuietStep DEF RequestTimesOut, Cancel, Shutdown, terminate_child, connection,
                           subscription, server, owner
  <2>5. CASE NextEvent
    <3>1. CASE NextQueuedEvent
      <4>1. UNCHANGED <<input, pending_server_messages, handed, sent>>
        BY <3>1 DEF NextQueuedEvent, connection, server
      <4>2. InOrder(Waiting, handed, sent)'
        BY <4>1, StreamKept DEF Waiting, IInv
      <4> QED BY <3>1, <4>2, QueuedStep
    <3> QED BY <2>5, <3>1, ItemStep, ResolvedStep, CompletedStep, QuestionStep DEF NextEvent
  <2>6. CASE RefuseQuestion \/ \E id \in InteractionIds, body \in Bodies : resolve(id, body)
    <3>1. UNCHANGED <<input, pending_server_messages, handed, sent>>
      BY <2>6 DEF RefuseQuestion, resolve, connection, server
    <3>2. InOrder(Waiting, handed, sent)'
      BY <3>1, StreamKept DEF Waiting, IInv
    <3> QED BY <2>6, <3>2, RefusalStep, AnswerStep
  <2>7. CASE ServerNext
    <3>1. CASE \E turn \in Turns : ServerStartsTurn(turn) \/ ServerCompletesTurn(turn)
      <4>1. CASE \E turn \in Turns : ServerCompletesTurn(turn)
        BY <4>1, CompletionStep
      <4>2. ASSUME NEW turn \in Turns, ServerStartsTurn(turn)
            PROVE  InOrder(Waiting, handed, sent)' /\ Questioning'
        BY <4>2, StartStep
      <4> QED BY <3>1, <4>1, <4>2
    <3>2. CASE \E ask \in Asks : ServerAsks(ask) \/ ServerResolves(ask)
      BY <3>2, AskStep, SettledStep
    <3>3. CASE \E id \in todo : ServerAnswers(id)
      <4>1. PICK id \in todo : ServerAnswers(id)
        BY <3>3
      <4> DEFINE m == [kind |-> "response", of |-> id, n |-> 0]
      <4>2. m \in Messages /\ ~IsStream(m)
        BY <1>t DEF TypeOK, Messages, IsStream, StreamKinds
      <4>3. input' = Append(input, m)
            /\ UNCHANGED <<pending, refused, turns, asked, replies, finished, queued_events,
                           shown,
                           pending_server_messages, handed, sent>>
        BY <4>1 DEF ServerAnswers, subscription, owner
      <4> QED BY <4>2, <4>3, AppendedStep
    <3>4. CASE ServerWritesStrayLine
      <4> DEFINE m == [kind |-> "stray", of |-> None, n |-> 0]
      <4>2. m \in Messages /\ ~IsStream(m)
        BY DEF Messages, IsStream, StreamKinds
      <4>3. input' = Append(input, m)
            /\ UNCHANGED <<pending, refused, turns, asked, replies, finished, queued_events,
                           shown,
                           pending_server_messages, handed, sent>>
        BY <3>4 DEF ServerWritesStrayLine, subscription, owner
      <4> QED BY <4>2, <4>3, AppendedStep
    <3>5. CASE ServerExits
      BY <3>5, QuietStep DEF ServerExits, connection, subscription, server, owner
    <3> QED BY <2>7, <3>1, <3>2, <3>3, <3>4, <3>5 DEF ServerNext
  <2> QED BY <2>1, <2>2, <2>3, <2>4, <2>5, <2>6, <2>7 DEF Next
<1> QED BY <1>1, <1>2, <1>3 DEF IInv, Flow

\* What the properties say follows from IInv:
LEMMA OrderKept ==
    ASSUME IInv
    PROVE  StreamKeepsItsOrder
BY DEF IInv, Flow, InOrder, Waiting, StreamKeepsItsOrder

\* of the questions;
LEMMA SettledOnce ==
    ASSUME IInv
    PROVE  ShownIsPending /\ FinishedTurnAsksNothing /\ RepliedOnce /\ ChildIsReaped
<1>1. TypeOK /\ ShownIsPending /\ ToldAsLast /\ RepliesFit
  BY DEF IInv, Flow, Questioning
<1>2. FinishedTurnAsksNothing
  <2> SUFFICES ASSUME NEW thread \in Threads, NEW ask \in shown[thread]
               PROVE  TurnOf[ask] \notin finished
    BY DEF FinishedTurnAsksNothing
  <2>1. PICK id \in DOMAIN pending : pending[id] = ask
    BY <1>1 DEF ShownIsPending, QuestionsOn
  <2>2. TurnOf[ask] \in Turns
    BY <1>1, <2>1, TypedStream
  <2> QED BY <1>1, <2>1, <2>2 DEF ToldAsLast, ToldTurns
<1>3. RepliedOnce
  BY <1>1 DEF RepliesFit, RepliedOnce
<1>4. ChildIsReaped
  BY DEF IInv, Reaped, ChildIsReaped
<1> QED BY <1>1, <1>2, <1>3, <1>4

\* and of the steps: an answer is that of the request it ends,
LEMMA AnswersStep ==
    ASSUME AnswerIsItsOwn, [Next]_vars
    PROVE  AnswerIsItsOwn'
<1>1. CASE UNCHANGED outcome
  BY <1>1 DEF AnswerIsItsOwn
<1>2. CASE RequestReadsAnswer
  <2>1. \/ outcome' = [id |-> request.id, answer |-> None]
        \/ outcome' = [id |-> request.id, answer |-> request.id]
    BY <1>2 DEF RequestReadsAnswer
  <2> QED BY <2>1 DEF AnswerIsItsOwn
<1>3. CASE RequestMeetsEof \/ RequestInterrupted \/ RequestTimesOut
  <2>1. outcome' = [id |-> request.id, answer |-> None]
    BY <1>3 DEF RequestMeetsEof, RequestInterrupted, RequestTimesOut
  <2> QED BY <2>1 DEF AnswerIsItsOwn
<1>4. CASE \/ Connect \/ SpawnFails \/ \E method \in Methods : BeginRequest(method)
           \/ Cancel \/ Shutdown \/ terminate_child
  BY <1>1, <1>4 DEF Connect, SpawnFails, BeginRequest, Write, Cancel, Shutdown,
                    terminate_child, owner
<1>5. CASE RequestKeepsMessage \/ RefuseQuestion
  BY <1>1, <1>5 DEF RequestKeepsMessage, RefuseQuestion, owner
<1>6. CASE \E id \in InteractionIds, body \in Bodies : resolve(id, body)
  BY <1>1, <1>6 DEF resolve
<1>7. CASE NextEvent
  BY <1>1, <1>7 DEF NextEvent, NextQueuedEvent, NextItem, NextResolved, NextCompleted,
                    NextQuestion, next_server_message
<1>8. CASE ServerNext
  BY <1>1, <1>8 DEF ServerNext, ServerStartsTurn, ServerCompletesTurn, ServerAsks,
                    ServerResolves, ServerAnswers, ServerWritesStrayLine, ServerExits, Emit,
                    owner
<1>9. CASE UNCHANGED vars
  BY <1>1, <1>9 DEF vars, owner
<1> QED BY <1>2, <1>3, <1>4, <1>5, <1>6, <1>7, <1>8, <1>9 DEF Next, Await

\* and an id keeps its question.
LEMMA PendingKept ==
    ASSUME IInv, [Next]_vars
    PROVE  \A id \in DOMAIN pending \cap DOMAIN pending' : pending[id] = pending'[id]
<1> DEFINE Kept == \A id \in DOMAIN pending \cap DOMAIN pending' : pending[id] = pending'[id]
<1>1. \/ UNCHANGED pending \/ pending' = << >> \/ (\E ids \in SUBSET InteractionIds : pending' = Without(ids))
      \/ NextQuestion
  <2>1. CASE UNCHANGED vars \/ Connect \/ SpawnFails \/ (\E method \in Methods : BeginRequest(method))
             \/ RequestTimesOut \/ RefuseQuestion \/ Cancel \/ Shutdown \/ terminate_child
    BY <2>1 DEF vars, subscription, Connect, SpawnFails, BeginRequest, Write,
                RequestTimesOut, RefuseQuestion, Cancel, Shutdown, terminate_child
  <2>2. CASE Await
    BY <2>2 DEF Await, RequestKeepsMessage, RequestReadsAnswer, RequestMeetsEof,
                RequestInterrupted, EndRequest, subscription
  <2>3. CASE NextQueuedEvent \/ NextItem
    BY <2>3 DEF NextQueuedEvent, NextItem, subscription
  <2>4. CASE NextResolved \/ NextCompleted
    <3>1. /\ remove_external(Message.of) \subseteq DOMAIN pending
          /\ finish_turn(Message.of) \subseteq DOMAIN pending
          /\ DOMAIN pending \subseteq InteractionIds
      BY PendingType DEF remove_external, finish_turn, IInv, Flow
    <3> QED BY <2>4, <3>1 DEF NextResolved, NextCompleted
  <2>5. CASE \E id \in InteractionIds, body \in Bodies : resolve(id, body)
    BY <2>5 DEF resolve
  <2>6. CASE ServerNext
    BY <2>6 DEF ServerNext, ServerStartsTurn, ServerCompletesTurn, ServerAsks,
                ServerResolves, ServerAnswers, ServerWritesStrayLine, ServerExits, Emit,
                subscription
  <2> QED BY <2>1, <2>2, <2>3, <2>4, <2>5, <2>6 DEF Next, NextEvent
<1>2. CASE NextQuestion
  <2>1. Unused(allocate_interaction_id)
    BY <1>2, InteractionIdAssumption, AllocationIsUnused
       DEF NextQuestion, IInv, Flow, TypeOK
  <2> HIDE DEF Kept
  <2>2. \/ UNCHANGED pending
        \/ pending' = [id \in DOMAIN pending \cup {allocate_interaction_id} |->
                         IF id = allocate_interaction_id THEN Message.of ELSE pending[id]]
    BY <1>2 DEF NextQuestion
  <2> QED BY <2>1, <2>2 DEF Unused, Kept
<1>3. CASE pending' = << >>
  <2>1. DOMAIN pending' = {}
    BY <1>3
  <2> QED BY <2>1
<1>4. CASE UNCHANGED pending
  BY <1>4
<1>5. CASE \E ids \in SUBSET InteractionIds : pending' = Without(ids)
  BY <1>5 DEF Without, Restrict
<1> QED BY <1>1, <1>2, <1>3, <1>4, <1>5

---------------------------------------------------------------------------
\* The messages of the stream reach the owner in order, none is lost and none
\* comes twice: next_server_message after any number of requests awaited.
THEOREM StreamInOrder == Spec => []StreamKeepsItsOrder
<1>1. Spec => []IInv
  BY ClientInitially, ClientStep, PTL DEF Spec
<1>2. IInv => StreamKeepsItsOrder
  BY OrderKept
<1> QED BY <1>1, <1>2, PTL

\* What the owner is told to ask is what is pending, nothing of a finished turn;
\* a question is replied to once, an answer is taken by its own request, and the
\* child process is reaped.
THEOREM QuestionsSettled ==
    Spec => [](/\ ShownIsPending /\ FinishedTurnAsksNothing
               /\ RepliedOnce /\ AnswerIsItsOwn /\ ChildIsReaped)
<1>1. Spec => []IInv
  BY ClientInitially, ClientStep, PTL DEF Spec
<1>2. Spec => []AnswerIsItsOwn
  <2>1. Init => AnswerIsItsOwn
    BY DEF Init, AnswerIsItsOwn
  <2> QED BY <2>1, AnswersStep, PTL DEF Spec
<1>3. IInv => ShownIsPending /\ FinishedTurnAsksNothing /\ RepliedOnce /\ ChildIsReaped
  BY SettledOnce
<1> QED BY <1>1, <1>2, <1>3, PTL

\* An interaction id stands for one question for as long as that is pending,
\* whatever allocate_interaction_id gives next.
THEOREM IdsKeepTheirQuestion == Spec => InteractionKeepsItsQuestion
<1>1. Spec => []IInv
  BY ClientInitially, ClientStep, PTL DEF Spec
<1>2. IInv /\ [Next]_vars =>
        [\A id \in DOMAIN pending \cap DOMAIN pending' : pending[id] = pending'[id]]_vars
  BY PendingKept
<1>3. Spec => [][\A id \in DOMAIN pending \cap DOMAIN pending' : pending[id] = pending'[id]]_vars
  BY <1>1, <1>2, PTL DEF Spec
<1> QED BY <1>3 DEF InteractionKeepsItsQuestion

---------------------------------------------------------------------------
(* What a turn runs with.  The client never sees what the app-server made   *)
(* of a turn.  It is right because it computes the same: what it will take   *)
(* note of (ThreadInferenceState::apply) is what the collaboration mode was  *)
(* sent with (AnswerIsNoted), and a writer whose turn failed, applied or     *)
(* not, is not used again (Beginnings).  Of the catalog, the efforts and the *)
(* bounds nothing is used but the assumptions.                               *)

\* A turn is begun by a writer, over what the app-server runs by then; what was
\* chosen for a model from the catalog fits the effort remembered.
Beginnings ==
    /\ op.step # "idle" => open
    /\ op.step \in {"catalog", "start"} => before = active
    /\ op.step = "catalog" => Turn!IsModelOnly(op.options)
    /\ op.step = "start" /\ op.models # {} =>
         /\ op.options.model \in Turn!Models
         /\ op.options.effort = Turn!resolve_reasoning_effort(op.options.model, inference.effort)

\* An app-server that reports its model has always done so.
ModelIsKnown == open /\ reports => inference.model # None

\* The answer to come makes the client take note of what the turn runs with.
AnswerIsNoted ==
    op.step = "applied" =>
      /\ Turn!CollaborationModel(op.options) # None =>
           Turn!Applied(op.options) = [model |-> active.model, effort |-> active.effort]
      /\ Turn!CollaborationEffort(op.options) # None =>
           Turn!CollaborationEffort(op.options) = active.effort
      /\ reports => shown_model = inference

TurnInv == /\ Turn!TypeOK /\ Beginnings /\ ModelIsKnown /\ AnswerIsNoted
        /\ Turn!ShownIsActive /\ Turn!TurnRunsAsAsked /\ Turn!OthersAreKept

\* What is chosen for a model is an effort.
LEMMA ResolvedType ==
    ASSUME NEW model \in Turn!Models, NEW preferred
    PROVE  Turn!resolve_reasoning_effort(model, preferred) \in MCEfforts
<1> DEFINE i == CHOOSE i \in DOMAIN MCCatalog : MCCatalog[i].model = model
<1>1. i \in DOMAIN MCCatalog
  BY DEF Turn!Models
<1> HIDE DEF i
<1>2. MCCatalog[i] \in [model : Turn!Models, default : MCEfforts, supported : SUBSET MCEfforts]
  <2> DEFINE Info == [model : Turn!Models, default : MCEfforts, supported : SUBSET MCEfforts]
  <2>1. MCCatalog \in Seq(Info)
    BY TurnAssumption DEF Turn!CatalogAssumption
  <2> HIDE DEF Info
  <2>2. MCCatalog[i] \in Info
    BY <1>1, <2>1, LenProperties, ElementOfSeq
  <2> QED BY <2>2 DEF Info
<1>3. preferred \in MCCatalog[i].supported => preferred \in MCEfforts
  BY <1>2
<1> QED BY <1>2, <1>3 DEF Turn!resolve_reasoning_effort, i

\* A writer is told what is active, by an app-server that reports it.
LEMMA TurnInit == Turn!Init => TurnInv
<1> SUFFICES ASSUME Turn!Init PROVE TurnInv
  OBVIOUS
<1> USE TurnAssumption DEF Turn!Init
<1>1. active.model \in Turn!Models /\ active.model # None /\ 1 \in DOMAIN MCCatalog
  <2>1. active.model \in Turn!Models
    OBVIOUS
  <2>2. \E i \in DOMAIN MCCatalog : active.model = MCCatalog[i].model
    BY <2>1 DEF Turn!Models
  <2>3. MCCatalog \in Seq([model : Turn!Models, default : MCEfforts, supported : SUBSET MCEfforts])
    BY TurnAssumption DEF Turn!CatalogAssumption
  <2>4. DOMAIN MCCatalog = 1 .. Len(MCCatalog) /\ Len(MCCatalog) \in Nat
    BY <2>3, LenProperties
  <2>5. active.model # None
    BY <2>1 DEF Turn!CatalogAssumption
  <2> HIDE DEF Turn!Init
  <2>6. 1 \in DOMAIN MCCatalog
    BY <2>2, <2>4
  <2> QED BY <2>1, <2>5, <2>6
<1>2. Turn!TypeOK
  <2>1. active \in Turn!Running /\ before \in Turn!Running /\ reports \in BOOLEAN
    BY DEF Turn!Running, Turn!Presets
  <2>2. Turn!NoTurn \in Turn!Beginning /\ Turn!NoTurn.step = "idle"
    BY <1>1 DEF Turn!Beginning, Turn!NoTurn, Turn!TurnOptions, Turn!Modes, Turn!Presets
  <2>3. Turn!Reported \in Turn!Inference
    BY <2>1 DEF Turn!Reported, Turn!Inference, Turn!Running
  <2>4. /\ hidden \subseteq Turn!Models /\ open \in BOOLEAN /\ inference = Turn!Reported
        /\ shown_model = IF reports THEN inference ELSE None
        /\ op = Turn!NoTurn /\ changes = 0 /\ failures = 0
    OBVIOUS
  <2>5. 1 \in Nat /\ InferenceFailures \in Nat
    BY DEF Turn!BoundsAssumption
  <2> HIDE TurnAssumption DEF Turn!Init
  <2> QED BY <2>1, <2>2, <2>3, <2>4, <2>5 DEF Turn!TypeOK
<1>3. Beginnings /\ ModelIsKnown /\ AnswerIsNoted
  BY <1>1 DEF Beginnings, ModelIsKnown, AnswerIsNoted, Turn!NoTurn, Turn!Reported
<1>4. Turn!ShownIsActive /\ Turn!TurnRunsAsAsked /\ Turn!OthersAreKept
  BY <1>1 DEF Turn!ShownIsActive, Turn!TurnRunsAsAsked, Turn!OthersAreKept, Turn!NoTurn,
              Turn!Reported
<1> QED BY <1>2, <1>3, <1>4 DEF TurnInv

\* A turn that fails to begin takes its writer with it.
LEMMA FailKeeps ==
    ASSUME TurnInv, Turn!Fail, failures' \in 0 .. InferenceFailures
    PROVE  TurnInv'
<1> USE DEF Turn!Fail, Turn!server
<1>1. Turn!NoTurn \in Turn!Beginning /\ Turn!NoTurn.step = "idle"
  <2>1. 1 \in DOMAIN MCCatalog
    BY TurnAssumption DEF TurnInv, Turn!TypeOK, Turn!Beginning, Turn!CatalogAssumption
  <2> QED BY <2>1 DEF Turn!NoTurn, Turn!Beginning, Turn!TurnOptions, Turn!Modes,
                      Turn!Presets
<1>2. Turn!TypeOK'
  BY <1>1 DEF TurnInv, Turn!TypeOK
<1>3. /\ Beginnings' /\ ModelIsKnown' /\ AnswerIsNoted'
      /\ Turn!ShownIsActive' /\ Turn!TurnRunsAsAsked' /\ Turn!OthersAreKept'
  BY <1>1 DEF Beginnings, ModelIsKnown, AnswerIsNoted, Turn!ShownIsActive,
              Turn!TurnRunsAsAsked, Turn!OthersAreKept
<1> QED BY <1>2, <1>3 DEF TurnInv

\* One step for each action, and under it one for each part it can disturb.
LEMMA TurnStep == TurnInv /\ [Turn!Next]_(Turn!vars) => TurnInv'
<1> SUFFICES ASSUME TurnInv, [Turn!Next]_(Turn!vars) PROVE TurnInv'
  OBVIOUS
<1>1. ASSUME NEW options \in Turn!TurnOptions, NEW valid \in BOOLEAN, Turn!begin_turn(options, valid)
      PROVE  TurnInv'
  <2> USE <1>1 DEF Turn!begin_turn, Turn!client, Turn!server
  <2>0. Turn!NoTurn \in Turn!Beginning
    <3>1. 1 \in DOMAIN MCCatalog
      BY TurnAssumption DEF TurnInv, Turn!TypeOK, Turn!Beginning, Turn!CatalogAssumption
    <3> QED BY <3>1 DEF Turn!NoTurn, Turn!Beginning, Turn!TurnOptions, Turn!Modes,
                        Turn!Presets
  <2>1. /\ op' \in Turn!Beginning /\ op'.models = {} /\ op'.options = options
        /\ op'.step = IF Turn!IsModelOnly(options) THEN "catalog" ELSE "start"
    BY <2>0 DEF Turn!NoTurn, Turn!Beginning
  <2>2. Turn!TypeOK'
    BY <2>1 DEF TurnInv, Turn!TypeOK, Turn!IsModelOnly
  <2>3. Beginnings' /\ ModelIsKnown' /\ AnswerIsNoted'
    BY <2>1 DEF TurnInv, Beginnings, ModelIsKnown, AnswerIsNoted, Turn!IsModelOnly
  <2>4. Turn!ShownIsActive' /\ Turn!TurnRunsAsAsked' /\ Turn!OthersAreKept'
    BY <2>1 DEF TurnInv, Turn!ShownIsActive, Turn!TurnRunsAsAsked, Turn!OthersAreKept
  <2> QED BY <2>2, <2>3, <2>4 DEF TurnInv
<1>2. CASE Turn!Refuse
  BY <1>2, FailKeeps DEF Turn!Refuse, TurnInv, Turn!TypeOK
<1>3. CASE Turn!list_models
  <2> USE <1>3 DEF Turn!list_models
  <2> DEFINE models == op.models \cup ({MCCatalog[op.cursor].model} \ hidden)
  <2>0. /\ op \in Turn!Beginning /\ op.cursor \in 1 .. Len(MCCatalog) /\ models \subseteq Turn!Models
        /\ failures' = failures /\ failures \in 0 .. InferenceFailures
    BY TurnAssumption DEF TurnInv, Turn!TypeOK, Turn!Beginning, Turn!Models,
                          Turn!CatalogAssumption
  <2>1. CASE op.cursor < Len(MCCatalog)
    <3>1. op' = [op EXCEPT !.cursor = @ + 1, !.models = models]
      BY <2>1
    <3> HIDE DEF models
    <3>2. op.cursor + 1 \in DOMAIN MCCatalog
      BY <2>0, <2>1, TurnAssumption DEF Turn!CatalogAssumption
    <3>3. op' \in Turn!Beginning /\ op'.step = "catalog" /\ op'.options = op.options
      BY <2>0, <3>1, <3>2 DEF Turn!Beginning
    <3>4. UNCHANGED <<Turn!server, Turn!client, before, failures>>
      BY <2>1
    <3>5. Turn!TypeOK'
      BY <3>3, <3>4 DEF TurnInv, Turn!TypeOK, Turn!server, Turn!client
    <3>6. Beginnings' /\ ModelIsKnown' /\ AnswerIsNoted'
      BY <3>3, <3>4 DEF TurnInv, Beginnings, ModelIsKnown, AnswerIsNoted, Turn!server,
                        Turn!client, Turn!IsModelOnly
    <3>7. Turn!ShownIsActive' /\ Turn!TurnRunsAsAsked' /\ Turn!OthersAreKept'
      BY <3>3, <3>4 DEF TurnInv, Turn!ShownIsActive, Turn!TurnRunsAsAsked,
                        Turn!OthersAreKept, Turn!server, Turn!client
    <3> QED BY <3>5, <3>6, <3>7 DEF TurnInv
  <2>2. CASE ~(op.cursor < Len(MCCatalog))
    <3>1. Turn!SelectModel(models)
      BY <2>2
    <3>2. CASE op.options.model \notin models
      BY <2>0, <3>1, <3>2, FailKeeps DEF Turn!SelectModel
    <3>3. CASE op.options.model \in models
      <4> DEFINE effort == Turn!resolve_reasoning_effort(op.options.model, inference.effort)
                 next == [op.options EXCEPT !.effort = effort]
      <4>1. /\ op' = [op EXCEPT !.step = "start", !.models = models, !.options = next]
            /\ UNCHANGED <<Turn!server, Turn!client, before, failures>>
        BY <2>0, <3>1, <3>3 DEF Turn!SelectModel, Turn!Beginning, Turn!TurnOptions
      <4>2. effort \in MCEfforts /\ op.options.model \in Turn!Models
        BY <2>0, <3>3, ResolvedType, TurnAssumption
      <4>3. /\ next \in Turn!TurnOptions /\ next.effort = effort /\ next.model = op.options.model
        BY <2>0, <4>2 DEF Turn!TurnOptions, Turn!Beginning
      <4> HIDE DEF models, next
      <4>4. op' \in Turn!Beginning /\ op'.step = "start" /\ op'.options = next
        BY <2>0, <4>1, <4>3 DEF Turn!Beginning
      <4>5. Turn!TypeOK'
        <5>1. effort # None
          BY <4>2, TurnAssumption DEF Turn!CatalogAssumption
        <5> HIDE DEF effort
        <5> QED BY <4>1, <4>3, <4>4, <5>1 DEF TurnInv, Turn!TypeOK, Turn!server, Turn!client
      <4>6. Beginnings'
        BY <4>1, <4>2, <4>3, <4>4 DEF TurnInv, Beginnings, Turn!server, Turn!client,
                                      Turn!resolve_reasoning_effort
      <4> HIDE DEF effort
      <4>7. ModelIsKnown' /\ AnswerIsNoted'
        BY <4>1, <4>4 DEF TurnInv, ModelIsKnown, AnswerIsNoted, Turn!server, Turn!client
      <4>8. Turn!ShownIsActive' /\ Turn!TurnRunsAsAsked' /\ Turn!OthersAreKept'
        BY <4>1, <4>4 DEF TurnInv, Turn!ShownIsActive, Turn!TurnRunsAsAsked,
                          Turn!OthersAreKept, Turn!server, Turn!client
      <4> QED BY <4>5, <4>6, <4>7, <4>8 DEF TurnInv
    <3> QED BY <3>2, <3>3
  <2> QED BY <2>1, <2>2
<1>4. CASE Turn!StartTurn
  <2> USE <1>4
  <2> DEFINE options == op.options
             to == Turn!CollaborationModel(options)
             with == Turn!CollaborationEffort(options)
  <2>0. /\ op \in Turn!Beginning /\ options \in Turn!TurnOptions /\ inference \in Turn!Inference
        /\ active \in Turn!Running /\ before = active /\ open /\ op.step = "start"
        /\ options.mode = "plan" => to # None
        /\ UNCHANGED <<hidden, changes, reports, Turn!client, before, failures>>
        /\ to = IF options.model # None THEN options.model ELSE inference.model
        /\ with = IF options.effort # None THEN options.effort ELSE inference.effort
    BY DEF Turn!StartTurn, TurnInv, Turn!TypeOK, Turn!Beginning, Beginnings,
           Turn!CollaborationModel, Turn!CollaborationEffort
  <2>1. /\ active'.model = IF to # None THEN to ELSE active.model
        /\ active'.effort = IF to # None THEN with
                            ELSE IF options.effort # None THEN options.effort ELSE active.effort
        /\ active'.mode = IF to # None THEN options.mode ELSE active.mode
        /\ active'.permissions = IF options.preset = "inherit" THEN active.permissions
                                 ELSE options.preset
        /\ active' = [model |-> active'.model, effort |-> active'.effort,
                      mode |-> active'.mode, permissions |-> active'.permissions]
    BY DEF Turn!StartTurn
  <2>2. /\ op' \in Turn!Beginning /\ op'.step = "applied"
        /\ op'.options = options /\ op'.models = op.models
    BY <2>0 DEF Turn!StartTurn, Turn!Beginning
  <2> HIDE DEF to, with
  <2>3. active' \in Turn!Running
    BY <2>0, <2>1 DEF Turn!Running, Turn!Inference, Turn!TurnOptions
  <2>4. Turn!TypeOK'
    BY <2>0, <2>2, <2>3 DEF TurnInv, Turn!TypeOK, Turn!client
  <2>5. /\ inference.model # None =>
             inference.model = active.model /\ inference.effort = active.effort
        /\ inference.effort # None => inference.effort = active.effort
        /\ reports => shown_model = inference /\ inference.model # None
    BY <2>0 DEF TurnInv, Turn!ShownIsActive, ModelIsKnown
  <2>6. Beginnings' /\ ModelIsKnown'
    BY <2>0, <2>2 DEF TurnInv, Beginnings, ModelIsKnown, Turn!client
  <2>7. AnswerIsNoted'
    <3>1. /\ to # None => [model |-> to, effort |-> with]
                         = [model |-> active'.model, effort |-> active'.effort]
          /\ with # None => with = active'.effort
      BY <2>0, <2>1, <2>5
    <3>2. /\ Turn!CollaborationModel(op.options)' = to /\ Turn!CollaborationEffort(op.options)' = with
          /\ Turn!Applied(op.options)' = [model |-> to, effort |-> with]
      BY <2>0, <2>2 DEF Turn!CollaborationModel, Turn!CollaborationEffort, Turn!Applied,
                        Turn!client
    <3>3. reports' => shown_model' = inference'
      BY <2>0, <2>5 DEF Turn!client
    <3> QED BY <3>1, <3>2, <3>3 DEF AnswerIsNoted
  <2>8. Turn!ShownIsActive'
    BY <2>2 DEF Turn!ShownIsActive
  <2>9. Turn!TurnRunsAsAsked'
    BY <2>0, <2>1, <2>2, <2>5 DEF Turn!TurnRunsAsAsked
  <2>10. Turn!OthersAreKept'
    <3>1. ASSUME op.models # {}, reports
          PROVE  \E i \in DOMAIN MCCatalog :
                    /\ MCCatalog[i].model = active'.model
                    /\ IF before.effort \in MCCatalog[i].supported
                         THEN active'.effort = before.effort
                         ELSE active'.effort = MCCatalog[i].default
      <4>1. /\ options.model \in Turn!Models /\ options.model # None
            /\ options.effort = Turn!resolve_reasoning_effort(options.model, inference.effort)
            /\ options.effort # None
        BY <2>0, <3>1, TurnAssumption DEF TurnInv, Beginnings, Turn!TypeOK,
                                          Turn!CatalogAssumption
      <4> DEFINE i == CHOOSE i \in DOMAIN MCCatalog : MCCatalog[i].model = options.model
      <4>2. i \in DOMAIN MCCatalog /\ MCCatalog[i].model = options.model
        BY <4>1 DEF Turn!Models
      <4>3. options.effort = IF inference.effort \in MCCatalog[i].supported
                               THEN inference.effort ELSE MCCatalog[i].default
        BY <4>1 DEF Turn!resolve_reasoning_effort
      <4>4. active'.model = options.model /\ active'.effort = options.effort
            /\ inference.effort = before.effort
        BY <2>0, <2>1, <2>5, <3>1, <4>1
      <4> HIDE DEF i
      <4> QED BY <4>2, <4>3, <4>4
    <3>2. /\ options.preset = "inherit" => active'.permissions = before.permissions
          /\ options.model = None => active'.model = before.model
          /\ options.model = None /\ options.effort = None => active'.effort = before.effort
      BY <2>0, <2>1, <2>5
    <3> QED BY <2>0, <2>2, <3>1, <3>2 DEF Turn!OthersAreKept, Turn!client
  <2> QED BY <2>4, <2>6, <2>7, <2>8, <2>9, <2>10 DEF TurnInv
<1>5. CASE Turn!TurnStarted
  <2> USE <1>5
  <2>0. /\ op \in Turn!Beginning /\ op.step = "applied" /\ op.options \in Turn!TurnOptions
        /\ inference \in Turn!Inference /\ active \in Turn!Running /\ open
        /\ inference' = Turn!Applied(op.options) /\ UNCHANGED <<Turn!server, open, before, failures>>
    BY DEF Turn!TurnStarted, TurnInv, Turn!TypeOK, Turn!Beginning, Beginnings
  <2>1. /\ op' \in Turn!Beginning /\ op'.step = "done"
        /\ op'.options = op.options /\ op'.models = op.models
    BY <2>0 DEF Turn!TurnStarted, Turn!Beginning
  <2>2. /\ inference' \in Turn!Inference
        /\ inference'.model = Turn!CollaborationModel(op.options)
        /\ inference'.effort = Turn!CollaborationEffort(op.options)
    BY <2>0 DEF Turn!Applied, Turn!Inference, Turn!TurnOptions, Turn!CollaborationModel,
                Turn!CollaborationEffort
  <2>3. /\ inference'.model # None =>
             inference' = [model |-> active.model, effort |-> active.effort]
        /\ inference'.effort # None => inference'.effort = active.effort
        /\ reports => shown_model = inference /\ inference'.model # None
    BY <2>0, <2>2 DEF TurnInv, AnswerIsNoted, ModelIsKnown, Turn!CollaborationModel
  <2>4. /\ shown_model' \in Turn!Inference \cup {None}
        /\ reports => shown_model' = inference'
    <3>1. CASE op.options.model # None \/ op.options.effort # None
      BY <2>2, <2>3, <3>1 DEF Turn!TurnStarted, Turn!Emitted, TurnInv, Turn!TypeOK
    <3>2. CASE ~(op.options.model # None \/ op.options.effort # None)
      <4>1. shown_model' = shown_model /\ inference' = inference
        BY <2>0, <3>2 DEF Turn!TurnStarted, Turn!Applied, Turn!Inference
      <4> QED BY <2>3, <4>1 DEF TurnInv, Turn!TypeOK
    <3> QED BY <3>1, <3>2
  <2>5. Turn!TypeOK'
    <3>1. /\ UNCHANGED <<hidden, changes, active, reports, open, before, failures>>
          /\ op' \in Turn!Beginning /\ op'.step = "done" /\ inference' \in Turn!Inference
          /\ shown_model' \in Turn!Inference \cup {None}
      BY <2>0, <2>1, <2>2, <2>4 DEF Turn!server
    <3> HIDE <1>5
    <3> QED BY <3>1 DEF TurnInv, Turn!TypeOK
  <2>6. Beginnings' /\ ModelIsKnown' /\ AnswerIsNoted'
    BY <2>0, <2>1, <2>3 DEF Beginnings, ModelIsKnown, AnswerIsNoted, Turn!server
  <2>7. Turn!ShownIsActive'
    <3>1. active' = active /\ reports' = reports
      BY <2>0 DEF Turn!server
    <3>2. inference'.model # None => inference'.effort = active.effort
      BY <2>3
    <3> QED BY <2>3, <2>4, <3>1, <3>2 DEF Turn!ShownIsActive
  <2>8. Turn!TurnRunsAsAsked' /\ Turn!OthersAreKept'
    BY <2>0, <2>1 DEF TurnInv, Turn!TurnRunsAsAsked, Turn!OthersAreKept, Turn!server
  <2> QED BY <2>5, <2>6, <2>7, <2>8 DEF TurnInv
<1>6. CASE Turn!BeginFails
  BY <1>6, FailKeeps, TurnAssumption
     DEF Turn!BeginFails, TurnInv, Turn!TypeOK, Turn!BoundsAssumption
<1>7. CASE Turn!AcquireWriter
  <2> USE <1>7 DEF Turn!AcquireWriter, Turn!server
  <2>1. op.step = "idle" /\ active \in Turn!Running /\ active.model # None
    BY TurnAssumption DEF TurnInv, Beginnings, Turn!TypeOK, Turn!Beginning, Turn!Running,
                          Turn!CatalogAssumption
  <2>2. Turn!Reported \in Turn!Inference
    BY <2>1 DEF Turn!Reported, Turn!Inference, Turn!Running
  <2>3. /\ reports => Turn!Reported = [model |-> active.model, effort |-> active.effort]
        /\ ~reports => Turn!Reported = [model |-> None, effort |-> None]
    BY DEF Turn!Reported
  <2>4. /\ Turn!Emitted(Turn!Reported) \in Turn!Inference \cup {None}
        /\ reports => Turn!Emitted(Turn!Reported) = Turn!Reported
    BY <2>1, <2>2, <2>3 DEF Turn!Emitted, TurnInv, Turn!TypeOK
  <2>5. Turn!TypeOK'
    BY <2>2, <2>4 DEF TurnInv, Turn!TypeOK
  <2>6. Beginnings' /\ ModelIsKnown' /\ AnswerIsNoted'
    BY <2>1, <2>3 DEF Beginnings, ModelIsKnown, AnswerIsNoted
  <2>7. Turn!ShownIsActive' /\ Turn!TurnRunsAsAsked' /\ Turn!OthersAreKept'
    BY <2>1, <2>3, <2>4 DEF Turn!ShownIsActive, Turn!TurnRunsAsAsked, Turn!OthersAreKept
  <2> QED BY <2>5, <2>6, <2>7 DEF TurnInv
<1>8. ASSUME NEW model \in Turn!Models, Turn!CatalogChanges(model)
      PROVE  TurnInv'
  <2> USE <1>8 DEF Turn!CatalogChanges, Turn!client
  <2>1. Turn!TypeOK'
    BY TurnAssumption DEF TurnInv, Turn!TypeOK, Turn!BoundsAssumption
  <2>2. Beginnings' /\ ModelIsKnown' /\ AnswerIsNoted'
    BY DEF TurnInv, Beginnings, ModelIsKnown, AnswerIsNoted, Turn!CollaborationModel,
           Turn!CollaborationEffort, Turn!Applied, Turn!resolve_reasoning_effort
  <2>3. Turn!ShownIsActive' /\ Turn!TurnRunsAsAsked' /\ Turn!OthersAreKept'
    BY DEF TurnInv, Turn!ShownIsActive, Turn!TurnRunsAsAsked, Turn!OthersAreKept
  <2> QED BY <2>1, <2>2, <2>3 DEF TurnInv
<1>9. CASE UNCHANGED Turn!vars
  <2> USE <1>9 DEF Turn!vars, Turn!server, Turn!client
  <2>1. Turn!TypeOK'
    BY DEF TurnInv, Turn!TypeOK
  <2>2. Beginnings' /\ ModelIsKnown' /\ AnswerIsNoted'
    BY DEF TurnInv, Beginnings, ModelIsKnown, AnswerIsNoted, Turn!CollaborationModel,
           Turn!CollaborationEffort, Turn!Applied, Turn!resolve_reasoning_effort
  <2>3. Turn!ShownIsActive' /\ Turn!TurnRunsAsAsked' /\ Turn!OthersAreKept'
    BY DEF TurnInv, Turn!ShownIsActive, Turn!TurnRunsAsAsked, Turn!OthersAreKept
  <2> QED BY <2>1, <2>2, <2>3 DEF TurnInv
<1>10. CASE \E options \in Turn!TurnOptions, valid \in BOOLEAN : Turn!begin_turn(options, valid)
  BY <1>1, <1>10
<1>11. CASE \E model \in Turn!Models : Turn!CatalogChanges(model)
  BY <1>8, <1>11
<1> QED
  BY <1>2, <1>3, <1>4, <1>5, <1>6, <1>7, <1>9, <1>10, <1>11 DEF Turn!Next

---------------------------------------------------------------------------
(* Listings are complete: ThreadListing                                      *)

\* A thread is listed under the time it was changed at last, which is no other
\* thread's.
TimesDiffer ==
    /\ \A t \in ListedThreads : updated[t] <= clock
    /\ \A t, other \in ListedThreads : updated[t] = updated[other] /\ updated[t] > 0 => t = other
\* What was read is of threads apart, none older than the cursor, those that
\* kept still as they are and in order.
ReadFits ==
    /\ op.cursor = None => op.read = <<>> /\ op.start = None
    /\ op.start # None => op.cursor <= op.start
    /\ \A i, j \in DOMAIN op.read : op.read[i].id = op.read[j].id => i = j
    /\ \A i \in DOMAIN op.read :
         /\ op.cursor <= op.read[i].updated /\ op.read[i] \in seen
         /\ op.read[i].id \in untouched => op.read[i].updated = updated[op.read[i].id]
    /\ \A i, j \in DOMAIN op.read :
         i < j /\ op.read[i].id \in untouched /\ op.read[j].id \in untouched
           => op.read[i].updated > op.read[j].updated
\* The threads that the request selects as they are now.
Selected ==
    {t \in ListedThreads :
       /\ updated[t] > 0 /\ archived[t] = op.archived
       /\ op.start # None => updated[t] <= op.start}
\* All that is still to come could have been listed, and each thread that kept
\* still is read or still to come.
RestFits ==
    /\ \A t \in Selected : [id |-> t, updated |-> updated[t]] \in seen
    /\ \A t \in untouched \cap Selected :
         \/ \E i \in DOMAIN op.read : op.read[i].id = t
         \/ op.cursor # None => updated[t] <= op.cursor
\* What ListingIsComplete says, of the threads selected.
Complete ==
    op.step = "done" /\ op.all =>
      /\ \A i, j \in DOMAIN previous : previous[i].id = previous[j].id => i = j
      /\ \A t \in untouched \cap Selected : \E i \in DOMAIN previous : previous[i].id = t
      /\ \A i, j \in DOMAIN previous :
           i < j /\ previous[i].id \in untouched /\ previous[j].id \in untouched
             => previous[i].updated > previous[j].updated
ListingType == Listing!TypeOK /\ TimesDiffer
ListingInv ==
    /\ ListingType
    /\ op.step = "list" => ReadFits /\ RestFits
    /\ Complete /\ Listing!ListingIsOfTheAttempt /\ Listing!ViewIsLastPage

\* A thread is listed from the start of a request if the request selects it.
LEMMA CompleteListing == ListingType /\ Complete => Listing!ListingIsComplete
BY DEF Listing!Listed, Selected, Complete, Listing!ListingIsComplete, ListingType, Listing!TypeOK

\* What is listed.
LEMMA ListedFacts ==
    ASSUME ListingType, NEW from
    PROVE  \A s \in Listing!Listed(updated, archived, from) :
              /\ s \in Listing!Summary /\ s.id \in ListedThreads /\ s.updated = updated[s.id]
              /\ s.updated \in Nat /\ s.updated > 0 /\ archived[s.id] = op.archived
              /\ s = [id |-> s.id, updated |-> updated[s.id]]
              /\ from # None => s.updated <= from
BY DEF Listing!Listed, ListingType, Listing!TypeOK, Listing!Summary, Listing!Times

\* Summaries in order are those, each once.
LEMMA OrderedFacts ==
    ASSUME NEW S \in SUBSET Listing!Summary, NEW page \in Listing!Ordered(S)
    PROVE  /\ page \in Seq(Listing!Summary) /\ DOMAIN page = 1 .. Len(page) /\ Len(page) \in 0 .. Limit
           /\ \A i \in DOMAIN page : page[i] \in S
           /\ \A s \in S : \E i \in DOMAIN page : page[i] = s
           /\ \A i, j \in DOMAIN page : i < j => page[i].updated > page[j].updated
<1>1. PICK length \in 0 .. Limit : page \in [1 .. length -> S]
  BY DEF Listing!Ordered
<1>2. page \in Seq(S) /\ Len(page) = length /\ DOMAIN page = 1 .. length
  BY <1>1, SeqDef, ListingAssumption DEF Listing!LimitAssumption
<1>3. page \in Seq(Listing!Summary)
  BY <1>2
<1>4. \A s \in S : \E i \in DOMAIN page : page[i] = s
  BY DEF Listing!Ordered, Listing!ToSet
<1>5. \A i, j \in DOMAIN page : i < j => page[i].updated > page[j].updated
  BY DEF Listing!Ordered
<1> QED BY <1>1, <1>2, <1>3, <1>4, <1>5

\* A page holds the newest of what the cursor leaves.
LEMMA PageFacts ==
    ASSUME ListingType, NEW page \in Listing!Pages
    PROVE  /\ page \in Seq(Listing!Summary) /\ DOMAIN page = 1 .. Len(page) /\ Len(page) \in 0 .. Limit
           /\ \A i \in DOMAIN page : page[i] \in Listing!Listed(updated, archived, op.cursor)
           /\ \A i, j \in DOMAIN page : i < j => page[i].updated > page[j].updated
           /\ Listing!ToSet(page) \subseteq Listing!Listed(updated, archived, op.cursor)
           /\ \A s \in Listing!Listed(updated, archived, op.cursor) :
                 \/ \E i \in DOMAIN page : page[i] = s
                 \/ s \notin Listing!ToSet(page) /\ \A i \in DOMAIN page : s.updated < page[i].updated
           /\ Listing!ToSet(page) # Listing!Listed(updated, archived, op.cursor) =>
                 Len(page) = Limit /\ Limit \in DOMAIN page
<1> DEFINE rest == Listing!Listed(updated, archived, op.cursor)
<1>1. PICK newest \in SUBSET rest : page \in Listing!Ordered(newest)
  BY DEF Listing!Pages
<1>2. rest \subseteq Listing!Summary
  BY ListedFacts
<1>3. newest \in SUBSET Listing!Summary
  BY <1>1, <1>2
<1>4. /\ page \in Seq(Listing!Summary) /\ DOMAIN page = 1 .. Len(page) /\ Len(page) \in 0 .. Limit
      /\ \A i \in DOMAIN page : page[i] \in newest
      /\ \A i, j \in DOMAIN page : i < j => page[i].updated > page[j].updated
  BY <1>1, <1>3, OrderedFacts
<1>5. Listing!ToSet(page) = newest /\ \A s \in Listing!ToSet(page) : \E i \in DOMAIN page : page[i] = s
  BY <1>1 DEF Listing!Ordered, Listing!ToSet
<1>6. /\ \A s \in rest \ Listing!ToSet(page), i \in DOMAIN page : s.updated < page[i].updated
      /\ Listing!ToSet(page) # rest => Len(page) = Limit
  BY DEF Listing!Pages
<1>7. Limit \in Nat /\ Limit >= 1
  BY ListingAssumption DEF Listing!LimitAssumption
<1>8. ASSUME Listing!ToSet(page) # rest PROVE Len(page) = Limit /\ Limit \in DOMAIN page
  <2>1. Len(page) = Limit
    BY <1>6, <1>8
  <2>2. DOMAIN page = 1 .. Limit
    BY <1>4, <2>1
  <2>3. Limit \in 1 .. Limit
    BY ONLY <1>7
  <2> QED BY ONLY <2>1, <2>2, <2>3
<1>9. ASSUME NEW s \in rest
      PROVE  \/ \E i \in DOMAIN page : page[i] = s
             \/ s \notin Listing!ToSet(page) /\ \A i \in DOMAIN page : s.updated < page[i].updated
  BY <1>5, <1>6
<1>10. \A i \in DOMAIN page : page[i] \in rest
  BY <1>1, <1>4
<1> QED BY <1>1, <1>4, <1>5, <1>8, <1>9, <1>10

\* What a page adds to what was read keeps it in order, and misses no thread
\* that kept still but those of the next page.
LEMMA PageStep ==
    ASSUME ListingType, ReadFits, RestFits, NEW page \in Listing!Pages,
           NEW new \in Listing!Ordered(Listing!Unread(op.read, page))
    PROVE  LET longer == op.read \o new IN
           /\ longer \in Seq(Listing!Summary) /\ DOMAIN longer = 1 .. Len(longer)
           /\ \A i, j \in DOMAIN longer : longer[i].id = longer[j].id => i = j
           /\ \A i \in DOMAIN longer :
                /\ longer[i] \in seen
                /\ longer[i].id \in untouched => longer[i].updated = updated[longer[i].id]
                /\ (\E k \in DOMAIN op.read : longer[i] = op.read[k])
                     \/ \E k \in DOMAIN page : longer[i] = page[k]
           /\ \A i, j \in DOMAIN longer :
                i < j /\ longer[i].id \in untouched /\ longer[j].id \in untouched
                  => longer[i].updated > longer[j].updated
           /\ \A t \in untouched \cap Selected :
                \/ \E i \in DOMAIN longer : longer[i].id = t
                \/ /\ Listing!ToSet(page) # Listing!Listed(updated, archived, op.cursor)
                   /\ updated[t] < page[Limit].updated
<1> DEFINE longer == op.read \o new
           rest == Listing!Listed(updated, archived, op.cursor)
           unread == Listing!Unread(op.read, page)
<1>1. /\ page \in Seq(Listing!Summary) /\ DOMAIN page = 1 .. Len(page)
      /\ \A i \in DOMAIN page : page[i] \in rest
      /\ \A i, j \in DOMAIN page : i < j => page[i].updated > page[j].updated
  BY PageFacts
<1>2. /\ \A s \in unread : /\ s \in rest /\ \E i \in DOMAIN page : page[i] = s
                           /\ \A i \in DOMAIN op.read : op.read[i].id # s.id
      /\ \A i \in DOMAIN page : \/ page[i] \in unread
                                \/ \E k \in DOMAIN op.read : op.read[k].id = page[i].id
  BY <1>1 DEF Listing!Unread, Listing!ToSet
<1>3. \A s \in rest : /\ s \in Listing!Summary /\ s.id \in ListedThreads /\ s.updated = updated[s.id]
                      /\ s.updated \in Nat /\ s.updated > 0 /\ archived[s.id] = op.archived
                      /\ op.cursor # None => s.updated <= op.cursor
  BY ListedFacts
<1>4. unread \in SUBSET Listing!Summary
  BY <1>2, <1>3
<1>5. /\ new \in Seq(Listing!Summary) /\ DOMAIN new = 1 .. Len(new)
      /\ \A i \in DOMAIN new : new[i] \in unread
      /\ \A s \in unread : \E i \in DOMAIN new : new[i] = s
      /\ \A i, j \in DOMAIN new : i < j => new[i].updated > new[j].updated
  BY <1>4, OrderedFacts
<1>6. op.read \in Seq(Listing!Summary) /\ DOMAIN op.read = 1 .. Len(op.read)
  BY DEF ListingType, Listing!TypeOK, Listing!Polls
<1>7. /\ longer \in Seq(Listing!Summary) /\ Len(longer) = Len(op.read) + Len(new)
      /\ DOMAIN longer = 1 .. Len(longer)
      /\ \A i \in 1 .. Len(op.read) : i \in DOMAIN longer /\ longer[i] = op.read[i]
      /\ \A i \in 1 .. Len(new) : /\ i + Len(op.read) \in DOMAIN longer
                                  /\ longer[i + Len(op.read)] = new[i]
  BY <1>5, <1>6
<1> HIDE DEF longer, rest, unread
\* A place of the whole is one of what was read or one of what is new.
<1>8. \A i \in DOMAIN longer :
         \/ i \in DOMAIN op.read /\ longer[i] = op.read[i]
         \/ /\ i \notin DOMAIN op.read /\ i - Len(op.read) \in DOMAIN new
            /\ longer[i] = new[i - Len(op.read)] /\ i > Len(op.read)
  <2> TAKE i \in DOMAIN longer
  <2>1. CASE i <= Len(op.read)
    BY <1>6, <1>7, <2>1
  <2>2. CASE i > Len(op.read)
    <3>1. i - Len(op.read) \in 1 .. Len(new) /\ (i - Len(op.read)) + Len(op.read) = i
      BY <1>5, <1>6, <1>7, <2>2
    <3> QED BY <1>5, <1>6, <1>7, <2>2, <3>1
  <2> QED BY <1>6, <1>7, <2>1, <2>2
<1>9. \A i, j \in DOMAIN longer : longer[i].id = longer[j].id => i = j
  <2> SUFFICES ASSUME NEW i \in DOMAIN longer, NEW j \in DOMAIN longer,
                      longer[i].id = longer[j].id
               PROVE  i = j
    OBVIOUS
  <2>1. CASE i \in DOMAIN op.read /\ j \in DOMAIN op.read
    BY <1>6, <1>7, <2>1 DEF ReadFits
  <2>2. CASE i \notin DOMAIN op.read /\ j \notin DOMAIN op.read
    <3> DEFINE k == i - Len(op.read)
               l == j - Len(op.read)
    <3>1. k \in DOMAIN new /\ l \in DOMAIN new /\ longer[i] = new[k] /\ longer[j] = new[l]
      BY <1>8, <2>2
    <3>2. new[k] \in rest /\ new[l] \in rest /\ new[k].id = new[l].id
      BY <1>2, <1>5, <3>1
    <3>3. new[k].updated = new[l].updated /\ new[k].updated \in Nat
      BY <1>3, <3>2
    <3>4. k = l
      BY <1>5, <3>1, <3>3
    <3> QED BY <1>6, <1>7, <3>4
  <2>3. CASE i \in DOMAIN op.read /\ j \notin DOMAIN op.read
    BY <1>2, <1>5, <1>8, <2>3
  <2>4. CASE i \notin DOMAIN op.read /\ j \in DOMAIN op.read
    BY <1>2, <1>5, <1>8, <2>4
  <2> QED BY <2>1, <2>2, <2>3, <2>4
<1>10. \A s \in rest : s.id \in Selected
  <2>1. op.start # None => op.cursor # None /\ op.cursor <= op.start
    BY DEF ReadFits
  <2>2. /\ op.start # None => op.start \in Int
        /\ op.cursor # None => op.cursor \in Int
    BY DEF ListingType, Listing!TypeOK, Listing!Polls, Listing!Times
  <2> QED BY <1>3, <2>1, <2>2 DEF Selected
<1>11. rest \subseteq seen
  BY <1>3, <1>10, ListedFacts DEF RestFits, rest
<1>12. \A i \in DOMAIN longer :
         /\ longer[i] \in seen
         /\ longer[i].id \in untouched => longer[i].updated = updated[longer[i].id]
         /\ (\E k \in DOMAIN op.read : longer[i] = op.read[k])
              \/ \E k \in DOMAIN page : longer[i] = page[k]
  <2> SUFFICES ASSUME NEW i \in DOMAIN longer
               PROVE  /\ longer[i] \in seen
                      /\ longer[i].id \in untouched => longer[i].updated = updated[longer[i].id]
                      /\ (\E k \in DOMAIN op.read : longer[i] = op.read[k])
                           \/ \E k \in DOMAIN page : longer[i] = page[k]
    OBVIOUS
  <2>1. CASE i \in DOMAIN op.read
    BY <1>8, <2>1 DEF ReadFits
  <2>2. CASE i \notin DOMAIN op.read
    <3>1. longer[i] \in unread
      BY <1>5, <1>8, <2>2
    <3> QED BY <1>2, <1>3, <1>11, <3>1
  <2> QED BY <2>1, <2>2
<1>13. \A i, j \in DOMAIN longer :
         i < j /\ longer[i].id \in untouched /\ longer[j].id \in untouched
           => longer[i].updated > longer[j].updated
  <2> SUFFICES ASSUME NEW i \in DOMAIN longer, NEW j \in DOMAIN longer, i < j,
                      longer[i].id \in untouched, longer[j].id \in untouched
               PROVE  longer[i].updated > longer[j].updated
    OBVIOUS
  <2>1. CASE j \in DOMAIN op.read
    BY <1>6, <1>7, <1>8, <2>1 DEF ReadFits
  <2>2. CASE i \notin DOMAIN op.read /\ j \notin DOMAIN op.read
    <3> DEFINE k == i - Len(op.read)
               l == j - Len(op.read)
    <3>1. k \in DOMAIN new /\ l \in DOMAIN new /\ longer[i] = new[k] /\ longer[j] = new[l]
      BY <1>8, <2>2
    <3>2. k < l
      BY <1>6, <1>7
    <3> QED BY <1>5, <3>1, <3>2
  <2>3. CASE i \in DOMAIN op.read /\ j \notin DOMAIN op.read
    <3>1. /\ longer[i] = op.read[i] /\ op.cursor # None /\ op.cursor <= longer[i].updated
          /\ longer[i].updated = updated[longer[i].id]
      BY <1>6, <1>8, <2>3 DEF ReadFits
    <3>2. longer[j] \in unread /\ longer[j] \in rest /\ longer[i].id # longer[j].id
      BY <1>2, <1>5, <1>8, <2>3
    <3>3. /\ longer[j].updated = updated[longer[j].id] /\ longer[j].updated <= op.cursor
          /\ longer[j].updated > 0 /\ longer[j].id \in ListedThreads /\ longer[j].updated \in Nat
      BY <1>3, <3>1, <3>2
    <3>4. longer[i] \in Listing!Summary /\ longer[i].id \in ListedThreads /\ longer[i].updated \in Nat
      <4>1. longer[i] \in Listing!Summary
        BY <1>7, ElementOfSeq
      <4> QED BY <4>1 DEF Listing!Summary, Listing!Times
    <3>5. longer[i].updated # longer[j].updated
      BY <3>1, <3>2, <3>3, <3>4 DEF ListingType, TimesDiffer
    <3>6. op.cursor \in Nat
      BY <3>1 DEF ListingType, Listing!TypeOK, Listing!Polls, Listing!Times
    <3> QED BY <3>1, <3>3, <3>4, <3>5, <3>6
  <2> QED BY <1>6, <1>7, <2>1, <2>2, <2>3
<1>14. ASSUME NEW t \in untouched \cap Selected
       PROVE  \/ \E i \in DOMAIN longer : longer[i].id = t
              \/ Listing!ToSet(page) # rest /\ updated[t] < page[Limit].updated
  <2> DEFINE s == [id |-> t, updated |-> updated[t]]
  <2>1. CASE \E i \in DOMAIN op.read : op.read[i].id = t
    BY <1>6, <1>7, <2>1
  <2>2. CASE ~\E i \in DOMAIN op.read : op.read[i].id = t
    <3>1. op.cursor # None => updated[t] <= op.cursor
      BY <1>14, <2>2 DEF RestFits
    <3>2. s \in rest
      BY <1>14, <3>1 DEF rest, Listing!Listed, Selected
    <3>3. \/ \E i \in DOMAIN page : page[i] = s
          \/ /\ Listing!ToSet(page) # rest /\ Limit \in DOMAIN page
             /\ s.updated < page[Limit].updated
      <4>1. /\ \/ \E i \in DOMAIN page : page[i] = s
               \/ s \notin Listing!ToSet(page) /\ \A i \in DOMAIN page : s.updated < page[i].updated
            /\ Listing!ToSet(page) # rest => Limit \in DOMAIN page
        BY <3>2, PageFacts DEF rest
      <4> QED BY <3>2, <4>1
    <3>4. CASE \E i \in DOMAIN page : page[i] = s
      <4>1. s \in unread
        BY <1>2, <2>2, <3>4
      <4>2. PICK i \in DOMAIN new : new[i] = s
        BY <1>5, <4>1
      <4>3. i + Len(op.read) \in DOMAIN longer /\ longer[i + Len(op.read)].id = t
        BY <1>5, <1>7, <4>2
      <4> QED BY <4>3
    <3> QED BY <3>3, <3>4
  <2> QED BY <2>1, <2>2
<1>15. \A t \in untouched \cap Selected :
         \/ \E i \in DOMAIN longer : longer[i].id = t
         \/ Listing!ToSet(page) # rest /\ updated[t] < page[Limit].updated
  BY <1>14
<1> QED BY <1>7, <1>9, <1>12, <1>13, <1>15 DEF longer, rest

\* A listing begins before anything was read.
LEMMA ListingInit == Listing!Init => ListingInv
<1> SUFFICES ASSUME Listing!Init PROVE ListingInv
  OBVIOUS
<1>1. updated \in [ListedThreads -> 0 .. 2] /\ clock = 2 /\ MaxTime \in Nat /\ MaxTime >= 2
  BY ListingAssumption DEF Listing!Init, Listing!BoundsAssumption
<1>2. TimesDiffer
  <2>1. \A t \in ListedThreads : updated[t] <= clock /\ updated[t] \in 0 .. 2
    BY <1>1
  <2>2. \A time \in 1 .. 2 : \E t \in ListedThreads : {t} = {u \in ListedThreads : updated[u] = time}
    BY DEF Listing!Init
  <2>3. ASSUME NEW t \in ListedThreads, NEW other \in ListedThreads, updated[t] = updated[other], updated[t] > 0
        PROVE  t = other
    <3>1. updated[t] \in 1 .. 2
      BY <2>1, <2>3
    <3>2. PICK only \in ListedThreads : {only} = {u \in ListedThreads : updated[u] = updated[t]}
      BY <2>2, <3>1
    <3> QED BY <2>3, <3>2
  <2> QED BY <2>1, <2>3 DEF TimesDiffer
<1>3. Listing!TypeOK
  <2>1. updated \in [ListedThreads -> Listing!Times] /\ clock \in Listing!Times
    BY <1>1 DEF Listing!Times
  <2>2. archived \in [ListedThreads -> BOOLEAN] /\ failures \in 0 .. ListingFailures
    BY ListingAssumption DEF Listing!Init, Listing!BoundsAssumption
  <2>3. /\ op.step = "idle" /\ op.all \in BOOLEAN /\ op.archived \in BOOLEAN
        /\ op.retried \in BOOLEAN /\ op.requested = {} /\ op.read = <<>> /\ op.cursor = None
    BY DEF Listing!Init, Listing!NoOp
  <2>4. <<>> \in Seq(Listing!Summary)
    OBVIOUS
  <2> QED BY <2>1, <2>2, <2>3, <2>4 DEF Listing!Init, Listing!TypeOK, Listing!Polls, Listing!NoOp, Listing!Times
<1>4. ListingType
  BY <1>2, <1>3 DEF ListingType, Listing!Init, Listing!NoOp
<1> QED
  BY <1>4 DEF Listing!Init, Listing!NoOp, ListingInv, Complete, Listing!ListingIsOfTheAttempt, Listing!ViewIsLastPage

\* A thread that another process changes moves to the front: what is still to
\* come loses it, and it no longer counts as one that kept still.
LEMMA ChangeStep ==
    ASSUME ListingInv, NEW thread \in ListedThreads, NEW is_archived \in BOOLEAN,
           Listing!Change(thread, is_archived)
    PROVE  ListingInv'
<1> USE DEF Listing!Change
<1>1. /\ clock \in Nat /\ clock' = clock + 1 /\ clock' \in Listing!Times /\ clock' > 0
      /\ updated \in [ListedThreads -> Listing!Times] /\ archived \in [ListedThreads -> BOOLEAN]
      /\ MaxTime \in Nat
  BY ListingAssumption DEF ListingInv, ListingType, Listing!TypeOK, Listing!Times, Listing!BoundsAssumption
<1>2. /\ updated' \in [ListedThreads -> Listing!Times] /\ updated'[thread] = clock'
      /\ archived' \in [ListedThreads -> BOOLEAN]
      /\ \A t \in ListedThreads \ {thread} : updated'[t] = updated[t] /\ archived'[t] = archived[t]
      /\ untouched' = untouched \ {thread} /\ untouched \subseteq ListedThreads
      /\ UNCHANGED <<previous, op, cancelled, failures, view>>
  BY <1>1 DEF ListingInv, ListingType, Listing!TypeOK
<1>3. TimesDiffer'
  BY <1>1, <1>2 DEF ListingInv, ListingType, TimesDiffer, Listing!Times
<1>4. seen' = seen \cup Listing!Listed(updated', archived', op.start) /\ seen' \subseteq Listing!Summary
  <2>1. Listing!Listed(updated', archived', op.start) \subseteq Listing!Summary
    BY <1>2 DEF Listing!Listed, Listing!Summary
  <2> QED BY <2>1 DEF ListingInv, ListingType, Listing!TypeOK
<1>5. ListingType'
  BY <1>1, <1>2, <1>3, <1>4 DEF ListingInv, ListingType, Listing!TypeOK
<1>6. \A t \in untouched' : /\ t \in untouched /\ updated'[t] = updated[t]
                            /\ t \in Selected' <=> t \in Selected
  BY <1>2 DEF Selected
<1>7. \A t \in Selected' : [id |-> t, updated |-> updated'[t]] \in seen'
  BY <1>2, <1>4 DEF Selected, Listing!Listed
<1>8. op.step = "list" => ReadFits'
  BY <1>2, <1>4, <1>6 DEF ListingInv, ReadFits
<1>9. op.step = "list" => RestFits'
  <2> SUFFICES ASSUME op.step = "list" PROVE RestFits'
    OBVIOUS
  <2>1. \A t \in untouched' \cap Selected' :
           \/ \E i \in DOMAIN op.read : op.read[i].id = t
           \/ op.cursor # None => updated'[t] <= op.cursor
    BY <1>6 DEF ListingInv, RestFits
  <2>2. op' = op
    BY <1>2
  <2> QED BY <1>7, <2>1, <2>2 DEF RestFits
<1>10. Complete'
  BY <1>2, <1>6 DEF ListingInv, Complete
<1>11. Listing!ListingIsOfTheAttempt' /\ Listing!ViewIsLastPage'
  BY <1>2, <1>4 DEF ListingInv, Listing!ListingIsOfTheAttempt, Listing!ViewIsLastPage
<1> QED BY <1>2, <1>5, <1>8, <1>9, <1>10, <1>11 DEF ListingInv

\* What a listing that begins has to go by, the first time or again.
LEMMA BeginStep ==
    ASSUME ListingInv, NEW poll, poll \in Listing!Polls,
           op' = Listing!FirstRequest(poll), untouched' = ListedThreads,
           seen' = {[id |-> t, updated |-> updated[t]] :
                      t \in {t \in ListedThreads :
                             /\ updated[t] > 0 /\ archived[t] = poll.archived
                             /\ poll.start # None => updated[t] <= poll.start}},
           UNCHANGED <<Listing!server, previous, cancelled, failures, view>>
    PROVE  ListingInv'
<1>1. /\ op' \in Listing!Polls
      /\ op'.step = "list" /\ op'.read = <<>> /\ op'.start = poll.start
      /\ op'.cursor = poll.start /\ op'.archived = poll.archived
      /\ op'.cursor # None => op'.cursor \in op'.requested
  <2>1. poll.start \in Listing!Times \cup {None}
    BY DEF Listing!Polls
  <2>2. (IF poll.start = None THEN {} ELSE {poll.start}) \in SUBSET Listing!Times
    BY <2>1
  <2> DEFINE begun_at == IF poll.start = None THEN {} ELSE {poll.start}
  <2> HIDE DEF begun_at
  <2>3. op' = [poll EXCEPT !.step = "list", !.cursor = poll.start, !.read = <<>>,
                           !.requested = begun_at]
    BY DEF Listing!FirstRequest, begun_at
  <2>4. <<>> \in Seq(Listing!Summary) /\ begun_at \in SUBSET Listing!Times
    BY <2>2 DEF begun_at
  <2>5. poll.start # None => poll.start \in begun_at
    BY DEF begun_at
  <2>6. op' \in Listing!Polls
    BY <2>1, <2>3, <2>4 DEF Listing!Polls
  <2>7. /\ op'.step = "list" /\ op'.read = <<>> /\ op'.start = poll.start
        /\ op'.cursor = poll.start /\ op'.archived = poll.archived /\ op'.requested = begun_at
    BY <2>3 DEF Listing!Polls
  <2> QED BY <2>5, <2>6, <2>7
<1>2. UNCHANGED <<updated, archived, clock, previous, cancelled, failures, view>>
  BY DEF Listing!server
<1>3. seen' \subseteq Listing!Summary
  BY DEF ListingInv, ListingType, Listing!TypeOK, Listing!Summary
<1>4. ListingType'
  <2>1. Listing!TypeOK'
    BY <1>1, <1>2, <1>3 DEF ListingInv, ListingType, Listing!TypeOK
  <2>2. TimesDiffer'
    BY <1>2 DEF ListingInv, ListingType, TimesDiffer
  <2> QED BY <1>1, <2>1, <2>2 DEF ListingType
<1>5. seen' = {[id |-> t, updated |-> updated'[t]] : t \in Selected'}
  BY <1>1, <1>2 DEF Selected
<1>6. ReadFits'
  BY <1>1, <1>4 DEF ReadFits, ListingType, Listing!TypeOK, Listing!Polls, Listing!Times
<1>7. \A t \in Selected' : op'.cursor # None => updated'[t] <= op'.cursor
  BY <1>1, <1>2 DEF Selected
<1>8. RestFits'
  BY <1>5, <1>7 DEF RestFits
<1> QED BY <1>1, <1>2, <1>4, <1>6, <1>8
        DEF ListingInv, Complete, Listing!ListingIsOfTheAttempt, Listing!ViewIsLastPage

\* What a request selects depends on the threads and the request only.
LEMMA SelectedKept ==
    ASSUME UNCHANGED <<updated, archived>>, op'.archived = op.archived, op'.start = op.start
    PROVE  Selected' = Selected
BY DEF Selected

\* One more page is read, or the last one makes the listing whole.
LEMMA ListStep == ListingInv /\ Listing!list_threads => ListingInv'
<1> SUFFICES ASSUME ListingInv, Listing!list_threads PROVE ListingInv'
  OBVIOUS
<1>1. PICK page \in Listing!Pages : \E next \in Listing!NextCursors(page), new \in Listing!Ordered(Listing!Unread(op.read, page)) :
         /\ op.all /\ next # None /\ next \notin op.requested =>
              /\ op' = [op EXCEPT !.cursor = next, !.requested = @ \cup {next}, !.read = @ \o new]
              /\ UNCHANGED <<previous, view>>
         /\ op.all /\ next # None /\ next \in op.requested =>
              op' = [op EXCEPT !.step = "error"] /\ UNCHANGED <<previous, view>>
         /\ ~(op.all /\ next # None) =>
              /\ op' = [op EXCEPT !.step = "done"]
              /\ previous' = IF op.all THEN op.read \o new ELSE page
              /\ view' = IF previous # None /\ previous = previous' THEN view ELSE previous'
  BY DEF Listing!list_threads, Listing!accept_next, Listing!record
<1>2. PICK next \in Listing!NextCursors(page), new \in Listing!Ordered(Listing!Unread(op.read, page)) :
         /\ op.all /\ next # None /\ next \notin op.requested =>
              /\ op' = [op EXCEPT !.cursor = next, !.requested = @ \cup {next}, !.read = @ \o new]
              /\ UNCHANGED <<previous, view>>
         /\ op.all /\ next # None /\ next \in op.requested =>
              op' = [op EXCEPT !.step = "error"] /\ UNCHANGED <<previous, view>>
         /\ ~(op.all /\ next # None) =>
              /\ op' = [op EXCEPT !.step = "done"]
              /\ previous' = IF op.all THEN op.read \o new ELSE page
              /\ view' = IF previous # None /\ previous = previous' THEN view ELSE previous'
  BY <1>1
<1> DEFINE longer == op.read \o new
           rest == Listing!Listed(updated, archived, op.cursor)
<1>3. /\ op.step = "list" /\ ListingType /\ ReadFits /\ RestFits
      /\ UNCHANGED <<updated, archived, clock, cancelled, failures, untouched, seen>>
  BY DEF Listing!list_threads, ListingInv, Listing!server, Listing!history
<1>4. /\ longer \in Seq(Listing!Summary) /\ DOMAIN longer = 1 .. Len(longer)
      /\ \A i, j \in DOMAIN longer : longer[i].id = longer[j].id => i = j
      /\ \A i \in DOMAIN longer :
           /\ longer[i] \in seen
           /\ longer[i].id \in untouched => longer[i].updated = updated[longer[i].id]
           /\ (\E k \in DOMAIN op.read : longer[i] = op.read[k])
                \/ \E k \in DOMAIN page : longer[i] = page[k]
      /\ \A i, j \in DOMAIN longer :
           i < j /\ longer[i].id \in untouched /\ longer[j].id \in untouched
             => longer[i].updated > longer[j].updated
      /\ \A t \in untouched \cap Selected :
           \/ \E i \in DOMAIN longer : longer[i].id = t
           \/ Listing!ToSet(page) # rest /\ updated[t] < page[Limit].updated
  BY <1>3, PageStep
<1>5. /\ page \in Seq(Listing!Summary) /\ DOMAIN page = 1 .. Len(page)
      /\ \A i \in DOMAIN page : page[i] \in rest
      /\ \A i, j \in DOMAIN page : i < j => page[i].updated > page[j].updated
      /\ Listing!ToSet(page) # rest => Len(page) = Limit /\ Limit \in DOMAIN page
  BY <1>3, PageFacts
<1>6. \A s \in rest : /\ s \in Listing!Summary /\ s.id \in ListedThreads /\ s.updated = updated[s.id]
                      /\ s.updated \in Nat /\ s.updated > 0 /\ archived[s.id] = op.archived
                      /\ op.cursor # None => s.updated <= op.cursor
  BY <1>3, ListedFacts
<1>7. /\ Listing!ToSet(page) = rest => next = None
      /\ Listing!ToSet(page) # rest => \E overlap \in BOOLEAN :
                                  next = page[Limit].updated - (IF overlap THEN 0 ELSE 1)
  BY ListingAssumption DEF Listing!NextCursors, Listing!OverlapsAssumption
<1>8. next # None => /\ next \in Listing!Times /\ next <= page[Limit].updated
                     /\ page[Limit].updated <= next + 1 /\ page[Limit] \in rest
                     /\ \A i \in DOMAIN page : next <= page[i].updated
                     /\ op.cursor # None => next <= op.cursor
  <2> SUFFICES ASSUME next # None
               PROVE  /\ next \in Listing!Times /\ next <= page[Limit].updated
                      /\ page[Limit].updated <= next + 1 /\ page[Limit] \in rest
                      /\ \A i \in DOMAIN page : next <= page[i].updated
                      /\ op.cursor # None => next <= op.cursor
    OBVIOUS
  <2>1. Listing!ToSet(page) # rest /\ Len(page) = Limit /\ Limit \in DOMAIN page
    BY <1>5, <1>7
  <2>2. /\ page[Limit] \in rest /\ page[Limit].updated \in Nat /\ page[Limit].updated > 0
        /\ page[Limit].updated \in Listing!Times
        /\ op.cursor # None => page[Limit].updated <= op.cursor
    BY <1>5, <1>6, <2>1 DEF Listing!Summary
  <2>3. next \in Listing!Times /\ next <= page[Limit].updated /\ page[Limit].updated <= next + 1
    BY <1>7, <2>1, <2>2, ListingAssumption DEF Listing!Times, Listing!BoundsAssumption
  <2>4. \A i \in DOMAIN page : page[Limit].updated <= page[i].updated /\ page[i].updated \in Nat
    BY <1>5, <1>6, <2>1
  <2>5. op.cursor # None => op.cursor \in Nat
    BY <1>3 DEF ListingType, Listing!TypeOK, Listing!Polls, Listing!Times
  <2> QED BY <2>2, <2>3, <2>4, <2>5 DEF Listing!Times
<1> HIDE DEF longer, rest
<1>9. TimesDiffer'
  BY <1>3 DEF ListingType, TimesDiffer
<1>10. CASE op.all /\ next # None /\ next \notin op.requested
  <2>1. /\ op' = [op EXCEPT !.cursor = next, !.requested = @ \cup {next}, !.read = longer]
        /\ UNCHANGED <<previous, view>>
    BY <1>2, <1>10 DEF longer
  <2>2. /\ op'.step = "list" /\ op'.start = op.start /\ op'.cursor = next
        /\ op'.archived = op.archived /\ op'.read = longer
        /\ op'.requested = op.requested \cup {next}
        /\ op' \in Listing!Polls
    BY <1>3, <1>4, <1>8, <1>10, <2>1 DEF ListingType, Listing!TypeOK, Listing!Polls
  <2>3. ListingType'
    BY <1>3, <1>9, <2>1, <2>2 DEF ListingType, Listing!TypeOK
  <2>4. op.cursor \in Listing!Times \cup {None} /\ op.start \in Listing!Times \cup {None} /\ next \in Int
    BY <1>3, <1>8, <1>10 DEF ListingType, Listing!TypeOK, Listing!Polls, Listing!Times
  <2>5. \A i \in DOMAIN longer : next <= longer[i].updated
    <3> SUFFICES ASSUME NEW i \in DOMAIN longer PROVE next <= longer[i].updated
      OBVIOUS
    <3>1. CASE \E k \in DOMAIN page : longer[i] = page[k]
      BY <1>8, <1>10, <3>1
    <3>2. CASE \E k \in DOMAIN op.read : longer[i] = op.read[k]
      <4>1. op.cursor # None /\ op.cursor <= longer[i].updated /\ next <= op.cursor
        BY <1>3, <1>8, <1>10, <3>2 DEF ReadFits
      <4>2. longer[i].updated \in Int /\ op.cursor \in Int
        <5>1. longer[i] \in Listing!Summary
          BY <1>4, ElementOfSeq
        <5> QED BY <2>4, <4>1, <5>1 DEF Listing!Summary, Listing!Times
      <4> QED BY <2>4, <4>1, <4>2
    <3> QED BY <1>4, <3>1, <3>2
  <2>6. op'.start # None => op'.cursor <= op'.start
    <3>1. op.start # None => op.cursor # None /\ op.cursor <= op.start /\ next <= op.cursor
      BY <1>3, <1>8, <1>10 DEF ReadFits
    <3> QED BY <2>2, <2>4, <3>1 DEF Listing!Times
  <2>7. ReadFits'
    BY <1>3, <1>4, <1>10, <2>2, <2>5, <2>6 DEF ReadFits
  <2>8. ASSUME NEW t \in untouched \cap Selected
        PROVE  (\E i \in DOMAIN longer : longer[i].id = t) \/ updated[t] <= next
    <3>1. CASE \E i \in DOMAIN longer : longer[i].id = t
      BY <3>1
    <3>2. CASE updated[t] < page[Limit].updated
      <4>1. updated[t] \in Int /\ page[Limit].updated \in Int /\ page[Limit].updated <= next + 1
        BY <1>3, <1>6, <1>8, <1>10 DEF Selected, ListingType, Listing!TypeOK, Listing!Times
      <4> QED BY <2>4, <3>2, <4>1
    <3> QED BY <1>4, <3>1, <3>2
  <2>9. RestFits'
    <3>1. Selected' = Selected
      BY <1>3, <2>2, SelectedKept
    <3> QED BY <1>3, <2>2, <2>8, <3>1 DEF RestFits
  <2> QED BY <2>1, <2>2, <2>3, <2>7, <2>9, <1>3
          DEF ListingInv, Complete, Listing!ListingIsOfTheAttempt, Listing!ViewIsLastPage
<1>11. CASE op.all /\ next # None /\ next \in op.requested
  <2>1. op' = [op EXCEPT !.step = "error"] /\ UNCHANGED <<previous, view>>
    BY <1>2, <1>11
  <2>2. /\ op'.step = "error" /\ op'.start = op.start /\ op'.cursor = op.cursor
        /\ op'.requested = op.requested
        /\ op' \in Listing!Polls
    BY <1>3, <2>1 DEF ListingType, Listing!TypeOK, Listing!Polls
  <2>3. ListingType'
    BY <1>3, <1>9, <2>1, <2>2 DEF ListingType, Listing!TypeOK
  <2> QED BY <2>1, <2>2, <2>3 DEF ListingInv, Complete, Listing!ListingIsOfTheAttempt, Listing!ViewIsLastPage
<1>12. CASE ~(op.all /\ next # None)
  <2> DEFINE whole == IF op.all THEN longer ELSE page
  <2>1. /\ op' = [op EXCEPT !.step = "done"] /\ previous' = whole
        /\ view' = IF previous # None /\ previous = previous' THEN view ELSE previous'
    BY <1>2, <1>12 DEF longer
  <2>2. /\ op'.step = "done" /\ op'.start = op.start /\ op'.cursor = op.cursor
        /\ op'.archived = op.archived /\ op'.all = op.all /\ op'.requested = op.requested
        /\ op' \in Listing!Polls
    BY <1>3, <2>1 DEF ListingType, Listing!TypeOK, Listing!Polls
  <2>3. whole \in Seq(Listing!Summary)
    BY <1>4, <1>5
  <2>4. previous' = whole /\ view' = whole
    <3>1. previous # None => view = previous
      BY DEF ListingInv, Listing!ViewIsLastPage
    <3> QED BY <2>1, <3>1
  <2>5. ListingType'
    BY <1>3, <1>9, <2>2, <2>3, <2>4 DEF ListingType, Listing!TypeOK
  <2>6. Listing!ToSet(whole) \subseteq seen
    <3>1. \A i \in DOMAIN longer : longer[i] \in seen
      BY <1>4
    <3>2. \A i \in DOMAIN page : page[i] \in seen
      <4>1. \A s \in rest : s.id \in Selected
        <5>1. /\ op.start # None => op.cursor # None /\ op.cursor <= op.start
              /\ op.start # None => op.start \in Int
              /\ op.cursor # None => op.cursor \in Int
          BY <1>3 DEF ReadFits, ListingType, Listing!TypeOK, Listing!Polls, Listing!Times
        <5> QED BY <1>6, <5>1 DEF Selected
      <4>2. \A s \in rest : s = [id |-> s.id, updated |-> updated[s.id]]
        BY <1>3, ListedFacts DEF rest
      <4> QED BY <1>3, <1>5, <4>1, <4>2 DEF RestFits
    <3> QED BY <3>1, <3>2 DEF Listing!ToSet
  <2> HIDE DEF whole
  <2>7. Listing!ListingIsOfTheAttempt'
    BY <1>3, <2>4, <2>6 DEF Listing!ListingIsOfTheAttempt, Listing!ToSet
  <2>8. Complete'
    <3> SUFFICES ASSUME op.all PROVE Complete'
      BY <2>2 DEF Complete
    <3>1. whole = longer /\ Listing!ToSet(page) = rest
      <4>1. next = None
        BY <1>12
      <4>2. Listing!ToSet(page) # rest => page[Limit].updated \in Nat
        BY <1>5, <1>6
      <4> QED BY <1>7, <4>1, <4>2, ListingAssumption DEF whole, Listing!StartsAssumption
    <3>2. Selected' = Selected
      BY <1>3, <2>2, SelectedKept
    <3>3. \A t \in untouched \cap Selected : \E i \in DOMAIN longer : longer[i].id = t
      BY <1>4, <3>1
    <3> QED BY <1>3, <1>4, <2>4, <3>1, <3>2, <3>3 DEF Complete
  <2> QED BY <2>2, <2>4, <2>5, <2>7, <2>8 DEF ListingInv, Listing!ViewIsLastPage
<1> QED BY <1>10, <1>11, <1>12

\* The steps of a listing, of its caller and of the other processes keep the
\* invariant.
LEMMA ListingStep == ListingInv /\ [Listing!Next]_(Listing!vars) => ListingInv'
<1> SUFFICES ASSUME ListingInv, [Listing!Next]_(Listing!vars) PROVE ListingInv'
  OBVIOUS
<1>1. ASSUME NEW thread \in ListedThreads, Listing!CreateOrUpdate(thread) \/ Listing!ArchiveOrRestore(thread)
      PROVE  ListingInv'
  <2>1. archived[thread] \in BOOLEAN
    BY DEF ListingInv, ListingType, Listing!TypeOK
  <2> QED BY <1>1, <2>1, ChangeStep DEF Listing!CreateOrUpdate, Listing!ArchiveOrRestore
<1>2. ASSUME NEW is_archived \in BOOLEAN, NEW start \in Starts,
             Listing!poll_all_threads(is_archived, start) \/ Listing!poll_thread_page(is_archived, start)
      PROVE  ListingInv'
  <2>1. PICK all \in BOOLEAN : Listing!Poll(all, is_archived, start)
    BY <1>2 DEF Listing!poll_all_threads, Listing!poll_thread_page
  <2> DEFINE poll == [Listing!NoOp EXCEPT !.all = all, !.archived = is_archived, !.start = start]
  <2>2. /\ poll \in Listing!Polls
        /\ poll.archived = is_archived /\ poll.start = start
    <3>1. start \in Listing!Times \cup {None} /\ <<>> \in Seq(Listing!Summary)
      BY ListingAssumption DEF Listing!StartsAssumption, Listing!Times
    <3> QED BY <3>1 DEF Listing!NoOp, Listing!Polls
  <2>3. /\ op' = Listing!FirstRequest(poll) /\ untouched' = ListedThreads
        /\ seen' = {[id |-> t, updated |-> updated[t]] :
                      t \in {t \in ListedThreads :
                             /\ updated[t] > 0 /\ archived[t] = is_archived
                             /\ start # None => updated[t] <= start}}
        /\ UNCHANGED <<Listing!server, previous, cancelled, failures, view>>
    BY <2>1 DEF Listing!Poll
  <2> HIDE DEF poll
  <2> QED BY <2>2, <2>3, BeginStep
<1>3. CASE Listing!reconnect
  <2> DEFINE poll == [op EXCEPT !.retried = TRUE]
  <2>1. /\ poll \in Listing!Polls
        /\ poll.archived = op.archived /\ poll.start = op.start
    BY DEF ListingInv, ListingType, Listing!TypeOK, Listing!Polls
  <2>2. /\ op' = Listing!FirstRequest(poll) /\ untouched' = ListedThreads
        /\ seen' = Listing!Listed(updated, archived, op.start)
        /\ UNCHANGED <<Listing!server, previous, cancelled, failures, view>>
    BY <1>3 DEF Listing!reconnect
  <2> HIDE DEF poll
  <2>3. seen' = {[id |-> t, updated |-> updated[t]] :
                      t \in {t \in ListedThreads :
                             /\ updated[t] > 0 /\ archived[t] = poll.archived
                             /\ poll.start # None => updated[t] <= poll.start}}
    BY <2>1, <2>2 DEF Listing!Listed
  <2> QED BY <2>1, <2>2, <2>3, BeginStep
<1>4. CASE Listing!ConnectionLost \/ Listing!RequestFails \/ Listing!PollInterrupted
  <2>1. /\ op' = [op EXCEPT !.step = op'.step] /\ op'.step \in {"reconnect", "error"}
        /\ failures' \in 0 .. ListingFailures
        /\ UNCHANGED <<updated, archived, clock, previous, cancelled, view, untouched, seen>>
    <3>1. failures \in 0 .. ListingFailures /\ ListingFailures \in Nat
      BY ListingAssumption DEF ListingInv, ListingType, Listing!TypeOK, Listing!BoundsAssumption
    <3>2. \A step \in {"reconnect", "error"} :
             op' = [op EXCEPT !.step = step] =>
               op' = [op EXCEPT !.step = op'.step] /\ op'.step = step
      BY DEF ListingInv, ListingType
    <3> QED BY <1>4, <3>1, <3>2
            DEF Listing!ConnectionLost, Listing!RequestFails, Listing!PollInterrupted, Listing!server, Listing!history
  <2>2. /\ op' \in Listing!Polls
        /\ op'.cursor = op.cursor /\ op'.requested = op.requested
    BY <2>1 DEF ListingInv, ListingType, Listing!TypeOK, Listing!Polls
  <2>3. TimesDiffer'
    BY <2>1 DEF ListingInv, ListingType, TimesDiffer
  <2>4. ListingType'
    BY <2>1, <2>2, <2>3 DEF ListingInv, ListingType, Listing!TypeOK
  <2> QED BY <2>1, <2>4
          DEF ListingInv, Complete, Listing!ListingIsOfTheAttempt, Listing!ViewIsLastPage
<1>5. CASE Listing!reset_thread_page_baseline
  <2>1. /\ op' = Listing!NoOp /\ previous' = None /\ view' = None
        /\ UNCHANGED <<updated, archived, clock, cancelled, failures, untouched, seen>>
    BY <1>5 DEF Listing!reset_thread_page_baseline, Listing!server, Listing!history
  <2>2. /\ op' \in Listing!Polls
        /\ op'.step = "idle" /\ op'.cursor = None
    <3>1. <<>> \in Seq(Listing!Summary)
      OBVIOUS
    <3> QED BY <2>1, <3>1 DEF Listing!NoOp, Listing!Polls
  <2>3. TimesDiffer'
    BY <2>1 DEF ListingInv, ListingType, TimesDiffer
  <2>4. ListingType'
    BY <2>1, <2>2, <2>3 DEF ListingInv, ListingType, Listing!TypeOK
  <2> QED BY <2>1, <2>2, <2>4
          DEF ListingInv, Complete, Listing!ListingIsOfTheAttempt, Listing!ViewIsLastPage
<1>6. CASE Listing!Cancel \/ UNCHANGED Listing!vars
  <2>1. /\ cancelled' \in BOOLEAN
        /\ UNCHANGED <<updated, archived, clock, previous, op, failures, view, untouched, seen>>
    BY <1>6 DEF Listing!Cancel, Listing!vars, Listing!server, Listing!history, ListingInv, ListingType, Listing!TypeOK
  <2>2. TimesDiffer' /\ Selected' = Selected
    BY <2>1, SelectedKept DEF ListingInv, ListingType, TimesDiffer
  <2>3. ListingType'
    BY <2>1, <2>2 DEF ListingInv, ListingType, Listing!TypeOK
  <2>4. op.step = "list" => ReadFits' /\ RestFits'
    BY <2>1, <2>2 DEF ListingInv, ReadFits, RestFits
  <2> QED BY <2>1, <2>2, <2>3, <2>4
          DEF ListingInv, Complete, Listing!ListingIsOfTheAttempt, Listing!ViewIsLastPage
<1> QED BY <1>1, <1>2, <1>3, <1>4, <1>5, <1>6, ListStep DEF Listing!Next, Listing!Answer

---------------------------------------------------------------------------
(* Messages: UserMessage.  Of what clients write, nothing is used.          *)

\* A message has one input at least and at most one more than are added.
MessageInv == Envelope!TypeOK /\ \E inputs : content \in Seq(inputs)
LEMMA MessageInit == Envelope!Init => MessageInv
<1> SUFFICES ASSUME Envelope!Init PROVE MessageInv
  OBVIOUS
<1>1. PICK text \in MCTexts : content = <<[is |-> "text", text |-> text]>>
  BY DEF Envelope!Init
<1>2. /\ content \in Seq({[is |-> "text", text |-> text]}) /\ Len(content) = 1
      /\ Envelope!ToSet(content) = {[is |-> "text", text |-> text]}
  BY <1>1 DEF Envelope!ToSet
<1>3. message = None /\ mistakes = 0
  BY DEF Envelope!Init
<1>4. Envelope!TypeOK
  BY <1>2, <1>3 DEF Envelope!TypeOK
<1> QED BY <1>2, <1>4 DEF MessageInv

\* What a mistake leaves is one text.
LEMMA MistakeKeeps ==
    ASSUME MessageInv, NEW text, Envelope!MakesMistake(text)
    PROVE  MessageInv'
<1>1. content' = <<[is |-> "text", text |-> text]>>
  BY DEF Envelope!MakesMistake
<1>2. /\ content' \in Seq({[is |-> "text", text |-> text]}) /\ Len(content') = 1
      /\ Envelope!ToSet(content') = {[is |-> "text", text |-> text]}
  BY <1>1 DEF Envelope!ToSet
<1>3. message' = None /\ mistakes' \in 0 .. 1
  BY DEF Envelope!MakesMistake, MessageInv, Envelope!TypeOK
<1>4. Envelope!TypeOK'
  BY <1>2, <1>3 DEF Envelope!TypeOK
<1> QED BY <1>2, <1>4 DEF MessageInv

\* Inputs are added one at a time, while there is room.
LEMMA InputKeeps ==
    ASSUME MessageInv, NEW one \in MCInputs, Envelope!Adds(one)
    PROVE  MessageInv'
<1>1. PICK inputs : content \in Seq(inputs)
  BY DEF MessageInv
<1> DEFINE more == inputs \cup {one}
<1>2. content \in Seq(more) /\ <<one>> \in Seq(more) /\ one \in more
  BY <1>1
<1>3. /\ content' \in Seq(more) /\ Len(content') = Len(content) + 1
      /\ \A i \in DOMAIN content' : content'[i] = one \/ \E j \in DOMAIN content : content'[i] = content[j]
  <2>1. CASE content' = Append(content, one)
    BY <1>2, <2>1, AppendProperties
  <2>2. CASE content' = <<one>> \o content
    BY <1>2, <2>2, ConcatProperties
  <2> QED BY <2>1, <2>2 DEF Envelope!Adds
<1>4. \A x \in Envelope!ToSet(content') : x.is = "text" \/ x \in MCInputs
  <2>1. \A x \in Envelope!ToSet(content') : x = one \/ x \in Envelope!ToSet(content)
    BY <1>3 DEF Envelope!ToSet
  <2>2. \A x \in Envelope!ToSet(content) : x.is = "text" \/ x \in MCInputs
    BY DEF MessageInv, Envelope!TypeOK
  <2> QED BY <2>1, <2>2
<1>5. Len(content') \in 1 .. 3
  BY <1>2, <1>3 DEF Envelope!Adds, MessageInv, Envelope!TypeOK
<1>6. message' = None /\ mistakes' \in 0 .. 1
  BY DEF Envelope!Adds, MessageInv, Envelope!TypeOK
<1>7. Envelope!TypeOK'
  BY <1>4, <1>5, <1>6 DEF Envelope!TypeOK
<1> QED BY <1>3, <1>7 DEF MessageInv

LEMMA MessageStep == MessageInv /\ [Envelope!Next]_(Envelope!vars) => MessageInv'
<1> SUFFICES ASSUME MessageInv, [Envelope!Next]_(Envelope!vars) PROVE MessageInv'
  OBVIOUS
<1>1. CASE Envelope!Mistake
  BY <1>1, MistakeKeeps DEF Envelope!Mistake
<1>2. ASSUME NEW one \in MCInputs, Envelope!Adds(one) PROVE MessageInv'
  BY <1>2, InputKeeps
<1>3. CASE Envelope!message_from_item
  <2>1. content' = content /\ mistakes' = mistakes /\ message'.text = Envelope!TextOf(content)
    BY <1>3 DEF Envelope!message_from_item
  <2> QED BY <2>1 DEF MessageInv, Envelope!TypeOK
<1>4. CASE UNCHANGED Envelope!vars
  BY <1>4 DEF Envelope!vars, MessageInv, Envelope!TypeOK
<1> QED BY <1>1, <1>2, <1>3, <1>4 DEF Envelope!Next

---------------------------------------------------------------------------
(* Changes of threads whose answers can get lost, for any threads and any    *)
(* bounds on connections and operations: ThreadWriters                       *)

\* Who holds a connection: the session, or the writer of a thread.
Held == {session} \cup {writers[t] : t \in ChangedThreads}
InUse == Held \cup {op.on}
OwnsConnection == op.step \in {"request", "shutdown"} /\ op.kind \notin Writers!OnSession

\* The connections in use have been opened.
Opened == \A link \in InUse \cap Writers!Connections : link <= opened

\* The steps an operation of each kind goes through.
StepsFit ==
    /\ op.kind = None => op = Writers!NoOp
    /\ op.kind # None => op.step # "idle" /\ op.thread # None
    /\ op.step \in {"request", "shutdown"} => op.on # None
    /\ op.step \in {"connect", "shutdown"} => op.kind \notin Writers!OnSession
    /\ op.step = "replace" => op.kind = "rename"
    /\ op.step \in {"request", "replace"} /\ op.kind \in Writers!OnSession => op.on = session
    /\ op.step = "connect" => op.on \notin running

\* Each connection is in one hand, and no process runs but theirs.
Separate ==
    /\ running \subseteq InUse
    /\ \A t \in ChangedThreads : writers[t] # session /\ (writers[t] # None => t \in threads)
    /\ \A s, t \in ChangedThreads : writers[s] = writers[t] /\ writers[s] # None => s = t
    /\ OwnsConnection => op.on \notin Held
    /\ op.kind = "acquire" => writers[op.thread] = None

\* A lease is that of a process that runs, and of the thread it was made for.
LeasesFit ==
    \A t \in ChangedThreads : lease[t] \in Writers!Connections =>
        /\ lease[t] \in running /\ lease[t] # session
        /\ \A s \in ChangedThreads : lease[t] = writers[s] => s = t
        /\ OwnsConnection /\ lease[t] = op.on => t = op.thread /\ ~op.pending

\* The connection about to be handed out holds the lease, and no other writer
\* of the thread has it.
Acquired ==
    op.step = "request" /\ op.kind \notin Writers!OnSession /\ ~op.pending =>
        /\ op.on \in running => lease[op.thread] = op.on
        /\ writers[op.thread] = None /\ op.thread \in threads

\* How often a request was applied.
Applications ==
    LET earlier == IF op.retried THEN 1 ELSE 0
        unanswered == op.step \in {"connect", "replace"} \/ op.pending
    IN  /\ op.retried => op.kind \in {"rename", "acquire"}
        /\ op.applied <= earlier + IF unanswered THEN 0 ELSE 1
        /\ op.step = "request" /\ ~op.pending => op.applied > 0

WritersInv == /\ Writers!TypeOK /\ Opened /\ StepsFit /\ Separate /\ LeasesFit /\ Acquired
              /\ Applications /\ Writers!WriterHoldsLease /\ Writers!SuccessIsApplied

WritersAssumptions ==
    Writers!ThreadsAssumption /\ Writers!BoundsAssumption /\ Writers!NoneAssumption

-----------------------------------------------------------------------------
\* No operation is an operation.
LEMMA NoOpType == ASSUME Writers!NoneAssumption PROVE Writers!NoOp \in Writers!Attempts
BY DEF Writers!NoOp, Writers!Attempts, Writers!Kinds

\* An exit takes the process away, and its leases with it.
LEMMA ExitFrees ==
    ASSUME Writers!TypeOK, NEW link \in Writers!Connections \cup {None}, Writers!Exit(link)
    PROVE  /\ running' = running \ {link}
           /\ lease' \in [ChangedThreads -> Writers!Connections \cup {None, Other}]
           /\ \A t \in ChangedThreads : lease'[t] = IF lease[t] = link THEN None ELSE lease[t]
BY DEF Writers!TypeOK, Writers!Exit

\* Every action keeps WritersInv. The app-server's: a request is applied,
LEMMA ApplyStep ==
    ASSUME WritersAssumptions, WritersInv, Writers!Apply
    PROVE  WritersInv'
<1> USE DEF Writers!server, Writers!client, Writers!Apply
<1> DEFINE created == CHOOSE t \in ChangedThreads : t \notin threads
           subject == IF op.kind \in Writers!Creations THEN created ELSE op.thread
<1>a. subject \in ChangedThreads /\ (op.kind \in Writers!Creations => subject \notin threads)
      /\ (op.kind \notin Writers!Creations => subject = op.thread)
  BY DEF WritersInv, Writers!TypeOK, Writers!Attempts, StepsFit, Writers!NoOp
<1>b. /\ threads' = threads \cup {subject}
      /\ op' = [op EXCEPT !.pending = FALSE, !.applied = @ + 1, !.thread = subject]
      /\ lease' = IF op.kind \in Writers!OnSession THEN lease ELSE [lease EXCEPT ![subject] = op.on]
  OBVIOUS
<1> HIDE DEF Writers!Apply
<1>c. /\ op.step = "request" /\ op.pending /\ op.on \in running
      /\ op.kind = "acquire" => lease[op.thread] \in {None, op.on}
      /\ UNCHANGED <<running, Writers!client, cancelled, operations, last>>
  BY DEF Writers!Apply
<1> HIDE DEF created, subject
<1>1. Writers!TypeOK'
  <2>1. op.applied + 1 \in 0 .. 2
    BY <1>c DEF WritersInv, Writers!TypeOK, Writers!Attempts, Applications
  <2>2. op' \in Writers!Attempts
    BY <2>1, <1>a, <1>b DEF WritersInv, Writers!TypeOK, Writers!Attempts
  <2>3. lease' \in [ChangedThreads -> Writers!Connections \cup {None, Other}]
    BY <1>a, <1>b, <1>c DEF WritersInv, Writers!TypeOK
  <2> QED
    BY <2>2, <2>3, <1>a, <1>b, <1>c DEF WritersInv, Writers!TypeOK, WritersAssumptions,
                                        Writers!ThreadsAssumption
<1>2. Opened'
  BY <1>a, <1>b, <1>c DEF WritersInv, Opened, Held, InUse
<1>3. StepsFit'
  BY <1>a, <1>b, <1>c DEF WritersInv, StepsFit, Writers!NoOp, WritersAssumptions,
                          Writers!NoneAssumption
<1>4. Separate'
  BY <1>a, <1>b, <1>c DEF WritersInv, Separate, Held, InUse, OwnsConnection
<1>5. LeasesFit'
  BY <1>a, <1>b, <1>c DEF WritersInv, Separate, LeasesFit, Held, OwnsConnection
<1>6. Acquired'
  BY <1>a, <1>b, <1>c DEF WritersInv, Writers!TypeOK, Writers!Attempts, StepsFit, Separate,
                          Acquired, Writers!Kinds,
                          Writers!OnSession, Writers!Creations, Writers!NoOp
<1>7. Applications'
  BY <1>a, <1>b, <1>c DEF WritersInv, Writers!TypeOK, Writers!Attempts, Applications
<1>8. Writers!WriterHoldsLease'
  BY <1>a, <1>b, <1>c DEF WritersInv, Writers!TypeOK, Writers!Attempts, StepsFit, Separate,
                          Writers!WriterHoldsLease,
                          Writers!Kinds, Writers!OnSession, Writers!Creations, Writers!NoOp,
                          WritersAssumptions, Writers!NoneAssumption
<1>9. Writers!SuccessIsApplied'
  BY <1>a, <1>b, <1>c DEF WritersInv, Writers!SuccessIsApplied
<1> QED
  BY <1>1, <1>2, <1>3, <1>4, <1>5, <1>6, <1>7, <1>8, <1>9 DEF WritersInv

\* a process exits,
LEMMA ProcessExitsStep ==
    ASSUME WritersAssumptions, WritersInv, Writers!ProcessExits
    PROVE  WritersInv'
<1> USE DEF Writers!server, Writers!client, Writers!ProcessExits
<1>a. PICK link \in running : Writers!Exit(link)
  OBVIOUS
<1>b. link \in Writers!Connections
  BY DEF WritersInv, Writers!TypeOK
<1> HIDE DEF Writers!ProcessExits
<1>c. UNCHANGED <<threads, Writers!client, cancelled, op, operations, last>>
  BY DEF Writers!ProcessExits
<1>d. /\ running' = running \ {link}
      /\ lease' \in [ChangedThreads -> Writers!Connections \cup {None, Other}]
      /\ \A t \in ChangedThreads : lease'[t] = IF lease[t] = link THEN None ELSE lease[t]
  BY <1>a, <1>b, ExitFrees DEF WritersInv
<1> USE <1>b, <1>c, <1>d
<1>1. Writers!TypeOK'
  BY NoOpType DEF WritersInv, Writers!TypeOK, WritersAssumptions
<1>2. Opened'
  BY DEF WritersInv, Opened, Held, InUse
<1>3. StepsFit'
  BY DEF WritersInv, StepsFit
<1>4. Separate'
  BY SMT DEF WritersInv, Separate, Writers!NoOp, Held, InUse, OwnsConnection, Writers!OnSession
<1>5. LeasesFit'
  BY DEF WritersInv, LeasesFit, OwnsConnection, WritersAssumptions, Writers!NoneAssumption
<1>6. Acquired'
  BY DEF WritersInv, Writers!TypeOK, Acquired
<1>7. Applications'
  BY DEF WritersInv, Applications
<1>8. Writers!WriterHoldsLease'
  BY DEF WritersInv, Writers!WriterHoldsLease
<1>9. Writers!SuccessIsApplied'
  BY DEF WritersInv, Writers!SuccessIsApplied
<1> QED
  BY <1>1, <1>2, <1>3, <1>4, <1>5, <1>6, <1>7, <1>8, <1>9 DEF WritersInv

\* another client takes a lease;
LEMMA OtherWritesStep ==
    ASSUME WritersAssumptions, WritersInv, NEW x \in ChangedThreads, Writers!OtherWrites(x)
    PROVE  WritersInv'
<1> USE DEF Writers!server, Writers!client, Writers!OtherWrites
<1>a. /\ lease' \in [ChangedThreads -> Writers!Connections \cup {None, Other}]
      /\ \A t \in ChangedThreads : /\ lease'[t] \in Writers!Connections => lease'[t] = lease[t]
                                   /\ lease[t] \in Writers!Connections => lease'[t] = lease[t]
  <2>1. lease' = [lease EXCEPT ![x] = IF @ = None THEN Other ELSE IF @ = Other THEN None ELSE @]
    OBVIOUS
  <2>2. lease \in [ChangedThreads -> Writers!Connections \cup {None, Other}]
    BY DEF WritersInv, Writers!TypeOK
  <2> QED
    BY <2>1, <2>2 DEF WritersAssumptions, Writers!NoneAssumption
<1>b. UNCHANGED <<threads, running, Writers!client, cancelled, op, operations, last>>
  OBVIOUS
<1> HIDE DEF Writers!OtherWrites
<1>1. Writers!TypeOK'
  BY <1>a, <1>b DEF WritersInv, Writers!TypeOK
<1>2. Opened'
  BY <1>a, <1>b DEF WritersInv, Opened, Held, InUse
<1>3. StepsFit'
  BY <1>a, <1>b DEF WritersInv, StepsFit
<1>4. Separate'
  BY <1>a, <1>b DEF WritersInv, Separate, Held, InUse, OwnsConnection
<1>5. LeasesFit'
  BY <1>a, <1>b DEF WritersInv, LeasesFit, OwnsConnection
<1>6. Acquired'
  BY <1>a, <1>b DEF WritersInv, Writers!TypeOK, Acquired
<1>7. Applications'
  BY <1>a, <1>b DEF WritersInv, Applications
<1>8. Writers!WriterHoldsLease'
  BY <1>a, <1>b DEF WritersInv, Writers!TypeOK, Writers!WriterHoldsLease
<1>9. Writers!SuccessIsApplied'
  BY <1>a, <1>b DEF WritersInv, Writers!SuccessIsApplied
<1> QED
  BY <1>1, <1>2, <1>3, <1>4, <1>5, <1>6, <1>7, <1>8, <1>9 DEF WritersInv

\* the caller's: a writer is released,
LEMMA ReleaseWriterStep ==
    ASSUME WritersAssumptions, WritersInv, NEW x \in ChangedThreads, Writers!ReleaseWriter(x)
    PROVE  WritersInv'
<1> USE DEF Writers!server, Writers!client, Writers!ReleaseWriter
<1>a. /\ running' = running \ {writers[x]}
      /\ lease' \in [ChangedThreads -> Writers!Connections \cup {None, Other}]
      /\ \A t \in ChangedThreads : lease'[t] = IF lease[t] = writers[x] THEN None ELSE lease[t]
  BY ExitFrees DEF WritersInv, Writers!TypeOK
<1>b. /\ writers' \in [ChangedThreads -> Writers!Connections \cup {None}]
      /\ \A t \in ChangedThreads : writers'[t] = IF t = x THEN None ELSE writers[t]
  BY DEF WritersInv, Writers!TypeOK
<1>c. /\ op = Writers!NoOp /\ writers[x] # None
      /\ UNCHANGED <<threads, session, opened, cancelled, op, operations, last>>
  OBVIOUS
<1> HIDE DEF Writers!ReleaseWriter
<1>1. Writers!TypeOK'
  BY <1>a, <1>b, <1>c DEF WritersInv, Writers!TypeOK
<1>2. Opened'
  BY <1>a, <1>b, <1>c DEF WritersInv, Opened, Held, InUse, WritersAssumptions,
                          Writers!NoneAssumption
<1>3. StepsFit'
  BY <1>a, <1>b, <1>c DEF WritersInv, StepsFit
<1>4. Separate'
  <2>1. running' \subseteq InUse'
    <3>1. SUFFICES ASSUME NEW link \in running, link # writers[x] PROVE link \in InUse'
      BY <1>a
    <3>2. link \in Writers!Connections /\ None \notin Writers!Connections
      BY DEF WritersInv, Writers!TypeOK, WritersAssumptions, Writers!NoneAssumption
    <3>3. link = session \/ \E t \in ChangedThreads : link = writers[t]
      BY <1>c, <3>2 DEF WritersInv, Separate, Writers!NoOp, Held, InUse
    <3> QED
      BY <1>b, <1>c, <3>1, <3>3 DEF Held, InUse
  <2>2. /\ op'.kind = None /\ op'.step = "idle"
        /\ \A t \in ChangedThreads : writers'[t] \in {writers[t], None}
    BY <1>b, <1>c DEF Writers!NoOp
  <2>3. None \notin Writers!Kinds /\ None \notin Writers!Connections /\ session \in Writers!Connections
    BY DEF WritersInv, Writers!TypeOK, WritersAssumptions, Writers!NoneAssumption
  <2> QED
    BY <1>c, <2>1, <2>2, <2>3 DEF WritersInv, Separate, Writers!Kinds, OwnsConnection
<1>5. LeasesFit'
  BY <1>a, <1>b, <1>c DEF WritersInv, LeasesFit, Writers!NoOp, WritersAssumptions,
                          Writers!NoneAssumption
<1>6. Acquired'
  BY <1>a, <1>b, <1>c DEF WritersInv, Acquired, Writers!NoOp
<1>7. Applications'
  BY <1>a, <1>b, <1>c DEF WritersInv, Applications
<1>8. Writers!WriterHoldsLease'
  <2> SUFFICES ASSUME NEW t \in ChangedThreads, writers'[t] \in running'
               PROVE  lease'[t] = writers'[t]
    BY DEF Writers!WriterHoldsLease
  <2>1. running \subseteq Writers!Connections /\ None \notin Writers!Connections
    BY DEF WritersInv, Writers!TypeOK, WritersAssumptions, Writers!NoneAssumption
  <2>2. t # x /\ writers'[t] = writers[t] /\ writers[t] # writers[x]
    BY <1>a, <1>b, <2>1
  <2>3. lease[t] = writers[t]
    BY <1>a, <2>2 DEF WritersInv, Writers!WriterHoldsLease
  <2> QED
    BY <1>a, <2>2, <2>3
<1>9. Writers!SuccessIsApplied'
  BY <1>a, <1>b, <1>c DEF WritersInv, Writers!SuccessIsApplied
<1> QED
  BY <1>1, <1>2, <1>3, <1>4, <1>5, <1>6, <1>7, <1>8, <1>9 DEF WritersInv

\* an operation begins,
LEMMA ChangeBegins ==
    ASSUME WritersAssumptions, WritersInv, NEW x \in ChangedThreads,
           NEW k \in Writers!Kinds, Writers!Begin(k, x)
    PROVE  WritersInv'
<1> USE DEF Writers!server, Writers!client, Writers!Begin
<1>b. /\ op = Writers!NoOp /\ last' = Writers!NoResult
      /\ UNCHANGED <<Writers!server, Writers!client, cancelled>>
      /\ k = "acquire" => writers[x] = None
  OBVIOUS
<1>c. /\ op' \in Writers!Attempts /\ op'.kind = k /\ op'.thread = x
      /\ ~op'.retried /\ op'.applied = 0
      /\ k \in Writers!OnSession => op'.step = "request" /\ op'.on = session /\ op'.pending
      /\ k \notin Writers!OnSession => op'.step = "connect" /\ op'.on = None /\ ~op'.pending
  <2>1. CASE k \in Writers!OnSession
    <3>1. (k \in Writers!OnSession) = TRUE
      BY <2>1
    <3>2. op' = [Writers!NoOp EXCEPT !.kind = k, !.thread = x, !.step = "request", !.on = session,
                            !.pending = TRUE]
      BY <2>1, <3>1, Zenon
    <3>3. /\ op'.kind = k /\ op'.thread = x /\ ~op'.retried /\ op'.applied = 0
          /\ op'.step = "request" /\ op'.on = session /\ op'.pending
          /\ op' \in Writers!Attempts
      BY <3>2 DEF WritersInv, Writers!TypeOK, Writers!NoOp, Writers!Attempts
    <3> QED
      BY <3>3
  <2>2. CASE k \notin Writers!OnSession
    <3>1. (k \in Writers!OnSession) = FALSE
      BY <2>2
    <3>2. op' = [Writers!NoOp EXCEPT !.kind = k, !.thread = x, !.step = "connect", !.on = None,
                            !.pending = FALSE]
      BY <2>2, <3>1, Zenon
    <3>3. /\ op'.kind = k /\ op'.thread = x /\ ~op'.retried /\ op'.applied = 0
          /\ op'.step = "connect" /\ op'.on = None /\ ~op'.pending
          /\ op' \in Writers!Attempts
      <4>1. op' = [kind |-> k, thread |-> x, step |-> "connect", on |-> None,
                   retried |-> FALSE, applied |-> 0, pending |-> FALSE]
        BY <3>2 DEF Writers!NoOp
      <4> HIDE DEF Writers!Begin
      <4>2. op' \in Writers!Attempts
        BY <4>1 DEF Writers!Attempts
      <4> QED
        BY <4>1, <4>2
    <3> QED
      BY <3>3
  <2> QED
    BY <2>1, <2>2
<1> HIDE DEF Writers!Begin
<1>1. Writers!TypeOK'
  BY <1>b, <1>c DEF WritersInv, Writers!TypeOK
<1>2. Opened'
  BY <1>b, <1>c DEF WritersInv, Opened, Held, InUse, WritersAssumptions, Writers!NoneAssumption
<1>3. StepsFit'
  BY <1>b, <1>c DEF WritersInv, Writers!TypeOK, StepsFit, WritersAssumptions,
                    Writers!NoneAssumption
<1>4. Separate'
  BY <1>b, <1>c DEF WritersInv, Writers!TypeOK, Separate, Held, InUse, OwnsConnection,
                    Writers!NoOp, WritersAssumptions,
                    Writers!NoneAssumption
<1>5. LeasesFit'
  BY <1>b, <1>c DEF WritersInv, LeasesFit, OwnsConnection
<1>6. Acquired'
  BY <1>b, <1>c DEF WritersInv, Acquired
<1>7. Applications'
  BY <1>b, <1>c DEF WritersInv, Applications
<1>8. Writers!WriterHoldsLease'
  BY <1>b, <1>c DEF WritersInv, Writers!WriterHoldsLease
<1>9. Writers!SuccessIsApplied'
  BY <1>b, <1>c DEF WritersInv, Writers!SuccessIsApplied, Writers!NoResult
<1> QED
  BY <1>1, <1>2, <1>3, <1>4, <1>5, <1>6, <1>7, <1>8, <1>9 DEF WritersInv

\* connects,
LEMMA ConnectStep ==
    ASSUME WritersAssumptions, WritersInv, Writers!Connect
    PROVE  WritersInv'
<1> USE DEF Writers!server, Writers!client, Writers!Connect
<1>a. op' = [op EXCEPT !.step = "request", !.on = opened + 1, !.pending = TRUE]
  OBVIOUS
<1>b. opened + 1 \in Writers!Connections /\ op' \in Writers!Attempts
  <2>1. opened + 1 \in Writers!Connections
    BY DEF WritersInv, Writers!TypeOK, Writers!Connections, WritersAssumptions,
           Writers!BoundsAssumption
  <2> QED
    BY <1>a, <2>1 DEF WritersInv, Writers!TypeOK, Writers!Attempts
<1> USE <1>b
<1>1. Writers!TypeOK'
  BY DEF WritersInv, Writers!TypeOK
<1>2. Opened'
  BY DEF WritersInv, Writers!TypeOK, Opened, Held, InUse, Writers!Connections
<1>3. StepsFit'
  BY DEF WritersInv, StepsFit, Writers!NoOp, WritersAssumptions, Writers!NoneAssumption
<1>4. Separate'
  BY DEF WritersInv, Writers!TypeOK, Opened, StepsFit, Separate, Held, InUse, OwnsConnection,
         Writers!Connections,
         Writers!OnSession
<1>5. LeasesFit'
  BY DEF WritersInv, Writers!TypeOK, Opened, Separate, LeasesFit, Writers!Connections
<1>6. Acquired'
  BY DEF WritersInv, Acquired
<1>7. Applications'
  BY DEF WritersInv, Applications
<1>8. Writers!WriterHoldsLease'
  BY DEF WritersInv, Writers!TypeOK, Opened, Writers!WriterHoldsLease, Held, InUse,
         Writers!Connections
<1>9. Writers!SuccessIsApplied'
  BY DEF WritersInv, Writers!SuccessIsApplied
<1> QED
  BY <1>1, <1>2, <1>3, <1>4, <1>5, <1>6, <1>7, <1>8, <1>9 DEF WritersInv

\* or does not,
LEMMA ConnectFailsStep ==
    ASSUME WritersAssumptions, WritersInv, Writers!ConnectFails
    PROVE  WritersInv'
<1> USE DEF Writers!server, Writers!client, Writers!ConnectFails, Writers!End
<1>1. Writers!TypeOK'
  BY DEF WritersInv, Writers!TypeOK, Writers!Attempts, Writers!NoOp
<1>2. Opened'
  BY DEF WritersInv, Opened, Held, InUse, Writers!NoOp, WritersAssumptions,
         Writers!NoneAssumption
<1>3. StepsFit'
  BY DEF WritersInv, StepsFit, Writers!NoOp
<1>4. Separate'
  BY DEF WritersInv, StepsFit, Separate, Held, InUse, OwnsConnection, Writers!Kinds,
         Writers!OnSession, Writers!NoOp,
         WritersAssumptions, Writers!NoneAssumption
<1>5. LeasesFit'
  BY DEF WritersInv, LeasesFit, OwnsConnection, Writers!NoOp
<1>6. Acquired'
  BY DEF WritersInv, Acquired, Writers!NoOp
<1>7. Applications'
  BY DEF WritersInv, Applications, Writers!NoOp
<1>8. Writers!WriterHoldsLease'
  BY DEF WritersInv, Writers!WriterHoldsLease
<1>9. Writers!SuccessIsApplied'
  BY DEF WritersInv, Writers!SuccessIsApplied
<1> QED
  BY <1>1, <1>2, <1>3, <1>4, <1>5, <1>6, <1>7, <1>8, <1>9 DEF WritersInv

\* succeeds,
LEMMA SucceedStep ==
    ASSUME WritersAssumptions, WritersInv, Writers!Succeed
    PROVE  WritersInv'
<1> USE DEF Writers!server, Writers!client, Writers!Succeed, Writers!End
<1>1. Writers!TypeOK'
  <2>1. op' = Writers!NoOp \/ op' = [op EXCEPT !.step = "shutdown"]
    OBVIOUS
  <2>2. op' \in Writers!Attempts
    BY <2>1, NoOpType DEF WritersInv, Writers!TypeOK, Writers!Attempts, WritersAssumptions
  <2>3. writers' \in [ChangedThreads -> Writers!Connections \cup {None}]
    BY DEF WritersInv, Writers!TypeOK, Writers!Attempts
  <2> QED
    BY <2>2, <2>3 DEF WritersInv, Writers!TypeOK
<1>2. Opened'
  BY DEF WritersInv, Writers!TypeOK, Writers!Attempts, Opened, Held, InUse, Writers!NoOp,
         WritersAssumptions, Writers!NoneAssumption
<1>3. StepsFit'
  BY DEF WritersInv, Writers!TypeOK, Writers!Attempts, StepsFit, Writers!NoOp
<1>4. Separate'
  BY DEF WritersInv, Writers!TypeOK, Writers!Attempts, StepsFit, Separate, Acquired, Held,
         InUse, OwnsConnection,
         Writers!Kinds, Writers!NoOp, WritersAssumptions, Writers!NoneAssumption
<1>5. LeasesFit'
  BY DEF WritersInv, Writers!TypeOK, Writers!Attempts, LeasesFit, OwnsConnection, Writers!NoOp
<1>6. Acquired'
  BY DEF WritersInv, Writers!TypeOK, Writers!Attempts, Acquired, Writers!NoOp
<1>7. Applications'
  BY DEF WritersInv, Writers!TypeOK, Writers!Attempts, Applications, Writers!NoOp
<1>8. Writers!WriterHoldsLease'
  BY DEF WritersInv, Writers!TypeOK, Acquired, Writers!WriterHoldsLease
<1>9. Writers!SuccessIsApplied'
  BY DEF WritersInv, Applications, Writers!SuccessIsApplied
<1> QED
  BY <1>1, <1>2, <1>3, <1>4, <1>5, <1>6, <1>7, <1>8, <1>9 DEF WritersInv

\* The connection of an acquisition or creation is shut down next.
LEMMA ShutDownNext ==
    ASSUME WritersAssumptions, WritersInv, op.step = "request", op.kind \notin Writers!OnSession,
           op' = [op EXCEPT !.step = "shutdown"],
           UNCHANGED <<Writers!server, Writers!client, cancelled, last>>
    PROVE  WritersInv'
<1> USE DEF Writers!server, Writers!client
<1>a. /\ op' \in Writers!Attempts /\ op'.step = "shutdown"
      /\ op'.kind = op.kind /\ op'.thread = op.thread /\ op'.on = op.on
      /\ op'.retried = op.retried /\ op'.applied = op.applied /\ op'.pending = op.pending
  BY DEF WritersInv, Writers!TypeOK, Writers!Attempts
<1>1. Writers!TypeOK'
  BY <1>a DEF WritersInv, Writers!TypeOK
<1>2. Opened'
  BY <1>a DEF WritersInv, Opened, Held, InUse
<1>3. StepsFit'
  BY <1>a DEF WritersInv, StepsFit, Writers!NoOp
<1>4. Separate'
  BY <1>a DEF WritersInv, Separate, Held, InUse, OwnsConnection
<1>5. LeasesFit'
  BY <1>a DEF WritersInv, LeasesFit, OwnsConnection
<1>6. Acquired'
  BY <1>a DEF WritersInv, Acquired
<1>7. Applications'
  BY <1>a DEF WritersInv, Applications
<1>8. Writers!WriterHoldsLease'
  BY <1>a DEF WritersInv, Writers!WriterHoldsLease
<1>9. Writers!SuccessIsApplied'
  BY <1>a DEF WritersInv, Writers!SuccessIsApplied
<1> QED
  BY <1>1, <1>2, <1>3, <1>4, <1>5, <1>6, <1>7, <1>8, <1>9 DEF WritersInv

\* An operation on the session's connection fails.
LEMMA SessionFails ==
    ASSUME WritersAssumptions, WritersInv, op.step = "request", op.kind \in Writers!OnSession,
           Writers!End(FALSE),
           UNCHANGED <<Writers!server, Writers!client>>
    PROVE  WritersInv'
<1> USE DEF Writers!server, Writers!client, Writers!End
<1>1. Writers!TypeOK'
  BY DEF WritersInv, Writers!TypeOK, Writers!Attempts, Writers!NoOp
<1>2. Opened'
  BY DEF WritersInv, Opened, Held, InUse, Writers!NoOp, WritersAssumptions,
         Writers!NoneAssumption
<1>3. StepsFit'
  BY DEF WritersInv, StepsFit, Writers!NoOp
<1>4. Separate'
  BY DEF WritersInv, StepsFit, Separate, Held, InUse, OwnsConnection, Writers!Kinds,
         Writers!NoOp, WritersAssumptions,
         Writers!NoneAssumption
<1>5. LeasesFit'
  BY DEF WritersInv, LeasesFit, OwnsConnection, Writers!NoOp
<1>6. Acquired'
  BY DEF WritersInv, Acquired, Writers!NoOp
<1>7. Applications'
  BY DEF WritersInv, Applications, Writers!NoOp
<1>8. Writers!WriterHoldsLease'
  BY DEF WritersInv, Writers!WriterHoldsLease
<1>9. Writers!SuccessIsApplied'
  BY DEF WritersInv, Writers!SuccessIsApplied
<1> QED
  BY <1>1, <1>2, <1>3, <1>4, <1>5, <1>6, <1>7, <1>8, <1>9 DEF WritersInv

\* It fails, and the connection is killed.
LEMMA SessionTimesOut ==
    ASSUME WritersAssumptions, WritersInv, op.step = "request", op.kind \in Writers!OnSession,
           Writers!End(FALSE),
           Writers!Exit(op.on),
           UNCHANGED <<threads, Writers!client>>
    PROVE  WritersInv'
<1> USE DEF Writers!server, Writers!client, Writers!End
<1>a. /\ running' = running \ {op.on}
      /\ lease' \in [ChangedThreads -> Writers!Connections \cup {None, Other}]
      /\ \A t \in ChangedThreads : lease'[t] = IF lease[t] = op.on THEN None ELSE lease[t]
  BY ExitFrees DEF WritersInv, Writers!TypeOK, Writers!Attempts
<1> USE <1>a
<1>1. Writers!TypeOK'
  BY <1>a, NoOpType DEF WritersInv, Writers!TypeOK, WritersAssumptions
<1>2. Opened'
  BY DEF WritersInv, Opened, Held, InUse, Writers!NoOp, WritersAssumptions,
         Writers!NoneAssumption
<1>3. StepsFit'
  BY DEF WritersInv, StepsFit, Writers!NoOp
<1>4. Separate'
  <2>1. op'.kind = None /\ op'.step = "idle"
    BY DEF Writers!NoOp
  <2>2. running' \subseteq InUse'
    BY <1>a DEF WritersInv, Separate, Held, InUse
  <2>3. None \notin Writers!Kinds
    BY DEF WritersAssumptions, Writers!NoneAssumption
  <2> QED
    BY <2>1, <2>2, <2>3 DEF WritersInv, Separate, Held, OwnsConnection, Writers!Kinds
<1>5. LeasesFit'
  BY DEF WritersInv, LeasesFit, Writers!NoOp, WritersAssumptions, Writers!NoneAssumption
<1>6. Acquired'
  BY DEF WritersInv, Acquired, Writers!NoOp
<1>7. Applications'
  BY DEF WritersInv, Applications, Writers!NoOp
<1>8. Writers!WriterHoldsLease'
  BY DEF WritersInv, Writers!WriterHoldsLease
<1>9. Writers!SuccessIsApplied'
  BY DEF WritersInv, Writers!SuccessIsApplied
<1> QED
  BY <1>1, <1>2, <1>3, <1>4, <1>5, <1>6, <1>7, <1>8, <1>9 DEF WritersInv

\* It is retried, once its process is gone or another connection takes its place.
LEMMA Retried ==
    ASSUME WritersAssumptions, WritersInv, NEW e \in Writers!Errors,
           op.step = "request", Writers!Retries(e),
           op' = [op EXCEPT !.retried = TRUE,
                    !.step = IF op.kind = "rename" THEN "replace" ELSE "connect"],
           IF op.kind \notin Writers!OnSession \/ e = "TimedOut"
             THEN Writers!Exit(op.on) ELSE UNCHANGED <<lease, running>>,
           UNCHANGED <<threads, Writers!client, cancelled, last>>
    PROVE  WritersInv'
<1> USE DEF Writers!server, Writers!client, Writers!Retries
<1>a. op.on \in Writers!Connections \cup {None}
  BY DEF WritersInv, Writers!TypeOK, Writers!Attempts
<1>b. /\ op' \in Writers!Attempts /\ op'.step = (IF op.kind = "rename" THEN "replace" ELSE "connect")
      /\ op'.kind = op.kind /\ op'.thread = op.thread /\ op'.on = op.on
      /\ op'.retried /\ op'.applied = op.applied /\ op'.pending = op.pending
  BY DEF WritersInv, Writers!TypeOK, Writers!Attempts
<1>c. \/ Writers!Exit(op.on)
      \/ op.kind \in Writers!OnSession /\ UNCHANGED <<lease, running>>
  OBVIOUS
<1>d. ~op.retried /\ op.kind \in {"rename", "acquire"}
  OBVIOUS
<1> HIDE DEF Writers!Retries
<1>1. Writers!TypeOK'
  BY <1>a, <1>b, <1>c, <1>d, ExitFrees DEF WritersInv, Writers!TypeOK
<1>2. Opened'
  BY <1>a, <1>b, <1>c, <1>d, ExitFrees DEF WritersInv, Opened, Held, InUse
<1>3. StepsFit'
  BY <1>a, <1>b, <1>c, <1>d, ExitFrees DEF WritersInv, StepsFit, Writers!OnSession, Writers!NoOp
<1>4. Separate'
  BY <1>a, <1>b, <1>c, <1>d, ExitFrees DEF WritersInv, Separate, Held, InUse, OwnsConnection
<1>5. LeasesFit'
  BY <1>a, <1>b, <1>c, <1>d, ExitFrees
     DEF WritersInv, LeasesFit, OwnsConnection, WritersAssumptions, Writers!NoneAssumption
<1>6. Acquired'
  BY <1>a, <1>b, <1>c, <1>d, ExitFrees DEF WritersInv, Acquired
<1>7. Applications'
  BY <1>a, <1>b, <1>c, <1>d, ExitFrees DEF WritersInv, Writers!TypeOK, Writers!Attempts,
                                           Applications
<1>8. Writers!WriterHoldsLease'
  BY <1>a, <1>b, <1>c, <1>d, ExitFrees DEF WritersInv, Writers!WriterHoldsLease
<1>9. Writers!SuccessIsApplied'
  BY <1>a, <1>b, <1>c, <1>d, ExitFrees DEF WritersInv, Writers!SuccessIsApplied
<1> QED
  BY <1>1, <1>2, <1>3, <1>4, <1>5, <1>6, <1>7, <1>8, <1>9 DEF WritersInv

\* shuts its process down,
LEMMA ShutDownFailedStep ==
    ASSUME WritersAssumptions, WritersInv, Writers!ShutDownFailed
    PROVE  WritersInv'
<1> USE DEF Writers!server, Writers!client, Writers!ShutDownFailed, Writers!End
<1>a. /\ running' = running \ {op.on}
      /\ lease' \in [ChangedThreads -> Writers!Connections \cup {None, Other}]
      /\ \A t \in ChangedThreads : lease'[t] = IF lease[t] = op.on THEN None ELSE lease[t]
  BY ExitFrees DEF WritersInv, Writers!TypeOK, Writers!Attempts
<1> USE <1>a
<1>1. Writers!TypeOK'
  BY <1>a, NoOpType DEF WritersInv, Writers!TypeOK, WritersAssumptions
<1>2. Opened'
  BY DEF WritersInv, Opened, Held, InUse, Writers!NoOp, WritersAssumptions,
         Writers!NoneAssumption
<1>3. StepsFit'
  BY DEF WritersInv, StepsFit, Writers!NoOp
<1>4. Separate'
  <2>1. op'.kind = None /\ op'.step = "idle"
    BY DEF Writers!NoOp
  <2>2. running' \subseteq InUse'
    BY <1>a DEF WritersInv, Separate, Held, InUse
  <2>3. None \notin Writers!Kinds
    BY DEF WritersAssumptions, Writers!NoneAssumption
  <2> QED
    BY <2>1, <2>2, <2>3 DEF WritersInv, Separate, Held, OwnsConnection, Writers!Kinds
<1>5. LeasesFit'
  BY DEF WritersInv, LeasesFit, Writers!NoOp, WritersAssumptions, Writers!NoneAssumption
<1>6. Acquired'
  BY DEF WritersInv, Acquired, Writers!NoOp
<1>7. Applications'
  BY DEF WritersInv, Applications, Writers!NoOp
<1>8. Writers!WriterHoldsLease'
  BY DEF WritersInv, Writers!WriterHoldsLease
<1>9. Writers!SuccessIsApplied'
  BY DEF WritersInv, Writers!SuccessIsApplied
<1> QED
  BY <1>1, <1>2, <1>3, <1>4, <1>5, <1>6, <1>7, <1>8, <1>9 DEF WritersInv

\* or is cancelled.
LEMMA CancelStep ==
    ASSUME WritersAssumptions, WritersInv, Writers!Cancel
    PROVE  WritersInv'
<1> USE DEF Writers!server, Writers!client, Writers!Cancel
<1>1. Writers!TypeOK'
  BY DEF WritersInv, Writers!TypeOK
<1>2. Opened'
  BY DEF WritersInv, Opened, Held, InUse
<1>3. StepsFit'
  BY DEF WritersInv, StepsFit
<1>4. Separate'
  BY DEF WritersInv, Separate, Held, InUse, OwnsConnection
<1>5. LeasesFit'
  BY DEF WritersInv, LeasesFit, OwnsConnection
<1>6. Acquired'
  BY DEF WritersInv, Acquired
<1>7. Applications'
  BY DEF WritersInv, Applications
<1>8. Writers!WriterHoldsLease'
  BY DEF WritersInv, Writers!WriterHoldsLease
<1>9. Writers!SuccessIsApplied'
  BY DEF WritersInv, Writers!SuccessIsApplied
<1> QED
  BY <1>1, <1>2, <1>3, <1>4, <1>5, <1>6, <1>7, <1>8, <1>9 DEF WritersInv

\* is interrupted,
LEMMA InterruptedStep ==
    ASSUME WritersAssumptions, WritersInv, Writers!Interrupted
    PROVE  WritersInv'
<1>1. CASE op.kind \in Writers!OnSession
  BY <1>1, SessionFails DEF Writers!Interrupted
<1>2. CASE op.kind \notin Writers!OnSession
  BY <1>2, ShutDownNext DEF Writers!Interrupted
<1> QED
  BY <1>1, <1>2

\* fails,
LEMMA FailStep ==
    ASSUME WritersAssumptions, WritersInv, NEW e \in Writers!Errors, Writers!Fail(e)
    PROVE  WritersInv'
<1> USE DEF Writers!client
<1>1. CASE Writers!Retries(e)
  BY <1>1, Retried DEF Writers!Fail
<1>2. CASE ~Writers!Retries(e) /\ op.kind \in Writers!OnSession
  BY <1>2, SessionFails, SessionTimesOut DEF Writers!Fail, Writers!server
<1>3. CASE ~Writers!Retries(e) /\ op.kind \notin Writers!OnSession
  BY <1>3, ShutDownNext DEF Writers!Fail, Writers!server
<1> QED
  BY <1>1, <1>2, <1>3

\* WritersInv holds in the initial states,
LEMMA WritersInit == WritersAssumptions /\ Writers!Init => WritersInv
<1> SUFFICES ASSUME WritersAssumptions, Writers!Init PROVE WritersInv
  OBVIOUS
<1> USE DEF Writers!Init
<1>0. 1 \in Writers!Connections
  BY DEF WritersAssumptions, Writers!BoundsAssumption, Writers!Connections
<1>1. Writers!TypeOK
  BY <1>0, NoOpType DEF Writers!TypeOK, WritersAssumptions, Writers!ThreadsAssumption
<1>2. Opened
  BY DEF WritersInv, Opened, Held, InUse, Writers!NoOp, WritersAssumptions,
         Writers!NoneAssumption
<1>3. StepsFit
  BY DEF WritersInv, StepsFit, Writers!NoOp
<1>4. Separate
  BY DEF WritersInv, Separate, Held, InUse, OwnsConnection, Writers!Connections, Writers!Kinds,
         Writers!NoOp, WritersAssumptions,
         Writers!BoundsAssumption, Writers!NoneAssumption
<1>5. LeasesFit
  BY DEF WritersInv, LeasesFit, WritersAssumptions, Writers!NoneAssumption
<1>6. Acquired
  BY DEF WritersInv, Acquired, Writers!NoOp
<1>7. Applications
  BY DEF WritersInv, Applications, Writers!NoOp
<1>8. Writers!WriterHoldsLease
  BY DEF WritersInv, Writers!WriterHoldsLease
<1>9. Writers!SuccessIsApplied
  BY DEF WritersInv, Writers!SuccessIsApplied, Writers!NoResult
<1> QED
  BY <1>1, <1>2, <1>3, <1>4, <1>5, <1>6, <1>7, <1>8, <1>9 DEF WritersInv

\* and every step keeps it.
LEMMA WritersStep == WritersAssumptions /\ WritersInv /\ [Writers!Next]_(Writers!vars) => WritersInv'
<1> SUFFICES ASSUME WritersAssumptions, WritersInv, [Writers!Next]_(Writers!vars) PROVE WritersInv'
  OBVIOUS
<1>1. CASE UNCHANGED Writers!vars
  BY <1>1 DEF Writers!vars, Writers!server, Writers!client, WritersInv, Writers!TypeOK, Opened,
              StepsFit, Separate, LeasesFit,
              Acquired, Applications, Writers!WriterHoldsLease, Writers!SuccessIsApplied, Held,
              InUse,
              OwnsConnection
<1>2. CASE Writers!Next
  BY <1>2, ApplyStep, ProcessExitsStep, OtherWritesStep, ReleaseWriterStep, ChangeBegins,
     ConnectStep, ConnectFailsStep, SucceedStep, InterruptedStep, FailStep,
     ShutDownFailedStep, CancelStep
     DEF Writers!Next
<1> QED
  BY <1>1, <1>2

\* So it holds of every behaviour.
LEMMA WritersInvariant == ASSUME WritersAssumptions PROVE Writers!Spec => []WritersInv
<1>1. Writers!Init => WritersInv
  BY WritersInit
<1>2. WritersInv /\ [Writers!Next]_(Writers!vars) => WritersInv'
  BY WritersStep
<1> QED
  BY <1>1, <1>2, PTL DEF Writers!Spec

\* What WritersInv says of a state.
LEMMA SafeWriters ==
    WritersAssumptions /\ WritersInv =>
        /\ Writers!AppliedOnce /\ Writers!SuccessIsApplied
        /\ Writers!WriterHoldsLease /\ Writers!NoConflictWithItself /\ Writers!NoProcessLeaks
<1> SUFFICES ASSUME WritersAssumptions, WritersInv
             PROVE  /\ Writers!AppliedOnce /\ Writers!SuccessIsApplied
                    /\ Writers!WriterHoldsLease /\ Writers!NoConflictWithItself /\ Writers!NoProcessLeaks
  OBVIOUS
<1>1. Writers!AppliedOnce /\ Writers!SuccessIsApplied /\ Writers!WriterHoldsLease
  BY DEF WritersInv, Writers!TypeOK, Writers!Attempts, Writers!AppliedOnce, Applications
<1>2. Writers!NoConflictWithItself
  <2> SUFFICES ASSUME op.kind = "acquire", op.step = "request",
                      lease[op.thread] \notin {None, Other}
               PROVE  lease[op.thread] = op.on
    BY DEF Writers!NoConflictWithItself
  <2> DEFINE holder == lease[op.thread]
  <2>1. op.thread \in ChangedThreads /\ holder \in Writers!Connections /\ holder # None
    BY DEF WritersInv, Writers!TypeOK, Writers!Attempts, StepsFit, Writers!Kinds,
           WritersAssumptions, Writers!NoneAssumption
  <2>2. holder \in running /\ holder # session
        /\ \A s \in ChangedThreads : holder = writers[s] => s = op.thread
    BY <2>1 DEF WritersInv, LeasesFit
  <2>3. holder \in InUse /\ writers[op.thread] = None
    BY <2>2 DEF WritersInv, Separate
  <2> QED BY <2>1, <2>2, <2>3 DEF InUse, Held
<1>3. Writers!NoProcessLeaks
  <2>1. ASSUME op = Writers!NoOp
        PROVE  running \subseteq Held
    <3>1. op.on = None /\ None \notin running
      BY <2>1 DEF Writers!NoOp, WritersInv, Writers!TypeOK, Writers!Connections,
                  WritersAssumptions, Writers!NoneAssumption
    <3> QED BY <2>1, <3>1 DEF WritersInv, Separate, InUse
  <2> QED BY <2>1 DEF Writers!NoProcessLeaks, Held
<1> QED BY <1>1, <1>2, <1>3

\* A start or fork is applied at most once, also when its answer is lost, and
\* what is reported as done has been done: create_on, acquire_on and
\* rename_thread.
THEOREM ChangesApplied ==
    ASSUME WritersAssumptions
    PROVE  Writers!Spec => [](Writers!AppliedOnce /\ Writers!SuccessIsApplied)
<1>1. WritersInv => Writers!AppliedOnce /\ Writers!SuccessIsApplied
  BY SafeWriters
<1> QED BY <1>1, WritersInvariant, PTL

\* A writer handed out holds its thread's lease; no other process is left with
\* one, so that an operation never waits for one of its own.
THEOREM LeasesHeld ==
    ASSUME WritersAssumptions
    PROVE  Writers!Spec => [](/\ Writers!WriterHoldsLease /\ Writers!NoConflictWithItself
                             /\ Writers!NoProcessLeaks)
<1>1. WritersInv => Writers!WriterHoldsLease /\ Writers!NoConflictWithItself /\ Writers!NoProcessLeaks
  BY SafeWriters
<1> QED BY <1>1, WritersInvariant, PTL

---------------------------------------------------------------------------
(* The parts side by side                                                   *)

\* The connection: its invariant where it is explored, and its properties,
\* which stay true of a connection that is not.
Connected ==
    /\ part = "connection" => IInv
    /\ QuestionsAreSettledOnce /\ StreamKeepsItsOrder
Polled == /\ part = "history" => History!IInv
          /\ part = "longer" => Longer!IInv
Written == part = "writers" => WritersInv
Begun == part = "inference" => TurnInv
ListedInFull == part = "listing" => ListingInv

\* What a part that is not the connection leaves as it is.
LEMMA ConnectionKeepsStill ==
    ASSUME [ClientNext]_client_vars, part # "connection"
    PROVE  part' # "connection" /\ UNCHANGED connection_only
BY DEF ClientNext, client_vars, connection_only, vars, process, connection, subscription,
       server, owner

\* A step where the connection is explored is one of it.
LEMMA ConnectionSteps ==
    ASSUME [ClientNext]_client_vars, part = "connection"
    PROVE  [Next]_vars /\ part' = "connection"
BY DEF ClientNext, client_vars

\* A client starts with every part as its own module begins.
LEMMA ConnectedInit == ClientInit => Connected
<1> SUFFICES ASSUME ClientInit PROVE Connected
  OBVIOUS
<1>1. Init
  BY DEF ClientInit
<1>2. IInv /\ AnswerIsItsOwn
  BY <1>1, ClientInitially DEF Init, AnswerIsItsOwn
<1> QED BY <1>2, OrderKept, SettledOnce DEF Connected, QuestionsAreSettledOnce

\* A step of the connection keeps its invariant, any other leaves its properties.
LEMMA ConnectedStep == Connected /\ [ClientNext]_client_vars => Connected'
<1> SUFFICES ASSUME Connected, [ClientNext]_client_vars PROVE Connected'
  OBVIOUS
<1>1. CASE part = "connection"
  <2>1. [Next]_vars /\ IInv /\ AnswerIsItsOwn
    BY <1>1, ConnectionSteps DEF Connected, QuestionsAreSettledOnce
  <2>2. IInv' /\ AnswerIsItsOwn'
    BY <2>1, ClientStep, AnswersStep
  <2>3. (IInv => /\ StreamKeepsItsOrder /\ ShownIsPending /\ FinishedTurnAsksNothing
                 /\ RepliedOnce /\ ChildIsReaped)'
    BY OrderKept, SettledOnce, PTL
  <2> QED BY <2>2, <2>3 DEF Connected, QuestionsAreSettledOnce
<1>2. CASE part # "connection"
  <2>1. part' # "connection" /\ UNCHANGED connection_only
    BY <1>2, ConnectionKeepsStill
  <2>2. StreamKeepsItsOrder'
    BY <2>1 DEF Connected, StreamKeepsItsOrder, Stream, IsStream, connection_only,
                connection, server, owner
  <2>3. QuestionsAreSettledOnce'
    BY <2>1 DEF Connected, QuestionsAreSettledOnce, ShownIsPending, QuestionsOn,
                FinishedTurnAsksNothing, RepliedOnce, AnswerIsItsOwn, ChildIsReaped,
                connection_only, subscription, owner
  <2> QED BY <2>1, <2>2, <2>3 DEF Connected
<1> QED BY <1>1, <1>2

\* Both kinds of polls begin in their invariant.
LEMMA PolledInit == ClientInit => Polled
BY HistoryAssumption, History!HistoryInit, Longer!HistoryInit DEF ClientInit, Polled

\* A step of a poll is one of HistorySession, of the short thread or the long.
LEMMA PolledStep == Polled /\ [ClientNext]_client_vars => Polled'
<1> SUFFICES ASSUME Polled, [ClientNext]_client_vars PROVE Polled'
  OBVIOUS
<1>1. CASE part = "history"
  <2>1. [History!Next]_(History!vars) /\ part' = "history"
    BY <1>1 DEF ClientNext, client_vars, history_only, History!vars, History!server,
                History!tracker, vars, process
  <2> QED BY <1>1, <2>1, HistoryAssumption, History!HistoryStep DEF Polled
<1>2. CASE part = "longer"
  <2>1. [Longer!Next]_(Longer!vars) /\ part' = "longer"
    BY <1>2 DEF ClientNext, client_vars, history_only, Longer!vars, Longer!server,
                Longer!tracker, vars, process
  <2> QED BY <1>2, <2>1, HistoryAssumption, Longer!HistoryStep DEF Polled
<1>3. CASE part \notin {"history", "longer"}
  BY <1>3 DEF ClientNext, client_vars, Polled
<1> QED BY <1>1, <1>2, <1>3

\* The changes of threads begin in their invariant.
LEMMA WrittenInit == ClientInit => Written
BY WritersAssumption, WritersInit DEF ClientInit, Written, WritersAssumptions

\* A step of a change is one of ThreadWriters.
LEMMA WrittenStep == Written /\ [ClientNext]_client_vars => Written'
<1> SUFFICES ASSUME Written, [ClientNext]_client_vars PROVE Written'
  OBVIOUS
<1>1. CASE part = "writers"
  <2>1. [Writers!Next]_(Writers!vars) /\ part' = "writers"
    BY <1>1 DEF ClientNext, client_vars, writers_only, Writers!vars, Writers!server,
                Writers!client, vars, process
  <2> QED BY <1>1, <2>1, WritersAssumption, WritersStep DEF Written, WritersAssumptions
<1>2. CASE part # "writers"
  BY <1>2 DEF ClientNext, client_vars, Written
<1> QED BY <1>1, <1>2

\* The turns begin in their invariant.
LEMMA BegunInit == ClientInit => Begun
BY TurnInit DEF ClientInit, Begun

\* A step of a turn's beginning is one of TurnInference.
LEMMA BegunStep == Begun /\ [ClientNext]_client_vars => Begun'
<1> SUFFICES ASSUME Begun, [ClientNext]_client_vars PROVE Begun'
  OBVIOUS
<1>1. CASE part = "inference"
  <2>1. [Turn!Next]_(Turn!vars) /\ part' = "inference"
    BY <1>1 DEF ClientNext, client_vars, inference_only, Turn!vars, Turn!server,
                Turn!client, vars, process
  <2> QED BY <1>1, <2>1, TurnStep DEF Begun
<1>2. CASE part # "inference"
  BY <1>2 DEF ClientNext, client_vars, Begun
<1> QED BY <1>1, <1>2

\* The listings begin in their invariant.
LEMMA ListedInit == ClientInit => ListedInFull
BY ListingInit DEF ClientInit, ListedInFull

\* A step of a listing is one of ThreadListing.
LEMMA ListedStep == ListedInFull /\ [ClientNext]_client_vars => ListedInFull'
<1> SUFFICES ASSUME ListedInFull, [ClientNext]_client_vars PROVE ListedInFull'
  OBVIOUS
<1>1. CASE part = "listing"
  <2>1. [Listing!Next]_(Listing!vars) /\ part' = "listing"
    BY <1>1 DEF ClientNext, client_vars, listing_only, Listing!vars, Listing!server,
                Listing!history, vars, process
  <2> QED BY <1>1, <2>1, ListingStep DEF ListedInFull
<1>2. CASE part # "listing"
  BY <1>2 DEF ClientNext, client_vars, ListedInFull
<1> QED BY <1>1, <1>2

\* The messages begin in their invariant, and there are no other parts.
Told ==
    /\ part = "message" => MessageInv
    /\ part \in {"connection", "history", "longer", "writers", "listing", "inference", "message"}
LEMMA ToldInit == ClientInit => Told
BY MessageInit DEF ClientInit, Told

\* A step of a message is one of UserMessage.
LEMMA ToldStep == Told /\ [ClientNext]_client_vars => Told'
<1> SUFFICES ASSUME Told, [ClientNext]_client_vars PROVE Told'
  OBVIOUS
<1>1. CASE part = "message"
  <2>1. [Envelope!Next]_(Envelope!vars) /\ part' = "message"
    BY <1>1 DEF ClientNext, client_vars, message_only, Envelope!vars
  <2> QED BY <1>1, <2>1, MessageStep DEF Told
<1>2. CASE part # "message"
  BY <1>2 DEF ClientNext, client_vars, Told
<1> QED BY <1>1, <1>2

---------------------------------------------------------------------------

\* The messages of the stream reach the owner in order and once, and what the
\* user is asked is what is open: next_server_message and the pending
\* interactions of CodexClient.
THEOREM ConnectionIsFaithful ==
    ClientSpec => [](StreamKeepsItsOrder /\ QuestionsAreSettledOnce)
<1>1. Connected => StreamKeepsItsOrder /\ QuestionsAreSettledOnce
  BY DEF Connected
<1> QED BY <1>1, ConnectedInit, ConnectedStep, PTL DEF ClientSpec

\* An interaction id stands for one question for as long as that is pending:
\* allocate_interaction_id.
THEOREM QuestionsKeepTheirIds == ClientSpec => InteractionKeepsItsQuestion
<1> DEFINE Kept == \A id \in DOMAIN pending \cap DOMAIN pending' : pending[id] = pending'[id]
<1>1. Connected /\ [ClientNext]_client_vars => [Kept]_vars
  <2> SUFFICES ASSUME Connected, [ClientNext]_client_vars PROVE Kept
    OBVIOUS
  <2>1. CASE part = "connection"
    BY <2>1, ConnectionSteps, PendingKept DEF Connected
  <2>2. CASE part # "connection"
    BY <2>2, ConnectionKeepsStill DEF connection_only, subscription
  <2> QED BY <2>1, <2>2
<1>2. ClientSpec => [][Kept]_vars
  BY <1>1, ConnectedInit, ConnectedStep, PTL DEF ClientSpec
<1> QED BY <1>2 DEF InteractionKeepsItsQuestion

\* A poll that succeeds is of one moment of the poll, whichever requests it was
\* pieced together from: poll_thread and poll_active_thread.
THEOREM ThreadPollsStayFresh == ClientSpec => []ThreadPollsAreFresh
<1>1. Polled => ThreadPollsAreFresh
  BY DEF Polled, ThreadPollsAreFresh, History!IInv, Longer!IInv, History!PollIsFresh,
         Longer!PollIsFresh, History!ViewIsLastSnapshot, Longer!ViewIsLastSnapshot,
         History!Idle, Longer!Idle
<1> QED BY <1>1, PolledInit, PolledStep, PTL DEF ClientSpec

\* A change that may not be repeated is applied once, however its answer is
\* lost: create_on, acquire_on and rename_thread.
THEOREM ChangesAreNotRepeated == ClientSpec => []ChangesAreAppliedOnce
<1>1. Written => ChangesAreAppliedOnce
  BY WritersAssumption, SafeWriters DEF Written, WritersAssumptions, ChangesAreAppliedOnce
<1> QED BY <1>1, WrittenInit, WrittenStep, PTL DEF ClientSpec

\* A lease is held by the writer handed out for it, and by no process left
\* over: acquire_on, reconnect and shutdown.
THEOREM LeasesStayWithWriters == ClientSpec => []LeasesAreTheWriters
<1>1. Written => LeasesAreTheWriters
  BY WritersAssumption, SafeWriters DEF Written, WritersAssumptions, LeasesAreTheWriters
<1> QED BY <1>1, WrittenInit, WrittenStep, PTL DEF ClientSpec

\* A turn runs as it was asked to, and the application shows what it runs with:
\* start_turn and emit_writer_model_state.
THEOREM TurnsKeepToWhatIsAsked == ClientSpec => []TurnsRunAsAsked
<1>1. Begun => TurnsRunAsAsked
  BY DEF Begun, TurnsRunAsAsked, TurnInv
<1> QED BY <1>1, BegunInit, BegunStep, PTL DEF ClientSpec

\* A complete listing has each thread that kept still, once and in its order,
\* and only what could be listed, however threads and pages move meanwhile:
\* list_all_threads and poll_thread_page.
THEOREM ListingsMissNothing == ClientSpec => []ListingsAreComplete
<1>1. ListedInFull => ListingsAreComplete
  BY CompleteListing DEF ListedInFull, ListingsAreComplete, ListingInv
<1> QED BY <1>1, ListedInit, ListedStep, PTL DEF ClientSpec

\* Each part keeps its variables in their types, whatever the app-server does:
\* the state of CodexClient, of a poll, a listing, a change and a turn begun.
THEOREM ClientKeepsItsTypes == ClientSpec => []ClientTypeOK
<1> DEFINE Typed == Connected /\ Polled /\ Written /\ Begun /\ ListedInFull /\ Told
<1>1. ClientInit => Typed
  BY ConnectedInit, PolledInit, WrittenInit, BegunInit, ListedInit, ToldInit
<1>2. Typed /\ [ClientNext]_client_vars => Typed'
  <2> SUFFICES ASSUME Typed, [ClientNext]_client_vars PROVE Typed'
    OBVIOUS
  <2>1. Connected' /\ Polled' /\ Written'
    BY ConnectedStep, PolledStep, WrittenStep
  <2>2. Begun' /\ ListedInFull' /\ Told'
    BY BegunStep, ListedStep, ToldStep
  <2> QED BY <2>1, <2>2
<1>3. Typed => ClientTypeOK
  <2> SUFFICES ASSUME Typed PROVE ClientTypeOK
    OBVIOUS
  <2>1. CASE part = "connection"
    BY <2>1 DEF Connected, IInv, Flow, ClientTypeOK
  <2>2. CASE part = "history"
    BY <2>2 DEF Polled, History!IInv, ClientTypeOK
  <2>3. CASE part = "longer"
    BY <2>3 DEF Polled, Longer!IInv, ClientTypeOK
  <2>4. CASE part = "writers"
    BY <2>4 DEF Written, WritersInv, ClientTypeOK
  <2>5. CASE part = "listing"
    BY <2>5 DEF ListedInFull, ListingInv, ListingType, ClientTypeOK
  <2>6. CASE part = "inference"
    BY <2>6 DEF Begun, TurnInv, ClientTypeOK
  <2>7. CASE part = "message"
    BY <2>7 DEF Told, MessageInv, ClientTypeOK
  <2> QED BY <2>1, <2>2, <2>3, <2>4, <2>5, <2>6, <2>7 DEF Told
<1> QED BY <1>1, <1>2, <1>3, PTL DEF ClientSpec
=============================================================================
