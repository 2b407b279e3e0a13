---------------------------- MODULE Highlight_proofs ----------------------------
(***************************************************************************)
(* A document that is edited loses no line and no change of style, for texts *)
(* and insertions of any length and any number of edits and rejections.     *)
(*                                                                          *)
(* The lines an edit splices into those there were are the lines of the new *)
(* text (EditedStarts), because the lines it touches are found anew and those *)
(* behind them are moved.  Every style that is known and not shown is within *)
(* what is pending: an edit moves the pending range and covers the lines it *)
(* touches (EditedStyles), parsing a line adds what changed                 *)
(* (ParseLineKeeps), and a batch takes away no more than it shows           *)
(* (BatchIs, ApplyFits).  A parser may restyle lines it has read before, so *)
(* the text it has kept must be that of the document (ParserFits).          *)
(***************************************************************************)
EXTENDS MCHighlight, FunctionTheorems, FiniteSetTheorems, SequenceTheorems,
        WellFoundedInduction, TLAPS

---------------------------------------------------------------------------
(* Numbers                                                                  *)

\* A set of numbers that is not empty has a least one.
LEMMA Smallest == ASSUME NEW S \in SUBSET Nat, S # {}
                  PROVE  \E n \in S : \A m \in S : n <= m
<1> DEFINE R == OpToRel(<, Nat)
<1>1. IsWellFoundedOn(R, Nat)
  BY NatLessThanWellFounded
<1> HIDE DEF R
<1>2. PICK x \in S : \A y \in S : ~ (<<y, x>> \in R)
  BY <1>1, WFMin
<1>3. \A y \in S : y < x => <<y, x>> \in R
  BY DEF R, OpToRel
<1>4. \A y \in S : x \in Nat /\ y \in Nat /\ ~(y < x)
  BY <1>2, <1>3
<1>5. \A y \in S : x <= y
  BY <1>4
<1> QED BY <1>5

\* Counting up from 0, one gets to every number.
LEMMA Counting == ASSUME NEW S, 0 \in S, NEW n \in Nat, \A i \in 0 .. n - 1 : i \in S => i + 1 \in S
                  PROVE  n \in S
<1> SUFFICES ASSUME n \notin S PROVE FALSE
  OBVIOUS
<1> DEFINE Out == {i \in 0 .. n : i \notin S}
<1>1. Out \in SUBSET Nat /\ n \in Out
  OBVIOUS
<1>2. PICK m \in Out : \A i \in Out : m <= i
  BY <1>1, Smallest
<1>3. m # 0 /\ m \in 0 .. n /\ m - 1 \notin Out
  BY <1>2
<1>4. m - 1 \in 0 .. n - 1 /\ m - 1 \in S
  BY <1>3
<1> QED BY <1>2, <1>3, <1>4

\* The minimum of a set of numbers is the least of them,
LEMMA MinIs == ASSUME NEW S \in SUBSET Nat, S # {}
               PROVE  Min(S) \in S /\ \A m \in S : Min(S) <= m
BY Smallest DEF Min

\* and the maximum of one that is bounded the greatest.
LEMMA MaxIs == ASSUME NEW S \in SUBSET Nat, S # {}, NEW n \in Nat, \A m \in S : m <= n
               PROVE  Max(S) \in S /\ \A m \in S : m <= Max(S)
<1> DEFINE T == {i \in 0 .. n : n - i \in S}
<1>1. T \in SUBSET Nat /\ T # {}
  <2>1. PICK m \in S : TRUE
    OBVIOUS
  <2>2. n - m \in 0 .. n /\ n - (n - m) = m
    OBVIOUS
  <2>3. n - m \in T
    BY <2>2
  <2>4. T # {}
    BY <2>3
  <2> QED BY <2>4
<1>2. PICK i \in T : \A j \in T : i <= j
  BY <1>1, Smallest
<1>3. n - i \in S /\ \A m \in S : m <= n - i
  <2>1. ASSUME NEW m \in S PROVE m <= n - i
    <3>1. n - m \in T
      OBVIOUS
    <3> QED BY <1>2, <3>1
  <2> QED BY <1>2, <2>1
<1>4. \E x \in S : \A y \in S : x >= y
  BY <1>3
<1> QED BY <1>4 DEF Max

\* The minimum and the maximum of two numbers,
LEMMA OfTwo == ASSUME NEW i \in Nat, NEW j \in Nat
               PROVE  /\ Min({i, j}) = IF i <= j THEN i ELSE j
                      /\ Max({i, j}) = IF i <= j THEN j ELSE i
<1>1. Min({i, j}) \in {i, j} /\ \A m \in {i, j} : Min({i, j}) <= m
  BY MinIs
<1>2. Max({i, j}) \in {i, j} /\ \A m \in {i, j} : m <= Max({i, j})
  <2>1. {i, j} \in SUBSET Nat /\ i + j \in Nat /\ \A m \in {i, j} : m <= i + j
    OBVIOUS
  <2> QED BY <2>1, MaxIs
<1> QED BY <1>1, <1>2

\* and the minimum of three.
LEMMA OfThree == ASSUME NEW i \in Nat, NEW j \in Nat, NEW k \in Nat
                 PROVE  /\ Min({i, j, k}) \in {i, j, k}
                        /\ Min({i, j, k}) <= i /\ Min({i, j, k}) <= j /\ Min({i, j, k}) <= k
BY MinIs, {i, j, k} \in SUBSET Nat

---------------------------------------------------------------------------
(* Recursion                                                                *)

\* A function is defined by its first value and a step from each to the next.
Recurs(f, first, advance, n) == f[0] = first /\ \A i \in 1 .. n : f[i] = advance[<<i, f[i - 1]>>]

\* There is such a function for every first value and step.
LEMMA Recursion ==
    ASSUME NEW V, NEW first \in V, NEW n \in Nat, NEW advance \in [(1 .. n) \X V -> V]
    PROVE  \E f \in [0 .. n -> V] : Recurs(f, first, advance, n)
<1> DEFINE Upto(m, f) == f[0] = first /\ \A i \in 1 .. m : f[i] = advance[<<i, f[i - 1]>>]
           S == {m \in 0 .. n : \E f \in [0 .. m -> V] : Upto(m, f)}
<1>1. 0 \in S
  <2> DEFINE f == [i \in 0 .. 0 |-> first]
  <2>1. f \in [0 .. 0 -> V] /\ f[0] = first /\ 1 .. 0 = {}
    OBVIOUS
  <2> HIDE DEF f
  <2>2. Upto(0, f)
    BY <2>1
  <2> QED BY <2>1, <2>2
<1>2. ASSUME NEW m \in 0 .. n - 1, m \in S PROVE m + 1 \in S
  <2>1. PICK f \in [0 .. m -> V] : Upto(m, f)
    BY <1>2
  <2> DEFINE g == [i \in 0 .. m + 1 |-> IF i = m + 1 THEN advance[<<i, f[m]>>] ELSE f[i]]
  <2>2. advance[<<m + 1, f[m]>>] \in V
    BY <2>1
  <2>3. g \in [0 .. m + 1 -> V]
    BY <2>1, <2>2
  <2>4. Upto(m + 1, g)
    <3>1. g[0] = first
      BY <2>1
    <3>2. ASSUME NEW i \in 1 .. m + 1 PROVE g[i] = advance[<<i, g[i - 1]>>]
      <4>1. CASE i = m + 1
        BY <4>1, g[i - 1] = f[m]
      <4>2. CASE i \in 1 .. m
        BY <4>2, <2>1, g[i - 1] = f[i - 1], g[i] = f[i]
      <4> QED BY <4>1, <4>2
    <3> QED BY <3>1, <3>2
  <2> HIDE DEF g
  <2> QED BY <2>3, <2>4
<1> HIDE DEF S
<1>3. n \in S
  BY <1>1, <1>2, Counting
<1> QED BY <1>3 DEF S, Recurs

---------------------------------------------------------------------------
(* Parsing                                                                  *)

\* A mode more than there are characters.
LEMMA ModesAre ==
    ASSUME NEW chars \in Seq(STRING), NEW mode \in Modes
    PROVE  ModesAlong(chars, mode) \in Seq(Modes) /\ Len(ModesAlong(chars, mode)) = Len(chars) + 1
<1> DEFINE n == Len(chars)
           Next1(i, v) == CASE v[i] = "main" /\ chars[i] = "o" -> "comment"
                            [] v[i] = "main" /\ chars[i] = "b" -> Branch(chars, i)
                            [] v[i] # "main" /\ chars[i] = "e" -> "main"
                            [] OTHER -> v[i]
           advance == [p \in (1 .. n) \X Seq(Modes) |->
                      IF Len(p[2]) = p[1] THEN Append(p[2], Next1(p[1], p[2])) ELSE p[2]]
           Along(f) == f = [i \in 0 .. n |->
                              IF i = 0 THEN <<mode>>
                              ELSE LET before == f[i - 1]
                                       current == before[i]
                                   IN  Append(before,
                                         CASE current = "main" /\ chars[i] = "o" -> "comment"
                                           [] current = "main" /\ chars[i] = "b" -> Branch(chars, i)
                                           [] current # "main" /\ chars[i] = "e" -> "main"
                                           [] OTHER -> current)]
<1>1. \A i \in 1 .. n, v \in Seq(Modes) :
         Len(v) = i => Next1(i, v) \in Modes
  BY DEF Branch, Modes
<1>2. \A i \in 1 .. n, v \in Seq(Modes) :
         advance[<<i, v>>] = IF Len(v) = i THEN Append(v, Next1(i, v)) ELSE v
  OBVIOUS
<1>4. n \in Nat /\ <<mode>> \in Seq(Modes)
  OBVIOUS
<1> HIDE DEF Next1, advance, n
<1>3. ASSUME NEW i \in 1 .. n, NEW v \in Seq(Modes) PROVE advance[<<i, v>>] \in Seq(Modes)
  <2>1. CASE Len(v) = i
    <3>1. Next1(i, v) \in Modes
      BY <1>1, <2>1
    <3>2. Append(v, Next1(i, v)) \in Seq(Modes)
      BY <3>1, AppendProperties
    <3> QED BY <1>2, <2>1, <3>2
  <2>2. CASE Len(v) # i
    BY <1>2, <2>2
  <2> QED BY <2>1, <2>2
<1>5. PICK f \in [0 .. n -> Seq(Modes)] :
          f[0] = <<mode>> /\ \A i \in 1 .. n : f[i] = advance[<<i, f[i - 1]>>]
  <2> DEFINE V == Seq(Modes)
             first == <<mode>>
  <2>1. first \in V /\ advance \in [(1 .. n) \X V -> V]
    BY <1>3, <1>4 DEF advance
  <2> HIDE DEF V, first
  <2>2. \E f \in [0 .. n -> V] : Recurs(f, first, advance, n)
    BY <1>4, <2>1, Recursion
  <2> QED BY <2>2 DEF V, first, Recurs
<1>6. \A i \in 0 .. n : Len(f[i]) = i + 1
  <2> DEFINE S == {i \in 0 .. n : Len(f[i]) = i + 1}
  <2>1. 0 \in S
    <3>1. Len(f[0]) = 1 /\ 0 \in 0 .. n
      BY <1>4, <1>5
    <3> QED BY <3>1
  <2>2. ASSUME NEW i \in 0 .. n - 1, i \in S PROVE i + 1 \in S
    <3>1. f[i] \in Seq(Modes) /\ Len(f[i]) = i + 1 /\ i + 1 \in 1 .. n
      BY <1>4, <1>5, <2>2
    <3>2. f[i + 1] = advance[<<i + 1, f[i]>>]
      BY <1>5, <3>1
    <3>3. f[i + 1] = Append(f[i], Next1(i + 1, f[i]))
      BY <1>2, <3>1, <3>2
    <3> QED BY <3>1, <3>3
  <2> HIDE DEF S
  <2>3. ASSUME NEW m \in 0 .. n PROVE m \in S
    <3>1. m \in Nat /\ \A i \in 0 .. m - 1 : i \in S => i + 1 \in S
      BY <2>2, <1>4
    <3> QED BY <2>1, <3>1, Counting
  <2> QED BY <2>3 DEF S
<1>7. \A i \in 1 .. n : f[i] = Append(f[i - 1], Next1(i, f[i - 1]))
  <2> SUFFICES ASSUME NEW i \in 1 .. n PROVE f[i] = Append(f[i - 1], Next1(i, f[i - 1]))
    OBVIOUS
  <2>1. i - 1 \in 0 .. n /\ f[i - 1] \in Seq(Modes) /\ Len(f[i - 1]) = i
    BY <1>4, <1>5, <1>6
  <2> QED BY <1>2, <1>5, <2>1
<1>8. Along(f)
  <2>1. \A i \in 0 .. n : f[i] = IF i = 0 THEN <<mode>> ELSE Append(f[i - 1], Next1(i, f[i - 1]))
    <3> SUFFICES ASSUME NEW i \in 0 .. n
                 PROVE  f[i] = IF i = 0 THEN <<mode>> ELSE Append(f[i - 1], Next1(i, f[i - 1]))
      OBVIOUS
    <3>1. i = 0 \/ i \in 1 .. n
      BY <1>4
    <3> QED BY <1>5, <1>7, <3>1
  <2> USE DEF Next1
  <2> QED BY <1>5, <2>1
<1> DEFINE g == CHOOSE h : Along(h)
<1>9. Along(g)
  BY <1>8
<1>10. ModesAlong(chars, mode) = g[n]
  BY DEF ModesAlong, n
<1> HIDE DEF g
<1>11. g = f
  <2> DEFINE S == {i \in 0 .. n : g[i] = f[i]}
  <2>1. \A i \in 0 .. n : g[i] = IF i = 0 THEN <<mode>> ELSE Append(g[i - 1], Next1(i, g[i - 1]))
    BY <1>4, <1>9 DEF Next1
  <2>2. 0 \in S
    <3>1. 0 \in 0 .. n /\ g[0] = <<mode>> /\ f[0] = <<mode>>
      BY <1>4, <1>5, <2>1
    <3> QED BY <3>1
  <2>3. ASSUME NEW i \in 0 .. n - 1, i \in S PROVE i + 1 \in S
    <3>1. i + 1 \in 1 .. n /\ i + 1 \in 0 .. n /\ (i + 1) - 1 = i /\ i + 1 # 0
      BY <1>4
    <3>2. f[i + 1] = Append(f[i], Next1(i + 1, f[i]))
      BY <1>7, <3>1
    <3>3. g[i + 1] = Append(g[i], Next1(i + 1, g[i]))
      BY <2>1, <3>1
    <3>4. f[i] = g[i]
      BY <2>3
    <3> QED BY <3>1, <3>2, <3>3, <3>4
  <2> HIDE DEF S
  <2>4. ASSUME NEW m \in 0 .. n PROVE m \in S
    <3>1. m \in Nat /\ \A i \in 0 .. m - 1 : i \in S => i + 1 \in S
      BY <2>3, <1>4
    <3> QED BY <2>2, <3>1, Counting
  <2>5. \A i \in 0 .. n : g[i] = f[i]
    BY <2>4 DEF S
  <2>6. g = [i \in 0 .. n |-> g[i]] /\ f = [i \in 0 .. n |-> f[i]]
    BY <1>5, <1>9
  <2> QED BY <2>5, <2>6
<1>12. ModesAlong(chars, mode) = f[n] /\ n \in 0 .. n
  BY <1>4, <1>10, <1>11
<1> QED BY <1>4, <1>5, <1>6, <1>12 DEF n

\* A style for each character.
LEMMA StylesAre ==
    ASSUME NEW chars \in Seq(STRING), NEW mode \in Modes
    PROVE  StylesAlong(chars, mode) \in Seq(Modes) /\ Len(StylesAlong(chars, mode)) = Len(chars)
<1> DEFINE along == ModesAlong(chars, mode)
<1>1. along \in Seq(Modes) /\ Len(along) = Len(chars) + 1
  BY ModesAre
<1>2. StylesAlong(chars, mode) =
         [i \in DOMAIN chars |-> IF along[i + 1] = "main" THEN along[i] ELSE along[i + 1]]
  BY DEF StylesAlong
<1> HIDE DEF along
<1>3. Len(chars) \in Nat /\ DOMAIN chars = 1 .. Len(chars)
  BY LenProperties
<1>4. \A i \in 1 .. Len(chars) : along[i] \in Modes /\ along[i + 1] \in Modes
  BY <1>1, <1>3
<1> QED BY <1>2, <1>3, <1>4

\* The state after a line, and at the end of a text.
LEMMA LastModeIs ==
    ASSUME NEW chars \in Seq(STRING), NEW mode \in Modes
    PROVE  Last(ModesAlong(chars, mode)) \in Modes
<1>1. ModesAlong(chars, mode) \in Seq(Modes) /\ Len(ModesAlong(chars, mode)) \in Nat \ {0}
  BY ModesAre, LenProperties
<1> QED BY <1>1 DEF Last

\* FlattenSeq is built sequence by sequence.
Joins(f, seqs) == \A i \in 2 .. Len(seqs) : f[i] = f[i - 1] \o seqs[i]

\* Flattening joins the sequences one after the other:
LEMMA FlattenIs ==
    ASSUME NEW S, NEW seqs \in Seq(Seq(S)), Len(seqs) > 0
    PROVE  \E f \in [1 .. Len(seqs) -> Seq(S)] :
              f[1] = seqs[1] /\ Joins(f, seqs) /\ FlattenSeq(seqs) = f[Len(seqs)]
<1> DEFINE n == Len(seqs)
           T == Seq(S)
           advance == [p \in (1 .. n - 1) \X T |-> p[2] \o seqs[p[1] + 1]]
           Flat(f) == f = [i \in 1 .. n |-> IF i = 1 THEN seqs[i] ELSE f[i - 1] \o seqs[i]]
<1>1. n \in Nat \ {0} /\ n - 1 \in Nat /\ \A i \in 1 .. n : seqs[i] \in T
  OBVIOUS
<1>2. seqs[1] \in T
  BY <1>1
<1>3. \A i \in 1 .. n - 1, v \in T : v \o seqs[i + 1] \in T
  <2> SUFFICES ASSUME NEW i \in 1 .. n - 1, NEW v \in T PROVE v \o seqs[i + 1] \in T
    OBVIOUS
  <2>1. seqs[i + 1] \in T
    BY <1>1
  <2> QED BY <2>1, ConcatProperties
<1> HIDE DEF n, T
<1>4. advance \in [(1 .. n - 1) \X T -> T] /\ \A i \in 1 .. n - 1, v \in T : advance[<<i, v>>] = v \o seqs[i + 1]
  BY <1>3
<1> HIDE DEF advance
<1>5. PICK h \in [0 .. n - 1 -> T] : Recurs(h, seqs[1], advance, n - 1)
  BY <1>1, <1>2, <1>4, Recursion
<1> DEFINE f == [i \in 1 .. n |-> h[i - 1]]
<1>6. f \in [1 .. n -> T] /\ f[1] = seqs[1]
  BY <1>1, <1>5 DEF Recurs
<1>7. \A i \in 2 .. n : f[i] = f[i - 1] \o seqs[i]
  <2> SUFFICES ASSUME NEW i \in 2 .. n PROVE f[i] = f[i - 1] \o seqs[i]
    OBVIOUS
  <2>1. i - 1 \in 1 .. n - 1 /\ i - 2 \in 0 .. n - 1 /\ (i - 1) - 1 = i - 2 /\ (i - 1) + 1 = i
        /\ i \in 1 .. n /\ i - 1 \in 1 .. n
    BY <1>1
  <2>2. h[i - 1] = advance[<<i - 1, h[i - 2]>>] /\ h[i - 2] \in T
    BY <1>5, <2>1 DEF Recurs
  <2>3. h[i - 1] = h[i - 2] \o seqs[i]
    BY <1>4, <2>1, <2>2
  <2> QED BY <2>1, <2>3
<1> HIDE DEF f
<1>8. Flat(f)
  <2>1. \A i \in 1 .. n : f[i] = IF i = 1 THEN seqs[i] ELSE f[i - 1] \o seqs[i]
    <3> SUFFICES ASSUME NEW i \in 1 .. n
                 PROVE  f[i] = IF i = 1 THEN seqs[i] ELSE f[i - 1] \o seqs[i]
      OBVIOUS
    <3>1. i = 1 \/ i \in 2 .. n
      BY <1>1
    <3> QED BY <1>6, <1>7, <3>1
  <2> QED BY <1>6, <2>1
<1> DEFINE g == CHOOSE k : Flat(k)
<1>9. Flat(g)
  BY <1>8
<1>10. FlattenSeq(seqs) = g[n]
  BY <1>1 DEF FlattenSeq, n
<1> HIDE DEF g
<1>11. g = f
  <2> DEFINE Same == {i \in 0 .. n - 1 : g[i + 1] = f[i + 1]}
  <2>1. \A i \in 1 .. n : g[i] = IF i = 1 THEN seqs[i] ELSE g[i - 1] \o seqs[i]
    BY <1>9
  <2>2. 0 \in Same
    <3>1. 0 \in 0 .. n - 1 /\ 0 + 1 = 1 /\ 1 \in 1 .. n
      BY <1>1
    <3>2. g[1] = seqs[1]
      BY <2>1, <3>1
    <3> QED BY <1>6, <3>1, <3>2
  <2>3. ASSUME NEW m \in 0 .. n - 1 PROVE m \in Same
    <3>1. ASSUME NEW i \in 0 .. m - 1, i \in Same PROVE i + 1 \in Same
      <4>1. i + 2 \in 2 .. n /\ i + 2 \in 1 .. n /\ (i + 2) - 1 = i + 1 /\ i + 2 # 1
            /\ (i + 1) + 1 = i + 2 /\ i + 1 \in 0 .. n - 1
        BY <1>1
      <4>2. f[i + 2] = f[i + 1] \o seqs[i + 2]
        BY <1>7, <4>1
      <4>3. g[i + 2] = g[i + 1] \o seqs[i + 2]
        BY <2>1, <4>1
      <4>4. f[i + 1] = g[i + 1]
        BY <3>1
      <4> QED BY <4>1, <4>2, <4>3, <4>4
    <3> HIDE DEF Same
    <3>2. m \in Nat
      BY <1>1
    <3> QED BY <2>2, <3>1, <3>2, Counting
  <2>4. \A i \in 1 .. n : g[i] = f[i]
    <3> SUFFICES ASSUME NEW i \in 1 .. n PROVE g[i] = f[i]
      OBVIOUS
    <3>1. i - 1 \in 0 .. n - 1 /\ (i - 1) + 1 = i
      BY <1>1
    <3> QED BY <2>3, <3>1
  <2>5. g = [i \in 1 .. n |-> g[i]] /\ f = [i \in 1 .. n |-> f[i]]
    BY <1>6, <1>9
  <2> QED BY <2>4, <2>5
<1> QED BY <1>6, <1>7, <1>10, <1>11 DEF Joins, n, T

\* one sequence more is appended to what the others make.
LEMMA FlattenAppend ==
    ASSUME NEW S, NEW seqs \in Seq(Seq(S)), NEW t \in Seq(S)
    PROVE  /\ FlattenSeq(<<>>) = <<>>
           /\ FlattenSeq(Append(seqs, t)) = FlattenSeq(seqs) \o t
<1>1. FlattenSeq(<<>>) = <<>>
  BY DEF FlattenSeq
<1> DEFINE more == Append(seqs, t)
           n == Len(seqs)
<1>2. /\ more \in Seq(Seq(S)) /\ Len(more) = n + 1 /\ n \in Nat /\ more[n + 1] = t
      /\ \A i \in 1 .. n : more[i] = seqs[i]
  BY AppendProperties
<1> HIDE DEF more
<1>3. PICK g \in [1 .. n + 1 -> Seq(S)] :
         g[1] = more[1] /\ Joins(g, more) /\ FlattenSeq(more) = g[n + 1]
  <2>1. Len(more) > 0
    BY <1>2
  <2>2. \E g \in [1 .. Len(more) -> Seq(S)] :
           g[1] = more[1] /\ Joins(g, more) /\ FlattenSeq(more) = g[Len(more)]
    BY <1>2, <2>1, FlattenIs
  <2> QED BY <1>2, <2>2
<1>4. CASE n = 0
  <2>1. seqs = <<>>
    BY <1>4
  <2>2. FlattenSeq(more) = t
    BY <1>2, <1>3, <1>4
  <2>3. <<>> \o t = t
    BY ConcatEmptySeq
  <2> QED BY <1>1, <2>1, <2>2, <2>3 DEF more
<1>5. CASE n > 0
  <2>1. PICK f \in [1 .. n -> Seq(S)] :
           f[1] = seqs[1] /\ Joins(f, seqs) /\ FlattenSeq(seqs) = f[n]
    BY <1>5, FlattenIs
  <2> DEFINE Same == {i \in 0 .. n - 1 : g[i + 1] = f[i + 1]}
  <2>2. 0 \in Same
    <3>1. 0 \in 0 .. n - 1 /\ 0 + 1 = 1 /\ more[1] = seqs[1]
      BY <1>2, <1>5
    <3> QED BY <1>3, <2>1, <3>1
  <2>3. ASSUME NEW i \in 0 .. n - 2, i \in Same PROVE i + 1 \in Same
    <3>1. i + 2 \in 2 .. n /\ i + 2 \in 2 .. n + 1 /\ (i + 2) - 1 = i + 1
          /\ (i + 1) + 1 = i + 2 /\ i + 1 \in 0 .. n - 1 /\ i + 2 \in 1 .. n
      BY <1>2, <1>5
    <3>5. more[i + 2] = seqs[i + 2]
      BY <1>2, <3>1
    <3>2. f[i + 2] = f[i + 1] \o seqs[i + 2]
      BY <2>1, <3>1 DEF Joins
    <3>3. g[i + 2] = g[i + 1] \o seqs[i + 2]
      BY <1>2, <1>3, <3>1 DEF Joins
    <3>4. f[i + 1] = g[i + 1]
      BY <2>3
    <3> QED BY <3>1, <3>2, <3>3, <3>4, <3>5
  <2>4. n - 1 \in Same
    <3>1. n - 1 \in Nat /\ (n - 1) - 1 = n - 2
      BY <1>2, <1>5
    <3> HIDE DEF Same, n
    <3> QED BY <2>2, <2>3, <3>1, Counting
  <2>5. g[n] = f[n]
    BY <1>2, <1>5, <2>4
  <2>6. n + 1 \in 2 .. n + 1 /\ (n + 1) - 1 = n
    BY <1>2, <1>5
  <2>7. g[n + 1] = g[n] \o t
    BY <1>2, <1>3, <2>6 DEF Joins
  <2> QED BY <1>1, <1>3, <2>1, <2>5, <2>7 DEF more
<1> QED BY <1>2, <1>4, <1>5

---------------------------------------------------------------------------
(* Lines                                                                    *)

\* The starts of lines, in increasing order.
Begins(text) == {0} \cup {i \in 1 .. Len(text) : text[i] = "n"}
Increasing(s) == \A i, j \in 1 .. Len(s) : i < j => s[i] < s[j]
AreStarts(s, text) ==
    /\ s \in Seq(Nat) /\ Increasing(s)
    /\ \A i \in 1 .. Len(s) : s[i] \in Begins(text)
    /\ \A begin \in Begins(text) : \E i \in 1 .. Len(s) : s[i] = begin

\* The k-th of a finite set of numbers.
LEMMA Ranks ==
    ASSUME NEW n \in Nat, NEW E \in SUBSET (1 .. n)
    PROVE  \E c \in [E -> 1 .. Cardinality(E)] :
              /\ \A i \in E : c[i] = Cardinality({j \in E : j <= i})
              /\ \A k \in 1 .. Cardinality(E) : \E i \in E : c[i] = k
              /\ \A i, j \in E : i < j => c[i] < c[j]
<1> DEFINE N == Cardinality(E)
           up == [i \in 0 .. n |-> {j \in E : j <= i}]
           c == [i \in 0 .. n |-> Cardinality(up[i])]
<1>1. IsFiniteSet(E) /\ N \in Nat
  <2>1. IsFiniteSet(1 .. n)
    BY FS_Interval
  <2> QED BY <2>1, FS_Subset, FS_CardinalityType
<1>2. \A j \in E : j \in 0 .. n /\ j \in Nat /\ j >= 1
  OBVIOUS
<1>3. \A i \in 0 .. n : /\ up[i] \in SUBSET E /\ c[i] = Cardinality(up[i])
                        /\ \A j \in E : j \in up[i] <=> j <= i
  OBVIOUS
<1>4. \A i \in E : c[i] = Cardinality({j \in E : j <= i})
  BY <1>2
<1> HIDE DEF up, c, N
<1>5. \A i \in 0 .. n : IsFiniteSet(up[i]) /\ c[i] \in Nat /\ c[i] <= N
  BY <1>1, <1>3, FS_Subset, FS_CardinalityType DEF N
<1>6. c[0] = 0 /\ c[n] = N
  <2>1. 0 \in 0 .. n /\ n \in 0 .. n
    OBVIOUS
  <2>2. \A j \in E : j \notin up[0] /\ j \in up[n]
    BY <1>2, <1>3, <2>1
  <2>3. up[0] = {} /\ up[n] = E
    BY <1>3, <2>1, <2>2
  <2> QED BY <1>3, <2>1, <2>3, FS_EmptySet DEF N
<1>7. \A i, j \in 0 .. n : i <= j => c[i] <= c[j]
  <2> SUFFICES ASSUME NEW i \in 0 .. n, NEW j \in 0 .. n, i <= j PROVE c[i] <= c[j]
    OBVIOUS
  <2>2. \A k \in E : k \in up[i] => k \in up[j]
    BY <1>2, <1>3
  <2>1. up[i] \in SUBSET up[j]
    BY <1>3, <2>2
  <2> QED BY <1>3, <1>5, <2>1, FS_Subset
<1>8. \A i \in E : c[i] = c[i - 1] + 1 /\ i - 1 \in 0 .. n
  <2> SUFFICES ASSUME NEW i \in E PROVE c[i] = c[i - 1] + 1 /\ i - 1 \in 0 .. n
    OBVIOUS
  <2>1. i \in 0 .. n /\ i - 1 \in 0 .. n
    BY <1>2
  <2>2. i \in up[i] /\ i \notin up[i - 1]
    BY <1>3, <2>1
  <2>3. \A j \in E : j \in up[i] <=> j \in up[i - 1] \/ j = i
    BY <1>2, <1>3, <2>1
  <2>4. up[i] = up[i - 1] \cup {i}
    BY <1>3, <2>1, <2>3
  <2> QED BY <1>3, <1>5, <2>1, <2>2, <2>4, FS_AddElement
<1>9. \A i \in 1 .. n : i \notin E => c[i] = c[i - 1]
  <2> SUFFICES ASSUME NEW i \in 1 .. n, i \notin E PROVE c[i] = c[i - 1]
    OBVIOUS
  <2>1. i \in 0 .. n /\ i - 1 \in 0 .. n
    OBVIOUS
  <2>2. \A j \in E : j \in up[i] <=> j \in up[i - 1]
    BY <1>2, <1>3, <2>1
  <2>3. up[i] = up[i - 1]
    BY <1>3, <2>1, <2>2
  <2> QED BY <1>3, <2>1, <2>3
<1>10. \A k \in 1 .. N : \E i \in E : c[i] = k
  <2> SUFFICES ASSUME NEW k \in 1 .. N PROVE \E i \in E : c[i] = k
    OBVIOUS
  <2> DEFINE Late == {i \in 0 .. n : c[i] >= k}
  <2>1. Late \in SUBSET Nat /\ n \in Late
    BY <1>1, <1>6
  <2>2. PICK i \in Late : \A j \in Late : i <= j
    BY <2>1, Smallest
  <2>3. i \in 0 .. n /\ c[i] >= k /\ c[i] \in Nat
    BY <1>5, <2>2
  <2>4. i \in 1 .. n
    BY <1>1, <1>6, <2>3
  <2>5. i - 1 \in 0 .. n /\ ~(c[i - 1] >= k) /\ c[i - 1] \in Nat
    <3>1. i - 1 \in 0 .. n /\ i - 1 \notin Late
      BY <2>2, <2>3, <2>4
    <3> QED BY <1>5, <3>1
  <2>6. i \in E
    BY <1>1, <1>9, <2>3, <2>4, <2>5
  <2>7. c[i] = c[i - 1] + 1
    BY <1>8, <2>6
  <2>8. c[i] = k
    BY <1>1, <2>3, <2>5, <2>7
  <2> QED BY <2>6, <2>8
<1>11. \A i, j \in E : i < j => c[i] < c[j]
  <2> SUFFICES ASSUME NEW i \in E, NEW j \in E, i < j PROVE c[i] < c[j]
    OBVIOUS
  <2>1. i \in 0 .. n /\ j \in 0 .. n /\ j - 1 \in 0 .. n /\ i <= j - 1
    BY <1>2
  <2>2. c[i] <= c[j - 1] /\ c[j] = c[j - 1] + 1
    BY <1>7, <1>8, <2>1
  <2> QED BY <1>5, <2>1, <2>2
<1>12. \A i \in E : c[i] \in 1 .. N
  <2> SUFFICES ASSUME NEW i \in E PROVE c[i] \in 1 .. N
    OBVIOUS
  <2>1. i \in 0 .. n /\ i - 1 \in 0 .. n /\ c[i] = c[i - 1] + 1
    BY <1>2, <1>8
  <2> QED BY <1>1, <1>5, <2>1
<1> DEFINE d == [i \in E |-> c[i]]
<1>13. d \in [E -> 1 .. N] /\ \A i \in E : d[i] = c[i]
  BY <1>12
<1> HIDE DEF d
<1> QED BY <1>4, <1>10, <1>11, <1>13 DEF N

\* line_starts finds the starts of the lines of a text,
LEMMA LineStarts == ASSUME NEW text \in Seq(STRING) PROVE AreStarts(line_starts(text), text)
<1> DEFINE ends == {i \in DOMAIN text : text[i] = "n"}
           N == Cardinality(ends)
           Nth(k) == CHOOSE i \in ends : Cardinality({j \in ends : j <= i}) = k
           s == line_starts(text)
<1>1. Len(text) \in Nat /\ ends \in SUBSET (1 .. Len(text)) /\ Begins(text) = {0} \cup ends
  BY DEF Begins
<1>2. s = [i \in 1 .. N + 1 |-> IF i = 1 THEN 0 ELSE Nth(i - 1)]
  BY DEF line_starts
<1> HIDE DEF ends, s
<1>3. PICK c \in [ends -> 1 .. N] :
         /\ \A i \in ends : c[i] = Cardinality({j \in ends : j <= i})
         /\ \A k \in 1 .. N : \E i \in ends : c[i] = k
         /\ \A i, j \in ends : i < j => c[i] < c[j]
  BY <1>1, Ranks
<1>4. \A k \in 1 .. N : Nth(k) \in ends /\ c[Nth(k)] = k
  BY <1>3
<1>5. N \in Nat
  <2>1. IsFiniteSet(1 .. Len(text))
    BY <1>1, FS_Interval
  <2> QED BY <1>1, <2>1, FS_Subset, FS_CardinalityType
<1>6. \A i \in ends : i \in Nat /\ i >= 1
  BY <1>1
<1> HIDE DEF Nth, N
<1>7. \A i \in 2 .. N + 1 : i - 1 \in 1 .. N /\ Nth(i - 1) \in ends
  <2> SUFFICES ASSUME NEW i \in 2 .. N + 1 PROVE i - 1 \in 1 .. N /\ Nth(i - 1) \in ends
    OBVIOUS
  <2>1. i - 1 \in 1 .. N
    BY <1>5
  <2> QED BY <1>4, <2>1
<1>8. \A i \in 1 .. N + 1 : i = 1 \/ i \in 2 .. N + 1
  BY <1>5
<1>9. /\ s \in Seq(Nat) /\ Len(s) = N + 1 /\ s[1] = 0
      /\ \A i \in 2 .. N + 1 : s[i] = Nth(i - 1)
  <2>1. \A i \in 1 .. N + 1 : (IF i = 1 THEN 0 ELSE Nth(i - 1)) \in Nat
    BY <1>6, <1>7, <1>8
  <2>2. N + 1 \in Nat /\ 1 \in 1 .. N + 1 /\ \A i \in 2 .. N + 1 : i \in 1 .. N + 1 /\ i # 1
    BY <1>5
  <2> QED BY <1>2, <2>1, <2>2
<1>10. \A i \in 2 .. N + 1 : s[i] \in ends /\ s[i] \in Nat /\ s[i] >= 1 /\ c[s[i]] = i - 1
  BY <1>4, <1>6, <1>7, <1>9
<1>11. Increasing(s)
  <2> SUFFICES ASSUME NEW i \in 1 .. N + 1, NEW j \in 1 .. N + 1, i < j PROVE s[i] < s[j]
    BY <1>5, <1>9 DEF Increasing
  <2>1. j \in 2 .. N + 1
    BY <1>5
  <2>2. CASE i = 1
    BY <1>9, <1>10, <2>1, <2>2
  <2>3. CASE i # 1
    <3>1. i \in 2 .. N + 1 /\ i - 1 < j - 1
      BY <1>5, <2>3
    <3>2. s[i] \in ends /\ s[j] \in ends /\ s[i] \in Nat /\ s[j] \in Nat /\ c[s[i]] = i - 1 /\ c[s[j]] = j - 1
      BY <1>10, <2>1, <3>1
    <3>3. s[i] # s[j] /\ ~(s[j] < s[i])
      <4>1. s[j] < s[i] => c[s[j]] < c[s[i]]
        BY <1>3, <3>2
      <4> QED BY <1>5, <3>1, <3>2, <4>1
    <3> QED BY <3>2, <3>3
  <2> QED BY <2>2, <2>3
<1>12. \A i \in 1 .. N + 1 : s[i] \in Begins(text)
  BY <1>1, <1>8, <1>9, <1>10
<1>13. \A begin \in Begins(text) : \E i \in 1 .. N + 1 : s[i] = begin
  <2>1. 1 \in 1 .. N + 1
    BY <1>5
  <2>2. ASSUME NEW begin \in ends PROVE \E i \in 1 .. N + 1 : s[i] = begin
    <3> DEFINE k == c[begin]
    <3>1. k \in 1 .. N /\ k + 1 \in 2 .. N + 1 /\ (k + 1) - 1 = k /\ k + 1 \in 1 .. N + 1
      BY <1>3, <1>5
    <3>2. s[k + 1] \in ends /\ s[k + 1] \in Nat /\ c[s[k + 1]] = c[begin]
      BY <1>10, <3>1
    <3>3. s[k + 1] = begin
      <4>1. s[k + 1] < begin => c[s[k + 1]] < c[begin]
        BY <1>3, <3>2
      <4>2. begin < s[k + 1] => c[begin] < c[s[k + 1]]
        BY <1>3, <3>2
      <4>3. begin \in Nat /\ c[begin] \in Nat
        BY <1>3, <1>5, <1>6
      <4> QED BY <3>2, <4>1, <4>2, <4>3
    <3> QED BY <3>1, <3>3
  <2> QED BY <1>1, <1>9, <2>1, <2>2
<1> QED BY <1>9, <1>11, <1>12, <1>13 DEF AreStarts, s

\* which are determined by the text.
LEMMA StartsAreUnique ==
    ASSUME NEW text, NEW s, NEW t, AreStarts(s, text), AreStarts(t, text)
    PROVE  s = t
<1> DEFINE Fits(i) == i <= Len(s) /\ i <= Len(t) /\ s[i] = t[i]
           Off == {i \in 1 .. Len(s) + Len(t) : i <= Len(s) \/ i <= Len(t)} \cap {i \in Nat : ~Fits(i)}
<1>1. Len(s) \in Nat /\ Len(t) \in Nat /\ s \in Seq(Nat) /\ t \in Seq(Nat)
  BY DEF AreStarts
<1>2. CASE Off = {}
  <2>1. \A i \in 1 .. Len(s) + Len(t) : i <= Len(s) \/ i <= Len(t) => Fits(i)
    <3> SUFFICES ASSUME NEW i \in 1 .. Len(s) + Len(t), i <= Len(s) \/ i <= Len(t) PROVE Fits(i)
      OBVIOUS
    <3>1. i \in Nat /\ i \notin Off
      BY <1>1, <1>2, SMTT(30)
    <3> QED BY <3>1
  <2>2. Len(s) = Len(t)
    BY <1>1, <2>1, SMTT(30)
  <2>3. \A i \in 1 .. Len(s) : s[i] = t[i]
    BY <1>1, <2>1
  <2> QED BY <1>1, <2>2, <2>3, SeqEqual
<1>3. CASE Off # {}
  <2>1. Off \in SUBSET Nat
    OBVIOUS
  <2>2. PICK d \in Off : \A i \in Off : d <= i
    BY <1>3, <2>1, Smallest
  <2>3. d \in Nat \ {0} /\ ~Fits(d) /\ (d <= Len(s) \/ d <= Len(t))
    BY <2>2
  <2>4. \A i \in 1 .. d - 1 : Fits(i)
    <3> SUFFICES ASSUME NEW i \in 1 .. d - 1 PROVE Fits(i)
      OBVIOUS
    <3>1. i \in 1 .. Len(s) + Len(t) /\ i \notin Off /\ (i <= Len(s) \/ i <= Len(t)) /\ i \in Nat
      BY <1>1, <2>2, <2>3
    <3> QED BY <3>1
  <2> HIDE DEF Off
  <2>5. d <= Len(s) => d <= Len(t) /\ t[d] <= s[d]
    <3> SUFFICES ASSUME d <= Len(s) PROVE d <= Len(t) /\ t[d] <= s[d]
      OBVIOUS
    <3>1. d \in 1 .. Len(s) /\ s[d] \in Begins(text)
      BY <1>1, <2>3 DEF AreStarts
    <3>2. PICK j \in 1 .. Len(t) : t[j] = s[d]
      BY <3>1 DEF AreStarts
    <3>3. ~ (j < d)
      <4> SUFFICES ASSUME j < d PROVE FALSE
        OBVIOUS
      <4>1. j \in 1 .. d - 1
        BY <1>1, <2>3, <3>2
      <4>2. j \in 1 .. Len(s) /\ s[j] = t[j] /\ s[j] < s[d]
        BY <1>1, <2>4, <3>1, <4>1 DEF AreStarts, Increasing
      <4> QED BY <1>1, <3>1, <3>2, <4>2
    <3>4. d \in 1 .. Len(t)
      BY <1>1, <2>3, <3>2, <3>3
    <3>5. t[d] \in Nat /\ (d = j \/ d < j)
      BY <1>1, <2>3, <3>2, <3>3, <3>4
    <3>6. d < j => t[d] < t[j]
      BY <3>2, <3>4 DEF AreStarts, Increasing
    <3> QED BY <1>1, <3>2, <3>4, <3>5, <3>6
  <2>6. d <= Len(t) => d <= Len(s) /\ s[d] <= t[d]
    <3> SUFFICES ASSUME d <= Len(t) PROVE d <= Len(s) /\ s[d] <= t[d]
      OBVIOUS
    <3>1. d \in 1 .. Len(t) /\ t[d] \in Begins(text)
      BY <1>1, <2>3 DEF AreStarts
    <3>2. PICK j \in 1 .. Len(s) : s[j] = t[d]
      BY <3>1 DEF AreStarts
    <3>3. ~ (j < d)
      <4> SUFFICES ASSUME j < d PROVE FALSE
        OBVIOUS
      <4>1. j \in 1 .. d - 1
        BY <1>1, <2>3, <3>2
      <4>2. j \in 1 .. Len(t) /\ s[j] = t[j] /\ t[j] < t[d]
        BY <1>1, <2>4, <3>1, <4>1 DEF AreStarts, Increasing
      <4> QED BY <1>1, <3>1, <3>2, <4>2
    <3>4. d \in 1 .. Len(s)
      BY <1>1, <2>3, <3>2, <3>3
    <3>5. s[d] \in Nat /\ (d = j \/ d < j)
      BY <1>1, <2>3, <3>2, <3>3, <3>4
    <3>6. d < j => s[d] < s[j]
      BY <3>2, <3>4 DEF AreStarts, Increasing
    <3> QED BY <1>1, <3>2, <3>4, <3>5, <3>6
  <2>7. d \in 1 .. Len(s) /\ d \in 1 .. Len(t) /\ s[d] = t[d]
    BY <1>1, <2>3, <2>5, <2>6
  <2> QED BY <1>1, <2>3, <2>7
<1> QED BY <1>2, <1>3

\* The line of an offset, and the end of a line.
LineOf(s, o) == Cardinality({i \in DOMAIN s : s[i] <= o}) - 1
LineEnd(s, text, k) == IF k + 2 <= Len(s) THEN s[k + 2] ELSE Len(text)

\* The first line starts at 0, and all of them in the text, in order.
LEMMA StartsFit ==
    ASSUME NEW text \in Seq(STRING), NEW s, AreStarts(s, text)
    PROVE  /\ s \in Seq(Nat) /\ Len(s) \in Nat \ {0} /\ s[1] = 0 /\ Len(text) \in Nat
           /\ \A i \in 1 .. Len(s) : s[i] \in 0 .. Len(text)
           /\ \A i, j \in 1 .. Len(s) : i < j => s[i] < s[j]
           /\ \A i, j \in 1 .. Len(s) : i <= j => s[i] <= s[j]
<1>1. s \in Seq(Nat) /\ Len(s) \in Nat /\ Len(text) \in Nat
  BY DEF AreStarts
<1>2. \A i, j \in 1 .. Len(s) : i < j => s[i] < s[j]
  BY DEF AreStarts, Increasing
<1>3. \A i \in 1 .. Len(s) : s[i] \in 0 .. Len(text)
  BY <1>1 DEF AreStarts, Begins
<1>4. PICK i \in 1 .. Len(s) : s[i] = 0
  BY DEF AreStarts, Begins
<1>5. Len(s) # 0 /\ 1 \in 1 .. Len(s) /\ s[1] = 0
  BY <1>1, <1>2, <1>3, <1>4
<1>6. \A j, k \in 1 .. Len(s) : j <= k => s[j] <= s[k]
  BY <1>1, <1>2, <1>3
<1> QED BY <1>1, <1>2, <1>3, <1>5, <1>6

\* The line of an offset is the last one that starts no later,
LEMMA LineIs ==
    ASSUME NEW text \in Seq(STRING), NEW s, AreStarts(s, text), NEW o \in Nat
    PROVE  /\ LineOf(s, o) \in 0 .. Len(s) - 1
           /\ \A i \in 1 .. Len(s) : s[i] <= o <=> i <= LineOf(s, o) + 1
<1> DEFINE Below == {i \in 1 .. Len(s) : s[i] <= o}
<1>1. /\ s \in Seq(Nat) /\ Len(s) \in Nat \ {0} /\ s[1] = 0
      /\ \A i \in 1 .. Len(s) : s[i] \in Nat
      /\ \A i, j \in 1 .. Len(s) : i <= j => s[i] <= s[j]
  BY StartsFit
<1>2. Below \in SUBSET Nat /\ 1 \in Below /\ \A i \in Below : i <= Len(s)
  BY <1>1
<1>3. Max(Below) \in Below /\ \A i \in Below : i <= Max(Below)
  <2> HIDE DEF Below
  <2>1. Len(s) \in Nat /\ Below # {}
    BY <1>1, <1>2
  <2> QED BY <1>2, <2>1, MaxIs
<1> DEFINE k == Max(Below)
<1> HIDE DEF k
<1>4. k \in 1 .. Len(s) /\ s[k] <= o /\ \A i \in 1 .. Len(s) : s[i] <= o => i <= k
  BY <1>3 DEF k
<1>5. \A i \in 1 .. Len(s) : i <= k => s[i] <= o
  <2> SUFFICES ASSUME NEW i \in 1 .. Len(s), i <= k PROVE s[i] <= o
    OBVIOUS
  <2>1. s[i] <= s[k] /\ s[i] \in Nat /\ s[k] \in Nat
    BY <1>1, <1>4
  <2> QED BY <1>4, <2>1
<1>6. Below = 1 .. k
  BY <1>1, <1>4, <1>5
<1>7. Cardinality(1 .. k) = k
  BY <1>4, FS_Interval
<1>8. LineOf(s, o) = k - 1
  <2>1. {i \in DOMAIN s : s[i] <= o} = 1 .. k
    BY <1>1, <1>6
  <2> QED BY <1>7, <2>1 DEF LineOf
<1> QED BY <1>1, <1>4, <1>5, <1>8

\* and no other line has the offset.
LEMMA LineIsUnique ==
    ASSUME NEW text \in Seq(STRING), NEW s, AreStarts(s, text), NEW o \in Nat,
           NEW k \in 0 .. Len(s) - 1, s[k + 1] <= o, k + 2 <= Len(s) => o < s[k + 2]
    PROVE  LineOf(s, o) = k
<1>1. /\ Len(s) \in Nat \ {0} /\ \A i \in 1 .. Len(s) : s[i] \in Nat
  BY StartsFit
<1>2. LineOf(s, o) \in 0 .. Len(s) - 1 /\ \A i \in 1 .. Len(s) : s[i] <= o <=> i <= LineOf(s, o) + 1
  BY LineIs
<1>3. k + 1 <= LineOf(s, o) + 1
  BY <1>1, <1>2
<1>4. k + 2 <= Len(s) => ~(k + 2 <= LineOf(s, o) + 1)
  <2> SUFFICES ASSUME k + 2 <= Len(s) PROVE ~(k + 2 <= LineOf(s, o) + 1)
    OBVIOUS
  <2>1. k + 2 \in 1 .. Len(s) /\ s[k + 2] \in Nat
    BY <1>1
  <2> QED BY <1>2, <2>1
<1> QED BY <1>1, <1>2, <1>3, <1>4

\* A line ends in the text, where the next one starts.
LEMMA LineEnds ==
    ASSUME NEW text \in Seq(STRING), NEW s, AreStarts(s, text), NEW k \in 0 .. Len(s) - 1
    PROVE  /\ LineEnd(s, text, k) \in s[k + 1] .. Len(text) /\ s[k + 1] \in Nat
           /\ k + 2 <= Len(s) => LineEnd(s, text, k) = s[k + 2] /\ s[k + 1] < s[k + 2]
           /\ \A j \in k .. Len(s) - 1 : LineEnd(s, text, k) <= LineEnd(s, text, j)
           /\ \A o \in 0 .. Len(text) - 1 : LineOf(s, o) = k => s[k + 1] <= o /\ o < LineEnd(s, text, k)
<1>1. /\ Len(s) \in Nat \ {0} /\ Len(text) \in Nat
      /\ \A i \in 1 .. Len(s) : s[i] \in 0 .. Len(text)
      /\ \A i, j \in 1 .. Len(s) : i < j => s[i] < s[j]
      /\ \A i, j \in 1 .. Len(s) : i <= j => s[i] <= s[j]
  BY StartsFit
<1>2. k + 1 \in 1 .. Len(s) /\ s[k + 1] \in 0 .. Len(text)
  BY <1>1
<1>3. k + 2 <= Len(s) => /\ k + 2 \in 1 .. Len(s) /\ s[k + 2] \in 0 .. Len(text) /\ s[k + 1] < s[k + 2]
  BY <1>1, <1>2
<1>4. \A j \in k .. Len(s) - 1 : LineEnd(s, text, k) <= LineEnd(s, text, j)
  <2> SUFFICES ASSUME NEW j \in k .. Len(s) - 1 PROVE LineEnd(s, text, k) <= LineEnd(s, text, j)
    OBVIOUS
  <2>1. CASE j + 2 <= Len(s)
    <3>1. k + 2 \in 1 .. Len(s) /\ j + 2 \in 1 .. Len(s) /\ k + 2 <= j + 2 /\ k + 2 <= Len(s)
      BY <1>1, <2>1
    <3>2. s[k + 2] <= s[j + 2]
      BY <1>1, <3>1
    <3> QED BY <2>1, <3>1, <3>2 DEF LineEnd
  <2>2. CASE ~(j + 2 <= Len(s))
    BY <1>1, <1>3, <2>2 DEF LineEnd
  <2> QED BY <2>1, <2>2
<1>5. ASSUME NEW o \in 0 .. Len(text) - 1, LineOf(s, o) = k
      PROVE  s[k + 1] <= o /\ o < LineEnd(s, text, k)
  <2>1. \A i \in 1 .. Len(s) : s[i] <= o <=> i <= k + 1
    <3>1. o \in Nat
      BY <1>1
    <3> QED BY <1>5, <3>1, LineIs
  <2>2. s[k + 1] <= o
    BY <1>2, <2>1
  <2>3. k + 2 <= Len(s) => ~(s[k + 2] <= o)
    BY <1>1, <1>3, <2>1
  <2> QED BY <1>1, <1>3, <2>2, <2>3 DEF LineEnd
<1> QED BY <1>1, <1>2, <1>3, <1>4, <1>5 DEF LineEnd

\* One sequence is the other with the elements from first to last replaced.
IsReplaced(new, old, first, last, others) ==
    /\ Len(new) = first + Len(others) + Len(old) - last - 1
    /\ \A i \in 1 .. first : new[i] = old[i]
    /\ \A i \in 1 .. Len(others) : new[first + i] = others[i]
    /\ \A i \in last + 2 .. Len(old) : new[i + first + Len(others) - last - 1] = old[i]

\* Replace does so.
LEMMA ReplaceIs ==
    ASSUME NEW S, NEW seq \in Seq(S), NEW first \in Nat, NEW last \in first - 1 .. Len(seq) - 1,
           NEW others \in Seq(S)
    PROVE  /\ Replace(seq, first, last, others) \in Seq(S)
           /\ IsReplaced(Replace(seq, first, last, others), seq, first, last, others)
<1> DEFINE front == SubSeq(seq, 1, first)
           back == SubSeq(seq, last + 2, Len(seq))
<1>1. Len(seq) \in Nat /\ Len(others) \in Nat /\ \A i \in 1 .. Len(seq) : seq[i] \in S
  OBVIOUS
<1>2. front \in Seq(S) /\ Len(front) = first /\ \A i \in 1 .. first : front[i] = seq[i]
  <2>1. \A i \in 1 .. first : seq[i] \in S
    BY <1>1
  <2> QED BY <2>1, SubSeqProperties
<1>3. /\ back \in Seq(S) /\ Len(back) = Len(seq) - last - 1
      /\ \A i \in 1 .. Len(seq) - last - 1 : back[i] = seq[last + 1 + i]
  <2>1. \A i \in last + 2 .. Len(seq) : seq[i] \in S
    BY <1>1
  <2>2. last + 2 \in Int /\ Len(seq) \in Int
    BY <1>1
  <2>3. /\ back \in Seq(S) /\ Len(back) = IF last + 2 <= Len(seq) THEN Len(seq) - (last + 2) + 1 ELSE 0
        /\ \A i \in 1 .. Len(seq) - (last + 2) + 1 : back[i] = seq[last + 2 + i - 1]
    BY <2>1, <2>2, SubSeqProperties
  <2> QED BY <1>1, <2>3
<1> HIDE DEF front, back
<1> DEFINE both == front \o others
           all == both \o back
<1>4. /\ both \in Seq(S) /\ Len(both) = first + Len(others)
      /\ \A i \in 1 .. first + Len(others) : both[i] = IF i <= first THEN front[i] ELSE others[i - first]
  BY <1>2, ConcatProperties
<1> HIDE DEF both
<1>5. /\ all \in Seq(S) /\ Len(all) = first + Len(others) + Len(back)
      /\ \A i \in 1 .. first + Len(others) + Len(back) :
            all[i] = IF i <= first + Len(others) THEN both[i] ELSE back[i - (first + Len(others))]
  <2>1. /\ all \in Seq(S) /\ Len(all) = Len(both) + Len(back)
        /\ \A i \in 1 .. Len(both) + Len(back) :
              all[i] = IF i <= Len(both) THEN both[i] ELSE back[i - Len(both)]
    BY <1>3, <1>4, ConcatProperties
  <2> HIDE DEF all
  <2> QED BY <1>4, <2>1
<1>6. Replace(seq, first, last, others) = all
  BY DEF Replace, all, both, front, back
<1> HIDE DEF all
<1>7. \A i \in 1 .. first : all[i] = seq[i]
  <2> SUFFICES ASSUME NEW i \in 1 .. first PROVE all[i] = seq[i]
    OBVIOUS
  <2>1. /\ i \in 1 .. first + Len(others) /\ i \in 1 .. first + Len(others) + Len(back)
        /\ i <= first + Len(others) /\ i <= first
    BY <1>1, <1>3
  <2>2. all[i] = both[i] /\ both[i] = front[i] /\ front[i] = seq[i]
    BY <1>2, <1>4, <1>5, <2>1
  <2> QED BY <2>2
<1>8. \A i \in 1 .. Len(others) : all[first + i] = others[i]
  <2> SUFFICES ASSUME NEW i \in 1 .. Len(others) PROVE all[first + i] = others[i]
    OBVIOUS
  <2> DEFINE p == first + i
  <2>1. /\ p \in 1 .. first + Len(others) /\ p \in 1 .. first + Len(others) + Len(back)
        /\ ~(p <= first) /\ p - first = i
    BY <1>1, <1>3
  <2> HIDE DEF p
  <2>2. all[p] = both[p] /\ both[p] = others[i]
    BY <1>4, <1>5, <2>1
  <2> QED BY <2>2 DEF p
<1>9. \A i \in last + 2 .. Len(seq) : all[i + first + Len(others) - last - 1] = seq[i]
  <2> SUFFICES ASSUME NEW i \in last + 2 .. Len(seq)
               PROVE  all[i + first + Len(others) - last - 1] = seq[i]
    OBVIOUS
  <2> DEFINE p == i + first + Len(others) - last - 1
  <2>1. /\ p \in 1 .. first + Len(others) + Len(back) /\ ~(p <= first + Len(others))
        /\ p - (first + Len(others)) = i - last - 1 /\ i - last - 1 \in 1 .. Len(seq) - last - 1
        /\ last + 1 + (i - last - 1) = i
    BY <1>1, <1>3
  <2> HIDE DEF p
  <2>2. all[p] = back[i - last - 1] /\ back[i - last - 1] = seq[i]
    BY <1>3, <1>5, <2>1
  <2> QED BY <2>2 DEF p
<1>10. Len(all) = first + Len(others) + Len(seq) - last - 1
  BY <1>1, <1>3, <1>5
<1> QED BY <1>5, <1>6, <1>7, <1>8, <1>9, <1>10 DEF IsReplaced

---------------------------------------------------------------------------
(* The lines after an edit                                                  *)

\* Of an edit: what it leaves, the first and the last line it touches, the
\* offsets between which lines are found anew, and those lines.
Edited(text, start, deleted, inserted) ==
    SubSeq(text, 1, start) \o inserted \o SubSeq(text, start + deleted + 1, Len(text))
Found(cut, s, last) ==
    LET found == line_starts(cut)
    IN  IF last + 1 < Len(s) /\ Last(found) = Len(cut) THEN Front(found) ELSE found

\* One text is the other after an edit.
IsEdited(new, old, start, deleted, inserted) ==
    /\ Len(new) = Len(old) - deleted + Len(inserted)
    /\ \A i \in 1 .. start : new[i] = old[i]
    /\ \A i \in start + deleted + 1 .. Len(old) : new[i - deleted + Len(inserted)] = old[i]
    /\ \A i \in 1 .. Len(inserted) : new[start + i] = inserted[i]

\* An edit makes such a text.
LEMMA EditedIs ==
    ASSUME NEW S, NEW text \in Seq(S), NEW start \in Nat, NEW deleted \in Nat,
           NEW inserted \in Seq(S), start + deleted <= Len(text)
    PROVE  /\ Edited(text, start, deleted, inserted) \in Seq(S)
           /\ IsEdited(Edited(text, start, deleted, inserted), text, start, deleted, inserted)
<1> DEFINE after == Edited(text, start, deleted, inserted)
           last == start + deleted - 1
<1>1. Len(text) \in Nat /\ Len(inserted) \in Nat /\ last + 2 = start + deleted + 1
  OBVIOUS
<1>2. after = Replace(text, start, last, inserted)
  BY <1>1 DEF Edited, Replace
<1>3. last \in start - 1 .. Len(text) - 1
  BY <1>1
<1> HIDE DEF last, after
<1>4. after \in Seq(S) /\ IsReplaced(after, text, start, last, inserted)
  BY <1>2, <1>3, ReplaceIs
<1>5. /\ start + Len(inserted) + Len(text) - last - 1 = Len(text) - deleted + Len(inserted)
      /\ \A i \in start + deleted + 1 .. Len(text) :
            i \in last + 2 .. Len(text)
            /\ i + start + Len(inserted) - last - 1 = i - deleted + Len(inserted)
  BY <1>1 DEF last
<1>6. /\ after \in Seq(S) /\ Len(after) = Len(text) - deleted + Len(inserted)
      /\ \A i \in 1 .. start : after[i] = text[i]
      /\ \A i \in 1 .. Len(inserted) : after[start + i] = inserted[i]
  BY <1>4, <1>5 DEF IsReplaced
<1>7. \A i \in start + deleted + 1 .. Len(text) : after[i - deleted + Len(inserted)] = text[i]
  <2> SUFFICES ASSUME NEW i \in start + deleted + 1 .. Len(text)
               PROVE  after[i - deleted + Len(inserted)] = text[i]
    OBVIOUS
  <2>1. after[i + start + Len(inserted) - last - 1] = text[i]
    BY <1>4, <1>5 DEF IsReplaced
  <2> QED BY <1>5, <2>1
<1> QED BY <1>6, <1>7 DEF after, IsEdited

\* The numbers of an edit: where its first line starts, and where its last
\* line ends before and after it.
Numbers(text, s, start, deleted, first, last) ==
    /\ first \in 0 .. Len(s) - 1 /\ last \in first .. Len(s) - 1
    /\ s[first + 1] \in 0 .. start
    /\ LineEnd(s, text, last) \in start + deleted .. Len(text)
    /\ last + 2 <= Len(s) => /\ LineEnd(s, text, last) = s[last + 2]
                            /\ start + deleted < s[last + 2]
    /\ last + 1 >= Len(s) => LineEnd(s, text, last) = Len(text)

\* Of the edits that are in the text they are such numbers.
LEMMA EditRange ==
    ASSUME NEW text \in Seq(STRING), NEW s, AreStarts(s, text),
           NEW start \in Nat, NEW deleted \in Nat, start + deleted <= Len(text)
    PROVE  Numbers(text, s, start, deleted, LineOf(s, start), LineOf(s, start + deleted))
<1> DEFINE first == LineOf(s, start)
           last == LineOf(s, start + deleted)
<1>1. /\ Len(s) \in Nat \ {0} /\ Len(text) \in Nat
      /\ \A i \in 1 .. Len(s) : s[i] \in 0 .. Len(text)
  BY StartsFit
<1>2. /\ first \in 0 .. Len(s) - 1
      /\ \A i \in 1 .. Len(s) : s[i] <= start <=> i <= first + 1
  BY LineIs
<1>3. /\ last \in 0 .. Len(s) - 1
      /\ \A i \in 1 .. Len(s) : s[i] <= start + deleted <=> i <= last + 1
  <2>1. start + deleted \in Nat
    OBVIOUS
  <2> QED BY <2>1, LineIs
<1>4. s[first + 1] \in 0 .. start
  BY <1>1, <1>2
<1>5. first <= last
  <2>1. first + 1 \in 1 .. Len(s) /\ s[first + 1] <= start + deleted
    BY <1>1, <1>2, <1>4
  <2> QED BY <1>2, <1>3, <2>1
<1>6. last + 2 <= Len(s) => last + 2 \in 1 .. Len(s) /\ start + deleted < s[last + 2]
  <2> SUFFICES ASSUME last + 2 <= Len(s)
               PROVE  last + 2 \in 1 .. Len(s) /\ start + deleted < s[last + 2]
    OBVIOUS
  <2>1. last + 2 \in 1 .. Len(s) /\ ~(last + 2 <= last + 1)
    BY <1>1, <1>3
  <2> QED BY <1>1, <1>3, <2>1
<1> HIDE DEF first, last
<1>7. Numbers(text, s, start, deleted, first, last)
  BY <1>1, <1>2, <1>3, <1>4, <1>5, <1>6 DEF LineEnd, Numbers
<1> QED BY <1>7 DEF first, last

\* The lines found are those of the text between, but for one that follows.
IsNewline(text, o) == o \in 1 .. Len(text) /\ text[o] = "n"

AreFound(lines, cut, follows) ==
    /\ lines \in Seq(Nat) /\ Len(lines) \in Nat \ {0} /\ lines[1] = 0 /\ Increasing(lines)
    /\ \A i \in 1 .. Len(lines) : /\ lines[i] = 0 \/ IsNewline(cut, lines[i])
                                  /\ follows => lines[i] < Len(cut)
    /\ \A b \in 1 .. Len(cut) :
          IsNewline(cut, b) /\ (follows => b < Len(cut)) => \E i \in 1 .. Len(lines) : lines[i] = b

\* The lines of the text between are such lines.
LEMMA FoundIs ==
    ASSUME NEW cut \in Seq(STRING), NEW s, NEW last, last + 1 < Len(s) => IsNewline(cut, Len(cut))
    PROVE  AreFound(Found(cut, s, last), cut, last + 1 < Len(s))
<1> DEFINE found == line_starts(cut)
           lines == Found(cut, s, last)
           n == Len(cut)
<1>1. AreStarts(found, cut)
  BY LineStarts
<1> HIDE DEF found
<1>2. /\ found \in Seq(Nat) /\ Len(found) \in Nat \ {0} /\ found[1] = 0 /\ n \in Nat
      /\ \A i \in 1 .. Len(found) : found[i] \in 0 .. n
      /\ \A i, j \in 1 .. Len(found) : i < j => found[i] < found[j]
  BY <1>1, StartsFit
<1>3. /\ \A i \in 1 .. Len(found) : found[i] = 0 \/ IsNewline(cut, found[i])
      /\ \A b \in 1 .. n : IsNewline(cut, b) => \E i \in 1 .. Len(found) : found[i] = b
  BY <1>1 DEF AreStarts, Begins, IsNewline
<1>4. lines = IF last + 1 < Len(s) /\ Last(found) = n THEN Front(found) ELSE found
  BY DEF Found, found
<1>5. Last(found) = found[Len(found)]
  BY DEF Last
<1>6. CASE last + 1 < Len(s)
  <2>1. n \in 1 .. n /\ IsNewline(cut, n)
    BY <1>2, <1>6 DEF IsNewline
  <2>2. PICK k \in 1 .. Len(found) : found[k] = n
    BY <1>3, <2>1
  <2>3. k = Len(found)
    <3>1. Len(found) \in 1 .. Len(found) /\ ~(k < Len(found))
      BY <1>2, <2>2
    <3> QED BY <1>2, <3>1
  <2>4. Len(found) > 1 /\ lines = SubSeq(found, 1, Len(found) - 1)
    BY <1>2, <1>4, <1>5, <1>6, <2>1, <2>2, <2>3 DEF Front
  <2>5. \A i \in 1 .. Len(found) - 1 : found[i] \in Nat
    BY <1>2
  <2> HIDE DEF lines
  <2>6. lines \in Seq(Nat) /\ Len(lines) = Len(found) - 1
        /\ \A i \in 1 .. Len(found) - 1 : lines[i] = found[i]
    BY <1>2, <2>4, <2>5, SubSeqProperties
  <2>7. lines[1] = 0 /\ Increasing(lines)
    <3>1. 1 \in 1 .. Len(found) - 1
      BY <1>2, <2>4
    <3>2. \A i, j \in 1 .. Len(lines) :
             i \in 1 .. Len(found) /\ j \in 1 .. Len(found) /\ lines[i] = found[i] /\ lines[j] = found[j]
      BY <1>2, <2>6, SMTT(30)
    <3>3. Increasing(lines)
      BY <1>2, <3>2 DEF Increasing
    <3> QED BY <1>2, <2>6, <3>1, <3>3
  <2>8. \A i \in 1 .. Len(lines) : (lines[i] = 0 \/ IsNewline(cut, lines[i])) /\ lines[i] < n
    <3> SUFFICES ASSUME NEW i \in 1 .. Len(lines)
                 PROVE  (lines[i] = 0 \/ IsNewline(cut, lines[i])) /\ lines[i] < n
      OBVIOUS
    <3>1. i \in 1 .. Len(found) /\ Len(found) \in 1 .. Len(found) /\ i < Len(found) /\ lines[i] = found[i]
      BY <1>2, <2>6, SMTT(30)
    <3>2. found[i] < found[Len(found)]
      BY <1>2, <3>1
    <3> QED BY <1>3, <2>2, <2>3, <3>1, <3>2
  <2>9. ASSUME NEW b \in 1 .. n, IsNewline(cut, b), b < n
        PROVE  \E i \in 1 .. Len(lines) : lines[i] = b
    <3>1. PICK i \in 1 .. Len(found) : found[i] = b
      BY <1>3, <2>9
    <3>2. i # Len(found)
      BY <2>2, <2>3, <2>9, <3>1
    <3>3. i \in 1 .. Len(lines) /\ lines[i] = b
      BY <1>2, <2>6, <3>1, <3>2
    <3> QED BY <3>3
  <2>10. Len(lines) \in Nat \ {0}
    BY <1>2, <2>4, <2>6
  <2> QED BY <1>6, <2>6, <2>7, <2>8, <2>9, <2>10 DEF lines, AreFound
<1>7. CASE ~(last + 1 < Len(s))
  <2>1. lines = found /\ Increasing(found)
    BY <1>2, <1>4, <1>7 DEF Increasing
  <2> HIDE DEF lines
  <2> QED BY <1>2, <1>3, <1>7, <2>1 DEF lines, AreFound
<1> QED BY <1>6, <1>7

\* The starts of the lines after an edit are those before it, those found anew
\* and those behind, moved.
Moved(s, last, deleted, inserted) ==
    [i \in DOMAIN s |-> IF i > last + 1 THEN s[i] - deleted + Len(inserted) ELSE s[i]]

From(s, start) == s[LineOf(s, start) + 1]
Upto(text, s, start, deleted, inserted) ==
    LineEnd(s, text, LineOf(s, start + deleted)) - deleted + Len(inserted)
NewLines(text, s, start, deleted, inserted) ==
    Found(SubSeq(Edited(text, start, deleted, inserted),
                 From(s, start) + 1, Upto(text, s, start, deleted, inserted)),
          s, LineOf(s, start + deleted))
NewStarts(s, deleted, inserted, first, last, from, lines) ==
    Replace(Moved(s, last, deleted, inserted), first, last,
            [i \in DOMAIN lines |-> lines[i] + from])

\* The starts before the edited lines stay, and those behind are moved.
Spliced(new, s, first, last, size, deleted, more) ==
    /\ Len(new) = first + size + Len(s) - last - 1
    /\ \A i \in 1 .. first + 1 : new[i] = s[i]
    /\ \A i \in last + 2 .. Len(s) : new[i + first + size - last - 1] = s[i] - deleted + more

\* The lines found by an edit, and the starts it leaves, are those of the text.
StartsEdited(text, s, start, deleted, inserted) ==
    LET lines == NewLines(text, s, start, deleted, inserted)
        first == LineOf(s, start)
        last == LineOf(s, start + deleted)
    IN  /\ lines \in Seq(Nat) /\ Len(lines) \in Nat \ {0}
        /\ Len(SubSeq(Edited(text, start, deleted, inserted), From(s, start) + 1,
                      Upto(text, s, start, deleted, inserted)))
             = Upto(text, s, start, deleted, inserted) - From(s, start)
        /\ AreStarts(NewStarts(s, deleted, inserted, first, last, From(s, start), lines),
                     Edited(text, start, deleted, inserted))
        /\ Spliced(NewStarts(s, deleted, inserted, first, last, From(s, start), lines),
                   s, first, last, Len(lines), deleted, Len(inserted))

\* They are, for every edit that is in the text.
LEMMA EditedStarts ==
    ASSUME NEW text \in Seq(STRING), NEW s, AreStarts(s, text),
           NEW start \in Nat, NEW deleted \in Nat, NEW inserted \in Seq(STRING),
           start + deleted <= Len(text)
    PROVE  StartsEdited(text, s, start, deleted, inserted)
<1> DEFINE more == Len(inserted)
           first == LineOf(s, start)
           last == LineOf(s, start + deleted)
           from == From(s, start)
           end == LineEnd(s, text, last)
           upto == end - deleted + more
           after == Edited(text, start, deleted, inserted)
           cut == SubSeq(after, from + 1, upto)
           lines == Found(cut, s, last)
           moved == Moved(s, last, deleted, inserted)
           shifted == [i \in DOMAIN lines |-> lines[i] + from]
           all == Replace(moved, first, last, shifted)
           final == ~(last + 2 <= Len(s))
<1>1. /\ Len(s) \in Nat \ {0} /\ Len(text) \in Nat /\ more \in Nat /\ s \in Seq(Nat) /\ s[1] = 0
      /\ DOMAIN s = 1 .. Len(s)
  BY StartsFit
<1>2. \A i \in 1 .. Len(s) : s[i] \in 0 .. Len(text)
  BY StartsFit
<1>3. \A i, j \in 1 .. Len(s) : (i < j => s[i] < s[j]) /\ (i <= j => s[i] <= s[j])
  BY StartsFit
<1>4. /\ first \in 0 .. Len(s) - 1 /\ last \in first .. Len(s) - 1
      /\ from \in 0 .. start /\ from = s[first + 1]
      /\ end \in start + deleted .. Len(text)
      /\ last + 2 <= Len(s) => end = s[last + 2] /\ start + deleted < s[last + 2]
      /\ last + 1 >= Len(s) => end = Len(text)
  BY EditRange DEF Numbers, From
<1>5. after \in Seq(STRING) /\ IsEdited(after, text, start, deleted, inserted)
  BY EditedIs
<1> HIDE DEF more, first, last, from, end, after
<1>6. Len(after) = Len(text) - deleted + more /\ Len(after) \in Nat
  BY <1>5 DEF IsEdited, more
<1>7. /\ \A i \in 1 .. start : after[i] = text[i]
      /\ \A i \in start + deleted + 1 .. Len(text) : after[i - deleted + more] = text[i]
  BY <1>5 DEF IsEdited, more
<1>8. /\ upto \in start + more .. Len(after) /\ from <= upto /\ upto \in Nat
      /\ final \in BOOLEAN
      /\ final => upto = Len(after)
  <2>1. /\ end \in Nat /\ more \in Nat /\ from \in Nat /\ Len(text) \in Nat /\ Len(after) \in Nat
        /\ from <= start /\ start + deleted <= end /\ end <= Len(text)
        /\ Len(after) = Len(text) - deleted + more
    BY <1>1, <1>4, <1>6
  <2>2. final => end = Len(text)
    BY <1>1, <1>4
  <2> HIDE DEF final
  <2>3. upto \in start + more .. Len(after) /\ from <= upto /\ upto \in Nat
    BY <2>1
  <2>4. final => upto = Len(after)
    BY <2>1, <2>2
  <2> QED BY <2>3, <2>4 DEF final
<1>9. ~final => /\ upto = s[last + 2] - deleted + more /\ upto > start + more
                /\ last + 2 \in 1 .. Len(s) /\ s[last + 2] \in start + deleted + 1 .. Len(text)
  BY <1>1, <1>2, <1>4, <1>6, SMTT(30)
<1>10. final <=> ~(last + 1 < Len(s))
  BY <1>1, <1>4
<1> HIDE DEF upto, final
<1>11. cut \in Seq(STRING) /\ Len(cut) = upto - from /\ \A i \in 1 .. upto - from : cut[i] = after[from + i]
  <2>1. \A i \in from + 1 .. upto : after[i] \in STRING
    <3> SUFFICES ASSUME NEW i \in from + 1 .. upto PROVE after[i] \in STRING
      OBVIOUS
    <3>1. i \in 1 .. Len(after)
      BY <1>4, <1>8
    <3> QED BY <1>5, <3>1
  <2>2. from + 1 \in Int /\ upto \in Int
    BY <1>4, <1>8
  <2>3. cut \in Seq(STRING) /\ Len(cut) = IF from + 1 <= upto THEN upto - (from + 1) + 1 ELSE 0
    BY <2>1, <2>2, SubSeqProperties
  <2>4. \A i \in 1 .. upto - (from + 1) + 1 : cut[i] = after[from + 1 + i - 1]
    BY <2>1, <2>2, SubSeqProperties
  <2> HIDE DEF cut
  <2>5. upto - (from + 1) + 1 = upto - from
    BY <1>4, <1>8
  <2>6. \A i \in 1 .. upto - from : cut[i] = after[from + i]
    <3> SUFFICES ASSUME NEW i \in 1 .. upto - from PROVE cut[i] = after[from + i]
      OBVIOUS
    <3>1. from + 1 + i - 1 = from + i
      BY <1>4, <1>8
    <3> QED BY <2>4, <2>5, <3>1
  <2>7. Len(cut) = upto - from
    BY <1>4, <1>8, <2>3, SMTT(30)
  <2> QED BY <2>3, <2>6, <2>7
<1> HIDE DEF cut, lines
\* Newlines before, within and behind the edited lines.
<1>12. \A o \in 0 .. start : IsNewline(after, o) <=> IsNewline(text, o)
  <2> SUFFICES ASSUME NEW o \in 1 .. start PROVE IsNewline(after, o) <=> IsNewline(text, o)
    BY DEF IsNewline
  <2>1. o \in 1 .. Len(after) /\ o \in 1 .. Len(text)
    BY <1>1, <1>4, <1>6
  <2> QED BY <1>7, <2>1 DEF IsNewline
<1>13. \A o \in start + deleted + 1 .. Len(text) :
          IsNewline(after, o - deleted + more) <=> IsNewline(text, o)
  <2> SUFFICES ASSUME NEW o \in start + deleted + 1 .. Len(text)
               PROVE  IsNewline(after, o - deleted + more) <=> IsNewline(text, o)
    OBVIOUS
  <2>1. o \in 1 .. Len(text) /\ o - deleted + more \in 1 .. Len(after)
    BY <1>1, <1>6
  <2> QED BY <1>7, <2>1 DEF IsNewline
<1>14. \A o \in 1 .. upto - from : IsNewline(after, from + o) <=> IsNewline(cut, o)
  <2> SUFFICES ASSUME NEW o \in 1 .. upto - from PROVE IsNewline(after, from + o) <=> IsNewline(cut, o)
    OBVIOUS
  <2>1. from + o \in 1 .. Len(after) /\ o \in 1 .. Len(cut)
    <3>1. from \in Nat /\ upto \in Nat /\ upto <= Len(after) /\ Len(cut) = upto - from /\ Len(after) \in Nat
      BY <1>4, <1>6, <1>8, <1>11
    <3> QED BY <3>1
  <2> QED BY <1>11, <2>1 DEF IsNewline
<1>15. \A i \in 1 .. Len(s) : s[i] = 0 \/ IsNewline(text, s[i])
  BY DEF AreStarts, Begins, IsNewline
<1>16. \A o \in Nat : IsNewline(text, o) => \E i \in 1 .. Len(s) : s[i] = o
  BY DEF AreStarts, Begins, IsNewline
<1>17. ~final => IsNewline(cut, Len(cut))
  <2> SUFFICES ASSUME ~final PROVE IsNewline(cut, Len(cut))
    OBVIOUS
  <2>1. IsNewline(text, s[last + 2])
    BY <1>9, <1>15, SMTT(30)
  <2>2. IsNewline(after, upto)
    BY <1>9, <1>13, <2>1
  <2>3. upto - from \in 1 .. upto - from /\ from + (upto - from) = upto
    <3>1. /\ from \in Nat /\ upto \in Nat /\ from <= start /\ more \in Nat /\ upto > start + more
      BY <1>1, <1>4, <1>8, <1>9
    <3> QED BY <3>1
  <2> QED BY <1>11, <1>14, <2>2, <2>3
<1>18. lines = Found(cut, s, last) /\ (last + 1 < Len(s) => IsNewline(cut, Len(cut)))
  BY <1>10, <1>17 DEF lines
<1>19. /\ lines \in Seq(Nat) /\ Len(lines) \in Nat \ {0} /\ lines[1] = 0 /\ Increasing(lines)
       /\ \A i \in 1 .. Len(lines) : /\ lines[i] = 0 \/ IsNewline(cut, lines[i])
                                     /\ ~final => lines[i] < Len(cut)
       /\ \A b \in 1 .. Len(cut) :
             IsNewline(cut, b) /\ (~final => b < Len(cut)) => \E i \in 1 .. Len(lines) : lines[i] = b
  <2> DEFINE follows == last + 1 < Len(s)
  <2>1. AreFound(lines, cut, follows)
    BY <1>11, <1>18, FoundIs
  <2>2. follows <=> ~final
    BY <1>10
  <2> HIDE DEF follows
  <2> QED BY <2>1, <2>2 DEF AreFound
<1>20. /\ moved \in Seq(Nat) /\ Len(moved) = Len(s)
       /\ \A i \in 1 .. last + 1 : moved[i] = s[i]
       /\ \A i \in last + 2 .. Len(s) : moved[i] = s[i] - deleted + more
  <2>1. \A i \in 1 .. Len(s) : i > last + 1 => s[i] - deleted + more \in Nat
    <3> SUFFICES ASSUME NEW i \in 1 .. Len(s), i > last + 1 PROVE s[i] - deleted + more \in Nat
      OBVIOUS
    <3>1. last + 2 \in 1 .. Len(s) /\ last + 2 <= i /\ last + 2 <= Len(s)
      BY <1>1, <1>4
    <3>2. s[last + 2] <= s[i] /\ s[i] \in 0 .. Len(text) /\ s[last + 2] \in 0 .. Len(text)
      BY <1>2, <1>3, <3>1
    <3>3. s[last + 2] \in Nat /\ s[i] \in Nat /\ more \in Nat /\ start + deleted < s[last + 2]
      BY <1>1, <1>4, <3>1, <3>2
    <3> QED BY <3>2, <3>3
  <2>2. moved = [i \in 1 .. Len(s) |-> IF i > last + 1 THEN s[i] - deleted + more ELSE s[i]]
    BY <1>1 DEF Moved, more
  <2>3. \A i \in 1 .. Len(s) : s[i] \in Nat
    BY <1>2
  <2> HIDE DEF moved
  <2>4. \A i \in 1 .. Len(s) : (IF i > last + 1 THEN s[i] - deleted + more ELSE s[i]) \in Nat
    BY <2>1, <2>3
  <2>5. moved \in Seq(Nat) /\ Len(moved) = Len(s)
    BY <1>1, <2>2, <2>4
  <2>6. \A i \in 1 .. last + 1 : i \in 1 .. Len(s) /\ ~(i > last + 1)
    BY <1>1, <1>4
  <2>7. \A i \in last + 2 .. Len(s) : i \in 1 .. Len(s) /\ i > last + 1
    BY <1>1, <1>4
  <2> QED BY <2>2, <2>5, <2>6, <2>7
<1>21. shifted \in Seq(Nat) /\ Len(shifted) = Len(lines)
       /\ \A i \in 1 .. Len(lines) : shifted[i] = lines[i] + from
  <2>1. from \in Nat
    BY <1>4
  <2>2. lines \in Seq(Nat) /\ Len(lines) \in Nat /\ DOMAIN lines = 1 .. Len(lines)
    BY <1>19
  <2>3. \A i \in 1 .. Len(lines) : lines[i] + from \in Nat
    BY <2>1, <2>2
  <2> QED BY <2>2, <2>3
<1> HIDE DEF moved, shifted
<1> DEFINE size == Len(lines)
           behind(i) == i + first + size - last - 1
<1>22. all \in Seq(Nat) /\ IsReplaced(all, moved, first, last, shifted)
  <2>1. first \in Nat /\ last \in first - 1 .. Len(moved) - 1
    BY <1>1, <1>4, <1>20
  <2> QED BY <1>20, <1>21, <2>1, ReplaceIs
<1> HIDE DEF all
<1>23. /\ Len(all) = first + size + Len(s) - last - 1
       /\ \A i \in 1 .. size : all[first + i] = lines[i] + from
       /\ \A i \in last + 2 .. Len(s) : all[behind(i)] = s[i] - deleted + more
  BY <1>20, <1>21, <1>22 DEF IsReplaced
<1>24. \A i \in 1 .. first : all[i] = s[i]
  <2>1. \A i \in 1 .. first : i \in 1 .. last + 1
    BY <1>1, <1>4
  <2> QED BY <1>20, <1>22, <2>1 DEF IsReplaced
<1>25. \A i \in 1 .. Len(all) : \/ i \in 1 .. first
                                \/ \E j \in 1 .. size : i = first + j
                                \/ \E j \in last + 2 .. Len(s) : i = behind(j)
  <2> SUFFICES ASSUME NEW i \in 1 .. Len(all)
               PROVE  \/ i \in 1 .. first
                      \/ \E j \in 1 .. size : i = first + j
                      \/ \E j \in last + 2 .. Len(s) : i = behind(j)
    OBVIOUS
  <2> HIDE DEF behind
  <2> SUFFICES ASSUME ~(i \in 1 .. first), ~(\E j \in 1 .. size : i = first + j)
               PROVE  \E j \in last + 2 .. Len(s) : i = behind(j)
    BY Zenon
  <2> USE DEF behind
  <2>1. size \in Nat /\ first \in Nat /\ last \in Nat /\ Len(s) \in Nat /\ i \in Nat
        /\ i <= first + size + Len(s) - last - 1
    BY <1>1, <1>4, <1>19, <1>23
  <2>2. ~(i - first <= size)
    <3>1. i = first + (i - first)
      BY <2>1
    <3>2. i - first \in 1 .. size => FALSE
      BY <3>1
    <3> QED BY <2>1, <3>2
  <2> DEFINE j == i - first - size + last + 1
  <2>3. j \in last + 2 .. Len(s) /\ i = behind(j)
    BY <2>1, <2>2
  <2> QED BY <2>3
<1>26. /\ \A i \in 1 .. first : i \in 1 .. Len(all)
       /\ \A i \in 1 .. size : first + i \in 1 .. Len(all)
       /\ \A i \in last + 2 .. Len(s) : behind(i) \in 1 .. Len(all)
  <2>1. size \in Nat /\ first \in Nat /\ last \in Nat /\ Len(s) \in Nat /\ last + 1 <= Len(s)
        /\ Len(all) = first + size + Len(s) - last - 1
    BY <1>1, <1>4, <1>19, <1>23
  <2> QED BY <2>1
\* Each start is before from, between from and upto, or behind.
<1>27. \A i \in 1 .. first : s[i] \in Nat /\ s[i] < from
  <2> SUFFICES ASSUME NEW i \in 1 .. first PROVE s[i] \in Nat /\ s[i] < from
    OBVIOUS
  <2>1. i \in 1 .. Len(s) /\ first + 1 \in 1 .. Len(s) /\ i < first + 1
    BY <1>1, <1>4
  <2> QED BY <1>2, <1>3, <1>4, <2>1
<1>28. \A i \in 1 .. size : /\ lines[i] \in Nat /\ lines[i] <= upto - from
                            /\ ~final => lines[i] < upto - from
                            /\ lines[i] = 0 \/ IsNewline(after, from + lines[i])
  <2> SUFFICES ASSUME NEW i \in 1 .. size
               PROVE  /\ lines[i] \in Nat /\ lines[i] <= upto - from
                      /\ ~final => lines[i] < upto - from
                      /\ lines[i] = 0 \/ IsNewline(after, from + lines[i])
    OBVIOUS
  <2>1. lines[i] \in Nat /\ (lines[i] = 0 \/ IsNewline(cut, lines[i])) /\ (~final => lines[i] < Len(cut))
    <3>1. lines[i] \in Nat
      BY <1>19
    <3>2. \A k \in 1 .. Len(lines) : (lines[k] = 0 \/ IsNewline(cut, lines[k])) /\ (~final => lines[k] < Len(cut))
      BY <1>19, Zenon
    <3> HIDE DEF size
    <3>3. i \in 1 .. Len(lines)
      BY DEF size
    <3> QED BY <3>1, <3>2, <3>3, Zenon
  <2>2. IsNewline(cut, lines[i]) => lines[i] \in 1 .. upto - from
    BY <1>11 DEF IsNewline
  <2>3. from \in Nat /\ upto \in Nat /\ from <= upto /\ Len(cut) = upto - from
    BY <1>4, <1>8, <1>11
  <2> QED BY <1>14, <2>1, <2>2, <2>3
<1>29. \A i \in last + 2 .. Len(s) :
          /\ ~final /\ s[i] \in start + deleted + 1 .. Len(text)
          /\ s[i] - deleted + more \in Nat /\ s[i] - deleted + more >= upto
  <2> SUFFICES ASSUME NEW i \in last + 2 .. Len(s)
               PROVE  /\ ~final /\ s[i] \in start + deleted + 1 .. Len(text)
                      /\ s[i] - deleted + more \in Nat /\ s[i] - deleted + more >= upto
    OBVIOUS
  <2>1. ~final /\ i \in 1 .. Len(s) /\ last + 2 <= i
    BY <1>1, <1>4 DEF final
  <2>2. last + 2 \in 1 .. Len(s) /\ s[last + 2] \in start + deleted + 1 .. Len(text)
        /\ upto = s[last + 2] - deleted + more
    BY <1>9, <2>1
  <2>3. s[last + 2] <= s[i] /\ s[i] \in 0 .. Len(text)
    BY <1>2, <1>3, <2>1, <2>2
  <2>4. start \in Nat /\ deleted \in Nat /\ more \in Nat /\ Len(text) \in Nat
        /\ s[i] \in Nat /\ s[last + 2] \in Nat /\ s[i] <= Len(text)
        /\ s[last + 2] >= start + deleted + 1
    BY <1>1, <2>2, <2>3
  <2>5. s[i] \in start + deleted + 1 .. Len(text)
        /\ s[i] - deleted + more \in Nat /\ s[i] - deleted + more >= s[last + 2] - deleted + more
    BY <2>3, <2>4, SMTT(30)
  <2> QED BY <2>1, <2>2, <2>5
<1>30. all[first + 1] = from /\ first + 1 \in 1 .. Len(all)
  <2>1. 1 \in 1 .. size
    BY <1>19
  <2> QED BY <1>4, <1>19, <1>23, <1>26, <2>1
<1> HIDE DEF behind
<1>31. \A i \in 1 .. Len(all) :
          \/ i \in 1 .. first /\ all[i] = s[i] /\ all[i] < from /\ all[i] \in Nat
          \/ \E j \in 1 .. size : /\ i = first + j /\ all[i] = from + lines[j] /\ all[i] \in Nat
                                  /\ from <= all[i] /\ all[i] <= upto /\ (~final => all[i] < upto)
          \/ \E j \in last + 2 .. Len(s) : /\ i = behind(j) /\ all[i] = s[j] - deleted + more
                                           /\ ~final /\ all[i] >= upto /\ all[i] \in Nat
  <2> SUFFICES ASSUME NEW i \in 1 .. Len(all)
               PROVE
          \/ i \in 1 .. first /\ all[i] = s[i] /\ all[i] < from /\ all[i] \in Nat
          \/ \E j \in 1 .. size : /\ i = first + j /\ all[i] = from + lines[j] /\ all[i] \in Nat
                                  /\ from <= all[i] /\ all[i] <= upto /\ (~final => all[i] < upto)
          \/ \E j \in last + 2 .. Len(s) : /\ i = behind(j) /\ all[i] = s[j] - deleted + more
                                           /\ ~final /\ all[i] >= upto /\ all[i] \in Nat
    OBVIOUS
  <2>1. CASE i \in 1 .. first
    <3>1. all[i] = s[i] /\ s[i] \in Nat /\ s[i] < from
      BY <1>24, <1>27, <2>1
    <3> QED BY <2>1, <3>1
  <2>2. CASE \E j \in 1 .. size : i = first + j
    <3>1. PICK j \in 1 .. size : i = first + j
      BY <2>2
    <3>2. all[i] = lines[j] + from
      BY <1>23, <3>1
    <3>3. lines[j] \in Nat /\ lines[j] <= upto - from /\ (~final => lines[j] < upto - from)
      BY <1>28
    <3>4. from \in Nat /\ upto \in Nat
      BY <1>4, <1>8
    <3>5. all[i] = from + lines[j] /\ all[i] \in Nat /\ from <= all[i] /\ all[i] <= upto
          /\ (~final => all[i] < upto)
      BY <3>2, <3>3, <3>4
    <3> QED BY <3>1, <3>5
  <2>3. CASE \E j \in last + 2 .. Len(s) : i = behind(j)
    <3>1. PICK j \in last + 2 .. Len(s) : i = behind(j)
      BY <2>3
    <3>2. all[i] = s[j] - deleted + more
      BY <1>23, <3>1
    <3>3. ~final /\ s[j] - deleted + more \in Nat /\ s[j] - deleted + more >= upto
      BY <1>29
    <3> QED BY <3>1, <3>2, <3>3
  <2> QED BY <1>25, <2>1, <2>2, <2>3
<1>32. Increasing(all)
  <2> SUFFICES ASSUME NEW i \in 1 .. Len(all), NEW k \in 1 .. Len(all), i < k
               PROVE  all[i] < all[k]
    BY DEF Increasing
  <2>1. /\ size \in Nat /\ first \in Nat /\ last \in Nat /\ Len(s) \in Nat /\ upto \in Nat /\ from \in Nat
        /\ from <= upto /\ i \in Nat /\ k \in Nat /\ ~(k < i) /\ i # k
    BY <1>1, <1>4, <1>8, <1>19, <1>23
  <2>2. \A j \in last + 2 .. Len(s) : behind(j) = j + first + size - last - 1 /\ j \in Nat /\ behind(j) > first + size
    BY <2>1 DEF behind
  <2>3. CASE i \in 1 .. first /\ k \in 1 .. first
    <3>1. all[i] = s[i] /\ all[k] = s[k] /\ i \in 1 .. Len(s) /\ k \in 1 .. Len(s)
      BY <1>1, <1>4, <1>24, <2>3
    <3> QED BY <1>3, <3>1
  <2>4. CASE i \in 1 .. first /\ ~(k \in 1 .. first)
    <3>1. all[i] < from /\ all[i] \in Nat
      BY <1>24, <1>27, <2>4
    <3>2. from <= all[k] /\ all[k] \in Nat
      BY <1>31, <2>1, <2>4
    <3> QED BY <2>1, <3>1, <3>2
  <2>5. CASE (\E j \in 1 .. size : i = first + j) /\ (\E j \in 1 .. size : k = first + j)
    <3>1. PICK j \in 1 .. size : i = first + j
      BY <2>5
    <3>2. PICK l \in 1 .. size : k = first + l
      BY <2>5
    <3>3. j < l /\ all[i] = lines[j] + from /\ all[k] = lines[l] + from
      BY <1>23, <2>1, <3>1, <3>2
    <3>4. lines[j] < lines[l] /\ lines[j] \in Nat /\ lines[l] \in Nat
      BY <1>19, <1>28, <3>3 DEF Increasing
    <3> QED BY <2>1, <3>3, <3>4
  <2>6. CASE (\E j \in 1 .. size : i = first + j) /\ (\E j \in last + 2 .. Len(s) : k = behind(j))
    <3>1. PICK j \in 1 .. size : i = first + j
      BY <2>6
    <3>2. PICK l \in last + 2 .. Len(s) : k = behind(l)
      BY <2>6
    <3>3. ~final /\ all[k] = s[l] - deleted + more /\ s[l] - deleted + more \in Nat /\ s[l] - deleted + more >= upto
      BY <1>23, <1>29, <3>2
    <3>4. all[i] = lines[j] + from /\ lines[j] \in Nat /\ lines[j] < upto - from
      BY <1>23, <1>28, <3>1, <3>3
    <3>5. all[k] \in Nat /\ all[k] >= upto
      BY <3>3
    <3> QED BY <2>1, <3>4, <3>5, SMTT(30)
  <2>7. CASE (\E j \in last + 2 .. Len(s) : i = behind(j)) /\ (\E j \in last + 2 .. Len(s) : k = behind(j))
    <3>1. PICK j \in last + 2 .. Len(s) : i = behind(j)
      BY <2>7
    <3>2. PICK l \in last + 2 .. Len(s) : k = behind(l)
      BY <2>7
    <3>3. j < l /\ j \in 1 .. Len(s) /\ l \in 1 .. Len(s)
      BY <2>1, <2>2, <3>1, <3>2
    <3>4. s[j] < s[l] /\ s[j] \in Nat /\ s[l] \in Nat
      BY <1>2, <1>3, <3>3
    <3>5. all[i] = s[j] - deleted + more /\ all[k] = s[l] - deleted + more
      BY <1>23, <3>1, <3>2
    <3>6. s[j] - deleted + more < s[l] - deleted + more
      <4>1. more \in Nat
        BY <1>1
      <4> QED BY <3>4, <4>1, SMTT(30)
    <3> QED BY <3>5, <3>6
  <2>8. ~ ((\E j \in 1 .. size : i = first + j) /\ k \in 1 .. first)
    BY <2>1
  <2>9. ~ ((\E j \in last + 2 .. Len(s) : i = behind(j)) /\ k \in 1 .. first)
    BY <2>1, <2>2
  <2>10. ~ ((\E j \in last + 2 .. Len(s) : i = behind(j)) /\ (\E j \in 1 .. size : k = first + j))
    BY <2>1, <2>2
  <2> QED BY <1>25, <2>3, <2>4, <2>5, <2>6, <2>7, <2>8, <2>9, <2>10
\* Every start is the beginning or a newline, and each of these is a start.
<1>33. \A i \in 1 .. Len(all) : all[i] = 0 \/ IsNewline(after, all[i])
  <2> SUFFICES ASSUME NEW i \in 1 .. Len(all) PROVE all[i] = 0 \/ IsNewline(after, all[i])
    OBVIOUS
  <2>0. from = 0 \/ IsNewline(after, from)
    <3>1. from = 0 \/ IsNewline(text, from)
      BY <1>1, <1>4, <1>15
    <3> QED BY <1>4, <1>12, <3>1
  <2>1. CASE i \in 1 .. first
    <3>1. all[i] = s[i] /\ s[i] \in 0 .. start /\ i \in 1 .. Len(s)
      BY <1>1, <1>4, <1>24, <1>27, <2>1
    <3> QED BY <1>12, <1>15, <3>1
  <2>2. CASE \E j \in 1 .. size : i = first + j
    <3>1. PICK j \in 1 .. size : i = first + j
      BY <2>2
    <3>2. all[i] = lines[j] + from /\ lines[j] \in Nat /\ (lines[j] = 0 \/ IsNewline(after, from + lines[j]))
      BY <1>23, <1>28, <3>1
    <3>3. lines[j] + from = from + lines[j] /\ (lines[j] = 0 => lines[j] + from = from)
      BY <1>4, <3>2
    <3> QED BY <2>0, <3>2, <3>3
  <2>3. CASE \E j \in last + 2 .. Len(s) : i = behind(j)
    <3>1. PICK j \in last + 2 .. Len(s) : i = behind(j)
      BY <2>3
    <3>2. all[i] = s[j] - deleted + more /\ s[j] \in start + deleted + 1 .. Len(text) /\ j \in 1 .. Len(s)
      <4>1. j \in 1 .. Len(s)
        BY <1>1, <1>4
      <4> QED BY <1>23, <1>29, <3>1, <4>1
    <3>3. IsNewline(text, s[j])
      <4>1. s[j] # 0
        BY <3>2
      <4> QED BY <1>15, <3>2, <4>1
    <3> QED BY <1>13, <3>2, <3>3
  <2> QED BY <1>25, <2>1, <2>2, <2>3
<1>34. ASSUME NEW b \in Nat, b = 0 \/ IsNewline(after, b) PROVE \E i \in 1 .. Len(all) : all[i] = b
  <2>1. /\ from \in Nat /\ upto \in Nat /\ start \in Nat /\ more \in Nat /\ from <= start
        /\ start + more <= upto /\ upto <= Len(after) /\ Len(after) = Len(text) - deleted + more
        /\ Len(text) \in Nat /\ Len(cut) = upto - from
    BY <1>1, <1>4, <1>6, <1>8, <1>11
  <2>2. IsNewline(after, b) => b \in 1 .. Len(after)
    BY DEF IsNewline
  <2>3. CASE b < from
    <3>1. b = 0 \/ IsNewline(text, b)
      <4>1. b \in 0 .. start
        BY <2>1, <2>3
      <4> QED BY <1>12, <1>34, <4>1
    <3>2. PICK i \in 1 .. Len(s) : s[i] = b
      <4>1. 1 \in 1 .. Len(s)
        BY <1>1
      <4> QED BY <1>1, <1>16, <3>1, <4>1
    <3>3. i <= first
      <4>1. first + 1 <= i => s[first + 1] <= s[i]
        BY <1>1, <1>3, <1>4
      <4> QED BY <1>1, <1>4, <2>1, <2>3, <3>2, <4>1
    <3>4. i \in 1 .. first
      BY <3>2, <3>3
    <3> QED BY <1>24, <1>26, <3>2, <3>4
  <2>4. CASE b = from
    BY <1>30, <2>4
  <2>5. CASE from < b /\ b <= upto /\ (~final => b < upto)
    <3>1. b - from \in 1 .. upto - from /\ from + (b - from) = b /\ (~final => b - from < Len(cut))
      BY <2>1, <2>5
    <3>2. IsNewline(after, b)
      BY <1>34, <2>1, <2>5
    <3>3. IsNewline(cut, b - from)
      BY <1>14, <3>1, <3>2
    <3>4. PICK i \in 1 .. size : lines[i] = b - from
      BY <1>11, <1>19, <3>1, <3>3
    <3>5. all[first + i] = b /\ first + i \in 1 .. Len(all)
      BY <1>23, <1>26, <2>1, <3>4
    <3> QED BY <3>5
  <2>6. CASE b >= upto /\ ~final
    <3> DEFINE o == b + deleted - more
    <3>1. IsNewline(after, b) /\ b \in 1 .. Len(after) /\ b > start + more
      <4>1. b > start + more /\ upto > start + more
        BY <1>9, <2>1, <2>6
      <4> QED BY <1>34, <2>1, <2>2, <4>1
    <3>2. o \in start + deleted + 1 .. Len(text) /\ o - deleted + more = b
      BY <2>1, <3>1
    <3> HIDE DEF o
    <3>3. IsNewline(text, o) /\ o \in Nat
      BY <1>13, <3>1, <3>2
    <3>4. PICK j \in 1 .. Len(s) : s[j] = o
      BY <1>16, <3>3
    <3>5. j >= last + 2
      <4>1. last + 2 \in 1 .. Len(s) /\ upto = s[last + 2] - deleted + more /\ s[last + 2] \in Nat
        BY <1>9, <2>6
      <4>2. j < last + 2 => s[j] < s[last + 2]
        BY <1>3, <4>1
      <4>3. s[j] >= s[last + 2]
        <5>1. more \in Nat /\ s[j] \in Nat /\ s[last + 2] \in Nat /\ b >= upto
          BY <2>1, <2>6, <3>3, <3>4, <4>1
        <5>2. s[j] - deleted + more = b /\ upto = s[last + 2] - deleted + more
          BY <3>2, <3>4, <4>1
        <5>3. s[j] - deleted + more >= s[last + 2] - deleted + more
          BY <5>1, <5>2
        <5> QED BY <5>1, <5>3
      <4> QED BY <1>4, <3>3, <3>4, <4>1, <4>2, <4>3
    <3>6. j \in last + 2 .. Len(s)
      BY <1>1, <1>4, <3>5
    <3>7. all[behind(j)] = b /\ behind(j) \in 1 .. Len(all)
      BY <1>23, <1>26, <3>2, <3>4, <3>6
    <3> QED BY <3>7
  <2>7. b <= upto \/ ~final
    BY <1>8, <1>34, <2>1, <2>2
  <2> QED BY <2>1, <2>3, <2>4, <2>5, <2>6, <2>7
<1>35. AreStarts(all, after)
  <2>1. \A b \in Nat : b \in Begins(after) <=> b = 0 \/ IsNewline(after, b)
    BY DEF Begins, IsNewline
  <2>2. \A b \in Begins(after) : b \in Nat
    BY DEF Begins
  <2>3. \A i \in 1 .. Len(all) : all[i] \in Nat
    BY <1>22
  <2> QED BY <1>22, <1>32, <1>33, <1>34, <2>1, <2>2, <2>3 DEF AreStarts
<1>36. /\ lines = NewLines(text, s, start, deleted, inserted)
       /\ all = NewStarts(s, deleted, inserted, first, last, from, lines)
  <2>1. lines = NewLines(text, s, start, deleted, inserted)
    BY DEF NewLines, Upto, lines, cut, upto, from, end, after, last, more
  <2>2. all = NewStarts(s, deleted, inserted, first, last, from, lines)
    BY DEF NewStarts, all, shifted, moved
  <2> QED BY <2>1, <2>2
<1>37. Spliced(all, s, first, last, size, deleted, more)
  <2>1. \A i \in 1 .. first + 1 : i \in 1 .. first \/ i = first + 1
    BY <1>4
  <2>2. \A i \in 1 .. first + 1 : all[i] = s[i]
    BY <1>4, <1>24, <1>30, <2>1
  <2> QED BY <1>23, <2>2 DEF Spliced, behind
<1>38. Upto(text, s, start, deleted, inserted) = upto
  BY DEF Upto, upto, end, last, more
<1> QED BY <1>11, <1>19, <1>35, <1>36, <1>37, <1>38 DEF StartsEdited, first, last, from, after, more, cut

---------------------------------------------------------------------------
(* Styles and ranges                                                        *)

\* Ranges of a text of n characters, and what they cover.
Ranges(n) == {range \in Nat \X Nat : range[1] <= range[2] /\ range[2] <= n}
Covers(range, o) == range # None /\ range[1] <= o /\ o < range[2]

\* The cached style of a character.
StyleOf(s, cached, known, o) ==
    LET index == LineOf(s, o)
        column == o - s[index + 1] + 1
    IN  IF known /\ column \in DOMAIN cached[index + 1] THEN cached[index + 1][column] ELSE Plain

\* Every style that is not shown is in the range.
NoneLost(seen, n, s, cached, known, range) ==
    \A o \in 0 .. n - 1 : seen[o + 1] # StyleOf(s, cached, known, o) => Covers(range, o)

\* What is made dirty is covered, with what was.
LEMMA DirtyIs ==
    ASSUME NEW n \in Nat, NEW range \in Ranges(n) \cup {None}, NEW from \in Nat, NEW to \in 0 .. n
    PROVE  /\ dirty(range, from, to) \in Ranges(n) \cup {None}
           /\ \A o \in Nat : Covers(range, o) => Covers(dirty(range, from, to), o)
           /\ \A o \in Nat : from <= o /\ o < to => Covers(dirty(range, from, to), o)
<1>1. CASE from >= to
  <2>1. dirty(range, from, to) = range /\ \A o \in Nat : ~(from <= o /\ o < to)
    BY <1>1 DEF dirty
  <2> QED BY <2>1
<1>2. CASE from < to /\ range = None
  <2>1. dirty(range, from, to) = <<from, to>> /\ <<from, to>> \in Nat \X Nat
    BY <1>2 DEF dirty
  <2> QED BY <1>2, <2>1, NoneAssumption DEF Covers, Ranges
<1>3. CASE from < to /\ range # None
  <2> DEFINE low == Min({range[1], from})
             high == Max({range[2], to})
  <2>1. range \in Nat \X Nat /\ range[1] \in Nat /\ range[2] \in Nat /\ range[1] <= range[2] /\ range[2] <= n
    BY <1>3 DEF Ranges
  <2>2. dirty(range, from, to) = <<low, high>>
    BY <1>3 DEF dirty
  <2>3. low = IF range[1] <= from THEN range[1] ELSE from
    BY <2>1, OfTwo
  <2>4. high = IF range[2] <= to THEN to ELSE range[2]
    BY <2>1, OfTwo
  <2> HIDE DEF low, high
  <2>5. /\ low \in Nat /\ high \in Nat /\ low <= high /\ high <= n
        /\ low <= range[1] /\ low <= from /\ range[2] <= high /\ to <= high
    BY <1>3, <2>1, <2>3, <2>4
  <2>6. <<low, high>> \in Ranges(n) /\ <<low, high>> # None
    BY <2>5, NoneAssumption DEF Ranges
  <2>7. \A o \in Nat : low <= o /\ o < high => Covers(<<low, high>>, o)
    BY <2>6 DEF Covers
  <2>8. \A o \in Nat : Covers(range, o) => low <= o /\ o < high
    BY <2>1, <2>5 DEF Covers
  <2>9. \A o \in Nat : from <= o /\ o < to => low <= o /\ o < high
    BY <2>5
  <2> QED BY <2>2, <2>6, <2>7, <2>8, <2>9
<1> QED BY <1>1, <1>2, <1>3

\* A range that is dirty over all covers whatever is not shown.
LEMMA AllCovered ==
    ASSUME NEW n \in Nat, NEW range \in Ranges(n) \cup {None}, NEW seen, NEW s, NEW cached, NEW known
    PROVE  /\ dirty(range, 0, n) \in Ranges(n) \cup {None}
           /\ NoneLost(seen, n, s, cached, known, dirty(range, 0, n))
<1>1. 0 \in Nat /\ n \in 0 .. n /\ \A o \in 0 .. n - 1 : o \in Nat /\ 0 <= o /\ o < n
  OBVIOUS
<1> QED BY <1>1, DirtyIs DEF NoneLost

\* Every character has a style.
LEMMA StyleIs ==
    ASSUME NEW text \in Seq(STRING), NEW s, AreStarts(s, text), NEW cached \in Seq(Seq(Style)),
           Len(cached) = Len(s), NEW known, NEW o \in Nat
    PROVE  StyleOf(s, cached, known, o) \in Style
<1> DEFINE k == LineOf(s, o) + 1
           c == o - s[LineOf(s, o) + 1] + 1
<1>1. Len(s) \in Nat /\ LineOf(s, o) \in 0 .. Len(s) - 1
  BY LineIs, StartsFit
<1>2. k \in 1 .. Len(cached)
  BY <1>1
<1> HIDE DEF k
<1>3. cached[k] \in Seq(Style)
  BY <1>2
<1>4. \A i \in DOMAIN cached[k] : cached[k][i] \in Style
  BY <1>3
<1>5. StyleOf(s, cached, known, o) = IF known /\ c \in DOMAIN cached[k] THEN cached[k][c] ELSE Plain
  BY DEF StyleOf, k
<1> HIDE DEF c
<1> QED BY <1>4, <1>5 DEF Style

\* A range after an edit covers what it covered before and behind it.
MovedRange(range, start, end, inserted) ==
    IF range = None THEN None
    ELSE <<map_offset(range[1], start, end, inserted), map_offset(range[2], start, end, inserted)>>

\* Mapping the two ends of a range does so.
LEMMA MovedRangeIs ==
    ASSUME NEW n \in Nat, NEW range \in Ranges(n) \cup {None}, NEW start \in Nat, NEW deleted \in Nat,
           NEW more \in Nat, start + deleted <= n
    PROVE  /\ MovedRange(range, start, start + deleted, more) \in Ranges(n - deleted + more) \cup {None}
           /\ \A o \in Nat : o < start /\ Covers(range, o)
                               => Covers(MovedRange(range, start, start + deleted, more), o)
           /\ \A o \in Nat : o >= start + deleted /\ Covers(range, o)
                               => Covers(MovedRange(range, start, start + deleted, more), o - deleted + more)
<1> DEFINE to(p) == map_offset(p, start, start + deleted, more)
           m == MovedRange(range, start, start + deleted, more)
<1>1. CASE range = None
  BY <1>1 DEF MovedRange, Covers
<1>2. CASE range # None
  <2>1. range \in Nat \X Nat /\ range[1] \in Nat /\ range[2] \in Nat /\ range[1] <= range[2] /\ range[2] <= n
    BY <1>2 DEF Ranges
  <2> DEFINE a == range[1]
             b == range[2]
  <2>2. \A p \in Nat : to(p) = IF p <= start THEN p
                               ELSE IF p >= start + deleted THEN p - deleted + more ELSE start + more
    <3> SUFFICES ASSUME NEW p \in Nat
                 PROVE  to(p) = IF p <= start THEN p
                               ELSE IF p >= start + deleted THEN p - deleted + more ELSE start + more
      OBVIOUS
    <3>1. start + deleted - start = deleted
      OBVIOUS
    <3> QED BY <3>1 DEF map_offset
  <2> HIDE DEF to
  <2>3. m = <<to(a), to(b)>>
    BY <1>2 DEF MovedRange, to
  <2>4. a \in Nat /\ b \in Nat /\ a <= b /\ b <= n
    BY <2>1
  <2> HIDE DEF m, a, b
  <2>5. to(a) \in Nat /\ to(b) \in Nat /\ to(a) <= to(b) /\ to(b) <= n - deleted + more
    BY <2>2, <2>4
  <2>6. m \in Nat \X Nat /\ m # None /\ m[1] = to(a) /\ m[2] = to(b)
    BY <2>3, <2>5, NoneAssumption
  <2>7. m \in Ranges(n - deleted + more)
    BY <2>5, <2>6 DEF Ranges
  <2>8. \A o : Covers(range, o) <=> a <= o /\ o < b
    BY <1>2 DEF Covers, a, b
  <2>9. \A o : Covers(m, o) <=> to(a) <= o /\ o < to(b)
    BY <2>6 DEF Covers
  <2>10. \A o \in Nat : o < start /\ a <= o /\ o < b => to(a) <= o /\ o < to(b)
    BY <2>2, <2>4
  <2>11. \A o \in Nat : o >= start + deleted /\ a <= o /\ o < b
                         => to(a) <= o - deleted + more /\ o - deleted + more < to(b)
    BY <2>2, <2>4
  <2> QED BY <2>7, <2>8, <2>9, <2>10, <2>11 DEF m
<1> QED BY <1>1, <1>2

---------------------------------------------------------------------------
(* The styles after an edit                                                 *)

\* The styles and the range an edit leaves are of the text, and lose none.
StylesEdited(text, s, start, deleted, inserted, seen, plain, cached, known, range) ==
    LET lines == NewLines(text, s, start, deleted, inserted)
        first == LineOf(s, start)
        last == LineOf(s, start + deleted)
        after == Edited(text, start, deleted, inserted)
        new == NewStarts(s, deleted, inserted, first, last, From(s, start), lines)
        blank == [i \in DOMAIN lines |-> <<>>]
        rest == Replace(cached, first, last, blank)
        more == dirty(MovedRange(range, start, start + deleted, Len(inserted)),
                      From(s, start), Upto(text, s, start, deleted, inserted))
    IN  /\ rest \in Seq(Seq(Style)) /\ Len(rest) = Len(new)
        /\ Edited(seen, start, deleted, plain) \in Seq(Style)
        /\ Len(Edited(seen, start, deleted, plain)) = Len(after) /\ Len(after) \in Nat
        /\ more \in Ranges(Len(after)) \cup {None}
        /\ NoneLost(Edited(seen, start, deleted, plain), Len(after), new, rest, known, more)

\* They are, for every edit that is in the text.
LEMMA EditedStyles ==
    ASSUME NEW text \in Seq(STRING), NEW s, AreStarts(s, text),
           NEW start \in Nat, NEW deleted \in Nat, NEW inserted \in Seq(STRING),
           start + deleted <= Len(text),
           NEW seen \in Seq(Style), Len(seen) = Len(text), NEW plain \in Seq(Style), Len(plain) = Len(inserted),
           NEW cached \in Seq(Seq(Style)), Len(cached) = Len(s), NEW known,
           NEW range \in Ranges(Len(text)) \cup {None}, NoneLost(seen, Len(text), s, cached, known, range)
    PROVE  StylesEdited(text, s, start, deleted, inserted, seen, plain, cached, known, range)
<1> DEFINE lines == NewLines(text, s, start, deleted, inserted)
           first == LineOf(s, start)
           last == LineOf(s, start + deleted)
           from == From(s, start)
           end == LineEnd(s, text, last)
           upto == Upto(text, s, start, deleted, inserted)
           after == Edited(text, start, deleted, inserted)
           new == NewStarts(s, deleted, inserted, first, last, from, lines)
           blank == [i \in DOMAIN lines |-> <<>>]
           rest == Replace(cached, first, last, blank)
           gain == Len(inserted)
           size == Len(lines)
           now == Edited(seen, start, deleted, plain)
           moved == MovedRange(range, start, start + deleted, gain)
           more == dirty(moved, from, upto)
<1>1. /\ lines \in Seq(Nat) /\ size \in Nat \ {0} /\ AreStarts(new, after)
      /\ Spliced(new, s, first, last, size, deleted, gain)
  BY EditedStarts DEF StartsEdited
<1>2. /\ first \in 0 .. Len(s) - 1 /\ last \in first .. Len(s) - 1
      /\ from \in 0 .. start /\ from = s[first + 1]
      /\ end \in start + deleted .. Len(text)
      /\ last + 2 <= Len(s) => end = s[last + 2] /\ start + deleted < s[last + 2]
      /\ last + 1 >= Len(s) => end = Len(text)
  <2>1. Numbers(text, s, start, deleted, first, last)
    BY EditRange
  <2> HIDE DEF first, last
  <2>2. from = s[first + 1]
    BY DEF From, first
  <2> QED BY <2>1, <2>2 DEF Numbers
<1>3. /\ Len(s) \in Nat \ {0} /\ Len(text) \in Nat /\ s[1] = 0
      /\ \A i \in 1 .. Len(s) : s[i] \in 0 .. Len(text)
      /\ \A i, j \in 1 .. Len(s) : (i < j => s[i] < s[j]) /\ (i <= j => s[i] <= s[j])
  BY StartsFit
<1>4. after \in Seq(STRING) /\ Len(after) = Len(text) - deleted + gain /\ gain \in Nat
  <2>1. after \in Seq(STRING) /\ IsEdited(after, text, start, deleted, inserted)
    BY EditedIs
  <2> HIDE DEF after
  <2> QED BY <2>1 DEF IsEdited
<1>5. upto = end - deleted + gain
  BY DEF Upto
<1>6. now \in Seq(Style) /\ IsEdited(now, seen, start, deleted, plain)
  BY EditedIs
<1>7. /\ Len(now) = Len(after) /\ Len(after) \in Nat
      /\ \A i \in 1 .. start : now[i] = seen[i]
      /\ \A i \in start + deleted + 1 .. Len(text) : now[i - deleted + gain] = seen[i]
  BY <1>3, <1>4, <1>6 DEF IsEdited
<1> HIDE DEF lines, first, last, from, end, upto, after, new, rest, gain, now, moved, more
<1>8. blank \in Seq(Seq(Style)) /\ Len(blank) = size
  <2>1. DOMAIN lines = 1 .. size /\ size \in Nat /\ <<>> \in Seq(Style)
    BY <1>1
  <2> QED BY <2>1
<1> HIDE DEF blank
<1>9. rest \in Seq(Seq(Style)) /\ IsReplaced(rest, cached, first, last, blank)
  <2>1. first \in Nat /\ last \in first - 1 .. Len(cached) - 1
    BY <1>2, <1>3
  <2> QED BY <1>8, <2>1, ReplaceIs DEF rest
<1>10. /\ Len(rest) = Len(new)
       /\ \A i \in 1 .. first : rest[i] = cached[i]
       /\ \A i \in last + 2 .. Len(s) : rest[i + first + size - last - 1] = cached[i]
  BY <1>1, <1>8, <1>9 DEF IsReplaced, Spliced
<1>11. /\ Len(new) = first + size + Len(s) - last - 1
       /\ \A i \in 1 .. first + 1 : new[i] = s[i]
       /\ \A i \in last + 2 .. Len(s) : new[i + first + size - last - 1] = s[i] - deleted + gain
  BY <1>1 DEF Spliced
<1>12. /\ upto \in Nat /\ upto \in 0 .. Len(after) /\ from \in Nat /\ from <= start /\ start + gain <= upto
       /\ Len(after) \in Nat
  BY <1>2, <1>3, <1>4, <1>5, SMTT(30)
\* The range is moved and made to cover the edited lines.
<1>13. /\ moved \in Ranges(Len(after)) \cup {None}
       /\ \A o \in Nat : o < start /\ Covers(range, o) => Covers(moved, o)
       /\ \A o \in Nat : o >= start + deleted /\ Covers(range, o) => Covers(moved, o - deleted + gain)
  BY <1>3, <1>4, MovedRangeIs DEF moved
<1>14. /\ more \in Ranges(Len(after)) \cup {None}
       /\ \A o \in Nat : Covers(moved, o) => Covers(more, o)
       /\ \A o \in Nat : from <= o /\ o < upto => Covers(more, o)
  BY <1>12, <1>13, DirtyIs DEF more
<1>15. ASSUME NEW o \in 0 .. Len(after) - 1, o < from
       PROVE  now[o + 1] # StyleOf(new, rest, known, o) => Covers(more, o)
  <2> DEFINE k == LineOf(s, o)
  <2>1. o \in Nat /\ o \in 0 .. Len(text) - 1 /\ o + 1 \in 1 .. start
    BY <1>2, <1>3, <1>12, <1>15
  <2>2. k \in 0 .. Len(s) - 1 /\ \A i \in 1 .. Len(s) : s[i] <= o <=> i <= k + 1
    BY <2>1, LineIs
  <2> HIDE DEF k
  <2>3. ~(first + 1 <= k + 1) /\ first + 1 \in 1 .. Len(s)
    BY <1>2, <1>3, <1>15, <2>2
  <2>4. /\ k + 1 \in 1 .. first /\ k + 2 \in 1 .. first + 1 /\ k + 1 \in 1 .. Len(s) /\ k + 2 \in 1 .. Len(s)
        /\ k + 1 \in 1 .. first + 1 /\ k \in 0 .. Len(new) - 1
    <3>1. /\ first \in Nat /\ last \in Nat /\ k \in Nat /\ Len(s) \in Nat /\ size \in Nat /\ size > 0
          /\ first <= last /\ last <= Len(s) - 1 /\ k < first
          /\ Len(new) = first + size + Len(s) - last - 1
      BY <1>1, <1>2, <1>3, <1>11, <2>2, <2>3
    <3> QED BY <3>1
  <2>5. s[k + 1] <= o /\ ~(s[k + 2] <= o) /\ s[k + 2] \in Nat
    BY <1>3, <2>2, <2>4
  <2>6. LineOf(new, o) = k
    <3>1. new[k + 1] <= o /\ o < new[k + 2]
      BY <1>11, <2>1, <2>4, <2>5
    <3> QED BY <1>1, <1>4, <2>1, <2>4, <3>1, LineIsUnique
  <2>7. StyleOf(new, rest, known, o) = StyleOf(s, cached, known, o)
    <3>1. new[k + 1] = s[k + 1] /\ rest[k + 1] = cached[k + 1] /\ LineOf(s, o) = k
      BY <1>10, <1>11, <2>4 DEF k
    <3> QED BY <2>6, <3>1 DEF StyleOf
  <2>8. now[o + 1] = seen[o + 1]
    BY <1>7, <2>1
  <2>9. seen[o + 1] # StyleOf(s, cached, known, o) => Covers(range, o)
    BY <2>1 DEF NoneLost
  <2>10. o < start
    BY <1>12, <1>15, <2>1
  <2> QED BY <1>13, <1>14, <2>1, <2>7, <2>8, <2>9, <2>10
<1>16. ASSUME NEW o \in 0 .. Len(after) - 1, o >= upto
       PROVE  now[o + 1] # StyleOf(new, rest, known, o) => Covers(more, o)
  <2> DEFINE p == o + deleted - gain
             k == LineOf(s, p)
             l == k + first + size - last - 1
  <2>1. o \in Nat /\ p \in 0 .. Len(text) - 1 /\ p - deleted + gain = o /\ p >= end /\ p \in Nat
        /\ p >= start + deleted
    BY <1>2, <1>3, <1>4, <1>5, <1>12, <1>16
  <2> HIDE DEF p
  <2>2. k \in 0 .. Len(s) - 1 /\ \A i \in 1 .. Len(s) : s[i] <= p <=> i <= k + 1
    BY <2>1, LineIs
  <2> HIDE DEF k
  <2>3. last + 2 <= Len(s)
    BY <1>2, <1>3, <2>1, SMTT(30)
  <2>4. last + 2 <= k + 1
    <3>1. last + 2 \in 1 .. Len(s) /\ s[last + 2] <= p
      BY <1>2, <1>3, <2>1, <2>3
    <3> QED BY <2>2, <3>1
  <2>5. /\ first \in Nat /\ size \in Nat /\ last \in Nat /\ k \in Nat /\ Len(s) \in Nat
    BY <1>1, <1>2, <1>3, <2>2
  <2>6. /\ k + 1 \in last + 2 .. Len(s) /\ l \in 0 .. Len(new) - 1 /\ k + 1 \in 1 .. Len(s)
        /\ (k + 1) + first + size - last - 1 = l + 1 /\ (k + 2) + first + size - last - 1 = l + 2
        /\ l + 2 <= Len(new) <=> k + 2 <= Len(s)
    BY <1>11, <2>2, <2>4, <2>5, SMTT(30)
  <2> HIDE DEF l
  <2>7. new[l + 1] = s[k + 1] - deleted + gain /\ rest[l + 1] = cached[k + 1]
    BY <1>10, <1>11, <2>6
  <2>8. s[k + 1] \in Nat /\ s[k + 1] <= p
    BY <1>3, <2>2, <2>6
  <2>9. l + 2 <= Len(new) => new[l + 2] = s[k + 2] - deleted + gain /\ s[k + 2] \in Nat /\ p < s[k + 2]
    <3> SUFFICES ASSUME k + 2 <= Len(s)
                 PROVE  new[l + 2] = s[k + 2] - deleted + gain /\ s[k + 2] \in Nat /\ p < s[k + 2]
      BY <2>6
    <3>1. k + 2 \in last + 2 .. Len(s) /\ k + 2 \in 1 .. Len(s) /\ ~(k + 2 <= k + 1)
      BY <2>4, <2>5
    <3>2. new[l + 2] = s[k + 2] - deleted + gain
      BY <1>11, <2>6, <3>1
    <3>3. s[k + 2] \in Nat /\ ~(s[k + 2] <= p)
      BY <1>3, <2>2, <3>1
    <3> QED BY <2>1, <3>2, <3>3
  <2>10. LineOf(new, o) = l
    <3>1. new[l + 1] <= o
      BY <1>4, <2>1, <2>7, <2>8, SMTT(30)
    <3>2. l + 2 <= Len(new) => o < new[l + 2]
      <4> SUFFICES ASSUME l + 2 <= Len(new) PROVE o < new[l + 2]
        OBVIOUS
      <4>1. new[l + 2] = s[k + 2] - deleted + gain /\ s[k + 2] \in Nat /\ p < s[k + 2]
        BY <2>9
      <4>2. p - deleted + gain < s[k + 2] - deleted + gain
        BY <1>4, <2>1, <4>1, SMTT(30)
      <4> QED BY <2>1, <4>1, <4>2
    <3> QED BY <1>1, <1>4, <2>1, <2>6, <3>1, <3>2, LineIsUnique
  <2>11. StyleOf(new, rest, known, o) = StyleOf(s, cached, known, p)
    <3>1. o - new[l + 1] + 1 = p - s[k + 1] + 1
      <4>1. o - (s[k + 1] - deleted + gain) + 1 = (p - deleted + gain) - (s[k + 1] - deleted + gain) + 1
        BY <2>1
      <4>2. (p - deleted + gain) - (s[k + 1] - deleted + gain) + 1 = p - s[k + 1] + 1
        BY <1>4, <2>1, <2>8, SMTT(30)
      <4> QED BY <2>7, <4>1, <4>2
    <3> QED BY <2>7, <2>10, <3>1 DEF StyleOf, k
  <2>12. now[o + 1] = seen[p + 1]
    <3> DEFINE q == p + 1
    <3>1. q \in start + deleted + 1 .. Len(text) /\ q - deleted + gain = o + 1
      BY <1>3, <1>4, <2>1
    <3> HIDE DEF q
    <3>2. now[o + 1] = seen[q]
      BY <1>7, <3>1
    <3> QED BY <3>2 DEF q
  <2>13. seen[p + 1] # StyleOf(s, cached, known, p) => Covers(range, p)
    BY <2>1 DEF NoneLost
  <2>14. Covers(range, p) => Covers(moved, o)
    BY <1>13, <2>1
  <2> QED BY <1>14, <2>1, <2>11, <2>12, <2>13, <2>14
<1>17. NoneLost(now, Len(after), new, rest, known, more)
  <2> SUFFICES ASSUME NEW o \in 0 .. Len(after) - 1
               PROVE  now[o + 1] # StyleOf(new, rest, known, o) => Covers(more, o)
    BY DEF NoneLost
  <2>1. o < from \/ (from <= o /\ o < upto) \/ o >= upto
    BY <1>12
  <2>2. o \in Nat
    OBVIOUS
  <2> QED BY <1>14, <1>15, <1>16, <2>1, <2>2
<1> QED BY <1>6, <1>7, <1>9, <1>10, <1>14, <1>17
        DEF StylesEdited, lines, first, last, from, upto, after, new, blank, rest, gain, now, moved, more

---------------------------------------------------------------------------
(* Parsing a line                                                           *)

\* A part of a text, element by element.
LEMMA PartIs ==
    ASSUME NEW S, NEW t \in Seq(S), NEW a \in Nat, NEW b \in a .. Len(t)
    PROVE  /\ SubSeq(t, a + 1, b) \in Seq(S) /\ Len(SubSeq(t, a + 1, b)) = b - a
           /\ \A i \in 1 .. b - a : SubSeq(t, a + 1, b)[i] = t[a + i]
<1> DEFINE u == SubSeq(t, a + 1, b)
<1>1. \A i \in a + 1 .. b : t[i] \in S
  <2> SUFFICES ASSUME NEW i \in a + 1 .. b PROVE t[i] \in S
    OBVIOUS
  <2>1. i \in 1 .. Len(t)
    BY LenProperties
  <2> QED BY <2>1
<1>2. b \in Nat /\ a + 1 \in Int /\ b \in Int /\ b - (a + 1) + 1 = b - a
  BY LenProperties
<1>3. /\ u \in Seq(S) /\ Len(u) = IF a + 1 <= b THEN b - (a + 1) + 1 ELSE 0
      /\ \A i \in 1 .. b - (a + 1) + 1 : u[i] = t[a + 1 + i - 1]
  BY <1>1, <1>2, SubSeqProperties
<1> HIDE DEF u
<1>4. Len(u) = b - a
  BY <1>2, <1>3
<1>5. \A i \in 1 .. b - a : u[i] = t[a + i]
  <2> SUFFICES ASSUME NEW i \in 1 .. b - a PROVE u[i] = t[a + i]
    OBVIOUS
  <2>1. a + 1 + i - 1 = a + i
    BY <1>2
  <2> QED BY <1>2, <1>3, <2>1
<1> QED BY <1>3, <1>4, <1>5 DEF u

\* Two parts side by side join to one.
LEMMA PartsJoin ==
    ASSUME NEW S, NEW t \in Seq(S), NEW a \in Nat, NEW b \in a .. Len(t), NEW c \in b .. Len(t)
    PROVE  SubSeq(t, a + 1, b) \o SubSeq(t, b + 1, c) = SubSeq(t, a + 1, c)
<1> DEFINE u == SubSeq(t, a + 1, b)
           v == SubSeq(t, b + 1, c)
           w == SubSeq(t, a + 1, c)
           both == u \o v
<1>1. Len(t) \in Nat /\ b \in Nat /\ c \in Nat /\ c \in a .. Len(t) /\ a <= b /\ b <= c
  BY LenProperties
<1>2. u \in Seq(S) /\ Len(u) = b - a /\ \A i \in 1 .. b - a : u[i] = t[a + i]
  BY PartIs
<1>3. v \in Seq(S) /\ Len(v) = c - b /\ \A i \in 1 .. c - b : v[i] = t[b + i]
  BY <1>1, PartIs
<1>4. w \in Seq(S) /\ Len(w) = c - a /\ \A i \in 1 .. c - a : w[i] = t[a + i]
  BY <1>1, PartIs
<1> HIDE DEF u, v, w
<1>5. /\ both \in Seq(S) /\ Len(both) = Len(u) + Len(v)
      /\ \A i \in 1 .. Len(u) + Len(v) : both[i] = IF i <= Len(u) THEN u[i] ELSE v[i - Len(u)]
  BY <1>2, <1>3, ConcatProperties
<1> HIDE DEF both
<1>6. Len(both) = Len(w)
  BY <1>1, <1>2, <1>3, <1>4, <1>5
<1>7. ASSUME NEW i \in 1 .. c - a PROVE both[i] = w[i]
  <2>1. i \in 1 .. Len(u) + Len(v) /\ i \in Nat
    BY <1>1, <1>2, <1>3
  <2>2. CASE i <= b - a
    <3>1. i \in 1 .. b - a
      BY <2>1, <2>2
    <3> QED BY <1>2, <1>4, <1>5, <2>1, <2>2, <3>1
  <2>3. CASE ~(i <= b - a)
    <3> DEFINE j == i - (b - a)
    <3>1. j \in 1 .. c - b /\ b + j = a + i
      BY <1>1, <2>1, <2>3
    <3> HIDE DEF j
    <3>2. both[i] = v[j]
      BY <1>2, <1>5, <2>1, <2>3 DEF j
    <3> QED BY <1>3, <1>4, <3>1, <3>2
  <2> QED BY <2>2, <2>3
<1>8. both = w
  BY <1>4, <1>5, <1>6, <1>7, SeqEqual
<1> QED BY <1>8 DEF both, u, v, w

\* What a parse works on: its styles, what is pending, the known states and
\* the parser, whose speculative lines are those before its next one.
Parsers == [next : Nat, mode : Modes, before : Modes, recent : Seq(Seq(STRING))]
Marks(n) == UNION {[keys -> Modes \ {"attempt"}] : keys \in SUBSET (0 .. n)}
Works(n, lines) ==
    [styles : Seq(Seq(Style)), pending : Ranges(n) \cup {None}, checkpoints : Marks(lines),
     parser : Parsers \cup {None}, convergence_after : Nat]

\* The speculative lines of a parser are the text before its next line.
ParserFits(p, text, s) ==
    /\ p \in Parsers /\ p.next \in 0 .. Len(s) - 1 /\ Len(p.recent) <= p.next
    /\ FlattenSeq(p.recent) = SubSeq(text, s[p.next - Len(p.recent) + 1] + 1, s[p.next + 1])

\* What is worked on is of its types and loses no style.
WorkFits(work, text, s, seen, known) ==
    /\ work \in Works(Len(text), Len(s)) /\ Len(work.styles) = Len(s)
    /\ work.parser # None => known /\ ParserFits(work.parser, text, s)
    /\ ~known => DOMAIN work.checkpoints = {}
    /\ NoneLost(seen, Len(text), s, work.styles, known, work.pending)

\* The text, its lines and the settings.
TextFits ==
    source \in Seq(STRING) /\ AreStarts(starts, source) /\ config \in Configurations

\* A parser that has just been made has no speculative lines.
LEMMA FreshParser ==
    ASSUME NEW text \in Seq(STRING), NEW s, AreStarts(s, text), NEW k \in 0 .. Len(s) - 1,
           NEW mode \in Modes
    PROVE  ParserFits(Parser(k, mode), text, s)
<1> DEFINE p == Parser(k, mode)
<1>1. p = [next |-> k, mode |-> mode, before |-> mode, recent |-> <<>>]
  BY DEF Parser
<1> HIDE DEF p
<1>2. Len(s) \in Nat \ {0} /\ k \in Nat /\ <<>> \in Seq(Seq(STRING)) /\ Len(<<>>) = 0
  BY StartsFit
<1>3. p \in Parsers /\ p.next = k /\ p.recent = <<>>
  BY <1>1, <1>2 DEF Parsers
<1>4. FlattenSeq(<<>>) = <<>>
  BY DEF FlattenSeq
<1>5. SubSeq(text, s[k + 1] + 1, s[k + 1]) = <<>>
  <2> DEFINE a == s[k + 1]
             u == SubSeq(text, a + 1, a)
  <2>1. k + 1 \in 1 .. Len(s)
    BY <1>2
  <2>2. a \in Nat /\ a \in a .. Len(text) /\ a - a = 0
    BY <2>1, StartsFit
  <2> HIDE DEF a
  <2>3. u \in Seq(STRING) /\ Len(u) = 0
    BY <2>2, PartIs
  <2> HIDE DEF u
  <2>4. u = <<>>
    BY <2>3
  <2> QED BY <2>4 DEF u, a
<1>6. k - 0 + 1 = k + 1 /\ 0 <= k
  BY <1>2
<1> QED BY <1>2, <1>3, <1>4, <1>5, <1>6 DEF ParserFits, p

\* No state needs to be known.
LEMMA NoMarks == ASSUME NEW n \in Nat PROVE <<>> \in Marks(n) /\ DOMAIN <<>> = {}
<1>1. DOMAIN <<>> = {}
  OBVIOUS
<1>2. <<>> \in [{} -> Modes \ {"attempt"}]
  OBVIOUS
<1> QED BY <1>1, <1>2 DEF Marks

\* The line parsed next, and the speculative lines with it.
Chunk(p, text, s) == SubSeq(text, s[p.next + 1] + 1, LineEnd(s, text, p.next))
Oldest(p) == p.next - Len(p.recent)

\* A line leaves the parser with the speculative lines before its next one.
LEMMA LineKeeps ==
    ASSUME NEW text \in Seq(STRING), NEW s, AreStarts(s, text), NEW p, ParserFits(p, text, s)
    PROVE  /\ Oldest(p) \in 0 .. p.next
           /\ Chunk(p, text, s) \in Seq(STRING)
           /\ FlattenSeq(p.recent) \o Chunk(p, text, s)
                = SubSeq(text, s[Oldest(p) + 1] + 1, LineEnd(s, text, p.next))
           /\ line(p, Chunk(p, text, s)) \in Parsers
           /\ line(p, Chunk(p, text, s)).next = p.next + 1
           /\ p.next + 1 < Len(s) => ParserFits(line(p, Chunk(p, text, s)), text, s)
<1> DEFINE k == p.next
           recent == p.recent
           old == k - Len(recent)
           end == LineEnd(s, text, k)
           chunk == SubSeq(text, s[k + 1] + 1, end)
           chars == FlattenSeq(recent) \o chunk
           after == line(p, chunk)
           mode == Last(ModesAlong(chars, p.before))
<1>1. /\ p \in Parsers /\ k \in 0 .. Len(s) - 1 /\ Len(recent) <= k
      /\ FlattenSeq(recent) = SubSeq(text, s[old + 1] + 1, s[k + 1])
  BY DEF ParserFits
<1>2. k \in Nat /\ recent \in Seq(Seq(STRING)) /\ p.before \in Modes /\ Len(recent) \in Nat
  BY <1>1 DEF Parsers
<1> HIDE DEF k, recent
<1>3. /\ Len(s) \in Nat \ {0} /\ Len(text) \in Nat
      /\ \A i \in 1 .. Len(s) : s[i] \in 0 .. Len(text)
      /\ \A i, j \in 1 .. Len(s) : i <= j => s[i] <= s[j]
  BY StartsFit
<1>4. old \in 0 .. k /\ old \in Nat /\ old + 1 \in 1 .. Len(s) /\ k + 1 \in 1 .. Len(s) /\ old + 1 <= k + 1
  BY <1>1, <1>2, <1>3
<1> HIDE DEF old
<1>5. s[old + 1] \in Nat /\ s[k + 1] \in s[old + 1] .. Len(text) /\ s[k + 1] \in Nat
  BY <1>3, <1>4
<1>6. end \in s[k + 1] .. Len(text) /\ end \in Nat /\ (k + 2 <= Len(s) => end = s[k + 2])
  <2>1. end \in s[k + 1] .. Len(text) /\ (k + 2 <= Len(s) => end = s[k + 2])
    BY <1>1, LineEnds
  <2> QED BY <1>5, <2>1
<1> HIDE DEF end
<1>7. chunk \in Seq(STRING)
  BY <1>5, <1>6, PartIs
<1>8. chars = SubSeq(text, s[old + 1] + 1, end)
  <2> DEFINE a == s[old + 1]
             b == s[k + 1]
  <2>1. a \in Nat /\ b \in a .. Len(text) /\ end \in b .. Len(text)
    BY <1>5, <1>6
  <2> HIDE DEF a, b
  <2>2. SubSeq(text, a + 1, b) \o SubSeq(text, b + 1, end) = SubSeq(text, a + 1, end)
    BY <2>1, PartsJoin
  <2> QED BY <1>1, <2>2 DEF a, b
<1>9. chars \in Seq(STRING)
  <2>1. end \in s[old + 1] .. Len(text)
    BY <1>3, <1>5, <1>6
  <2> QED BY <1>5, <1>8, <2>1, PartIs
<1> HIDE DEF chunk
<1>10. mode \in Modes
  BY <1>2, <1>9, LastModeIs
<1>11. after = IF mode = "attempt"
                 THEN [next |-> k + 1, mode |-> mode, before |-> p.before, recent |-> Append(recent, chunk)]
                 ELSE Parser(k + 1, mode)
  BY DEF line, k, recent
<1> HIDE DEF after, chars, mode
<1>12. after \in Parsers /\ after.next = k + 1
  <2>1. CASE mode = "attempt"
    <3>1. Append(recent, chunk) \in Seq(Seq(STRING))
      BY <1>2, <1>7
    <3> QED BY <1>2, <1>10, <1>11, <2>1, <3>1 DEF Parsers
  <2>2. CASE mode # "attempt"
    BY <1>2, <1>10, <1>11, <2>2 DEF Parsers, Parser
  <2> QED BY <2>1, <2>2
<1>13. ASSUME k + 1 < Len(s) PROVE ParserFits(after, text, s)
  <2>1. CASE mode = "attempt"
    <3>1. after.recent = Append(recent, chunk) /\ after.next = k + 1
      BY <1>11, <2>1
    <3>2. Len(Append(recent, chunk)) = Len(recent) + 1
      BY <1>2
    <3>3. FlattenSeq(Append(recent, chunk)) = FlattenSeq(recent) \o chunk
      BY <1>2, <1>7, FlattenAppend
    <3>4. FlattenSeq(after.recent) = SubSeq(text, s[old + 1] + 1, end)
      BY <1>8, <3>1, <3>3 DEF chars
    <3>5. /\ end = s[k + 2] /\ (k + 1) - (Len(recent) + 1) + 1 = old + 1 /\ (k + 1) + 1 = k + 2
          /\ k + 1 \in 0 .. Len(s) - 1 /\ Len(recent) + 1 <= k + 1
      BY <1>1, <1>2, <1>3, <1>6, <1>13 DEF old
    <3> QED BY <1>12, <3>1, <3>2, <3>4, <3>5 DEF ParserFits
  <2>2. CASE mode # "attempt"
    <3>1. k + 1 \in 0 .. Len(s) - 1
      BY <1>2, <1>3, <1>13
    <3> QED BY <1>10, <1>11, <2>2, <3>1, FreshParser
  <2> QED BY <2>1, <2>2
<1>14. Oldest(p) = old /\ Chunk(p, text, s) = chunk
  BY DEF Oldest, Chunk, old, chunk, end, k, recent
<1> QED BY <1>4, <1>7, <1>8, <1>12, <1>13, <1>14 DEF after, chars, k, recent, end

\* The styles of a line the parser styles are those of its characters.
Restyled(p, text, s, i, theme) ==
    LET found == line_styles(p, Chunk(p, text, s))
        slice == SubSeq(found, s[i + 1] - s[Oldest(p) + 1] + 1, LineEnd(s, text, i) - s[Oldest(p) + 1])
    IN  [j \in DOMAIN slice |-> <<theme, slice[j]>>]

\* They are styles.
LEMMA LineIsStyled ==
    ASSUME NEW text \in Seq(STRING), NEW s, AreStarts(s, text), NEW p, ParserFits(p, text, s),
           NEW i \in Oldest(p) .. p.next, NEW theme \in {"light", "dark"}
    PROVE  Restyled(p, text, s, i, theme) \in Seq(Style)
<1> DEFINE old == Oldest(p)
           k == p.next
           found == line_styles(p, Chunk(p, text, s))
           a == s[old + 1]
           b == s[i + 1]
           c == LineEnd(s, text, i)
           d == LineEnd(s, text, k)
           slice == SubSeq(found, b - a + 1, c - a)
<1>1. /\ old \in 0 .. k /\ k \in 0 .. Len(s) - 1 /\ p.before \in Modes /\ k \in Nat
      /\ FlattenSeq(p.recent) \o Chunk(p, text, s) = SubSeq(text, a + 1, d)
  <2>1. p \in Parsers /\ p.next \in 0 .. Len(s) - 1
    BY DEF ParserFits
  <2>2. p.before \in Modes /\ p.next \in Nat
    BY <2>1 DEF Parsers
  <2> QED BY <2>1, <2>2, LineKeeps
<1>2. /\ Len(s) \in Nat \ {0} /\ Len(text) \in Nat
      /\ \A j \in 1 .. Len(s) : s[j] \in 0 .. Len(text)
      /\ \A j, l \in 1 .. Len(s) : j <= l => s[j] <= s[l]
  BY StartsFit
<1> HIDE DEF old, k
<1>3. i \in 0 .. Len(s) - 1 /\ old + 1 \in 1 .. Len(s) /\ i + 1 \in 1 .. Len(s) /\ old + 1 <= i + 1
      /\ k \in i .. Len(s) - 1
  BY <1>1, <1>2 DEF old, k
<1>4. a \in Nat /\ b \in Nat /\ a <= b
  BY <1>2, <1>3
<1>5. c \in b .. Len(text) /\ c <= d
  BY <1>3, LineEnds
<1>6. d \in s[k + 1] .. Len(text) /\ s[k + 1] \in Nat
  BY <1>1, LineEnds
<1> HIDE DEF a, b, c, d
<1>7. c \in Nat /\ d \in Nat /\ b <= c /\ c <= d /\ d \in a .. Len(text)
  BY <1>2, <1>4, <1>5, <1>6
<1>8. SubSeq(text, a + 1, d) \in Seq(STRING) /\ Len(SubSeq(text, a + 1, d)) = d - a
  BY <1>4, <1>7, PartIs
<1>9. found \in Seq(Modes) /\ Len(found) = d - a
  <2>1. found = StylesAlong(SubSeq(text, a + 1, d), p.before)
    BY <1>1 DEF line_styles
  <2> QED BY <1>1, <1>8, <2>1, StylesAre
<1> HIDE DEF found
<1>10. slice \in Seq(Modes)
  <2>1. b - a \in Nat /\ c - a \in b - a .. Len(found)
    BY <1>4, <1>7, <1>9
  <2> QED BY <1>9, <2>1, PartIs
<1> HIDE DEF slice
<1>11. [j \in DOMAIN slice |-> <<theme, slice[j]>>] \in Seq(Style)
  <2>1. \A m \in Modes : <<theme, m>> \in Style
    BY DEF Style
  <2>2. DOMAIN slice = 1 .. Len(slice) /\ Len(slice) \in Nat /\ \A j \in 1 .. Len(slice) : slice[j] \in Modes
    BY <1>10
  <2>3. \A j \in 1 .. Len(slice) : <<theme, slice[j]>> \in Style
    BY <2>1, <2>2
  <2> QED BY <2>2, <2>3
<1> QED BY <1>11 DEF slice, found, a, b, c, old, Restyled

\* Parsing a line loses no style: what it changes is pending (step).
LEMMA ParseLineKeeps ==
    ASSUME TextFits, NEW work, NEW seen, NEW known, known,
           WorkFits(work, source, starts, seen, known), work.parser # None
    PROVE  WorkFits(ParseLine(work), source, starts, seen, known)
<1> DEFINE p == work.parser
           k == p.next
           old == Oldest(p)
           found == line_styles(p, Chunk(p, source, starts))
           Styled(i) == LET slice == SubSeq(found, starts[i + 1] - starts[old + 1] + 1,
                                                   LineEnd(starts, source, i) - starts[old + 1])
                        IN  [j \in DOMAIN slice |-> <<config[2], slice[j]>>]
           changed == {i \in old .. k : work.styles[i + 1] # Styled(i)}
           after == line(p, Chunk(p, source, starts))
           next == after.next
           settles == next % CheckpointInterval = 0 \/ next = Len(starts) \/ next \in DOMAIN work.checkpoints
           converged == /\ settles /\ ~is_speculative(after)
                        /\ next >= work.convergence_after
                        /\ next \in DOMAIN work.checkpoints
                        /\ work.checkpoints[next] = after.mode
           keys == DOMAIN work.checkpoints
           goes_on == ~converged /\ next < Len(starts)
           all == [i \in DOMAIN work.styles |-> IF i - 1 \in changed THEN Styled(i - 1) ELSE work.styles[i]]
           range == IF changed = {} THEN work.pending
                    ELSE dirty(work.pending, starts[Min(changed) + 1], LineEnd(starts, source, Max(changed)))
           marks == IF ~settles THEN work.checkpoints
                    ELSE IF is_speculative(after)
                      THEN [key \in keys \ {next} |-> work.checkpoints[key]]
                      ELSE [key \in keys \cup {next} |->
                              IF key = next THEN after.mode ELSE work.checkpoints[key]]
           parser_then == IF goes_on THEN after ELSE None
           after_then == IF goes_on THEN work.convergence_after ELSE 0
           result == [styles |-> all, pending |-> range, checkpoints |-> marks,
                      parser |-> parser_then, convergence_after |-> after_then]
<1>1. ParseLine(work) = result
  BY DEF ParseLine, Text, line_end, LineEnd, Chunk, Oldest
<1>2. /\ source \in Seq(STRING) /\ AreStarts(starts, source) /\ config[2] \in {"light", "dark"}
      /\ Len(starts) \in Nat \ {0} /\ Len(source) \in Nat
      /\ \A i \in 1 .. Len(starts) : starts[i] \in 0 .. Len(source)
      /\ \A i, j \in 1 .. Len(starts) : i <= j => starts[i] <= starts[j]
  <2>1. source \in Seq(STRING) /\ AreStarts(starts, source) /\ config[2] \in {"light", "dark"}
    BY ConfigurationsAssumption DEF TextFits
  <2> QED BY <2>1, StartsFit
<1>3. /\ work \in Works(Len(source), Len(starts)) /\ Len(work.styles) = Len(starts)
      /\ ParserFits(p, source, starts)
      /\ NoneLost(seen, Len(source), starts, work.styles, known, work.pending)
  BY DEF WorkFits
<1>4. /\ work.styles \in Seq(Seq(Style)) /\ work.pending \in Ranges(Len(source)) \cup {None}
      /\ work.checkpoints \in Marks(Len(starts)) /\ work.convergence_after \in Nat
  BY <1>3 DEF Works
<1>5. /\ k \in 0 .. Len(starts) - 1 /\ old \in 0 .. k /\ after \in Parsers /\ next = k + 1
      /\ next < Len(starts) => ParserFits(after, source, starts)
  <2>1. k \in 0 .. Len(starts) - 1
    BY <1>3 DEF ParserFits
  <2> QED BY <1>2, <1>3, <2>1, LineKeeps
<1>6. \A i \in old .. k : Styled(i) \in Seq(Style)
  <2>1. \A i \in old .. k : Restyled(p, source, starts, i, config[2]) \in Seq(Style)
    <3> HIDE DEF p
    <3> QED BY <1>2, <1>3, LineIsStyled
  <2>2. \A i : Styled(i) = Restyled(p, source, starts, i, config[2])
    BY DEF Restyled
  <2> HIDE DEF Styled
  <2> QED BY <2>1, <2>2
<1> HIDE DEF p, k, old, found, Styled, after, next, settles, converged, changed
<1>7. k \in Nat /\ old \in Nat /\ old <= k /\ k < Len(starts) /\ changed \in SUBSET (old .. k)
  BY <1>2, <1>5 DEF changed
<1>8. \A i \in changed : i \in 0 .. Len(starts) - 1 /\ i + 1 \in 1 .. Len(starts)
  BY <1>2, <1>7
\* The styles, line by line.
<1>9. /\ all \in Seq(Seq(Style)) /\ Len(all) = Len(starts)
      /\ \A i \in 0 .. Len(starts) - 1 : i \notin changed => all[i + 1] = work.styles[i + 1]
  <2>1. DOMAIN work.styles = 1 .. Len(starts) /\ \A i \in 1 .. Len(starts) : work.styles[i] \in Seq(Style)
    BY <1>3, <1>4
  <2>2. \A i \in changed : Styled(i) \in Seq(Style)
    BY <1>6, <1>7
  <2>3. \A i \in 1 .. Len(starts) :
           (IF i - 1 \in changed THEN Styled(i - 1) ELSE work.styles[i]) \in Seq(Style)
    BY <2>1, <2>2
  <2>4. all \in Seq(Seq(Style)) /\ Len(all) = Len(starts)
    BY <1>2, <2>1, <2>3
  <2>5. ASSUME NEW i \in 0 .. Len(starts) - 1, i \notin changed PROVE all[i + 1] = work.styles[i + 1]
    <3>1. i + 1 \in 1 .. Len(starts) /\ (i + 1) - 1 = i
      BY <1>2
    <3> QED BY <2>1, <2>5, <3>1
  <2> QED BY <2>4, <2>5
<1> HIDE DEF all
\* What changed is pending.
<1>10. /\ range \in Ranges(Len(source)) \cup {None}
       /\ \A o \in Nat : Covers(work.pending, o) => Covers(range, o)
       /\ \A o \in 0 .. Len(source) - 1 : LineOf(starts, o) \in changed => Covers(range, o)
  <2>1. CASE changed = {}
    BY <1>4, <2>1
  <2>2. CASE changed # {}
    <3> DEFINE low == Min(changed)
               high == Max(changed)
               from == starts[low + 1]
               to == LineEnd(starts, source, high)
    <3>1. changed \in SUBSET Nat /\ \A i \in changed : i <= k
      BY <1>7
    <3>2. low \in changed /\ \A i \in changed : low <= i
      BY <2>2, <3>1, MinIs
    <3>3. high \in changed /\ \A i \in changed : i <= high
      BY <1>7, <2>2, <3>1, MaxIs
    <3> HIDE DEF low, high
    <3>4. low + 1 \in 1 .. Len(starts) /\ high \in 0 .. Len(starts) - 1
      BY <1>8, <3>2, <3>3
    <3>5. from \in Nat /\ to \in 0 .. Len(source)
      <4>1. to \in starts[high + 1] .. Len(source) /\ starts[high + 1] \in Nat
        BY <1>2, <3>4, LineEnds
      <4> QED BY <1>2, <3>4, <4>1
    <3>6. range = dirty(work.pending, from, to)
      BY <2>2 DEF low, high
    <3> HIDE DEF from, to, range
    <3>7. /\ range \in Ranges(Len(source)) \cup {None}
          /\ \A o \in Nat : Covers(work.pending, o) => Covers(range, o)
          /\ \A o \in Nat : from <= o /\ o < to => Covers(range, o)
      BY <1>2, <1>4, <3>5, <3>6, DirtyIs
    <3>8. ASSUME NEW o \in 0 .. Len(source) - 1, LineOf(starts, o) \in changed PROVE Covers(range, o)
      <4> DEFINE i == LineOf(starts, o)
      <4>1. i \in changed /\ i \in 0 .. Len(starts) - 1 /\ i + 1 \in 1 .. Len(starts) /\ low <= i /\ i <= high
        BY <1>8, <3>2, <3>3, <3>8
      <4>2. starts[i + 1] <= o /\ o < LineEnd(starts, source, i)
        BY <1>2, <4>1, LineEnds
      <4> HIDE DEF i
      <4>3. high \in i .. Len(starts) - 1
        BY <1>7, <3>4, <4>1
      <4>4. LineEnd(starts, source, i) <= to
        BY <1>2, <4>1, <4>3, LineEnds DEF to
      <4>5. LineEnd(starts, source, i) \in starts[i + 1] .. Len(source) /\ starts[i + 1] \in Nat
        BY <1>2, <4>1, LineEnds
      <4>6. from <= starts[i + 1]
        <5>1. low + 1 <= i + 1
          BY <1>7, <3>2, <4>1
        <5> QED BY <1>2, <3>4, <4>1, <5>1 DEF from
      <4>7. o \in Nat /\ from <= o /\ o < to
        <5>1. o \in Nat /\ LineEnd(starts, source, i) \in Nat /\ to \in Nat
          BY <3>5, <4>5
        <5> QED BY <3>5, <4>2, <4>4, <4>5, <4>6, <5>1
      <4> QED BY <3>7, <4>7
    <3> QED BY <3>7, <3>8
  <2> QED BY <2>1, <2>2
<1> HIDE DEF range
<1>11. NoneLost(seen, Len(source), starts, all, known, range)
  <2> SUFFICES ASSUME NEW o \in 0 .. Len(source) - 1, seen[o + 1] # StyleOf(starts, all, known, o)
               PROVE  Covers(range, o)
    BY DEF NoneLost
  <2>1. o \in Nat /\ LineOf(starts, o) \in 0 .. Len(starts) - 1
    <3>1. o \in Nat
      BY <1>2
    <3> QED BY <1>2, <3>1, LineIs
  <2>2. CASE LineOf(starts, o) \notin changed
    <3>1. StyleOf(starts, all, known, o) = StyleOf(starts, work.styles, known, o)
      BY <1>9, <2>1, <2>2 DEF StyleOf
    <3> QED BY <1>3, <1>10, <2>1, <3>1 DEF NoneLost
  <2> QED BY <1>10, <2>2
\* The known states.
<1>12. marks \in Marks(Len(starts))
  <2>1. work.checkpoints \in [keys -> Modes \ {"attempt"}] /\ keys \in SUBSET (0 .. Len(starts))
    BY <1>4 DEF Marks
  <2>2. next \in 0 .. Len(starts)
    BY <1>2, <1>5, <1>7
  <2>3. ~is_speculative(after) => after.mode \in Modes \ {"attempt"}
    BY <1>5 DEF Parsers, is_speculative
  <2> HIDE DEF keys
  <2>4. CASE ~settles
    BY <1>4, <2>4
  <2>5. CASE settles /\ is_speculative(after)
    <3>1. marks = [key \in keys \ {next} |-> work.checkpoints[key]]
      BY <2>5
    <3>2. marks \in [keys \ {next} -> Modes \ {"attempt"}] /\ keys \ {next} \in SUBSET (0 .. Len(starts))
      BY <2>1, <3>1
    <3> QED BY <3>2 DEF Marks
  <2>6. CASE settles /\ ~is_speculative(after)
    <3>1. marks = [key \in keys \cup {next} |-> IF key = next THEN after.mode ELSE work.checkpoints[key]]
      BY <2>6
    <3>2. marks \in [keys \cup {next} -> Modes \ {"attempt"}] /\ keys \cup {next} \in SUBSET (0 .. Len(starts))
      BY <2>1, <2>2, <2>3, <2>6, <3>1
    <3> QED BY <3>2 DEF Marks
  <2> QED BY <2>4, <2>5, <2>6
<1> HIDE DEF marks
<1>13. /\ parser_then \in Parsers \cup {None}
       /\ parser_then # None => ParserFits(parser_then, source, starts)
  BY <1>5
<1>14. after_then \in Nat
  BY <1>4
<1> HIDE DEF parser_then, after_then
<1>15. result \in Works(Len(source), Len(starts))
  <2>1. /\ all \in Seq(Seq(Style)) /\ range \in Ranges(Len(source)) \cup {None}
        /\ marks \in Marks(Len(starts)) /\ parser_then \in Parsers \cup {None} /\ after_then \in Nat
    BY <1>9, <1>10, <1>12, <1>13, <1>14
  <2> QED BY <2>1 DEF Works
<1>16. result.styles = all /\ result.pending = range /\ result.parser = parser_then
  OBVIOUS
<1> HIDE DEF result
<1>17. /\ Len(result.styles) = Len(starts)
       /\ result.parser # None => known /\ ParserFits(result.parser, source, starts)
       /\ NoneLost(seen, Len(source), starts, result.styles, known, result.pending)
  BY <1>9, <1>11, <1>13, <1>16
<1>18. WorkFits(result, source, starts, seen, known)
  BY <1>15, <1>17 DEF WorkFits
<1> QED BY <1>1, <1>18

\* A batch of lines, one after the other.
LEMMA ParseLinesKeep ==
    ASSUME TextFits, NEW seen, NEW known, NEW count \in Nat,
           WorkFits([styles |-> styles, pending |-> pending, checkpoints |-> checkpoints,
                     parser |-> parser, convergence_after |-> convergence_after],
                    source, starts, seen, known)
    PROVE  WorkFits(ParseLines(count), source, starts, seen, known)
<1> DEFINE Fit(work) == WorkFits(work, source, starts, seen, known)
           V == {work \in Works(Len(source), Len(starts)) : Fit(work)}
           first == [styles |-> styles, pending |-> pending, checkpoints |-> checkpoints,
                     parser |-> parser, convergence_after |-> convergence_after]
           OneMore(work) == IF work.parser = None THEN work ELSE ParseLine(work)
           advance == [q \in (1 .. count) \X V |-> OneMore(q[2])]
           Along(f) == f = [n \in 0 .. count |->
                              IF n = 0 THEN first
                              ELSE LET previous == f[n - 1]
                                   IN  IF previous.parser = None THEN previous ELSE ParseLine(previous)]
<1>1. \A work \in V : OneMore(work) \in V
  <2> SUFFICES ASSUME NEW work \in V PROVE OneMore(work) \in V
    OBVIOUS
  <2>1. Fit(work)
    OBVIOUS
  <2>2. CASE work.parser = None
    BY <2>2
  <2>3. CASE work.parser # None
    <3>1. known
      BY <2>1, <2>3 DEF WorkFits
    <3>2. Fit(ParseLine(work))
      BY <2>1, <2>3, <3>1, ParseLineKeeps
    <3>3. ParseLine(work) \in Works(Len(source), Len(starts))
      BY <3>2 DEF WorkFits
    <3> QED BY <2>3, <3>2, <3>3
  <2> QED BY <2>2, <2>3
<1>2. first \in V
  BY DEF WorkFits
<1> HIDE DEF V, first, OneMore
<1>3. advance \in [(1 .. count) \X V -> V] /\ \A n \in 1 .. count, w \in V : advance[<<n, w>>] = OneMore(w)
  BY <1>1
<1> HIDE DEF advance
<1>4. PICK f \in [0 .. count -> V] : Recurs(f, first, advance, count)
  BY <1>2, <1>3, Recursion
<1>5. f[0] = first /\ \A n \in 1 .. count : f[n] = OneMore(f[n - 1])
  <2>1. f[0] = first
    BY <1>4 DEF Recurs
  <2>2. ASSUME NEW n \in 1 .. count PROVE f[n] = OneMore(f[n - 1])
    <3>1. n - 1 \in 0 .. count
      OBVIOUS
    <3>2. f[n - 1] \in V /\ f[n] = advance[<<n, f[n - 1]>>]
      BY <1>4, <3>1 DEF Recurs
    <3> QED BY <1>3, <3>2
  <2> QED BY <2>1, <2>2
<1>6. Along(f)
  <2>1. \A n \in 0 .. count : f[n] = IF n = 0 THEN first ELSE OneMore(f[n - 1])
    <3> SUFFICES ASSUME NEW n \in 0 .. count PROVE f[n] = IF n = 0 THEN first ELSE OneMore(f[n - 1])
      OBVIOUS
    <3>1. n = 0 \/ n \in 1 .. count
      OBVIOUS
    <3> QED BY <1>5, <3>1
  <2> USE DEF OneMore
  <2> QED BY <1>4, <2>1
<1> DEFINE g == CHOOSE h : Along(h)
<1>7. Along(g)
  BY <1>6
<1>8. ParseLines(count) = g[count]
  BY DEF ParseLines, first
<1> HIDE DEF g
<1>9. g = f
  <2> DEFINE S == {n \in 0 .. count : g[n] = f[n]}
  <2>1. \A n \in 0 .. count : g[n] = IF n = 0 THEN first ELSE OneMore(g[n - 1])
    BY <1>7 DEF OneMore
  <2>2. 0 \in S
    <3>1. 0 \in 0 .. count /\ g[0] = first
      BY <2>1
    <3> QED BY <1>5, <3>1
  <2>3. ASSUME NEW n \in 0 .. count - 1, n \in S PROVE n + 1 \in S
    <3>1. n + 1 \in 1 .. count /\ n + 1 \in 0 .. count /\ (n + 1) - 1 = n /\ n + 1 # 0
      OBVIOUS
    <3>2. f[n + 1] = OneMore(f[n])
      BY <1>5, <3>1
    <3>3. g[n + 1] = OneMore(g[n])
      BY <2>1, <3>1
    <3>4. f[n] = g[n]
      BY <2>3
    <3> QED BY <3>1, <3>2, <3>3, <3>4
  <2> HIDE DEF S
  <2>4. ASSUME NEW m \in 0 .. count PROVE m \in S
    <3>1. m \in Nat /\ \A n \in 0 .. m - 1 : n \in S => n + 1 \in S
      BY <2>3
    <3> QED BY <2>2, <3>1, Counting
  <2>5. \A n \in 0 .. count : g[n] = f[n]
    BY <2>4 DEF S
  <2>6. g = [n \in 0 .. count |-> g[n]] /\ f = [n \in 0 .. count |-> f[n]]
    BY <1>4, <1>7
  <2> QED BY <2>5, <2>6
<1>10. ParseLines(count) \in V
  BY <1>4, <1>8, <1>9
<1> QED BY <1>10 DEF V

---------------------------------------------------------------------------
(* The document                                                             *)

\* A batch is the first pending styles, or empty.
BatchFits(range, spans, waiting, s, cached, known) ==
    \/ range = <<0, 0>>
    \/ /\ waiting # None /\ range[1] = waiting[1]
       /\ range[2] \in Nat /\ range[1] <= range[2] /\ range[2] <= waiting[2]
       /\ \A i \in 1 .. range[2] - range[1] :
             spans[i] = StyleOf(s, cached, known, range[1] + i - 1)

\* A published batch is of the present text, or of an earlier one.
PublishedFits(batch, now, settings, waiting, s, cached, known) ==
    batch # None =>
      /\ batch.revision \in Nat /\ batch.revision <= now
      /\ batch.configuration \in Nat /\ batch.configuration <= settings
      /\ batch.revision = now /\ batch.configuration = settings
           => BatchFits(batch.range, batch.spans, waiting, s, cached, known)

\* What a document has for a parse to work on.
WorkOf(all, range, marks, p, after) ==
    [styles |-> all, pending |-> range, checkpoints |-> marks, parser |-> p, convergence_after |-> after]

\* The invariant: the lines are those of the text, what a parse works on fits,
\* and so does the batch on its way.
DocumentFits ==
    /\ source \in Seq(STRING) /\ AreStarts(starts, source)
    /\ config \in Configurations /\ syntax \in BOOLEAN \X BOOLEAN
    /\ revision \in Nat /\ configuration \in Nat /\ metadata_dirty \in BOOLEAN
    /\ displayed \in Seq(Style) /\ Len(displayed) = Len(source)
    /\ WorkFits(WorkOf(styles, pending, checkpoints, parser, convergence_after),
                source, starts, displayed, syntax[1])
    /\ PublishedFits(published, revision, configuration, pending, starts, styles, syntax[1])

\* That it fits, part by part.
LEMMA WorkOfIs ==
    ASSUME NEW all, NEW range, NEW marks, NEW p, NEW after, NEW text, NEW s, NEW seen, NEW known
    PROVE  WorkFits(WorkOf(all, range, marks, p, after), text, s, seen, known) <=>
             /\ all \in Seq(Seq(Style)) /\ range \in Ranges(Len(text)) \cup {None}
             /\ marks \in Marks(Len(s)) /\ p \in Parsers \cup {None} /\ after \in Nat
             /\ Len(all) = Len(s)
             /\ p # None => known /\ ParserFits(p, text, s)
             /\ ~known => DOMAIN marks = {}
             /\ NoneLost(seen, Len(text), s, all, known, range)
<1> DEFINE w == WorkOf(all, range, marks, p, after)
<1>1. w \in Works(Len(text), Len(s)) <=>
         /\ all \in Seq(Seq(Style)) /\ range \in Ranges(Len(text)) \cup {None}
         /\ marks \in Marks(Len(s)) /\ p \in Parsers \cup {None} /\ after \in Nat
  BY DEF WorkOf, Works
<1>2. w.styles = all /\ w.pending = range /\ w.checkpoints = marks /\ w.parser = p
  BY DEF WorkOf
<1> HIDE DEF w
<1> QED BY <1>1, <1>2 DEF WorkFits, w

\* A parse from the beginning, and everything pending.
LEMMA FreshFits ==
    ASSUME NEW text \in Seq(STRING), NEW s, AreStarts(s, text), NEW known \in BOOLEAN,
           NEW range \in Ranges(Len(text)) \cup {None}, NEW seen,
           NEW all \in Seq(Seq(Style)), Len(all) = Len(s)
    PROVE  WorkFits(WorkOf(all, dirty(range, 0, Len(text)),
                           IF known THEN [key \in {0} |-> "main"] ELSE <<>>,
                           IF known THEN Parser(0, "main") ELSE None, Len(s)),
                    text, s, seen, known)
<1> DEFINE marks == IF known THEN [key \in {0} |-> "main"] ELSE <<>>
           p == IF known THEN Parser(0, "main") ELSE None
           more == dirty(range, 0, Len(text))
<1>1. Len(text) \in Nat /\ Len(s) \in Nat \ {0} /\ 0 \in 0 .. Len(s) - 1 /\ 0 \in 0 .. Len(s) /\ "main" \in Modes
  BY StartsFit DEF Modes
<1>2. more \in Ranges(Len(text)) \cup {None} /\ NoneLost(seen, Len(text), s, all, known, more)
  BY <1>1, AllCovered
<1>3. marks \in Marks(Len(s)) /\ (~known => DOMAIN marks = {})
  <2>1. CASE known
    <3>1. marks \in [{0} -> Modes \ {"attempt"}] /\ {0} \in SUBSET (0 .. Len(s))
      BY <1>1, <2>1
    <3> QED BY <2>1, <3>1 DEF Marks
  <2>2. CASE ~known
    <3>1. marks = <<>> /\ Len(s) \in Nat
      BY <1>1, <2>2
    <3> QED BY <3>1, NoMarks
  <2> QED BY <2>1, <2>2
<1>4. p \in Parsers \cup {None} /\ (p # None => known /\ ParserFits(p, text, s))
  <2>1. ParserFits(Parser(0, "main"), text, s)
    BY <1>1, FreshParser
  <2>2. Parser(0, "main") \in Parsers
    BY <2>1 DEF ParserFits
  <2> QED BY <2>1, <2>2
<1> HIDE DEF marks, p, more
<1>5. WorkFits(WorkOf(all, more, marks, p, Len(s)), text, s, seen, known)
  BY <1>1, <1>2, <1>3, <1>4, WorkOfIs
<1> QED BY <1>5 DEF marks, p, more

\* A language is resolved to a syntax or to none.
LEMMA Resolved ==
    ASSUME NEW language \in Languages, NEW text
    PROVE  resolve(language, text) \in BOOLEAN \X BOOLEAN
BY DEF resolve, Languages

\* A new document fits (new);
LEMMA FirstFits == Init => DocumentFits
<1> SUFFICES ASSUME Init PROVE DocumentFits
  OBVIOUS
<1>1. source \in Seq(STRING) /\ AreStarts(starts, source) /\ Len(source) \in Nat
  <2>1. source \in Seq(STRING) /\ starts = line_starts(source)
    BY TextsAssumption DEF Init
  <2> QED BY <2>1, LineStarts
<1>2. config \in Configurations /\ config[1] \in Languages
  BY ConfigurationsAssumption DEF Init
<1>3. syntax \in BOOLEAN \X BOOLEAN /\ syntax[1] \in BOOLEAN
  BY <1>2, Resolved DEF Init
<1>4. displayed \in Seq(Style) /\ Len(displayed) = Len(source)
  <2>1. displayed = [i \in 1 .. Len(source) |-> Plain] /\ Plain \in Style
    BY <1>1 DEF Init, Style
  <2> QED BY <1>1, <2>1
<1>5. styles \in Seq(Seq(Style)) /\ Len(styles) = Len(starts)
  <2>1. Len(starts) \in Nat /\ DOMAIN starts = 1 .. Len(starts)
    BY <1>1, StartsFit
  <2>2. styles = [i \in 1 .. Len(starts) |-> <<>>] /\ <<>> \in Seq(Style)
    BY <2>1 DEF Init
  <2> QED BY <2>1, <2>2
<1>6. WorkFits(WorkOf(styles, pending, checkpoints, parser, convergence_after),
               source, starts, displayed, syntax[1])
  <2>1. None \in Ranges(Len(source)) \cup {None}
    OBVIOUS
  <2> DEFINE known == syntax[1]
  <2>2. /\ pending = dirty(None, 0, Len(source)) /\ convergence_after = Len(starts)
        /\ checkpoints = IF known THEN [key \in {0} |-> "main"] ELSE <<>>
        /\ parser = IF known THEN Parser(0, "main") ELSE None
    BY DEF Init
  <2>3. known \in BOOLEAN
    BY <1>3
  <2> HIDE DEF known
  <2>4. WorkFits(WorkOf(styles, pending, checkpoints, parser, convergence_after),
                 source, starts, displayed, known)
    BY <1>1, <1>5, <2>1, <2>2, <2>3, FreshFits
  <2> QED BY <2>4 DEF known
<1>7. PublishedFits(published, revision, configuration, pending, starts, styles, syntax[1])
  BY DEF Init, PublishedFits
<1> QED BY <1>1, <1>2, <1>3, <1>4, <1>6, <1>7 DEF DocumentFits, Init

\* What a restart leaves.
LEMMA RestartFits ==
    ASSUME NEW text \in Seq(STRING), NEW s, AreStarts(s, text), NEW resolved \in BOOLEAN \X BOOLEAN,
           NEW range \in Ranges(Len(text)) \cup {None}, NEW seen,
           NEW all \in Seq(Seq(Style)), Len(all) = Len(s), Restart(resolved, text, Len(s), range)
    PROVE  /\ syntax' = resolved /\ metadata_dirty' \in BOOLEAN
           /\ WorkFits(WorkOf(all, pending', checkpoints', parser', convergence_after'),
                       text, s, seen, resolved[1])
<1> DEFINE known == resolved[1]
<1>1. /\ syntax' = resolved /\ metadata_dirty' = TRUE
      /\ pending' = dirty(range, 0, Len(text)) /\ convergence_after' = Len(s)
      /\ checkpoints' = IF known THEN [key \in {0} |-> "main"] ELSE <<>>
      /\ parser' = IF known THEN Parser(0, "main") ELSE None
  BY DEF Restart
<1>2. known \in BOOLEAN
  OBVIOUS
<1> HIDE DEF known
<1>3. WorkFits(WorkOf(all, pending', checkpoints', parser', convergence_after'), text, s, seen, known)
  BY <1>1, <1>2, FreshFits
<1> QED BY <1>1, <1>3 DEF known

\* What a resumed parse starts from: the known states are of lines of the new
\* text, and one of them is its state.
LEMMA ResumeFits ==
    ASSUME NEW text \in Seq(STRING), NEW s, AreStarts(s, text), NEW seen,
           NEW all \in Seq(Seq(Style)), Len(all) = Len(s),
           NEW first \in Nat, NEW last \in Nat, first <= last, last <= Len(starts) - 1,
           Len(starts) \in Nat, NEW size \in Nat \ {0},
           Len(s) = first + size + Len(starts) - last - 1,
           NEW range \in Ranges(Len(text)) \cup {None},
           NoneLost(seen, Len(text), s, all, TRUE, range),
           checkpoints \in Marks(Len(starts)), convergence_after \in Nat,
           parser # None => parser.next \in Nat,
           syntax \in BOOLEAN \X BOOLEAN, syntax[1] = TRUE,
           Resume(first, last, last - first + 1, size, Len(s), text, range)
    PROVE  /\ syntax' \in BOOLEAN \X BOOLEAN /\ metadata_dirty' \in BOOLEAN
           /\ WorkFits(WorkOf(all, pending', checkpoints', parser', convergence_after'),
                       text, s, seen, syntax'[1])
<1> DEFINE old_count == last - first + 1
           kept == Relocated(first, last, old_count, size)
           reachable == {key \in DOMAIN kept : key <= RestartLine(first)}
           best == Max(reachable)
           after == ConvergenceAfter(first, last, old_count, size, Len(s))
<1>1. CASE reachable = {}
  <2>1. Restart(syntax, text, Len(s), range)
    BY <1>1 DEF Resume
  <2> QED BY <2>1, RestartFits
<1>2. CASE reachable # {}
  <2>1. /\ parser' = Parser(best, kept[best]) /\ checkpoints' = kept /\ convergence_after' = after
        /\ pending' = range /\ metadata_dirty' = TRUE /\ syntax' = syntax
    BY <1>2 DEF Resume
  <2>2. old_count \in Nat /\ Len(s) \in Nat
    OBVIOUS
  <2>3. PICK keys \in SUBSET (0 .. Len(starts)) : checkpoints \in [keys -> Modes \ {"attempt"}]
    BY DEF Marks
  <2> HIDE DEF kept, best, after
  <2>4. kept \in Marks(Len(s))
    <3>1. CASE old_count = size
      <4>1. Len(s) = Len(starts)
        <5>1. size = last - first + 1
          BY <3>1
        <5>2. \A n \in Nat, m \in Nat : m = first + size + n - last - 1 => m = n
          BY <5>1
        <5> QED BY <2>2, <5>2
      <4> QED BY <3>1, <4>1 DEF kept, Relocated
    <3>2. CASE old_count # size
      <4> DEFINE before == {key \in DOMAIN checkpoints : key <= first}
                 behind == {key \in DOMAIN checkpoints : key > last}
                 To(key) == key - old_count + size
                 moved == before \cup {To(k) : k \in behind}
      <4>1. kept = [key \in moved |-> IF key \in before THEN checkpoints[key]
                                       ELSE checkpoints[key + old_count - size]]
        BY <3>2 DEF kept, Relocated
      <4>2. \A key \in before : key \in keys /\ key \in 0 .. Len(s)
        BY <2>3
      <4>3. \A key \in behind : key \in keys /\ To(key) \in 0 .. Len(s) /\ To(key) + old_count - size = key
        BY <2>2, <2>3
      <4> HIDE DEF before, behind, To
      <4>4. \A key \in moved : key \in 0 .. Len(s)
        BY <4>2, <4>3
      <4>5. \A key \in moved : (IF key \in before THEN checkpoints[key]
                                ELSE checkpoints[key + old_count - size]) \in Modes \ {"attempt"}
        <5> SUFFICES ASSUME NEW key \in moved
                     PROVE  (IF key \in before THEN checkpoints[key]
                             ELSE checkpoints[key + old_count - size]) \in Modes \ {"attempt"}
          OBVIOUS
        <5>1. CASE key \in before
          BY <2>3, <4>2, <5>1
        <5>2. CASE key \notin before
          <6>1. PICK k \in behind : key = To(k)
            BY <5>2
          <6>2. key + old_count - size \in keys
            BY <4>3, <6>1
          <6> QED BY <2>3, <5>2, <6>2
        <5> QED BY <5>1, <5>2
      <4> HIDE DEF moved
      <4>6. kept \in [moved -> Modes \ {"attempt"}] /\ moved \in SUBSET (0 .. Len(s))
        BY <4>1, <4>4, <4>5
      <4> QED BY <4>6 DEF Marks
    <3> QED BY <3>1, <3>2
  <2>5. PICK places \in SUBSET (0 .. Len(s)) : kept \in [places -> Modes \ {"attempt"}]
    BY <2>4 DEF Marks
  <2>6. RestartLine(first) \in Nat /\ RestartLine(first) <= first
    <3>1. parser # None => Min({first, parser.next}) = IF first <= parser.next THEN first ELSE parser.next
      BY OfTwo
    <3> QED BY <3>1 DEF RestartLine
  <2>7. best \in reachable
    <3>1. reachable \in SUBSET Nat /\ \A key \in reachable : key <= first
      <4>1. \A key \in reachable : key \in places /\ key <= RestartLine(first)
        BY <2>5
      <4>2. \A key \in places : key \in Nat
        BY <2>2
      <4>3. ASSUME NEW key \in reachable PROVE key \in Nat /\ key <= first
        <5>1. key \in Nat /\ key <= RestartLine(first)
          BY <4>1, <4>2
        <5> QED BY <2>6, <5>1
      <4> QED BY <4>3
    <3> HIDE DEF reachable
    <3> QED BY <1>2, <3>1, MaxIs DEF best
  <2>8. best \in 0 .. Len(s) - 1 /\ kept[best] \in Modes
    <3>1. best \in places /\ best \in Nat /\ best <= first
      BY <2>5, <2>6, <2>7
    <3>2. first <= Len(s) - 1
      OBVIOUS
    <3> QED BY <2>2, <2>5, <3>1, <3>2
  <2>9. after \in Nat
    <3> DEFINE moved == IF old_count = size THEN convergence_after
                        ELSE IF convergence_after > last
                          THEN convergence_after - old_count + size
                          ELSE Min({convergence_after, first})
               least == Min({moved, Len(s)})
    <3>1. moved \in Nat
      <4>1. Min({convergence_after, first}) \in Nat
        BY OfTwo
      <4> QED BY <2>2, <4>1
    <3> HIDE DEF moved
    <3>2. least \in Nat
      BY <2>2, <3>1, OfTwo
    <3> HIDE DEF least
    <3>3. first + size \in Nat
      OBVIOUS
    <3>4. Max({first + size, least}) \in Nat
      BY <3>2, <3>3, OfTwo
    <3> QED BY <3>4 DEF after, ConvergenceAfter, moved, least
  <2>10. ParserFits(Parser(best, kept[best]), text, s)
    BY <2>8, FreshParser
  <2>11. Parser(best, kept[best]) \in Parsers
    BY <2>10 DEF ParserFits
  <2> HIDE DEF reachable
  <2>12. WorkFits(WorkOf(all, pending', checkpoints', parser', convergence_after'), text, s, seen, TRUE)
    BY <2>1, <2>4, <2>9, <2>10, <2>11, WorkOfIs
  <2> QED BY <2>1, <2>12
<1> QED BY <1>1, <1>2

\* it does with new settings (configure),
LEMMA ConfigureFits ==
    ASSUME DocumentFits, NEW new_config \in Configurations, configure(new_config)
    PROVE  DocumentFits'
<1>1. /\ source \in Seq(STRING) /\ AreStarts(starts, source) /\ syntax \in BOOLEAN \X BOOLEAN
      /\ revision \in Nat /\ configuration \in Nat
      /\ displayed \in Seq(Style) /\ Len(displayed) = Len(source)
      /\ WorkFits(WorkOf(styles, pending, checkpoints, parser, convergence_after),
                  source, starts, displayed, syntax[1])
      /\ PublishedFits(published, revision, configuration, pending, starts, styles, syntax[1])
  BY DEF DocumentFits
<1>2. /\ configuration' = configuration + 1 /\ config' = new_config
      /\ Restart(resolve(new_config[1], source), source, Len(starts), pending)
      /\ source' = source /\ starts' = starts /\ styles' = styles /\ revision' = revision
      /\ published' = published /\ displayed' = displayed
  BY DEF configure, caller
<1>3. resolve(new_config[1], source) \in BOOLEAN \X BOOLEAN
  <2>1. new_config[1] \in Languages
    BY ConfigurationsAssumption
  <2> QED BY <2>1, Resolved
<1>4. styles \in Seq(Seq(Style)) /\ Len(styles) = Len(starts) /\ pending \in Ranges(Len(source)) \cup {None}
  BY <1>1, WorkOfIs
<1>5. /\ syntax' = resolve(new_config[1], source) /\ metadata_dirty' \in BOOLEAN
      /\ WorkFits(WorkOf(styles, pending', checkpoints', parser', convergence_after'),
                  source, starts, displayed, resolve(new_config[1], source)[1])
  BY <1>1, <1>2, <1>3, <1>4, RestartFits
<1>6. PublishedFits(published', revision', configuration', pending', starts', styles', syntax'[1])
  BY <1>1, <1>2 DEF PublishedFits
<1> QED BY <1>1, <1>2, <1>3, <1>5, <1>6 DEF DocumentFits

\* after an edit (edit),
LEMMA EditFits ==
    ASSUME DocumentFits, NEW start \in Nat, NEW deleted \in Nat, NEW inserted \in Seq(STRING),
           Edit(start, deleted, inserted)
    PROVE  DocumentFits'
<1> DEFINE more == Len(inserted)
           end == start + deleted
           first == LineOf(starts, start)
           last == LineOf(starts, end)
           from == From(starts, start)
           upto == Upto(source, starts, start, deleted, inserted)
           text == Edited(source, start, deleted, inserted)
           cut == SubSeq(text, from + 1, upto)
           lines == NewLines(source, starts, start, deleted, inserted)
           size == Len(lines)
           new == NewStarts(starts, deleted, inserted, first, last, from, lines)
           blank == [i \in DOMAIN lines |-> <<>>]
           rest == Replace(styles, first, last, blank)
           plain == [i \in DOMAIN inserted |-> Plain]
           moved == MovedRange(pending, start, end, more)
           range == dirty(moved, from, upto)
           now == Edited(displayed, start, deleted, plain)
           resolved == resolve(config[1], text)
<1>1. /\ source \in Seq(STRING) /\ AreStarts(starts, source) /\ syntax \in BOOLEAN \X BOOLEAN
      /\ config \in Configurations /\ revision \in Nat /\ configuration \in Nat /\ metadata_dirty \in BOOLEAN
      /\ displayed \in Seq(Style) /\ Len(displayed) = Len(source)
      /\ WorkFits(WorkOf(styles, pending, checkpoints, parser, convergence_after),
                  source, starts, displayed, syntax[1])
      /\ PublishedFits(published, revision, configuration, pending, starts, styles, syntax[1])
  BY DEF DocumentFits
<1>2. /\ styles \in Seq(Seq(Style)) /\ pending \in Ranges(Len(source)) \cup {None}
      /\ checkpoints \in Marks(Len(starts)) /\ parser \in Parsers \cup {None} /\ convergence_after \in Nat
      /\ Len(styles) = Len(starts)
      /\ parser # None => syntax[1] /\ ParserFits(parser, source, starts)
      /\ ~syntax[1] => DOMAIN checkpoints = {}
      /\ NoneLost(displayed, Len(source), starts, styles, syntax[1], pending)
  BY <1>1, WorkOfIs
<1>3. end <= Len(source)
  BY DEF Edit
<1>4. /\ lines \in Seq(Nat) /\ size \in Nat \ {0} /\ Len(cut) = upto - from
      /\ AreStarts(new, text) /\ Spliced(new, starts, first, last, size, deleted, more)
  <2>1. StartsEdited(source, starts, start, deleted, inserted)
    BY <1>1, <1>3, EditedStarts
  <2> QED BY <2>1 DEF StartsEdited
<1>5. /\ first \in 0 .. Len(starts) - 1 /\ last \in first .. Len(starts) - 1
  BY <1>1, <1>3, EditRange DEF Numbers
<1>6. plain \in Seq(Style) /\ Len(plain) = Len(inserted)
  <2>1. DOMAIN inserted = 1 .. Len(inserted) /\ Len(inserted) \in Nat /\ Plain \in Style
    BY DEF Style
  <2> QED BY <2>1
<1> HIDE DEF plain
<1>7. text \in Seq(STRING)
  BY <1>1, <1>3, EditedIs
<1>8. /\ rest \in Seq(Seq(Style)) /\ Len(rest) = Len(new)
      /\ now \in Seq(Style) /\ Len(now) = Len(text) /\ Len(text) \in Nat
      /\ range \in Ranges(Len(text)) \cup {None}
      /\ NoneLost(now, Len(text), new, rest, syntax[1], range)
  <2>1. StylesEdited(source, starts, start, deleted, inserted, displayed, plain, styles, syntax[1], pending)
    BY <1>1, <1>2, <1>3, <1>6, EditedStyles
  <2> QED BY <2>1 DEF StylesEdited
<1>9. resolved \in BOOLEAN \X BOOLEAN
  <2>1. config[1] \in Languages
    BY <1>1, ConfigurationsAssumption
  <2> QED BY <2>1, Resolved
\* The names of the edit are those of the model.
<1>10. line_at(start) = first /\ line_at(end) = last /\ line_end(last) - deleted + more = upto
       /\ starts[first + 1] = from
  BY DEF line_at, LineOf, line_end, LineEnd, Upto, From
<1>11. text = SubSeq(source, 1, start) \o inserted \o SubSeq(source, end + 1, Len(source))
  BY DEF Edited
<1>12. now = SubSeq(displayed, 1, start) \o [i \in DOMAIN inserted |-> Plain]
               \o SubSeq(displayed, end + 1, Len(displayed))
  BY DEF Edited, plain
<1>13. lines = EditedLines(line_starts(cut), last, upto - from)
  <2>1. lines = Found(cut, starts, last)
    BY DEF NewLines
  <2> HIDE DEF lines, cut, last, upto, from
  <2> QED BY <1>4, <2>1 DEF Found, EditedLines
<1>14. moved = IF pending = None THEN None
               ELSE <<map_offset(pending[1], start, end, more), map_offset(pending[2], start, end, more)>>
  BY DEF MovedRange
<1>15. new = Replace([i \in DOMAIN starts |->
                        IF i > last + 1 THEN starts[i] - deleted + more ELSE starts[i]],
                     first, last, [i \in DOMAIN lines |-> lines[i] + from])
  BY DEF NewStarts, Moved
<1> HIDE DEF first, last, from, upto, text, lines, new, now, more, moved
<1>16. /\ revision' = revision + 1 /\ source' = text /\ starts' = new /\ styles' = rest /\ displayed' = now
       /\ config' = config /\ configuration' = configuration /\ published' = published
  BY <1>10, <1>11, <1>12, <1>13, <1>15 DEF Edit, more, cut
<1>17. IF resolved # syntax
         THEN Restart(resolved, text, Len(new), range)
         ELSE IF syntax[1]
           THEN Resume(first, last, last - first + 1, size, Len(new), text, range)
           ELSE /\ pending' = range /\ metadata_dirty' = TRUE
                /\ UNCHANGED <<syntax, parser, checkpoints, convergence_after>>
  BY <1>10, <1>11, <1>13, <1>14, <1>16 DEF Edit, more, cut
<1> HIDE DEF rest, range, resolved, size
<1>18. /\ syntax' \in BOOLEAN \X BOOLEAN /\ metadata_dirty' \in BOOLEAN
       /\ WorkFits(WorkOf(rest, pending', checkpoints', parser', convergence_after'),
                   text, new, now, syntax'[1])
  <2>1. CASE resolved # syntax
    <3>1. Restart(resolved, text, Len(new), range)
      BY <1>17, <2>1
    <3>2. /\ syntax' = resolved /\ metadata_dirty' \in BOOLEAN
          /\ WorkFits(WorkOf(rest, pending', checkpoints', parser', convergence_after'),
                      text, new, now, resolved[1])
      BY <1>4, <1>7, <1>8, <1>9, <3>1, RestartFits
    <3> QED BY <1>9, <3>2
  <2>2. CASE resolved = syntax /\ syntax[1]
    <3>1. Resume(first, last, last - first + 1, size, Len(new), text, range)
      BY <1>17, <2>2
    <3>2. syntax[1] = TRUE
      BY <1>1, <2>2
    <3>3. NoneLost(now, Len(text), new, rest, TRUE, range)
      BY <1>8, <3>2
    <3>4. parser # None => parser.next \in Nat
      BY <1>2 DEF Parsers
    <3>5. /\ Len(starts) \in Nat /\ first \in Nat /\ last \in Nat /\ first <= last /\ last <= Len(starts) - 1
          /\ Len(new) = first + size + Len(starts) - last - 1
      <4>1. Len(starts) \in Nat /\ Len(new) = first + size + Len(starts) - last - 1
        BY <1>1, <1>4, StartsFit DEF Spliced, size
      <4> QED BY <1>5, <4>1
    <3> QED BY <1>1, <1>2, <1>4, <1>7, <1>8, <3>1, <3>2, <3>3, <3>4, <3>5, ResumeFits DEF size
  <2>3. CASE resolved = syntax /\ ~syntax[1]
    <3>1. /\ pending' = range /\ metadata_dirty' = TRUE /\ syntax' = syntax /\ parser' = parser
          /\ checkpoints' = checkpoints /\ convergence_after' = convergence_after
      BY <1>17, <2>3
    <3>2. parser = None /\ DOMAIN checkpoints = {}
      BY <1>2, <2>3
    <3>3. checkpoints \in Marks(Len(new))
      <4>1. PICK keys \in SUBSET (0 .. Len(starts)) : checkpoints \in [keys -> Modes \ {"attempt"}]
        BY <1>2 DEF Marks
      <4>2. keys = {}
        BY <3>2, <4>1
      <4> QED BY <4>1, <4>2 DEF Marks
    <3>4. WorkFits(WorkOf(rest, range, checkpoints, parser, convergence_after), text, new, now, syntax[1])
      BY <1>2, <1>8, <3>2, <3>3, WorkOfIs
    <3> QED BY <1>1, <3>1, <3>4
  <2> QED BY <2>1, <2>2, <2>3
<1>19. PublishedFits(published', revision', configuration', pending', starts', styles', syntax'[1])
  BY <1>1, <1>16 DEF PublishedFits
<1> QED BY <1>1, <1>4, <1>7, <1>8, <1>16, <1>18, <1>19 DEF DocumentFits

\* The style of a character is the one cached.
LEMMA StyleAtIs == \A o, cached : StyleAt(o, cached) = StyleOf(starts, cached, syntax[1], o)
BY DEF StyleAt, StyleOf, line_at, LineOf

\* A batch has the first pending styles (batch).
LEMMA BatchIs ==
    ASSUME source \in Seq(STRING), AreStarts(starts, source), NEW work, NEW seen,
           WorkFits(work, source, starts, seen, syntax[1])
    PROVE  BatchFits(BatchRange(work),
                     [i \in 1 .. BatchRange(work)[2] - BatchRange(work)[1] |->
                        StyleAt(BatchRange(work)[1] + i - 1, work.styles)],
                     work.pending, starts, work.styles, syntax[1])
<1> DEFINE valid_end == IF work.parser = None THEN Len(source) ELSE starts[work.parser.next + 1]
           range == work.pending
           batch == BatchRange(work)
           high == Min({range[2], valid_end, range[1] + ByteBudget})
           spans == [i \in 1 .. batch[2] - batch[1] |-> StyleAt(batch[1] + i - 1, work.styles)]
<1>1. range \in Ranges(Len(source)) \cup {None} /\ (work.parser # None => ParserFits(work.parser, source, starts))
  BY DEF WorkFits, Works
<1>2. valid_end \in Nat
  <2>1. CASE work.parser = None
    BY <2>1
  <2>2. CASE work.parser # None
    <3>1. work.parser.next \in 0 .. Len(starts) - 1
      BY <1>1, <2>2 DEF ParserFits
    <3>2. Len(starts) \in Nat /\ \A i \in 1 .. Len(starts) : starts[i] \in 0 .. Len(source)
      BY StartsFit
    <3>3. work.parser.next + 1 \in 1 .. Len(starts)
      BY <3>1, <3>2
    <3> QED BY <2>2, <3>2, <3>3
  <2> QED BY <2>1, <2>2
<1>3. batch = IF range = None THEN <<0, 0>>
              ELSE IF range[1] >= valid_end THEN <<0, 0>> ELSE <<range[1], high>>
  BY DEF BatchRange
<1> HIDE DEF valid_end, range, batch
<1>4. CASE batch = <<0, 0>>
  BY <1>4 DEF BatchFits, batch
<1>5. CASE batch # <<0, 0>>
  <2>1. range # None /\ ~(range[1] >= valid_end) /\ batch = <<range[1], high>>
    BY <1>3, <1>5
  <2>2. range[1] \in Nat /\ range[2] \in Nat /\ range[1] <= range[2]
    BY <1>1, <2>1 DEF Ranges
  <2>3. range[1] + ByteBudget \in Nat /\ ByteBudget \in Nat
    BY <2>2, BudgetAssumption
  <2> DEFINE a == range[1]
             b == range[2]
             c == range[1] + ByteBudget
  <2>4. a \in Nat /\ b \in Nat /\ c \in Nat
    BY <2>2, <2>3
  <2>5. high = Min({b, valid_end, c})
    OBVIOUS
  <2> HIDE DEF a, b, c, high
  <2>6. high \in {b, valid_end, c} /\ high <= b
    BY <1>2, <2>4, <2>5, OfThree
  <2>7. high \in Nat /\ a <= high /\ high <= b
    <3>1. a <= b /\ a <= valid_end /\ a <= c
      BY <1>2, <2>1, <2>2, <2>3, <2>4 DEF a, b, c
    <3> QED BY <1>2, <2>4, <2>6, <3>1
  <2>8. batch[1] = range[1] /\ batch[2] = high
    BY <2>1
  <2>9. \A i \in 1 .. batch[2] - batch[1] :
           spans[i] = StyleOf(starts, work.styles, syntax[1], batch[1] + i - 1)
    BY StyleAtIs
  <2> HIDE DEF spans
  <2>10. BatchFits(batch, spans, range, starts, work.styles, syntax[1])
    BY <2>1, <2>7, <2>8, <2>9 DEF BatchFits, a, b
  <2> QED BY <2>10 DEF batch, spans, range
<1> QED BY <1>4, <1>5

\* after a step (step),
LEMMA StepFits ==
    ASSUME DocumentFits, NEW count \in Nat, step(count)
    PROVE  DocumentFits'
<1> DEFINE work == ParseLines(count)
           range == BatchRange(work)
           spans == [i \in 1 .. range[2] - range[1] |-> StyleAt(range[1] + i - 1, work.styles)]
<1>1. /\ source \in Seq(STRING) /\ AreStarts(starts, source) /\ syntax \in BOOLEAN \X BOOLEAN
      /\ config \in Configurations /\ revision \in Nat /\ configuration \in Nat /\ metadata_dirty \in BOOLEAN
      /\ displayed \in Seq(Style) /\ Len(displayed) = Len(source)
      /\ WorkFits(WorkOf(styles, pending, checkpoints, parser, convergence_after),
                  source, starts, displayed, syntax[1])
  BY DEF DocumentFits
<1>2. TextFits
  BY <1>1 DEF TextFits
<1>3. WorkFits(work, source, starts, displayed, syntax[1])
  <2>1. WorkOf(styles, pending, checkpoints, parser, convergence_after)
          = [styles |-> styles, pending |-> pending, checkpoints |-> checkpoints,
             parser |-> parser, convergence_after |-> convergence_after]
    BY DEF WorkOf
  <2> HIDE DEF work
  <2>2. WorkFits(ParseLines(count), source, starts, displayed, syntax[1])
    BY <1>1, <1>2, <2>1, ParseLinesKeep
  <2> QED BY <2>2 DEF work
<1>4. /\ styles' = work.styles /\ pending' = work.pending /\ checkpoints' = work.checkpoints
      /\ parser' = work.parser /\ convergence_after' = work.convergence_after
      /\ published' = [revision |-> revision, configuration |-> configuration, range |-> range,
                       syntax |-> syntax, spans |-> spans]
      /\ source' = source /\ starts' = starts /\ config' = config /\ syntax' = syntax
      /\ revision' = revision /\ configuration' = configuration
      /\ metadata_dirty' = metadata_dirty /\ displayed' = displayed
  BY DEF step, text_state, caller
<1>5. BatchFits(range, spans, work.pending, starts, work.styles, syntax[1])
  <2> HIDE DEF work
  <2> QED BY <1>1, <1>3, BatchIs
<1> HIDE DEF work, range, spans
<1>6. WorkFits(WorkOf(work.styles, work.pending, work.checkpoints, work.parser, work.convergence_after),
               source, starts, displayed, syntax[1])
  <2>1. work \in Works(Len(source), Len(starts))
    BY <1>3 DEF WorkFits
  <2>2. work = WorkOf(work.styles, work.pending, work.checkpoints, work.parser, work.convergence_after)
    BY <2>1 DEF Works, WorkOf
  <2> QED BY <1>3, <2>2
<1>7. /\ published'.revision = revision /\ published'.configuration = configuration
      /\ published'.range = range /\ published'.spans = spans
  BY <1>4
<1>8. PublishedFits(published', revision', configuration', pending', starts', styles', syntax'[1])
  BY <1>1, <1>4, <1>5, <1>7 DEF PublishedFits
<1> QED BY <1>1, <1>4, <1>6, <1>8 DEF DocumentFits

\* and when a batch was applied (acknowledge),
LEMMA ApplyFits == ASSUME DocumentFits, Apply PROVE DocumentFits'
<1> DEFINE range == published.range
           spans == published.spans
           now == [i \in DOMAIN displayed |->
                     IF i > range[1] /\ i <= range[2] THEN spans[i - range[1]] ELSE displayed[i]]
           left == Acknowledged(published)
<1>1. /\ source \in Seq(STRING) /\ AreStarts(starts, source) /\ syntax \in BOOLEAN \X BOOLEAN
      /\ config \in Configurations /\ revision \in Nat /\ configuration \in Nat
      /\ displayed \in Seq(Style) /\ Len(displayed) = Len(source)
      /\ WorkFits(WorkOf(styles, pending, checkpoints, parser, convergence_after),
                  source, starts, displayed, syntax[1])
      /\ PublishedFits(published, revision, configuration, pending, starts, styles, syntax[1])
  BY DEF DocumentFits
<1>2. /\ styles \in Seq(Seq(Style)) /\ pending \in Ranges(Len(source)) \cup {None}
      /\ checkpoints \in Marks(Len(starts)) /\ parser \in Parsers \cup {None} /\ convergence_after \in Nat
      /\ Len(styles) = Len(starts)
      /\ parser # None => syntax[1] /\ ParserFits(parser, source, starts)
      /\ ~syntax[1] => DOMAIN checkpoints = {}
      /\ NoneLost(displayed, Len(source), starts, styles, syntax[1], pending)
  BY <1>1, WorkOfIs
<1>3. /\ displayed' = now /\ pending' = left /\ metadata_dirty' = FALSE /\ published' = None
      /\ source' = source /\ starts' = starts /\ config' = config /\ syntax' = syntax
      /\ revision' = revision /\ configuration' = configuration /\ styles' = styles
      /\ checkpoints' = checkpoints /\ parser' = parser /\ convergence_after' = convergence_after
  BY DEF Apply, text_state, parse_state
<1>4. BatchFits(range, spans, pending, starts, styles, syntax[1])
  BY <1>1 DEF Apply, IsCurrent, PublishedFits
<1>5. left = LET rest == IF pending # None /\ range[1] = pending[1] /\ range[2] > pending[1]
                           THEN <<range[2], pending[2]>> ELSE pending
             IN  IF rest = None THEN None ELSE IF rest[1] >= rest[2] THEN None ELSE rest
  BY DEF Acknowledged
<1>6. Len(source) \in Nat /\ DOMAIN displayed = 1 .. Len(source)
  BY <1>1
<1> HIDE DEF range, spans, left
<1>7. pending # None => /\ pending[1] \in Nat /\ pending[2] \in Nat
                        /\ pending[1] <= pending[2] /\ pending[2] <= Len(source)
  BY <1>2 DEF Ranges
<1>8. ASSUME NEW o \in Nat PROVE StyleOf(starts, styles, syntax[1], o) \in Style
  BY <1>1, <1>2, StyleIs
\* An empty batch, or one of nothing.
<1>9. CASE range = <<0, 0>>
  <2>1. now = displayed
    <3>1. \A i \in 1 .. Len(source) : ~(i > range[1] /\ i <= range[2])
      BY <1>9
    <3>2. now = [i \in DOMAIN displayed |-> displayed[i]]
      BY <1>6, <3>1
    <3> QED BY <1>1, <3>2
  <2>2. left = IF pending = None THEN None ELSE IF pending[1] >= pending[2] THEN None ELSE pending
    <3>1. pending # None => ~(range[1] = pending[1] /\ range[2] > pending[1])
      BY <1>7, <1>9
    <3> QED BY <1>5, <3>1
  <2>3. left \in Ranges(Len(source)) \cup {None} /\ \A o \in Nat : Covers(pending, o) => Covers(left, o)
    BY <1>2, <1>7, <2>2 DEF Covers
  <2>4. NoneLost(displayed, Len(source), starts, styles, syntax[1], left)
    <3>1. \A o \in 0 .. Len(source) - 1 : o \in Nat
      OBVIOUS
    <3> QED BY <1>2, <2>3, <3>1 DEF NoneLost
  <2>5. WorkFits(WorkOf(styles, left, checkpoints, parser, convergence_after),
                 source, starts, displayed, syntax[1])
    BY <1>2, <2>3, <2>4, WorkOfIs
  <2> HIDE DEF now
  <2> QED BY <1>1, <1>3, <2>1, <2>5 DEF DocumentFits, PublishedFits
\* A batch of the first pending styles.
<1>10. CASE range # <<0, 0>>
  <2>1. /\ pending # None /\ range[1] = pending[1]
        /\ range[2] \in Nat /\ range[1] <= range[2] /\ range[2] <= pending[2] /\ range[1] \in Nat
        /\ \A i \in 1 .. range[2] - range[1] :
              spans[i] = StyleOf(starts, styles, syntax[1], range[1] + i - 1)
    BY <1>4, <1>7, <1>10 DEF BatchFits
  <2>2. \A i \in 1 .. Len(source) :
           i > range[1] /\ i <= range[2] => spans[i - range[1]] = StyleOf(starts, styles, syntax[1], i - 1)
    <3> SUFFICES ASSUME NEW i \in 1 .. Len(source), i > range[1], i <= range[2]
                 PROVE  spans[i - range[1]] = StyleOf(starts, styles, syntax[1], i - 1)
      OBVIOUS
    <3> DEFINE j == i - range[1]
    <3>1. j \in 1 .. range[2] - range[1] /\ range[1] + j - 1 = i - 1
      BY <2>1
    <3> HIDE DEF j
    <3>2. spans[j] = StyleOf(starts, styles, syntax[1], i - 1)
      BY <2>1, <3>1
    <3> QED BY <3>2 DEF j
  <2>3. now \in Seq(Style) /\ Len(now) = Len(source)
        /\ \A i \in 1 .. Len(source) : now[i] = IF i > range[1] /\ i <= range[2]
                                                  THEN StyleOf(starts, styles, syntax[1], i - 1)
                                                  ELSE displayed[i]
    <3>1. \A i \in 1 .. Len(source) :
             (IF i > range[1] /\ i <= range[2] THEN spans[i - range[1]] ELSE displayed[i])
               = (IF i > range[1] /\ i <= range[2] THEN StyleOf(starts, styles, syntax[1], i - 1)
                  ELSE displayed[i])
      BY <2>2
    <3>2. \A i \in 1 .. Len(source) :
             (IF i > range[1] /\ i <= range[2] THEN StyleOf(starts, styles, syntax[1], i - 1)
                  ELSE displayed[i]) \in Style
      <4>1. \A i \in 1 .. Len(source) : i - 1 \in Nat /\ displayed[i] \in Style
        BY <1>1, <1>6
      <4> QED BY <1>8, <4>1
    <3>3. now = [i \in 1 .. Len(source) |-> IF i > range[1] /\ i <= range[2] THEN spans[i - range[1]]
                                             ELSE displayed[i]]
      BY <1>6
    <3> HIDE DEF now
    <3>4. \A i \in 1 .. Len(source) : now[i] = IF i > range[1] /\ i <= range[2]
                                                 THEN StyleOf(starts, styles, syntax[1], i - 1)
                                                 ELSE displayed[i]
      BY <3>1, <3>3
    <3>5. DOMAIN now = 1 .. Len(source) /\ now = [i \in 1 .. Len(source) |-> now[i]]
      BY <3>3
    <3>6. \A i \in 1 .. Len(source) : now[i] \in Style
      BY <3>2, <3>4
    <3> QED BY <1>6, <3>4, <3>5, <3>6
  <2> HIDE DEF now
  <2>4. /\ left \in Ranges(Len(source)) \cup {None}
        /\ \A o \in Nat : Covers(pending, o) /\ ~(range[1] <= o /\ o < range[2]) => Covers(left, o)
    <3> DEFINE a == pending[1]
               b == range[2]
               c == pending[2]
    <3>1. a \in Nat /\ b \in Nat /\ c \in Nat /\ a <= b /\ b <= c /\ c <= Len(source) /\ pending \in Ranges(Len(source))
      BY <1>2, <1>7, <2>1
    <3>2. \A o \in Nat : Covers(pending, o) /\ ~(range[1] <= o /\ o < range[2]) => b <= o /\ o < c
      BY <2>1, <3>1 DEF Covers
    <3>3. CASE b > a
      <4>1. <<b, c>> \in Ranges(Len(source)) /\ <<b, c>> # None
        BY <3>1, NoneAssumption DEF Ranges
      <4>2. left = IF b >= c THEN None ELSE <<b, c>>
        BY <1>5, <2>1, <3>3, <4>1
      <4> HIDE DEF b, c
      <4>3. CASE b >= c
        BY <3>1, <3>2, <4>2, <4>3
      <4>4. CASE ~(b >= c)
        BY <3>2, <4>1, <4>2, <4>4 DEF Covers
      <4> QED BY <4>3, <4>4
    <3>4. CASE ~(b > a)
      <4>1. left = IF pending[1] >= pending[2] THEN None ELSE pending
        BY <1>5, <2>1, <3>4
      <4> QED BY <1>7, <2>1, <3>1, <4>1 DEF Covers
    <3> QED BY <3>3, <3>4
  <2>5. NoneLost(now, Len(source), starts, styles, syntax[1], left)
    <3> SUFFICES ASSUME NEW o \in 0 .. Len(source) - 1, now[o + 1] # StyleOf(starts, styles, syntax[1], o)
                 PROVE  Covers(left, o)
      BY DEF NoneLost
    <3>1. o \in Nat /\ o + 1 \in 1 .. Len(source) /\ (o + 1) - 1 = o
      BY <1>6
    <3>2. ~(o + 1 > range[1] /\ o + 1 <= range[2]) /\ now[o + 1] = displayed[o + 1]
      BY <2>3, <3>1
    <3>3. ~(range[1] <= o /\ o < range[2])
      BY <2>1, <3>1, <3>2
    <3>4. Covers(pending, o)
      BY <1>2, <3>2 DEF NoneLost
    <3> QED BY <2>4, <3>1, <3>3, <3>4
  <2>6. WorkFits(WorkOf(styles, left, checkpoints, parser, convergence_after),
                 source, starts, now, syntax[1])
    BY <1>2, <2>4, <2>5, WorkOfIs
  <2>7. now \in Seq(Style) /\ Len(now) = Len(source)
    BY <2>3
  <2> QED BY <1>1, <1>3, <2>6, <2>7 DEF DocumentFits, PublishedFits
<1> QED BY <1>9, <1>10

\* or was not.
LEMMA RejectFits == ASSUME DocumentFits, Reject PROVE DocumentFits'
<1>1. /\ published' = None /\ source' = source /\ starts' = starts /\ config' = config /\ syntax' = syntax
      /\ revision' = revision /\ configuration' = configuration /\ styles' = styles
      /\ checkpoints' = checkpoints /\ parser' = parser /\ convergence_after' = convergence_after
      /\ pending' = pending /\ metadata_dirty' = metadata_dirty /\ displayed' = displayed
  BY DEF Reject, text_state, parse_state
<1> QED BY <1>1 DEF DocumentFits, PublishedFits

\* So every step keeps the invariant.
LEMMA NextFits == DocumentFits /\ [Next]_vars => DocumentFits'
<1> SUFFICES ASSUME DocumentFits, [Next]_vars PROVE DocumentFits'
  OBVIOUS
<1>1. ASSUME NEW inserted \in Insertions, Inserts(inserted) PROVE DocumentFits'
  <2>1. PICK start \in 0 .. Len(source), deleted \in 0 .. MaxDeleted : Edit(start, deleted, inserted)
    BY <1>1 DEF Inserts
  <2>2. start \in Nat /\ deleted \in Nat
    <3>1. Len(source) \in Nat
      BY DEF DocumentFits
    <3> QED BY <3>1, DeletedAssumption
  <2>3. inserted \in Seq(STRING)
    BY TextsAssumption
  <2> QED BY <2>1, <2>2, <2>3, EditFits
<1>2. ASSUME NEW new_config \in Configurations, configure(new_config) PROVE DocumentFits'
  BY <1>2, ConfigureFits
<1>3. ASSUME Steps PROVE DocumentFits'
  <2>1. PICK count \in 1 .. LineBudget : step(count)
    BY <1>3 DEF Steps
  <2>2. count \in Nat
    BY BudgetAssumption
  <2> QED BY <2>1, <2>2, StepFits
<1>4. ASSUME Apply PROVE DocumentFits'
  BY <1>4, ApplyFits
<1>5. ASSUME Reject PROVE DocumentFits'
  BY <1>5, RejectFits
<1>6. ASSUME UNCHANGED vars PROVE DocumentFits'
  BY <1>6 DEF DocumentFits, vars, text_state, parse_state, caller, PublishedFits
<1> QED BY <1>1, <1>2, <1>3, <1>4, <1>5, <1>6 DEF Next

\* What fits is of its types, has the lines of its text and loses no style.
LEMMA FitsSuffices == DocumentFits => TypeOK /\ LinesAreThoseOfTheText /\ NoChangeIsLost
<1> SUFFICES ASSUME DocumentFits PROVE TypeOK /\ LinesAreThoseOfTheText /\ NoChangeIsLost
  OBVIOUS
<1>1. /\ source \in Seq(STRING) /\ AreStarts(starts, source) /\ syntax \in BOOLEAN \X BOOLEAN
      /\ config \in Configurations /\ metadata_dirty \in BOOLEAN
      /\ displayed \in Seq(Style) /\ Len(displayed) = Len(source)
      /\ WorkFits(WorkOf(styles, pending, checkpoints, parser, convergence_after),
                  source, starts, displayed, syntax[1])
  BY DEF DocumentFits
<1>2. /\ styles \in Seq(Seq(Style)) /\ pending \in Ranges(Len(source)) \cup {None}
      /\ checkpoints \in Marks(Len(starts)) /\ convergence_after \in Nat
      /\ Len(styles) = Len(starts)
      /\ parser # None => syntax[1] /\ ParserFits(parser, source, starts)
      /\ NoneLost(displayed, Len(source), starts, styles, syntax[1], pending)
  BY <1>1, WorkOfIs
<1>3. LinesAreThoseOfTheText
  BY <1>1, LineStarts, StartsAreUnique DEF LinesAreThoseOfTheText
<1>4. NoChangeIsLost
  <2>1. \A o : StyleAt(o, styles) = StyleOf(starts, styles, syntax[1], o)
    BY StyleAtIs
  <2> QED BY <1>2, <2>1 DEF NoChangeIsLost, NoneLost, Covers
<1>5. TypeOK
  <2>1. starts \in Seq(Nat) /\ Len(starts) \in Nat
    BY <1>1, StartsFit
  <2>2. \A i \in DOMAIN styles : styles[i] \in Seq(Style)
    BY <1>2
  <2>3. parser # None => parser.next \in 0 .. Len(starts) - 1
    BY <1>2 DEF ParserFits
  <2>4. DOMAIN checkpoints \subseteq 0 .. Len(starts)
        /\ \A key \in DOMAIN checkpoints : checkpoints[key] \in Modes \ {"attempt"}
    BY <1>2 DEF Marks
  <2>5. pending # None => pending[1] \in 0 .. Len(source) /\ pending[2] \in pending[1] .. Len(source)
    <3> SUFFICES ASSUME pending # None
                 PROVE  pending[1] \in 0 .. Len(source) /\ pending[2] \in pending[1] .. Len(source)
      OBVIOUS
    <3>1. /\ pending[1] \in Nat /\ pending[2] \in Nat
          /\ pending[1] <= pending[2] /\ pending[2] <= Len(source) /\ Len(source) \in Nat
      BY <1>1, <1>2 DEF Ranges
    <3> QED BY <3>1
  <2> QED BY <1>1, <1>2, <2>1, <2>2, <2>3, <2>4, <2>5 DEF TypeOK
<1> QED BY <1>3, <1>4, <1>5

\* For any texts, insertions and settings, any number of edits, changes of the
\* settings and rejected batches: the lines spliced at each edit are those of the
\* text, and a style the editor does not show is pending or still to be parsed
\* (edit, step and acknowledge in document.rs).
THEOREM DocumentLosesNothing == Spec => [](TypeOK /\ LinesAreThoseOfTheText /\ NoChangeIsLost)
<1>1. Init => DocumentFits
  BY FirstFits
<1>2. DocumentFits /\ [Next]_vars => DocumentFits'
  BY NextFits
<1>3. DocumentFits => TypeOK /\ LinesAreThoseOfTheText /\ NoChangeIsLost
  BY FitsSuffices
<1> QED BY <1>1, <1>2, <1>3, PTL DEF Spec

---------------------------------------------------------------------------
(* The parts of the run                                                     *)

\* The parts that are explored are behaviours of the document.
THEOREM PartsLoseNothing == MCSpec => []EditsLoseNothing
<1> DEFINE Inv == part \in Parts /\ DocumentFits
<1>1. MCInit => Inv
  BY FirstFits DEF MCInit
<1>2. Inv /\ [MCNext]_<<vars, part>> => Inv'
  <2> SUFFICES ASSUME Inv, [MCNext]_<<vars, part>> PROVE Inv'
    OBVIOUS
  <2>1. CASE MCNext
    <3>1. part' = part
      BY <2>1 DEF MCNext
    <3>2. ConfigurationsOf[part] \subseteq Configurations /\ InsertionsOf[part] \subseteq Insertions
      BY PartsAssumption
    <3>3. Next
      BY <2>1, <3>2 DEF MCNext, Next
    <3> QED BY <3>1, <3>3, NextFits
  <2>2. CASE UNCHANGED <<vars, part>>
    BY <2>2, NextFits
  <2> QED BY <2>1, <2>2
<1>3. Inv => EditsLoseNothing
  BY FitsSuffices DEF EditsLoseNothing
<1> QED BY <1>1, <1>2, <1>3, PTL DEF MCSpec
=============================================================================
