------------------------------ MODULE LineParser ------------------------------
(***************************************************************************)
(* The resumable parser of ward-highlighting (parser.rs) and the complete    *)
(* highlight it must agree with (Highlighter::highlight in lib.rs).          *)
(*                                                                          *)
(* The grammar is the smallest with what makes resuming hard: "o" opens a   *)
(* comment and "e" ends it, over any number of lines; "b" begins a          *)
(* construct that is taken for an attempt until "f" shows that it was a     *)
(* fallback, or "e" ends it.  While an attempt is open the parse is         *)
(* speculative and what was styled may have to be styled again.  "n" ends   *)
(* a line; any other character is text.                                     *)
(***************************************************************************)
EXTENDS Integers, Sequences, SequencesExt, FiniteSetsExt

Modes == {"main", "comment", "attempt", "fallback"}

\* How the branch at a position turns out, as far as the text shows.
Branch(chars, i) ==
    LET ends == {j \in i + 1 .. Len(chars) : chars[j] \in {"e", "f"}}
    IN  IF ends # {} /\ chars[Min(ends)] = "f" THEN "fallback" ELSE "attempt"

\* The mode before the first character, followed by those after each of them.
ModesAlong(chars, mode) ==
    LET along[i \in 0 .. Len(chars)] ==
          IF i = 0 THEN <<mode>>
          ELSE LET before == along[i - 1]
                   current == before[i]
               IN  Append(before,
                     CASE current = "main" /\ chars[i] = "o" -> "comment"
                       [] current = "main" /\ chars[i] = "b" -> Branch(chars, i)
                       [] current # "main" /\ chars[i] = "e" -> "main"
                       [] OTHER -> current)
    IN  along[Len(chars)]

\* The delimiters of a construct are styled with it.
StylesAlong(chars, mode) ==
    LET along == ModesAlong(chars, mode)
    IN  [i \in DOMAIN chars |-> IF along[i + 1] = "main" THEN along[i] ELSE along[i + 1]]

\* The style of every character of a complete text.
highlight(source) == StylesAlong(source, "main")

---------------------------------------------------------------------------
\* Where the lines of a text start, counted from 0: the first at its beginning,
\* each other one after a newline; a final newline starts an empty line.
line_starts(text) ==
    LET newlines == {i \in DOMAIN text : text[i] = "n"}
        Nth(k) == CHOOSE i \in newlines : Cardinality({j \in newlines : j <= i}) = k
    IN  [i \in 1 .. Cardinality(newlines) + 1 |-> IF i = 1 THEN 0 ELSE Nth(i - 1)]

\* A parser is between two lines: the line it parses next, the mode there, and
\* while it speculates the lines it may have to style again and the mode before
\* the first of them.
Parser(next, mode) == [next |-> next, mode |-> mode, before |-> mode, recent |-> <<>>]
is_speculative(parser) == parser.mode = "attempt"

\* line: the parser after one more line.  The correction of earlier lines is
\* of those still speculative.
line(parser, text) ==
    LET chars == FlattenSeq(parser.recent) \o text
        mode == Last(ModesAlong(chars, parser.before))
    IN  IF mode = "attempt"
          THEN [next |-> parser.next + 1, mode |-> mode, before |-> parser.before,
                recent |-> Append(parser.recent, text)]
          ELSE Parser(parser.next + 1, mode)

\* The styles of the speculative lines and of the line parsed, one after the
\* other, as they are from now on.
line_styles(parser, text) ==
    StylesAlong(FlattenSeq(parser.recent) \o text, parser.before)
=============================================================================
