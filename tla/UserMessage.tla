----------------------------- MODULE UserMessage -----------------------------
(***************************************************************************)
(* A user's message as the application shows it: the request is taken out of *)
(* the envelope a client wrote around it, and what is attached to it is put   *)
(* together from the files the envelope lists and from the inputs that are    *)
(* images or mentions of files.                                               *)
(*                                                                          *)
(* A text is its sequence of lines, the last of which no newline ends; so     *)
(* joining texts by newlines is concatenation.  A line is known by what it     *)
(* "is".  A file's line is split at every ": "; the parts up to `quoted` are   *)
(* one JSON string (`hollow` if it is empty), and its range is that of the    *)
(* suffix, where 0 stands for a number that cannot be read.                   *)
(***************************************************************************)
EXTENDS Integers, Sequences, FiniteSets, SequencesExt, FiniteSetsExt

CONSTANTS Texts,    \* what clients write
          Inserted, \* lines that get into a text by mistake
          Inputs,   \* inputs other than texts
          MaxInputs, MaxMistakes, \* bounds
          None

VARIABLES content,  \* the inputs of the message
          message,  \* the message shown, or None
          mistakes
vars == <<content, message, mistakes>>

Kinds == {"annotations", "mentioned", "pasted"}
Blank(line) == line.is \in {"empty", "spaces"}
Smallest(S) == CHOOSE n \in S : \A m \in S : n <= m

---------------------------------------------------------------------------
(* Files and annotations                                                    *)

\* Where a file's line can be split into a label and an absolute path.
Splits(line, pasted) ==
    {k \in 1 .. Len(line.parts) - 1 :
       /\ k > 1 \/ line.parts[1].is # "empty"
       /\ line.parts[k + 1].is = "path"
       /\ \A j \in k + 1 .. Len(line.parts) : line.parts[j].is # "broken"
       /\ pasted => line.quoted = k}

parse_line_range(range) == range = <<>> \/ (0 < range[1] /\ range[1] <= range[2])

parse_file(line, pasted) ==
    IF /\ line.is = "file" /\ Cardinality(Splits(line, pasted)) = 1
       /\ ~(pasted /\ line.hollow) /\ parse_line_range(line.range)
    THEN LET k == CHOOSE split \in Splits(line, pasted) : TRUE
         IN  [path |-> SubSeq(line.parts, k + 1, Len(line.parts)), label |-> k,
              pasted |-> pasted, range |-> line.range]
    ELSE None

skip_blank_lines(text, from) ==
    Smallest({i \in from .. Len(text) : i = Len(text) \/ ~Blank(text[i])})

Refused == [next |-> 0, files |-> <<>>, annotations |-> <<>>]

\* mutant of parse_files: the line that closes the list need not be there
parse_files_unclosed(text, from, pasted) ==
    LET end == Smallest({i \in from .. Len(text) :
                  \/ i = Len(text)
                  \/ ~Blank(text[i]) /\ parse_file(text[i], pasted) = None})
        lines == SelectSeq(SubSeq(text, from, end - 1), LAMBDA line : ~Blank(line))
    IN  IF end = Len(text) \/ lines = <<>> THEN Refused
        ELSE [Refused EXCEPT
                !.next = IF text[end].is \in {"distinguish", "hint"} THEN end + 1 ELSE end,
                !.files = [i \in DOMAIN lines |-> parse_file(lines[i], pasted)]]

parse_files(text, from, pasted) ==
    LET end == Smallest({i \in from .. Len(text) :
                  \/ i = Len(text)
                  \/ ~Blank(text[i]) /\ parse_file(text[i], pasted) = None})
        lines == SelectSeq(SubSeq(text, from, end - 1), LAMBDA line : ~Blank(line))
        closes == text[end].is = IF pasted THEN "hint" ELSE "distinguish"
    IN  IF end = Len(text) \/ lines = <<>> \/ ~(pasted \/ closes) THEN Refused
        ELSE [Refused EXCEPT
                !.next = IF closes THEN end + 1 ELSE end,
                !.files = [i \in DOMAIN lines |-> parse_file(lines[i], pasted)]]

\* A source that is not valid is left out; the selection is not.
annotation(index, wire) ==
    [index |-> index, source |-> IF wire.source = "valid" THEN "valid" ELSE "none"]
parse_annotations(text, from) ==
    IF /\ from + 3 < Len(text) /\ text[from].is # "empty"
       /\ text[from + 1].is = "open" /\ text[from + 2].is = "json"
       /\ text[from + 2].valid /\ text[from + 2].value # <<>>
       /\ \A wire \in ToSet(text[from + 2].value) : wire.text
       /\ text[from + 3].is = "close"
    THEN [Refused EXCEPT !.next = from + 4,
            !.annotations = [i \in DOMAIN text[from + 2].value |->
                               annotation(i, text[from + 2].value[i])]]
    ELSE Refused

---------------------------------------------------------------------------
(* Envelopes                                                                *)

parse_section(text, kind, from) ==
    CASE kind = "annotations" -> parse_annotations(text, from)
      [] kind = "mentioned" -> parse_files(text, from, FALSE)
      [] kind = "pasted" -> parse_files(text, from, TRUE)

\* mutant of Advance: a section may come again
Advance_again(text, read) ==
    LET i == skip_blank_lines(text, read.at)
        section == parse_section(text, text[i].kind, i + 1)
    IN  CASE i = Len(text) -> [read EXCEPT !.is = "none"]
          [] i < Len(text) /\ text[i].is = "request" ->
               [read EXCEPT !.is = IF read.seen = {} THEN "none" ELSE "envelope", !.at = i + 1]
          [] i < Len(text) /\ text[i].is = "heading" /\ section.next # 0 ->
               [read EXCEPT !.at = section.next, !.seen = @ \cup {text[i].kind},
                            !.files = @ \o section.files,
                            !.annotations = @ \o section.annotations]
          [] OTHER -> [read EXCEPT !.is = "none"]

\* The next section, or the request that ends the envelope.
Advance(text, read) ==
    LET i == skip_blank_lines(text, read.at)
        section == parse_section(text, text[i].kind, i + 1)
    IN  CASE i = Len(text) -> [read EXCEPT !.is = "none"]
          [] i < Len(text) /\ text[i].is = "request" ->
               [read EXCEPT !.is = IF read.seen = {} THEN "none" ELSE "envelope", !.at = i + 1]
          [] /\ i < Len(text) /\ text[i].is = "heading"
             /\ text[i].kind \notin read.seen /\ section.next # 0 ->
               [read EXCEPT !.at = section.next, !.seen = @ \cup {text[i].kind},
                            !.files = @ \o section.files,
                            !.annotations = @ \o section.annotations]
          [] OTHER -> [read EXCEPT !.is = "none"]

\* Each kind of section at most once, and then the request.
parse_user_message_envelope(text) ==
    LET start == [is |-> "reading", at |-> 1, seen |-> {}, files |-> <<>>,
                  annotations |-> <<>>]
        read[n \in 0 .. Cardinality(Kinds) + 1] ==
            IF n = 0 THEN start
            ELSE IF read[n - 1].is = "reading" THEN Advance(text, read[n - 1]) ELSE read[n - 1]
    IN  read[Cardinality(Kinds) + 1]

---------------------------------------------------------------------------
(* Attachments                                                              *)

\* A path is its root, with the drive among its names, which its separators
\* are between; nothing but empty names and "." is left out.
normalized_local_path(path) ==
    <<path.root \in {"posix", "unc"},
      SelectSeq(path.names, LAMBDA name : name \notin {"", "."})>>

\* The file a line of the envelope names may go on after a further ": ".
attachment_resource_id(location) ==
    IF location.is = "url" THEN <<"url", location.url>>
    ELSE <<"path", normalized_local_path(location.path), location.more>>

is_file_mention(input) == input.is = "mention" /\ input.path.root = "posix"
IsAttachment(input) == input.is \in {"image", "localImage"} \/ is_file_mention(input)

LocationOf(input) ==
    IF input.is = "image" THEN [is |-> "url", url |-> input.url]
    ELSE [is |-> "path", path |-> input.path, more |-> <<>>]
SourceOf(input) == IF input.is = "mention" THEN "mentionInput" ELSE "imageInput"

user_input_text(input) ==
    IF input.is = "text" THEN input.text ELSE <<[is |-> "placeholder", of |-> input]>>

FileAttachment(file) ==
    [id |-> attachment_resource_id([is |-> "path", path |-> file.path[1].path,
                                    more |-> Tail(file.path)]),
     sources |-> {IF file.pasted THEN "pastedFile" ELSE "mentionedFile"}, range |-> file.range]

\* mutant of Attach: only the first attachment of the file is told
Attach_first(attachments, input) ==
    LET id == attachment_resource_id(LocationOf(input))
        same == {i \in DOMAIN attachments : attachments[i].id = id}
    IN  IF same # {} THEN attachments
        ELSE Append(attachments, [id |-> id, sources |-> {SourceOf(input)}, range |-> <<>>])

\* An input adds its source to each attachment of the same file, or is another.
Attach(attachments, input) ==
    LET id == attachment_resource_id(LocationOf(input))
        same == {i \in DOMAIN attachments : attachments[i].id = id}
    IN  IF same # {}
        THEN [i \in DOMAIN attachments |->
                IF i \in same THEN [attachments[i] EXCEPT !.sources = @ \cup {SourceOf(input)}]
                ELSE attachments[i]]
        ELSE Append(attachments, [id |-> id, sources |-> {SourceOf(input)}, range |-> <<>>])

\* What is attached is not looked for among the placeholders in the text.
TextOf(inputs) ==
    LET texts == [i \in DOMAIN inputs |-> user_input_text(inputs[i])]
    IN  IF inputs = <<>> THEN <<[is |-> "empty"]>> ELSE FlattenSeq(texts)

user_message_presentation(inputs) ==
    LET text == TextOf(SelectSeq(inputs, LAMBDA input : ~IsAttachment(input)))
        parsed == parse_user_message_envelope(text)
        recognized == parsed.is = "envelope"
        listed == IF recognized THEN [i \in DOMAIN parsed.files |-> FileAttachment(parsed.files[i])]
                  ELSE <<>>
        attachments == FoldLeft(Attach, listed, SelectSeq(inputs, IsAttachment))
    IN  IF recognized \/ attachments # <<>>
        THEN [body |-> IF recognized THEN SubSeq(text, parsed.at, Len(text)) ELSE text,
              annotations |-> IF recognized THEN parsed.annotations ELSE <<>>,
              attachments |-> attachments, recognized |-> recognized]
        ELSE None

---------------------------------------------------------------------------
(* Messages                                                                 *)

Init ==
    /\ \E text \in Texts : content = <<[is |-> "text", text |-> text]>>
    /\ message = None /\ mistakes = 0

\* A client writes a line too many, leaves one out, or ends its text early.
MakesMistake(text) ==
    /\ message = None /\ mistakes < MaxMistakes /\ mistakes' = mistakes + 1
    /\ content' = <<[is |-> "text", text |-> text]>>
    /\ UNCHANGED message
Text == content[1].text
Mistake ==
    /\ Len(content) = 1
    /\ \/ \E i \in 1 .. Len(Text), line \in Inserted :
             \/ MakesMistake(InsertAt(Text, i, line))
             \/ MakesMistake(ReplaceAt(Text, i, line))
       \/ \E i \in 1 .. Len(Text) : Len(Text) > 1 /\ MakesMistake(RemoveAt(Text, i))
       \/ \E i \in 1 .. Len(Text) - 1 : MakesMistake(SubSeq(Text, 1, i))
\* More than the text is sent only where it is as it should be.
Adds(input) ==
    /\ message = None /\ mistakes = 0 /\ Len(content) <= MaxInputs
    /\ \/ content' = Append(content, input)
       \/ content' = <<input>> \o content
    /\ UNCHANGED <<message, mistakes>>

message_from_item ==
    /\ message = None
    /\ message' = [text |-> TextOf(content), presentation |-> user_message_presentation(content)]
    /\ UNCHANGED <<content, mistakes>>

Next == Mistake \/ message_from_item \/ \E input \in Inputs : Adds(input)
Spec == Init /\ [][Next]_vars

---------------------------------------------------------------------------
(* Properties                                                               *)

TypeOK ==
    /\ Len(content) \in 1 .. MaxInputs + 1 /\ mistakes \in 0 .. MaxMistakes
    /\ \A input \in ToSet(content) : input.is = "text" \/ input \in Inputs
    /\ message # None => message.text = TextOf(content)

(* What an envelope is: each section as a whole, and nothing else but blank   *)
(* lines before the request.                                                  *)
IsSection(text, kind, from, to) ==
    LET inner(last) == {text[i] : i \in {j \in from + 1 .. last : ~Blank(text[j])}}
        Lists(last, pasted) == /\ inner(last) # {}
                               /\ \A line \in inner(last) : parse_file(line, pasted) # None
    IN  /\ text[from].is = "heading" /\ text[from].kind = kind
        /\ \/ kind = "annotations" /\ to = from + 4 /\ parse_annotations(text, from + 1).next # 0
           \/ kind = "mentioned" /\ text[to].is = "distinguish" /\ Lists(to - 1, FALSE)
           \/ kind = "pasted" /\ text[to].is = "hint" /\ Lists(to - 1, TRUE)
           \/ kind = "pasted" /\ text[to].is = "file" /\ Lists(to, TRUE)
Sections(text) ==
    {section \in Kinds \X (1 .. Len(text)) \X (1 .. Len(text)) :
       section[2] < section[3] /\ IsSection(text, section[1], section[2], section[3])}
Covered(sections) == UNION {section[2] .. section[3] : section \in sections}
\* `sections` are those of an envelope that ends with the request at line r.
IsEnvelope(text, sections, r) ==
    /\ r < Len(text) /\ text[r].is = "request" /\ sections # {}
    /\ \A s1, s2 \in sections : s1 # s2 => s1[1] # s2[1] /\ Covered({s1}) \cap Covered({s2}) = {}
    /\ Covered(sections) \subseteq 1 .. r - 1
    /\ \A i \in 1 .. r - 1 : i \in Covered(sections) \/ Blank(text[i])
Envelopes(text) ==
    {e \in (SUBSET Sections(text)) \X (1 .. Len(text)) : IsEnvelope(text, e[1], e[2])}
FilesOf(text, sections) ==
    LET lists == {s \in sections : s[1] # "annotations"}
        lines == {i \in Covered(lists) : text[i].is = "file"}
        pasted(i) == \E s \in sections : s[1] = "pasted" /\ i \in Covered({s})
    IN  [n \in 1 .. Cardinality(lines) |->
           LET i == SetToSortSeq(lines, <)[n] IN parse_file(text[i], pasted(i))]

\* A message is recognised just if it is an envelope, whole and in one way; then
\* its body is what follows the request and its files are those listed, each
\* with its range.  Otherwise nothing of the text is taken away.
EnvelopesAreRecognised ==
    message # None =>
      LET text == TextOf(SelectSeq(content, LAMBDA input : ~IsAttachment(input)))
          shown == message.presentation
          ways == Envelopes(text)
      IN  IF shown # None /\ shown.recognized
          THEN /\ Cardinality(ways) = 1
               /\ \A e \in ways :
                    LET files == FilesOf(text, e[1])
                    IN  /\ shown.body = SubSeq(text, e[2] + 1, Len(text))
                        /\ Len(shown.attachments) >= Len(files)
                        /\ \A n \in DOMAIN files :
                             /\ shown.attachments[n].range = files[n].range
                             /\ (IF files[n].pasted THEN "pastedFile" ELSE "mentionedFile")
                                  \in shown.attachments[n].sources
          ELSE ways = {} /\ (shown # None => shown.body = text)

\* Two paths name the same file: those of one root with the same names, once
\* what names the directory itself is left out.
SamePath(p1, p2) ==
    LET Names(p) == SelectSeq(p.names, LAMBDA name : name \notin {"", "."})
    IN  /\ p1.root \in {"posix", "unc"} <=> p2.root \in {"posix", "unc"}
        /\ Names(p1) = Names(p2)
SameResource(i1, i2) ==
    IF i1.is = "image" \/ i2.is = "image" THEN i1 = i2 ELSE SamePath(i1.path, i2.path)

\* Every image and every file that is mentioned is attached with its source;
\* once, unless the envelope lists it, and together with what is the same file
\* and nothing else.
AttachmentsAreKept ==
    message # None =>
      LET shown == message.presentation
          attachments == IF shown = None THEN <<>> ELSE shown.attachments
          inputs == {input \in ToSet(content) : IsAttachment(input)}
          Of(input) == {i \in DOMAIN attachments :
                          attachments[i].id = attachment_resource_id(LocationOf(input))}
          Listed(i) == attachments[i].sources \cap {"pastedFile", "mentionedFile"} # {}
      IN  /\ \A input \in inputs :
               /\ Of(input) # {}
               /\ \A i \in Of(input) : SourceOf(input) \in attachments[i].sources
               /\ Cardinality(Of(input)) > 1 => \A i \in Of(input) : Listed(i)
          /\ \A i1, i2 \in inputs : Of(i1) \cap Of(i2) # {} <=> SameResource(i1, i2)
          /\ \A i \in DOMAIN attachments : Listed(i) \/ \E input \in inputs : i \in Of(input)
=============================================================================
