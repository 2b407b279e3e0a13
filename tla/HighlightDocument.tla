--------------------------- MODULE HighlightDocument ---------------------------
(***************************************************************************)
(* Incremental highlighting of a document that is being edited (Document in *)
(* ward-highlighting/src/document.rs and its C interface in                 *)
(* ffi/highlighting.rs), with the caller that displays the styles.          *)
(*                                                                          *)
(* The document parses a few lines at a time, keeps the parser's state at   *)
(* some lines, resumes from there after an edit and stops when it arrives at *)
(* a state it knows.  Changed styles are pending until a batch of them was   *)
(* acknowledged.  Offsets and lines count from 0 as in the code; a style is  *)
(* a theme and a mode of the grammar, or Plain.                             *)
(***************************************************************************)
EXTENDS LineParser

CONSTANTS InitialTexts,       \* texts a document is opened with
          Configurations,     \* language and theme
          Insertions,         \* texts an edit can insert
          MaxDeleted,         \* bound on the characters an edit deletes
          LineBudget, ByteBudget,
          CheckpointInterval, \* 32 lines in the code
          MaxEdits, MaxConfigures, MaxRejections, \* bounds
          None

Languages == {"named", "detected", "text"}

ASSUME BudgetAssumption ==
    LineBudget \in Nat \ {0} /\ ByteBudget \in Nat \ {0}
ASSUME IntervalAssumption == CheckpointInterval \in Nat \ {0}
ASSUME TextsAssumption == InitialTexts \cup Insertions \subseteq Seq(STRING)
ASSUME ConfigurationsAssumption == Configurations \subseteq Languages \X {"light", "dark"}
ASSUME DeletedAssumption == MaxDeleted \in Nat
ASSUME NoneAssumption == None \notin Nat \X Nat

VARIABLES
    source, starts, styles,
    config,             \* language and theme
    syntax,             \* <<whether there is one, whether it was recognized>>
    parser, checkpoints, convergence_after,
    pending, published, metadata_dirty,
    revision, configuration,
    displayed,          \* the caller's styles, per character
    shown,              \* the syntax the caller reports
    rejections

text_state == <<source, starts, config, syntax, revision, configuration>>
parse_state == <<styles, parser, checkpoints, convergence_after>>
caller == <<displayed, shown, rejections>>
vars == <<text_state, parse_state, pending, published, metadata_dirty, caller>>

Plain == <<"no theme", "plain">>
Style == ({"light", "dark"} \X Modes) \cup {Plain}

TypeOK ==
    /\ starts \in Seq(Nat) /\ Len(styles) = Len(starts)
    /\ \A i \in DOMAIN styles : styles[i] \in Seq(Style)
    /\ config \in Configurations /\ syntax \in BOOLEAN \X BOOLEAN
    /\ parser # None => parser.next \in 0 .. Len(starts) - 1
    /\ DOMAIN checkpoints \subseteq 0 .. Len(starts)
    /\ \A key \in DOMAIN checkpoints : checkpoints[key] \in Modes \ {"attempt"}
    /\ convergence_after \in Nat
    /\ pending # None =>
         pending[1] \in 0 .. Len(source) /\ pending[2] \in pending[1] .. Len(source)
    /\ metadata_dirty \in BOOLEAN /\ displayed \in Seq(Style)
    /\ Len(displayed) = Len(source)

---------------------------------------------------------------------------
(* Lines and ranges                                                         *)

line_at(position) == Cardinality({i \in DOMAIN starts : starts[i] <= position}) - 1
line_end(index) == IF index + 2 <= Len(starts) THEN starts[index + 2] ELSE Len(source)
Text(index) == SubSeq(source, starts[index + 1] + 1, line_end(index))

dirty(range, from, to) ==
    IF from >= to THEN range
    ELSE IF range = None THEN <<from, to>>
    ELSE <<Min({range[1], from}), Max({range[2], to})>>

\* A position of the text before an edit, in the text after it.
map_offset(position, start, end, inserted) ==
    IF position <= start THEN position
    ELSE IF position >= end THEN position - (end - start) + inserted
    ELSE start + inserted

\* resolve: the syntax is the language's, or is told by the first line.
resolve(language, text) ==
    CASE language = "named" -> <<TRUE, TRUE>>
      [] language = "text" -> <<FALSE, TRUE>>
      [] language = "detected" ->
           LET found == text # <<>> /\ text[1] = "e" IN <<found, found>>

\* restart: everything is parsed and published anew.
Restart(resolved, text, lines, range) ==
    /\ syntax' = resolved
    /\ parser' = IF resolved[1] THEN Parser(0, "main") ELSE None
    /\ checkpoints' = IF resolved[1] THEN [key \in {0} |-> "main"] ELSE <<>>
    /\ convergence_after' = lines
    /\ pending' = dirty(range, 0, Len(text))
    /\ metadata_dirty' = TRUE

Init ==
    /\ source \in InitialTexts /\ config \in Configurations
    /\ starts = line_starts(source)
    /\ styles = [i \in DOMAIN starts |-> <<>>]
    /\ syntax = resolve(config[1], source)
    /\ parser = IF syntax[1] THEN Parser(0, "main") ELSE None
    /\ checkpoints = IF syntax[1] THEN [key \in {0} |-> "main"] ELSE <<>>
    /\ convergence_after = Len(starts)
    /\ pending = dirty(None, 0, Len(source))
    /\ published = None /\ metadata_dirty = TRUE
    /\ revision = 0 /\ configuration = 0
    /\ displayed = [i \in DOMAIN source |-> Plain] /\ shown = <<FALSE, FALSE>>
    /\ rejections = 0

---------------------------------------------------------------------------
(* Edits                                                                    *)

\* 0-based splice of lines.
Replace(seq, first, last, replacement) ==
    SubSeq(seq, 1, first) \o replacement \o SubSeq(seq, last + 2, Len(seq))

\* Checkpoints up to the first edited line stay, those after the last one move
\* with their lines; when no line is added or removed all stay.
Relocated(first, last, old_count, new_count) ==
    IF old_count = new_count THEN checkpoints
    ELSE LET before == {key \in DOMAIN checkpoints : key <= first}
             after == {key \in DOMAIN checkpoints : key > last}
             Moved(key) == key - old_count + new_count
         IN  [key \in before \cup {Moved(k) : k \in after} |->
                IF key \in before THEN checkpoints[key]
                ELSE checkpoints[key + old_count - new_count]]

\* mutant of ConvergenceAfter: as before the edit
ConvergenceAfter_unmoved(first, last, old_count, new_count, lines) ==
    Min({convergence_after, lines})

\* The line from which on a known state ends the parse.
ConvergenceAfter(first, last, old_count, new_count, lines) ==
    LET moved == IF old_count = new_count THEN convergence_after
                 ELSE IF convergence_after > last
                   THEN convergence_after - old_count + new_count
                   ELSE Min({convergence_after, first})
    IN  Max({first + new_count, Min({moved, lines})})

RestartLine(first) == IF parser = None THEN first ELSE Min({first, parser.next})

\* The parse resumes at the last checkpoint that neither the edit nor the parse
\* in progress has to get past.
Resume(first, last, old_count, new_count, lines, text, range) ==
    LET kept == Relocated(first, last, old_count, new_count)
        reachable == {key \in DOMAIN kept : key <= RestartLine(first)}
    IN  IF reachable = {}
          THEN Restart(syntax, text, lines, range)
          ELSE /\ parser' = Parser(Max(reachable), kept[Max(reachable)])
               /\ checkpoints' = kept
               /\ convergence_after' =
                    ConvergenceAfter(first, last, old_count, new_count, lines)
               /\ pending' = range /\ metadata_dirty' = TRUE /\ UNCHANGED syntax

\* The starts of the edited lines; the line that follows them is known already.
EditedLines(found, last, length) ==
    IF last + 1 < Len(starts) /\ Last(found) = length THEN Front(found) ELSE found

Edit(start, deleted, inserted) ==
    LET end == start + deleted
        first == line_at(start)
        last == line_at(end)
        start_offset == starts[first + 1]
        new_suffix == line_end(last) - deleted + Len(inserted)
        text == SubSeq(source, 1, start) \o inserted \o SubSeq(source, end + 1, Len(source))
        lines == EditedLines(line_starts(SubSeq(text, start_offset + 1, new_suffix)),
                             last, new_suffix - start_offset)
        old_count == last - first + 1
        new_count == Len(lines)
        moved == IF pending = None THEN None
                   ELSE <<map_offset(pending[1], start, end, Len(inserted)),
                          map_offset(pending[2], start, end, Len(inserted))>>
        range == dirty(moved, start_offset, new_suffix)
        resolved == resolve(config[1], text)
        Shifted(offset) == offset - deleted + Len(inserted)
    IN  /\ revision < MaxEdits /\ revision' = revision + 1
        /\ end <= Len(source)
        /\ source' = text
        /\ starts' = Replace([i \in DOMAIN starts |->
                                IF i > last + 1 THEN Shifted(starts[i]) ELSE starts[i]],
                             first, last, [i \in DOMAIN lines |-> lines[i] + start_offset])
        /\ styles' = Replace(styles, first, last, [i \in DOMAIN lines |-> <<>>])
        /\ IF resolved # syntax
             THEN Restart(resolved, text, Len(starts'), range)
             ELSE IF syntax[1]
               THEN Resume(first, last, old_count, new_count, Len(starts'), text, range)
               ELSE /\ pending' = range /\ metadata_dirty' = TRUE
                    /\ UNCHANGED <<syntax, parser, checkpoints, convergence_after>>
        /\ displayed' = SubSeq(displayed, 1, start)
                          \o [i \in DOMAIN inserted |-> Plain]
                          \o SubSeq(displayed, end + 1, Len(displayed))
        /\ UNCHANGED <<config, configuration, published, shown, rejections>>

configure(new_config) ==
    /\ configuration < MaxConfigures /\ configuration' = configuration + 1
    /\ config' = new_config
    /\ Restart(resolve(new_config[1], source), source, Len(starts), pending)
    /\ UNCHANGED <<source, starts, styles, revision, published, caller>>

---------------------------------------------------------------------------
(* Parsing and publishing                                                   *)

\* One line: its styles and those of the lines it corrects become pending where
\* they changed; at a checkpoint whose state is the known one the parse ends.
ParseLine(work) ==
    LET index == work.parser.next
        from == index - Len(work.parser.recent)
        found == line_styles(work.parser, Text(index))
        Styled(i) == LET slice == SubSeq(found, starts[i + 1] - starts[from + 1] + 1,
                                                line_end(i) - starts[from + 1])
                     IN  [j \in DOMAIN slice |-> <<config[2], slice[j]>>]
        changed == {i \in from .. index : work.styles[i + 1] # Styled(i)}
        after == line(work.parser, Text(index))
        next == after.next
        settles == next % CheckpointInterval = 0 \/ next = Len(starts)
                     \/ next \in DOMAIN work.checkpoints
        converged == /\ settles /\ ~is_speculative(after)
                     /\ next >= work.convergence_after
                     /\ next \in DOMAIN work.checkpoints
                     /\ work.checkpoints[next] = after.mode
        keys == DOMAIN work.checkpoints
        goes_on == ~converged /\ next < Len(starts)
    IN  [styles |-> [i \in DOMAIN work.styles |->
                       IF i - 1 \in changed THEN Styled(i - 1) ELSE work.styles[i]],
         pending |-> IF changed = {} THEN work.pending
                       ELSE dirty(work.pending, starts[Min(changed) + 1],
                                  line_end(Max(changed))),
         checkpoints |->
           IF ~settles THEN work.checkpoints
           ELSE IF is_speculative(after)
             THEN [key \in keys \ {next} |-> work.checkpoints[key]]
             ELSE [key \in keys \cup {next} |->
                     IF key = next THEN after.mode ELSE work.checkpoints[key]],
         parser |-> IF goes_on THEN after ELSE None,
         convergence_after |-> IF goes_on THEN work.convergence_after ELSE 0]

ParseLines(count) ==
    LET work[n \in 0 .. count] ==
          IF n = 0
            THEN [styles |-> styles, pending |-> pending, checkpoints |-> checkpoints,
                  parser |-> parser, convergence_after |-> convergence_after]
            ELSE LET previous == work[n - 1]
                 IN  IF previous.parser = None THEN previous ELSE ParseLine(previous)
    IN  work[count]

\* The cached style of a character; what is not parsed yet is plain.
StyleAt(offset, cached) ==
    LET index == line_at(offset)
        column == offset - starts[index + 1] + 1
    IN  IF syntax[1] /\ column \in DOMAIN cached[index + 1]
          THEN cached[index + 1][column] ELSE Plain

\* A batch is the first pending styles, up to the line parsed next.
BatchRange(work) ==
    LET valid_end == IF work.parser = None THEN Len(source)
                     ELSE starts[work.parser.next + 1]
        range == work.pending
    IN  IF range = None THEN <<0, 0>>
        ELSE IF range[1] >= valid_end THEN <<0, 0>>
        ELSE <<range[1], Min({range[2], valid_end, range[1] + ByteBudget})>>

HasWork == published = None /\ (parser # None \/ pending # None \/ metadata_dirty)

\* The parse of a step is cut short by its time.
step(count) ==
    /\ HasWork
    /\ LET work == ParseLines(count)
           range == BatchRange(work)
       IN  /\ styles' = work.styles /\ pending' = work.pending
           /\ checkpoints' = work.checkpoints /\ parser' = work.parser
           /\ convergence_after' = work.convergence_after
           /\ published' = [revision |-> revision, configuration |-> configuration,
                            range |-> range, syntax |-> syntax,
                            spans |-> [i \in 1 .. range[2] - range[1] |->
                                         StyleAt(range[1] + i - 1, work.styles)]]
    /\ UNCHANGED <<text_state, metadata_dirty, caller>>

---------------------------------------------------------------------------
(* Acknowledgement                                                          *)

IsCurrent(batch) ==
    batch.revision = revision /\ batch.configuration = configuration

\* mutant of Acknowledged: an empty range stays
Acknowledged_keeping_empty(batch) ==
    IF pending # None /\ batch.range[1] = pending[1]
      THEN <<Max({batch.range[2], pending[1]}), pending[2]>> ELSE pending

\* The pending range once a batch was applied.
Acknowledged(batch) ==
    LET rest == IF pending # None /\ batch.range[1] = pending[1]
                                  /\ batch.range[2] > pending[1]
                  THEN <<batch.range[2], pending[2]>> ELSE pending
    IN  IF rest = None THEN None
        ELSE IF rest[1] >= rest[2] THEN None ELSE rest

\* The caller applies a batch that is of the text it shows, and says so.
Apply ==
    /\ published # None /\ IsCurrent(published)
    /\ displayed' = [i \in DOMAIN displayed |->
                       IF i > published.range[1] /\ i <= published.range[2]
                         THEN published.spans[i - published.range[1]] ELSE displayed[i]]
    /\ shown' = published.syntax
    /\ pending' = Acknowledged(published)
    /\ metadata_dirty' = FALSE /\ published' = None
    /\ UNCHANGED <<text_state, parse_state, rejections>>

\* mutant of Reject: a rejected batch is acknowledged like any other
Reject_as_applied ==
    /\ published # None
    /\ IF IsCurrent(published)
         THEN rejections < MaxRejections /\ rejections' = rejections + 1
         ELSE UNCHANGED rejections
    /\ published' = None /\ pending' = Acknowledged(published)
    /\ UNCHANGED <<text_state, parse_state, metadata_dirty, displayed, shown>>

\* An obsolete batch is rejected; while text is composed any is.
Reject ==
    /\ published # None
    /\ IF IsCurrent(published)
         THEN rejections < MaxRejections /\ rejections' = rejections + 1
         ELSE UNCHANGED rejections
    /\ published' = None
    /\ UNCHANGED <<text_state, parse_state, pending, metadata_dirty, displayed, shown>>

---------------------------------------------------------------------------
Steps == \E count \in 1 .. LineBudget : step(count)
Inserts(inserted) ==
    \E start \in 0 .. Len(source), deleted \in 0 .. MaxDeleted :
        Edit(start, deleted, inserted)
Next ==
    \/ \E inserted \in Insertions : Inserts(inserted)
    \/ \E new_config \in Configurations : configure(new_config)
    \/ Steps \/ Apply \/ Reject
Spec == Init /\ [][Next]_vars

---------------------------------------------------------------------------
(* Properties                                                               *)

Settled == parser = None /\ pending = None /\ published = None /\ ~metadata_dirty

\* What the caller sees once there is nothing left to do is what a complete
\* highlight of the text gives, however it was edited.
SettledMatches ==
    Settled =>
      /\ LET complete == highlight(source)
         IN  \A i \in DOMAIN source :
                displayed[i] = IF syntax[1] THEN <<config[2], complete[i]>> ELSE Plain
      /\ shown = resolve(config[1], source)

\* The lines spliced at every edit are those of the text.
LinesAreThoseOfTheText == starts = line_starts(source)

\* A style that the caller does not show yet is pending, or its line is still
\* to be parsed: no rejected or obsolete batch and no edit loses a change.
NoChangeIsLost ==
    \A offset \in 0 .. Len(source) - 1 :
        displayed[offset + 1] # StyleAt(offset, styles) =>
          pending # None /\ offset >= pending[1] /\ offset < pending[2]

\* The parser resumes only from states a complete parse passes through.
CheckpointsAreTrue ==
    parser # None =>
      LET along == ModesAlong(source, "main")
      IN  \A key \in DOMAIN checkpoints :
             key <= parser.next =>
               checkpoints[key] =
                 along[(IF key = Len(starts) THEN Len(source) ELSE starts[key + 1]) + 1]
=============================================================================
