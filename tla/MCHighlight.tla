------------------------------ MODULE MCHighlight ------------------------------
(***************************************************************************)
(* A highlighted document, one part at a time: edited once its parse has     *)
(* ended, edited while it is parsed, or made to make progress.  `part` names *)
(* the part that is explored.                                                *)
(***************************************************************************)
EXTENDS HighlightDocument

CONSTANT Parts \* those explored

VARIABLE part

\* A comment, and a fallback over several lines; a text told by its first line.
TextsOf ==
    [settling |-> {<<"o", "n", "b", "n", "f", "n">>, <<"n", "n", "b", "n", "e">>},
     reconfiguring |-> {<<"n", "n", "b", "n", "e">>},
     racing |-> {<<"n", "n", "n">>},
     editing |-> {<<"e", "n", "o">>}, progressing |-> {<<"e", "n", "o">>}]
\* A language that is told by its name, two themes, and two languages.
ConfigurationsOf ==
    [settling |-> {<<"named", "light">>}, racing |-> {<<"named", "light">>},
     reconfiguring |-> {<<"named", "light">>, <<"named", "dark">>},
     editing |-> {<<"detected", "light">>, <<"detected", "dark">>},
     progressing |-> {<<"detected", "light">>, <<"text", "light">>}]
InsertionsOf ==
    [settling |-> {<<>>, <<"e">>, <<"o">>, <<"b">>, <<"n">>},
     reconfiguring |-> {<<>>, <<"e">>, <<"o">>, <<"b">>, <<"n">>},
     racing |-> {<<"o">>, <<"x">>},
     editing |-> {<<>>, <<"x">>, <<"n">>}, progressing |-> {<<>>, <<"x">>, <<"n">>}]
EditsOf == [settling |-> 2, reconfiguring |-> 1, racing |-> 2, editing |-> 2, progressing |-> 1]

MCTexts == UNION {TextsOf[p] : p \in Parts}
MCConfigurations == UNION {ConfigurationsOf[p] : p \in Parts}
MCInsertions == UNION {InsertionsOf[p] : p \in Parts}

ASSUME PartsAssumption ==
    /\ Parts \subseteq DOMAIN TextsOf
    /\ \A p \in Parts : /\ ConfigurationsOf[p] \subseteq Configurations
                    /\ InsertionsOf[p] \subseteq Insertions

MCInit ==
    /\ part \in Parts /\ Init
    /\ source \in TextsOf[part] /\ config \in ConfigurationsOf[part]
MCNext ==
    /\ \/ /\ part \in {"settling", "reconfiguring"} => parser = None
          /\ revision < EditsOf[part]
          /\ \E inserted \in InsertionsOf[part] : Inserts(inserted)
       \/ /\ part \notin {"settling", "racing"}
          /\ \E new_config \in ConfigurationsOf[part] : configure(new_config)
       \/ Steps \/ Apply
       \/ Reject
    /\ UNCHANGED part

(* The worker does not rest while it has work, and the editor takes or refuses *)
(* each batch it is given.  The first condition names the guard of its steps.  *)
MCSpec ==
    /\ MCInit /\ [][MCNext]_<<vars, part>>
    /\ <>[](part = "progressing" /\ HasWork)
          => []<><<part = "progressing" /\ Steps>>_vars
    /\ WF_vars(part = "progressing" /\ (Apply \/ Reject))

---------------------------------------------------------------------------
\* When each edit of a document came after its former parse had ended, though
\* perhaps before its batches were taken, what the editor shows once nothing is
\* left to do is what a complete highlight of its text gives, and the parser
\* resumes only from states that a complete parse passes through
\* (convergence, checkpoints and restarts of document.rs).
SettlesAsWritten ==
    part \in {"settling", "reconfiguring"} => SettledMatches /\ CheckpointsAreTrue

\* The same of edits that overtake a parse, as the repository's test of them has
\* it (mixed_edit_sequences_preserve_utf8_styles_with_obsolete_results,
\* document.rs:826).  The code does not keep this: a parse that was cut short has
\* renewed checkpoints, and the next one stops where it agrees with them.
RacedEditsSettle == part = "racing" => SettledMatches

\* Also while it is edited and batches are refused, the lines are those of the
\* text, and every style that is not shown is pending or still to be parsed.
EditsLoseNothing ==
    part = "editing" => TypeOK /\ LinesAreThoseOfTheText /\ NoChangeIsLost

\* The work comes to an end, also when batches are refused on the way.
Settles == []<>(part = "progressing" => Settled)
=============================================================================
