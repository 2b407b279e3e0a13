---------------------------- MODULE MCCodexClient ----------------------------
(***************************************************************************)
(* The client of the app-server, one part at a time: `part` names the one   *)
(* whose behaviours are explored, and the others keep still.  Variables of  *)
(* the same name stand for one another; those a part has not are None.      *)
(***************************************************************************)
EXTENDS AppServerClient, TLC, SequencesExt

CONSTANTS a, b, c, ta, tb, approval, input_b, unknown, q,
          Other,
          Parts,            \* those explored
          PolledThreads, ListedThreads, Overlaps,
          Limit, Starts,    \* of listings
          ChangedThreads, InitialThreads, MaxConnections, \* of changes of threads
          MaxTurns, MaxOperations, MaxTime,
          HistoryFailures, ListingFailures, InferenceFailures

VARIABLES
    part,
    op, failures, last, view, previous,
    persisted, begun, cursor, unsupported, witnessed,
    threads, lease, running, session, writers, opened, operations,
    updated, archived, clock, untouched, seen,
    hidden, changes, active, reports, open, inference, shown_model, before,
    content, message, mistakes

MCThreadOf == (ta :> a) @@ (tb :> b)
MCTurnOf == (approval :> ta) @@ (input_b :> tb) @@ (unknown :> ta)
MCPartsOf == (approval :> {}) @@ (input_b :> {q}) @@ (unknown :> {})
MCTurnOf2 == (approval :> ta) @@ (unknown :> ta)
MCPartsOf2 == (approval :> {}) @@ (unknown :> {})
\* A complete listing, and one from the middle of the threads on.
MCStarts == {None, 2}
\* Two models that do not support the same efforts.
MCCatalog == <<[model |-> "m1", default |-> "low", supported |-> {"low"}],
               [model |-> "m2", default |-> "high", supported |-> {"low", "high"}]>>
MCEfforts == {"low", "high"}


\* Lines of a message: sections of each kind, what is around them, and lines
\* that look like them.
Line(kind) == [is |-> kind]
Path(root, names) == [is |-> "path", path |-> [root |-> root, names |-> names]]
File(parts, quoted, range) ==
    [is |-> "file", parts |-> parts, quoted |-> quoted, hollow |-> FALSE, range |-> range]
Annotated(sources) ==
    [is |-> "json", valid |-> TRUE,
     value |-> [i \in DOMAIN sources |-> [text |-> TRUE, source |-> sources[i]]]]
MCFiles ==
    {File(<<Line("word"), Path("posix", <<"x", "y">>)>>, 1, <<1, 2>>),
     File(<<Line("word"), Line("word"), Path("posix", <<"x", "y">>)>>, 2, <<>>),
     File(<<Line("word"), Path("posix", <<"x">>), Path("drive", <<"x">>)>>, 2, <<>>),
     File(<<Line("word"), Path("posix", <<"x">>), Line("broken")>>, 1, <<>>),
     File(<<Line("empty"), Path("posix", <<"x">>)>>, 0, <<>>),
     File(<<Line("word"), Path("unc", <<"x">>)>>, 1, <<2, 1>>)}
MCSections ==
    [annotations |-> <<[is |-> "heading", kind |-> "annotations"], Line("other"), Line("open"),
                       Annotated(<<"valid", "invalid">>), Line("close")>>,
     mentioned |-> <<[is |-> "heading", kind |-> "mentioned"],
                     File(<<Line("word"), Path("posix", <<"x", "y">>)>>, 0, <<1, 2>>),
                     Line("empty"), Line("distinguish")>>,
     pasted |-> <<[is |-> "heading", kind |-> "pasted"],
                  File(<<Line("word"), Path("posix", <<"x", ".", "y">>)>>, 1, <<>>),
                  Line("hint")>>]
MCTexts ==
    {<<Line("other")>>} \cup
    {FlattenSeq([i \in DOMAIN kinds |-> MCSections[kinds[i]]])
       \o <<Line("empty"), Line("request"), Line("other")>> :
         kinds \in SeqOf(DOMAIN MCSections, 2) \cup {kinds \in SeqOf(DOMAIN MCSections, 3) :
                                                     IsInjective(kinds)}}
MCInserted ==
    {Line(kind) : kind \in {"empty", "spaces", "request", "open", "close", "distinguish",
                            "hint", "other"}}
      \cup {MCSections[kind][1] : kind \in DOMAIN MCSections} \cup MCFiles
      \cup {Annotated(<<"valid">>), [is |-> "json", valid |-> FALSE, value |-> <<>>]}
MCInputs ==
    {[is |-> "image", url |-> "x"], [is |-> "skill"],
     [is |-> "localImage", path |-> Path("posix", <<"x", "", "y">>).path],
     [is |-> "localImage", path |-> Path("drive", <<"x", "y">>).path],
     [is |-> "mention", path |-> Path("posix", <<"x", "..", "x", "y">>).path],
     [is |-> "mention", path |-> Path("relative", <<"x", "y">>).path]}

History == INSTANCE HistorySession_proofs WITH
    Threads <- PolledThreads, PageSize <- 1, MaxRevision <- 1,
    MaxFailures <- HistoryFailures
\* One thread, with a turn more.
Longer == INSTANCE HistorySession_proofs WITH
    Threads <- {a}, PageSize <- 1, MaxRevision <- 1, MaxTurns <- MaxTurns + 1,
    MaxFailures <- HistoryFailures
Writers == INSTANCE ThreadWriters WITH Threads <- ChangedThreads
Listing == INSTANCE ThreadListing WITH
    Threads <- ListedThreads, MaxFailures <- ListingFailures
Turn == INSTANCE TurnInference WITH
    Catalog <- MCCatalog, Efforts <- MCEfforts, MaxChanges <- 1,
    MaxFailures <- InferenceFailures, shown <- shown_model

Envelope == INSTANCE UserMessage WITH
    Texts <- MCTexts, Inserted <- MCInserted, Inputs <- MCInputs, MaxInputs <- 2,
    MaxMistakes <- 1

ASSUME HistoryAssumption == History!Assumptions /\ Longer!Assumptions
ASSUME WritersAssumption ==
    Writers!ThreadsAssumption /\ Writers!BoundsAssumption /\ Writers!NoneAssumption
ASSUME ListingAssumption ==
    /\ Listing!LimitAssumption /\ Listing!OverlapsAssumption /\ Listing!BoundsAssumption
    /\ Listing!StartsAssumption
ASSUME TurnAssumption == Turn!CatalogAssumption /\ Turn!BoundsAssumption


\* The variables by the parts that alone have them.
connection_only == <<life, child, connection, subscription, server, owner>>
history_only == <<persisted, begun, cursor, unsupported, witnessed>>
writers_only == <<threads, lease, running, session, writers, opened, operations>>
listing_only == <<updated, archived, clock, untouched, seen>>
inference_only == <<hidden, changes, active, reports, open, inference, shown_model, before>>
message_only == <<content, message, mistakes>>

NoHistory == persisted = None /\ begun = None /\ cursor = None /\ unsupported = None
             /\ witnessed = None
NoWriters == threads = None /\ lease = None /\ running = None /\ session = None
             /\ writers = None /\ opened = None /\ operations = None
NoListing == updated = None /\ archived = None /\ clock = None /\ untouched = None
             /\ seen = None
NoInference == hidden = None /\ changes = None /\ active = None /\ reports = None
               /\ open = None /\ inference = None /\ shown_model = None /\ before = None
NoMessage == content = None /\ message = None /\ mistakes = None
NoView == view = None /\ previous = None

ClientInit ==
    /\ Init /\ part \in Parts
    /\ \/ /\ part = "connection" /\ op = None /\ failures = None /\ last = None
          /\ NoView /\ NoHistory /\ NoWriters /\ NoListing /\ NoInference /\ NoMessage
       \/ /\ \/ part = "history" /\ History!Init
             \/ part = "longer" /\ Longer!Init
          /\ NoWriters /\ NoListing /\ NoInference /\ NoMessage
       \/ /\ part = "writers" /\ Writers!Init /\ failures = None
          /\ NoView /\ NoHistory /\ NoListing /\ NoInference /\ NoMessage
       \/ /\ part = "listing" /\ Listing!Init /\ last = None
          /\ NoHistory /\ NoWriters /\ NoInference /\ NoMessage
       \/ /\ part = "inference" /\ Turn!Init /\ last = None
          /\ NoView /\ NoHistory /\ NoWriters /\ NoListing /\ NoMessage
       \/ /\ part = "message" /\ Envelope!Init /\ op = None /\ failures = None
          /\ last = None /\ NoView /\ NoHistory /\ NoWriters /\ NoListing /\ NoInference
ClientNext ==
    /\ \/ /\ part = "connection" /\ Next
          /\ UNCHANGED <<op, failures, last, view, previous, history_only,
                         writers_only, listing_only, inference_only, message_only>>
       \/ /\ \/ part = "history" /\ History!Next
             \/ part = "longer" /\ Longer!Next
          /\ UNCHANGED <<connection_only, writers_only, listing_only, inference_only, message_only>>
       \/ /\ part = "writers" /\ Writers!Next
          /\ UNCHANGED <<failures, view, previous, connection_only, history_only,
                         listing_only, inference_only, message_only>>
       \/ /\ part = "listing" /\ Listing!Next
          /\ UNCHANGED <<last, connection_only, history_only, writers_only,
                         inference_only, message_only>>
       \/ /\ part = "inference" /\ Turn!Next
          /\ UNCHANGED <<last, view, previous, cancelled, connection_only,
                         history_only, writers_only, listing_only, message_only>>
       \/ /\ part = "message" /\ Envelope!Next
          /\ UNCHANGED <<vars, op, failures, last, view, previous, history_only,
                         writers_only, listing_only, inference_only>>
    /\ UNCHANGED part
client_vars == <<part, vars, op, failures, last, view, previous, history_only,
                 writers_only, listing_only, inference_only, message_only>>
ClientSpec == ClientInit /\ [][ClientNext]_client_vars

\* The fairness of each part.
history_vars == History!vars
listing_vars == Listing!vars
Progress ==
    /\ WF_vars(part = "connection" /\ Await)
    /\ WF_vars(part = "connection" /\ RequestTimesOut)
    /\ WF_vars(part = "connection" /\ NextEvent)
    /\ WF_vars(part = "connection" /\ RefuseQuestion)
    /\ WF_vars(part = "connection" /\ terminate_child)
    /\ WF_history_vars(part = "history" /\ History!Answer)
    /\ WF_listing_vars(part = "listing" /\ Listing!Answer)
ClientLiveSpec == ClientSpec /\ Progress

---------------------------------------------------------------------------
(* Properties of the parts                                                  *)

\* Every part keeps its variables in their types.
ClientTypeOK ==
    CASE part = "connection" -> TypeOK
      [] part = "history" -> History!TypeOK
      [] part = "longer" -> Longer!TypeOK
      [] part = "writers" -> Writers!TypeOK
      [] part = "listing" -> Listing!TypeOK
      [] part = "inference" -> Turn!TypeOK
      [] part = "message" -> Envelope!TypeOK
\* What is asked is told to the user as it is pending on the connection, a
\* finished turn asks nothing, each question is replied to once and each
\* request takes its own answer; no child process outlives its client.
QuestionsAreSettledOnce ==
    /\ ShownIsPending /\ FinishedTurnAsksNothing
    /\ RepliedOnce /\ AnswerIsItsOwn /\ ChildIsReaped
\* A poll of a thread returns it as it was at one moment of the poll, and
\* Unchanged is said only of what the caller has.
ThreadPollsAreFresh ==
    part \in {"history", "longer"} => History!PollIsFresh /\ History!ViewIsLastSnapshot
\* A complete listing misses no thread that kept still and has none twice; it
\* holds only what there was, and Unchanged is said only of the page shown.
ListingsAreComplete ==
    part = "listing" => /\ Listing!ListingIsComplete /\ Listing!ListingIsOfTheAttempt
                        /\ Listing!ViewIsLastPage
\* A request that must not be repeated is applied once, and what is reported
\* as done has been done.
ChangesAreAppliedOnce ==
    part = "writers" => Writers!AppliedOnce /\ Writers!SuccessIsApplied
\* No process is left over to stand in the client's way, and a writer holds
\* the lease of its thread.
LeasesAreTheWriters ==
    part = "writers" => /\ Writers!NoConflictWithItself /\ Writers!NoProcessLeaks
                        /\ Writers!WriterHoldsLease
\* A turn runs as it was asked to, over what is kept from the turn before, and
\* the application shows what it runs with.
TurnsRunAsAsked ==
    part = "inference" => /\ Turn!TurnRunsAsAsked /\ Turn!OthersAreKept
                          /\ Turn!ShownIsActive
\* A message is taken apart only where it is an envelope as a whole and in one
\* way, nothing of any other text is lost, and what is attached to it is told
\* with all its sources and apart from other files.
MessagesAreUnderstood ==
    part = "message" => Envelope!EnvelopesAreRecognised /\ Envelope!AttachmentsAreKept
Polling == \/ part = "history" /\ History!Polling
           \/ part = "listing" /\ Listing!Polling
\* A poll of a thread, and a listing, ends: neither the retries, the fallbacks
\* nor the cursors of the app-server make it go round in circles.
PollsEnd == Polling ~> ~Polling
\* A request ends, whatever the app-server does, and an owner that goes on
\* reading learns of every message of the stream.
RequestsAndEventsEnd == RequestEnds /\ StreamIsDelivered
=============================================================================
