---------------------------- MODULE Observer_proofs ----------------------------
(***************************************************************************)
(* Proofs about the observer, for any clients, threads, kinds of command,    *)
(* capacity and bounds: its types; that writer, projection and selection     *)
(* agree; that the operation gate tells the truth; and that the observer     *)
(* implements ExclusiveOperations.                                           *)
(*                                                                           *)
(* The invariant of the gate says where the one exclusive request there may  *)
(* be is; every step keeps it there, moves it to the next place, or takes it *)
(* away and opens the gate.  The refinement follows from it: what is left is *)
(* how each step moves the request.                                          *)
(***************************************************************************)
EXTENDS ObserverOperations, CommandDeferral, SequenceTheorems, TLAPS

---------------------------------------------------------------------------
(* Merging.  CommandUpdate with merge is a monoid with EmptyUpdate as its   *)
(* unit, and merge_command acts on it.                                      *)

(* Appending to the second sequence of a concatenation appends to it all.   *)
LEMMA AppendConcat ==
    ASSUME NEW S, NEW s \in Seq(S), NEW t \in Seq(S), NEW e \in S
    PROVE  s \o Append(t, e) = Append(s \o t, e)
<1>1. /\ Append(t, e) = t \o <<e>>
      /\ <<e>> \in Seq(S)
  OBVIOUS
<1>2. s \o t \in Seq(S)
  BY ConcatProperties
<1>3. Append(s \o t, e) = (s \o t) \o <<e>>
  BY <1>2
<1>4. (s \o t) \o <<e>> = s \o (t \o <<e>>)
  BY <1>1, ConcatAssociative
<1> QED
  BY <1>1, <1>3, <1>4

(* An update stays an update whatever command is merged into it.            *)
LEMMA MergeCommandType ==
    ASSUME NEW u \in Updates, NEW c \in Command \ {Stop}
    PROVE  merge_command(u, c) \in Updates
<1>1. CASE c \in Watch
  <2>1. c.kind = "Watch" /\ c.thread \in Threads
    BY <1>1 DEF Watch
  <2> QED
    BY <2>1 DEF merge_command, Updates
<1>2. CASE c \in SetThreadListScope
  <2>1. c.kind = "SetThreadListScope" /\ c.scope \in Scopes
    BY <1>2 DEF SetThreadListScope
  <2> QED
    BY <2>1 DEF merge_command, Updates
<1>3. CASE c \in Refresh
  <2>1. c.kind = "Refresh"
    BY <1>3 DEF Refresh
  <2> QED
    BY <2>1 DEF merge_command, Updates
<1>4. CASE c \in WriteAccess
  <2>1. c.kind \in {"AcquireWrite", "ReleaseWrite"}
    BY <1>4 DEF WriteAccess
  <2> QED
    BY <1>4, <2>1 DEF merge_command, Updates
<1>5. CASE c \in RenameThread
  <2>1. c.kind = "RenameThread"
    BY <1>5 DEF RenameThread
  <2> QED
    BY <1>5, <2>1 DEF merge_command, Updates
<1>6. CASE c \in ForkThread
  <2>1. c.kind = "ForkThread"
    BY <1>6 DEF ForkThread
  <2> QED
    BY <1>6, <2>1 DEF merge_command, Updates, First
<1>7. CASE c \in ChangeThreadLifecycle
  <2>1. c.kind = "ChangeThreadLifecycle"
    BY <1>7 DEF ChangeThreadLifecycle
  <2>2. u.lifecycle \in Seq(ChangeThreadLifecycle)
    BY DEF Updates
  <2>3. Append(u.lifecycle, c) \in Seq(ChangeThreadLifecycle)
    BY <1>7, <2>2
  <2> QED
    BY <2>1, <2>3 DEF merge_command, Updates
<1>8. CASE c \in StartThread
  <2>1. c.kind = "StartThread"
    BY <1>8 DEF StartThread
  <2> QED
    BY <1>8, <2>1 DEF merge_command, Updates, First
<1>9. CASE c \in StartTurn
  <2>1. c.kind = "StartTurn"
    BY <1>9 DEF StartTurn
  <2> QED
    BY <1>9, <2>1 DEF merge_command, Updates, First
<1>10. CASE c \in Control
  <2>1. c.kind \in {"SteerTurn", "InterruptTurn", "ResolveInteraction"}
    BY <1>10 DEF Control, TurnControl, ResolveInteraction
  <2>2. u.controls \in Seq(Control)
    BY DEF Updates
  <2>3. Append(u.controls, c) \in Seq(Control)
    BY <1>10, <2>2
  <2> QED
    BY <2>1, <2>3 DEF merge_command, Updates
<1> QED
  BY <1>1, <1>2, <1>3, <1>4, <1>5, <1>6, <1>7, <1>8, <1>9, <1>10
     DEF Command, Exclusive, Shared
(* The empty update is an update, and merging it changes nothing.           *)
LEMMA EmptyUpdateUnit ==
    /\ EmptyUpdate \in Updates
    /\ \A u \in Updates : merge(u, EmptyUpdate) = u /\ merge(EmptyUpdate, u) = u
<1>1. EmptyUpdate \in Updates
  BY DEF EmptyUpdate, Updates
<1>2. ASSUME NEW u \in Updates
      PROVE  merge(u, EmptyUpdate) = u /\ merge(EmptyUpdate, u) = u
  <2>1. /\ u.lifecycle \in Seq(ChangeThreadLifecycle)
        /\ u.controls \in Seq(Control)
    BY DEF Updates
  <2>2. /\ u.lifecycle \o <<>> = u.lifecycle
        /\ <<>> \o u.lifecycle = u.lifecycle
        /\ u.controls \o <<>> = u.controls
        /\ <<>> \o u.controls = u.controls
    BY <2>1, ConcatEmptySeq
  <2> QED
    BY <2>2 DEF merge, EmptyUpdate, Updates, Newest, First
<1> QED
  BY <1>1, <1>2

(* Merging two updates yields an update.                                    *)
LEMMA MergeType ==
    ASSUME NEW u \in Updates, NEW v \in Updates
    PROVE  merge(u, v) \in Updates
<1>1. /\ u.lifecycle \o v.lifecycle \in Seq(ChangeThreadLifecycle)
      /\ u.controls \o v.controls \in Seq(Control)
  BY ConcatProperties DEF Updates
<1> QED
  BY <1>1 DEF merge, Updates, Newest, First

(* Two updates that agree on every field are the same update.               *)
LEMMA UpdateEqual ==
    ASSUME NEW u \in Updates, NEW v \in Updates,
           u.watched = v.watched, u.scope = v.scope, u.refresh = v.refresh,
           u.write = v.write, u.rename = v.rename, u.fork = v.fork,
           u.lifecycle = v.lifecycle, u.start = v.start, u.turn = v.turn,
           u.controls = v.controls
    PROVE  u = v
BY DEF Updates

(* The fields of a merge, one by one.                                       *)
LEMMA MergeFields ==
    ASSUME NEW u \in Updates, NEW v \in Updates
    PROVE  LET m == merge(u, v)
           IN  /\ m.watched = Newest(u.watched, v.watched)
               /\ m.scope = Newest(u.scope, v.scope)
               /\ m.refresh = (u.refresh \/ v.refresh)
               /\ m.write = Newest(u.write, v.write)
               /\ m.rename = Newest(u.rename, v.rename)
               /\ m.fork = First(u.fork, v.fork)
               /\ m.lifecycle = u.lifecycle \o v.lifecycle
               /\ m.start = First(u.start, v.start)
               /\ m.turn = First(u.turn, v.turn)
               /\ m.controls = u.controls \o v.controls
BY DEF merge

(* A command merged after an update is the command merged into its newer    *)
(* part: what lets drive_operation collect commands on the side.            *)
LEMMA MergeCommandMerge ==
    ASSUME NEW u \in Updates, NEW v \in Updates, NEW c \in Command \ {Stop}
    PROVE  merge(u, merge_command(v, c)) = merge_command(merge(u, v), c)
<1> DEFINE w == merge_command(v, c)
           m == merge(u, v)
           l == merge(u, w)
           r == merge_command(m, c)
<1>a. w \in Updates /\ m \in Updates /\ l \in Updates /\ r \in Updates
  BY MergeType, MergeCommandType
<1>b. /\ m.watched = Newest(u.watched, v.watched)
      /\ m.scope = Newest(u.scope, v.scope)
      /\ m.refresh = (u.refresh \/ v.refresh)
      /\ m.write = Newest(u.write, v.write)
      /\ m.rename = Newest(u.rename, v.rename)
      /\ m.fork = First(u.fork, v.fork)
      /\ m.lifecycle = u.lifecycle \o v.lifecycle
      /\ m.start = First(u.start, v.start)
      /\ m.turn = First(u.turn, v.turn)
      /\ m.controls = u.controls \o v.controls
  BY MergeFields
<1>c. /\ l.watched = Newest(u.watched, w.watched)
      /\ l.scope = Newest(u.scope, w.scope)
      /\ l.refresh = (u.refresh \/ w.refresh)
      /\ l.write = Newest(u.write, w.write)
      /\ l.rename = Newest(u.rename, w.rename)
      /\ l.fork = First(u.fork, w.fork)
      /\ l.lifecycle = u.lifecycle \o w.lifecycle
      /\ l.start = First(u.start, w.start)
      /\ l.turn = First(u.turn, w.turn)
      /\ l.controls = u.controls \o w.controls
  BY <1>a, MergeFields
<1>d. c # None
  BY NoneAssumption
<1> SUFFICES l = r
  OBVIOUS
<1>e. w = merge_command(v, c) /\ r = merge_command(m, c)
  OBVIOUS
<1> HIDE DEF w, m, l, r
<1>1. CASE c \in Watch
  <2>1. c.kind = "Watch" /\ c.thread # None
    BY <1>1, NoneAssumption DEF Watch
  <2>2. /\ w = [v EXCEPT !.watched = c.thread]
        /\ r = [m EXCEPT !.watched = c.thread]
    BY <1>e, <2>1 DEF merge_command
  <2>4. l.watched = r.watched
    BY <1>a, <1>b, <1>c, <1>d, <2>1, <2>2 DEF Updates, Newest
  <2>5. /\ l.scope = r.scope
        /\ l.refresh = r.refresh
        /\ l.write = r.write
        /\ l.rename = r.rename
        /\ l.fork = r.fork
        /\ l.lifecycle = r.lifecycle
        /\ l.start = r.start
        /\ l.turn = r.turn
        /\ l.controls = r.controls
    BY <1>a, <1>b, <1>c, <2>2 DEF Updates
  <2> QED
    BY <1>a, <2>4, <2>5, UpdateEqual
<1>2. CASE c \in SetThreadListScope
  <2>1. c.kind = "SetThreadListScope" /\ c.scope # None
    BY <1>2, NoneAssumption DEF SetThreadListScope
  <2>2. /\ w = [v EXCEPT !.scope = c.scope]
        /\ r = [m EXCEPT !.scope = c.scope]
    BY <1>e, <2>1 DEF merge_command
  <2>4. l.scope = r.scope
    BY <1>a, <1>b, <1>c, <1>d, <2>1, <2>2 DEF Updates, Newest
  <2>5. /\ l.watched = r.watched
        /\ l.refresh = r.refresh
        /\ l.write = r.write
        /\ l.rename = r.rename
        /\ l.fork = r.fork
        /\ l.lifecycle = r.lifecycle
        /\ l.start = r.start
        /\ l.turn = r.turn
        /\ l.controls = r.controls
    BY <1>a, <1>b, <1>c, <2>2 DEF Updates
  <2> QED
    BY <1>a, <2>4, <2>5, UpdateEqual
<1>3. CASE c \in Refresh
  <2>1. c.kind = "Refresh"
    BY <1>3 DEF Refresh
  <2>2. /\ w = [v EXCEPT !.refresh = TRUE]
        /\ r = [m EXCEPT !.refresh = TRUE]
    BY <1>e, <2>1 DEF merge_command
  <2>4. l.refresh = r.refresh
    BY <1>a, <1>b, <1>c, <1>d, <2>1, <2>2 DEF Updates
  <2>5. /\ l.watched = r.watched
        /\ l.scope = r.scope
        /\ l.write = r.write
        /\ l.rename = r.rename
        /\ l.fork = r.fork
        /\ l.lifecycle = r.lifecycle
        /\ l.start = r.start
        /\ l.turn = r.turn
        /\ l.controls = r.controls
    BY <1>a, <1>b, <1>c, <2>2 DEF Updates
  <2> QED
    BY <1>a, <2>4, <2>5, UpdateEqual
<1>4. CASE c \in WriteAccess
  <2>1. c.kind \in {"AcquireWrite", "ReleaseWrite"}
    BY <1>4 DEF WriteAccess
  <2>2. /\ w = [v EXCEPT !.write = c]
        /\ r = [m EXCEPT !.write = c]
    BY <1>e, <2>1 DEF merge_command
  <2>4. l.write = r.write
    BY <1>a, <1>b, <1>c, <1>d, <2>1, <2>2 DEF Updates, Newest
  <2>5. /\ l.watched = r.watched
        /\ l.scope = r.scope
        /\ l.refresh = r.refresh
        /\ l.rename = r.rename
        /\ l.fork = r.fork
        /\ l.lifecycle = r.lifecycle
        /\ l.start = r.start
        /\ l.turn = r.turn
        /\ l.controls = r.controls
    BY <1>a, <1>b, <1>c, <2>2 DEF Updates
  <2> QED
    BY <1>a, <2>4, <2>5, UpdateEqual
<1>5. CASE c \in RenameThread
  <2>1. c.kind = "RenameThread"
    BY <1>5 DEF RenameThread
  <2>2. /\ w = [v EXCEPT !.rename = c]
        /\ r = [m EXCEPT !.rename = c]
    BY <1>e, <2>1 DEF merge_command
  <2>4. l.rename = r.rename
    BY <1>a, <1>b, <1>c, <1>d, <2>1, <2>2 DEF Updates, Newest
  <2>5. /\ l.watched = r.watched
        /\ l.scope = r.scope
        /\ l.refresh = r.refresh
        /\ l.write = r.write
        /\ l.fork = r.fork
        /\ l.lifecycle = r.lifecycle
        /\ l.start = r.start
        /\ l.turn = r.turn
        /\ l.controls = r.controls
    BY <1>a, <1>b, <1>c, <2>2 DEF Updates
  <2> QED
    BY <1>a, <2>4, <2>5, UpdateEqual
<1>6. CASE c \in ForkThread
  <2>1. c.kind = "ForkThread"
    BY <1>6 DEF ForkThread
  <2>2. /\ w = [v EXCEPT !.fork = First(@, c)]
        /\ r = [m EXCEPT !.fork = First(@, c)]
    BY <1>e, <2>1 DEF merge_command
  <2>4. l.fork = r.fork
    BY <1>a, <1>b, <1>c, <1>d, <2>1, <2>2 DEF Updates, First
  <2>5. /\ l.watched = r.watched
        /\ l.scope = r.scope
        /\ l.refresh = r.refresh
        /\ l.write = r.write
        /\ l.rename = r.rename
        /\ l.lifecycle = r.lifecycle
        /\ l.start = r.start
        /\ l.turn = r.turn
        /\ l.controls = r.controls
    BY <1>a, <1>b, <1>c, <2>2 DEF Updates
  <2> QED
    BY <1>a, <2>4, <2>5, UpdateEqual
<1>7. CASE c \in ChangeThreadLifecycle
  <2>1. c.kind = "ChangeThreadLifecycle"
    BY <1>7 DEF ChangeThreadLifecycle
  <2>2. /\ w = [v EXCEPT !.lifecycle = Append(@, c)]
        /\ r = [m EXCEPT !.lifecycle = Append(@, c)]
    BY <1>e, <2>1 DEF merge_command
  <2>3. u.lifecycle \o Append(v.lifecycle, c) = Append(u.lifecycle \o v.lifecycle, c)
    <3>1. u.lifecycle \in Seq(ChangeThreadLifecycle) /\ v.lifecycle \in Seq(ChangeThreadLifecycle)
      BY DEF Updates
    <3>2. \A s, t \in Seq(ChangeThreadLifecycle) : s \o Append(t, c) = Append(s \o t, c)
      BY <1>7, AppendConcat
    <3> QED
      BY <3>1, <3>2, Zenon
  <2>4. l.lifecycle = r.lifecycle
    BY <1>a, <1>b, <1>c, <2>2, <2>3 DEF Updates
  <2>5. /\ l.watched = r.watched
        /\ l.scope = r.scope
        /\ l.refresh = r.refresh
        /\ l.write = r.write
        /\ l.rename = r.rename
        /\ l.fork = r.fork
        /\ l.start = r.start
        /\ l.turn = r.turn
        /\ l.controls = r.controls
    BY <1>a, <1>b, <1>c, <2>2 DEF Updates
  <2> QED
    BY <1>a, <2>4, <2>5, UpdateEqual
<1>8. CASE c \in StartThread
  <2>1. c.kind = "StartThread"
    BY <1>8 DEF StartThread
  <2>2. /\ w = [v EXCEPT !.start = First(@, c)]
        /\ r = [m EXCEPT !.start = First(@, c)]
    BY <1>e, <2>1 DEF merge_command
  <2>4. l.start = r.start
    BY <1>a, <1>b, <1>c, <1>d, <2>1, <2>2 DEF Updates, First
  <2>5. /\ l.watched = r.watched
        /\ l.scope = r.scope
        /\ l.refresh = r.refresh
        /\ l.write = r.write
        /\ l.rename = r.rename
        /\ l.fork = r.fork
        /\ l.lifecycle = r.lifecycle
        /\ l.turn = r.turn
        /\ l.controls = r.controls
    BY <1>a, <1>b, <1>c, <2>2 DEF Updates
  <2> QED
    BY <1>a, <2>4, <2>5, UpdateEqual
<1>9. CASE c \in StartTurn
  <2>1. c.kind = "StartTurn"
    BY <1>9 DEF StartTurn
  <2>2. /\ w = [v EXCEPT !.turn = First(@, c)]
        /\ r = [m EXCEPT !.turn = First(@, c)]
    BY <1>e, <2>1 DEF merge_command
  <2>4. l.turn = r.turn
    BY <1>a, <1>b, <1>c, <1>d, <2>1, <2>2 DEF Updates, First
  <2>5. /\ l.watched = r.watched
        /\ l.scope = r.scope
        /\ l.refresh = r.refresh
        /\ l.write = r.write
        /\ l.rename = r.rename
        /\ l.fork = r.fork
        /\ l.lifecycle = r.lifecycle
        /\ l.start = r.start
        /\ l.controls = r.controls
    BY <1>a, <1>b, <1>c, <2>2 DEF Updates
  <2> QED
    BY <1>a, <2>4, <2>5, UpdateEqual
<1>10. CASE c \in Control
  <2>1. c.kind \in {"SteerTurn", "InterruptTurn", "ResolveInteraction"}
    BY <1>10 DEF Control, TurnControl, ResolveInteraction
  <2>2. /\ w = [v EXCEPT !.controls = Append(@, c)]
        /\ r = [m EXCEPT !.controls = Append(@, c)]
    BY <1>e, <2>1 DEF merge_command
  <2>3. u.controls \o Append(v.controls, c) = Append(u.controls \o v.controls, c)
    <3>1. u.controls \in Seq(Control) /\ v.controls \in Seq(Control)
      BY DEF Updates
    <3>2. \A s, t \in Seq(Control) : s \o Append(t, c) = Append(s \o t, c)
      BY <1>10, AppendConcat
    <3> QED
      BY <3>1, <3>2, Zenon
  <2>4. l.controls = r.controls
    BY <1>a, <1>b, <1>c, <2>2, <2>3 DEF Updates
  <2>5. /\ l.watched = r.watched
        /\ l.scope = r.scope
        /\ l.refresh = r.refresh
        /\ l.write = r.write
        /\ l.rename = r.rename
        /\ l.fork = r.fork
        /\ l.lifecycle = r.lifecycle
        /\ l.start = r.start
        /\ l.turn = r.turn
    BY <1>a, <1>b, <1>c, <2>2 DEF Updates
  <2> QED
    BY <1>a, <2>4, <2>5, UpdateEqual
<1> QED
  BY <1>1, <1>2, <1>3, <1>4, <1>5, <1>6, <1>7, <1>8, <1>9, <1>10
     DEF Command, Exclusive, Shared

---------------------------------------------------------------------------
(* Deferral is transparent for every set of threads, every stream of        *)
(* commands and every way of splitting it over operations: the induction    *)
(* over the stream is the induction over the steps of CommandDeferral.      *)

(* The three accumulators always hold updates.                              *)
THEOREM DeferralTypeCorrect ==
    ASSUME IssuedAssumption PROVE DeferralSpec => []DeferralTypeOK
<1>1. DeferralInit => DeferralTypeOK
  BY EmptyUpdateUnit DEF DeferralInit, DeferralTypeOK
<1>2. DeferralTypeOK /\ [DeferralNext]_deferral_vars => DeferralTypeOK'
  <2> SUFFICES ASSUME DeferralTypeOK, [DeferralNext]_deferral_vars PROVE DeferralTypeOK'
    OBVIOUS
  <2>1. ASSUME NEW c \in Issued, Arrive(c) PROVE DeferralTypeOK'
    BY <2>1, MergeCommandType DEF IssuedAssumption, DeferralTypeOK, Arrive
  <2>2. CASE DeferralCompletes
    BY <2>2, EmptyUpdateUnit, MergeType DEF DeferralTypeOK, DeferralCompletes
  <2>3. CASE UNCHANGED deferral_vars
    BY <2>3 DEF DeferralTypeOK, deferral_vars
  <2> QED
    BY <2>1, <2>2, <2>3 DEF DeferralNext
<1> QED
  BY <1>1, <1>2, PTL DEF DeferralSpec

(* However commands are split over the operations in flight when they       *)
(* arrive, the deferred update is the one a single drain would have built   *)
(* (DeferralIsTransparent), for every Threads, Issued and MaxArrivals.      *)
THEOREM DeferralCorrect ==
    ASSUME IssuedAssumption PROVE DeferralSpec => []DeferralIsTransparent
<1>1. DeferralInit => DeferralIsTransparent
  BY EmptyUpdateUnit DEF DeferralInit, DeferralIsTransparent
<1>2. DeferralTypeOK /\ DeferralIsTransparent /\ [DeferralNext]_deferral_vars => DeferralIsTransparent'
  <2> SUFFICES ASSUME DeferralTypeOK, DeferralIsTransparent, [DeferralNext]_deferral_vars
               PROVE  DeferralIsTransparent'
    OBVIOUS
  <2>1. ASSUME NEW c \in Issued, Arrive(c) PROVE DeferralIsTransparent'
    BY <2>1, MergeCommandMerge
       DEF IssuedAssumption, DeferralTypeOK, DeferralIsTransparent, Arrive
  <2>2. CASE DeferralCompletes
    BY <2>2, EmptyUpdateUnit, MergeType
       DEF DeferralTypeOK, DeferralIsTransparent, DeferralCompletes
  <2>3. CASE UNCHANGED deferral_vars
    BY <2>3 DEF DeferralIsTransparent, deferral_vars
  <2> QED
    BY <2>1, <2>2, <2>3 DEF DeferralNext
<1> QED
  BY <1>1, <1>2, DeferralTypeCorrect, PTL DEF DeferralSpec

---------------------------------------------------------------------------
(* Types                                                                   *)

(* What the update being worked off must hold at each await point for the   *)
(* worker's next step to make sense.                                        *)
TurnStages == {"turnSelect", "turn", "turnBegin", "turnRun", "turnDrain"}

Fits(s, u) ==
    /\ s = "scope" => u.scope # None
    /\ s = "lifecycle" => u.lifecycle # <<>>
    /\ s = "write" => u.write # None
    /\ s = "fork" => u.fork # None
    /\ s = "start" => u.start # None
    /\ s \in TurnStages => u.turn # None
    /\ s \in {"top", "pollHistory", "pollConversation"} => u = EmptyUpdate
    /\ s = "finish" => Requests(u) = {}

StageFits ==
    /\ Fits(stage, update)
    /\ stage \notin {"top", "exit", "stopped"} => pending = EmptyUpdate

-----------------------------------------------------------------------------
(* Types of the pure operators.                                             *)

\* The operations on the writer and its projection yield such a record.
LEMMA RuntimeTypes ==
    ASSUME NEW w \in Runtimes, NEW t \in Threads
    PROVE  /\ reset \in Runtimes /\ detach(w) \in Runtimes
           /\ shutdown_writer(w) \in Runtimes /\ begin_turn(w) \in Runtimes
           /\ fail_stream(w) \in Runtimes /\ accept_snapshot(w, t) \in Runtimes
           /\ release_write(w, t) \in Runtimes
<1>1. detach(w) \in Runtimes
  BY DEF detach, Runtimes, LiveRuntimeStates
<1>2. ASSUME NEW v \in Runtimes PROVE shutdown_writer(v) \in Runtimes
  BY DEF shutdown_writer, Runtimes
<1>3. fail_stream(w) \in Runtimes
  BY <1>1, <1>2 DEF fail_stream
<1>4. ASSUME NEW v \in Runtimes PROVE detach(v) \in Runtimes
  BY DEF detach, Runtimes, LiveRuntimeStates
<1>5. release_write(w, t) \in Runtimes
  BY <1>2, <1>4 DEF release_write
<1>6. reset \in Runtimes
  BY DEF reset, Runtimes, LiveRuntimeStates
<1>7. begin_turn(w) \in Runtimes
  BY DEF begin_turn, Runtimes, LiveRuntimeStates
<1>8. accept_snapshot(w, t) \in Runtimes
  BY DEF accept_snapshot, Runtimes
<1> QED
  BY <1>1, <1>2, <1>3, <1>5, <1>6, <1>7, <1>8

\* A subscription yields such a record too.
LEMMA AttachType ==
    ASSUME NEW t \in Threads, NEW s \in Statuses, NEW n \in LiveTurns \cup {None}
    PROVE  attach(t, s, n) \in Runtimes
BY DEF attach, runtime_from_status, Runtimes, Statuses, LiveRuntimeStates

\* An event of the subscribed thread leaves such a record.
LEMMA EventType ==
    ASSUME NEW w \in Runtimes, NEW e \in StatusChanged \cup TurnEvent(LiveTurns)
    PROVE  apply_event(w, e) \in Runtimes
<1>1. CASE e \in StatusChanged
  <2>1. e.event = "ThreadStatusChanged" /\ e.status \in Statuses
    BY <1>1 DEF StatusChanged
  <2> QED
    BY <2>1 DEF apply_event, runtime_from_status, Runtimes, Statuses,
                LiveRuntimeStates
<1>2. CASE e \in TurnEvent(LiveTurns)
  <2>1. e.event \in {"TurnStarted", "TurnCompleted"} /\ e.turn \in LiveTurns
    BY <1>2 DEF TurnEvent
  <2>2. CASE e.event = "TurnStarted"
    BY <2>1, <2>2 DEF apply_event, Runtimes, LiveRuntimeStates
  <2>3. CASE e.event = "TurnCompleted"
    BY <2>1, <2>3 DEF apply_event, Runtimes, LiveRuntimeStates
  <2> QED
    BY <2>1, <2>2, <2>3
<1> QED
  BY <1>1, <1>2

\* What controls deliver is a set of deliveries.
LEMMA DeliveriesType ==
    ASSUME NEW w \in Runtimes, NEW cs \in Seq(Control)
    PROVE  apply_controls(w, cs) \subseteq Deliveries
<1> SUFFICES ASSUME NEW i \in DOMAIN cs, Reaches(w, cs[i])
             PROVE  [kind |-> cs[i].kind, issuedAt |-> cs[i].turn,
                     turn |-> w.liveTurn] \in Deliveries
  BY DEF apply_controls
<1>1. cs[i] \in TurnControl /\ w.liveTurn \in LiveTurns
  BY DEF Reaches, Runtimes
<1>2. cs[i].kind \in {"SteerTurn", "InterruptTurn"} /\ cs[i].turn \in LiveTurns
  BY <1>1 DEF TurnControl, LiveTurns
<1> QED
  BY <1>1, <1>2 DEF Deliveries

\* The worker enters a part of an update only when it is there.
LEMMA NextStageFits ==
    ASSUME NEW u \in Updates, NEW w, NEW s
    PROVE  LET n == NextStage(u, w, s)
           IN  /\ n \in Stages \ {"top", "exit", "stopped"}
               /\ Fits(n, u) /\ Fits("exit", u)
BY DEF NextStage, Fits, TurnStages, Stages, DrivenStages, Requests

LEMMA ProceedFits ==
    ASSUME NEW u \in Updates, NEW w, NEW s, Proceed(u, w, s)
    PROVE  /\ update' = u
           /\ stage' \in Stages \ {"top", "stopped"}
           /\ Fits(stage', update')
<1>1. update' = u /\ stage' \in {NextStage(u, w, s), "exit"}
  BY DEF Proceed, Enter
<1>2. "exit" \in Stages
  BY DEF Stages
<1> QED
  BY <1>1, <1>2, NextStageFits

\* The update that is left when a part of it was worked off.
LEMMA RestTypes ==
    ASSUME NEW u \in Updates
    PROVE  /\ [u EXCEPT !.scope = None] \in Updates
           /\ [u EXCEPT !.watched = None] \in Updates
           /\ [u EXCEPT !.rename = None] \in Updates
           /\ [u EXCEPT !.write = None] \in Updates
           /\ [u EXCEPT !.fork = None] \in Updates
           /\ [u EXCEPT !.write = None, !.start = None] \in Updates
           /\ [u EXCEPT !.controls = <<>>] \in Updates
           /\ u.lifecycle # <<>> =>
                /\ Head(u.lifecycle) \in ChangeThreadLifecycle
                /\ [u EXCEPT !.lifecycle = Tail(@)] \in Updates
<1>1. u.lifecycle \in Seq(ChangeThreadLifecycle)
  BY DEF Updates
<1>2. u.lifecycle # <<>> => /\ Head(u.lifecycle) \in ChangeThreadLifecycle
                            /\ Tail(u.lifecycle) \in Seq(ChangeThreadLifecycle)
  BY <1>1, HeadTailProperties
<1>3. u.lifecycle # <<>> => [u EXCEPT !.lifecycle = Tail(@)] \in Updates
  BY <1>2 DEF Updates
<1>4. <<>> \in Seq(Control)
  OBVIOUS
<1>5. [u EXCEPT !.controls = <<>>] \in Updates
  BY <1>4 DEF Updates
<1>6. /\ [u EXCEPT !.scope = None] \in Updates
      /\ [u EXCEPT !.watched = None] \in Updates
      /\ [u EXCEPT !.rename = None] \in Updates
  BY DEF Updates
<1>7. /\ [u EXCEPT !.write = None] \in Updates
      /\ [u EXCEPT !.fork = None] \in Updates
  BY DEF Updates
<1>8. [u EXCEPT !.write = None, !.start = None] \in Updates
  BY DEF Updates
<1> QED
  BY <1>2, <1>3, <1>5, <1>6, <1>7, <1>8

\* The channel is a bounded sequence of commands, whichever end is used.
LEMMA QueueTypes ==
    ASSUME NEW q \in Seq(Command), NEW c \in Command
    PROVE  /\ Append(q, c) \in Seq(Command) /\ Len(Append(q, c)) = Len(q) + 1
           /\ q # <<>> => /\ Head(q) \in Command
                          /\ Tail(q) \in Seq(Command) /\ Len(Tail(q)) = Len(q) - 1
BY AppendProperties, HeadTailProperties

-----------------------------------------------------------------------------
Inv == TypeOK /\ StageFits

LEMMA InvInit == Init => Inv
<1> SUFFICES ASSUME Init PROVE Inv
  OBVIOUS
<1>1. TypeOK
  <2>1. reset \in Runtimes
    BY DEF reset, Runtimes, LiveRuntimeStates
  <2>2. <<>> \in Seq(Command) /\ Len(<<>>) <= Capacity
    BY CapacityAssumption
  <2>3. {update, following, driven, pending} \subseteq Updates
    BY EmptyUpdateUnit DEF Init
  <2>4. callers \in [Callers -> Exclusive \cup {None}]
    BY DEF Init
  <2>5. "top" \in Stages /\ "Active" \in Scopes
    BY DEF Stages, Scopes
  <2>6. asked \in 0 .. MaxTurns /\ issued \in Nat
    BY MaxTurnsAssumption DEF Init
  <2> QED
    BY <2>1, <2>2, <2>3, <2>4, <2>5, <2>6, ThreadsAssumption DEF Init, TypeOK
<1>2. StageFits
  BY DEF Init, StageFits, Fits, TurnStages
<1> QED
  BY <1>1, <1>2 DEF Inv

\* Steps of the clients leave the worker alone.
LEMMA InvClient ==
    ASSUME Inv, ClientNext
    PROVE  Inv'
<1> USE DEF client, channel, deferral, server, view
<1>1. ASSUME NEW p \in Callers, NEW c \in Command, Send(p, c) PROVE Inv'
  <2>1. c.kind = "Watch" => c.thread \in Threads
    BY <1>1 DEF Send, Shared, Command, Watch, SetThreadListScope, Refresh, WriteAccess,
       RenameThread, ChangeThreadLifecycle, Control, TurnControl, ResolveInteraction
  <2>2. selected' \in Threads \cup {None}
    BY <1>1, <2>1 DEF Send, Inv, TypeOK, Watch
  <2>3. queue' \in Seq(Command) /\ Len(queue') <= Capacity
    BY <1>1, QueueTypes, CapacityAssumption DEF Send, Inv, TypeOK
  <2> QED
    BY <1>1, <2>2, <2>3 DEF Send, Inv, TypeOK, StageFits
<1>2. ASSUME NEW p \in Callers, NEW c \in Command, Reserve(p, c) PROVE Inv'
  <2>1. OperationOf(c) \in Operations
    BY <1>2 DEF Reserve, OperationOf, Operations, Exclusive, ForkThread, StartThread,
                StartTurn
  <2> QED
    BY <1>2, <2>1 DEF Reserve, Inv, TypeOK, StageFits
<1>3. ASSUME NEW p \in Callers, SendReserved(p) PROVE Inv'
  <2>1. callers[p] \in Exclusive /\ callers[p] \in Command
    BY <1>3 DEF SendReserved, Inv, TypeOK, Command
  <2>2. callers[p] \in StartTurn => callers[p].turn \in 0 .. MaxTurns
    BY MaxTurnsAssumption DEF StartTurn, Turns
  <2>3. asked' \in 0 .. MaxTurns
    BY <1>3, <2>2 DEF SendReserved, Inv, TypeOK
  <2>4. queue' \in Seq(Command) /\ Len(queue') <= Capacity
    <3>1. /\ queue \in Seq(Command) /\ Len(queue) <= Capacity
          /\ Len(queue) \in Nat
      BY DEF Inv, TypeOK
    <3>2. \/ Len(queue) < Capacity /\ queue' = Append(queue, callers[p])
          \/ queue' = queue
      BY <1>3 DEF SendReserved
    <3> QED
      BY <3>1, <3>2, <2>1, QueueTypes, CapacityAssumption
  <2>5. callers' \in [Callers -> Exclusive \cup {None}]
    BY <1>3 DEF SendReserved, Inv, TypeOK
  <2>6. gate' \in Operations \cup {"Idle"}
    BY <1>3 DEF SendReserved, Inv, TypeOK
  <2> QED
    BY <1>3, <2>3, <2>4, <2>5, <2>6 DEF SendReserved, Inv, TypeOK, StageFits
<1>4. CASE SendStop
  <2>1. queue' \in Seq(Command) /\ Len(queue') <= Capacity
    BY <1>4, QueueTypes, CapacityAssumption DEF SendStop, Inv, TypeOK, Command
  <2> QED
    BY <1>4, <2>1 DEF SendStop, Inv, TypeOK, StageFits
<1>5. CASE Cancel
  BY <1>5 DEF Cancel, Inv, TypeOK, StageFits
<1>6. CASE Join
  BY <1>6 DEF Join, Inv, TypeOK, StageFits
<1> QED
  BY <1>1, <1>2, <1>3, <1>4, <1>5, <1>6 DEF ClientNext

\* The worker's loop: polls, drains, deferral, stream events, the way out.
LEMMA InvLoop ==
    ASSUME Inv,
           \/ \E s \in DrivenStages : StartPoll(s)
           \/ FinishPoll \/ TakePending \/ ReceiveCommand \/ BeginUpdate
           \/ WriterStreamFails \/ (\E e \in Events : AcceptWriterEvent(e))
           \/ LeaveLoop \/ Shutdown \/ DeferCommand \/ StopOperation
    PROVE  Inv'
<1> USE DEF client, channel, deferral, server, view
<1>0. /\ DrivenStages \subseteq Stages
      /\ {"top", "drain", "exit", "stopped", "pollHistory", "pollConversation"}
            \subseteq Stages
  BY DEF Stages, DrivenStages
<1>a. /\ live \in Runtimes /\ queue \in Seq(Command) /\ Len(queue) <= Capacity
      /\ update \in Updates /\ driven \in Updates /\ pending \in Updates
  BY DEF Inv, TypeOK
<1>b. queue # <<>> => /\ Head(queue) \in Command
                      /\ Tail(queue) \in Seq(Command) /\ Len(Tail(queue)) <= Capacity
  <2>1. Stop \in Command
    BY DEF Command
  <2> QED
    BY <1>a, <2>1, QueueTypes, CapacityAssumption
<1>1. ASSUME NEW s \in DrivenStages, StartPoll(s) PROVE Inv'
  BY <1>1, <1>0 DEF StartPoll, Enter, Inv, TypeOK, StageFits, Fits, TurnStages, is_empty
<1>2. CASE FinishPoll
  <2>1. live' \in Runtimes
    <3>1. CASE watched \in Threads
      BY <3>1, <1>a, <1>2, RuntimeTypes DEF FinishPoll
    <3>2. CASE watched = None
      <4>1. accept_snapshot(live, None) \in Runtimes
        BY <1>a DEF accept_snapshot, Runtimes
      <4> QED
        BY <3>2, <4>1, <1>a, <1>2 DEF FinishPoll
    <3> QED
      BY <3>1, <3>2 DEF Inv, TypeOK
  <2>2. {update', following', driven', pending'} \subseteq Updates
    BY <1>2, <1>a, EmptyUpdateUnit DEF FinishPoll, Inv, TypeOK
  <2>3. Fits(stage', update')
    BY <1>2 DEF FinishPoll, Inv, StageFits, Fits, TurnStages
  <2> QED
    BY <1>2, <1>0, <2>1, <2>2, <2>3 DEF FinishPoll, Inv, TypeOK, StageFits
<1>3. CASE TakePending
  <2>1. {update', following', driven', pending'} \subseteq Updates
    BY <1>3, <1>a, EmptyUpdateUnit DEF TakePending, Proceed, Inv, TypeOK
  <2>2. stage' \in Stages /\ Fits(stage', update')
    <3>1. CASE stage' = "drain"
      BY <3>1, <1>0 DEF Fits, TurnStages
    <3>2. CASE Proceed(pending, watched, scope)
      BY <3>2, <1>a, ProceedFits
    <3> QED
      BY <1>3, <3>1, <3>2 DEF TakePending
  <2> QED
    BY <1>3, <2>1, <2>2 DEF TakePending, Inv, TypeOK, StageFits
<1>4. CASE ReceiveCommand
  <2>1. update' \in Updates
    BY <1>4, <1>a, <1>b, MergeCommandType DEF ReceiveCommand
  <2>2. Fits(stage', update')
    BY <1>4 DEF ReceiveCommand, Fits, TurnStages
  <2>3. pending' = EmptyUpdate
    BY <1>4 DEF ReceiveCommand, Inv, StageFits, is_empty
  <2> QED
    BY <1>4, <1>0, <1>b, <2>1, <2>2, <2>3 DEF ReceiveCommand, Inv, TypeOK, StageFits
<1>5. CASE BeginUpdate
  <2>1. update' = update /\ stage' \in Stages /\ Fits(stage', update')
    BY <1>5, <1>a, ProceedFits DEF BeginUpdate
  <2>2. pending' = EmptyUpdate
    BY <1>5 DEF BeginUpdate, Inv, StageFits
  <2> QED
    BY <1>5, <2>1, <2>2 DEF BeginUpdate, Inv, TypeOK, StageFits
<1>6. CASE WriterStreamFails
  <2>1. fail_stream(live) \in Runtimes
    <3>1. detach(live) \in Runtimes
      BY <1>a DEF detach, Runtimes, LiveRuntimeStates
    <3> QED
      BY <3>1 DEF fail_stream, shutdown_writer, Runtimes
  <2> QED
    BY <1>6, <2>1 DEF WriterStreamFails, Inv, TypeOK, StageFits
<1>7. ASSUME NEW e \in Events, AcceptWriterEvent(e) PROVE Inv'
  <2>1. begun \cup {0} \subseteq LiveTurns
    BY MaxTurnsAssumption DEF Inv, TypeOK, Turns, LiveTurns
  <2>2. e \in StatusChanged \cup TurnEvent(LiveTurns)
    BY <2>1 DEF Events, TurnEvent
  <2>3. live' \in Runtimes
    BY <1>7, <1>a, <2>2, EventType DEF AcceptWriterEvent
  <2> QED
    BY <1>7, <2>3 DEF AcceptWriterEvent, Inv, TypeOK, StageFits
<1>8. CASE LeaveLoop
  <2>1. Fits("exit", update)
    BY DEF Fits, TurnStages
  <2> QED
    BY <1>8, <1>0, <2>1 DEF LeaveLoop, Inv, TypeOK, StageFits
<1>9. CASE Shutdown
  <2>1. shutdown_writer(live) \in Runtimes
    BY <1>a DEF shutdown_writer, Runtimes
  <2>2. Fits("stopped", update)
    BY DEF Fits, TurnStages
  <2> QED
    BY <1>9, <1>0, <2>1, <2>2 DEF Shutdown, Inv, TypeOK, StageFits
<1>10. CASE DeferCommand
  <2>1. driven' \in Updates
    BY <1>10, <1>a, <1>b, MergeCommandType DEF DeferCommand
  <2> QED
    BY <1>10, <1>b, <2>1 DEF DeferCommand, Inv, TypeOK, StageFits
<1>11. CASE StopOperation
  <2>1. Fits("exit", update)
    BY DEF Fits, TurnStages
  <2> QED
    BY <1>11, <1>0, <2>1 DEF StopOperation, Inv, TypeOK, StageFits
<1> QED
  BY <1>1, <1>2, <1>3, <1>4, <1>5, <1>6, <1>7, <1>8, <1>9, <1>10, <1>11

\* What a subscription hands over is a runtime record.
LEMMA SubscriptionTypes ==
    ASSUME Inv, NEW t \in Threads
    PROVE  Subscriptions(t) \subseteq Runtimes
<1>1. begun \subseteq LiveTurns
  BY MaxTurnsAssumption DEF Inv, TypeOK, Turns, LiveTurns
<1>2. 0 \in LiveTurns
  BY MaxTurnsAssumption DEF LiveTurns
<1>3. begun \cup {0, None} \subseteq LiveTurns \cup {None}
  BY <1>1, <1>2
<1> QED
  BY <1>3, AttachType DEF Subscriptions

\* An operation that completes hands its deferred commands on.
LEMMA DeferralTypes ==
    ASSUME Inv
    PROVE  /\ merge(following, driven) \in Updates /\ EmptyUpdate \in Updates
           /\ update \in Updates /\ pending \in Updates
BY MergeType, EmptyUpdateUnit DEF Inv, TypeOK

\* The parts of an update that are not exclusive operations.
LEMMA InvParts ==
    ASSUME Inv,
           \/ SetScope \/ WatchThread \/ rename_thread
           \/ change_thread_lifecycle \/ Deselect \/ ChangeWriteAccess
    PROVE  Inv'
<1> USE DEF client, channel, deferral, server, view
<1>0. /\ "deselect" \in Stages /\ "exit" \in Stages
      /\ \A u : Fits("deselect", u) /\ Fits("exit", u)
  BY DEF Stages, DrivenStages, Fits, TurnStages
<1>a. /\ live \in Runtimes /\ update \in Updates
      /\ scope \in Scopes /\ watched \in Threads \cup {None}
  BY DEF Inv, TypeOK
<1>b. ASSUME NEW s \in DrivenStages, Completes(s)
      PROVE  /\ {following', driven', pending'} \subseteq Updates
             /\ pending' = EmptyUpdate
  BY <1>b, DeferralTypes DEF Completes, DrivenStages, Inv, StageFits
<1>c. reset \in Runtimes
  BY DEF reset, Runtimes, LiveRuntimeStates
<1>d. ASSUME NEW t \in Threads PROVE release_write(live, t) \in Runtimes
  BY <1>a, RuntimeTypes
<1>1. CASE SetScope
  <2>1. update' \in Updates /\ stage' \in Stages /\ Fits(stage', update')
    BY <1>1, <1>a, RestTypes, ProceedFits DEF SetScope
  <2>2. scope' \in Scopes
    BY <1>1, <1>a DEF SetScope, Completes, Inv, StageFits, Fits, Updates
  <2>3. {following', driven', pending'} \subseteq Updates /\ pending' = EmptyUpdate
    BY <1>1, <1>b DEF SetScope, DrivenStages
  <2> QED
    BY <1>1, <1>c, <2>1, <2>2, <2>3
       DEF SetScope, Completes, Inv, TypeOK, StageFits
<1>2. CASE WatchThread
  <2>1. update' \in Updates /\ stage' \in Stages /\ Fits(stage', update')
    BY <1>2, <1>a, RestTypes, ProceedFits DEF WatchThread
  <2>2. watched' \in Threads \cup {None}
    BY <1>2, <1>a DEF WatchThread, Updates
  <2>3. {following', driven', pending'} \subseteq Updates /\ pending' = EmptyUpdate
    BY <1>2, <1>b DEF WatchThread, DrivenStages
  <2> QED
    BY <1>2, <1>c, <2>1, <2>2, <2>3
       DEF WatchThread, Completes, Inv, TypeOK, StageFits
<1>3. CASE rename_thread
  <2>1. update' \in Updates /\ stage' \in Stages /\ Fits(stage', update')
    BY <1>3, <1>a, RestTypes, ProceedFits DEF rename_thread
  <2>2. {following', driven', pending'} \subseteq Updates /\ pending' = EmptyUpdate
    BY <1>3, <1>b DEF rename_thread, DrivenStages
  <2> QED
    BY <1>3, <2>1, <2>2 DEF rename_thread, Completes, Inv, TypeOK, StageFits
<1>4. CASE change_thread_lifecycle
  <2> DEFINE r == Head(update.lifecycle)
             rest == [update EXCEPT !.lifecycle = Tail(@)]
  <2>1. update.lifecycle # <<>>
    BY <1>4 DEF change_thread_lifecycle, Completes, Inv, StageFits, Fits
  <2>2. r \in ChangeThreadLifecycle /\ rest \in Updates
    BY <2>1, <1>a, RestTypes
  <2>3. r.thread \in Threads
    BY <2>2 DEF ChangeThreadLifecycle
  <2>4. live' \in Runtimes
    BY <1>4, <2>3, <1>a, <1>d DEF change_thread_lifecycle
  <2> HIDE DEF rest
  <2>5. \/ Proceed(rest, watched, scope)
        \/ update' = rest /\ Enter("deselect")
    BY <1>4 DEF change_thread_lifecycle, rest
  <2>6. update' \in Updates /\ stage' \in Stages /\ Fits(stage', update')
    <3>1. CASE Proceed(rest, watched, scope)
      BY <3>1, <2>2, ProceedFits
    <3>2. CASE update' = rest /\ Enter("deselect")
      BY <3>2, <2>2, <1>0 DEF Enter
    <3> QED
      BY <2>5, <3>1, <3>2
  <2>7. {following', driven', pending'} \subseteq Updates /\ pending' = EmptyUpdate
    BY <1>4, <1>b DEF change_thread_lifecycle, DrivenStages
  <2> QED
    BY <1>4, <2>4, <2>6, <2>7
       DEF change_thread_lifecycle, Completes, Inv, TypeOK, StageFits
<1>5. CASE Deselect
  <2>1. update' \in Updates /\ stage' \in Stages /\ Fits(stage', update')
    BY <1>5, <1>a, ProceedFits DEF Deselect
  <2>2. {following', driven', pending'} \subseteq Updates /\ pending' = EmptyUpdate
    BY <1>5, <1>b DEF Deselect, DrivenStages
  <2> QED
    BY <1>5, <1>c, <2>1, <2>2 DEF Deselect, Completes, Inv, TypeOK, StageFits
<1>6. CASE ChangeWriteAccess
  <2>1. update' \in Updates /\ stage' \in Stages /\ Fits(stage', update')
    BY <1>6, <1>a, RestTypes, ProceedFits DEF ChangeWriteAccess
  <2>2. update.write.thread \in Threads
    BY <1>6, <1>a DEF ChangeWriteAccess, Completes, Inv, StageFits, Fits, Updates,
                      WriteAccess
  <2>3. shutdown_writer(live) \in Runtimes
    BY <1>a DEF shutdown_writer, Runtimes
  <2>4. live' \in Runtimes
    BY <1>6, <2>2, <2>3, <1>a, <1>d, SubscriptionTypes DEF ChangeWriteAccess
  <2>5. {following', driven', pending'} \subseteq Updates /\ pending' = EmptyUpdate
    BY <1>6, <1>b DEF ChangeWriteAccess, DrivenStages
  <2> QED
    BY <1>6, <2>1, <2>4, <2>5
       DEF ChangeWriteAccess, Completes, Inv, TypeOK, StageFits
<1> QED
  BY <1>1, <1>2, <1>3, <1>4, <1>5, <1>6

\* The exclusive operations on threads.
LEMMA InvThreads ==
    ASSUME Inv,
           \/ \E t \in Threads : StartedThread(t) \/ ForkedThread(t)
           \/ ThreadStartFails \/ ThreadForkFails
    PROVE  Inv'
<1> USE DEF client, channel, deferral, server, view
<1>a. live \in Runtimes /\ update \in Updates /\ "Idle" \in Operations \cup {"Idle"}
  BY DEF Inv, TypeOK
<1>1. ASSUME NEW t \in Threads, StartedThread(t) PROVE Inv'
  <2>1. update' \in Updates /\ stage' \in Stages /\ Fits(stage', update')
    BY <1>1, <1>a, RestTypes, ProceedFits DEF StartedThread
  <2>2. {following', driven', pending'} \subseteq Updates /\ pending' = EmptyUpdate
    BY <1>1, DeferralTypes DEF StartedThread, Inv, StageFits
  <2>3. live' \in Runtimes
    BY <1>1, SubscriptionTypes DEF StartedThread, Adopt
  <2> QED
    BY <1>1, <2>1, <2>2, <2>3 DEF StartedThread, Adopt, Inv, TypeOK, StageFits
<1>2. ASSUME NEW t \in Threads, ForkedThread(t) PROVE Inv'
  <2>1. update' \in Updates /\ stage' \in Stages /\ Fits(stage', update')
    BY <1>2, <1>a, RestTypes, ProceedFits DEF ForkedThread
  <2>2. {following', driven', pending'} \subseteq Updates /\ pending' = EmptyUpdate
    BY <1>2, DeferralTypes DEF ForkedThread, Inv, StageFits
  <2>3. live' \in Runtimes
    BY <1>2, SubscriptionTypes DEF ForkedThread, Adopt
  <2> QED
    BY <1>2, <2>1, <2>2, <2>3 DEF ForkedThread, Adopt, Inv, TypeOK, StageFits
<1>3. CASE ThreadStartFails
  <2>1. update' \in Updates /\ stage' \in Stages /\ Fits(stage', update')
    BY <1>3, <1>a, RestTypes, ProceedFits DEF ThreadStartFails
  <2>2. {following', driven', pending'} \subseteq Updates /\ pending' = EmptyUpdate
    BY <1>3, DeferralTypes DEF ThreadStartFails, Completes, Inv, StageFits
  <2> QED
    BY <1>3, <2>1, <2>2 DEF ThreadStartFails, Completes, Inv, TypeOK, StageFits
<1>4. CASE ThreadForkFails
  <2>1. update' \in Updates /\ stage' \in Stages /\ Fits(stage', update')
    BY <1>4, <1>a, RestTypes, ProceedFits DEF ThreadForkFails
  <2>2. {following', driven', pending'} \subseteq Updates /\ pending' = EmptyUpdate
    BY <1>4, DeferralTypes DEF ThreadForkFails, Completes, Inv, StageFits
  <2>3. update.fork.thread \in Threads
    BY <1>4, <1>a DEF ThreadForkFails, Completes, Inv, StageFits, Fits, Updates,
                      ForkThread
  <2>4. shutdown_writer(live) \in Runtimes /\ fail_stream(live) \in Runtimes
    BY <1>a, <2>3, RuntimeTypes
  <2>5. Forkable => attach(live.conversation, "Idle", None) \in Runtimes
    BY <2>3, AttachType DEF Forkable, Statuses
  <2>6. live' \in Runtimes
    <3>1. CASE ~Forkable \/ writer_matches(live, update.fork.thread)
      BY <1>4, <3>1, <1>a DEF ThreadForkFails
    <3>2. CASE ~(~Forkable \/ writer_matches(live, update.fork.thread))
      BY <1>4, <3>2, <2>4, <2>5 DEF ThreadForkFails
    <3> QED
      BY <3>1, <3>2
  <2> QED
    BY <1>4, <2>1, <2>2, <2>6 DEF ThreadForkFails, Completes, Inv, TypeOK, StageFits
<1> QED
  BY <1>1, <1>2, <1>3, <1>4

\* A turn that is over leaves nothing of its update.
LEMMA InvEndTurn ==
    ASSUME Inv, EndTurn, stage \in TurnStages, live' \in Runtimes, begun' \subseteq Turns
    PROVE  Inv'
<1> USE DEF client, channel, deferral, server, view
<1>1. {update', following', driven', pending'} \subseteq Updates
  BY DeferralTypes DEF EndTurn
<1>2. stage' \in Stages /\ Fits(stage', update')
  BY DEF EndTurn, Stages, Fits, TurnStages, Requests, EmptyUpdate
<1>3. pending' = EmptyUpdate
  BY DEF EndTurn, Inv, StageFits, TurnStages
<1> QED
  BY <1>1, <1>2, <1>3 DEF EndTurn, Inv, TypeOK, StageFits

\* The turn, from the selection of its thread to its end, and the update's end.
LEMMA InvTurn ==
    ASSUME Inv,
           \/ SelectTurnThread \/ RejectTurn \/ BeginTurn
           \/ TurnFailsToBegin \/ TurnBegins
           \/ ReceiveTurnCommand \/ ApplyTurnControls
           \/ (\E e \in Events : AcceptTurnEvent(e))
           \/ TurnEnds \/ FinishUpdate
    PROVE  Inv'
<1> USE DEF client, channel, deferral, server, view
<1>a. /\ live \in Runtimes /\ begun \subseteq Turns /\ delivered \subseteq Deliveries
      /\ {update, following, driven, pending} \subseteq Updates
      /\ queue \in Seq(Command) /\ Len(queue) <= Capacity
  BY DEF Inv, TypeOK
<1>b. ASSUME stage \in TurnStages
      PROVE  /\ update.turn.thread \in Threads /\ update.turn.turn \in Turns
             /\ update.turn # None /\ pending = EmptyUpdate
  <2>1. update.turn \in StartTurn
    BY <1>a, <1>b DEF Inv, StageFits, Fits, Updates
  <2> QED
    BY <1>b, <2>1 DEF StartTurn, Inv, StageFits, Fits, TurnStages
<1>c. {"turn", "turnBegin", "turnRun", "turnDrain", "top", "exit"} \subseteq Stages
  BY DEF Stages, DrivenStages
<1>d. \A u \in Updates : u.controls \in Seq(Control) /\ [u EXCEPT !.controls = <<>>] \in Updates
  BY RestTypes DEF Updates
<1>e. detach(live) \in Runtimes /\ fail_stream(live) \in Runtimes /\ begin_turn(live) \in Runtimes
  <2>1. detach(live) \in Runtimes
    BY <1>a DEF detach, Runtimes, LiveRuntimeStates
  <2>2. fail_stream(live) \in Runtimes
    BY <2>1 DEF fail_stream, shutdown_writer, Runtimes
  <2>3. begin_turn(live) \in Runtimes
    BY <1>a DEF begin_turn, Runtimes, LiveRuntimeStates
  <2> QED
    BY <2>1, <2>2, <2>3
<1>f. ASSUME NEW n \in Turns, NEW e, e \in TurnEvent({n})
      PROVE  apply_event(live, e) \in Runtimes
  <2>1. n \in LiveTurns
    BY MaxTurnsAssumption DEF Turns, LiveTurns
  <2>2. e \in TurnEvent(LiveTurns)
    BY <1>f, <2>1 DEF TurnEvent
  <2> QED
    BY <1>a, <2>2, EventType
<1>g. reset \in Runtimes
  BY DEF reset, Runtimes, LiveRuntimeStates
<1>1. CASE SelectTurnThread
  <2>1. stage \in TurnStages
    BY <1>1 DEF SelectTurnThread, Completes, TurnStages
  <2>2. stage' \in Stages /\ Fits(stage', update')
    BY <1>1, <1>b, <1>c, <2>1 DEF SelectTurnThread, Fits, TurnStages
  <2>3. {following', driven', pending'} \subseteq Updates /\ pending' = EmptyUpdate
    BY <1>1, <1>b, <2>1, DeferralTypes DEF SelectTurnThread, Completes
  <2> QED
    BY <1>1, <1>b, <1>g, <2>1, <2>2, <2>3
       DEF SelectTurnThread, Completes, Inv, TypeOK, StageFits
<1>2. CASE RejectTurn
  BY <1>2, <1>a, <1>e, InvEndTurn DEF RejectTurn, TurnStages
<1>3. CASE BeginTurn
  <2>1. stage \in TurnStages
    BY <1>3 DEF BeginTurn, TurnStages
  <2>2. stage' \in Stages /\ Fits(stage', update')
    BY <1>3, <1>b, <1>c, <2>1 DEF BeginTurn, Enter, Fits, TurnStages
  <2> QED
    BY <1>3, <1>b, <1>e, <2>1, <2>2 DEF BeginTurn, Inv, TypeOK, StageFits
<1>4. CASE TurnFailsToBegin
  <2>1. stage \in TurnStages
    BY <1>4 DEF TurnFailsToBegin, TurnStages
  <2>2. begun' \subseteq Turns
    BY <1>4, <1>a, <1>b, <2>1 DEF TurnFailsToBegin
  <2>3. live' \in Runtimes
    BY <1>4, <1>a, <1>e DEF TurnFailsToBegin
  <2> QED
    BY <1>4, <2>1, <2>2, <2>3, InvEndTurn DEF TurnFailsToBegin
<1>5. CASE TurnBegins
  <2>1. stage \in TurnStages
    BY <1>5 DEF TurnBegins, TurnStages
  <2>2. update.turn.turn \in Turns
    BY <1>b, <2>1
  <2>3. live' \in Runtimes
    <3>1. [event |-> "TurnStarted", turn |-> update.turn.turn]
              \in TurnEvent({update.turn.turn})
      BY DEF TurnEvent
    <3> QED
      BY <1>5, <1>f, <2>2, <3>1 DEF TurnBegins
  <2>4. delivered' \subseteq Deliveries
    <3>1. update.controls \o driven.controls \in Seq(Control)
      BY <1>a, <1>d, ConcatProperties
    <3>2. apply_controls(live', update.controls \o driven.controls) \subseteq Deliveries
      BY <2>3, <3>1, DeliveriesType
    <3> QED
      BY <1>5, <1>a, <3>2 DEF TurnBegins
  <2>5. update' \in Updates /\ driven' \in Updates
    BY <1>5, <1>a, <1>d DEF TurnBegins
  <2>6. update'.turn = update.turn
    BY <1>5, <1>a DEF TurnBegins, Updates
  <2>7. stage' \in Stages /\ Fits(stage', update')
    BY <1>5, <1>b, <1>c, <2>1, <2>6 DEF TurnBegins, Fits, TurnStages
  <2>8. begun' \subseteq Turns
    BY <1>5, <1>a, <2>2 DEF TurnBegins
  <2> QED
    BY <1>5, <1>b, <2>1, <2>3, <2>4, <2>5, <2>7, <2>8
       DEF TurnBegins, Inv, TypeOK, StageFits
<1>6. CASE ReceiveTurnCommand
  <2>1. stage \in TurnStages
    BY <1>6 DEF ReceiveTurnCommand, TurnStages
  <2>2. /\ Head(queue) \in Command \ {Stop}
        /\ queue' \in Seq(Command) /\ Len(queue') <= Capacity
    <3>1. Stop \in Command
      BY DEF Command
    <3> QED
      BY <1>6, <1>a, <3>1, QueueTypes, CapacityAssumption DEF ReceiveTurnCommand
  <2>3. driven' \in Updates
    BY <1>6, <1>a, <2>2, MergeCommandType DEF ReceiveTurnCommand
  <2>4. stage' \in Stages /\ Fits(stage', update')
    BY <1>6, <1>b, <1>c, <2>1 DEF ReceiveTurnCommand, Fits, TurnStages
  <2> QED
    BY <1>6, <1>b, <2>1, <2>2, <2>3, <2>4
       DEF ReceiveTurnCommand, Inv, TypeOK, StageFits
<1>7. CASE ApplyTurnControls
  <2>1. stage \in TurnStages
    BY <1>7 DEF ApplyTurnControls, TurnStages
  <2>2. delivered' \subseteq Deliveries
    BY <1>7, <1>a, <1>d, DeliveriesType DEF ApplyTurnControls
  <2>3. driven' \in Updates
    BY <1>7, <1>a, <1>d DEF ApplyTurnControls
  <2>4. stage' \in Stages /\ Fits(stage', update')
    BY <1>7, <1>b, <1>c, <2>1 DEF ApplyTurnControls, Fits, TurnStages
  <2> QED
    BY <1>7, <1>b, <2>1, <2>2, <2>3, <2>4
       DEF ApplyTurnControls, Inv, TypeOK, StageFits
<1>8. ASSUME NEW e \in Events, AcceptTurnEvent(e) PROVE Inv'
  <2>1. begun \cup {0} \subseteq LiveTurns
    BY MaxTurnsAssumption DEF Inv, TypeOK, Turns, LiveTurns
  <2>2. e \in StatusChanged \cup TurnEvent(LiveTurns)
    BY <2>1 DEF Events, TurnEvent
  <2>3. live' \in Runtimes
    BY <1>8, <1>a, <2>2, EventType DEF AcceptTurnEvent
  <2> QED
    BY <1>8, <2>3 DEF AcceptTurnEvent, Inv, TypeOK, StageFits
<1>9. CASE TurnCompletes
  <2>1. stage \in TurnStages
    BY <1>9 DEF TurnCompletes, Streaming, TurnStages
  <2>2. live' \in Runtimes
    <3>1. Completion \in TurnEvent({update.turn.turn})
      BY DEF Completion, TurnEvent
    <3> QED
      BY <1>9, <1>b, <1>f, <2>1, <3>1 DEF TurnCompletes
  <2> QED
    BY <1>9, <1>a, <2>1, <2>2, InvEndTurn DEF TurnCompletes
<1>10. CASE TurnStreamFails
  BY <1>10, <1>a, <1>e, InvEndTurn DEF TurnStreamFails, Streaming, TurnStages
<1>11. CASE FinishUpdate
  <2>1. delivered' \subseteq Deliveries
    BY <1>11, <1>a, <1>d, DeliveriesType DEF FinishUpdate
  <2>2. {update', following', driven', pending'} \subseteq Updates
    BY <1>11, <1>a, EmptyUpdateUnit DEF FinishUpdate
  <2>3. stage' \in Stages /\ Fits(stage', update')
    BY <1>11, <1>c DEF FinishUpdate, Fits, TurnStages
  <2> QED
    BY <1>11, <2>1, <2>2, <2>3 DEF FinishUpdate, Inv, TypeOK, StageFits
<1> QED
  BY <1>1, <1>2, <1>3, <1>4, <1>5, <1>6, <1>7, <1>8, <1>9, <1>10, <1>11 DEF TurnEnds

LEMMA InvStep == Inv /\ [Next]_vars => Inv'
<1> SUFFICES ASSUME Inv, [Next]_vars PROVE Inv'
  OBVIOUS
<1>1. CASE UNCHANGED vars
  BY <1>1 DEF vars, client, channel, deferral, server, view, Inv, TypeOK, StageFits
<1>2. CASE ClientNext
  BY <1>2, InvClient
<1>3. CASE WorkerNext
  BY <1>3, InvLoop, InvParts, InvThreads, InvTurn
     DEF WorkerNext, WorkerStep, OperationCompletes, TurnEnds, StreamNext
<1> QED
  BY <1>1, <1>2, <1>3 DEF Next, Terminated

(* Every reachable state of the observer has the types of TypeOK, and at      *)
(* each await point of the worker the part of the update it is working off    *)
(* is there (run_observer unwraps it).                                        *)
THEOREM ObserverTypeCorrect == Spec => [](TypeOK /\ StageFits)
<1>1. Init => Inv
  BY InvInit
<1>2. Inv /\ [Next]_vars => Inv'
  BY InvStep
<1>3. Inv => TypeOK /\ StageFits
  BY DEF Inv
<1> QED
  BY <1>1, <1>2, <1>3, PTL DEF Spec

---------------------------------------------------------------------------
(* Writer, projection and selection                                        *)

\* What was decided about the watched thread when an await point was entered
\* still holds there.
Chosen(s, u, w) ==
    /\ s = "write" => (u.write.kind = "AcquireWrite" => u.write.thread = w)
    /\ s \in {"turn", "turnBegin", "turnRun", "turnDrain"} => u.turn.thread = w

Watching(v, w) == {v.writer, v.conversation} \subseteq {None, w}
Quiet(v) == v.writer = None => v = detach(v)
ReadOnly(v, s) == s = "Archived" => v.writer = None

\* The writer is the watched thread's, and what the projection shows is its.
Agrees(v, w, s) == Watching(v, w) /\ Quiet(v) /\ ReadOnly(v, s)

WriterInv ==
    /\ Chosen(stage, update, watched)
    /\ stage # "stopped" => Agrees(live, watched, scope)
    /\ stage \in {"turnBegin", "turnRun", "turnDrain"} => live.writer = watched
    /\ scope = "Archived" => live.writer = None

-----------------------------------------------------------------------------
(* Operations on the writer and its projection.                             *)

\* The worker enters the acquisition of a writer for the watched thread only.
LEMMA NextStageChosen ==
    ASSUME NEW u, NEW w, NEW s
    PROVE  /\ Chosen(NextStage(u, w, s), u, w) /\ Chosen("exit", u, w)
           /\ NextStage(u, w, s) \notin {"stopped", "turnBegin", "turnRun", "turnDrain"}
BY DEF NextStage, Chosen

LEMMA ProceedChosen ==
    ASSUME NEW u, NEW w, NEW s, Proceed(u, w, s)
    PROVE  /\ Chosen(stage', update', w)
           /\ stage' \notin {"stopped", "turnBegin", "turnRun", "turnDrain"}
<1>1. update' = u /\ stage' \in {NextStage(u, w, s), "exit"}
  BY DEF Proceed, Enter
<1> QED
  BY <1>1, NextStageChosen

\* A reset agrees with every selection.
LEMMA ResetAgrees ==
    ASSUME NEW w, NEW s
    PROVE  Agrees(reset, w, s) /\ reset.writer = None
<1>1. /\ reset \in Runtimes /\ reset.writer = None /\ reset.conversation = None
      /\ reset.runtime = "Detached" /\ reset.liveTurn = None
  BY DEF reset, Runtimes, LiveRuntimeStates
<1>2. ASSUME NEW v \in Runtimes, v.runtime = "Detached", v.liveTurn = None
      PROVE  v = detach(v)
  BY <1>2 DEF detach, Runtimes
<1> QED
  BY <1>1, <1>2 DEF Agrees, Watching, Quiet, ReadOnly

\* A projection that was detached, with or without its writer, agrees.
LEMMA DetachAgrees ==
    ASSUME NEW v \in Runtimes, NEW w, NEW s, NEW t, Agrees(v, w, s)
    PROVE  /\ Agrees(detach(v), w, s) /\ detach(v).writer = v.writer
           /\ Agrees(fail_stream(v), w, s) /\ Agrees(release_write(v, t), w, s)
<1>1. /\ detach(v).writer = v.writer /\ detach(v).conversation = v.conversation
      /\ detach(detach(v)) = detach(v)
  BY DEF detach, Runtimes
<1>2. Agrees(detach(v), w, s)
  BY <1>1 DEF Agrees, Watching, Quiet, ReadOnly
<1>3. /\ fail_stream(v).writer = None /\ fail_stream(v).conversation = v.conversation
      /\ detach(fail_stream(v)) = fail_stream(v)
  BY DEF fail_stream, shutdown_writer, detach, Runtimes
<1>4. Agrees(fail_stream(v), w, s)
  BY <1>3 DEF Agrees, Watching, Quiet, ReadOnly
<1>5. CASE writer_matches(v, t)
  <2>1. release_write(v, t) = detach(shutdown_writer(v))
    BY <1>5 DEF release_write
  <2>2. /\ detach(shutdown_writer(v)).writer = None
        /\ detach(shutdown_writer(v)).conversation = v.conversation
        /\ detach(detach(shutdown_writer(v))) = detach(shutdown_writer(v))
    BY DEF shutdown_writer, detach, Runtimes
  <2>3. Agrees(detach(shutdown_writer(v)), w, s)
    BY <2>2 DEF Agrees, Watching, Quiet, ReadOnly
  <2> QED
    BY <1>1, <1>2, <1>4, <2>1, <2>3
<1>6. CASE ~writer_matches(v, t)
  BY <1>1, <1>2, <1>4, <1>6 DEF release_write
<1> QED
  BY <1>5, <1>6

\* A subscription to the watched thread agrees while active history is shown.
LEMMA AttachAgrees ==
    ASSUME NEW t \in Threads, NEW st, NEW n, NEW s, s # "Archived"
    PROVE  Agrees(attach(t, st, n), t, s)
BY NoneAssumption DEF Agrees, Watching, Quiet, ReadOnly, attach

\* Events, a turn's beginning and a snapshot leave the writer alone.
LEMMA EventAgrees ==
    ASSUME NEW v \in Runtimes, NEW w, NEW s, Agrees(v, w, s), v.writer # None
    PROVE  /\ \A e \in StatusChanged \cup TurnEvent(LiveTurns) :
                    /\ Agrees(apply_event(v, e), w, s)
                    /\ apply_event(v, e).writer = v.writer
           /\ Agrees(begin_turn(v), w, s) /\ begin_turn(v).writer = v.writer
<1>1. ASSUME NEW e \in StatusChanged \cup TurnEvent(LiveTurns)
      PROVE  /\ apply_event(v, e).writer = v.writer
             /\ apply_event(v, e).conversation = v.conversation
  <2>1. e.event \in {"ThreadStatusChanged", "TurnStarted", "TurnCompleted"}
    BY DEF StatusChanged, TurnEvent
  <2> QED
    BY <2>1 DEF apply_event, Runtimes
<1>2. /\ begin_turn(v).writer = v.writer
      /\ begin_turn(v).conversation = v.conversation
  BY DEF begin_turn, Runtimes
<1> QED
  BY <1>1, <1>2 DEF Agrees, Watching, Quiet, ReadOnly

LEMMA SnapshotAgrees ==
    ASSUME NEW v \in Runtimes, NEW w, NEW s, Agrees(v, w, s)
    PROVE  Agrees(accept_snapshot(v, w), w, s)
<1>1. /\ accept_snapshot(v, w).writer = v.writer
      /\ accept_snapshot(v, w).conversation = w
      /\ v = detach(v) => accept_snapshot(v, w) = detach(accept_snapshot(v, w))
  BY DEF accept_snapshot, detach, Runtimes
<1> QED
  BY <1>1 DEF Agrees, Watching, Quiet, ReadOnly

\* Without a writer there is none to shut down.
LEMMA ShutdownAgrees ==
    ASSUME NEW v \in Runtimes, NEW w, NEW s, NEW t \in Threads, Agrees(v, w, s), t = w,
           ~writer_matches(v, t)
    PROVE  Agrees(shutdown_writer(v), w, s)
<1>1. v.writer = None
  BY DEF Agrees, Watching, writer_matches
<1>2. shutdown_writer(v) = v
  BY <1>1 DEF shutdown_writer, Runtimes
<1> QED
  BY <1>2

-----------------------------------------------------------------------------
(* Steps.                                                                   *)

LEMMA WriterInit == Init => WriterInv
BY ResetAgrees DEF Init, WriterInv, Chosen

\* A step that leaves update, selection and writer alone and does not enter a
\* stage that asks anything of them.
LEMMA WriterFrame ==
    ASSUME WriterInv, stage' # "stopped" => stage # "stopped",
           \/ stage' = stage
           \/ stage' \notin {"write", "turn", "turnBegin", "turnRun", "turnDrain"},
           update' = update \/ stage' \notin {"write", "turn", "turnBegin",
                                              "turnRun", "turnDrain"},
           watched' = watched, scope' = scope, live' = live
    PROVE  WriterInv'
BY DEF WriterInv, Chosen

\* A step that goes on to the next part of the update.
LEMMA WriterProceeds ==
    ASSUME NEW u, Proceed(u, watched', scope'),
           Agrees(live', watched', scope')
    PROVE  WriterInv'
<1>1. /\ Chosen(stage', update', watched')
      /\ stage' \notin {"stopped", "turnBegin", "turnRun", "turnDrain"}
  BY ProceedChosen
<1> QED
  BY <1>1 DEF WriterInv, Agrees, ReadOnly

\* A turn that is over.
LEMMA WriterEndsTurn ==
    ASSUME EndTurn, Agrees(live', watched, scope)
    PROVE  WriterInv'
BY DEF EndTurn, WriterInv, Chosen, Agrees, ReadOnly

LEMMA WriterLoop ==
    ASSUME Inv, WriterInv,
           \/ ClientNext \/ \E s \in DrivenStages : StartPoll(s)
           \/ FinishPoll \/ TakePending \/ ReceiveCommand \/ BeginUpdate
           \/ WriterStreamFails \/ (\E e \in Events : AcceptWriterEvent(e))
           \/ LeaveLoop \/ Shutdown \/ DeferCommand \/ StopOperation \/ FinishUpdate
    PROVE  WriterInv'
<1> USE DEF client, channel, deferral, server, view
<1>a. live \in Runtimes /\ (stage # "stopped" => Agrees(live, watched, scope))
  BY DEF Inv, TypeOK, WriterInv
<1>1. CASE ClientNext
  BY <1>1, WriterFrame DEF ClientNext, Send, Reserve, SendReserved, SendStop, Cancel, Join
<1>2. ASSUME NEW s \in DrivenStages, StartPoll(s) PROVE WriterInv'
  BY <1>2, WriterFrame DEF StartPoll, Enter
<1>3. CASE FinishPoll
  <2>1. Agrees(live', watched, scope)
    BY <1>3, <1>a, SnapshotAgrees DEF FinishPoll
  <2> QED
    BY <1>3, <2>1 DEF FinishPoll, WriterInv, Chosen, Agrees, ReadOnly
<1>4. CASE TakePending
  <2>1. CASE stage' = "drain"
    BY <1>4, <2>1, WriterFrame DEF TakePending
  <2>2. CASE Proceed(pending, watched, scope)
    <3>1. stage # "stopped" /\ watched' = watched /\ scope' = scope /\ live' = live
      BY <1>4 DEF TakePending
    <3> QED
      BY <2>2, <3>1, <1>a, WriterProceeds
  <2> QED
    BY <1>4, <2>1, <2>2 DEF TakePending
<1>5. CASE ReceiveCommand
  BY <1>5, WriterFrame DEF ReceiveCommand
<1>6. CASE BeginUpdate
  <2>1. /\ stage # "stopped" /\ watched' = watched /\ scope' = scope /\ live' = live
        /\ Proceed(update, watched, scope)
    BY <1>6 DEF BeginUpdate
  <2> QED
    BY <2>1, <1>a, WriterProceeds
<1>7. CASE WriterStreamFails
  <2>1. Agrees(live', watched, scope)
    BY <1>7, <1>a, DetachAgrees DEF WriterStreamFails
  <2> QED
    BY <1>7, <2>1 DEF WriterStreamFails, WriterInv, Chosen, Agrees, ReadOnly
<1>8. ASSUME NEW e \in Events, AcceptWriterEvent(e) PROVE WriterInv'
  <2>1. begun \cup {0} \subseteq LiveTurns
    BY MaxTurnsAssumption DEF Inv, TypeOK, Turns, LiveTurns
  <2>2. e \in StatusChanged \cup TurnEvent(LiveTurns)
    BY <2>1 DEF Events, TurnEvent
  <2>3. Agrees(live', watched, scope)
    BY <1>8, <1>a, <2>2, EventAgrees DEF AcceptWriterEvent
  <2> QED
    BY <1>8, <2>3 DEF AcceptWriterEvent, WriterInv, Chosen, Agrees, ReadOnly
<1>9. CASE LeaveLoop
  BY <1>9, WriterFrame DEF LeaveLoop
<1>10. CASE Shutdown
  <2>1. live'.writer = None
    BY <1>10, <1>a DEF Shutdown, shutdown_writer, Runtimes
  <2> QED
    BY <1>10, <2>1 DEF Shutdown, WriterInv, Chosen
<1>11. CASE DeferCommand
  BY <1>11, WriterFrame DEF DeferCommand
<1>12. CASE StopOperation
  BY <1>12, WriterFrame DEF StopOperation, DrivenStages
<1>13. CASE FinishUpdate
  BY <1>13, WriterFrame DEF FinishUpdate
<1> QED
  BY <1>1, <1>2, <1>3, <1>4, <1>5, <1>6, <1>7, <1>8, <1>9, <1>10, <1>11, <1>12, <1>13

\* A subscription handed over for the watched thread.
LEMMA SubscriptionAgrees ==
    ASSUME NEW t \in Threads, NEW v \in Subscriptions(t), NEW s, s # "Archived"
    PROVE  Agrees(v, t, s)
BY AttachAgrees DEF Subscriptions

LEMMA WriterParts ==
    ASSUME Inv, WriterInv,
           \/ SetScope \/ WatchThread \/ rename_thread
           \/ change_thread_lifecycle \/ Deselect \/ ChangeWriteAccess
    PROVE  WriterInv'
<1>0. stage # "stopped"
  BY DEF SetScope, WatchThread, rename_thread, change_thread_lifecycle, Deselect,
         ChangeWriteAccess, Completes
<1>a. live \in Runtimes /\ update \in Updates /\ Agrees(live, watched, scope)
  BY <1>0 DEF Inv, TypeOK, WriterInv
<1>1. CASE SetScope
  <2>1. /\ Proceed([update EXCEPT !.scope = None], watched', scope')
        /\ live' = reset
    BY <1>1 DEF SetScope
  <2> QED
    BY <2>1, ResetAgrees, WriterProceeds
<1>2. CASE WatchThread
  <2>1. /\ Proceed([update EXCEPT !.watched = None], watched', scope')
        /\ live' = reset
    BY <1>2 DEF WatchThread
  <2> QED
    BY <2>1, ResetAgrees, WriterProceeds
<1>3. CASE rename_thread
  <2>1. /\ Proceed([update EXCEPT !.rename = None], watched', scope')
        /\ live' = live /\ watched' = watched /\ scope' = scope
    BY <1>3 DEF rename_thread
  <2> QED
    BY <1>a, <2>1, WriterProceeds
<1>4. CASE change_thread_lifecycle
  <2> DEFINE r == Head(update.lifecycle)
             rest == [update EXCEPT !.lifecycle = Tail(@)]
  <2>1. /\ watched' = watched /\ scope' = scope
        /\ live' = live \/ live' = release_write(live, r.thread)
        /\ Proceed(rest, watched, scope) \/ Enter("deselect")
    BY <1>4 DEF change_thread_lifecycle
  <2>2. Agrees(live', watched', scope')
    BY <1>a, <2>1, DetachAgrees
  <2> HIDE DEF rest
  <2>3. CASE Proceed(rest, watched, scope)
    BY <2>1, <2>2, <2>3, WriterProceeds
  <2>4. CASE Enter("deselect")
    BY <2>2, <2>4 DEF Enter, WriterInv, Chosen, Agrees, ReadOnly
  <2> QED
    BY <2>1, <2>3, <2>4
<1>5. CASE Deselect
  <2>1. Proceed(update, watched', scope') /\ live' = reset
    BY <1>5 DEF Deselect
  <2> QED
    BY <2>1, ResetAgrees, WriterProceeds
<1>6. CASE ChangeWriteAccess
  <2> DEFINE t == update.write.thread
  <2>1. /\ Proceed([update EXCEPT !.write = None], watched', scope')
        /\ watched' = watched /\ scope' = scope
    BY <1>6 DEF ChangeWriteAccess
  <2>2. update.write \in WriteAccess /\ t \in Threads
    BY <1>6, <1>a DEF ChangeWriteAccess, Completes, Inv, StageFits, Fits, Updates,
                      WriteAccess
  <2>3. CASE update.write.kind = "ReleaseWrite"
    <3>1. live' = release_write(live, t)
      BY <1>6, <2>3 DEF ChangeWriteAccess
    <3> QED
      BY <1>a, <2>1, <3>1, DetachAgrees, WriterProceeds
  <2>4. CASE update.write.kind # "ReleaseWrite"
    <3>1. t = watched
      BY <1>6, <2>2, <2>4 DEF ChangeWriteAccess, Completes, WriterInv, Chosen, WriteAccess
    <3>2. CASE live' = live
      BY <1>a, <2>1, <3>2, WriterProceeds
    <3>3. CASE /\ scope # "Archived" /\ ~writer_matches(live, t)
               /\ live' \in Subscriptions(t) \cup {shutdown_writer(live)}
      <4>1. live' \in Subscriptions(t) => Agrees(live', watched, scope)
        BY <2>2, <3>1, <3>3, SubscriptionAgrees
      <4>2. Agrees(shutdown_writer(live), watched, scope)
        BY <1>a, <2>2, <3>1, <3>3, ShutdownAgrees
      <4>3. Agrees(live', watched', scope')
        BY <2>1, <3>3, <4>1, <4>2
      <4> QED
        BY <2>1, <4>3, WriterProceeds
    <3> QED
      BY <1>6, <2>4, <3>2, <3>3 DEF ChangeWriteAccess
  <2> QED
    BY <2>3, <2>4
<1> QED
  BY <1>1, <1>2, <1>3, <1>4, <1>5, <1>6

LEMMA WriterThreads ==
    ASSUME Inv, WriterInv,
           \/ \E t \in Threads : StartedThread(t) \/ ForkedThread(t)
           \/ ThreadStartFails \/ ThreadForkFails
    PROVE  WriterInv'
<1>0. stage # "stopped"
  BY DEF StartedThread, ForkedThread, ThreadStartFails, ThreadForkFails, Completes
<1>a. live \in Runtimes /\ update \in Updates /\ Agrees(live, watched, scope)
  BY <1>0 DEF Inv, TypeOK, WriterInv
<1>1. ASSUME NEW t \in Threads, StartedThread(t) \/ ForkedThread(t) PROVE WriterInv'
  <2>1. /\ \E u : Proceed(u, watched', scope')
        /\ scope' # "Archived" /\ watched' = t /\ live' \in Subscriptions(t)
    BY <1>1 DEF StartedThread, ForkedThread, Forkable, Adopt
  <2>2. Agrees(live', watched', scope')
    BY <2>1, SubscriptionAgrees
  <2> QED
    BY <2>1, <2>2, WriterProceeds
<1>2. CASE ThreadStartFails
  <2>1. /\ \E u : Proceed(u, watched', scope')
        /\ live' = live /\ watched' = watched /\ scope' = scope
    BY <1>2 DEF ThreadStartFails
  <2> QED
    BY <1>a, <2>1, WriterProceeds
<1>3. CASE ThreadForkFails
  <2> DEFINE t == update.fork.thread
  <2>1. /\ \E u : Proceed(u, watched', scope')
        /\ watched' = watched /\ scope' = scope
    BY <1>3 DEF ThreadForkFails
  <2>2. t \in Threads
    BY <1>3, <1>a DEF ThreadForkFails, Completes, Inv, StageFits, Fits, Updates,
                      ForkThread
  <2>3. CASE live' = live
    BY <1>a, <2>1, <2>3, WriterProceeds
  <2>4. CASE /\ Forkable /\ ~writer_matches(live, t)
             /\ live' \in {fail_stream(live), shutdown_writer(live),
                           attach(live.conversation, "Idle", None)}
    <3>1. live.conversation = t /\ t = watched /\ scope # "Archived"
      BY <1>a, <2>2, <2>4, NoneAssumption DEF Forkable, Agrees, Watching
    <3>2. Agrees(fail_stream(live), watched, scope)
      BY <1>a, DetachAgrees
    <3>3. Agrees(shutdown_writer(live), watched, scope)
      BY <1>a, <2>2, <2>4, <3>1, ShutdownAgrees
    <3>4. Agrees(attach(live.conversation, "Idle", None), watched, scope)
      BY <2>2, <3>1, AttachAgrees
    <3>5. Agrees(live', watched', scope')
      BY <2>1, <2>4, <3>2, <3>3, <3>4
    <3> QED
      BY <2>1, <3>5, WriterProceeds
  <2> QED
    BY <1>3, <2>3, <2>4 DEF ThreadForkFails
<1> QED
  BY <1>1, <1>2, <1>3

LEMMA WriterTurn ==
    ASSUME Inv, WriterInv,
           \/ SelectTurnThread \/ RejectTurn \/ BeginTurn
           \/ TurnFailsToBegin \/ TurnBegins
           \/ ReceiveTurnCommand \/ ApplyTurnControls
           \/ (\E e \in Events : AcceptTurnEvent(e)) \/ TurnEnds
    PROVE  WriterInv'
<1> USE DEF client, channel, deferral, server, view
<1>0. stage \in TurnStages
  BY DEF SelectTurnThread, RejectTurn, BeginTurn, TurnFailsToBegin, TurnBegins,
         ReceiveTurnCommand, ApplyTurnControls, AcceptTurnEvent, TurnEnds,
         TurnCompletes, TurnStreamFails, Streaming, Completes, TurnStages
<1>a. live \in Runtimes /\ update \in Updates /\ Agrees(live, watched, scope)
  BY <1>0 DEF Inv, TypeOK, WriterInv, TurnStages
<1>b. update.turn.thread \in Threads /\ update.turn.turn \in Turns
  <2>1. update.turn \in StartTurn
    BY <1>0, <1>a DEF Inv, StageFits, Fits, Updates
  <2> QED
    BY <2>1 DEF StartTurn
<1>c. stage \in {"turnBegin", "turnRun", "turnDrain"} =>
         live.writer = watched /\ update.turn.thread = watched /\ live.writer # None
  BY <1>b, NoneAssumption DEF WriterInv, Chosen
<1>d. update.turn.turn \in LiveTurns /\ begun \cup {0} \subseteq LiveTurns
  <2>1. begun \subseteq Turns
    BY DEF Inv, TypeOK
  <2> QED
    BY <1>b, <2>1, MaxTurnsAssumption DEF Turns, LiveTurns
<1>e. ASSUME stage \in {"turnBegin", "turnRun", "turnDrain"},
             NEW e \in StatusChanged \cup TurnEvent(LiveTurns)
      PROVE  /\ Agrees(apply_event(live, e), watched, scope)
             /\ apply_event(live, e).writer = watched
  BY <1>a, <1>c, <1>e, EventAgrees
<1>1. CASE SelectTurnThread
  <2>1. /\ watched' = update'.turn.thread /\ live' = reset /\ stage' = "turn"
    BY <1>1 DEF SelectTurnThread
  <2> QED
    BY <2>1, ResetAgrees DEF WriterInv, Chosen
<1>2. CASE RejectTurn
  BY <1>2, <1>a, DetachAgrees, WriterEndsTurn DEF RejectTurn
<1>3. CASE BeginTurn
  <2>1. /\ update.turn.thread = watched /\ live.writer = watched /\ live.writer # None
    BY <1>3, <1>b, NoneAssumption DEF BeginTurn, WriterInv, Chosen, writer_matches
  <2>2. Agrees(live', watched, scope) /\ live'.writer = watched
    BY <1>3, <1>a, <2>1, EventAgrees DEF BeginTurn
  <2> QED
    BY <1>3, <2>1, <2>2 DEF BeginTurn, Enter, WriterInv, Chosen, Agrees, ReadOnly
<1>4. CASE TurnFailsToBegin
  BY <1>4, <1>a, DetachAgrees, WriterEndsTurn DEF TurnFailsToBegin
<1>5. CASE TurnBegins
  <2>1. [event |-> "TurnStarted", turn |-> update.turn.turn] \in TurnEvent(LiveTurns)
    BY <1>d DEF TurnEvent
  <2>2. Agrees(live', watched, scope) /\ live'.writer = watched
    BY <1>5, <1>e, <2>1 DEF TurnBegins
  <2>3. update'.turn = update.turn
    BY <1>5, <1>a DEF TurnBegins, Updates
  <2> QED
    BY <1>5, <1>c, <2>2, <2>3 DEF TurnBegins, WriterInv, Chosen, Agrees, ReadOnly
<1>6. CASE ReceiveTurnCommand
  BY <1>6, <1>a, <1>c DEF ReceiveTurnCommand, WriterInv, Chosen
<1>7. CASE ApplyTurnControls
  BY <1>7, <1>a, <1>c DEF ApplyTurnControls, WriterInv, Chosen
<1>8. ASSUME NEW e \in Events, AcceptTurnEvent(e) PROVE WriterInv'
  <2>1. e \in StatusChanged \cup TurnEvent(LiveTurns)
    BY <1>d DEF Events, TurnEvent
  <2>2. Agrees(live', watched, scope) /\ live'.writer = watched
    BY <1>8, <1>e, <2>1 DEF AcceptTurnEvent, Streaming
  <2> QED
    BY <1>8, <1>c, <2>2 DEF AcceptTurnEvent, Streaming, WriterInv, Chosen, Agrees, ReadOnly
<1>9. CASE TurnCompletes
  <2>1. Completion \in TurnEvent(LiveTurns)
    BY <1>d DEF Completion, TurnEvent
  <2>2. Agrees(live', watched, scope)
    BY <1>9, <1>e, <2>1 DEF TurnCompletes, Streaming
  <2> QED
    BY <1>9, <2>2, WriterEndsTurn DEF TurnCompletes
<1>10. CASE TurnStreamFails
  BY <1>10, <1>a, DetachAgrees, WriterEndsTurn DEF TurnStreamFails
<1> QED
  BY <1>1, <1>2, <1>3, <1>4, <1>5, <1>6, <1>7, <1>8, <1>9, <1>10 DEF TurnEnds

LEMMA WriterStep == Inv /\ WriterInv /\ [Next]_vars => WriterInv'
<1> SUFFICES ASSUME Inv, WriterInv, [Next]_vars PROVE WriterInv'
  OBVIOUS
<1>1. CASE UNCHANGED vars
  BY <1>1, WriterFrame DEF vars, client, channel, deferral, server, view
<1>2. CASE ClientNext
  BY <1>2, WriterLoop
<1>3. CASE WorkerNext
  BY <1>3, WriterLoop, WriterParts, WriterThreads, WriterTurn
     DEF WorkerNext, WorkerStep, OperationCompletes, StreamNext
<1> QED
  BY <1>1, <1>2, <1>3 DEF Next, Terminated

LEMMA WriterInvariant == Spec => [](Inv /\ WriterInv)
<1>1. Init => Inv /\ WriterInv
  BY InvInit, WriterInit
<1>2. Inv /\ WriterInv /\ [Next]_vars => (Inv /\ WriterInv)'
  BY InvStep, WriterStep
<1> QED
  BY <1>1, <1>2, PTL DEF Spec

(* The writer and the projection always belong to the watched thread, so that *)
(* the worker never drops the events of a writer it still holds               *)
(* (select_thread, acquire_write, fork_thread).                               *)
THEOREM WriterIsWatchedCorrect == Spec => []WriterIsWatched
<1>1. WriterInv => WriterIsWatched
  BY DEF WriterInv, WriterIsWatched, Agrees, Watching
<1> QED
  BY <1>1, WriterInvariant, PTL

(* A projection without a writer shows no turn, whichever way the writer was  *)
(* given up (release_write, fail_stream, a fork that fails half-way).         *)
THEOREM NoTurnWithoutWriterCorrect == Spec => []NoTurnWithoutWriter
<1>1. WriterInv => NoTurnWithoutWriter
  BY DEF WriterInv, NoTurnWithoutWriter, Agrees, Quiet
<1> QED
  BY <1>1, WriterInvariant, PTL

(* No writer is held while archived history is shown, whatever was coalesced  *)
(* with the change of scope (set_thread_list_scope, acquire_write).           *)
THEOREM ArchivedIsReadOnlyCorrect == Spec => []ArchivedIsReadOnly
<1>1. WriterInv => ArchivedIsReadOnly
  BY DEF WriterInv, ArchivedIsReadOnly
<1> QED
  BY <1>1, WriterInvariant, PTL

(* A turn in flight keeps its thread watched and its writer held, whatever    *)
(* arrives meanwhile (run_turn defers everything but controls).               *)
THEOREM TurnKeepsItsThreadCorrect == Spec => []TurnKeepsItsThread
<1>1. WriterInv => TurnKeepsItsThread
  BY DEF WriterInv, TurnKeepsItsThread, Chosen
<1> QED
  BY <1>1, WriterInvariant, PTL

---------------------------------------------------------------------------
(* The operation gate                                                      *)

Places == {"nowhere", "caller", "queue", "update", "following", "driven", "pending"}

CallersFree == \A p \in Callers : callers[p] = None
CallersHold(r) == \E p \in Callers : /\ callers[p] = r
                                     /\ \A o \in Callers \ {p} : callers[o] = None
QueueFree(q) == \A i \in DOMAIN q : q[i] \notin Exclusive
QueueHolds(q, r) == \E i \in DOMAIN q : /\ q[i] = r
                                        /\ \A j \in DOMAIN q \ {i} : q[j] \notin Exclusive
Part(at, place, r) == IF at = place THEN {r} ELSE {}

\* Request r is at this place, and nowhere else is there any request.
Located(r, at) ==
    /\ IF at = "caller" THEN CallersHold(r) ELSE CallersFree
    /\ IF at = "queue" THEN QueueHolds(queue, r) ELSE QueueFree(queue)
    /\ Requests(update) = Part(at, "update", r)
    /\ Requests(following) = Part(at, "following", r)
    /\ Requests(driven) = Part(at, "driven", r)
    /\ Requests(pending) = Part(at, "pending", r)

GateFor(r, at) == IF at = "nowhere" THEN "Idle" ELSE OperationOf(r)

GateInv ==
    stage # "stopped" =>
        \E r \in Exclusive, at \in Places : Located(r, at) /\ gate = GateFor(r, at)

-----------------------------------------------------------------------------
(* Requests of updates.                                                     *)

\* A request's kind tells the three fields apart, and is never None.
LEMMA ExclusiveKinds ==
    /\ None \notin Exclusive
    /\ \A f \in ForkThread, s \in StartThread : f # s
    /\ \A f \in ForkThread, t \in StartTurn : f # t
    /\ \A s \in StartThread, t \in StartTurn : s # t
    /\ ForkThread \cup StartThread \cup StartTurn = Exclusive
    /\ \A r \in Exclusive : OperationOf(r) # "Idle"
<1>1. None \notin Exclusive
  BY NoneAssumption DEF Command
<1>2. /\ \A f \in ForkThread, s \in StartThread : f # s
      /\ \A f \in ForkThread, t \in StartTurn : f # t
      /\ \A s \in StartThread, t \in StartTurn : s # t
  BY DEF ForkThread, StartThread, StartTurn
<1>3. \A r \in Exclusive : OperationOf(r) # "Idle"
  BY DEF OperationOf, Exclusive, ForkThread, StartThread, StartTurn
<1> QED
  BY <1>1, <1>2, <1>3 DEF Exclusive

LEMMA RequestFields ==
    ASSUME NEW u \in Updates
    PROVE  /\ u.fork \in ForkThread \cup {None}
           /\ u.start \in StartThread \cup {None}
           /\ u.turn \in StartTurn \cup {None}
           /\ Requests(u) = {} <=> u.fork = None /\ u.start = None /\ u.turn = None
BY DEF Updates, Requests

\* Merging two updates of which at most one carries requests keeps them.
LEMMA RequestsMerge ==
    ASSUME NEW u \in Updates, NEW v \in Updates
    PROVE  /\ Requests(EmptyUpdate) = {}
           /\ Requests(u) = {} => Requests(merge(u, v)) = Requests(v)
           /\ Requests(v) = {} => Requests(merge(u, v)) = Requests(u)
<1>1. Requests(EmptyUpdate) = {}
  BY DEF Requests, EmptyUpdate
<1>2. /\ merge(u, v).fork = First(u.fork, v.fork)
      /\ merge(u, v).start = First(u.start, v.start)
      /\ merge(u, v).turn = First(u.turn, v.turn)
  BY DEF merge
<1>3. Requests(u) = {} => Requests(merge(u, v)) = Requests(v)
  BY <1>2, RequestFields DEF Requests, First
<1>4. Requests(v) = {} => Requests(merge(u, v)) = Requests(u)
  BY <1>2, RequestFields DEF Requests, First
<1> QED
  BY <1>1, <1>3, <1>4

\* Merging a command adds the request it is, if there was none.
LEMMA RequestsMergeCommand ==
    ASSUME NEW u \in Updates, NEW c \in Command \ {Stop}
    PROVE  /\ c \notin Exclusive => Requests(merge_command(u, c)) = Requests(u)
           /\ c \in Exclusive /\ Requests(u) = {} => Requests(merge_command(u, c)) = {c}
<1>1. CASE c \in ForkThread
  <2>1. merge_command(u, c) = [u EXCEPT !.fork = First(@, c)] /\ c \in Exclusive
    BY <1>1, ExclusiveKinds DEF merge_command, ForkThread
  <2>2. Requests(u) = {} => Requests([u EXCEPT !.fork = First(@, c)]) = {c}
    BY <1>1, RequestFields, ExclusiveKinds DEF Requests, First, Updates
  <2> QED
    BY <2>1, <2>2
<1>2. CASE c \in StartThread
  <2>1. merge_command(u, c) = [u EXCEPT !.start = First(@, c)] /\ c \in Exclusive
    BY <1>2, ExclusiveKinds DEF merge_command, StartThread
  <2>2. Requests(u) = {} => Requests([u EXCEPT !.start = First(@, c)]) = {c}
    BY <1>2, RequestFields, ExclusiveKinds DEF Requests, First, Updates
  <2> QED
    BY <2>1, <2>2
<1>3. CASE c \in StartTurn
  <2>1. merge_command(u, c) = [u EXCEPT !.turn = First(@, c)] /\ c \in Exclusive
    BY <1>3, ExclusiveKinds DEF merge_command, StartTurn
  <2>2. Requests(u) = {} => Requests([u EXCEPT !.turn = First(@, c)]) = {c}
    BY <1>3, RequestFields, ExclusiveKinds DEF Requests, First, Updates
  <2> QED
    BY <2>1, <2>2
<1>4. CASE c \in Shared
  <2>1. c \notin Exclusive
    BY <1>4 DEF Shared, Exclusive, Watch, SetThreadListScope, Refresh, WriteAccess,
                RenameThread, ChangeThreadLifecycle, Control, TurnControl,
                ResolveInteraction, ForkThread, StartThread, StartTurn
  <2>2. c.kind \in {"Watch", "SetThreadListScope", "Refresh", "AcquireWrite",
                    "ReleaseWrite", "RenameThread", "ChangeThreadLifecycle",
                    "SteerTurn", "InterruptTurn", "ResolveInteraction"}
    BY <1>4 DEF Shared, Watch, SetThreadListScope, Refresh, WriteAccess,
                RenameThread, ChangeThreadLifecycle, Control, TurnControl,
                ResolveInteraction
  <2>3. /\ merge_command(u, c).fork = u.fork
        /\ merge_command(u, c).start = u.start
        /\ merge_command(u, c).turn = u.turn
    BY <2>2 DEF merge_command, Updates
  <2> QED
    BY <2>1, <2>3 DEF Requests
<1> QED
  BY <1>1, <1>2, <1>3, <1>4 DEF Command, Exclusive

\* What is left of an update keeps its requests, but for the one worked off.
LEMMA RequestsRest ==
    ASSUME NEW u \in Updates
    PROVE  /\ Requests([u EXCEPT !.scope = None]) = Requests(u)
           /\ Requests([u EXCEPT !.watched = None]) = Requests(u)
           /\ Requests([u EXCEPT !.rename = None]) = Requests(u)
           /\ Requests([u EXCEPT !.write = None]) = Requests(u)
           /\ Requests([u EXCEPT !.controls = <<>>]) = Requests(u)
           /\ Requests([u EXCEPT !.lifecycle = Tail(@)]) = Requests(u)
BY DEF Requests, Updates

LEMMA RequestWorkedOff ==
    ASSUME NEW u \in Updates, NEW r, Requests(u) = {r}
    PROVE  /\ u.fork # None => Requests([u EXCEPT !.fork = None]) = {}
           /\ u.start # None => Requests([u EXCEPT !.write = None, !.start = None]) = {}
<1>1. /\ u.fork # None => u.start = None /\ u.turn = None
      /\ u.start # None => u.fork = None /\ u.turn = None
  <2>1. u.fork # None /\ u.start # None => u.fork # u.start
    BY RequestFields, ExclusiveKinds
  <2>2. u.fork # None /\ u.turn # None => u.fork # u.turn
    BY RequestFields, ExclusiveKinds
  <2>3. u.start # None /\ u.turn # None => u.start # u.turn
    BY RequestFields, ExclusiveKinds
  <2> QED
    BY <2>1, <2>2, <2>3 DEF Requests
<1>2. u.fork # None => Requests([u EXCEPT !.fork = None]) = {}
  BY <1>1 DEF Requests, Updates
<1>3. u.start # None => Requests([u EXCEPT !.write = None, !.start = None]) = {}
  BY <1>1 DEF Requests, Updates
<1> QED
  BY <1>2, <1>3

-----------------------------------------------------------------------------
(* Requests in the channel.                                                 *)

LEMMA QueueAppended ==
    ASSUME NEW q \in Seq(Command), NEW c \in Command, NEW r
    PROVE  /\ c \notin Exclusive /\ QueueFree(q) => QueueFree(Append(q, c))
           /\ c \notin Exclusive /\ QueueHolds(q, r) => QueueHolds(Append(q, c), r)
           /\ QueueFree(q) => QueueHolds(Append(q, c), c)
<1>1. /\ Len(q) \in Nat /\ DOMAIN q = 1 .. Len(q)
      /\ DOMAIN Append(q, c) = 1 .. Len(q) + 1
      /\ \A i \in 1 .. Len(q) : Append(q, c)[i] = q[i]
      /\ Append(q, c)[Len(q) + 1] = c
  BY AppendProperties
<1> HIDE DEF Exclusive
<1>2. c \notin Exclusive /\ QueueFree(q) => QueueFree(Append(q, c))
  BY <1>1 DEF QueueFree
<1>3. c \notin Exclusive /\ QueueHolds(q, r) => QueueHolds(Append(q, c), r)
  BY <1>1 DEF QueueHolds
<1>4. QueueFree(q) => QueueHolds(Append(q, c), c)
  BY <1>1 DEF QueueFree, QueueHolds
<1> QED
  BY <1>2, <1>3, <1>4

LEMMA QueueReceived ==
    ASSUME NEW q \in Seq(Command), q # <<>>, NEW r \in Exclusive
    PROVE  /\ QueueFree(q) => Head(q) \notin Exclusive /\ QueueFree(Tail(q))
           /\ QueueHolds(q, r) =>
                \/ Head(q) \notin Exclusive /\ QueueHolds(Tail(q), r)
                \/ Head(q) = r /\ QueueFree(Tail(q))
<1>1. /\ Len(q) \in Nat \ {0} /\ DOMAIN q = 1 .. Len(q)
      /\ Head(q) = q[1]
      /\ DOMAIN Tail(q) = 1 .. Len(q) - 1
      /\ \A i \in 1 .. Len(q) - 1 : Tail(q)[i] = q[i + 1]
  BY HeadTailProperties
<1>2. QueueFree(q) => Head(q) \notin Exclusive /\ QueueFree(Tail(q))
  BY <1>1 DEF QueueFree
<1>3. ASSUME NEW i \in DOMAIN q, q[i] = r,
             \A j \in DOMAIN q \ {i} : q[j] \notin Exclusive
      PROVE  \/ Head(q) \notin Exclusive /\ QueueHolds(Tail(q), r)
             \/ Head(q) = r /\ QueueFree(Tail(q))
  <2>1. CASE i = 1
    BY <1>1, <1>3, <2>1 DEF QueueFree
  <2>2. CASE i # 1
    <3>1. i - 1 \in DOMAIN Tail(q) /\ Tail(q)[i - 1] = r
      BY <1>1, <1>3, <2>2
    <3>2. \A j \in DOMAIN Tail(q) \ {i - 1} : Tail(q)[j] \notin Exclusive
      BY <1>1, <1>3, <2>2
    <3> QED
      BY <1>1, <1>3, <2>2, <3>1, <3>2 DEF QueueHolds
  <2> QED
    BY <2>1, <2>2
<1> QED
  BY <1>2, <1>3 DEF QueueHolds

-----------------------------------------------------------------------------
(* Steps.                                                                   *)

\* A step that leaves the requests and the gate alone.
LEMMA GateFrame ==
    ASSUME GateInv, stage' # "stopped" => stage # "stopped",
           gate' = gate, callers' = callers, queue' = queue,
           Requests(update') = Requests(update),
           Requests(following') = Requests(following),
           Requests(driven') = Requests(driven),
           Requests(pending') = Requests(pending)
    PROVE  GateInv'
<1> SUFFICES ASSUME stage # "stopped" PROVE GateInv'
  BY DEF GateInv
<1>1. PICK r \in Exclusive, at \in Places : Located(r, at) /\ gate = GateFor(r, at)
  BY DEF GateInv
<1>2. Located(r, at)'
  BY <1>1 DEF Located, CallersFree, CallersHold
<1> QED
  BY <1>1, <1>2 DEF GateInv, GateFor

\* An operation that is not exclusive completes.
LEMMA GateCompletes ==
    ASSUME Inv, GateInv, NEW s \in DrivenStages, Completes(s), gate' = gate,
           Requests(update') = Requests(update)
    PROVE  GateInv'
<1> USE DEF client, channel, deferral, server, view
<1>0. stage # "stopped"
  BY DEF Completes, DrivenStages
<1>1. PICK r \in Exclusive, at \in Places : Located(r, at) /\ gate = GateFor(r, at)
  BY <1>0 DEF GateInv
<1>2. /\ following' = merge(following, driven) /\ driven' = EmptyUpdate
      /\ pending' = pending /\ callers' = callers /\ queue' = queue
  BY DEF Completes
<1>3. following \in Updates /\ driven \in Updates
  BY DEF Inv, TypeOK
<1> DEFINE now == IF at = "driven" THEN "following" ELSE at
<1>4. now \in Places /\ GateFor(r, now) = GateFor(r, at)
  BY DEF Places, GateFor
<1>5. Requests(driven') = {}
  BY <1>2, <1>3, RequestsMerge
<1>6. Requests(following') = Part(now, "following", r)
  <2>1. CASE at = "driven"
    BY <2>1, <1>1, <1>2, <1>3, RequestsMerge DEF Located, Part
  <2>2. CASE at # "driven"
    BY <2>2, <1>1, <1>2, <1>3, RequestsMerge DEF Located, Part
  <2> QED
    BY <2>1, <2>2
<1>7. Located(r, now)'
  BY <1>1, <1>2, <1>5, <1>6 DEF Located, Part, CallersFree, CallersHold
<1> HIDE DEF now
<1> QED
  BY <1>1, <1>4, <1>7 DEF GateInv

\* An exclusive operation is over: its request is gone and the gate opens.
LEMMA GateOpens ==
    ASSUME Inv, GateInv, stage # "stopped", Requests(update) # {},
           gate' = "Idle", callers' = callers, queue' = queue,
           \A r : Requests(update) = {r} => Requests(update') = {},
           following' = merge(following, driven), driven' = EmptyUpdate,
           pending' = pending
    PROVE  GateInv'
<1>1. PICK r \in Exclusive, at \in Places : Located(r, at) /\ gate = GateFor(r, at)
  BY DEF GateInv
<1>2. at = "update"
  BY <1>1 DEF Located, Part
<1>3. following \in Updates /\ driven \in Updates
  BY DEF Inv, TypeOK
<1>4. Requests(following') = {} /\ Requests(driven') = {}
  BY <1>1, <1>2, <1>3, RequestsMerge DEF Located, Part
<1>5. Requests(update') = {} /\ Requests(pending') = {}
  BY <1>1, <1>2 DEF Located, Part
<1>6. Located(r, "nowhere")'
  BY <1>1, <1>2, <1>4, <1>5 DEF Located, Part, CallersFree
<1> QED
  BY <1>6 DEF GateInv, GateFor, Places

LEMMA GateInit == Init => GateInv
<1> SUFFICES ASSUME Init PROVE GateInv
  OBVIOUS
<1>1. PICK r : r \in StartThread
  <2>1. [kind |-> "StartThread"] \in StartThread
    BY DEF StartThread
  <2> QED
    BY <2>1
<1>2. r \in Exclusive
  BY <1>1, ExclusiveKinds
<1>3. Requests(EmptyUpdate) = {}
  BY DEF Requests, EmptyUpdate
<1>4. Located(r, "nowhere")
  BY <1>3 DEF Located, Init, CallersFree, QueueFree, Part
<1> QED
  BY <1>2, <1>4 DEF GateInv, GateFor, Places, Init

\* The clients reserve, send, are refused, and leave.
LEMMA GateClient ==
    ASSUME Inv, GateInv, ClientNext
    PROVE  GateInv'
<1> USE DEF client, channel, deferral, server, view
<1> SUFFICES ASSUME stage # "stopped" PROVE GateInv'
  BY DEF GateInv, ClientNext, Send, Reserve, SendReserved, SendStop, Cancel, Join
<1>1. PICK r \in Exclusive, at \in Places : Located(r, at) /\ gate = GateFor(r, at)
  BY DEF GateInv
<1>2. queue \in Seq(Command) /\ callers \in [Callers -> Exclusive \cup {None}]
  BY DEF Inv, TypeOK
<1>3. ASSUME NEW p \in Callers, NEW c \in Command, Send(p, c) PROVE GateInv'
  <2>1. c \notin Exclusive
    BY <1>3 DEF Send, Shared, Exclusive, Watch, SetThreadListScope, Refresh, WriteAccess,
                RenameThread, ChangeThreadLifecycle, Control, TurnControl,
                ResolveInteraction, ForkThread, StartThread, StartTurn
  <2>2. IF at = "queue" THEN QueueHolds(queue', r) ELSE QueueFree(queue')
    BY <1>1, <1>2, <1>3, <2>1, QueueAppended DEF Send, Located
  <2>3. Located(r, at)'
    BY <1>1, <1>3, <2>2 DEF Send, Located, CallersFree, CallersHold
  <2> QED
    BY <1>1, <1>3, <2>3 DEF Send, GateInv, GateFor
<1>4. ASSUME NEW p \in Callers, NEW c \in Command, Reserve(p, c) PROVE GateInv'
  <2>1. at = "nowhere"
    BY <1>1, <1>4, ExclusiveKinds DEF Reserve, GateFor
  <2>2. c \in Exclusive /\ gate' = OperationOf(c)
    BY <1>4 DEF Reserve
  <2>3. CallersHold(c)'
    BY <1>1, <1>2, <1>4, <2>1 DEF Reserve, Located, CallersFree, CallersHold
  <2>4. Located(c, "caller")'
    BY <1>1, <1>4, <2>1, <2>3 DEF Reserve, Located, Part
  <2> QED
    BY <2>2, <2>4 DEF GateInv, GateFor, Places
<1>5. ASSUME NEW p \in Callers, SendReserved(p) PROVE GateInv'
  <2>1. at = "caller" /\ callers[p] = r
    BY <1>1, <1>5 DEF SendReserved, Located, CallersFree, CallersHold
  <2>2. CallersFree'
    BY <1>1, <1>2, <1>5, <2>1 DEF SendReserved, Located, CallersFree, CallersHold
  <2>3. CASE queue' = Append(queue, callers[p]) /\ gate' = gate
    <3>1. QueueHolds(queue', r)
      BY <1>1, <1>2, <2>1, <2>3, QueueAppended DEF Located, Command
    <3>2. Located(r, "queue")'
      BY <1>1, <1>5, <2>1, <2>2, <3>1 DEF SendReserved, Located, Part
    <3> QED
      BY <1>1, <2>1, <2>3, <3>2 DEF GateInv, GateFor, Places
  <2>4. CASE queue' = queue /\ gate' = "Idle"
    <3>1. Located(r, "nowhere")'
      BY <1>1, <1>5, <2>1, <2>2, <2>4 DEF SendReserved, Located, Part
    <3> QED
      BY <2>4, <3>1 DEF GateInv, GateFor, Places
  <2> QED
    BY <1>5, <2>3, <2>4 DEF SendReserved
<1>6. CASE SendStop
  <2>1. Stop \in Command /\ Stop \notin Exclusive
    BY DEF Command, Stop, Exclusive, ForkThread, StartThread, StartTurn
  <2>2. IF at = "queue" THEN QueueHolds(queue', r) ELSE QueueFree(queue')
    BY <1>1, <1>2, <1>6, <2>1, QueueAppended DEF SendStop, Located
  <2>3. Located(r, at)'
    BY <1>1, <1>6, <2>2 DEF SendStop, Located, CallersFree, CallersHold
  <2> QED
    BY <1>1, <1>6, <2>3 DEF SendStop, GateInv, GateFor
<1>7. CASE Cancel
  BY <1>7, GateFrame DEF Cancel
<1>8. CASE Join
  BY <1>8, GateFrame DEF Join
<1> QED
  BY <1>3, <1>4, <1>5, <1>6, <1>7, <1>8 DEF ClientNext

\* The worker takes a command from the channel into the update it drains to,
\* or into what the operation in flight defers.
LEMMA GateReceives ==
    ASSUME Inv, GateInv, ReceiveCommand \/ DeferCommand \/ ReceiveTurnCommand
    PROVE  GateInv'
<1> USE DEF client, channel, deferral, server, view
<1>0. stage # "stopped"
  BY DEF ReceiveCommand, DeferCommand, ReceiveTurnCommand, DrivenStages
<1>1. PICK r \in Exclusive, at \in Places : Located(r, at) /\ gate = GateFor(r, at)
  BY <1>0 DEF GateInv
<1>2. queue \in Seq(Command) /\ update \in Updates /\ driven \in Updates
  BY DEF Inv, TypeOK
<1>3. /\ queue # <<>> /\ Head(queue) # Stop /\ queue' = Tail(queue)
      /\ gate' = gate /\ callers' = callers /\ following' = following
      /\ pending' = pending
  BY DEF ReceiveCommand, DeferCommand, ReceiveTurnCommand
<1>4. Head(queue) \in Command \ {Stop}
  BY <1>2, <1>3, HeadTailProperties
<1>5. \/ update' = merge_command(update, Head(queue)) /\ driven' = driven
      \/ update' = update /\ driven' = merge_command(driven, Head(queue))
  BY DEF ReceiveCommand, DeferCommand, ReceiveTurnCommand
<1>6. CASE at = "queue" /\ Head(queue) \in Exclusive
  <2>1. Head(queue) = r /\ QueueFree(queue')
    BY <1>1, <1>2, <1>3, <1>6, QueueReceived DEF Located
  <2>2. CASE update' = merge_command(update, Head(queue)) /\ driven' = driven
    <3>1. Requests(update') = {r}
      BY <1>1, <1>2, <1>4, <1>6, <2>1, <2>2, RequestsMergeCommand DEF Located, Part
    <3>2. Located(r, "update")'
      BY <1>1, <1>3, <1>6, <2>1, <2>2, <3>1 DEF Located, Part, CallersFree
    <3> QED
      BY <1>1, <1>3, <1>6, <3>2 DEF GateInv, GateFor, Places
  <2>3. CASE update' = update /\ driven' = merge_command(driven, Head(queue))
    <3>1. Requests(driven') = {r}
      BY <1>1, <1>2, <1>4, <1>6, <2>1, <2>3, RequestsMergeCommand DEF Located, Part
    <3>2. Located(r, "driven")'
      BY <1>1, <1>3, <1>6, <2>1, <2>3, <3>1 DEF Located, Part, CallersFree
    <3> QED
      BY <1>1, <1>3, <1>6, <3>2 DEF GateInv, GateFor, Places
  <2> QED
    BY <1>5, <2>2, <2>3
<1>7. CASE ~(at = "queue" /\ Head(queue) \in Exclusive)
  <2>1. /\ Head(queue) \notin Exclusive
        /\ IF at = "queue" THEN QueueHolds(queue', r) ELSE QueueFree(queue')
    BY <1>1, <1>2, <1>3, <1>7, QueueReceived DEF Located
  <2>2. Requests(update') = Requests(update) /\ Requests(driven') = Requests(driven)
    BY <1>2, <1>4, <1>5, <2>1, RequestsMergeCommand
  <2>3. Located(r, at)'
    BY <1>1, <1>3, <2>1, <2>2 DEF Located, CallersFree, CallersHold
  <2> QED
    BY <1>1, <1>3, <2>3 DEF GateInv, GateFor
<1> QED
  BY <1>6, <1>7

\* Between updates: polls, the deferred update, the end of an update.
LEMMA GateLoop ==
    ASSUME Inv, GateInv,
           \/ \E s \in DrivenStages : StartPoll(s)
           \/ FinishPoll \/ TakePending \/ BeginUpdate \/ FinishUpdate
           \/ WriterStreamFails \/ (\E e \in Events : AcceptWriterEvent(e))
           \/ LeaveLoop \/ Shutdown \/ StopOperation
    PROVE  GateInv'
<1> USE DEF client, channel, deferral, server, view
<1>0. Requests(EmptyUpdate) = {}
  BY DEF Requests, EmptyUpdate
<1>1. ASSUME NEW s \in DrivenStages, StartPoll(s) PROVE GateInv'
  BY <1>1, GateFrame DEF StartPoll
<1>2. CASE FinishPoll
  <2>1. stage # "stopped" /\ pending = EmptyUpdate
    BY <1>2 DEF FinishPoll, Inv, StageFits
  <2>2. PICK r \in Exclusive, at \in Places : Located(r, at) /\ gate = GateFor(r, at)
    BY <2>1 DEF GateInv
  <2> DEFINE now == IF at = "driven" THEN "pending" ELSE at
  <2>3. Located(r, now)'
    BY <1>0, <1>2, <2>1, <2>2 DEF FinishPoll, Located, Part, CallersFree, CallersHold
  <2>4. now \in Places /\ GateFor(r, now) = GateFor(r, at)
    BY DEF Places, GateFor
  <2> HIDE DEF now
  <2> QED
    BY <1>2, <2>2, <2>3, <2>4 DEF FinishPoll, GateInv
<1>3. CASE TakePending
  <2>1. stage # "stopped" /\ update = EmptyUpdate
    BY <1>3 DEF TakePending, Inv, StageFits, Fits
  <2>2. PICK r \in Exclusive, at \in Places : Located(r, at) /\ gate = GateFor(r, at)
    BY <2>1 DEF GateInv
  <2> DEFINE now == IF at = "pending" THEN "update" ELSE at
  <2>3. update' = pending
    BY <1>3 DEF TakePending, Proceed
  <2>4. Located(r, now)'
    BY <1>0, <1>3, <2>1, <2>2, <2>3
       DEF TakePending, Located, Part, CallersFree, CallersHold
  <2>5. now \in Places /\ GateFor(r, now) = GateFor(r, at)
    BY DEF Places, GateFor
  <2> HIDE DEF now
  <2> QED
    BY <1>3, <2>2, <2>4, <2>5 DEF TakePending, GateInv
<1>4. CASE BeginUpdate
  BY <1>4, GateFrame DEF BeginUpdate, Proceed
<1>5. CASE FinishUpdate
  <2>1. stage # "stopped" /\ pending = EmptyUpdate /\ Requests(update) = {}
    BY <1>5 DEF FinishUpdate, Inv, StageFits, Fits
  <2>2. PICK r \in Exclusive, at \in Places : Located(r, at) /\ gate = GateFor(r, at)
    BY <2>1 DEF GateInv
  <2> DEFINE now == IF at = "following" THEN "pending" ELSE at
  <2>3. Located(r, now)'
    BY <1>0, <1>5, <2>1, <2>2 DEF FinishUpdate, Located, Part, CallersFree, CallersHold
  <2>4. now \in Places /\ GateFor(r, now) = GateFor(r, at)
    BY DEF Places, GateFor
  <2> HIDE DEF now
  <2> QED
    BY <1>5, <2>2, <2>3, <2>4 DEF FinishUpdate, GateInv
<1>6. CASE WriterStreamFails
  BY <1>6, GateFrame DEF WriterStreamFails
<1>7. ASSUME NEW e \in Events, AcceptWriterEvent(e) PROVE GateInv'
  BY <1>7, GateFrame DEF AcceptWriterEvent
<1>8. CASE LeaveLoop
  BY <1>8, GateFrame DEF LeaveLoop
<1>9. CASE Shutdown
  BY <1>9 DEF Shutdown, GateInv
<1>10. CASE StopOperation
  BY <1>10, GateFrame DEF StopOperation, DrivenStages
<1> QED
  BY <1>1, <1>2, <1>3, <1>4, <1>5, <1>6, <1>7, <1>8, <1>9, <1>10

\* The parts of an update that are not exclusive operations.
LEMMA GateParts ==
    ASSUME Inv, GateInv,
           \/ SetScope \/ WatchThread \/ rename_thread
           \/ change_thread_lifecycle \/ Deselect \/ ChangeWriteAccess
           \/ SelectTurnThread
    PROVE  GateInv'
<1>0. update \in Updates
  BY DEF Inv, TypeOK
<1>1. CASE SetScope
  BY <1>0, <1>1, RequestsRest, GateCompletes DEF SetScope, Proceed, DrivenStages
<1>2. CASE WatchThread
  BY <1>0, <1>2, RequestsRest, GateCompletes DEF WatchThread, Proceed, DrivenStages
<1>3. CASE rename_thread
  BY <1>0, <1>3, RequestsRest, GateCompletes DEF rename_thread, Proceed, DrivenStages
<1>4. CASE change_thread_lifecycle
  <2>1. update' = [update EXCEPT !.lifecycle = Tail(@)]
    BY <1>4 DEF change_thread_lifecycle, Proceed
  <2>2. gate' = gate /\ Completes("lifecycle")
    BY <1>4 DEF change_thread_lifecycle
  <2> QED
    BY <1>0, <2>1, <2>2, RequestsRest, GateCompletes DEF DrivenStages
<1>5. CASE Deselect
  BY <1>5, GateCompletes DEF Deselect, Proceed, DrivenStages
<1>6. CASE ChangeWriteAccess
  BY <1>0, <1>6, RequestsRest, GateCompletes DEF ChangeWriteAccess, Proceed, DrivenStages
<1>7. CASE SelectTurnThread
  BY <1>7, GateCompletes DEF SelectTurnThread, DrivenStages
<1> QED
  BY <1>1, <1>2, <1>3, <1>4, <1>5, <1>6, <1>7

\* The exclusive operations on threads.
LEMMA GateThreads ==
    ASSUME Inv, GateInv,
           \/ \E t \in Threads : StartedThread(t) \/ ForkedThread(t)
           \/ ThreadStartFails \/ ThreadForkFails
    PROVE  GateInv'
<1> USE DEF client, channel, deferral, server, view
<1>0. update \in Updates
  BY DEF Inv, TypeOK
<1>1. CASE (\E t \in Threads : StartedThread(t)) \/ ThreadStartFails
  <2>1. /\ stage = "start" /\ gate' = "Idle" /\ callers' = callers /\ queue' = queue
        /\ following' = merge(following, driven) /\ driven' = EmptyUpdate
        /\ pending' = pending
        /\ update' = [update EXCEPT !.write = None, !.start = None]
    BY <1>1 DEF StartedThread, ThreadStartFails, Completes, Proceed
  <2>2. update.start # None
    BY <2>1 DEF Inv, StageFits, Fits
  <2>3. Requests(update) # {}
    BY <2>2 DEF Requests
  <2>4. \A r : Requests(update) = {r} => Requests(update') = {}
    BY <1>0, <2>1, <2>2, RequestWorkedOff
  <2> QED
    BY <2>1, <2>3, <2>4, GateOpens
<1>2. CASE (\E t \in Threads : ForkedThread(t)) \/ ThreadForkFails
  <2>1. /\ stage = "fork" /\ gate' = "Idle" /\ callers' = callers /\ queue' = queue
        /\ following' = merge(following, driven) /\ driven' = EmptyUpdate
        /\ pending' = pending /\ update' = [update EXCEPT !.fork = None]
    BY <1>2 DEF ForkedThread, ThreadForkFails, Completes, Proceed
  <2>2. update.fork # None
    BY <2>1 DEF Inv, StageFits, Fits
  <2>3. Requests(update) # {}
    BY <2>2 DEF Requests
  <2>4. \A r : Requests(update) = {r} => Requests(update') = {}
    BY <1>0, <2>1, <2>2, RequestWorkedOff
  <2> QED
    BY <2>1, <2>3, <2>4, GateOpens
<1> QED
  BY <1>1, <1>2

\* The turn.
LEMMA GateTurn ==
    ASSUME Inv, GateInv,
           \/ RejectTurn \/ BeginTurn \/ TurnFailsToBegin \/ TurnBegins
           \/ ApplyTurnControls \/ (\E e \in Events : AcceptTurnEvent(e)) \/ TurnEnds
    PROVE  GateInv'
<1> USE DEF client, channel, deferral, server, view
<1>0. update \in Updates /\ driven \in Updates
  BY DEF Inv, TypeOK
<1>1. CASE EndTurn /\ stage \in TurnStages
  <2>1. update.turn # None
    BY <1>1 DEF Inv, StageFits, Fits
  <2>2. Requests(update) # {}
    BY <2>1 DEF Requests
  <2>3. Requests(update') = {}
    BY <1>1 DEF EndTurn, Requests, EmptyUpdate
  <2>4. stage # "stopped"
    BY <1>1 DEF TurnStages
  <2> QED
    BY <1>1, <2>2, <2>3, <2>4, GateOpens DEF EndTurn
<1>2. CASE BeginTurn
  BY <1>2, GateFrame DEF BeginTurn
<1>3. CASE TurnBegins
  BY <1>0, <1>3, RequestsRest, GateFrame DEF TurnBegins
<1>4. CASE ApplyTurnControls
  BY <1>0, <1>4, RequestsRest, GateFrame DEF ApplyTurnControls
<1>5. ASSUME NEW e \in Events, AcceptTurnEvent(e) PROVE GateInv'
  BY <1>5, GateFrame DEF AcceptTurnEvent
<1> QED
  BY <1>1, <1>2, <1>3, <1>4, <1>5
     DEF RejectTurn, TurnFailsToBegin, TurnEnds, TurnCompletes, TurnStreamFails,
         Streaming, TurnStages

LEMMA GateStep == Inv /\ GateInv /\ [Next]_vars => GateInv'
<1> SUFFICES ASSUME Inv, GateInv, [Next]_vars PROVE GateInv'
  OBVIOUS
<1>1. CASE UNCHANGED vars
  BY <1>1, GateFrame DEF vars, client, channel, deferral, server, view
<1>2. CASE ClientNext
  BY <1>2, GateClient
<1>3. CASE WorkerNext
  BY <1>3, GateReceives, GateLoop, GateParts, GateThreads, GateTurn
     DEF WorkerNext, WorkerStep, OperationCompletes, StreamNext
<1> QED
  BY <1>1, <1>2, <1>3 DEF Next, Terminated

-----------------------------------------------------------------------------
\* The place of the one request, said of the set of all requests in flight.
LEMMA LocatedInFlight ==
    ASSUME NEW r \in Exclusive, NEW at \in Places, Located(r, at)
    PROVE  IF at = "nowhere" THEN InFlight = {}
           ELSE \E x \in InFlight : InFlight = {x} /\ x[3] = r
<1> DEFINE C == {<<"caller", p, callers[p]>> : p \in {x \in Callers : callers[x] # None}}
           Q == {<<"queue", i, queue[i]>> :
                    i \in {j \in DOMAIN queue : queue[j] \in Exclusive}}
           P(place, u) == {<<place, None, x>> : x \in Requests(u)}
<1>1. InFlight = C \cup Q \cup P("update", update) \cup P("following", following)
                   \cup P("driven", driven) \cup P("pending", pending)
  BY DEF InFlight
<1>2. at # "caller" => C = {}
  BY DEF Located, CallersFree
<1>3. at = "caller" => \E p : C = {<<"caller", p, r>>}
  BY ExclusiveKinds DEF Located, CallersHold
<1>4. at # "queue" => Q = {}
  BY DEF Located, QueueFree
<1>5. at = "queue" => \E i : Q = {<<"queue", i, r>>}
  BY DEF Located, QueueHolds
<1>6. /\ P("update", update) = IF at = "update" THEN {<<at, None, r>>} ELSE {}
      /\ P("following", following) = IF at = "following" THEN {<<at, None, r>>} ELSE {}
      /\ P("driven", driven) = IF at = "driven" THEN {<<at, None, r>>} ELSE {}
      /\ P("pending", pending) = IF at = "pending" THEN {<<at, None, r>>} ELSE {}
  BY DEF Located, Part
<1> HIDE DEF C, Q, P
<1>7. at = "nowhere" => InFlight = {}
  BY <1>1, <1>2, <1>4, <1>6
<1>8. at # "nowhere" => \E k : InFlight = {<<at, k, r>>}
  BY <1>1, <1>2, <1>3, <1>4, <1>5, <1>6 DEF Places
<1>9. ASSUME NEW k, InFlight = {<<at, k, r>>}
      PROVE  \E x \in InFlight : InFlight = {x} /\ x[3] = r
  BY <1>9
<1> QED
  BY <1>7, <1>8, <1>9

(* The gate tells the truth until the worker is gone: idle, no exclusive      *)
(* request is left between clients and worker; held, there is exactly one, of *)
(* the kind the gate names (send_exclusive_command, run_observer).            *)
THEOREM GateCorrect == Spec => []GateHoldsOneRequest
<1>1. Init => Inv /\ GateInv
  BY InvInit, GateInit
<1>2. Inv /\ GateInv /\ [Next]_vars => (Inv /\ GateInv)'
  BY InvStep, GateStep
<1>3. GateInv => GateHoldsOneRequest
  <2> SUFFICES ASSUME GateInv, stage # "stopped"
               PROVE  IF gate = "Idle" THEN InFlight = {}
                      ELSE \E x \in InFlight : InFlight = {x} /\ OperationOf(x[3]) = gate
    BY DEF GateHoldsOneRequest
  <2>1. PICK r \in Exclusive, at \in Places : Located(r, at) /\ gate = GateFor(r, at)
    BY DEF GateInv
  <2> QED
    BY <2>1, LocatedInFlight, ExclusiveKinds DEF GateFor
<1> QED
  BY <1>1, <1>2, <1>3, PTL DEF Spec

---------------------------------------------------------------------------
(* The refinement of ExclusiveOperations                                   *)

\* What the gate, the clients and the stage say about the phase.
PhaseFacts ==
    /\ Closed => Phase = "closed"
    /\ ~Closed /\ gate = "Idle" => /\ Phase = "idle" /\ ~AtClient
                                   /\ stage \notin RunningStages
    /\ ~Closed /\ gate # "Idle" /\ AtClient => /\ Phase = "reserved"
                                               /\ stage \notin RunningStages
    /\ ~Closed /\ gate # "Idle" /\ ~AtClient =>
          Phase = IF stage \in RunningStages THEN "running" ELSE "accepted"

\* A held gate's request is somewhere, and one that runs is in the update.
LEMMA PhaseKnown == Inv /\ GateInv => PhaseFacts
<1> SUFFICES ASSUME Inv, GateInv PROVE PhaseFacts
  OBVIOUS
<1>1. CASE Closed
  BY <1>1 DEF PhaseFacts, Phase, Reserved
<1>2. CASE ~Closed
  <2>1. PICK r \in Exclusive, at \in Places : Located(r, at) /\ gate = GateFor(r, at)
    BY <1>2 DEF GateInv, Closed
  <2>2. stage \in RunningStages => at = "update"
    <3>1. stage \in RunningStages => Requests(update) # {}
      BY DEF RunningStages, Inv, StageFits, Fits, TurnStages, Requests
    <3> QED
      BY <2>1, <3>1 DEF Located, Part
  <2>3. gate = "Idle" <=> at = "nowhere"
    BY <2>1, ExclusiveKinds DEF GateFor
  <2>4. AtClient <=> at = "caller"
    BY <2>1, ExclusiveKinds DEF AtClient, Located, CallersFree, CallersHold
  <2>5. at # "nowhere" => InFlight # {}
    BY <2>1, LocatedInFlight
  <2> QED
    BY <1>2, <2>2, <2>3, <2>4, <2>5 DEF PhaseFacts, Phase, Reserved
<1> QED
  BY <1>1, <1>2

LEMMA PhaseKnownNext == (Inv /\ GateInv)' => PhaseFacts'
BY PhaseKnown, PTL

Implements == [Promise!Next]_(Promise!vars)

-----------------------------------------------------------------------------
\* The clients reserve, are refused, and have their request accepted.
LEMMA ClientImplements ==
    ASSUME Inv, GateInv, PhaseFacts, PhaseFacts', ClientNext
    PROVE  Implements
<1> USE DEF client, channel
<1>1. stage' = stage /\ (Closed' <=> Closed)
  BY DEF ClientNext, Send, Reserve, SendReserved, SendStop, Cancel, Join, Closed
<1>2. CASE Closed
  BY <1>1, <1>2 DEF PhaseFacts, Implements, Promise!vars
<1>3. CASE ~Closed /\ gate' = gate /\ callers' = callers
  <2>1. AtClient' <=> AtClient
    BY <1>3 DEF AtClient
  <2> QED
    BY <1>1, <1>3, <2>1 DEF PhaseFacts, Implements, Promise!vars
<1>4. ASSUME ~Closed, NEW p \in Callers, NEW c \in Command, Reserve(p, c)
      PROVE  Implements
  <2>1. gate = "Idle" /\ gate' = OperationOf(c) /\ c \in Exclusive
    BY <1>4 DEF Reserve
  <2>2. gate' \in Operations /\ gate' # "Idle"
    BY <2>1 DEF OperationOf, Operations, Exclusive, ForkThread, StartThread, StartTurn
  <2>3. AtClient'
    <3>1. callers'[p] = c
      BY <1>4 DEF Reserve, Inv, TypeOK
    <3> QED
      BY <2>1, <3>1, ExclusiveKinds DEF AtClient
  <2>4. Promise!Reserve(gate')
    BY <1>1, <1>4, <2>1, <2>2, <2>3 DEF PhaseFacts, Promise!Reserve
  <2> QED
    BY <2>2, <2>4 DEF Implements, Promise!Next
<1>5. ASSUME ~Closed, NEW p \in Callers, SendReserved(p) PROVE Implements
  <2>1. AtClient /\ gate # "Idle" /\ stage \notin RunningStages
    BY <1>5 DEF SendReserved, AtClient, PhaseFacts
  <2>2. gate' \in {gate, "Idle"}
    BY <1>5 DEF SendReserved
  <2>3. ~AtClient'
    <3>1. PICK r \in Exclusive, at \in Places : Located(r, at)
      BY <1>5 DEF GateInv, Closed
    <3>2. \A o \in Callers \ {p} : callers[o] = None
      BY <1>5, <3>1 DEF SendReserved, Located, CallersFree, CallersHold
    <3> QED
      BY <1>5, <3>2 DEF SendReserved, AtClient, Inv, TypeOK
  <2>4. CASE gate' = gate
    BY <1>1, <1>5, <2>1, <2>3, <2>4
       DEF PhaseFacts, Implements, Promise!Next, Promise!Accept
  <2>5. CASE gate' = "Idle"
    BY <1>1, <1>5, <2>1, <2>5
       DEF PhaseFacts, Implements, Promise!Next, Promise!Refuse
  <2> QED
    BY <2>2, <2>4, <2>5
<1> QED
  BY <1>2, <1>3, <1>4, <1>5 DEF ClientNext, Send, SendStop, Cancel, Join

\* The worker leaves the gate alone: it takes the request a stage further, begins
\* it, or leaves the loop.
LEMMA WorkerKeeps ==
    ASSUME PhaseFacts, PhaseFacts', gate' = gate, callers' = callers,
           Closed => Closed',
           stage \in RunningStages => stage' \in RunningStages \cup {"exit"}
    PROVE  Implements
<1>1. AtClient' <=> AtClient
  BY DEF AtClient
<1>2. CASE Closed
  BY <1>2 DEF PhaseFacts, Implements, Promise!vars
<1>3. CASE ~Closed /\ Closed'
  BY <1>3 DEF PhaseFacts, Implements, Promise!Next, Promise!Close
<1>4. CASE ~Closed /\ ~Closed' /\ stage \notin RunningStages /\ stage' \in RunningStages
  BY <1>1, <1>4 DEF PhaseFacts, Implements, Promise!Next, Promise!Begin
<1>5. CASE ~Closed /\ ~Closed' /\ (stage \in RunningStages <=> stage' \in RunningStages)
  BY <1>1, <1>5 DEF PhaseFacts, Implements, Promise!vars
<1>6. stage \in RunningStages /\ ~Closed' => stage' \in RunningStages
  BY DEF Closed
<1> QED
  BY <1>2, <1>3, <1>4, <1>5, <1>6

\* The worker is done with the request: the gate opens.
LEMMA WorkerOpens ==
    ASSUME PhaseFacts, PhaseFacts', stage \in RunningStages, gate' = "Idle"
    PROVE  Implements
<1>1. ~Closed
  BY DEF Closed, RunningStages
<1>2. Phase = "running"
  BY <1>1 DEF PhaseFacts
<1>3. CASE Closed'
  BY <1>1, <1>2, <1>3 DEF PhaseFacts, Implements, Promise!Next, Promise!Close
<1>4. CASE ~Closed'
  BY <1>1, <1>2, <1>4 DEF PhaseFacts, Implements, Promise!Next, Promise!Finish
<1> QED
  BY <1>3, <1>4

LEMMA WorkerImplements ==
    ASSUME PhaseFacts, PhaseFacts', WorkerNext
    PROVE  Implements
<1> USE DEF client, channel, deferral, server, view, RunningStages, Closed
<1>1. CASE \E s \in DrivenStages : StartPoll(s)
  BY <1>1, WorkerKeeps DEF StartPoll
<1>2. CASE FinishPoll \/ TakePending \/ BeginUpdate \/ FinishUpdate
  BY <1>2, WorkerKeeps DEF FinishPoll, TakePending, BeginUpdate, FinishUpdate
<1>3. CASE ReceiveCommand \/ DeferCommand \/ ReceiveTurnCommand
  BY <1>3, WorkerKeeps DEF ReceiveCommand, DeferCommand, ReceiveTurnCommand, DrivenStages
<1>4. CASE LeaveLoop \/ StopOperation
  BY <1>4, WorkerKeeps DEF LeaveLoop, StopOperation
<1>5. CASE Shutdown
  BY <1>5 DEF Shutdown, PhaseFacts, Implements, Promise!vars
<1>6. CASE SetScope \/ WatchThread \/ rename_thread \/ Deselect \/ ChangeWriteAccess
  BY <1>6, WorkerKeeps
     DEF SetScope, WatchThread, rename_thread, Deselect, ChangeWriteAccess, Completes
<1>7. CASE change_thread_lifecycle
  BY <1>7, WorkerKeeps DEF change_thread_lifecycle, Completes
<1>8. CASE SelectTurnThread
  BY <1>8, WorkerKeeps DEF SelectTurnThread, Completes
<1>9. CASE BeginTurn
  BY <1>9, WorkerKeeps DEF BeginTurn, Enter
<1>10. CASE TurnBegins \/ ApplyTurnControls \/ \E e \in Events : AcceptTurnEvent(e)
  BY <1>10, WorkerKeeps DEF TurnBegins, ApplyTurnControls, AcceptTurnEvent
<1>11. CASE WriterStreamFails \/ \E e \in Events : AcceptWriterEvent(e)
  BY <1>11, WorkerKeeps DEF WriterStreamFails, AcceptWriterEvent
<1>12. CASE \/ \E t \in Threads : StartedThread(t) \/ ForkedThread(t)
            \/ ThreadStartFails \/ ThreadForkFails
  BY <1>12, WorkerOpens
     DEF StartedThread, ForkedThread, ThreadStartFails, ThreadForkFails, Completes
<1>13. CASE RejectTurn \/ TurnFailsToBegin \/ TurnEnds
  BY <1>13, WorkerOpens
     DEF RejectTurn, TurnFailsToBegin, TurnEnds, TurnCompletes, TurnStreamFails,
         Streaming, EndTurn
<1> QED
  BY <1>1, <1>2, <1>3, <1>4, <1>5, <1>6, <1>7, <1>8, <1>9, <1>10, <1>11, <1>12, <1>13
     DEF WorkerNext, WorkerStep, OperationCompletes, StreamNext

(* Every behaviour of clients and worker is one of the abstract promise: a    *)
(* request is reserved alone, refused or accepted, begun once and finished    *)
(* before the next is reserved (reserve_operation, send_exclusive_command,    *)
(* run_observer, run_turn).                                                   *)
THEOREM OperationsImplemented == Spec => ImplementsExclusiveOperations
<1>1. Init => Inv /\ GateInv
  BY InvInit, GateInit
<1>2. Init => Promise!Init
  BY DEF Init, Promise!Init, Phase, Closed, Reserved
<1>3. Inv /\ GateInv /\ [Next]_vars => (Inv /\ GateInv)'
  BY InvStep, GateStep
<1>4. ASSUME Inv, GateInv, [Next]_vars, (Inv /\ GateInv)' PROVE Implements
  <2>1. PhaseFacts /\ PhaseFacts'
    BY <1>4, PhaseKnown, PhaseKnownNext
  <2>2. CASE UNCHANGED vars
    <3>1. /\ (Closed' <=> Closed) /\ gate' = gate /\ (AtClient' <=> AtClient)
          /\ stage' = stage
      BY <2>2 DEF vars, client, Closed, AtClient
    <3> QED
      BY <2>1, <3>1 DEF PhaseFacts, Implements, Promise!vars
  <2> QED
    BY <1>4, <2>1, <2>2, ClientImplements, WorkerImplements DEF Next, Terminated
<1> QED
  BY <1>1, <1>2, <1>3, <1>4, PTL
     DEF Spec, ImplementsExclusiveOperations, Implements, Promise!Spec
=============================================================================
