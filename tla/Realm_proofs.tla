----------------------------- MODULE Realm_proofs -----------------------------
(***************************************************************************)
(* A saved machine state is only ever over the disk it was saved with, what  *)
(* the application shows of a realm is what its machine does, and what is     *)
(* told of a bundle is what its disk holds, for any number of commands,       *)
(* failures, stops of the guest, machines opened, processes and edits.        *)
(*                                                                           *)
(* None is inductive.  That the disk does not move on under a saved state is  *)
(* a matter of which operations may be in flight while one is kept            *)
(* (FlightFits); that what is shown is current is a matter of the events and  *)
(* retargets that are still on their way (EventsFit, StatusFits, ViewsFit),   *)
(* and of which machine and view are left when a realm is closed, or the      *)
(* process ends (OpenFits).  The bundle's invariant comes after the           *)
(* machine's.                                                                *)
(***************************************************************************)
EXTENDS MCRealm, SequenceTheorems, TLAPS

Copies == [saved : Nat, restoring : Nat]
Allowing == [saves : BOOLEAN, commands : Nat, failures : Nat, stops : Nat, opens : Nat]

(* The steps in flight, and the file kept.                                 *)
Fits(b, f, d) ==
    /\ b.flight \in {"pause to save", "save", "stop to suspend"} <=> b.suspensionRequested
    /\ b.flight \in {"restore", "resume restored"} <=> b.restorationRequested
    /\ b.state \in {"running", "paused"} => b.flight = "none"
    /\ b.flight \in {"stop", "stop to suspend"} => b.state = "stopping"
    /\ b.flight = "stop to suspend" => f.saved # NoFile
    /\ b.flight = "restore" => f.restoring = d
    /\ f.saved # NoFile =>
         /\ f.saved = d
         /\ \/ b.flight = "none" /\ b.state \in {"paused", "stopped", "error"}
            \/ b.flight \in {"stop", "stop to suspend"}
FlightFits == Fits(bridge, files, disk)

(* What the controller has and has not, by whether a realm is open.        *)
OpenFits ==
    /\ ~ctl.open => commands = <<>> /\ ~ctl.closing
    /\ ~ctl.open \/ ctl.closing => ctl.view = NoView /\ ctl.attaching = NoView
    /\ ctl.open => ~bridge.invalidated
    /\ ctl.open /\ ~ctl.closing => bridge.generation = ctl.generation

(* Events come generation by generation.                                   *)
EventsFit ==
    /\ bridge.generation <= ctl.generation
    /\ \A i \in DOMAIN events : events[i].generation <= bridge.generation
    /\ \A i, j \in DOMAIN events : i <= j => events[i].generation <= events[j].generation

Last == events[Len(events)]
IsTold == events # <<>> /\ Last.generation = ctl.generation
Latest == IF IsTold THEN Last.status ELSE [state |-> ctl.state, can |-> ctl.can]
Status == currentStatus(bridge, files)

(* The status told last is the machine's.                                  *)
StatusFits ==
    ctl.open /\ ~ctl.closing =>
        /\ bridge.notice = "none" => Latest = Status
        /\ ctl.pending => commands # <<>> \/ IsTold

(* Retargets lead a view from its machine to the one in use.               *)
Leads(v) ==
    v # NoView =>
        /\ v <= bridge.instance
        /\ \A k \in Nat : v <= k /\ k < bridge.instance =>
              \E i \in DOMAIN retargets : retargets[i] = k
ViewsFit ==
    /\ ctl.open \/ bridge.flight # "none" => bridge.instance # NoView
    /\ \A i \in DOMAIN retargets : retargets[i] # NoView /\ retargets[i] < bridge.instance
    /\ \A i, j \in DOMAIN retargets : i < j => retargets[i] < retargets[j]
    /\ Leads(ctl.view) /\ Leads(ctl.attaching)

IInv == TypeOK /\ FlightFits /\ OpenFits /\ EventsFit /\ StatusFits /\ ViewsFit

---------------------------------------------------------------------------
\* A status is one of the statuses, whatever the machine and the files.
LEMMA StatusType ==
    ASSUME NEW b \in Bridges, NEW f \in Copies
    PROVE  currentStatus(b, f) \in Statuses
BY DEF currentStatus, ReportedState, Bridges, Statuses, Shown, States

\* Events of the machine's generation of which the last tells its status keep
\* the events in order, and the status told last the machine's.
LEMMA AppendedEvents ==
    ASSUME TypeOK, EventsFit, OpenFits, NEW t \in Seq(Events), t # <<>>,
           \A i \in DOMAIN t : t[i].generation = bridge.generation,
           t[Len(t)].status = Status', events' = events \o t,
           ctl' = ctl, bridge'.generation = bridge.generation
    PROVE  EventsFit' /\ StatusFits' /\ events' \in Seq(Events)
<1>0. events \in Seq(Events)
  BY DEF TypeOK
<1>d. events \o t \in Seq(Events)
  BY <1>0, ConcatProperties
<1>a. /\ Len(events) \in Nat /\ Len(t) \in Nat /\ Len(t) # 0
      /\ DOMAIN events = 1 .. Len(events) /\ DOMAIN t = 1 .. Len(t)
      /\ DOMAIN events' = 1 .. Len(events')
  BY <1>0, <1>d, EmptySeq, LenProperties
<1>b. /\ Len(events \o t) = Len(events) + Len(t)
      /\ \A i \in 1 .. Len(events) + Len(t) :
            (events \o t)[i] = IF i <= Len(events) THEN events[i] ELSE t[i - Len(events)]
  <2> QED BY ONLY <1>0, t \in Seq(Events), ConcatProperties
<1>1. /\ events \in Seq(Events) /\ Len(events) \in Nat /\ Len(t) \in Nat /\ Len(t) # 0
      /\ events' \in Seq(Events) /\ Len(events') = Len(events) + Len(t)
      /\ \A i \in 1 .. Len(events') :
            events'[i] = IF i <= Len(events) THEN events[i] ELSE t[i - Len(events)]
      /\ DOMAIN events = 1 .. Len(events) /\ DOMAIN t = 1 .. Len(t)
      /\ DOMAIN events' = 1 .. Len(events')
  BY <1>0, <1>d, <1>a, <1>b
<1>c. \A i \in DOMAIN events : events[i] \in Events
  BY <1>1, ElementOfSeq
<1>2. /\ bridge.generation \in Nat /\ ctl.generation \in Nat
      /\ \A i \in DOMAIN events : events[i].generation \in Nat
  BY <1>c DEF TypeOK, Bridges, Controllers, Events
<1>3. \A i \in DOMAIN events' :
         \/ i \in DOMAIN events /\ events'[i] = events[i]
         \/ i > Len(events) /\ events'[i].generation = bridge.generation
  <2> SUFFICES ASSUME NEW i \in 1 .. Len(events')
               PROVE  \/ i \in DOMAIN events /\ events'[i] = events[i]
                      \/ i > Len(events) /\ events'[i].generation = bridge.generation
    BY <1>1
  <2>1. i > Len(events) => i - Len(events) \in 1 .. Len(t)
    BY <1>1
  <2> QED BY <1>1, <2>1
<1>4. events'[Len(events')] = t[Len(t)] /\ Len(events') > Len(events)
  BY <1>1
<1>5. EventsFit'
  BY <1>1, <1>2, <1>3 DEF EventsFit
<1>6. t[Len(t)].generation = bridge.generation /\ events' # <<>>
  BY <1>1
<1>7. StatusFits'
  BY <1>4, <1>6 DEF OpenFits, StatusFits, Latest, IsTold, Last
<1> QED BY <1>1, <1>5, <1>7

\* A machine that is invalidated tells nothing, and nobody waits for it.
LEMMA UntoldEvents ==
    ASSUME EventsFit, OpenFits, bridge.invalidated, UNCHANGED <<events, ctl>>,
           bridge'.generation = bridge.generation
    PROVE  EventsFit' /\ StatusFits'
BY DEF EventsFit, OpenFits, StatusFits

\* A step that tells nothing changes no status, unless a notice of the guest's
\* stop is still to come.
LEMMA SilentEvents ==
    ASSUME EventsFit, StatusFits, UNCHANGED <<events, ctl, commands>>,
           bridge'.generation = bridge.generation,
           bridge'.notice = "none" => bridge.notice = "none" /\ Status' = Status
    PROVE  EventsFit' /\ StatusFits'
BY DEF EventsFit, StatusFits, Latest, IsTold, Last

\* What is told is one event: emitStatusWithError.
LEMMA ToldOnce ==
    ASSUME NEW b \in Bridges, NEW f \in Copies, NEW failed \in BOOLEAN, ~b.invalidated
    PROVE  /\ Told(b, f, failed) \in Seq(Events) /\ Len(Told(b, f, failed)) = 1
           /\ Told(b, f, failed)[1].generation = b.generation
           /\ Told(b, f, failed)[1].status = currentStatus(b, f)
           /\ Told(b, f, failed)[1].failed = failed
<1>1. [generation |-> b.generation, status |-> currentStatus(b, f), failed |-> failed] \in Events
  BY StatusType DEF Bridges, Events
<1> QED BY <1>1 DEF Told

\* The status depends on the machine and its files, and on whether the
\* configuration can be saved.
LEMMA SameStatus ==
    ASSUME allows'.saves = allows.saves
    PROVE  \A b, f : currentStatus(b, f)' = currentStatus(b, f)
BY DEF currentStatus, Permitted

\* A step of the bridge that tells of the status it ends with.
LEMMA HeardStep ==
    ASSUME IInv, bridge' \in Bridges, files' \in Copies, UNCHANGED <<retargets, ctl>>,
           NEW t \in Seq(Events), t # <<>>,
           \A i \in DOMAIN t : t[i].generation = bridge.generation,
           t[Len(t)].status = Status', events' = events \o t,
           bridge'.instance = bridge.instance, bridge'.generation = bridge.generation,
           bridge'.invalidated = bridge.invalidated,
           commands' = commands \/ (commands # <<>> /\ commands' = Tail(commands)),
           disk' \in Nat \ {NoFile}, allows' \in Allowing,
           Fits(bridge', files', disk'),
           bridge'.flight # "none" => bridge.flight # "none" \/ commands # <<>>
    PROVE  IInv'
<1>1. events \in Seq(Events) /\ commands \in Seq(Commands)
  BY DEF IInv, TypeOK
<1>2. EventsFit' /\ StatusFits' /\ events' \in Seq(Events)
  BY AppendedEvents DEF IInv
<1>3. commands' \in Seq(Commands)
  BY <1>1, HeadTailProperties
<1>4. TypeOK'
  BY <1>2, <1>3 DEF IInv, TypeOK, Fits, Copies, Allowing
<1>5. OpenFits' /\ ViewsFit'
  BY DEF IInv, OpenFits, ViewsFit, Leads
<1> QED BY <1>2, <1>4, <1>5 DEF IInv, FlightFits

\* A step of the bridge that ends by telling of itself.
LEMMA ToldEvents ==
    ASSUME IInv, NEW b \in Bridges, NEW f \in Copies, NEW failed \in BOOLEAN,
           Becomes(b, f, failed), UNCHANGED ctl,
           b.generation = bridge.generation, b.invalidated = bridge.invalidated,
           allows'.saves = allows.saves
    PROVE  EventsFit' /\ StatusFits' /\ events' \in Seq(Events)
<1>1. bridge' = b /\ files' = f /\ events' = events \o Told(b, f, failed)
  BY DEF Becomes
<1>2. Status' = currentStatus(b, f)
  BY <1>1, SameStatus DEF Status
<1>3. events \in Seq(Events) /\ commands \in Seq(Commands)
  BY DEF IInv, TypeOK
<1>4. CASE b.invalidated
  <2>1. events' = events
    BY <1>1, <1>3, <1>4, ConcatEmptySeq DEF Told
  <2> QED BY <2>1, <1>1, <1>3, <1>4, UntoldEvents DEF IInv
<1>5. CASE ~b.invalidated
  <2> DEFINE t == Told(b, f, failed)
  <2>1. /\ t \in Seq(Events) /\ Len(t) = 1 /\ t[1].generation = b.generation
        /\ t[1].status = currentStatus(b, f)
    BY <1>5, ToldOnce
  <2> HIDE DEF t
  <2>2. t # <<>>
    <3>1. t = <<>> <=> Len(t) = 0
      BY <2>1, EmptySeq
    <3> QED BY <3>1, <2>1
  <2>3. DOMAIN t = 1 .. 1
    BY <2>1, LenProperties
  <2>4. \A i \in DOMAIN t : t[i].generation = bridge.generation
    BY <2>1, <2>3
  <2> QED BY <2>1, <2>2, <2>4, <1>1, <1>2, AppendedEvents DEF IInv, t
<1> QED BY <1>4, <1>5

\* A step of the bridge, of a command or of a completion, as a whole.
LEMMA BridgeStep ==
    ASSUME IInv, NEW b \in Bridges, NEW f \in Copies, NEW failed \in BOOLEAN,
           Becomes(b, f, failed), UNCHANGED <<retargets, ctl>>,
           b.instance = bridge.instance, b.generation = bridge.generation,
           b.invalidated = bridge.invalidated,
           commands' = commands \/ (commands # <<>> /\ commands' = Tail(commands)),
           disk' \in Nat \ {NoFile}, allows' \in Allowing, allows'.saves = allows.saves,
           Fits(b, f, disk'),
           b.flight # "none" => bridge.flight # "none" \/ commands # <<>>
    PROVE  IInv'
<1>1. bridge' = b /\ files' = f /\ events' = events \o Told(b, f, failed)
  BY DEF Becomes
<1>3. events \in Seq(Events) /\ commands \in Seq(Commands)
  BY DEF IInv, TypeOK
<1>4. EventsFit' /\ StatusFits' /\ events' \in Seq(Events)
  BY ToldEvents
<1>5. commands' \in Seq(Commands)
  BY <1>3, HeadTailProperties
<1>6. TypeOK'
  BY <1>1, <1>3, <1>4, <1>5 DEF IInv, TypeOK, Fits, Copies, Allowing
<1>7. OpenFits'
  BY <1>1 DEF IInv, OpenFits
<1>8. ViewsFit'
  BY <1>1 DEF IInv, OpenFits, ViewsFit, Leads
<1> QED BY <1>1, <1>4, <1>6, <1>7, <1>8 DEF IInv, FlightFits

\* A step of the bridge that tells nothing, as a whole.
LEMMA SilentStep ==
    ASSUME IInv, bridge' \in Bridges, files' \in Copies,
           UNCHANGED <<commands, events, retargets, ctl>>,
           bridge'.instance = bridge.instance, bridge'.generation = bridge.generation,
           bridge'.invalidated = bridge.invalidated,
           bridge'.notice = "none" => bridge.notice = "none" /\ Status' = Status,
           disk' \in Nat \ {NoFile}, allows' \in Allowing, allows'.saves = allows.saves,
           FlightFits', bridge'.flight # "none" => bridge.flight # "none"
    PROVE  IInv'
<1>1. EventsFit' /\ StatusFits'
  BY SilentEvents DEF IInv
<1>2. TypeOK'
  BY DEF IInv, TypeOK, FlightFits, Fits, Copies, Allowing
<1>3. OpenFits' /\ ViewsFit'
  BY DEF IInv, OpenFits, ViewsFit, Leads
<1> QED BY <1>1, <1>2, <1>3 DEF IInv

\* Between the steps of a suspension or a restore the status is the same.
LEMMA SuspendingStatus ==
    ASSUME allows'.saves = allows.saves,
           \/ bridge.suspensionRequested = TRUE /\ bridge'.suspensionRequested = TRUE
           \/ /\ bridge.suspensionRequested = FALSE /\ bridge'.suspensionRequested = FALSE
              /\ bridge.restorationRequested = TRUE /\ bridge'.restorationRequested = TRUE
    PROVE  Status' = Status
<1>1. \A c \in Commands : ~Permitted(bridge, files, c) /\ ~Permitted(bridge, files, c)'
  BY DEF Permitted
<1> QED BY <1>1 DEF Status, currentStatus, ReportedState

(* What an invariant state and a step give to each action. *)
LEMMA StateFacts ==
    ASSUME IInv
    PROVE  /\ bridge \in Bridges /\ files \in Copies /\ disk \in Nat \ {NoFile}
           /\ allows \in Allowing /\ Fits(bridge, files, disk)
BY DEF IInv, TypeOK, FlightFits, Copies, Allowing

\* Failures that are allowed can be taken off the allowance.
LEMMA CountedType ==
    ASSUME allows \in Allowing, NEW n \in Nat, n <= allows.failures, Counted(n)
    PROVE  allows' \in Allowing /\ allows'.saves = allows.saves
BY DEF Allowing, Counted

\* A failure is only chosen where one is allowed.
LEMMA OutcomeCounted ==
    ASSUME allows \in Allowing, NEW failed \in Outcomes
    PROVE  failed \in BOOLEAN /\ One(failed) \in Nat /\ One(failed) <= allows.failures
<1>1. failed \in BOOLEAN /\ (failed => allows.failures > 0)
  BY DEF Outcomes
<1>2. allows.failures \in Nat
  BY DEF Allowing
<1>3. One(failed) = 0 \/ (One(failed) = 1 /\ allows.failures > 0)
  BY <1>1 DEF One
<1> QED BY <1>1, <1>2, <1>3

\* A command that is refused changes nothing, and is told.
LEMMA Refused ==
    ASSUME IInv, NEW c, Executes(c), Refuses(c)
    PROVE  IInv'
BY StateFacts, BridgeStep DEF Executes, Refuses

---------------------------------------------------------------------------
(* The commands                                                            *)

\* A command that is permitted begins an operation of the framework.
LEMMA Begun ==
    ASSUME IInv, NEW c, Executes(c),
           NEW op \in {"start", "pause", "resume", "resume to stop", "stop"},
           NEW during \in {"starting", "pausing", "resuming", "stopping"}, NEW b,
           \/ b = Starts(bridge, op, during)
           \/ b = [Starts(bridge, op, during) EXCEPT !.stopRequested = FALSE],
           ~bridge.suspensionRequested, ~bridge.restorationRequested,
           op = "stop" => during = "stopping",
           op # "stop" => files.saved = NoFile,
           Becomes(b, files, FALSE), UNCHANGED allows
    PROVE  IInv'
<1>1. /\ b \in Bridges /\ b.instance = bridge.instance
      /\ b.generation = bridge.generation /\ b.invalidated = bridge.invalidated
      /\ b.flight = op /\ b.state = during
      /\ ~b.suspensionRequested /\ ~b.restorationRequested
  <2>1. op \in Flights /\ during \in States
    BY DEF Flights, States
  <2>2. /\ Starts(bridge, op, during) \in Bridges
        /\ Starts(bridge, op, during)
             = [bridge EXCEPT !.flight = op, !.state = during]
    BY <2>1, StateFacts DEF Starts, Bridges
  <2>3. CASE b = Starts(bridge, op, during)
    BY <2>2, <2>3, StateFacts DEF Bridges
  <2>4. CASE b = [Starts(bridge, op, during) EXCEPT !.stopRequested = FALSE]
    BY <2>2, <2>4, StateFacts DEF Bridges
  <2> QED BY <2>3, <2>4
<1>3. Fits(b, files, disk)
  BY <1>1, StateFacts DEF Fits
<1>2. /\ UNCHANGED <<disk, retargets, ctl>>
      /\ commands # <<>> /\ commands' = Tail(commands)
  BY DEF Executes
<1> QED BY <1>1, <1>2, <1>3, StateFacts, BridgeStep

\* start.
LEMMA StartStep == ASSUME IInv, start PROVE IInv'
<1>1. CASE Refuses("start")
  BY <1>1, Refused DEF start
<1>2. CASE ~Refuses("start")
  BY <1>2, StateFacts, Begun DEF start, Permitted, CanStart
<1> QED BY <1>1, <1>2

\* pause.
LEMMA PauseStep == ASSUME IInv, pause PROVE IInv'
<1>1. CASE Refuses("pause")
  BY <1>1, Refused DEF pause
<1>2. CASE ~Refuses("pause")
  BY <1>2, StateFacts, Begun DEF pause, Permitted, CanPause
<1> QED BY <1>1, <1>2

\* resume.
LEMMA ResumeStep == ASSUME IInv, resume PROVE IInv'
<1>1. CASE Refuses("resume")
  BY <1>1, Refused DEF resume
<1>2. CASE ~Refuses("resume")
  BY <1>2, StateFacts, Begun DEF resume, Permitted, CanResume
<1> QED BY <1>1, <1>2

\* forceStop.
LEMMA ForceStopStep == ASSUME IInv, forceStop PROVE IInv'
<1>1. CASE Refuses("forceStop")
  BY <1>1, Refused DEF forceStop
<1>2. CASE ~Refuses("forceStop")
  BY <1>2, StateFacts, Begun DEF forceStop, Permitted, CanStop
<1> QED BY <1>1, <1>2

\* requestStop: the guest is asked at once, or resumed to be asked.
LEMMA RequestStopStep == ASSUME IInv, requestStop PROVE IInv'
<1>1. CASE Refuses("requestStop")
  BY <1>1, Refused DEF requestStop
<1>2. /\ UNCHANGED <<disk, retargets, ctl>>
      /\ commands # <<>> /\ commands' = Tail(commands)
  BY DEF requestStop, Executes
<1>3. CASE Permitted(bridge, files, "requestStop") /\ CanRequestStop(bridge)
           /\ ~CanResume(bridge) /\ ~Refuses("requestStop")
  <2>1. PICK failed \in Outcomes :
           Becomes(Requested(bridge, failed), files, failed) /\ Counted(One(failed))
    BY <1>3 DEF requestStop
  <2> DEFINE b == Requested(bridge, failed)
  <2>2. failed \in BOOLEAN /\ allows' \in Allowing /\ allows'.saves = allows.saves
    BY <2>1, StateFacts, OutcomeCounted, CountedType
  <2>3. /\ b \in Bridges /\ b.instance = bridge.instance
        /\ b.generation = bridge.generation /\ b.invalidated = bridge.invalidated
        /\ Fits(b, files, disk)
    BY <2>2, StateFacts DEF Requested, Bridges, Fits
  <2> HIDE DEF b
  <2> QED BY <1>2, <2>1, <2>2, <2>3, StateFacts, BridgeStep DEF b
<1>4. CASE Permitted(bridge, files, "requestStop") /\ CanResume(bridge)
           /\ ~Refuses("requestStop")
  BY <1>4, StateFacts, Begun DEF requestStop, Permitted, CanResume, CanRequestStop
<1> QED BY <1>1, <1>3, <1>4 DEF requestStop, CanResume, CanRequestStop

\* The status of a machine that is being suspended.
LEMMA SavingStatus ==
    ASSUME NEW b, NEW f, b.suspensionRequested = TRUE
    PROVE  currentStatus(b, f) = [state |-> "saving", can |-> {}]
BY DEF currentStatus, ReportedState, Permitted

\* suspend: of a running machine, or of a paused one.
LEMMA SuspendStep == ASSUME IInv, suspend PROVE IInv'
<1>1. CASE Refuses("suspend")
  BY <1>1, Refused DEF suspend
<1> DEFINE b == [bridge EXCEPT !.suspensionRequested = TRUE]
           told == Told(b, files, FALSE)
<1>2. /\ UNCHANGED <<disk, retargets, ctl>>
      /\ commands # <<>> /\ commands' = Tail(commands)
  BY DEF suspend, Executes
<1>3. SUFFICES ASSUME Permitted(bridge, files, "suspend") PROVE IInv'
  BY <1>1 DEF suspend
<1>4. /\ bridge.state \in {"running", "paused"} /\ bridge.flight = "none"
      /\ files.saved = NoFile /\ ~bridge.suspensionRequested
      /\ ~bridge.restorationRequested /\ ~bridge.invalidated
  BY <1>3, StateFacts DEF Permitted, CanPause, Fits
<1>5. b \in Bridges /\ ~b.invalidated /\ b.generation = bridge.generation /\ b.state = bridge.state
      /\ b.instance = bridge.instance /\ b.suspensionRequested = TRUE
      /\ ~b.restorationRequested /\ b.notice = bridge.notice
  BY <1>4, StateFacts DEF Bridges
<1>6. /\ told \in Seq(Events) /\ Len(told) = 1 /\ told[1].generation = bridge.generation
      /\ told[1].status = currentStatus(b, files) /\ told[1].failed = FALSE
  BY <1>5, StateFacts, ToldOnce
<1> HIDE DEF b, told
<1>b. told \in Seq(Events) /\ Len(told) = 1
  BY <1>6
<1>a. told # <<>> /\ \A i \in DOMAIN told : i = 1
  <2>1. DOMAIN told = 1 .. Len(told)
    BY ONLY <1>b, LenProperties
  <2>2. told = <<>> <=> Len(told) = 0
    BY ONLY <1>b, EmptySeq
  <2> QED BY ONLY <1>b, <2>1, <2>2
<1>7. events \in Seq(Events) /\ events \o told \in Seq(Events)
  BY <1>6, ConcatProperties DEF IInv, TypeOK
<1>8. ASSUME allows' \in Allowing, allows'.saves = allows.saves, UNCHANGED files,
             NEW op \in {"pause to save", "save"}, NEW during \in {"pausing", "saving"},
             bridge' = Starts(b, op, during), events' = events \o told
      PROVE  IInv'
  <2>1. op \in Flights /\ during \in States
    BY DEF Flights, States
  <2>2. /\ bridge' \in Bridges /\ bridge'.instance = bridge.instance /\ ~bridge'.invalidated
        /\ bridge'.generation = bridge.generation /\ bridge'.suspensionRequested = TRUE
        /\ bridge'.flight = op /\ bridge'.state = during /\ ~bridge'.restorationRequested
    BY <1>5, <1>8, <2>1 DEF Starts, Bridges
  <2>3. Status' = told[1].status
    BY <1>5, <1>6, <1>8, <2>2, SavingStatus, SameStatus DEF Status
  <2>4. told # <<>> /\ \A i \in DOMAIN told : told[i].generation = bridge.generation
    <3> QED BY <1>a, <1>6
  <2>5. Fits(bridge', files', disk')
    BY <1>2, <1>4, <1>8, <2>2 DEF Fits
  <2>6. told[Len(told)].status = Status'
    BY <1>6, <2>3
  <2>7. bridge'.invalidated = bridge.invalidated
    BY <1>4, <2>2, StateFacts DEF Bridges
  <2> QED BY <1>2, <1>6, <1>8, <2>2, <2>4, <2>5, <2>6, <2>7, StateFacts, HeardStep
<1>9. CASE /\ bridge' = Starts(b, "pause to save", "pausing")
           /\ events' = events \o told /\ UNCHANGED <<files, allows>>
  BY <1>8, <1>9, StateFacts
<1>10. CASE \E failed \in Outcomes :
             /\ bridge' = IF failed THEN bridge ELSE Starts(b, "save", "saving")
             /\ events' = events \o told \o
                  (IF failed THEN Told(bridge, files, TRUE) ELSE <<>>)
             /\ Counted(One(failed)) /\ UNCHANGED files
  <2>1. PICK failed \in Outcomes :
             /\ bridge' = IF failed THEN bridge ELSE Starts(b, "save", "saving")
             /\ events' = events \o told \o
                  (IF failed THEN Told(bridge, files, TRUE) ELSE <<>>)
             /\ Counted(One(failed)) /\ UNCHANGED files
    BY <1>10
  <2>2. failed \in BOOLEAN /\ allows' \in Allowing /\ allows'.saves = allows.saves
    BY <2>1, StateFacts, OutcomeCounted, CountedType
  <2>3. CASE ~failed
    <3>1. events' = events \o told
      <4>1. events' = (events \o told) \o <<>>
        BY <2>1, <2>3
      <4> QED BY ONLY <4>1, <1>7, ConcatEmptySeq
    <3> QED BY <2>1, <2>2, <2>3, <3>1, <1>8
  <2>4. CASE failed
    <3> DEFINE again == Told(bridge, files, TRUE)
    <3>1. /\ again \in Seq(Events) /\ Len(again) = 1 /\ again[1].generation = bridge.generation
          /\ again[1].status = Status
      BY <1>4, StateFacts, ToldOnce DEF Status
    <3>2. events' = events \o told \o again /\ bridge' = bridge /\ files' = files
      BY <2>1, <2>4
    <3>3. Status' = Status
      BY <3>2, <2>2, SameStatus DEF Status
    <3> HIDE DEF again
    <3>4. /\ told \o again \in Seq(Events) /\ Len(told \o again) = 2
          /\ (told \o again)[1].generation = bridge.generation
          /\ (told \o again)[2] = again[1]
      <4>1. /\ told \o again \in Seq(Events) /\ Len(told \o again) = Len(told) + Len(again)
            /\ \A i \in 1 .. Len(told) + Len(again) :
                  (told \o again)[i] = IF i <= Len(told) THEN told[i] ELSE again[i - Len(told)]
        BY ONLY <3>1, <1>6, ConcatProperties
      <4> QED BY <4>1, <3>1, <1>6
    <3>5. events' = events \o (told \o again)
      BY ONLY <3>1, <3>2, <1>6, <1>7, ConcatAssociative
    <3>6. /\ told \o again # <<>>
          /\ \A i \in DOMAIN (told \o again) :
                (told \o again)[i].generation = bridge.generation
      <4>1. ((told \o again) = <<>> <=> Len(told \o again) = 0) /\ DOMAIN (told \o again) = 1 .. 2
        BY <3>4, EmptySeq, LenProperties
      <4> QED BY <4>1, <3>1, <3>4
    <3> QED BY <1>2, <2>2, <3>1, <3>2, <3>3, <3>4, <3>5, <3>6, StateFacts, HeardStep
  <2> QED BY <2>2, <2>3, <2>4
<1> QED BY <1>3, <1>9, <1>10 DEF suspend, Refuses, b, told

\* restore moves the saved state aside: what is read is of this disk.
LEMMA RestoreStep == ASSUME IInv, restore PROVE IInv'
<1>1. CASE Refuses("restore")
  BY <1>1, Refused DEF restore
<1>2. CASE ~Refuses("restore")
  <2>1. PICK failed \in Outcomes :
           /\ IF failed
              THEN Becomes(bridge, files, TRUE)
              ELSE Becomes([Starts(bridge, "restore", "restoring")
                            EXCEPT !.restorationRequested = TRUE],
                           [saved |-> NoFile, restoring |-> files.saved], FALSE)
           /\ Counted(One(failed))
    BY <1>2 DEF restore
  <2>2. /\ Permitted(bridge, files, "restore") /\ UNCHANGED <<disk, retargets, ctl>>
        /\ commands # <<>> /\ commands' = Tail(commands)
    BY <1>2 DEF restore, Executes
  <2>3. failed \in BOOLEAN /\ allows' \in Allowing /\ allows'.saves = allows.saves
    BY <2>1, StateFacts, OutcomeCounted, CountedType
  <2>4. CASE failed
    BY <2>1, <2>2, <2>3, <2>4, StateFacts, BridgeStep
  <2>5. CASE ~failed
    <3> DEFINE b == [Starts(bridge, "restore", "restoring")
                     EXCEPT !.restorationRequested = TRUE]
               f == [saved |-> NoFile, restoring |-> files.saved]
    <3>1. /\ b \in Bridges /\ b.instance = bridge.instance
          /\ b.generation = bridge.generation /\ b.invalidated = bridge.invalidated
          /\ b.suspensionRequested = bridge.suspensionRequested
          /\ b.restorationRequested /\ b.flight = "restore" /\ b.state = "restoring"
      BY StateFacts DEF Starts, Bridges, States, Flights
    <3>2. f \in Copies /\ f.saved = NoFile /\ f.restoring = files.saved
      BY StateFacts DEF Copies, NoFile
    <3>3. ~bridge.suspensionRequested /\ files.saved = disk
      BY <2>2, StateFacts DEF Permitted, Fits
    <3>4. Becomes(b, f, FALSE)
      BY <2>1, <2>5
    <3> HIDE DEF b, f
    <3>5. Fits(b, f, disk)
      BY <3>1, <3>2, <3>3 DEF Fits
    <3> QED BY <3>1, <3>2, <3>4, <3>5, <2>2, <2>3, StateFacts, BridgeStep
  <2> QED BY <2>3, <2>4, <2>5
<1> QED BY <1>1, <1>2

\* discard.
LEMMA DiscardStep == ASSUME IInv, discard PROVE IInv'
<1>1. CASE Refuses("discard")
  BY <1>1, Refused DEF discard
<1>2. CASE ~Refuses("discard")
  <2>1. PICK failed \in Outcomes :
           /\ Becomes(bridge, IF failed THEN files
                              ELSE [files EXCEPT !.saved = NoFile], failed)
           /\ Counted(One(failed))
    BY <1>2 DEF discard
  <2>2. /\ Permitted(bridge, files, "discard") /\ UNCHANGED <<disk, retargets, ctl>>
        /\ commands # <<>> /\ commands' = Tail(commands)
    BY <1>2 DEF discard, Executes
  <2>3. failed \in BOOLEAN /\ allows' \in Allowing /\ allows'.saves = allows.saves
    BY <2>1, StateFacts, OutcomeCounted, CountedType
  <2> DEFINE f == IF failed THEN files ELSE [files EXCEPT !.saved = NoFile]
  <2>4. f \in Copies /\ f.restoring = files.restoring /\ f.saved \in {files.saved, NoFile}
    BY <2>3, StateFacts DEF Copies, NoFile
  <2>5. bridge.flight # "stop to suspend"
    BY <2>2, StateFacts DEF Permitted, Fits
  <2>6. Fits(bridge, f, disk)
    BY <2>4, <2>5, StateFacts DEF Fits
  <2> HIDE DEF f
  <2> QED BY <2>1, <2>2, <2>3, <2>4, <2>6, StateFacts, BridgeStep DEF f
<1> QED BY <1>1, <1>2

---------------------------------------------------------------------------
(* Completions                                                             *)

\* An operation that ends leaves a machine.
LEMMA EndsType ==
    ASSUME bridge \in Bridges, NEW ok \in States, NEW before \in States, NEW failed \in BOOLEAN
    PROVE  LET b == Ends(ok, before, failed)
           IN  /\ b \in Bridges /\ b.flight = "none"
               /\ b.instance = bridge.instance /\ b.generation = bridge.generation
               /\ b.invalidated = bridge.invalidated /\ b.notice = bridge.notice
               /\ b.suspensionRequested = bridge.suspensionRequested
               /\ b.restorationRequested = bridge.restorationRequested
               /\ b.state = IF ~failed THEN ok ELSE IF Overtaken THEN bridge.state ELSE before
<1>1. "none" \in Flights
  BY DEF Flights
<1>2. (IF ~failed THEN ok ELSE IF Overtaken THEN bridge.state ELSE before) \in States
  BY DEF Bridges
<1> QED BY <1>1, <1>2 DEF Ends, Bridges

\* An operation that ends leaves nothing in flight and all else as it was.
LEMMA Ended ==
    ASSUME IInv, NEW b \in Bridges, NEW f \in Copies, NEW failed \in BOOLEAN,
           Becomes(b, f, failed), UNCHANGED <<commands, retargets, ctl>>,
           b.flight = "none", ~b.suspensionRequested, ~b.restorationRequested,
           b.instance = bridge.instance, b.generation = bridge.generation,
           b.invalidated = bridge.invalidated,
           disk' \in Nat \ {NoFile}, allows' \in Allowing, allows'.saves = allows.saves,
           f.saved # NoFile => f.saved = disk' /\ b.state \in {"paused", "stopped", "error"}
    PROVE  IInv'
<1>1. Fits(b, f, disk')
  BY DEF Fits
<1> QED BY <1>1, BridgeStep

\* The failure of an operation the guest's stop has overtaken is not counted.
LEMMA ResultSpent ==
    ASSUME allows \in Allowing, NEW failed \in Results, Spent(failed)
    PROVE  failed \in BOOLEAN /\ allows' \in Allowing /\ allows'.saves = allows.saves
<1>1. failed \in BOOLEAN /\ (failed /\ ~Overtaken => allows.failures > 0)
  BY DEF Results, Outcomes
<1>2. Counted(IF failed /\ ~Overtaken THEN 1 ELSE 0)
  BY DEF Spent
<1>3. (IF failed /\ ~Overtaken THEN 1 ELSE 0) \in Nat
  OBVIOUS
<1>4. allows.failures \in Nat
  BY DEF Allowing
<1>5. (IF failed /\ ~Overtaken THEN 1 ELSE 0) <= allows.failures
  BY <1>1, <1>4
<1> QED BY <1>1, <1>2, <1>3, <1>5, CountedType

\* An operation that fails, and one after it that does.
LEMMA TwoCounted ==
    ASSUME allows \in Allowing, NEW failed \in Results, NEW refused \in Outcomes,
           One(failed /\ ~Overtaken) + One(refused) <= allows.failures,
           Counted(One(failed /\ ~Overtaken) + One(refused))
    PROVE  /\ failed \in BOOLEAN /\ refused \in BOOLEAN
           /\ allows' \in Allowing /\ allows'.saves = allows.saves
<1>1. failed \in BOOLEAN /\ refused \in BOOLEAN
  BY DEF Results, Outcomes
<1>2. One(failed /\ ~Overtaken) \in Nat /\ One(refused) \in Nat
  BY DEF One
<1>3. One(failed /\ ~Overtaken) + One(refused) \in Nat
  BY <1>2
<1> HIDE DEF One
<1> QED BY <1>1, <1>3, CountedType

\* The guest runs or does not: the disk is a disk.
LEMMA RunsType ==
    ASSUME disk \in Nat \ {NoFile}, NEW failed \in BOOLEAN, Runs(failed)
    PROVE  disk' \in Nat \ {NoFile}
<1>1. disk + 1 \in Nat \ {NoFile}
  BY DEF NoFile
<1> QED BY <1>1 DEF Runs

\* While an operation that may run the guest is in flight no state is kept.
LEMMA NothingKept ==
    ASSUME IInv, bridge.flight \notin {"none", "stop", "stop to suspend"}
    PROVE  files.saved = NoFile
BY StateFacts DEF Fits

\* Outside a suspension and a restore neither is requested.
LEMMA NotRequested ==
    ASSUME IInv, bridge.flight \in {"start", "pause", "resume", "resume to stop", "stop"}
    PROVE  ~bridge.suspensionRequested /\ ~bridge.restorationRequested
BY StateFacts DEF Fits

\* The guest has started, or has not: no saved state was there.
LEMMA StartDoneStep == ASSUME IInv, StartDone PROVE IInv'
<1>1. PICK failed \in Results :
         /\ Becomes(Ends("running", "stopped", failed), files, failed)
         /\ Runs(failed) /\ Spent(failed)
  BY DEF StartDone
<1>2. /\ failed \in BOOLEAN /\ allows' \in Allowing /\ allows'.saves = allows.saves
      /\ disk' \in Nat \ {NoFile}
  BY <1>1, StateFacts, ResultSpent, RunsType
<1>3. /\ "running" \in States /\ "stopped" \in States
      /\ bridge.flight = "start" /\ UNCHANGED <<commands, retargets, ctl>>
  BY DEF States, StartDone, Completes
<1> DEFINE b == Ends("running", "stopped", failed)
<1>4. /\ b \in Bridges /\ b.flight = "none" /\ b.instance = bridge.instance
      /\ b.generation = bridge.generation /\ b.invalidated = bridge.invalidated
      /\ b.suspensionRequested = bridge.suspensionRequested
      /\ b.restorationRequested = bridge.restorationRequested
  BY <1>2, <1>3, StateFacts, EndsType
<1> HIDE DEF b
<1> QED BY <1>1, <1>2, <1>3, <1>4, NothingKept, NotRequested, StateFacts, Ended DEF b

\* The guest is paused, or is not.
LEMMA PauseDoneStep == ASSUME IInv, PauseDone PROVE IInv'
<1>1. PICK failed \in Results :
         Becomes(Ends("paused", "running", failed), files, failed) /\ Spent(failed)
  BY DEF PauseDone
<1>2. /\ failed \in BOOLEAN /\ allows' \in Allowing /\ allows'.saves = allows.saves
  BY <1>1, StateFacts, ResultSpent
<1>3. /\ "running" \in States /\ "paused" \in States
      /\ bridge.flight = "pause" /\ UNCHANGED <<commands, retargets, ctl, disk>>
  BY DEF States, PauseDone, Completes
<1> DEFINE b == Ends("paused", "running", failed)
<1>4. /\ b \in Bridges /\ b.flight = "none" /\ b.instance = bridge.instance
      /\ b.generation = bridge.generation /\ b.invalidated = bridge.invalidated
      /\ b.suspensionRequested = bridge.suspensionRequested
      /\ b.restorationRequested = bridge.restorationRequested
  BY <1>2, <1>3, StateFacts, EndsType
<1> HIDE DEF b
<1> QED BY <1>1, <1>2, <1>3, <1>4, NothingKept, NotRequested, StateFacts, Ended DEF b

\* The guest runs on, or does not: no saved state was there.
LEMMA ResumeDoneStep == ASSUME IInv, ResumeDone PROVE IInv'
<1>1. PICK failed \in Results :
         /\ Becomes(Ends("running", "paused", failed), files, failed)
         /\ Runs(failed) /\ Spent(failed)
  BY DEF ResumeDone
<1>2. /\ failed \in BOOLEAN /\ allows' \in Allowing /\ allows'.saves = allows.saves
      /\ disk' \in Nat \ {NoFile}
  BY <1>1, StateFacts, ResultSpent, RunsType
<1>3. /\ "running" \in States /\ "paused" \in States
      /\ bridge.flight = "resume" /\ UNCHANGED <<commands, retargets, ctl>>
  BY DEF States, ResumeDone, Completes
<1> DEFINE b == Ends("running", "paused", failed)
<1>4. /\ b \in Bridges /\ b.flight = "none" /\ b.instance = bridge.instance
      /\ b.generation = bridge.generation /\ b.invalidated = bridge.invalidated
      /\ b.suspensionRequested = bridge.suspensionRequested
      /\ b.restorationRequested = bridge.restorationRequested
  BY <1>2, <1>3, StateFacts, EndsType
<1> HIDE DEF b
<1> QED BY <1>1, <1>2, <1>3, <1>4, NothingKept, NotRequested, StateFacts, Ended DEF b

\* A request to stop that the guest takes or refuses.
LEMMA RequestedType ==
    ASSUME NEW b \in Bridges, NEW failed \in BOOLEAN
    PROVE  LET r == Requested(b, failed)
           IN  /\ r \in Bridges /\ r.flight = b.flight /\ r.state = b.state
               /\ r.instance = b.instance /\ r.generation = b.generation
               /\ r.invalidated = b.invalidated
               /\ r.suspensionRequested = b.suspensionRequested
               /\ r.restorationRequested = b.restorationRequested
BY DEF Requested, Bridges

\* The guest runs on and is asked to stop.
LEMMA ResumeToStopDoneStep == ASSUME IInv, ResumeToStopDone PROVE IInv'
<1>1. PICK failed \in Results, refused \in Outcomes :
         /\ One(failed /\ ~Overtaken) + One(refused) <= allows.failures
         /\ LET b == Ends("running", "paused", failed)
            IN IF failed THEN ~refused /\ Becomes(b, files, TRUE)
               ELSE Becomes(Requested(b, refused), files, refused)
         /\ Runs(failed)
         /\ Counted(One(failed /\ ~Overtaken) + One(refused))
  BY DEF ResumeToStopDone
<1>2. /\ failed \in BOOLEAN /\ refused \in BOOLEAN
      /\ allows' \in Allowing /\ allows'.saves = allows.saves
  BY <1>1, StateFacts, TwoCounted
<1>3. /\ "running" \in States /\ "paused" \in States
      /\ bridge.flight = "resume to stop" /\ UNCHANGED <<commands, retargets, ctl>>
      /\ disk' \in Nat \ {NoFile}
  BY <1>1, <1>2, StateFacts, RunsType DEF States, ResumeToStopDone, Completes
<1>a. failed \in BOOLEAN
  BY <1>2
<1>b. bridge \in Bridges
  BY StateFacts
<1>c. "running" \in States /\ "paused" \in States
  BY DEF States
<1> DEFINE b == Ends("running", "paused", failed)
<1>4. /\ b \in Bridges /\ b.flight = "none" /\ b.instance = bridge.instance
      /\ b.generation = bridge.generation /\ b.invalidated = bridge.invalidated
      /\ b.suspensionRequested = bridge.suspensionRequested
      /\ b.restorationRequested = bridge.restorationRequested
  BY ONLY <1>a, <1>c, <1>b, EndsType
<1>5. IF failed THEN Becomes(b, files, TRUE) ELSE Becomes(Requested(b, refused), files, refused)
  BY <1>1
<1> HIDE DEF b
<1>6. CASE failed
  BY <1>2, <1>3, <1>4, <1>5, <1>6, NothingKept, NotRequested, StateFacts, Ended
<1>7. CASE ~failed
  <2> DEFINE r == Requested(b, refused)
  <2>1. /\ r \in Bridges /\ r.flight = "none" /\ r.instance = bridge.instance
        /\ r.generation = bridge.generation /\ r.invalidated = bridge.invalidated
        /\ r.suspensionRequested = bridge.suspensionRequested
        /\ r.restorationRequested = bridge.restorationRequested
    BY <1>2, <1>4, RequestedType
  <2>2. Becomes(r, files, refused)
    BY <1>5, <1>7
  <2> HIDE DEF r
  <2> QED BY <1>2, <1>3, <2>1, <2>2, NothingKept, NotRequested, StateFacts, Ended
<1> QED BY <1>2, <1>6, <1>7

\* The guest was stopped, or was not; a saved state may be there.
LEMMA StopDoneStep == ASSUME IInv, StopDone PROVE IInv'
<1>1. PICK failed \in Outcomes :
         Becomes(Ends("stopped", "paused", failed), files, failed) /\ Counted(One(failed))
  BY DEF StopDone
<1>2. /\ failed \in BOOLEAN /\ allows' \in Allowing /\ allows'.saves = allows.saves
  BY <1>1, StateFacts, OutcomeCounted, CountedType
<1>3. /\ "stopped" \in States /\ "paused" \in States
      /\ bridge.flight = "stop" /\ UNCHANGED <<commands, retargets, ctl, disk>>
  BY DEF States, StopDone, Completes
<1> DEFINE b == Ends("stopped", "paused", failed)
<1>4. /\ b \in Bridges /\ b.flight = "none" /\ b.instance = bridge.instance
      /\ b.generation = bridge.generation /\ b.invalidated = bridge.invalidated
      /\ b.suspensionRequested = bridge.suspensionRequested
      /\ b.restorationRequested = bridge.restorationRequested
      /\ b.state \in {"paused", "stopped", "error"}
  BY <1>2, <1>3, StateFacts, EndsType DEF Overtaken
<1>5. files.saved # NoFile => files.saved = disk'
  BY <1>3, StateFacts DEF Fits
<1> HIDE DEF b
<1> QED BY <1>1, <1>2, <1>3, <1>4, <1>5, NotRequested, StateFacts, Ended DEF b

\* The end of a suspension.
LEMMA Finished ==
    ASSUME NEW b \in Bridges
    PROVE  LET r == [b EXCEPT !.suspensionRequested = FALSE]
           IN  /\ r \in Bridges /\ r.flight = b.flight /\ r.state = b.state
               /\ r.instance = b.instance /\ r.generation = b.generation
               /\ r.invalidated = b.invalidated /\ ~r.suspensionRequested
               /\ r.restorationRequested = b.restorationRequested
BY DEF Bridges

\* A suspension that ends, as a whole.
LEMMA SuspensionEnds ==
    ASSUME IInv, bridge.suspensionRequested, NEW b \in Bridges, NEW f \in Copies,
           NEW failed \in BOOLEAN, FinishSuspension(b, f, failed),
           UNCHANGED <<commands, retargets, ctl, disk>>,
           b.flight = "none", b.instance = bridge.instance,
           b.generation = bridge.generation, b.invalidated = bridge.invalidated,
           b.restorationRequested = bridge.restorationRequested,
           allows' \in Allowing, allows'.saves = allows.saves,
           f.saved # NoFile => f.saved = disk /\ b.state \in {"paused", "stopped", "error"}
    PROVE  IInv'
<1> DEFINE r == [b EXCEPT !.suspensionRequested = FALSE]
<1>1. /\ r \in Bridges /\ r.flight = "none" /\ r.state = b.state
      /\ r.instance = bridge.instance /\ r.generation = bridge.generation
      /\ r.invalidated = bridge.invalidated /\ ~r.suspensionRequested
      /\ r.restorationRequested = bridge.restorationRequested
  BY Finished
<1>2. Becomes(r, f, failed)
  BY DEF FinishSuspension
<1>3. ~bridge.restorationRequested
  BY StateFacts DEF Fits
<1> HIDE DEF r
<1> QED BY <1>1, <1>2, <1>3, StateFacts, Ended

\* The guest is paused to be saved: the save begins, or the suspension ends.
LEMMA PauseToSaveDoneStep == ASSUME IInv, PauseToSaveDone PROVE IInv'
<1>1. PICK failed \in Results, refused \in Outcomes :
         /\ One(failed /\ ~Overtaken) + One(refused) <= allows.failures
         /\ LET b == Ends("paused", "running", failed)
            IN IF failed THEN ~refused /\ FinishSuspension(b, files, TRUE)
               ELSE SaveAndStop(b, refused)
         /\ Counted(One(failed /\ ~Overtaken) + One(refused))
  BY DEF PauseToSaveDone
<1>2. /\ failed \in BOOLEAN /\ refused \in BOOLEAN
      /\ allows' \in Allowing /\ allows'.saves = allows.saves
  BY <1>1, StateFacts, TwoCounted
<1>3. /\ "running" \in States /\ "paused" \in States
      /\ bridge.flight = "pause to save" /\ UNCHANGED <<commands, retargets, ctl, disk>>
  BY DEF States, PauseToSaveDone, Completes
<1>a. failed \in BOOLEAN
  BY <1>2
<1>b. bridge \in Bridges
  BY StateFacts
<1>c. "running" \in States /\ "paused" \in States
  BY DEF States
<1> DEFINE b == Ends("paused", "running", failed)
<1>4. /\ b \in Bridges /\ b.flight = "none" /\ b.instance = bridge.instance
      /\ b.generation = bridge.generation /\ b.invalidated = bridge.invalidated
      /\ b.suspensionRequested = bridge.suspensionRequested /\ b.notice = bridge.notice
      /\ b.restorationRequested = bridge.restorationRequested
  BY ONLY <1>a, <1>c, <1>b, EndsType
<1>5. IF failed THEN FinishSuspension(b, files, TRUE) ELSE SaveAndStop(b, refused)
  BY <1>1
<1>6. files.saved = NoFile /\ bridge.suspensionRequested /\ ~bridge.restorationRequested
  BY <1>3, NothingKept, StateFacts DEF Fits
<1> HIDE DEF b
<1>7. CASE failed
  BY <1>2, <1>3, <1>4, <1>5, <1>6, <1>7, StateFacts, SuspensionEnds
<1>8. CASE ~failed /\ refused
  <2> DEFINE n == [b EXCEPT !.flight = "none"]
  <2>1. /\ n \in Bridges /\ n.flight = "none" /\ n.instance = b.instance
        /\ n.generation = b.generation /\ n.invalidated = b.invalidated
        /\ n.restorationRequested = b.restorationRequested
    BY <1>4 DEF Bridges
  <2>2. FinishSuspension(n, files, TRUE)
    BY <1>5, <1>8 DEF SaveAndStop
  <2> HIDE DEF n
  <2> QED BY <1>2, <1>3, <1>4, <1>6, <2>1, <2>2, StateFacts, SuspensionEnds
<1>9. CASE ~failed /\ ~refused
  <2>1. bridge' = Starts(b, "save", "saving") /\ UNCHANGED <<files, events>>
    BY <1>5, <1>6, <1>9 DEF SaveAndStop
  <2>2. "save" \in Flights /\ "saving" \in States
    BY DEF Flights, States
  <2>3. /\ bridge' \in Bridges /\ bridge'.flight = "save" /\ bridge'.state = "saving"
        /\ bridge'.instance = bridge.instance /\ bridge'.generation = bridge.generation
        /\ bridge'.invalidated = bridge.invalidated /\ bridge'.notice = bridge.notice
        /\ bridge'.suspensionRequested = bridge.suspensionRequested
        /\ bridge'.restorationRequested = bridge.restorationRequested
    BY <1>4, <2>1, <2>2 DEF Starts, Bridges
  <2>4. FlightFits'
    BY <1>3, <1>6, <2>1, <2>3 DEF FlightFits, Fits
  <2>5. bridge.suspensionRequested = TRUE /\ bridge'.suspensionRequested = TRUE
    BY <1>6, <1>b, <2>3 DEF Bridges
  <2>6. Status' = Status
    BY <1>2, <2>5, SuspendingStatus
  <2> QED BY <1>2, <1>3, <2>1, <2>3, <2>4, <2>6, StateFacts, SilentStep
<1> QED BY <1>2, <1>7, <1>8, <1>9

\* The file is published over the disk it was saved with, or is not kept.
LEMMA SaveDoneStep == ASSUME IInv, SaveDone PROVE IInv'
<1>1. /\ "paused" \in States /\ TRUE \in BOOLEAN
      /\ bridge.flight = "save" /\ UNCHANGED <<commands, retargets, ctl, disk>>
  BY DEF States, SaveDone, Completes
<1>2. files.saved = NoFile /\ bridge.suspensionRequested /\ ~bridge.restorationRequested
  BY <1>1, NothingKept, StateFacts DEF Fits
<1>3. bridge \in Bridges
  BY StateFacts
<1> DEFINE b == Ends("paused", "paused", TRUE)
<1>4. /\ b \in Bridges /\ b.flight = "none" /\ b.instance = bridge.instance
      /\ b.generation = bridge.generation /\ b.invalidated = bridge.invalidated
      /\ b.restorationRequested = bridge.restorationRequested
      /\ b.state = IF Overtaken THEN bridge.state ELSE "paused"
  BY ONLY <1>1, <1>3, EndsType
<1> HIDE DEF b
<1>5. CASE \E failed \in Results :
              failed /\ FinishSuspension(b, files, TRUE) /\ Spent(TRUE)
  <2>1. allows' \in Allowing /\ allows'.saves = allows.saves /\ FinishSuspension(b, files, TRUE)
    BY <1>5, StateFacts, ResultSpent DEF Results, Outcomes
  <2> QED BY <1>1, <1>2, <1>4, <2>1, StateFacts, SuspensionEnds
<1>6. CASE /\ ~Overtaken
           /\ bridge' = Starts(bridge, "stop to suspend", "stopping")
           /\ files' = [files EXCEPT !.saved = disk]
           /\ UNCHANGED <<events, allows>>
  <2>1. "stop to suspend" \in Flights /\ "stopping" \in States
    BY DEF Flights, States
  <2>2. /\ bridge' \in Bridges /\ bridge'.flight = "stop to suspend" /\ bridge'.state = "stopping"
        /\ bridge'.instance = bridge.instance /\ bridge'.generation = bridge.generation
        /\ bridge'.invalidated = bridge.invalidated /\ bridge'.notice = bridge.notice
        /\ bridge'.suspensionRequested = bridge.suspensionRequested
        /\ bridge'.restorationRequested = bridge.restorationRequested
    BY <1>3, <1>6, <2>1 DEF Starts, Bridges
  <2>3. files' \in Copies /\ files'.saved = disk
    BY <1>6, StateFacts DEF Copies
  <2>4. FlightFits'
    BY <1>1, <1>2, <2>2, <2>3, StateFacts DEF FlightFits, Fits
  <2>5. bridge.suspensionRequested = TRUE /\ bridge'.suspensionRequested = TRUE
    BY <1>2, <1>3, <2>2 DEF Bridges
  <2>6. Status' = Status
    BY <1>6, <2>5, SuspendingStatus
  <2> QED BY <1>1, <1>6, <2>2, <2>3, <2>4, <2>6, StateFacts, SilentStep
<1>7. ASSUME Overtaken, NEW kept \in Outcomes, Counted(One(kept)),
             FinishSuspension(b, [files EXCEPT !.saved = IF kept THEN disk ELSE NoFile], TRUE)
      PROVE  IInv'
  <2>1. kept \in BOOLEAN /\ allows' \in Allowing /\ allows'.saves = allows.saves
    BY <1>7, StateFacts, OutcomeCounted, CountedType
  <2> DEFINE f == [files EXCEPT !.saved = IF kept THEN disk ELSE NoFile]
  <2>2. f \in Copies /\ f.saved \in {disk, NoFile}
    BY <2>1, StateFacts DEF Copies, NoFile
  <2>3. b.state \in {"stopped", "error"}
    BY <1>4, <1>7 DEF Overtaken
  <2>4. FinishSuspension(b, f, TRUE)
    BY <1>7
  <2> HIDE DEF f
  <2> QED BY <1>1, <1>2, <1>4, <2>1, <2>2, <2>3, <2>4, StateFacts, SuspensionEnds
<1> QED BY <1>5, <1>6, <1>7 DEF SaveDone, b

\* A stopped machine is replaced by a fresh one, and views are told of it.
LEMMA ReplacedStep ==
    ASSUME IInv, NEW b \in Bridges, Becomes(b, files, FALSE), UNCHANGED <<commands, ctl, disk>>,
           retargets' = Append(retargets, bridge.instance),
           b.instance = bridge.instance + 1, b.generation = bridge.generation,
           b.invalidated = bridge.invalidated,
           allows' \in Allowing, allows'.saves = allows.saves, Fits(b, files, disk),
           bridge.flight # "none"
    PROVE  IInv'
<1>1. bridge' = b /\ files' = files /\ events' = events \o Told(b, files, FALSE)
  BY DEF Becomes
<1>2. EventsFit' /\ StatusFits' /\ events' \in Seq(Events)
  BY <1>1, StateFacts, ToldEvents
<1>3. /\ retargets \in Seq(Nat) /\ bridge.instance \in Nat /\ ctl.view \in Nat
      /\ ctl.attaching \in Nat
  BY StateFacts DEF IInv, TypeOK, Bridges, Controllers
<1>4. /\ retargets' \in Seq(Nat) /\ Len(retargets) \in Nat
      /\ DOMAIN retargets = 1 .. Len(retargets)
      /\ DOMAIN retargets' = 1 .. Len(retargets) + 1
      /\ \A i \in 1 .. Len(retargets) : retargets'[i] = retargets[i] /\ retargets[i] \in Nat
      /\ retargets'[Len(retargets) + 1] = bridge.instance
  BY <1>3, AppendProperties, LenProperties, ElementOfSeq
<1>5. ViewsFit'
  <2>1. /\ \A i \in DOMAIN retargets' : retargets'[i] # NoView /\ retargets'[i] < bridge'.instance
        /\ bridge'.instance # NoView
    BY <1>1, <1>3, <1>4 DEF IInv, ViewsFit, NoView
  <2>2. \A i, j \in DOMAIN retargets' : i < j => retargets'[i] < retargets'[j]
    BY <1>3, <1>4 DEF IInv, ViewsFit
  <2>3. ASSUME NEW v \in Nat, Leads(v) PROVE Leads(v)'
    <3> SUFFICES ASSUME v # NoView
                 PROVE  /\ v <= bridge.instance + 1
                        /\ \A k \in Nat : v <= k /\ k < bridge.instance + 1 =>
                              \E i \in DOMAIN retargets' : retargets'[i] = k
      BY <1>1 DEF Leads
    <3>1. v <= bridge.instance
      BY <2>3 DEF Leads
    <3>2. ASSUME NEW k \in Nat, v <= k, k < bridge.instance + 1
          PROVE  \E i \in DOMAIN retargets' : retargets'[i] = k
      <4>1. CASE k = bridge.instance
        BY <1>4, <4>1
      <4>2. CASE k < bridge.instance
        <5>1. PICK i \in DOMAIN retargets : retargets[i] = k
          BY <2>3, <3>2, <4>2 DEF Leads
        <5> QED BY <5>1, <1>4
      <4> QED BY <1>3, <3>2, <4>1, <4>2
    <3> QED BY <1>3, <3>1, <3>2
  <2>4. Leads(ctl.view)' /\ Leads(ctl.attaching)'
    BY <1>3, <2>3 DEF IInv, ViewsFit
  <2> QED BY <2>1, <2>2, <2>4 DEF ViewsFit
<1>6. TypeOK'
  BY <1>1, <1>2, <1>4 DEF IInv, TypeOK, Fits, Copies, Allowing
<1>7. OpenFits' /\ FlightFits'
  BY <1>1 DEF IInv, OpenFits, FlightFits
<1> QED BY <1>2, <1>5, <1>6, <1>7 DEF IInv

\* The suspended guest is stopped and its machine replaced, or its file is
\* discarded.
LEMMA StopToSuspendDoneStep == ASSUME IInv, StopToSuspendDone PROVE IInv'
<1>1. /\ "paused" \in States /\ "stopped" \in States /\ UNCHANGED <<commands, ctl, disk>>
      /\ bridge.flight = "stop to suspend" /\ TRUE \in BOOLEAN /\ FALSE \in BOOLEAN
  BY DEF States, StopToSuspendDone
<1>2. /\ files.saved = disk /\ bridge.suspensionRequested /\ ~bridge.restorationRequested
      /\ bridge.state = "stopping" /\ ~Overtaken
  BY <1>1, StateFacts DEF Fits, Overtaken
<1>3. bridge \in Bridges
  BY StateFacts
<1>4. ASSUME NEW kept \in Outcomes, 1 + One(kept) <= allows.failures,
             FinishSuspension(Ends("stopped", "paused", TRUE),
                 IF kept THEN files ELSE [files EXCEPT !.saved = NoFile], TRUE),
             Counted(1 + One(kept)), UNCHANGED retargets
      PROVE  IInv'
  <2> DEFINE b == Ends("stopped", "paused", TRUE)
             f == IF kept THEN files ELSE [files EXCEPT !.saved = NoFile]
  <2>1. /\ b \in Bridges /\ b.flight = "none" /\ b.instance = bridge.instance
        /\ b.generation = bridge.generation /\ b.invalidated = bridge.invalidated
        /\ b.restorationRequested = bridge.restorationRequested
        /\ b.state = IF Overtaken THEN bridge.state ELSE "paused"
    BY ONLY <1>1, <1>3, EndsType
  <2>2. kept \in BOOLEAN /\ One(kept) \in Nat
    BY <1>4, StateFacts, OutcomeCounted
  <2>3. allows' \in Allowing /\ allows'.saves = allows.saves
    <3>1. 1 + One(kept) \in Nat
      BY <2>2
    <3> QED BY <1>4, <3>1, StateFacts, CountedType
  <2>4. f \in Copies /\ f.saved \in {disk, NoFile}
    BY <1>2, <2>2, StateFacts DEF Copies, NoFile
  <2>5. FinishSuspension(b, f, TRUE)
    BY <1>4
  <2> HIDE DEF b, f
  <2> QED BY <1>1, <1>2, <1>4, <2>1, <2>3, <2>4, <2>5, StateFacts, SuspensionEnds
<1>5. ASSUME NEW failed \in Outcomes,
             LET b == Ends("stopped", "stopped", FALSE)
             IN FinishSuspension(IF failed THEN b
                                 ELSE [b EXCEPT !.instance = @ + 1, !.notice = "none"],
                                 files, failed),
             retargets' = IF failed THEN retargets ELSE Append(retargets, bridge.instance),
             Counted(One(failed))
      PROVE  IInv'
  <2> DEFINE ended == Ends("stopped", "stopped", FALSE)
  <2>1. /\ ended \in Bridges /\ ended.flight = "none" /\ ended.instance = bridge.instance
        /\ ended.generation = bridge.generation /\ ended.invalidated = bridge.invalidated
        /\ ended.restorationRequested = bridge.restorationRequested
        /\ ended.state = "stopped"
    BY ONLY <1>1, <1>3, EndsType
  <2>2. failed \in BOOLEAN /\ allows' \in Allowing /\ allows'.saves = allows.saves
    BY <1>5, StateFacts, OutcomeCounted, CountedType
  <2>3. FinishSuspension(IF failed THEN ended
                         ELSE [ended EXCEPT !.instance = @ + 1, !.notice = "none"],
                         files, failed)
    BY <1>5
  <2> HIDE DEF ended
  <2>4. CASE failed
    <3>1. FinishSuspension(ended, files, TRUE) /\ UNCHANGED retargets
      BY <2>3, <2>4, <1>5
    <3> QED BY <1>1, <1>2, <2>1, <2>2, <3>1, StateFacts, SuspensionEnds
  <2>5. CASE ~failed
    <3> DEFINE fresh == [ended EXCEPT !.instance = @ + 1, !.notice = "none"]
               r == [fresh EXCEPT !.suspensionRequested = FALSE]
    <3>1. /\ r \in Bridges /\ r.flight = "none" /\ r.state = "stopped"
          /\ r.instance = bridge.instance + 1 /\ r.generation = bridge.generation
          /\ r.invalidated = bridge.invalidated /\ ~r.suspensionRequested
          /\ ~r.restorationRequested
      <4>1. bridge.instance + 1 \in Nat
        BY <1>3 DEF Bridges
      <4> QED BY <1>2, <2>1, <4>1 DEF Bridges
    <3>2. Becomes(r, files, FALSE)
      <4>1. FinishSuspension(fresh, files, FALSE)
        BY <2>2, <2>3, <2>5
      <4> QED BY <4>1 DEF FinishSuspension
    <3>3. retargets' = Append(retargets, bridge.instance)
      BY <1>5, <2>5
    <3> HIDE DEF r
    <3>4. Fits(r, files, disk)
      BY <3>1, <1>2 DEF Fits
    <3> QED BY <1>1, <2>2, <3>1, <3>2, <3>3, <3>4, StateFacts, ReplacedStep
  <2> QED BY <2>2, <2>4, <2>5
<1> QED BY <1>4, <1>5 DEF StopToSuspendDone

\* The saved state was read, or was not: it is used up.
LEMMA RestoreDoneStep == ASSUME IInv, RestoreDone PROVE IInv'
<1>1. PICK failed \in Results, kept \in Outcomes :
         /\ One(failed /\ ~Overtaken) + One(kept) <= allows.failures
         /\ LET f == IF kept THEN files ELSE [files EXCEPT !.restoring = NoFile]
                b == Ends("paused", "stopped", failed)
            IN IF failed
               THEN Becomes([b EXCEPT !.restorationRequested = FALSE], f, TRUE)
               ELSE /\ bridge' = Starts(b, "resume restored", "resuming")
                    /\ files' = f
                    /\ UNCHANGED events
         /\ Counted(One(failed /\ ~Overtaken) + One(kept))
  BY DEF RestoreDone
<1>2. /\ failed \in BOOLEAN /\ kept \in BOOLEAN
      /\ allows' \in Allowing /\ allows'.saves = allows.saves
  BY <1>1, StateFacts, TwoCounted
<1>3. /\ bridge.flight = "restore" /\ UNCHANGED <<commands, retargets, ctl, disk>>
  BY DEF RestoreDone, Completes
<1>a. failed \in BOOLEAN
  BY <1>2
<1>b. bridge \in Bridges
  BY StateFacts
<1>c. "paused" \in States /\ "stopped" \in States
  BY DEF States
<1>4. files.saved = NoFile /\ bridge.restorationRequested /\ ~bridge.suspensionRequested
  BY <1>3, NothingKept, StateFacts DEF Fits
<1> DEFINE ended == Ends("paused", "stopped", failed)
           left == IF kept THEN files ELSE [files EXCEPT !.restoring = NoFile]
<1>5. /\ ended \in Bridges /\ ended.flight = "none" /\ ended.instance = bridge.instance
      /\ ended.generation = bridge.generation /\ ended.invalidated = bridge.invalidated
      /\ ended.suspensionRequested = bridge.suspensionRequested
      /\ ended.notice = bridge.notice
      /\ ended.restorationRequested = bridge.restorationRequested
  BY ONLY <1>a, <1>b, <1>c, EndsType
<1>6. left \in Copies /\ left.saved = NoFile
  BY <1>2, <1>4, StateFacts DEF Copies, NoFile
<1>7. IF failed
      THEN Becomes([ended EXCEPT !.restorationRequested = FALSE], left, TRUE)
      ELSE /\ bridge' = Starts(ended, "resume restored", "resuming")
           /\ files' = left
           /\ UNCHANGED events
  BY <1>1
<1> HIDE DEF ended, left
<1>8. CASE failed
  <2> DEFINE r == [ended EXCEPT !.restorationRequested = FALSE]
  <2>1. /\ r \in Bridges /\ r.flight = "none" /\ r.instance = bridge.instance
        /\ r.generation = bridge.generation /\ r.invalidated = bridge.invalidated
        /\ r.suspensionRequested = bridge.suspensionRequested /\ ~r.restorationRequested
    BY <1>5 DEF Bridges
  <2>2. Becomes(r, left, TRUE)
    BY <1>7, <1>8
  <2> HIDE DEF r
  <2> QED BY <1>2, <1>3, <1>4, <1>6, <2>1, <2>2, StateFacts, Ended
<1>9. CASE ~failed
  <2>1. /\ bridge' = Starts(ended, "resume restored", "resuming") /\ files' = left
        /\ UNCHANGED events
    BY <1>7, <1>9
  <2>2. "resume restored" \in Flights /\ "resuming" \in States
    BY DEF Flights, States
  <2>3. /\ bridge' \in Bridges /\ bridge'.flight = "resume restored" /\ bridge'.state = "resuming"
        /\ bridge'.instance = bridge.instance /\ bridge'.generation = bridge.generation
        /\ bridge'.invalidated = bridge.invalidated /\ bridge'.notice = bridge.notice
        /\ bridge'.suspensionRequested = bridge.suspensionRequested
        /\ bridge'.restorationRequested = bridge.restorationRequested
    BY <1>5, <2>1, <2>2 DEF Starts, Bridges
  <2>4. FlightFits'
    BY <1>3, <1>4, <1>6, <2>1, <2>3 DEF FlightFits, Fits
  <2>5. /\ bridge.restorationRequested = TRUE /\ bridge'.restorationRequested = TRUE
        /\ bridge.suspensionRequested = FALSE /\ bridge'.suspensionRequested = FALSE
    BY <1>4, <1>b, <2>3 DEF Bridges
  <2>6. Status' = Status
    BY <1>2, <2>5, SuspendingStatus
  <2> QED BY <1>2, <1>3, <1>6, <2>1, <2>3, <2>4, <2>6, StateFacts, SilentStep
<1> QED BY <1>2, <1>8, <1>9

\* The restored guest runs on, or does not.
LEMMA ResumeRestoredDoneStep == ASSUME IInv, ResumeRestoredDone PROVE IInv'
<1>1. PICK failed \in Results :
         /\ Becomes([Ends("running", "paused", failed)
                     EXCEPT !.restorationRequested = FALSE], files,
                    failed \/ files.restoring # NoFile)
         /\ Runs(failed) /\ Spent(failed)
  BY DEF ResumeRestoredDone
<1>2. /\ failed \in BOOLEAN /\ allows' \in Allowing /\ allows'.saves = allows.saves
      /\ disk' \in Nat \ {NoFile}
  BY <1>1, StateFacts, ResultSpent, RunsType
<1>a. failed \in BOOLEAN
  BY <1>2
<1>b. bridge \in Bridges
  BY StateFacts
<1>c. "running" \in States /\ "paused" \in States
  BY DEF States
<1>3. /\ bridge.flight = "resume restored" /\ UNCHANGED <<commands, retargets, ctl>>
  BY DEF ResumeRestoredDone, Completes
<1> DEFINE ended == Ends("running", "paused", failed)
<1>4. /\ ended \in Bridges /\ ended.flight = "none" /\ ended.instance = bridge.instance
      /\ ended.generation = bridge.generation /\ ended.invalidated = bridge.invalidated
      /\ ended.suspensionRequested = bridge.suspensionRequested
  BY ONLY <1>a, <1>b, <1>c, EndsType
<1> HIDE DEF ended
<1>5. files.saved = NoFile /\ ~bridge.suspensionRequested
  BY <1>3, NothingKept, StateFacts DEF Fits
<1> DEFINE r == [ended EXCEPT !.restorationRequested = FALSE]
           wrong == failed \/ files.restoring # NoFile
<1>6. /\ r \in Bridges /\ r.flight = "none" /\ r.instance = bridge.instance
      /\ r.generation = bridge.generation /\ r.invalidated = bridge.invalidated
      /\ ~r.suspensionRequested /\ ~r.restorationRequested
  BY <1>4, <1>5 DEF Bridges
<1>7. wrong \in BOOLEAN /\ Becomes(r, files, wrong)
  BY <1>1 DEF ended
<1> HIDE DEF r, wrong
<1> QED BY <1>2, <1>3, <1>5, <1>6, <1>7, StateFacts, Ended

---------------------------------------------------------------------------
(* The guest, the controller and the views                                 *)

\* The guest stops: the notice of it is still to come.
LEMMA GuestStopsStep ==
    ASSUME IInv, NEW how \in {"stopped", "error"}, GuestStops(how) PROVE IInv'
<1>1. /\ bridge' = [bridge EXCEPT !.state = how, !.notice = how]
      /\ allows.stops > 0 /\ allows' = [allows EXCEPT !.stops = @ - 1]
      /\ UNCHANGED <<commands, files, disk, events, retargets, ctl>>
      /\ bridge.state \in {"running", "pausing", "paused", "saving", "resuming"}
  BY DEF GuestStops
<1>2. "stopped" \in States /\ "error" \in States
  BY DEF States
<1>3. /\ bridge' \in Bridges /\ bridge'.state = how /\ bridge'.notice = how
      /\ bridge'.flight = bridge.flight /\ bridge'.instance = bridge.instance
      /\ bridge'.generation = bridge.generation /\ bridge'.invalidated = bridge.invalidated
      /\ bridge'.suspensionRequested = bridge.suspensionRequested
      /\ bridge'.restorationRequested = bridge.restorationRequested
  BY <1>1, <1>2, StateFacts DEF Bridges
<1>4. allows' \in Allowing /\ allows'.saves = allows.saves
  <2>1. allows.stops \in Nat /\ allows.stops - 1 \in Nat
    BY <1>1, StateFacts DEF Allowing
  <2> QED BY <1>1, <2>1, StateFacts DEF Allowing
<1>5. FlightFits'
  BY <1>1, <1>3, StateFacts DEF FlightFits, Fits
<1> QED BY <1>1, <1>3, <1>4, <1>5, StateFacts, SilentStep

\* The notice of the guest's stop, and the status after it.
LEMMA GuestDidStopStep == ASSUME IInv, guestDidStop PROVE IInv'
<1> DEFINE b == [bridge EXCEPT !.notice = "none", !.stopRequested = FALSE]
           wrong == bridge.notice = "error"
<1>1. /\ Becomes(b, files, wrong) /\ wrong \in BOOLEAN
      /\ UNCHANGED <<commands, disk, retargets, ctl, allows>>
  BY DEF guestDidStop
<1>2. /\ b \in Bridges /\ b.state = bridge.state
      /\ b.flight = bridge.flight /\ b.instance = bridge.instance
      /\ b.generation = bridge.generation /\ b.invalidated = bridge.invalidated
      /\ b.suspensionRequested = bridge.suspensionRequested
      /\ b.restorationRequested = bridge.restorationRequested
  BY StateFacts DEF Bridges
<1> HIDE DEF b, wrong
<1>3. Fits(b, files, disk)
  BY <1>2, StateFacts DEF Fits
<1> QED BY <1>1, <1>2, <1>3, StateFacts, BridgeStep

\* What an invariant state gives to the steps of the controller.
LEMMA ControllerFacts ==
    ASSUME IInv
    PROVE  /\ ctl \in Controllers /\ ctl.generation \in Nat /\ ctl.view \in Nat
           /\ ctl.attaching \in Nat /\ ctl.can \subseteq Commands /\ ctl.state \in Shown
           /\ commands \in Seq(Commands) /\ events \in Seq(Events)
           /\ retargets \in Seq(Nat) /\ bridge.generation \in Nat /\ bridge.instance \in Nat
BY DEF IInv, TypeOK, Controllers, Bridges

\* A step of the controller that shows what was shown, and a machine that stays.
LEMMA ControllerStep ==
    ASSUME IInv, ctl' \in Controllers, UNCHANGED <<bridge, files, disk, events, retargets>>,
           commands' \in Seq(Commands), allows' \in Allowing, allows'.saves = allows.saves,
           ctl'.state = ctl.state, ctl'.can = ctl.can,
           ctl'.generation >= ctl.generation,
           ctl'.open => ctl.open, OpenFits', Leads(ctl.view)', Leads(ctl.attaching)',
           ctl'.open /\ ~ctl'.closing =>
              /\ ctl.open /\ ~ctl.closing /\ ctl'.generation = ctl.generation
              /\ ctl'.pending => (ctl.pending /\ commands' = commands) \/ commands' # <<>>
    PROVE  IInv'
<1>1. TypeOK' /\ FlightFits'
  BY DEF IInv, TypeOK, FlightFits, Fits, Allowing
<1>2. EventsFit'
  BY ControllerFacts DEF IInv, EventsFit, Controllers
<1>3. StatusFits'
  <2>1. Status' = Status
    BY SameStatus DEF Status
  <2> QED BY <2>1 DEF IInv, StatusFits, Latest, IsTold, Last
<1>4. ViewsFit'
  BY DEF IInv, ViewsFit
<1> QED BY <1>1, <1>2, <1>3, <1>4 DEF IInv

\* A command is queued behind those before it.
LEMMA CommandStep == ASSUME IInv, NEW c, Command(c) PROVE IInv'
<1>1. /\ ~Blocked /\ ctl.open /\ ~ctl.pending /\ c \in ctl.can /\ allows.commands > 0
      /\ ctl' = [ctl EXCEPT !.pending = TRUE] /\ commands' = Append(commands, c)
      /\ allows' = [allows EXCEPT !.commands = @ - 1]
      /\ UNCHANGED <<bridge, files, disk, events, retargets>>
  BY DEF Command, Ask
<1>2. commands' \in Seq(Commands) /\ commands' # <<>>
  BY <1>1, ControllerFacts, AppendProperties
<1>3. allows' \in Allowing /\ allows'.saves = allows.saves
  <2>1. allows.commands \in Nat /\ allows.commands - 1 \in Nat
    BY <1>1, StateFacts DEF Allowing
  <2> QED BY <1>1, <2>1, StateFacts DEF Allowing
<1>4. /\ ctl' \in Controllers /\ ctl'.state = ctl.state /\ ctl'.can = ctl.can
      /\ ctl'.generation = ctl.generation /\ ctl'.open = ctl.open
      /\ ctl'.closing = ctl.closing /\ ctl'.view = ctl.view /\ ctl'.attaching = ctl.attaching
  BY <1>1, ControllerFacts DEF Controllers
<1>5. OpenFits'
  BY <1>1, <1>4 DEF IInv, OpenFits
<1>6. Leads(ctl.view)' /\ Leads(ctl.attaching)'
  BY <1>1, <1>4 DEF IInv, ViewsFit, Leads
<1> QED BY <1>1, <1>2, <1>3, <1>4, <1>5, <1>6, ControllerFacts, ControllerStep

\* Events of the generation before no longer count.
LEMMA CloseBundleStep == ASSUME IInv, CloseBundle PROVE IInv'
<1>1. /\ ~Blocked /\ ctl.open
      /\ ctl' = [ctl EXCEPT !.closing = TRUE, !.bundle = FALSE, !.view = NoView,
                            !.generation = @ + 1]
      /\ UNCHANGED <<bridge, commands, files, disk, events, retargets, allows>>
  BY DEF CloseBundle
<1>2. ctl.generation + 1 \in Nat /\ NoView \in Nat
  BY ControllerFacts DEF NoView
<1>3. /\ ctl' \in Controllers /\ ctl'.state = ctl.state /\ ctl'.can = ctl.can
      /\ ctl'.generation = ctl.generation + 1 /\ ctl'.open = ctl.open
      /\ ctl'.closing /\ ctl'.view = NoView /\ ctl'.attaching = ctl.attaching
  BY <1>1, <1>2, ControllerFacts DEF Controllers
<1>4. ctl.attaching = NoView
  BY <1>1 DEF Blocked
<1>5. OpenFits'
  BY <1>1, <1>3, <1>4 DEF IInv, OpenFits
<1>6. Leads(ctl.view)' /\ Leads(ctl.attaching)'
  BY <1>3, <1>4 DEF Leads
<1> QED BY <1>1, <1>2, <1>3, <1>5, <1>6, StateFacts, ControllerFacts, ControllerStep

\* A realm that cannot be opened only uses up a generation.
LEMMA OpenFailsStep == ASSUME IInv, OpenFails PROVE IInv'
<1>1. /\ ~ctl.open /\ TRUE \in Outcomes /\ Counted(1)
      /\ ctl' = [ctl EXCEPT !.generation = @ + 1, !.bundle = TRUE]
      /\ UNCHANGED <<bridge, commands, files, disk, events, retargets>>
  BY DEF OpenFails, CanOpen
<1>2. ctl.generation + 1 \in Nat
  BY ControllerFacts
<1>3. /\ ctl' \in Controllers /\ ctl'.state = ctl.state /\ ctl'.can = ctl.can
      /\ ctl'.generation = ctl.generation + 1 /\ ctl'.open = ctl.open
      /\ ctl'.closing = ctl.closing /\ ctl'.view = ctl.view /\ ctl'.attaching = ctl.attaching
  BY <1>1, <1>2, ControllerFacts DEF Controllers
<1>4. allows' \in Allowing /\ allows'.saves = allows.saves
  <2>1. allows.failures \in Nat /\ allows.failures > 0
    BY <1>1, StateFacts DEF Outcomes, Allowing
  <2> QED BY <1>1, <2>1, StateFacts, CountedType
<1>5. OpenFits'
  BY <1>1, <1>3 DEF IInv, OpenFits
<1>6. Leads(ctl.view)' /\ Leads(ctl.attaching)'
  BY <1>1, <1>3 DEF IInv, ViewsFit, Leads
<1> QED BY <1>1, <1>2, <1>3, <1>4, <1>5, <1>6, ControllerFacts, ControllerStep

\* A view is made of the machine that is in use when the bridge is asked.
LEMMA AttachStep ==
    ASSUME IInv, attachDisplay \/ makeDisplayView \/ detachDisplay
    PROVE  IInv'
<1>1. UNCHANGED <<bridge, commands, files, disk, events, retargets, allows>>
  BY DEF attachDisplay, makeDisplayView, detachDisplay
<1>2. NoView \in Nat /\ (~ctl.open \/ ctl.closing => ctl.view = NoView /\ ctl.attaching = NoView)
  BY DEF NoView, IInv, OpenFits
<1>3. /\ ctl' \in Controllers /\ ctl'.state = ctl.state /\ ctl'.can = ctl.can
      /\ ctl'.generation = ctl.generation /\ ctl'.open = ctl.open
      /\ ctl'.closing = ctl.closing /\ ctl'.pending = ctl.pending
      /\ ctl'.view \in {ctl.view, ctl.attaching, NoView}
      /\ ctl'.attaching \in {ctl.attaching, bridge.instance, NoView}
      /\ ctl'.attaching # ctl.attaching \/ ctl'.view # ctl.view => ctl.open /\ ~ctl.closing
  <2>1. CASE attachDisplay
    BY <2>1, ControllerFacts DEF attachDisplay, Blocked, Controllers
  <2>2. CASE makeDisplayView
    BY <2>2, <1>2, ControllerFacts DEF makeDisplayView, Controllers
  <2>3. CASE detachDisplay
    BY <2>3, <1>2, ControllerFacts DEF detachDisplay, Controllers
  <2> QED BY <2>1, <2>2, <2>3
<1>4. OpenFits'
  BY <1>1, <1>3 DEF IInv, OpenFits
<1>5. Leads(bridge.instance) /\ Leads(NoView)
  BY ControllerFacts DEF Leads
<1>6. Leads(ctl.view)' /\ Leads(ctl.attaching)'
  BY <1>1, <1>3, <1>5 DEF IInv, ViewsFit, Leads
<1> QED BY <1>1, <1>3, <1>4, <1>6, StateFacts, ControllerFacts, ControllerStep

\* The realm is closed behind the commands queued before.
LEMMA InvalidateStep == ASSUME IInv, invalidate PROVE IInv'
<1>1. /\ ctl.closing /\ commands = <<>>
      /\ bridge' = [bridge EXCEPT !.invalidated = TRUE, !.notice = "none"]
      /\ ctl' = [ctl EXCEPT !.closing = FALSE, !.open = FALSE, !.can = {},
                            !.state = "closed", !.pending = FALSE]
      /\ UNCHANGED <<commands, files, disk, events, retargets, allows>>
  BY DEF invalidate
<1>2. "closed" \in Shown /\ {} \subseteq Commands
  BY DEF Shown
<1>3. /\ ctl' \in Controllers /\ ~ctl'.open /\ ~ctl'.closing /\ ctl'.generation = ctl.generation
      /\ ctl'.view = ctl.view /\ ctl'.attaching = ctl.attaching
  BY <1>1, <1>2, ControllerFacts DEF Controllers
<1>4. /\ bridge' \in Bridges /\ bridge'.state = bridge.state
      /\ bridge'.flight = bridge.flight /\ bridge'.instance = bridge.instance
      /\ bridge'.generation = bridge.generation
      /\ bridge'.suspensionRequested = bridge.suspensionRequested
      /\ bridge'.restorationRequested = bridge.restorationRequested
  BY <1>1, StateFacts DEF Bridges
<1>5. TypeOK' /\ FlightFits'
  BY <1>1, <1>3, <1>4, StateFacts DEF IInv, TypeOK, FlightFits, Fits
<1>6. OpenFits' /\ EventsFit' /\ StatusFits'
  BY <1>1, <1>3, <1>4 DEF IInv, OpenFits, EventsFit, StatusFits
<1>7. ViewsFit'
  BY <1>1, <1>3, <1>4 DEF IInv, ViewsFit, Leads
<1> QED BY <1>5, <1>6, <1>7 DEF IInv

\* What follows the head of a queue.
LEMMA TailFacts ==
    ASSUME NEW S, NEW q \in Seq(S), q # <<>>
    PROVE  /\ Head(q) = q[1] /\ Tail(q) \in Seq(S) /\ Len(q) \in Nat /\ Len(q) > 0
           /\ DOMAIN q = 1 .. Len(q) /\ DOMAIN Tail(q) = 1 .. Len(q) - 1
           /\ Len(Tail(q)) = Len(q) - 1
           /\ \A i \in 1 .. Len(q) - 1 : Tail(q)[i] = q[i + 1]
           /\ Tail(q) = <<>> <=> Len(q) = 1
<1>1. /\ Len(q) \in Nat /\ (q = <<>> <=> Len(q) = 0) /\ DOMAIN q = 1 .. Len(q)
  BY EmptySeq, LenProperties
<1>2. /\ Head(q) = q[1] /\ Tail(q) \in Seq(S) /\ Len(Tail(q)) = Len(q) - 1
      /\ \A i \in 1 .. Len(Tail(q)) : Tail(q)[i] = q[i + 1]
  BY HeadTailProperties
<1>3. (Tail(q) = <<>> <=> Len(Tail(q)) = 0) /\ DOMAIN Tail(q) = 1 .. Len(Tail(q))
  BY <1>2, EmptySeq, LenProperties
<1> QED BY <1>1, <1>2, <1>3

\* A view of a machine that was replaced moves on to the next one, for which
\* another retarget is queued unless it is the last.
LEMMA RetargetStep == ASSUME IInv, Retarget PROVE IInv'
<1> DEFINE next == IF ctl.view = Head(retargets) THEN ctl.view + 1 ELSE ctl.view
<1>1. /\ ~Blocked /\ retargets # <<>> /\ ctl' = [ctl EXCEPT !.view = next]
      /\ retargets' = Tail(retargets)
      /\ UNCHANGED <<bridge, commands, files, disk, events, allows>>
  BY ControllerFacts DEF Retarget, Controllers
<1>2. /\ Head(retargets) = retargets[1] /\ retargets' \in Seq(Nat)
      /\ Len(retargets) \in Nat /\ Len(retargets) > 0
      /\ DOMAIN retargets = 1 .. Len(retargets) /\ DOMAIN retargets' = 1 .. Len(retargets) - 1
      /\ \A i \in 1 .. Len(retargets) - 1 : retargets'[i] = retargets[i + 1]
  BY <1>1, ControllerFacts, TailFacts
<1>3. \A i \in DOMAIN retargets : retargets[i] \in Nat
  BY ControllerFacts, ElementOfSeq
<1>4. next \in Nat /\ (ctl.view = NoView => next = NoView)
  <2>1. CASE ctl.view # Head(retargets)
    BY <2>1, ControllerFacts
  <2>2. CASE ctl.view = Head(retargets)
    <3>1. ctl.view # NoView
      BY <1>2, <2>2 DEF IInv, ViewsFit
    <3> QED BY <2>2, <3>1, ControllerFacts
  <2> QED BY <2>1, <2>2
<1>5. /\ ctl' \in Controllers /\ ctl'.view = next /\ ctl'.attaching = ctl.attaching
      /\ ctl'.state = ctl.state /\ ctl'.can = ctl.can /\ ctl'.open = ctl.open
      /\ ctl'.closing = ctl.closing /\ ctl'.pending = ctl.pending
      /\ ctl'.generation = ctl.generation
  BY <1>1, <1>4, ControllerFacts DEF Controllers
<1>6. ViewsFit'
  <2>1. \A i \in DOMAIN retargets' : retargets'[i] # NoView /\ retargets'[i] < bridge.instance
    <3> SUFFICES ASSUME NEW i \in DOMAIN retargets'
                 PROVE  retargets'[i] # NoView /\ retargets'[i] < bridge.instance
      OBVIOUS
    <3>1. i + 1 \in DOMAIN retargets /\ retargets'[i] = retargets[i + 1]
      BY <1>2
    <3> QED BY <3>1 DEF IInv, ViewsFit
  <2>2. \A i, j \in DOMAIN retargets' : i < j => retargets'[i] < retargets'[j]
    <3> SUFFICES ASSUME NEW i \in DOMAIN retargets', NEW j \in DOMAIN retargets', i < j
                 PROVE  retargets'[i] < retargets'[j]
      OBVIOUS
    <3>1. /\ i + 1 \in DOMAIN retargets /\ retargets'[i] = retargets[i + 1]
          /\ j + 1 \in DOMAIN retargets /\ retargets'[j] = retargets[j + 1]
          /\ i + 1 < j + 1
      BY <1>2
    <3> QED BY <3>1 DEF IInv, ViewsFit
  <2>3. Leads(ctl.attaching)'
    BY <1>1, <1>5 DEF Blocked, Leads
  <2>4. ASSUME next # NoView
        PROVE  /\ next <= bridge.instance
               /\ \A k \in Nat : next <= k /\ k < bridge.instance =>
                     \E i \in DOMAIN retargets' : retargets'[i] = k
    <3>1. /\ ctl.view # NoView /\ Leads(ctl.view) /\ ctl.view <= bridge.instance
          /\ retargets[1] < bridge.instance
      <4>1. ctl.view # NoView /\ 1 \in DOMAIN retargets
        BY <1>2, <1>4, <2>4
      <4>2. Leads(ctl.view) /\ retargets[1] < bridge.instance
        BY <4>1 DEF IInv, ViewsFit
      <4> QED BY <4>1, <4>2 DEF Leads
    <3>2. next <= bridge.instance
      BY <1>2, <1>3, <3>1, ControllerFacts
    <3>3. ASSUME NEW k \in Nat, next <= k, k < bridge.instance
          PROVE  \E i \in DOMAIN retargets' : retargets'[i] = k
      <4>1. ctl.view <= k
        BY <3>3, ControllerFacts
      <4>2. PICK i \in DOMAIN retargets : retargets[i] = k
        BY <3>1, <3>3, <4>1 DEF Leads
      <4>3. i # 1
        <5>1. CASE ctl.view = retargets[1]
          BY <1>2, <3>3, <4>2, <5>1, ControllerFacts
        <5>2. CASE ctl.view # retargets[1] /\ i = 1
          <6>1. ctl.view < retargets[1] /\ next = ctl.view
            BY <1>2, <4>1, <4>2, <5>2, ControllerFacts
          <6>2. PICK j \in DOMAIN retargets : retargets[j] = ctl.view
            <7>1. ctl.view \in Nat /\ ctl.view <= ctl.view /\ ctl.view < bridge.instance
              BY <3>3, <4>1, ControllerFacts
            <7> QED BY <3>1, <7>1 DEF Leads
          <6>3. j > 1
            BY <1>2, <5>2, <6>2
          <6>4. retargets[1] < retargets[j]
            BY <1>2, <6>2, <6>3 DEF IInv, ViewsFit
          <6> QED BY <1>2, <1>3, <6>1, <6>2, <6>4, ControllerFacts
        <5> QED BY <5>1, <5>2
      <4>4. i - 1 \in DOMAIN retargets' /\ retargets'[i - 1] = retargets[i]
        BY <1>2, <4>3
      <4> QED BY <4>2, <4>4
    <3> QED BY <3>2, <3>3
  <2>5. ctl'.open \/ bridge'.flight # "none" => bridge'.instance # NoView
    BY <1>1, <1>5 DEF IInv, ViewsFit
  <2> QED BY <1>1, <1>5, <2>1, <2>2, <2>3, <2>4, <2>5 DEF ViewsFit, Leads
<1>7. TypeOK' /\ FlightFits'
  BY <1>1, <1>2, <1>5 DEF IInv, TypeOK, FlightFits
<1>8. EventsFit' /\ StatusFits'
  <2>1. Status' = Status
    BY <1>1, SameStatus DEF Status
  <2> QED BY <1>1, <1>5, <2>1 DEF IInv, EventsFit, StatusFits, Latest, IsTold, Last
<1>9. OpenFits'
  BY <1>1, <1>4, <1>5 DEF IInv, OpenFits
<1> QED BY <1>6, <1>7, <1>8, <1>9 DEF IInv

\* The first of the events is applied, and the last is still the latest.
LEMMA ApplyStatusStep == ASSUME IInv, applyStatus PROVE IInv'
<1> DEFINE e == Head(events)
<1>1. /\ events # <<>> /\ events' = Tail(events)
      /\ ctl' = IF e.generation = ctl.generation THEN Apply(ctl, e.status) ELSE ctl
      /\ UNCHANGED <<bridge, commands, files, disk, retargets, allows>>
  BY DEF applyStatus
<1>2. /\ e = events[1] /\ events' \in Seq(Events) /\ Len(events) \in Nat /\ Len(events) > 0
      /\ DOMAIN events = 1 .. Len(events) /\ DOMAIN events' = 1 .. Len(events) - 1
      /\ Len(events') = Len(events) - 1
      /\ \A i \in 1 .. Len(events) - 1 : events'[i] = events[i + 1]
      /\ events' = <<>> <=> Len(events) = 1
  BY <1>1, ControllerFacts, TailFacts
<1>3. \A i \in DOMAIN events : events[i].generation \in Nat /\ events[i].status \in Statuses
  <2>1. \A i \in DOMAIN events : events[i] \in Events
    BY ControllerFacts, ElementOfSeq
  <2> QED BY <2>1 DEF Events
<1> HIDE DEF e
<1>4. /\ ctl' \in Controllers /\ ctl'.generation = ctl.generation /\ ctl'.open = ctl.open
      /\ ctl'.closing = ctl.closing /\ ctl'.view = ctl.view /\ ctl'.attaching = ctl.attaching
      /\ e.generation # ctl.generation => ctl' = ctl
      /\ e.generation = ctl.generation =>
            ctl'.state = e.status.state /\ ctl'.can = e.status.can /\ ~ctl'.pending
  <2>1. e.status \in Statuses
    BY <1>2, <1>3
  <2>2. e.status.state \in Shown /\ e.status.can \in SUBSET Commands
    BY <2>1 DEF Statuses
  <2> QED BY <1>1, <2>2, ControllerFacts DEF Apply, Controllers
<1>a. TypeOK'
  BY <1>1, <1>2, <1>4 DEF IInv, TypeOK
<1>b. ViewsFit'
  BY <1>1, <1>4 DEF IInv, ViewsFit, Leads
<1>5. FlightFits' /\ OpenFits'
  BY <1>1, <1>4 DEF IInv, FlightFits, OpenFits
<1>6. \A i \in DOMAIN events' : i + 1 \in DOMAIN events /\ events'[i] = events[i + 1]
  BY <1>2
<1>7. EventsFit'
  BY <1>1, <1>2, <1>3, <1>4, <1>6 DEF IInv, EventsFit
<1>8. StatusFits'
  <2>1. Status' = Status
    BY <1>1, SameStatus DEF Status
  <2>2. CASE Len(events) = 1
    <3>1. Last = e /\ events' = <<>>
      BY <1>2, <2>2 DEF Last
    <3>2. e.status \in Statuses
      BY <1>2, <1>3
    <3>3. e.status = [state |-> e.status.state, can |-> e.status.can]
      BY <3>2 DEF Statuses
    <3> QED BY <1>1, <1>4, <2>1, <3>1, <3>3 DEF IInv, StatusFits, Latest, IsTold
  <2>3. CASE Len(events) # 1
    <3>1. /\ events' # <<>> /\ Len(events') \in DOMAIN events'
          /\ events'[Len(events')] = events[Len(events)]
      BY <1>2, <2>3
    <3>2. Last' = Last
      BY <3>1 DEF Last
    <3>3. e.generation <= Last.generation /\ Last.generation \in Nat /\ e.generation \in Nat
      BY <1>2, <1>3 DEF IInv, EventsFit, Last
    <3>4. Last.generation <= ctl.generation
      BY <1>2, <1>3, ControllerFacts DEF IInv, EventsFit, Last
    <3>5. ~IsTold => e.generation # ctl.generation
      BY <1>1, <3>3, <3>4, ControllerFacts DEF IsTold
    <3>6. IsTold' = IsTold
      BY <1>1, <1>4, <3>1, <3>2 DEF IsTold
    <3>7. Latest' = Latest
      BY <1>4, <3>2, <3>5, <3>6 DEF Latest
    <3> QED BY <1>1, <1>4, <2>1, <3>5, <3>6, <3>7 DEF IInv, StatusFits
  <2> QED BY <2>2, <2>3
<1> QED BY <1>a, <1>b, <1>5, <1>7, <1>8 DEF IInv

\* The process ends: what is on disk still fits.
LEMMA ExitStep == ASSUME IInv, Exit PROVE IInv'
<1>1. /\ bridge' = Absent /\ commands' = <<>> /\ events' = <<>> /\ retargets' = <<>>
      /\ ctl' = [ctl EXCEPT !.bundle = FALSE, !.open = FALSE, !.state = "closed",
                            !.can = {}, !.pending = FALSE, !.closing = FALSE,
                            !.attaching = NoView, !.view = NoView]
      /\ UNCHANGED <<files, disk, allows>>
  BY DEF Exit
<1>2. "closed" \in Shown /\ {} \subseteq Commands /\ NoView \in Nat
  BY DEF Shown, NoView
<1>3. /\ ctl' \in Controllers /\ ~ctl'.open /\ ~ctl'.closing /\ ctl'.generation = ctl.generation
      /\ ctl'.view = NoView /\ ctl'.attaching = NoView
  BY <1>1, <1>2, ControllerFacts DEF Controllers
<1>4. /\ bridge' \in Bridges /\ bridge'.state = "stopped" /\ bridge'.flight = "none"
      /\ bridge'.instance = 0 /\ bridge'.generation = 0
      /\ ~bridge'.suspensionRequested /\ ~bridge'.restorationRequested
  BY <1>1 DEF Absent, Bridges, States, Flights
<1>5. FlightFits'
  BY <1>1, <1>4, StateFacts DEF FlightFits, Fits
<1>7. TypeOK'
  <2>1. commands' \in Seq(Commands) /\ events' \in Seq(Events) /\ retargets' \in Seq(Nat)
    BY <1>1
  <2> QED BY <1>1, <1>3, <1>4, <2>1 DEF IInv, TypeOK
<1>6. OpenFits' /\ EventsFit' /\ StatusFits' /\ ViewsFit'
  BY <1>1, <1>3, <1>4, ControllerFacts DEF OpenFits, EventsFit, StatusFits, ViewsFit, Leads
<1> QED BY <1>5, <1>6, <1>7 DEF IInv

\* The status of a fresh machine is shown inside the call that opens it.
LEMMA OpensStep == ASSUME IInv, NEW c \in Commands \cup {"none"}, Opens(c) PROVE IInv'
<1> DEFINE o == Opened
           asks == c # "none" /\ c \in o.ctl.can /\ allows.commands > 0
<1>1. /\ ~ctl.open /\ bridge.flight = "none" /\ allows.opens > 0
      /\ bridge' = o.bridge /\ files' = o.files /\ ctl' = [o.ctl EXCEPT !.pending = asks]
      /\ commands' = IF asks THEN <<c>> ELSE <<>>
      /\ allows' = [allows EXCEPT !.opens = @ - 1, !.commands = @ - One(asks)]
      /\ UNCHANGED <<disk, events, retargets>>
  BY DEF Opens, CanOpen
<1> DEFINE b == [Absent EXCEPT !.invalidated = FALSE, !.instance = bridge.instance + 1,
                               !.generation = ctl.generation + 1]
           f == [files EXCEPT !.restoring = NoFile]
           status == currentStatus(b, f)
<1>2. /\ b \in Bridges /\ b.state = "stopped" /\ b.flight = "none" /\ b.notice = "none"
      /\ b.instance = bridge.instance + 1 /\ b.generation = ctl.generation + 1
      /\ ~b.suspensionRequested /\ ~b.restorationRequested /\ ~b.invalidated
  <2>1. bridge.instance + 1 \in Nat /\ ctl.generation + 1 \in Nat
    BY ControllerFacts
  <2> QED BY <2>1 DEF Absent, Bridges, States, Flights
<1>3. f \in Copies /\ f.saved = files.saved /\ f.restoring = NoFile
  BY StateFacts DEF Copies, NoFile
<1>4. status \in Statuses
  BY <1>2, <1>3, StatusType
<1>5. asks \in BOOLEAN
  OBVIOUS
<1>6. /\ bridge' = b /\ files' = f
      /\ ctl' = [[Apply(ctl, status) EXCEPT !.generation = ctl.generation + 1,
                                            !.open = TRUE, !.bundle = TRUE]
                 EXCEPT !.pending = asks]
  BY <1>1 DEF Opened
<1>7. /\ commands' \in Seq(Commands)
      /\ asks => commands' # <<>>
  <2>1. CASE asks
    <3>1. c \in Commands
      BY <2>1
    <3>2. commands' = <<c>>
      BY <1>1, <2>1
    <3> QED BY <3>1, <3>2
  <2>2. CASE ~asks
    BY <1>1, <2>2
  <2> QED BY <2>1, <2>2
<1>8. allows' \in Allowing /\ allows'.saves = allows.saves
  <2>1. allows.opens \in Nat /\ allows.opens - 1 \in Nat /\ allows.commands \in Nat
    BY <1>1, StateFacts DEF Allowing
  <2>2. allows.commands - One(asks) \in Nat
    BY <2>1 DEF One
  <2> QED BY <1>1, <2>1, <2>2, StateFacts DEF Allowing
<1> HIDE DEF b, f, status, asks, o
<1>9. /\ ctl' \in Controllers /\ ctl'.open /\ ctl'.pending = asks
      /\ ctl'.state = status.state /\ ctl'.can = status.can
      /\ ctl'.generation = ctl.generation + 1 /\ ctl'.closing = ctl.closing
      /\ ctl'.view = ctl.view /\ ctl'.attaching = ctl.attaching
  <2>1. status.state \in Shown /\ status.can \in SUBSET Commands /\ ctl.generation + 1 \in Nat
    BY <1>4, ControllerFacts DEF Statuses
  <2> QED BY <1>5, <1>6, <2>1, ControllerFacts DEF Apply, Controllers
<1>10. ~ctl.closing /\ ctl.view = NoView /\ ctl.attaching = NoView
  BY <1>1 DEF IInv, OpenFits
<1>11. TypeOK'
  BY <1>1, <1>2, <1>3, <1>6, <1>7, <1>8, <1>9 DEF IInv, TypeOK, Copies, Allowing
<1>12. FlightFits'
  BY <1>1, <1>2, <1>3, <1>6, StateFacts DEF FlightFits, Fits
<1>13. OpenFits'
  BY <1>2, <1>6, <1>9, <1>10 DEF OpenFits
<1>14. EventsFit' /\ ~IsTold'
  <2>1. \A i \in DOMAIN events : events[i].generation \in Nat
    <3>1. \A i \in DOMAIN events : events[i] \in Events
      BY ControllerFacts, ElementOfSeq
    <3> QED BY <3>1 DEF Events
  <2>2. EventsFit'
    BY <1>1, <1>2, <1>6, <1>9, <2>1, ControllerFacts DEF IInv, EventsFit
  <2>3. events # <<>> => Len(events) \in DOMAIN events
    BY ControllerFacts, EmptySeq, LenProperties
  <2>4. ~IsTold'
    BY <1>1, <1>9, <2>1, <2>3, ControllerFacts DEF IInv, EventsFit, IsTold, Last
  <2> QED BY <2>2, <2>4
<1>15. StatusFits'
  <2>1. Status' = status
    BY <1>6, <1>8, SameStatus DEF Status, status
  <2>2. status = [state |-> status.state, can |-> status.can]
    BY <1>4 DEF Statuses
  <2> QED BY <1>7, <1>9, <1>14, <2>1, <2>2 DEF StatusFits, Latest
<1>16. ViewsFit'
  <2>1. \A i \in DOMAIN retargets : retargets[i] \in Nat
    BY ControllerFacts, ElementOfSeq
  <2> QED BY <1>1, <1>2, <1>6, <1>9, <1>10, <2>1, ControllerFacts
             DEF IInv, ViewsFit, Leads, NoView
<1> QED BY <1>11, <1>12, <1>13, <1>14, <1>15, <1>16 DEF IInv

\* The machine begins in its invariant.
LEMMA MachineInit == ASSUME RealmMachineAssumption, Init PROVE IInv
<1>1. /\ bridge \in Bridges /\ bridge.flight = "none" /\ bridge.state = "stopped"
      /\ ~bridge.suspensionRequested /\ ~bridge.restorationRequested
      /\ bridge.generation = 0
  BY DEF Init, Absent, Bridges, States, Flights
<1>2. ctl \in Controllers /\ ~ctl.open /\ ~ctl.closing /\ ctl.generation = 0
      /\ ctl.view = NoView /\ ctl.attaching = NoView
  BY DEF Init, Controllers, Shown, NoView
<1>3. files \in Copies /\ files.saved = NoFile /\ disk \in Nat \ {NoFile}
  BY DEF Init, Copies, NoFile
<1>4. TypeOK
  BY <1>1, <1>2, <1>3 DEF Init, RealmMachineAssumption, TypeOK, Copies
<1>5. FlightFits /\ OpenFits /\ EventsFit /\ StatusFits /\ ViewsFit
  BY <1>1, <1>2, <1>3 DEF Init, FlightFits, Fits, OpenFits, EventsFit, StatusFits, ViewsFit,
                          Leads
<1> QED BY <1>4, <1>5 DEF IInv

\* Every step of the machine keeps the invariant.
LEMMA MachineStep == ASSUME IInv, [Next]_vars PROVE IInv'
<1>1. CASE UNCHANGED vars
  <2>1. Status' = Status
    BY <1>1, SameStatus DEF Status, vars
  <2>2. TypeOK' /\ FlightFits' /\ OpenFits'
    BY <1>1 DEF vars, IInv, TypeOK, FlightFits, OpenFits
  <2>3. EventsFit' /\ StatusFits' /\ ViewsFit'
    BY <1>1, <2>1 DEF vars, IInv, EventsFit, StatusFits, Latest, IsTold, Last, ViewsFit,
                      Leads
  <2> QED BY <2>2, <2>3 DEF IInv
<1>2. CASE User
  <2>1. CASE SelectBundle
    BY <2>1, OpensStep, OpenFailsStep DEF SelectBundle
  <2>2. CASE CloseBundle
    BY <2>2, CloseBundleStep
  <2>3. CASE attachDisplay \/ detachDisplay
    BY <2>3, AttachStep
  <2>4. CASE \E c \in Commands : Retry(c)
    BY <2>4, OpensStep, OpenFailsStep DEF Retry
  <2>5. CASE \E c \in Commands : Command(c)
    BY <2>5, CommandStep
  <2> QED BY <1>2, <2>1, <2>2, <2>3, <2>4, <2>5 DEF User
<1>3. CASE Execute
  BY <1>3, StartStep, PauseStep, ResumeStep, RequestStopStep, ForceStopStep, SuspendStep,
     RestoreStep, DiscardStep DEF Execute
<1>4. CASE Complete
  BY <1>4, StartDoneStep, PauseDoneStep, ResumeDoneStep, ResumeToStopDoneStep, StopDoneStep,
     PauseToSaveDoneStep, SaveDoneStep, StopToSuspendDoneStep, RestoreDoneStep,
     ResumeRestoredDoneStep DEF Complete
<1>5. CASE guestDidStop \/ \E how \in {"stopped", "error"} : GuestStops(how)
  BY <1>5, GuestDidStopStep, GuestStopsStep
<1>6. CASE invalidate \/ makeDisplayView \/ Retarget \/ applyStatus \/ Exit
  BY <1>6, InvalidateStep, AttachStep, RetargetStep, ApplyStatusStep, ExitStep
<1> QED BY <1>1, <1>2, <1>3, <1>4, <1>5, <1>6 DEF Next

\* Once nothing is queued what is shown is the machine's.
LEMMA MachineShown == IInv => StatusIsCurrent /\ ViewFollowsMachine
<1> SUFFICES ASSUME IInv PROVE StatusIsCurrent /\ ViewFollowsMachine
  OBVIOUS
<1>1. StatusIsCurrent
  BY DEF IInv, StatusFits, StatusIsCurrent, Latest, IsTold, Status, Blocked
<1>2. ASSUME ctl.view # NoView, retargets = <<>> PROVE ctl.view = bridge.instance
  <2>1. /\ ctl.view <= bridge.instance
        /\ \A k \in Nat : ctl.view <= k /\ k < bridge.instance =>
              \E i \in DOMAIN retargets : retargets[i] = k
    BY <1>2 DEF IInv, ViewsFit, Leads
  <2>2. DOMAIN retargets = {}
    BY <1>2
  <2>3. ~(ctl.view < bridge.instance)
    BY <2>1, <2>2, ControllerFacts
  <2> QED BY <2>1, <2>3, ControllerFacts
<1> QED BY <1>1, <1>2 DEF ViewFollowsMachine

\* A saved state is of the disk as it is.
LEMMA MachineSaves == IInv => SavedStateMatchesDisk
BY DEF IInv, FlightFits, Fits, SavedStateMatchesDisk

\* A suspension that ends without an error is one whose last step stopped the
\* guest, after its file was published.
LEMMA GuestIsKept == ASSUME IInv, [Next]_vars PROVE SuspensionKeepsGuest
<1> SUFFICES ASSUME bridge.suspensionRequested, ~bridge'.suspensionRequested,
                    Len(events') > Len(events), ~events'[Len(events')].failed
             PROVE  files'.saved = disk' /\ bridge'.state = "stopped"
  BY DEF SuspensionKeepsGuest
<1>1. /\ bridge.flight \in {"pause to save", "save", "stop to suspend"} /\ bridge \in Bridges
      /\ bridge.flight = "stop to suspend" => files.saved = disk /\ ~Overtaken
      /\ "stopped" \in States
  BY StateFacts DEF Fits, Overtaken, States
<1>2. events \in Seq(Events)
  BY ControllerFacts
<1>3. ASSUME NEW b \in Bridges, NEW f \in Copies, NEW failed \in BOOLEAN, Becomes(b, f, failed)
      PROVE  ~failed
  <2>1. CASE b.invalidated
    <3>1. events' = events \o <<>>
      BY <1>3, <2>1 DEF Becomes, Told
    <3>2. events' = events
      BY <1>2, <3>1, ConcatEmptySeq
    <3>3. Len(events) \in Nat
      BY <1>2, LenProperties
    <3> QED BY <3>2, <3>3
  <2>2. CASE ~b.invalidated
    <3> DEFINE t == Told(b, f, failed)
    <3>1. /\ t \in Seq(Events) /\ Len(t) = 1 /\ t[1].failed = failed
      BY <1>3, <2>2, ToldOnce
    <3>2. events' = events \o t
      BY <1>3 DEF Becomes
    <3> HIDE DEF t
    <3>3. /\ Len(events) \in Nat /\ Len(events \o t) = Len(events) + Len(t)
          /\ \A i \in 1 .. Len(events) + Len(t) :
                (events \o t)[i] = IF i <= Len(events) THEN events[i] ELSE t[i - Len(events)]
      BY ONLY <1>2, <3>1, LenProperties, ConcatProperties
    <3>4. events'[Len(events')] = t[1]
      BY <3>1, <3>2, <3>3
    <3> QED BY <3>1, <3>4
  <2> QED BY <2>1, <2>2
<1>4. ~(UNCHANGED events) /\ ~(UNCHANGED bridge)
  <2>1. Len(events) \in Nat
    BY <1>2, LenProperties
  <2> QED BY <2>1
<1>5. ASSUME NEW b \in Bridges, NEW f \in Copies, FinishSuspension(b, f, TRUE)
      PROVE  FALSE
  <2> DEFINE r == [b EXCEPT !.suspensionRequested = FALSE]
  <2>1. r \in Bridges /\ Becomes(r, f, TRUE)
    BY <1>5, Finished DEF FinishSuspension
  <2> HIDE DEF r
  <2> QED BY <2>1, <1>3
<1>6. CASE Execute
  <2>1. \A c \in Commands : ~Permitted(bridge, files, c)
    BY DEF Permitted
  <2>2. PICK c \in Commands : Refuses(c)
    BY <1>6, <2>1 DEF Execute, start, pause, resume, requestStop, forceStop, suspend,
                      restore, discard, Commands
  <2> QED BY <1>4, <2>2 DEF Refuses, Becomes
<1>7. CASE guestDidStop \/ \E how \in {"stopped", "error"} : GuestStops(how)
  BY <1>1, <1>7 DEF guestDidStop, GuestStops, Becomes, Bridges
<1>8. CASE PauseToSaveDone
  <2>1. PICK failed \in Results, refused \in Outcomes :
           LET b == Ends("paused", "running", failed)
           IN IF failed THEN ~refused /\ FinishSuspension(b, files, TRUE)
              ELSE SaveAndStop(b, refused)
    BY <1>8 DEF PauseToSaveDone
  <2>2. failed \in BOOLEAN /\ "paused" \in States /\ "running" \in States
    BY DEF Results, Outcomes, States
  <2> DEFINE ended == Ends("paused", "running", failed)
  <2>3. ended \in Bridges /\ ended.suspensionRequested = bridge.suspensionRequested
    BY <1>1, <2>2, EndsType
  <2>4. IF failed THEN FinishSuspension(ended, files, TRUE) ELSE SaveAndStop(ended, refused)
    BY <2>1
  <2> HIDE DEF ended
  <2>5. [ended EXCEPT !.flight = "none"] \in Bridges
    BY <2>3 DEF Bridges, Flights
  <2>6. ~failed /\ bridge' = Starts(ended, "save", "saving")
    BY <1>5, <2>2, <2>3, <2>4, <2>5, StateFacts DEF SaveAndStop
  <2> QED BY <2>3, <2>6 DEF Starts, Bridges
<1>9. CASE SaveDone
  <2> DEFINE ended == Ends("paused", "paused", TRUE)
  <2>1. ended \in Bridges
    BY <1>1, EndsType DEF States
  <2>2. \A f \in Copies : ~FinishSuspension(ended, f, TRUE)
    BY <1>5, <2>1
  <2> HIDE DEF ended
  <2>3. ASSUME NEW kept PROVE [files EXCEPT !.saved = IF kept THEN disk ELSE NoFile] \in Copies
    BY StateFacts DEF Copies, NoFile
  <2>4. bridge' = Starts(bridge, "stop to suspend", "stopping")
    BY <1>9, <2>2, <2>3, StateFacts DEF SaveDone, ended
  <2> QED BY <1>1, <2>4 DEF Starts, Bridges
<1>10. CASE StopToSuspendDone
  <2>1. bridge.flight = "stop to suspend" /\ disk' = disk
    BY <1>10 DEF StopToSuspendDone
  <2>2. files.saved = disk /\ ~Overtaken
    BY <1>1, <2>1
  <2>3. ASSUME NEW kept PROVE (IF kept THEN files ELSE [files EXCEPT !.saved = NoFile]) \in Copies
    BY StateFacts DEF Copies, NoFile
  <2>a. "stopped" \in States /\ "paused" \in States
    BY DEF States
  <2>b. TRUE \in BOOLEAN /\ FALSE \in BOOLEAN
    OBVIOUS
  <2>c. bridge \in Bridges
    BY <1>1
  <2>4. Ends("stopped", "paused", TRUE) \in Bridges
    BY ONLY <2>a, <2>b, <2>c, EndsType
  <2>5. PICK failed \in Outcomes :
           LET b == Ends("stopped", "stopped", FALSE)
           IN FinishSuspension(IF failed THEN b
                               ELSE [b EXCEPT !.instance = @ + 1, !.notice = "none"],
                               files, failed)
    BY <1>5, <1>10, <2>3, <2>4 DEF StopToSuspendDone
  <2> DEFINE ended == Ends("stopped", "stopped", FALSE)
             last == IF failed THEN ended
                     ELSE [ended EXCEPT !.instance = @ + 1, !.notice = "none"]
  <2>6. ended \in Bridges
    BY ONLY <2>a, <2>b, <2>c, EndsType
  <2>7. FinishSuspension(last, files, failed)
    BY <2>5
  <2>8. ended.state = "stopped"
    BY <2>c DEF Ends, Bridges
  <2> HIDE DEF ended
  <2>9. last.state = "stopped" /\ last \in Bridges
    <3> DEFINE fresh == [ended EXCEPT !.instance = @ + 1, !.notice = "none"]
    <3>1. /\ ended.instance + 1 \in Nat
          /\ "none" \in {"none", "stopped", "error"}
      BY <2>6 DEF Bridges
    <3>a. fresh \in Bridges
      BY ONLY <2>6, <3>1 DEF Bridges
    <3>b. fresh.state = "stopped"
      BY <2>6, <2>8 DEF Bridges
    <3>2. last = ended \/ last = fresh
      OBVIOUS
    <3> HIDE DEF fresh, last
    <3> QED BY <3>a, <3>b, <3>2, <2>6, <2>8
  <2> HIDE DEF last
  <2>10. [last EXCEPT !.suspensionRequested = FALSE].state = "stopped"
    BY <2>9 DEF Bridges
  <2>11. /\ bridge' = [last EXCEPT !.suspensionRequested = FALSE]
         /\ files' = files
    BY <2>7 DEF FinishSuspension, Becomes
  <2> QED BY <2>1, <2>2, <2>10, <2>11
<1>11. CASE applyStatus \/ Exit
  <2>1. applyStatus => events # <<>> /\ events' = Tail(events)
    BY DEF applyStatus
  <2>2. Exit => events' = <<>>
    BY DEF Exit
  <2>3. applyStatus => Len(events') = Len(events) - 1 /\ Len(events) \in Nat
    BY <1>2, <2>1, TailFacts
  <2>4. Len(events) \in Nat
    BY <1>2, LenProperties
  <2> QED BY <1>11, <2>2, <2>3, <2>4
<1>12. CASE User \/ invalidate \/ makeDisplayView \/ Retarget \/ UNCHANGED vars
  BY <1>4, <1>12 DEF User, SelectBundle, Opens, OpenFails, CloseBundle, attachDisplay,
                     detachDisplay, Retry, Command, invalidate, makeDisplayView, Retarget,
                     vars
<1> QED BY <1>1, <1>6, <1>7, <1>8, <1>9, <1>10, <1>11, <1>12
           DEF Next, Complete, StartDone, PauseDone, ResumeDone, ResumeToStopDone, StopDone,
               RestoreDone, ResumeRestoredDone, Completes

---------------------------------------------------------------------------
(* The bundle.  What is told of it is what its disk holds, for any number of  *)
(* preparers and installers, restore images, failures, deaths and edits.      *)
(*                                                                           *)
(* That an installed bundle is complete is a matter of which installer knows  *)
(* what: the one that is busy is alone, has in mind what the manifest says,   *)
(* and stands at the step that fits the disk (InstallerFits).  That what is   *)
(* published can be opened rests on what was staged (StagedFits), on a realm  *)
(* being read back as it was written (RealmIsRead), and on its state saying   *)
(* nothing of its validity (StateIsFree).                                     *)

InstallationStates == {"Prepared", "Installing", "Installed", "InstallationFailed"}
ImageRequirements == [named : BOOLEAN, cpu_count : Nat, memory_mib : Nat]
Disks(formats) == [id : Nat, path : {"disk"}, format : formats, size : Nat]
RealmDisks == Disks({"Raw", "Qcow2", "Asif"})
ManifestDisks == Disks({"raw", "qcow2", "asif"})

(* The realms there are, and what is written of them. *)
Realms ==
    [id : BOOLEAN, kind : {"VirtualMachine", "Container"},
     system : {"MacOs", "Linux", "Windows"}, architecture : {"Aarch64", "X86_64"},
     cpu_count : Nat, memory_mib : Nat,
     disks : Seq(RealmDisks) \ {<<>>},
     state : InstallationStates, image : ImageRequirements, display : Nat, identity : BOOLEAN,
     mac_address : BOOLEAN]

Manifests ==
    [schema_version : {"v1alpha1", "v2"}, backend : {"vz"}, network : {"nat"},
     id : BOOLEAN, kind : {"vm", "container"}, system : {"macos", "linux", "windows"},
     architecture : {"aarch64", "x86_64"}, cpu_count : Nat, memory_mib : Nat,
     disks : Seq(ManifestDisks) \ {<<>>},
     state : {"prepared", "installing", "installed", "installation_failed"},
     image : ImageRequirements, display : Nat, identity : BOOLEAN, mac_address : BOOLEAN]

---------------------------------------------------------------------------
(* Names.                                                                  *)

\* Every name has its value, and every value its name (v1alpha1.rs).
LEMMA Kinds ==
    /\ \A v \in {"VirtualMachine", "Container"} :
          KindName[v] \in {"vm", "container"} /\ Value(KindName, KindName[v]) = v
    /\ \A n \in {"vm", "container"} :
          Named(KindName, n) /\ Value(KindName, n) \in {"VirtualMachine", "Container"}
BY DEF KindName, Value, Named

\* So it is for systems,
LEMMA Systems ==
    /\ \A v \in {"MacOs", "Linux", "Windows"} :
          /\ SystemName[v] \in {"macos", "linux", "windows"}
          /\ Value(SystemName, SystemName[v]) = v
    /\ \A n \in {"macos", "linux", "windows"} :
          Named(SystemName, n) /\ Value(SystemName, n) \in {"MacOs", "Linux", "Windows"}
BY DEF SystemName, Value, Named

\* for architectures,
LEMMA Architectures ==
    /\ \A v \in {"Aarch64", "X86_64"} :
          /\ ArchitectureName[v] \in {"aarch64", "x86_64"}
          /\ Value(ArchitectureName, ArchitectureName[v]) = v
    /\ \A n \in {"aarch64", "x86_64"} :
          Named(ArchitectureName, n) /\ Value(ArchitectureName, n) \in {"Aarch64", "X86_64"}
BY DEF ArchitectureName, Value, Named

\* for disk formats,
LEMMA Formats ==
    /\ \A v \in {"Raw", "Qcow2", "Asif"} :
          FormatName[v] \in {"raw", "qcow2", "asif"} /\ Value(FormatName, FormatName[v]) = v
    /\ \A n \in {"raw", "qcow2", "asif"} :
          Named(FormatName, n) /\ Value(FormatName, n) \in {"Raw", "Qcow2", "Asif"}
BY DEF FormatName, Value, Named

\* and for installation states.
LEMMA StateNames ==
    /\ \A v \in InstallationStates :
          /\ StateName[v] \in {"prepared", "installing", "installed", "installation_failed"}
          /\ Value(StateName, StateName[v]) = v
    /\ \A n \in {"prepared", "installing", "installed", "installation_failed"} :
          Named(StateName, n) /\ Value(StateName, n) \in InstallationStates
    /\ \A n \in {"prepared", "installing", "installed", "installation_failed"} :
          /\ Value(StateName, n) = "Prepared" <=> n = "prepared"
          /\ Value(StateName, n) = "Installing" <=> n = "installing"
          /\ Value(StateName, n) = "Installed" <=> n = "installed"
BY DEF StateName, Value, Named, InstallationStates

---------------------------------------------------------------------------
(* What is written is read back.                                           *)

\* A disk is read back as it was written.
LEMMA DiskIsRead ==
    ASSUME NEW d \in RealmDisks
    PROVE  /\ DiskManifest(d) \in ManifestDisks
           /\ Disk(DiskManifest(d)) = d
           /\ Named(FormatName, DiskManifest(d).format)
<1>1. /\ d.format \in {"Raw", "Qcow2", "Asif"}
      /\ FormatName[d.format] \in {"raw", "qcow2", "asif"}
      /\ Value(FormatName, FormatName[d.format]) = d.format
      /\ Named(FormatName, FormatName[d.format])
  BY Formats DEF RealmDisks, Disks
<1> QED BY <1>1 DEF DiskManifest, Disk, RealmDisks, ManifestDisks, Disks

\* Any disk of a manifest is read as a disk.
LEMMA DiskReads ==
    ASSUME NEW d \in ManifestDisks
    PROVE  Named(FormatName, d.format) /\ Disk(d) \in RealmDisks
<1>1. d.format \in {"raw", "qcow2", "asif"}
  BY DEF ManifestDisks, Disks
<1>2. Named(FormatName, d.format) /\ Value(FormatName, d.format) \in {"Raw", "Qcow2", "Asif"}
  BY <1>1, Formats
<1> QED BY <1>2 DEF Disk, RealmDisks, ManifestDisks, Disks

\* So are the disks of a realm.
LEMMA DisksAreRead ==
    ASSUME NEW s \in Seq(RealmDisks) \ {<<>>}
    PROVE  LET m == [i \in 1..Len(s) |-> DiskManifest(s[i])]
           IN /\ m \in Seq(ManifestDisks) \ {<<>>}
              /\ [i \in 1..Len(m) |-> Disk(m[i])] = s
<1> DEFINE m == [i \in 1..Len(s) |-> DiskManifest(s[i])]
<1>0. Len(s) \in Nat /\ Len(s) # 0
  BY EmptySeq, LenProperties
<1>1. \A i \in 1..Len(s) : s[i] \in RealmDisks
  BY ElementOfSeq
<1>2. \A i \in 1..Len(s) : DiskManifest(s[i]) \in ManifestDisks /\ Disk(DiskManifest(s[i])) = s[i]
  BY <1>1, DiskIsRead
<1>3. m \in Seq(ManifestDisks)
  BY <1>0, <1>2, IsASeq
<1>4. Len(m) = Len(s)
  BY <1>0, <1>3, LenProperties
<1>5. m # <<>>
  BY <1>0, <1>4
<1>6. [i \in 1..Len(m) |-> Disk(m[i])] = [i \in 1..Len(s) |-> s[i]]
  BY <1>2, <1>4
<1>7. s = [i \in 1..Len(s) |-> s[i]]
  BY LenProperties
<1> QED BY <1>3, <1>5, <1>6, <1>7

\* And those of a manifest.
LEMMA DisksRead ==
    ASSUME NEW s \in Seq(ManifestDisks) \ {<<>>}
    PROVE  /\ \A i \in 1..Len(s) : Named(FormatName, s[i].format)
           /\ [i \in 1..Len(s) |-> Disk(s[i])] \in Seq(RealmDisks) \ {<<>>}
<1> DEFINE r == [i \in 1..Len(s) |-> Disk(s[i])]
<1>0. Len(s) \in Nat /\ Len(s) # 0
  BY EmptySeq, LenProperties
<1>1. \A i \in 1..Len(s) : s[i] \in ManifestDisks
  BY ElementOfSeq
<1>2. \A i \in 1..Len(s) : Named(FormatName, s[i].format) /\ Disk(s[i]) \in RealmDisks
  BY <1>1, DiskReads
<1>3. r \in Seq(RealmDisks)
  BY <1>0, <1>2, IsASeq
<1>4. Len(r) = Len(s)
  BY <1>0, <1>3, LenProperties
<1>5. r # <<>>
  BY <1>0, <1>4
<1> QED BY <1>2, <1>3, <1>5

\* A realm that is written is read back as it was.
LEMMA RealmIsRead ==
    ASSUME NEW r \in Realms
    PROVE  /\ encode(r) \in Manifests
           /\ encode(r).schema_version = "v1alpha1"
           /\ encode(r).state = StateName[r.state]
           /\ decode(encode(r)) = r
<1> DEFINE m == [i \in 1..Len(r.disks) |-> DiskManifest(r.disks[i])]
<1>1. r.disks \in Seq(RealmDisks) \ {<<>>}
  BY DEF Realms
<1>2. m \in Seq(ManifestDisks) \ {<<>>} /\ [i \in 1..Len(m) |-> Disk(m[i])] = r.disks
  BY <1>1, DisksAreRead
<1>3. encode(r).disks = m
  BY DEF encode
<1>4. KindName[r.kind] \in {"vm", "container"} /\ Value(KindName, KindName[r.kind]) = r.kind
  BY Kinds DEF Realms
<1>5. /\ SystemName[r.system] \in {"macos", "linux", "windows"}
      /\ Value(SystemName, SystemName[r.system]) = r.system
  BY Systems DEF Realms
<1>6. /\ ArchitectureName[r.architecture] \in {"aarch64", "x86_64"}
      /\ Value(ArchitectureName, ArchitectureName[r.architecture]) = r.architecture
  BY Architectures DEF Realms
<1>7. /\ StateName[r.state] \in {"prepared", "installing", "installed", "installation_failed"}
      /\ Value(StateName, StateName[r.state]) = r.state
  BY StateNames DEF Realms
<1> HIDE DEF m
<1>8. encode(r) \in Manifests /\ encode(r).schema_version = "v1alpha1"
      /\ encode(r).state = StateName[r.state]
  BY <1>2, <1>3, <1>4, <1>5, <1>6, <1>7 DEF Manifests, Realms, encode
<1> DEFINE e == encode(r)
<1>9. /\ [i \in 1..Len(e.disks) |-> Disk(e.disks[i])] = r.disks
      /\ Value(KindName, e.kind) = r.kind /\ Value(SystemName, e.system) = r.system
      /\ Value(ArchitectureName, e.architecture) = r.architecture
      /\ Value(StateName, e.state) = r.state
      /\ e.id = r.id /\ e.cpu_count = r.cpu_count /\ e.memory_mib = r.memory_mib
      /\ e.image = r.image /\ e.display = r.display /\ e.identity = r.identity
      /\ e.mac_address = r.mac_address
  <2>1. /\ e.kind = KindName[r.kind] /\ e.system = SystemName[r.system]
        /\ e.architecture = ArchitectureName[r.architecture]
        /\ e.state = StateName[r.state]
        /\ e.id = r.id /\ e.cpu_count = r.cpu_count /\ e.memory_mib = r.memory_mib
        /\ e.image = r.image /\ e.display = r.display /\ e.identity = r.identity
        /\ e.mac_address = r.mac_address
    BY DEF encode
  <2> HIDE DEF e
  <2>2. e.disks = m
    BY <1>3 DEF e
  <2> QED BY <2>1, <2>2, <1>2, <1>4, <1>5, <1>6, <1>7
<1>10. decode(e) = r
  <2> HIDE DEF e
  <2>1. decode(e) = [id |-> r.id, kind |-> r.kind, system |-> r.system,
                     architecture |-> r.architecture, cpu_count |-> r.cpu_count,
                     memory_mib |-> r.memory_mib, disks |-> r.disks, state |-> r.state,
                     image |-> r.image, display |-> r.display,
                     identity |-> r.identity, mac_address |-> r.mac_address]
    BY <1>9 DEF decode
  <2> QED BY <2>1 DEF Realms
<1> QED BY <1>8, <1>10

\* Whatever its numbers, a manifest is read as a realm.
LEMMA ManifestReads ==
    ASSUME NEW m \in Manifests
    PROVE  /\ Readable(m) <=> m.schema_version = "v1alpha1"
           /\ decode(m) \in Realms
           /\ decode(m).state = Value(StateName, m.state)
           /\ decode(m).state = "Prepared" <=> m.state = "prepared"
           /\ decode(m).state = "Installing" <=> m.state = "installing"
           /\ decode(m).state = "Installed" <=> m.state = "installed"
<1> DEFINE r == [i \in 1..Len(m.disks) |-> Disk(m.disks[i])]
<1>1. m.disks \in Seq(ManifestDisks) \ {<<>>}
  BY DEF Manifests
<1>2. /\ \A i \in 1..Len(m.disks) : Named(FormatName, m.disks[i].format)
      /\ r \in Seq(RealmDisks) \ {<<>>}
  BY <1>1, DisksRead
<1>3. decode(m).disks = r
  BY DEF decode
<1> HIDE DEF r
<1>4. Named(KindName, m.kind) /\ Value(KindName, m.kind) \in {"VirtualMachine", "Container"}
  BY Kinds DEF Manifests
<1>5. Named(SystemName, m.system) /\ Value(SystemName, m.system) \in {"MacOs", "Linux", "Windows"}
  BY Systems DEF Manifests
<1>6. /\ Named(ArchitectureName, m.architecture)
      /\ Value(ArchitectureName, m.architecture) \in {"Aarch64", "X86_64"}
  BY Architectures DEF Manifests
<1>7. Named(StateName, m.state) /\ Value(StateName, m.state) \in InstallationStates
  BY StateNames DEF Manifests
<1>8. m.backend = "vz" /\ m.network = "nat"
  BY DEF Manifests
<1>9. Readable(m) <=> m.schema_version = "v1alpha1"
  BY <1>2, <1>4, <1>5, <1>6, <1>7, <1>8 DEF Readable
<1>10. decode(m) \in Realms
  BY <1>2, <1>3, <1>4, <1>5, <1>6, <1>7 DEF decode, Realms, Manifests
<1>11. decode(m).state = Value(StateName, m.state)
  BY DEF decode
<1>12. m.state \in {"prepared", "installing", "installed", "installation_failed"}
  BY DEF Manifests
<1> QED BY <1>9, <1>10, <1>11, <1>12, StateNames

\* The state of a realm says nothing of its validity.
LEMMA StateIsFree ==
    ASSUME NEW r \in Realms, NEW s \in InstallationStates
    PROVE  LET t == [r EXCEPT !.state = s]
           IN /\ t \in Realms
              /\ validate(t) <=> validate(r)
              /\ Configures(t) <=> Configures(r)
              /\ configuration(t) = configuration(r)
              /\ [t EXCEPT !.state = r.state] = r
<1> DEFINE t == [r EXCEPT !.state = s]
<1>1. t \in Realms /\ [t EXCEPT !.state = r.state] = r
  BY DEF Realms
<1>2. /\ t.id = r.id /\ t.kind = r.kind /\ t.system = r.system
      /\ t.architecture = r.architecture /\ t.cpu_count = r.cpu_count
      /\ t.memory_mib = r.memory_mib /\ t.disks = r.disks /\ t.image = r.image
      /\ t.display = r.display /\ t.identity = r.identity
      /\ t.mac_address = r.mac_address
  BY DEF Realms
<1> HIDE DEF t
<1>3. validate(t) <=> validate(r)
  BY <1>2 DEF validate
<1> QED BY <1>1, <1>2, <1>3 DEF Configures, configuration, t

---------------------------------------------------------------------------
(* The invariant.                                                          *)

Directories == [is : {"none", "made", "populated", "whole"},
                manifest : Manifests \cup {NoManifest}]
Configurations == [cpu_count : Nat, memory_mib : Nat, disks : Nat, display : Nat,
                   identity : BOOLEAN]
Places == {"sound", "lost", "blocked"}

Typed ==
    /\ staging \in [Preparers -> Directories]
    /\ preparing \in [Preparers -> {"idle", "preparing", "prepared", "publishing",
                                    "done", "dead"}]
    /\ bundle \in [publisher : Preparers \cup {"none"},
                   disk : {"blank", "partial", "installed"}, places : Places,
                   manifest : Manifests \cup {NoManifest}]
    /\ installing \in [Installers ->
           [pc : {"idle", "opened", "starting", "running", "writing", "written",
                  "broken", "done", "dead"},
            realm : Realms \cup {NoRealm},
            result : {"none", "refused", "failed", "ok"}]]
    /\ machine \in [configuration : Configurations, places : Places] \cup {None}
    /\ used \in [edits : Nat, failures : Nat]
    /\ setting \in Settings
    /\ Published => bundle.manifest \in Manifests

(* A manifest that is read, and describes a machine the adapter takes. *)
Whole(m) ==
    /\ m \in Manifests /\ m.schema_version = "v1alpha1"
    /\ validate(decode(m)) /\ Configures(decode(m))

StagedFits(p) ==
    /\ preparing[p] = "publishing" =>
          /\ staging[p].is = "whole" /\ Whole(staging[p].manifest)
          /\ staging[p].manifest.state = "prepared"
    /\ preparing[p] = "done" => staging[p] = Empty

(* What the disk holds, by what the manifest says. *)
DiskFits ==
    Published => /\ bundle.manifest.state = "prepared" => bundle.disk = "blank"
                 /\ bundle.manifest.state = "installed" => bundle.disk = "installed"
                 /\ used.edits = 0 => bundle.places = "sound" /\ Whole(bundle.manifest)

(* An installer has read what the manifest says, and is the only one. *)
InstallerFits(q) ==
    Busy(q) =>
        /\ Published /\ Decodes(bundle.manifest)
        /\ installing[q].realm = decode(bundle.manifest)
        /\ bundle.manifest.state =
              IF installing[q].pc = "opened" THEN "prepared" ELSE "installing"
        /\ installing[q].pc \in {"opened", "starting", "running"} => bundle.disk = "blank"
        /\ installing[q].pc = "written" => bundle.disk = "installed"
        /\ \A o \in Installers : Busy(o) => o = q

MachineFits ==
    machine # None => /\ Published /\ bundle.manifest.state = "installed"
                      /\ OpenedIsAccepted

BundleInv ==
    /\ Typed
    /\ \A p \in Preparers : StagedFits(p)
    /\ DiskFits
    /\ \A q \in Installers : InstallerFits(q)
    /\ MachineFits

---------------------------------------------------------------------------
(* Manifests of new realms, and of realms whose state is recorded.         *)

\* A valid realm of a new bundle is written whole: its memory is the least the
\* restore image asks for, which fits (Realm::new_vz_macos).
LEMMA NewIsWhole ==
    ASSUME NEW info \in Infos, NEW size \in DiskSizes,
           validate(new_vz_macos(info, size))
    PROVE  Whole(encode(new_vz_macos(info, size)))
           /\ encode(new_vz_macos(info, size)).state = "prepared"
<1> DEFINE r == new_vz_macos(info, size)
<1>1. /\ info.cpu_count \in Nat /\ info.memory_mib \in Nat /\ info.memory_mib <= MaxMemory
      /\ info.named \in BOOLEAN /\ info.identity \in BOOLEAN
      /\ info.mac_address \in BOOLEAN /\ size \in Nat
  BY RealmManifestAssumption, RealmBundleAssumption
<1>2. [id |-> 1, path |-> "disk", format |-> "Raw", size |-> size] \in RealmDisks
  BY <1>1 DEF RealmDisks, Disks
<1>3. r.disks \in Seq(RealmDisks) \ {<<>>} /\ Len(r.disks) = 1 /\ r.disks[1].format = "Raw"
  BY <1>2 DEF new_vz_macos
<1>4. r \in Realms
  BY <1>1, <1>3 DEF new_vz_macos, Realms, InstallationStates, ImageRequirements
<1>5. Configures(r)
  BY <1>1, <1>3 DEF Configures, Field, new_vz_macos
<1>6. StateName[r.state] = "prepared"
  BY DEF StateName, new_vz_macos
<1> HIDE DEF r
<1>7. encode(r) \in Manifests /\ encode(r).schema_version = "v1alpha1"
      /\ encode(r).state = "prepared" /\ decode(encode(r)) = r
  BY <1>4, <1>6, RealmIsRead
<1>8. validate(r)
  BY DEF r
<1>9. Whole(encode(r))
  BY <1>5, <1>7, <1>8 DEF Whole
<1> QED BY <1>7, <1>9 DEF r

\* A manifest that is whole is read.
LEMMA WholeDecodes ==
    ASSUME NEW m \in Manifests
    PROVE  /\ Decodes(m) <=> m.schema_version = "v1alpha1" /\ validate(decode(m))
           /\ Whole(m) <=> Decodes(m) /\ Configures(decode(m))
BY ManifestReads DEF Decodes, Whole

\* Recording another state of a realm that was read changes nothing else of its
\* manifest (persistence/v1alpha1.rs).
LEMMA StateIsRecorded ==
    ASSUME NEW m \in Manifests, Decodes(m), NEW s \in InstallationStates
    PROVE  LET n == encode([decode(m) EXCEPT !.state = s])
           IN /\ n \in Manifests /\ Decodes(n)
              /\ n.state = StateName[s]
              /\ decode(n) = [decode(m) EXCEPT !.state = s]
              /\ [decode(n) EXCEPT !.state = decode(m).state] = decode(m)
              /\ Whole(m) => Whole(n)
<1> DEFINE r == decode(m)
<1> DEFINE t == [r EXCEPT !.state = s]
<1>1. r \in Realms /\ validate(r)
  BY ManifestReads DEF Decodes
<1> HIDE DEF r
<1>2. t \in Realms /\ validate(t) /\ [t EXCEPT !.state = r.state] = r
      /\ (Configures(t) <=> Configures(r)) /\ t.state = s
  BY <1>1, StateIsFree DEF Realms
<1> HIDE DEF t
<1>3. encode(t) \in Manifests /\ encode(t).schema_version = "v1alpha1"
      /\ encode(t).state = StateName[s] /\ decode(encode(t)) = t
  BY <1>2, RealmIsRead
<1>4. Decodes(encode(t))
  BY <1>2, <1>3, WholeDecodes
<1>5. Whole(m) => Whole(encode(t))
  BY <1>2, <1>3, <1>4, WholeDecodes DEF Whole, r
<1> QED BY <1>2, <1>3, <1>4, <1>5 DEF t, r

\* A realm is a machine the adapter accepts once it is valid.
LEMMA ValidIsAccepted ==
    ASSUME NEW r \in Realms, validate(r)
    PROVE  /\ configuration(r) \in Configurations
           /\ Accepted(configuration(r))
           /\ r.kind = "VirtualMachine" /\ r.system = "MacOs" /\ r.architecture = "Aarch64"
<1>1. Len(r.disks) \in Nat /\ Len(r.disks) > 0
  BY EmptySeq, LenProperties DEF Realms
<1> QED BY <1>1 DEF validate, configuration, Accepted, Configurations, Realms

---------------------------------------------------------------------------
(* The invariant holds at first, and each step keeps it.                   *)

\* The invariant holds of a directory that was never touched.
LEMMA Begins == ASSUME BundleInit PROVE BundleInv
<1>1. Typed
  BY DEF BundleInit, Typed, Directories, Empty, Published, Places
<1>2. ~Published /\ machine = None
  BY DEF BundleInit, Published
<1>3. \A p \in Preparers : StagedFits(p)
  BY DEF BundleInit, StagedFits
<1>4. \A q \in Installers : InstallerFits(q)
  BY DEF BundleInit, InstallerFits, Busy
<1> QED BY <1>1, <1>2, <1>3, <1>4 DEF BundleInv, DiskFits, MachineFits

\* What failures count stays a number, and edits are not counted with them.
LEMMA Counts ==
    ASSUME Typed, NEW failed \in BOOLEAN, CountFailure(failed)
    PROVE  used' \in [edits : Nat, failures : Nat] /\ used'.edits = used.edits
BY DEF Typed, CountFailure

\* A preparer's step moves its own directory only.
LEMMA SettlesFits ==
    ASSUME Typed, \A q \in Preparers : StagedFits(q), NEW p \in Preparers,
           NEW step \in {"preparing", "prepared", "publishing", "done"},
           NEW d \in Directories, Settles(p, step, d),
           step = "publishing" =>
               d.is = "whole" /\ Whole(d.manifest) /\ d.manifest.state = "prepared",
           step = "done" => d = Empty
    PROVE  /\ staging' \in [Preparers -> Directories]
           /\ preparing' \in [Preparers -> {"idle", "preparing", "prepared", "publishing",
                                            "done", "dead"}]
           /\ \A q \in Preparers : StagedFits(q)'
<1>1. /\ staging' \in [Preparers -> Directories]
      /\ preparing' \in [Preparers -> {"idle", "preparing", "prepared", "publishing",
                                       "done", "dead"}]
  BY DEF Settles, Typed
<1>2. \A q \in Preparers : IF q = p THEN preparing'[q] = step /\ staging'[q] = d
                           ELSE preparing'[q] = preparing[q] /\ staging'[q] = staging[q]
  BY DEF Settles, Typed
<1>3. ASSUME NEW q \in Preparers PROVE StagedFits(q)'
  BY <1>2, <1>3 DEF StagedFits
<1> QED BY <1>1, <1>3

\* What preparers do before they publish leaves the bundle alone.
LEMMA PreparersKeep ==
    ASSUME BundleInv, UNCHANGED <<bundle, installing, machine, setting>>,
           used' \in [edits : Nat, failures : Nat], used'.edits = used.edits,
           staging' \in [Preparers -> Directories],
           preparing' \in [Preparers -> {"idle", "preparing", "prepared", "publishing",
                                        "done", "dead"}],
           \A p \in Preparers : StagedFits(p)'
    PROVE  BundleInv'
<1>1. Typed'
  BY DEF BundleInv, Typed, Published
<1>2. DiskFits' /\ MachineFits'
  BY DEF BundleInv, DiskFits, MachineFits, OpenedIsAccepted, Published
<1>3. ASSUME NEW q \in Installers PROVE InstallerFits(q)'
  BY <1>3 DEF BundleInv, InstallerFits, Busy, Published
<1> QED BY <1>1, <1>2, <1>3 DEF BundleInv

\* A preparation that is given up leaves an empty directory.
LEMMA GivesUpFits ==
    ASSUME BundleInv, NEW p \in Preparers, GivesUp(p)
    PROVE  /\ staging' \in [Preparers -> Directories]
           /\ preparing' \in [Preparers -> {"idle", "preparing", "prepared", "publishing",
                                            "done", "dead"}]
           /\ \A q \in Preparers : StagedFits(q)'
<1>1. Empty \in Directories
  BY DEF Empty, Directories
<1> QED BY <1>1, SettlesFits DEF BundleInv, GivesUp

\* begin makes a directory, or gives up.
LEMMA Begin ==
    ASSUME BundleInv, NEW p \in Preparers, begin(p), UNCHANGED setting PROVE BundleInv'
<1>1. PICK failed \in BOOLEAN :
          /\ \/ GivesUp(p)
             \/ Settles(p, "preparing", [Empty EXCEPT !.is = "made"])
          /\ CountFailure(failed)
  BY DEF begin, Failures
<1>2. used' \in [edits : Nat, failures : Nat] /\ used'.edits = used.edits
  BY <1>1, Counts DEF BundleInv
<1>3. [Empty EXCEPT !.is = "made"] \in Directories
  BY DEF Empty, Directories
<1>4. /\ staging' \in [Preparers -> Directories]
      /\ preparing' \in [Preparers -> {"idle", "preparing", "prepared", "publishing",
                                       "done", "dead"}]
      /\ \A q \in Preparers : StagedFits(q)'
  BY <1>1, <1>3, GivesUpFits, SettlesFits DEF BundleInv
<1>5. UNCHANGED <<bundle, installing, machine>>
  BY DEF begin
<1> QED BY <1>2, <1>4, <1>5, PreparersKeep

\* The adapter fills the directory, or the preparation gives up.
LEMMA PreparationCompleted ==
    ASSUME BundleInv, NEW p \in Preparers, preparation_completed(p), UNCHANGED setting
    PROVE  BundleInv'
<1>1. PICK failed \in BOOLEAN :
          /\ \/ GivesUp(p)
             \/ Settles(p, "prepared", [Empty EXCEPT !.is = "populated"])
          /\ CountFailure(failed)
  BY DEF preparation_completed, Failures
<1>2. used' \in [edits : Nat, failures : Nat] /\ used'.edits = used.edits
  BY <1>1, Counts DEF BundleInv
<1>3. [Empty EXCEPT !.is = "populated"] \in Directories
  BY DEF Empty, Directories
<1>4. /\ staging' \in [Preparers -> Directories]
      /\ preparing' \in [Preparers -> {"idle", "preparing", "prepared", "publishing",
                                       "done", "dead"}]
      /\ \A q \in Preparers : StagedFits(q)'
  BY <1>1, <1>3, GivesUpFits, SettlesFits DEF BundleInv
<1>5. UNCHANGED <<bundle, installing, machine>>
  BY DEF preparation_completed
<1> QED BY <1>2, <1>4, <1>5, PreparersKeep

\* What is staged is written whole, or given up.
LEMMA PublishVzMacos ==
    ASSUME BundleInv, NEW p \in Preparers, publish_vz_macos(p),
           UNCHANGED setting
    PROVE  BundleInv'
<1>1. PICK info \in setting.infos, size \in DiskSizes, failed \in BOOLEAN :
          /\ \/ GivesUp(p)
             \/ /\ validate(new_vz_macos(info, size))
                /\ Settles(p, "publishing",
                           [is |-> "whole", manifest |-> encode(new_vz_macos(info, size))])
          /\ CountFailure(failed)
  BY DEF publish_vz_macos, Failures
<1>2. used' \in [edits : Nat, failures : Nat] /\ used'.edits = used.edits
  BY <1>1, Counts DEF BundleInv
<1>3. info \in Infos
  BY RealmBundleAssumption DEF BundleInv, Typed
<1>4. CASE GivesUp(p)
  BY <1>2, <1>4, GivesUpFits, PreparersKeep DEF publish_vz_macos
<1>5. CASE /\ validate(new_vz_macos(info, size))
           /\ Settles(p, "publishing",
                      [is |-> "whole", manifest |-> encode(new_vz_macos(info, size))])
  <2> DEFINE m == encode(new_vz_macos(info, size))
  <2>1. Whole(m) /\ m.state = "prepared"
    BY <1>3, <1>5, NewIsWhole
  <2> DEFINE d == [is |-> "whole", manifest |-> m]
  <2>2. Settles(p, "publishing", d)
    BY <1>5
  <2> HIDE DEF m
  <2>3. d \in Directories
    BY <2>1 DEF Directories, Whole
  <2>4. d.is = "whole" /\ Whole(d.manifest) /\ d.manifest.state = "prepared"
    BY <2>1
  <2> HIDE DEF d
  <2>5. /\ staging' \in [Preparers -> Directories]
        /\ preparing' \in [Preparers -> {"idle", "preparing", "prepared", "publishing",
                                         "done", "dead"}]
        /\ \A q \in Preparers : StagedFits(q)'
    BY <2>2, <2>3, <2>4, SettlesFits DEF BundleInv
  <2> QED BY <1>2, <2>5, PreparersKeep DEF publish_vz_macos
<1> QED BY <1>1, <1>4, <1>5

\* What is published was written whole, and over nothing.
LEMMA Rename ==
    ASSUME BundleInv, NEW p \in Preparers, rename(p), UNCHANGED setting
    PROVE  BundleInv'
<1>1. PICK failed \in BOOLEAN :
          /\ \/ GivesUp(p) /\ UNCHANGED bundle
             \/ ~Published /\ Publishes(p)
          /\ CountFailure(failed)
  BY DEF rename, Failures
<1>2. used' \in [edits : Nat, failures : Nat] /\ used'.edits = used.edits
  BY <1>1, Counts DEF BundleInv
<1>3. CASE GivesUp(p) /\ UNCHANGED bundle
  BY <1>2, <1>3, GivesUpFits, PreparersKeep DEF rename
<1>4. CASE ~Published /\ Publishes(p)
  <2>1. /\ staging' \in [Preparers -> Directories]
        /\ preparing' \in [Preparers -> {"idle", "preparing", "prepared", "publishing",
                                         "done", "dead"}]
        /\ \A q \in Preparers : StagedFits(q)'
    BY <1>4, GivesUpFits DEF Publishes, GivesUp
  <2>2. Whole(staging[p].manifest) /\ staging[p].manifest.state = "prepared"
    BY DEF BundleInv, StagedFits, rename
  <2>3. p # "none"
    BY RealmBundleAssumption
  <2>4. bundle' = [publisher |-> p, disk |-> "blank", places |-> "sound",
                   manifest |-> staging[p].manifest]
    BY <1>4 DEF Publishes
  <2>5. UNCHANGED <<installing, machine>>
    BY DEF rename
  <2>6. Typed'
    BY <1>2, <2>1, <2>2, <2>4, <2>5 DEF BundleInv, Typed, Published, Places, Whole
  <2>7. DiskFits'
    BY <2>2, <2>4 DEF DiskFits
  <2>8. \A q \in Installers : ~Busy(q)
    BY <1>4 DEF BundleInv, InstallerFits
  <2>9. \A q \in Installers : InstallerFits(q)'
    BY <2>5, <2>8 DEF InstallerFits, Busy
  <2>10. MachineFits'
    BY <1>4, <2>5 DEF BundleInv, MachineFits
  <2> QED BY <2>1, <2>6, <2>7, <2>9, <2>10 DEF BundleInv
<1> QED BY <1>1, <1>3, <1>4

---------------------------------------------------------------------------
(* Installation.                                                           *)

Steps == {"idle", "opened", "starting", "running", "writing", "written", "broken", "done",
          "dead"}
InstallResults == {"none", "refused", "failed", "ok"}

\* An installer that moves leaves the others where they are.
LEMMA MovesFits ==
    ASSUME Typed, NEW q \in Installers, NEW pc \in Steps, NEW realm \in Realms \cup {NoRealm},
           NEW result \in InstallResults, Moves(q, pc, realm, result)
    PROVE  /\ installing' \in [Installers -> [pc : Steps, realm : Realms \cup {NoRealm},
                                             result : InstallResults]]
           /\ installing'[q].pc = pc /\ installing'[q].realm = realm
           /\ \A o \in Installers \ {q} : installing'[o] = installing[o]
BY DEF Moves, Typed, Steps, InstallResults

\* An installer that ends, or is killed, leaves the bundle to the others.
LEMMA Leaves ==
    ASSUME BundleInv, NEW q \in Installers, NEW pc \in {"done", "dead"},
           NEW result \in InstallResults, Moves(q, pc, NoRealm, result),
           UNCHANGED <<staging, preparing, bundle, machine, setting>>,
           used' \in [edits : Nat, failures : Nat], used'.edits = used.edits
    PROVE  BundleInv'
<1>1. /\ installing' \in [Installers -> [pc : Steps, realm : Realms \cup {NoRealm},
                                         result : InstallResults]]
      /\ installing'[q].pc = pc
      /\ \A o \in Installers \ {q} : installing'[o] = installing[o]
  BY MovesFits DEF BundleInv, Steps
<1>2. Typed'
  BY <1>1 DEF BundleInv, Typed, Published, Steps, InstallResults
<1>3. /\ \A p \in Preparers : StagedFits(p)'
      /\ DiskFits' /\ MachineFits'
  BY DEF BundleInv, DiskFits, MachineFits, OpenedIsAccepted, Published, StagedFits
<1>4. \A o \in Installers : Busy(o)' => o # q /\ Busy(o) /\ installing'[o] = installing[o]
  BY <1>1 DEF Busy
<1>5. ASSUME NEW o \in Installers PROVE InstallerFits(o)'
  BY <1>4, <1>5 DEF BundleInv, InstallerFits, Published
<1> QED BY <1>2, <1>3, <1>5 DEF BundleInv

\* The only installer that is busy moves on; the disk and what it has read may
\* change with it.
LEMMA Proceeds ==
    ASSUME BundleInv, NEW q \in Installers, Busy(q), NEW pc \in Steps \ {"idle"},
           NEW realm \in Realms, NEW result \in InstallResults, Moves(q, pc, realm, result),
           UNCHANGED <<staging, preparing, machine, setting>>,
           used' \in [edits : Nat, failures : Nat], used'.edits = used.edits,
           NEW held \in {"blank", "partial", "installed"}, NEW m \in Manifests,
           bundle' = [bundle EXCEPT !.disk = held, !.manifest = m],
           Decodes(m), realm = decode(m), Whole(bundle.manifest) => Whole(m),
           m.state = "prepared" => held = "blank",
           m.state = "installed" => held = "installed",
           pc \notin {"done", "dead"} =>
               /\ m.state = IF pc = "opened" THEN "prepared" ELSE "installing"
               /\ pc \in {"opened", "starting", "running"} => held = "blank"
               /\ pc = "written" => held = "installed"
    PROVE  BundleInv'
<1>1. /\ installing' \in [Installers -> [pc : Steps, realm : Realms \cup {NoRealm},
                                         result : InstallResults]]
      /\ installing'[q].pc = pc /\ installing'[q].realm = realm
      /\ \A o \in Installers \ {q} : installing'[o] = installing[o]
  BY MovesFits DEF BundleInv
<1>2. /\ bundle'.publisher = bundle.publisher /\ bundle'.places = bundle.places
      /\ bundle'.disk = held /\ bundle'.manifest = m
      /\ bundle' \in [publisher : Preparers \cup {"none"},
                      disk : {"blank", "partial", "installed"}, places : Places,
                      manifest : Manifests \cup {NoManifest}]
  BY DEF BundleInv, Typed
<1>3. Typed'
  BY <1>1, <1>2 DEF BundleInv, Typed, Published, Steps, InstallResults
<1>4. \A p \in Preparers : StagedFits(p)'
  BY DEF BundleInv, StagedFits
<1>5. Published /\ Published' /\ bundle.manifest.state \in {"prepared", "installing"}
      /\ \A o \in Installers : Busy(o) => o = q
  BY <1>2 DEF BundleInv, InstallerFits, Published
<1>6. DiskFits'
  BY <1>2, <1>5 DEF BundleInv, DiskFits
<1>7. MachineFits'
  BY <1>5 DEF BundleInv, MachineFits
<1>8. \A o \in Installers : Busy(o)' => o = q /\ pc \notin {"done", "dead"}
  BY <1>1, <1>5 DEF Busy
<1>9. ASSUME NEW o \in Installers PROVE InstallerFits(o)'
  <2> SUFFICES ASSUME Busy(o)' PROVE InstallerFits(o)'
    BY DEF InstallerFits
  <2>1. o = q /\ pc \notin {"done", "dead"}
    BY <1>8
  <2> QED BY <2>1, <1>1, <1>2, <1>5, <1>8 DEF InstallerFits
<1> QED BY <1>3, <1>4, <1>6, <1>7, <1>9 DEF BundleInv

\* Recording a state: the manifest follows what the installer has in mind.
LEMMA Recorded ==
    ASSUME BundleInv, NEW q \in Installers, Busy(q), NEW s \in InstallationStates,
           NEW pc \in {"starting", "done"}, NEW result \in InstallResults,
           Updates(q, s, pc, result),
           UNCHANGED <<staging, preparing, machine, setting>>,
           used' \in [edits : Nat, failures : Nat], used'.edits = used.edits,
           s = "Prepared" => bundle.disk = "blank",
           s = "Installed" => bundle.disk = "installed",
           pc = "starting" => s = "Installing" /\ bundle.disk = "blank"
    PROVE  /\ BundleInv'
           /\ Decodes(bundle'.manifest)
           /\ [decode(bundle'.manifest) EXCEPT !.state = State] = decode(bundle.manifest)
<1>1. /\ Published /\ bundle.manifest \in Manifests /\ Decodes(bundle.manifest)
      /\ installing[q].realm = decode(bundle.manifest)
      /\ bundle.disk \in {"blank", "partial", "installed"}
  BY DEF BundleInv, Typed, InstallerFits
<1> DEFINE realm == [decode(bundle.manifest) EXCEPT !.state = s]
<1> DEFINE m == encode(realm)
<1>2. /\ m \in Manifests /\ Decodes(m) /\ m.state = StateName[s] /\ decode(m) = realm
      /\ [decode(m) EXCEPT !.state = State] = decode(bundle.manifest)
      /\ Whole(bundle.manifest) => Whole(m)
  BY <1>1, StateIsRecorded DEF State
<1>3. realm \in Realms
  BY <1>2, ManifestReads
<1>4. Moves(q, pc, realm, result) /\ bundle' = [bundle EXCEPT !.manifest = m]
  BY <1>1 DEF Updates, Persists
<1> HIDE DEF realm, m
<1>5. bundle' = [bundle EXCEPT !.disk = bundle.disk, !.manifest = m]
  BY <1>4 DEF BundleInv, Typed
<1>6. /\ StateName[s] = "prepared" => s = "Prepared"
      /\ StateName[s] = "installed" => s = "Installed"
      /\ s = "Installing" => StateName[s] = "installing"
  BY DEF StateName, InstallationStates
<1>7. BundleInv'
  BY <1>1, <1>2, <1>3, <1>4, <1>5, <1>6, Proceeds DEF Steps
<1>8. bundle'.manifest = m
  BY <1>4 DEF BundleInv, Typed
<1> QED BY <1>2, <1>7, <1>8

\* An installer starts on a bundle that is prepared, and alone.
LEMMA Install ==
    ASSUME BundleInv, NEW q \in Installers, install(q), UNCHANGED setting PROVE BundleInv'
<1>1. /\ \A o \in Installers : ~Busy(o)
      /\ UNCHANGED <<staging, preparing, bundle, machine, used>>
  BY DEF install
<1>2. used' \in [edits : Nat, failures : Nat] /\ used'.edits = used.edits
  BY <1>1 DEF BundleInv, Typed
<1>3. CASE ~Openable("Prepared")
  <2>1. Moves(q, "done", NoRealm, "refused")
    BY <1>3 DEF install
  <2> QED BY <1>1, <1>2, <2>1, Leaves DEF InstallResults
<1>4. CASE Openable("Prepared")
  <2> DEFINE realm == decode(bundle.manifest)
  <2>1. Moves(q, "opened", realm, "none")
    BY <1>4 DEF install
  <2>2. /\ Published /\ bundle.manifest \in Manifests /\ Decodes(bundle.manifest)
        /\ realm.state = "Prepared"
    BY <1>4 DEF Openable, RealmBundle_open, BundleInv, Typed
  <2>3. realm \in Realms /\ bundle.manifest.state = "prepared"
    BY <2>2, ManifestReads
  <2> HIDE DEF realm
  <2>4. /\ installing' \in [Installers -> [pc : Steps, realm : Realms \cup {NoRealm},
                                           result : InstallResults]]
        /\ installing'[q].pc = "opened" /\ installing'[q].realm = realm
        /\ \A o \in Installers \ {q} : installing'[o] = installing[o]
    BY <2>1, <2>3, MovesFits DEF BundleInv, Steps, InstallResults
  <2>5. Typed'
    BY <1>1, <2>4 DEF BundleInv, Typed, Published, Steps, InstallResults
  <2>6. /\ \A p \in Preparers : StagedFits(p)'
        /\ DiskFits' /\ MachineFits'
    BY <1>1 DEF BundleInv, DiskFits, MachineFits, OpenedIsAccepted, Published, StagedFits
  <2>7. \A o \in Installers : Busy(o)' => o = q
    BY <1>1, <2>4 DEF Busy
  <2>8. bundle.disk = "blank"
    BY <2>2, <2>3 DEF BundleInv, DiskFits
  <2>9. ASSUME NEW o \in Installers PROVE InstallerFits(o)'
    BY <1>1, <2>2, <2>3, <2>4, <2>7, <2>8 DEF InstallerFits, Published, realm
  <2> QED BY <2>5, <2>6, <2>9 DEF BundleInv
<1> QED BY <1>3, <1>4

\* What an installer that has read the bundle knows of it.
LEMMA Knows ==
    ASSUME BundleInv, NEW q \in Installers,
           installing[q].pc \in {"opened", "starting", "running", "writing", "written",
                                 "broken"}
    PROVE  /\ Busy(q) /\ Published /\ bundle.manifest \in Manifests
           /\ Decodes(bundle.manifest)
           /\ installing[q].realm = decode(bundle.manifest)
           /\ installing[q].realm \in Realms
           /\ installing[q].pc \in {"opened", "starting", "running"} => bundle.disk = "blank"
           /\ installing[q].pc = "written" => bundle.disk = "installed"
           /\ installing[q].pc # "opened" => bundle.manifest.state = "installing"
           /\ bundle.disk \in {"blank", "partial", "installed"}
           /\ used \in [edits : Nat, failures : Nat]
<1>1. Busy(q)
  BY DEF Busy
<1>2. /\ Published /\ Decodes(bundle.manifest) /\ installing[q].realm = decode(bundle.manifest)
      /\ bundle.manifest.state = IF installing[q].pc = "opened" THEN "prepared" ELSE "installing"
      /\ installing[q].pc \in {"opened", "starting", "running"} => bundle.disk = "blank"
      /\ installing[q].pc = "written" => bundle.disk = "installed"
  BY <1>1 DEF BundleInv, InstallerFits
<1>3. bundle.manifest \in Manifests /\ bundle.disk \in {"blank", "partial", "installed"}
      /\ used \in [edits : Nat, failures : Nat]
  BY <1>2 DEF BundleInv, Typed
<1>4. installing[q].realm \in Realms
  BY <1>2, <1>3, ManifestReads
<1> QED BY <1>1, <1>2, <1>3, <1>4

\* An installation that goes on, and may have written to the disk.
LEMMA GoesOn ==
    ASSUME BundleInv, NEW q \in Installers,
           installing[q].pc \in {"starting", "running", "writing"},
           NEW pc \in {"running", "writing", "broken", "written"},
           NEW held \in {"blank", "partial", "installed"},
           Moves(q, pc, installing[q].realm, "none"),
           bundle' = [bundle EXCEPT !.disk = held],
           UNCHANGED <<staging, preparing, machine, setting>>,
           used' \in [edits : Nat, failures : Nat], used'.edits = used.edits,
           pc = "running" => held = "blank",
           pc = "written" => held = "installed"
    PROVE  BundleInv'
<1>1. /\ Busy(q) /\ bundle.manifest \in Manifests /\ Decodes(bundle.manifest)
      /\ installing[q].realm = decode(bundle.manifest) /\ installing[q].realm \in Realms
      /\ bundle.manifest.state = "installing"
  BY Knows
<1>2. bundle' = [bundle EXCEPT !.disk = held, !.manifest = bundle.manifest]
  BY DEF BundleInv, Typed
<1> DEFINE m == bundle.manifest
<1> DEFINE realm == installing[q].realm
<1>3. /\ m \in Manifests /\ Decodes(m) /\ realm = decode(m) /\ realm \in Realms
      /\ bundle' = [bundle EXCEPT !.disk = held, !.manifest = m]
      /\ Moves(q, pc, realm, "none")
  BY <1>1, <1>2
<1>4. Whole(bundle.manifest) => Whole(m)
  OBVIOUS
<1>5. /\ m.state = "prepared" => held = "blank"
      /\ m.state = "installed" => held = "installed"
      /\ m.state = IF pc = "opened" THEN "prepared" ELSE "installing"
      /\ pc \in {"opened", "starting", "running"} => held = "blank"
      /\ pc = "written" => held = "installed"
  BY <1>1
<1> HIDE DEF m, realm
<1>6. pc \in Steps \ {"idle"} /\ "none" \in InstallResults
  BY DEF Steps, InstallResults
<1>7. pc \notin {"done", "dead"} =>
          /\ m.state = IF pc = "opened" THEN "prepared" ELSE "installing"
          /\ pc \in {"opened", "starting", "running"} => held = "blank"
          /\ pc = "written" => held = "installed"
  BY <1>5
<1>8. /\ BundleInv /\ Busy(q) /\ UNCHANGED <<staging, preparing, machine, setting>>
      /\ used' \in [edits : Nat, failures : Nat] /\ used'.edits = used.edits
  BY <1>1
<1>9. m.state = "prepared" => held = "blank"
  BY <1>5
<1>10. m.state = "installed" => held = "installed"
  BY <1>5
<1> QED BY ONLY <1>3, <1>4, <1>6, <1>7, <1>8, <1>9, <1>10, Proceeds

\* The state is recorded before anything is written.
LEMMA RecordInstalling ==
    ASSUME BundleInv, NEW q \in Installers, record_installing(q), UNCHANGED setting PROVE BundleInv'
<1>1. PICK failed \in BOOLEAN :
          /\ \/ Moves(q, "done", NoRealm, "failed") /\ UNCHANGED bundle
             \/ Updates(q, "Installing", "starting", "none")
          /\ CountFailure(failed)
  BY DEF record_installing, Failures
<1>2. used' \in [edits : Nat, failures : Nat] /\ used'.edits = used.edits
  BY <1>1, Counts DEF BundleInv
<1>3. installing[q].pc = "opened" /\ UNCHANGED <<staging, preparing, machine>>
  BY DEF record_installing
<1>4. Busy(q) /\ bundle.disk = "blank"
  BY <1>3, Knows
<1>5. CASE Moves(q, "done", NoRealm, "failed") /\ UNCHANGED bundle
  BY <1>2, <1>3, <1>5, Leaves DEF InstallResults
<1>6. CASE Updates(q, "Installing", "starting", "none")
  BY <1>2, <1>3, <1>4, <1>6, Recorded DEF InstallResults, InstallationStates
<1> QED BY <1>1, <1>5, <1>6

\* An installation that is refused is rolled back over a blank disk.
LEMMA InstallMacos ==
    ASSUME BundleInv, NEW q \in Installers, install_macos(q), UNCHANGED setting PROVE BundleInv'
<1>1. installing[q].pc = "starting" /\ UNCHANGED <<staging, preparing, machine>>
  BY DEF install_macos
<1>2. /\ Busy(q) /\ bundle.manifest \in Manifests /\ Decodes(bundle.manifest)
      /\ installing[q].realm = decode(bundle.manifest) /\ installing[q].realm \in Realms
      /\ bundle.disk = "blank" /\ bundle.manifest.state = "installing"
      /\ bundle = [bundle EXCEPT !.disk = "blank"]
      /\ used \in [edits : Nat, failures : Nat]
  BY <1>1, Knows DEF BundleInv, Typed
<1>3. CASE Moves(q, "running", installing[q].realm, "none") /\ UNCHANGED <<bundle, used>>
  <2>1. bundle' = [bundle EXCEPT !.disk = "blank"]
    BY <1>2, <1>3
  <2> QED BY <1>1, <1>2, <1>3, <2>1, GoesOn
<1>4. CASE CountFailure(TRUE) /\ Updates(q, "Prepared", "done", "failed")
  BY <1>1, <1>2, <1>4, Counts, Recorded DEF InstallResults, InstallationStates, BundleInv
<1>5. CASE CountFailure(TRUE) /\ Moves(q, "done", NoRealm, "failed") /\ UNCHANGED bundle
  BY <1>1, <1>5, Counts, Leaves DEF InstallResults, BundleInv
<1> QED BY <1>3, <1>4, <1>5 DEF install_macos

\* The adapter writes the disk of an installation that is recorded.
LEMMA WritesFits ==
    ASSUME BundleInv, NEW q \in Installers, Writes(q), UNCHANGED setting PROVE BundleInv'
<1>1. /\ installing[q].pc = "running" /\ UNCHANGED <<staging, preparing, machine, used>>
      /\ bundle' = [bundle EXCEPT !.disk = "partial"]
      /\ Moves(q, "writing", installing[q].realm, "none")
  BY DEF Writes
<1>2. used \in [edits : Nat, failures : Nat]
  BY DEF BundleInv, Typed
<1> QED BY <1>1, <1>2, GoesOn

\* The disk is complete just when the adapter reports no error.
LEMMA FinishesFits ==
    ASSUME BundleInv, NEW q \in Installers, Finishes(q), UNCHANGED setting PROVE BundleInv'
<1>1. /\ installing[q].pc = "writing" /\ UNCHANGED <<staging, preparing, machine>>
  BY DEF Finishes
<1>2. PICK failed \in BOOLEAN :
          /\ bundle' = [bundle EXCEPT !.disk = IF failed THEN @ ELSE "installed"]
          /\ Moves(q, IF failed THEN "broken" ELSE "written", installing[q].realm, "none")
          /\ CountFailure(failed)
  BY DEF Finishes, Failures
<1>3. used' \in [edits : Nat, failures : Nat] /\ used'.edits = used.edits
  BY <1>2, Counts DEF BundleInv
<1>4. CASE failed
  <2>1. /\ bundle' = [bundle EXCEPT !.disk = bundle.disk]
        /\ bundle.disk \in {"blank", "partial", "installed"}
    BY <1>2, <1>4 DEF BundleInv, Typed
  <2>2. Moves(q, "broken", installing[q].realm, "none")
    BY <1>2, <1>4
  <2> QED BY <1>1, <1>3, <2>1, <2>2, GoesOn
<1>5. CASE ~failed
  <2>1. /\ bundle' = [bundle EXCEPT !.disk = "installed"]
        /\ Moves(q, "written", installing[q].realm, "none")
    BY <1>2, <1>5
  <2> QED BY <1>1, <1>3, <2>1, GoesOn
<1> QED BY <1>4, <1>5

\* How the installation ended is recorded as it ended.
LEMMA InstallationCompleted ==
    ASSUME BundleInv, NEW q \in Installers, installation_completed(q), UNCHANGED setting
    PROVE  BundleInv'
<1>1. /\ installing[q].pc \in {"written", "broken"}
      /\ UNCHANGED <<staging, preparing, machine>>
  BY DEF installation_completed
<1>2. PICK failed \in BOOLEAN :
          /\ \/ Moves(q, "done", NoRealm, "failed") /\ UNCHANGED bundle
             \/ /\ installing[q].pc = "written"
                /\ Updates(q, "Installed", "done", "ok")
             \/ Updates(q, "InstallationFailed", "done", "failed")
          /\ CountFailure(failed)
  BY DEF installation_completed, Failures
<1>3. used' \in [edits : Nat, failures : Nat] /\ used'.edits = used.edits
  BY <1>2, Counts DEF BundleInv
<1>4. Busy(q) /\ (installing[q].pc = "written" => bundle.disk = "installed")
  BY <1>1, Knows
<1>5. CASE Moves(q, "done", NoRealm, "failed") /\ UNCHANGED bundle
  BY <1>1, <1>3, <1>5, Leaves DEF InstallResults
<1>6. CASE installing[q].pc = "written" /\ Updates(q, "Installed", "done", "ok")
  BY <1>1, <1>3, <1>4, <1>6, Recorded DEF InstallResults, InstallationStates
<1>7. CASE Updates(q, "InstallationFailed", "done", "failed")
  BY <1>1, <1>3, <1>4, <1>7, Recorded DEF InstallResults, InstallationStates
<1> QED BY <1>2, <1>5, <1>6, <1>7

---------------------------------------------------------------------------
(* The application, the user, and deaths.                                  *)

\* What is opened is installed, valid, and where it belongs.
LEMMA OpenMacosRealm ==
    ASSUME BundleInv, open_macos_realm, UNCHANGED setting PROVE BundleInv'
<1>1. /\ Openable("Installed") /\ UNCHANGED <<staging, preparing, bundle, installing, used>>
      /\ machine' = [configuration |-> configuration(decode(bundle.manifest)),
                     places |-> bundle.places]
  BY DEF open_macos_realm
<1> DEFINE realm == decode(bundle.manifest)
<1>2. /\ Published /\ bundle.manifest \in Manifests /\ Decodes(bundle.manifest)
      /\ realm.state = "Installed" /\ Configures(realm)
      /\ bundle.places = "sound"
  BY <1>1 DEF Openable, RealmBundle_open, resolve_vz_macos, validate_artifacts,
              resolve_saved_state_files, BundleInv, Typed, Places
<1>3. /\ realm \in Realms /\ validate(realm) /\ bundle.manifest.state = "installed"
  BY <1>2, ManifestReads DEF Decodes
<1>4. machine'.configuration = configuration(realm) /\ machine'.places = "sound"
  BY <1>1, <1>2
<1>5. configuration(realm) \in Configurations /\ Accepted(configuration(realm))
      /\ configuration(realm).memory_mib <= MaxMemory
  BY <1>2, <1>3, ValidIsAccepted DEF Configures, configuration
<1> HIDE DEF realm
<1>6. OpenedIsAccepted'
  BY <1>4, <1>5 DEF OpenedIsAccepted
<1>7. machine' \in [configuration : Configurations, places : Places]
  BY <1>1, <1>2, <1>5 DEF Places, realm
<1>8. Typed'
  BY <1>1, <1>7 DEF BundleInv, Typed, Published
<1>9. MachineFits'
  BY <1>1, <1>2, <1>3, <1>6 DEF MachineFits, Published
<1>10. /\ \A p \in Preparers : StagedFits(p)'
       /\ DiskFits'
  BY <1>1 DEF BundleInv, DiskFits, Published, StagedFits
<1>11. ASSUME NEW q \in Installers PROVE InstallerFits(q)'
  BY <1>1, <1>11 DEF BundleInv, InstallerFits, Busy, Published
<1> QED BY <1>8, <1>9, <1>10, <1>11 DEF BundleInv

\* Closing a realm leaves its bundle alone.
LEMMA CloseRealm ==
    ASSUME BundleInv, close_realm, UNCHANGED setting PROVE BundleInv'
<1>1. machine' = None /\ UNCHANGED <<staging, preparing, bundle, installing, used>>
  BY DEF close_realm
<1>2. Typed' /\ MachineFits'
  BY <1>1 DEF BundleInv, Typed, Published, MachineFits
<1>3. /\ \A p \in Preparers : StagedFits(p)'
      /\ DiskFits'
  BY <1>1 DEF BundleInv, DiskFits, Published, StagedFits
<1>4. ASSUME NEW q \in Installers PROVE InstallerFits(q)'
  BY <1>1, <1>4 DEF BundleInv, InstallerFits, Busy, Published
<1> QED BY <1>2, <1>3, <1>4 DEF BundleInv

\* What the user makes of a manifest is one, of the same state.
LEMMA ManifestIsEdited ==
    ASSUME NEW m \in Manifests, NEW e \in Edits \ {"lost", "blocked"}
    PROVE  EditedManifest(e, m) \in Manifests /\ EditedManifest(e, m).state = m.state
<1>1. /\ m.disks \in Seq(ManifestDisks) /\ m.disks # <<>>
      /\ m.cpu_count \in Nat /\ m.image \in ImageRequirements /\ MaxMemory \in Nat
  BY RealmManifestAssumption DEF Manifests
<1>2. 1 \in 1..Len(m.disks) /\ m.disks[1] \in ManifestDisks
  BY <1>1, EmptySeq, LenProperties, ElementOfSeq
<1>3. CASE e \in {"cpu", "memory", "more", "schema", "system"}
  <2>1. CASE e = "cpu"
    <3>1. EditedManifest(e, m) = [m EXCEPT !.cpu_count = 0]
      BY <2>1 DEF EditedManifest
    <3> QED BY <1>1, <3>1 DEF Manifests
  <2>2. CASE e = "memory"
    <3>1. EditedManifest(e, m) = [m EXCEPT !.memory_mib = MaxMemory + 1]
      BY <2>2 DEF EditedManifest
    <3> QED BY <1>1, <3>1 DEF Manifests
  <2>3. CASE e = "more"
    <3>1. EditedManifest(e, m) = [m EXCEPT !.memory_mib = MaxMemory]
      BY <2>3 DEF EditedManifest
    <3> QED BY <1>1, <3>1 DEF Manifests
  <2>4. CASE e = "schema"
    <3>1. EditedManifest(e, m) = [m EXCEPT !.schema_version = "v2"]
      BY <2>4 DEF EditedManifest
    <3> QED BY <1>1, <3>1 DEF Manifests
  <2>5. CASE e = "system"
    <3>1. EditedManifest(e, m) = [m EXCEPT !.system = "linux"]
      BY <2>5 DEF EditedManifest
    <3> QED BY <1>1, <3>1 DEF Manifests
  <2> QED BY <1>3, <2>1, <2>2, <2>3, <2>4, <2>5
<1>4. CASE e = "format"
  <2> DEFINE d == [m.disks[1] EXCEPT !.format = "qcow2"]
  <2> DEFINE s == [m.disks EXCEPT ![1] = d]
  <2>1. d \in ManifestDisks
    BY <1>2 DEF ManifestDisks, Disks
  <2> HIDE DEF d
  <2>2. s \in Seq(ManifestDisks) /\ Len(s) = Len(m.disks)
    BY <1>1, <1>2, <2>1, ExceptSeq
  <2>3. s # <<>>
    BY <1>2, <2>2
  <2>4. EditedManifest(e, m) = [m EXCEPT !.disks = s]
    BY <1>4 DEF EditedManifest, d
  <2> HIDE DEF s
  <2> QED BY <1>1, <2>2, <2>3, <2>4 DEF Manifests
<1>5. CASE e = "image"
  <2>1. [m.image EXCEPT !.cpu_count = @ + 1] \in ImageRequirements
    BY <1>1 DEF ImageRequirements
  <2>2. EditedManifest(e, m) = [m EXCEPT !.image = [m.image EXCEPT !.cpu_count = @ + 1]]
    BY <1>5 DEF EditedManifest
  <2> QED BY <1>1, <2>1, <2>2 DEF Manifests
<1>6. CASE e = "disk"
  <2> DEFINE s == m.disks \o m.disks
  <2>1. s \in Seq(ManifestDisks) /\ s # <<>>
    BY <1>1, <1>2, ConcatProperties, EmptySeq, LenProperties
  <2>2. EditedManifest(e, m) = [m EXCEPT !.disks = s]
    BY <1>6 DEF EditedManifest
  <2> HIDE DEF s
  <2> QED BY <1>1, <2>1, <2>2 DEF Manifests
<1> QED BY <1>3, <1>4, <1>5, <1>6 DEF Edits

\* An edit leaves who published the bundle, what its disk holds, and its state.
LEMMA Edited ==
    ASSUME BundleInv, NEW e \in Edits, EditBundle(e)
    PROVE  /\ bundle'.manifest \in Manifests
           /\ bundle'.manifest.state = bundle.manifest.state
           /\ bundle'.publisher = bundle.publisher /\ bundle'.disk = bundle.disk
           /\ bundle' \in [publisher : Preparers \cup {"none"},
                           disk : {"blank", "partial", "installed"}, places : Places,
                           manifest : Manifests \cup {NoManifest}]
<1> DEFINE m == EditedManifest(e, bundle.manifest)
<1>1. bundle.manifest \in Manifests
  BY DEF EditBundle, BundleInv, Typed
<1>2. CASE e \in {"lost", "blocked"}
  BY <1>1, <1>2 DEF EditBundle, BundleInv, Typed, Places
<1>3. CASE e \notin {"lost", "blocked"}
  <2>1. m \in Manifests /\ m.state = bundle.manifest.state
    BY <1>1, <1>3, ManifestIsEdited
  <2>2. bundle' = [bundle EXCEPT !.manifest = m]
    BY <1>3 DEF EditBundle
  <2> HIDE DEF m
  <2> QED BY <2>1, <2>2 DEF BundleInv, Typed
<1> QED BY <1>2, <1>3

\* What a user edits leaves the state and the disk as they were.
LEMMA EditFits ==
    ASSUME BundleInv, NEW e \in Edits, EditBundle(e), UNCHANGED setting PROVE BundleInv'
<1>1. /\ Published /\ \A q \in Installers : ~Busy(q)
      /\ used' = [used EXCEPT !.edits = @ + 1]
      /\ UNCHANGED <<staging, preparing, installing, machine>>
  BY DEF EditBundle
<1>2. used' \in [edits : Nat, failures : Nat] /\ used'.edits # 0
  BY <1>1 DEF BundleInv, Typed
<1>3. /\ bundle'.manifest \in Manifests
      /\ bundle'.manifest.state = bundle.manifest.state
      /\ bundle'.publisher = bundle.publisher /\ bundle'.disk = bundle.disk
      /\ bundle' \in [publisher : Preparers \cup {"none"},
                      disk : {"blank", "partial", "installed"}, places : Places,
                      manifest : Manifests \cup {NoManifest}]
  BY Edited
<1>4. Typed'
  BY <1>1, <1>2, <1>3 DEF BundleInv, Typed
<1>5. DiskFits' /\ MachineFits'
  BY <1>1, <1>2, <1>3 DEF BundleInv, DiskFits, MachineFits, OpenedIsAccepted, Published
<1>6. \A p \in Preparers : StagedFits(p)'
  BY <1>1 DEF BundleInv, StagedFits
<1>7. \A q \in Installers : InstallerFits(q)'
  BY <1>1 DEF InstallerFits, Busy
<1> QED BY <1>4, <1>5, <1>6, <1>7 DEF BundleInv

\* A process that dies leaves the bundle to the others.
LEMMA DiesFits ==
    ASSUME BundleInv, Dies, UNCHANGED setting PROVE BundleInv'
<1>1. UNCHANGED <<staging, bundle, machine, used>>
  BY DEF Dies
<1>2. used' \in [edits : Nat, failures : Nat] /\ used'.edits = used.edits
  BY <1>1 DEF BundleInv, Typed
<1>3. ASSUME NEW p \in Preparers, preparing' = [preparing EXCEPT ![p] = "dead"],
             UNCHANGED installing
      PROVE  BundleInv'
  <2>1. preparing' \in [Preparers -> {"idle", "preparing", "prepared", "publishing",
                                     "done", "dead"}]
    BY <1>3 DEF BundleInv, Typed
  <2>2. \A q \in Preparers : preparing'[q] \in {preparing[q], "dead"}
    BY <1>3 DEF BundleInv, Typed
  <2>3. \A q \in Preparers : StagedFits(q)'
    BY <1>1, <2>2 DEF BundleInv, StagedFits
  <2>4. staging' \in [Preparers -> Directories]
    BY <1>1 DEF BundleInv, Typed
  <2> QED BY <1>1, <1>2, <1>3, <2>1, <2>3, <2>4, PreparersKeep
<1>4. ASSUME NEW q \in Installers, Moves(q, "dead", NoRealm, "none"), UNCHANGED preparing
      PROVE  BundleInv'
  BY <1>1, <1>2, <1>4, Leaves DEF InstallResults
<1> QED BY <1>3, <1>4 DEF Dies

\* Each step keeps the invariant.
LEMMA BundleStep ==
    ASSUME BundleInv, [BundleNext]_bundle_vars PROVE BundleInv'
<1>1. CASE UNCHANGED bundle_vars
  <2>1. Typed' /\ DiskFits' /\ MachineFits'
    BY <1>1 DEF bundle_vars, BundleInv, Typed, DiskFits, MachineFits, OpenedIsAccepted,
                Published
  <2>2. \A p \in Preparers : StagedFits(p)'
    BY <1>1 DEF bundle_vars, BundleInv, StagedFits
  <2>3. ASSUME NEW q \in Installers PROVE InstallerFits(q)'
    BY <1>1, <2>3 DEF bundle_vars, BundleInv, InstallerFits, Busy, Published
  <2> QED BY <2>1, <2>2, <2>3 DEF BundleInv
<1>2. CASE \E p \in Preparers : /\ \/ begin(p) \/ preparation_completed(p)
                                    \/ publish_vz_macos(p) \/ rename(p)
                                 /\ UNCHANGED setting
  BY <1>2, Begin, PreparationCompleted, PublishVzMacos, Rename
<1>3. CASE \E q \in Installers : /\ \/ install(q) \/ record_installing(q)
                                     \/ install_macos(q) \/ Writes(q) \/ Finishes(q)
                                     \/ installation_completed(q)
                                  /\ UNCHANGED setting
  BY <1>3, Install, RecordInstalling, InstallMacos, WritesFits, FinishesFits,
     InstallationCompleted
<1>4. CASE (open_macos_realm \/ close_realm \/ Dies) /\ UNCHANGED setting
  BY <1>4, OpenMacosRealm, CloseRealm, DiesFits
<1>5. CASE \E e \in Edits : EditBundle(e) /\ UNCHANGED setting
  BY <1>5, EditFits
<1> QED BY <1>1, <1>2, <1>3, <1>4, <1>5 DEF BundleNext

---------------------------------------------------------------------------
(* What follows from the invariant.                                        *)

\* The types the run checks are part of the invariant.
LEMMA BundleIsTyped == ASSUME BundleInv PROVE BundleTypeOK
<1>1. \A p \in Preparers :
          /\ staging[p].is \in {"none", "made", "populated", "whole"}
          /\ preparing[p] \in {"idle", "preparing", "prepared", "publishing", "done", "dead"}
  BY DEF BundleInv, Typed, Directories
<1>2. ASSUME NEW p \in Preparers, preparing[p] = "publishing"
      PROVE  staging[p].is = "whole" /\ Decodes(staging[p].manifest)
  BY <1>2, WholeDecodes DEF BundleInv, StagedFits, Whole
<1>3. /\ bundle.publisher \in Preparers \cup {"none"}
      /\ bundle.disk \in {"blank", "partial", "installed"}
      /\ bundle.places \in {"sound", "lost", "blocked"}
  BY DEF BundleInv, Typed, Places
<1>4. \A q \in Installers :
          /\ installing[q].pc \in {"idle", "opened", "starting", "running",
                                   "writing", "written", "broken", "done", "dead"}
          /\ installing[q].result \in {"none", "refused", "failed", "ok"}
  BY DEF BundleInv, Typed
<1> QED BY <1>1, <1>2, <1>3, <1>4 DEF BundleTypeOK

\* A bundle is told to be installed and is opened only when it is complete,
\* what is published opens, and a preparation that ends leaves nothing behind.
LEMMA BundleTrusts ==
    ASSUME BundleInv
    PROVE  InstalledIsComplete /\ OpenedIsAccepted /\ PublishedCanBeOpened /\ StagingIsRemoved
<1>1. InstalledIsComplete
  BY ManifestReads DEF InstalledIsComplete, State, BundleInv, Typed, DiskFits, MachineFits
<1>2. OpenedIsAccepted
  BY DEF OpenedIsAccepted, BundleInv, MachineFits
<1>3. StagingIsRemoved
  BY DEF StagingIsRemoved, BundleInv, StagedFits
<1>4. PublishedCanBeOpened
  <2> SUFFICES ASSUME Published, used.edits = 0
               PROVE  /\ RealmBundle_open /\ resolve_vz_macos(decode(bundle.manifest))
                      /\ Configures(decode(bundle.manifest))
                      /\ Accepted(configuration(decode(bundle.manifest)))
    BY DEF PublishedCanBeOpened
  <2>1. bundle.places = "sound" /\ Whole(bundle.manifest) /\ bundle.manifest \in Manifests
    BY DEF BundleInv, Typed, DiskFits
  <2> DEFINE realm == decode(bundle.manifest)
  <2>2. Decodes(bundle.manifest) /\ Configures(realm)
    BY <2>1, WholeDecodes
  <2>3. realm \in Realms /\ validate(realm)
    BY <2>1, ManifestReads DEF Whole
  <2>4. /\ Accepted(configuration(realm))
        /\ realm.kind = "VirtualMachine" /\ realm.system = "MacOs"
        /\ realm.architecture = "Aarch64"
    BY <2>3, ValidIsAccepted
  <2>5. validate_artifacts /\ resolve_saved_state_files
    BY <2>1 DEF validate_artifacts, resolve_saved_state_files
  <2> QED BY <2>2, <2>4, <2>5 DEF RealmBundle_open, resolve_vz_macos
<1> QED BY <1>1, <1>2, <1>3, <1>4

\* A bundle is not replaced, an installation writes a blank disk, and recording
\* a state changes nothing else.
LEMMA BundleKeeps ==
    ASSUME BundleInv, [BundleNext]_bundle_vars
    PROVE  NeverReplaced /\ InstallsOnBlankDisk /\ OnlyStateIsRecorded
<1>1. InstallsOnBlankDisk
  <2> SUFFICES ASSUME NEW q \in Installers, installing[q].pc = "running"
               PROVE  bundle.disk = "blank"
    BY DEF InstallsOnBlankDisk
  <2> QED BY Knows
<1>2. CASE UNCHANGED bundle
  BY <1>1, <1>2 DEF NeverReplaced, OnlyStateIsRecorded
<1>3. ASSUME NEW q \in Installers, NEW s, NEW pc, NEW result, Updates(q, s, pc, result)
      PROVE  NeverReplaced
  BY <1>3 DEF Updates, Persists, NeverReplaced, BundleInv, Typed
<1>4. CASE \E p \in Preparers : rename(p)
  <2>1. UNCHANGED bundle \/ ~Published
    BY <1>4 DEF rename, Failures
  <2> QED BY <1>1, <1>2, <2>1 DEF NeverReplaced, OnlyStateIsRecorded
<1>5. CASE \E e \in Edits : EditBundle(e)
  <2>1. PICK e \in Edits : EditBundle(e)
    BY <1>5
  <2>2. bundle'.publisher = bundle.publisher
    BY <2>1, Edited
  <2>3. used'.edits # used.edits
    BY <2>1 DEF EditBundle, BundleInv, Typed
  <2> QED BY <1>1, <2>2, <2>3 DEF NeverReplaced, OnlyStateIsRecorded
<1>6. ASSUME NEW q \in Installers, Writes(q) \/ Finishes(q)
      PROVE  NeverReplaced /\ OnlyStateIsRecorded
  <2>1. bundle'.publisher = bundle.publisher /\ bundle'.manifest = bundle.manifest
    BY <1>6 DEF Writes, Finishes, BundleInv, Typed
  <2> QED BY <2>1 DEF NeverReplaced, OnlyStateIsRecorded
<1>7. ASSUME NEW q \in Installers, UNCHANGED setting,
             record_installing(q) \/ install_macos(q) \/ installation_completed(q)
      PROVE  NeverReplaced /\ OnlyStateIsRecorded
  <2>1. /\ installing[q].pc \in {"opened", "starting", "written", "broken"}
        /\ UNCHANGED <<staging, preparing, machine>>
    BY <1>7 DEF record_installing, install_macos, installation_completed
  <2>2. Busy(q) /\ (installing[q].pc \in {"opened", "starting"} => bundle.disk = "blank")
        /\ (installing[q].pc = "written" => bundle.disk = "installed")
        /\ used \in [edits : Nat, failures : Nat]
    BY <2>1, Knows
  <2>3. \/ UNCHANGED bundle
        \/ /\ \E failed \in BOOLEAN : CountFailure(failed)
           /\ \/ /\ installing[q].pc = "opened"
                 /\ Updates(q, "Installing", "starting", "none")
              \/ /\ installing[q].pc = "starting"
                 /\ Updates(q, "Prepared", "done", "failed")
              \/ /\ installing[q].pc = "written"
                 /\ Updates(q, "Installed", "done", "ok")
              \/ Updates(q, "InstallationFailed", "done", "failed")
    BY <1>7 DEF record_installing, install_macos, installation_completed, Failures
  <2>4. CASE UNCHANGED bundle
    BY <2>4 DEF NeverReplaced, OnlyStateIsRecorded
  <2>5. ASSUME \E failed \in BOOLEAN : CountFailure(failed)
        PROVE  used' \in [edits : Nat, failures : Nat] /\ used'.edits = used.edits
    BY <2>5, Counts DEF BundleInv
  <2>6. ASSUME \E failed \in BOOLEAN : CountFailure(failed),
               NEW s \in InstallationStates, NEW pc \in {"starting", "done"}, NEW result \in InstallResults,
               Updates(q, s, pc, result),
               s = "Prepared" => bundle.disk = "blank",
               s = "Installed" => bundle.disk = "installed",
               pc = "starting" => s = "Installing" /\ bundle.disk = "blank"
        PROVE  NeverReplaced /\ OnlyStateIsRecorded
    <3>1. used' \in [edits : Nat, failures : Nat] /\ used'.edits = used.edits
      BY <2>5, <2>6
    <3>2. /\ Decodes(bundle'.manifest)
          /\ [decode(bundle'.manifest) EXCEPT !.state = State] = decode(bundle.manifest)
      BY <1>7, <2>1, <2>2, <2>6, <3>1, Recorded
    <3> QED BY <1>3, <2>6, <3>2 DEF OnlyStateIsRecorded
  <2>7. "none" \in InstallResults /\ "failed" \in InstallResults /\ "ok" \in InstallResults
        /\ {"Prepared", "Installing", "Installed", "InstallationFailed"} = InstallationStates
    BY DEF InstallResults, InstallationStates
  <2> QED BY <2>2, <2>3, <2>4, <2>6, <2>7
<1>8. \/ UNCHANGED bundle
      \/ \E p \in Preparers : rename(p)
      \/ \E e \in Edits : EditBundle(e)
      \/ \E q \in Installers : Writes(q) \/ Finishes(q)
      \/ UNCHANGED setting /\ \E q \in Installers :
             record_installing(q) \/ install_macos(q) \/ installation_completed(q)
  BY DEF BundleNext, bundle_vars, begin, preparation_completed, publish_vz_macos, install,
         open_macos_realm, close_realm, Dies
<1> QED BY <1>1, <1>2, <1>4, <1>5, <1>6, <1>7, <1>8

---------------------------------------------------------------------------
(* The machine among the parts of the realm that are explored.             *)

Machine == part = "machine" => IInv

\* The machine's part begins in the machine's invariant.
LEMMA RealmBegins == RealmInit => Machine
BY MachineAssumption, MachineInit DEF RealmInit, Machine

\* A step of the machine's part is a step of the machine.
LEMMA RealmSteps ==
    ASSUME part = "machine", [RealmNext]_realm_vars
    PROVE  [Next]_vars /\ part' = "machine"
BY DEF RealmNext, realm_vars

\* The other parts leave the machine alone.
LEMMA MachineIsKept == Machine /\ [RealmNext]_realm_vars => Machine'
<1> SUFFICES ASSUME Machine, [RealmNext]_realm_vars PROVE Machine'
  OBVIOUS
<1>1. CASE part = "machine"
  BY <1>1, RealmSteps, MachineStep DEF Machine
<1>2. CASE part # "machine"
  BY <1>2 DEF RealmNext, realm_vars, Machine
<1> QED BY <1>1, <1>2

\* Once nothing is queued, the controller shows the machine's own status and
\* permits what it permits, and the view is of the machine in use, whatever was
\* suspended, closed or killed before: handleRealmEvent and
\* retargetDisplayViews.
THEOREM MachineIsShown == RealmSpec => []ShowsTheMachine
<1>1. Machine => ShowsTheMachine
  BY MachineShown DEF Machine, ShowsTheMachine
<1> QED BY <1>1, RealmBegins, MachineIsKept, PTL DEF RealmSpec

\* A saved machine state is only there for, and restored over, the disk it was
\* saved with, and a suspension that ends without an error has published it:
\* saveAndStopOnQueue and consumeWithError.
THEOREM SuspensionsKeepTheGuest == RealmSpec => SuspensionsAreSound
<1> DEFINE Sound == part = "machine" => SavedStateMatchesDisk' /\ SuspensionKeepsGuest
<1>0. IInv' => SavedStateMatchesDisk'
  BY MachineSaves, PTL
<1>1. Machine /\ [RealmNext]_realm_vars => [Sound]_realm_vars
  <2> SUFFICES ASSUME Machine, [RealmNext]_realm_vars, part = "machine"
               PROVE  SavedStateMatchesDisk' /\ SuspensionKeepsGuest
    OBVIOUS
  <2>1. IInv /\ [Next]_vars
    BY RealmSteps DEF Machine
  <2>2. SavedStateMatchesDisk'
    BY <1>0, <2>1, MachineStep
  <2> QED BY <2>1, <2>2, GuestIsKept
<1>2. RealmSpec => [][Sound]_realm_vars
  BY <1>1, RealmBegins, MachineIsKept, PTL DEF RealmSpec
<1> QED BY <1>2 DEF SuspensionsAreSound

---------------------------------------------------------------------------
(* The bundle among the parts of the realm.                                *)

BundleHolds == part = "bundle" => BundleInv

\* The bundle's part begins in the bundle's invariant.
LEMMA BundleBegins == RealmInit => BundleHolds
BY Begins DEF RealmInit, BundleHolds

\* A step of the bundle's part is a step of the bundle.
LEMMA BundleSteps ==
    ASSUME part = "bundle", [RealmNext]_realm_vars
    PROVE  [BundleNext]_bundle_vars /\ part' = "bundle"
BY DEF RealmNext, realm_vars

\* The other part leaves the bundle alone.
LEMMA BundleIsKept == BundleHolds /\ [RealmNext]_realm_vars => BundleHolds'
<1> SUFFICES ASSUME BundleHolds, [RealmNext]_realm_vars PROVE BundleHolds'
  OBVIOUS
<1>1. CASE part = "bundle"
  BY <1>1, BundleSteps, BundleStep DEF BundleHolds
<1>2. CASE part # "bundle"
  BY <1>2 DEF RealmNext, realm_vars, BundleHolds
<1> QED BY <1>1, <1>2

\* A request to suspend or restore is set just while its steps are in flight, and
\* every variable of the machine and of the bundle keeps its type.
THEOREM RealmTypeCorrect == RealmSpec => []RealmTypeOK
<1>1. Machine /\ BundleHolds => RealmTypeOK
  BY BundleIsTyped DEF Machine, IInv, BundleHolds, RealmTypeOK
<1> QED BY <1>1, RealmBegins, MachineIsKept, BundleBegins, BundleIsKept, PTL DEF RealmSpec

\* A bundle is told to be installed, and is opened, only with all of macOS on its
\* disk; what is published can be opened; whatever is edited, only an accepted
\* machine is made; and a preparation that ends leaves nothing behind: bundle.rs
\* and macos.rs, with any number of processes dying between any two steps.
THEOREM BundlesAreTrusted == RealmSpec => []BundlesCanBeTrusted
<1>1. BundleHolds => BundlesCanBeTrusted
  BY BundleTrusts DEF BundleHolds, BundlesCanBeTrusted
<1> QED BY <1>1, BundleBegins, BundleIsKept, PTL DEF RealmSpec

\* A published bundle is not replaced, macOS is installed on a disk nothing was
\* written to, and recording a state changes nothing else of the manifest:
\* PendingRealmBundle::publish_vz_macos and install_macos_bundle.
THEOREM BundlesKeep == RealmSpec => BundlesAreKept
<1> DEFINE Kept == part = "bundle" => /\ NeverReplaced /\ InstallsOnBlankDisk
                                      /\ OnlyStateIsRecorded
<1>1. BundleHolds /\ [RealmNext]_realm_vars => [Kept]_realm_vars
  BY BundleSteps, BundleKeeps DEF BundleHolds
<1>2. RealmSpec => [][Kept]_realm_vars
  BY <1>1, BundleBegins, BundleIsKept, PTL DEF RealmSpec
<1> QED BY <1>2 DEF BundlesAreKept
=============================================================================
