---------------------------- MODULE RealmMachine ----------------------------
(***************************************************************************)
(* A Realm: the controller of the application on the main thread, the      *)
(* commands it queues through Ward Core's C interface, and the bridge that *)
(* drives a Virtualization.framework machine on a serial queue of its own. *)
(*                                                                         *)
(* The bridge answers a command by an event with its status; the framework *)
(* completes an operation, and the guest stops, when they like.  A guest   *)
(* is suspended by publishing its memory as a file: the file may only be   *)
(* restored over the very disk it was saved with.  "disk" counts the times *)
(* the guest ran, so equal numbers mean that the disk did not change.      *)
(***************************************************************************)
EXTENDS Naturals, Sequences

CONSTANT Allowances   \* whether the configuration can be saved, and bounds:
                      \* the commands given, the failures of files and of the
                      \* framework, the times that the guest stops by itself,
                      \* the machines opened

Commands == {"start", "pause", "resume", "requestStop", "forceStop",
             "suspend", "restore", "discard"}

RealmMachineAssumption ==
    Allowances \subseteq [saves : BOOLEAN, commands : Nat, failures : Nat,
                           stops : Nat, opens : Nat]

VARIABLES bridge,    \* WardVzMacOSVirtualMachine and its VZVirtualMachine
          commands,  \* blocks on the bridge's serial queue
          files,     \* the saved machine state, and the one being restored
          disk,      \* the guest's disk, as the number of runs it has seen
          events,    \* events on their way to the main thread
          retargets, \* views to be moved to a replaced machine
          ctl,       \* RealmController
          allows     \* the allowance, less what was used up of its bounds

vars == <<bridge, commands, files, disk, events, retargets, ctl, allows>>

NoFile == 0
NoView == 0

Absent == [state |-> "stopped", flight |-> "none", notice |-> "none",
           instance |-> 0, generation |-> 0, stopRequested |-> FALSE,
           suspensionRequested |-> FALSE, restorationRequested |-> FALSE,
           invalidated |-> TRUE]

-----------------------------------------------------------------------------
(* Virtualization.framework: what a machine may do in a state. *)
CanStart(b) == b.flight = "none" /\ b.state \in {"stopped", "error"}
CanPause(b) == b.state = "running"
CanResume(b) == b.state = "paused"
CanRequestStop(b) == b.state = "running"
CanStop(b) == b.state \in {"running", "paused"}

-----------------------------------------------------------------------------
(* The status the bridge reports: a state, and the commands it would take. *)

ReportedState(b, f) ==
    IF b.suspensionRequested THEN "saving"
    ELSE IF b.restorationRequested THEN "restoring"
    ELSE IF f.saved # NoFile /\ b.state = "stopped" THEN "suspended"
    ELSE IF b.stopRequested /\ b.state \notin {"stopped", "error"}
         THEN "stopping"
    ELSE b.state

Permitted(b, f, c) ==
    LET unsaved == f.saved = NoFile
        free    == unsaved /\ ~b.stopRequested
    IN /\ ~b.invalidated
       /\ ~b.suspensionRequested /\ ~b.restorationRequested
       /\ \/ c = "start" /\ unsaved /\ CanStart(b)
          \/ c = "pause" /\ free /\ CanPause(b)
          \/ c = "resume" /\ free /\ CanResume(b)
          \/ c = "requestStop" /\ free /\ (CanRequestStop(b) \/ CanResume(b))
          \/ c = "forceStop" /\ CanStop(b)
          \/ /\ c = "suspend" /\ allows.saves /\ free
             /\ CanPause(b) \/ b.state = "paused"
          \/ c = "restore" /\ allows.saves /\ ~unsaved /\ b.state = "stopped"
          \/ c = "discard" /\ ~unsaved /\ b.state \in {"stopped", "error"}

currentStatus(b, f) ==
    [state |-> ReportedState(b, f),
     can   |-> {c \in Commands : Permitted(b, f, c)}]

(* emitStatusWithError, through the handlers of the Rust adapter: nothing is *)
(* told once the machine is invalidated.                                     *)
Told(b, f, failed) ==
    IF b.invalidated THEN <<>>
    ELSE <<[generation |-> b.generation, status |-> currentStatus(b, f),
            failed |-> failed]>>

-----------------------------------------------------------------------------
Init ==
    /\ bridge = Absent
    /\ commands = <<>>
    /\ files = [saved |-> NoFile, restoring |-> NoFile]
    /\ disk = 1
    /\ events = <<>>
    /\ retargets = <<>>
    /\ ctl = [bundle |-> FALSE, open |-> FALSE, generation |-> 0,
              state |-> "closed", can |-> {}, pending |-> FALSE,
              closing |-> FALSE, attaching |-> NoView, view |-> NoView]
    /\ allows \in Allowances

-----------------------------------------------------------------------------
(* The outcomes of a call that may fail: each failure counts. *)
Outcomes == IF allows.failures > 0 THEN BOOLEAN ELSE {FALSE}

Counted(n) == allows' = [allows EXCEPT !.failures = @ - n]

One(failed) == IF failed THEN 1 ELSE 0

Becomes(b, f, failed) ==
    /\ bridge' = b
    /\ files' = f
    /\ events' = events \o Told(b, f, failed)

(* A block of the serial queue that executes command c. *)
Executes(c) ==
    /\ commands # <<>> /\ Head(commands) = c
    /\ commands' = Tail(commands)
    /\ UNCHANGED <<disk, retargets, ctl>>

Refuses(c) ==
    /\ ~Permitted(bridge, files, c)
    /\ Becomes(bridge, files, TRUE)
    /\ UNCHANGED allows

Starts(b, op, during) == [b EXCEPT !.flight = op, !.state = during]

start ==
    /\ Executes("start")
    /\ \/ Refuses("start")
       \/ /\ Permitted(bridge, files, "start")
          /\ Becomes([Starts(bridge, "start", "starting")
                      EXCEPT !.stopRequested = FALSE], files, FALSE)
          /\ UNCHANGED allows

pause ==
    /\ Executes("pause")
    /\ \/ Refuses("pause")
       \/ /\ Permitted(bridge, files, "pause")
          /\ Becomes(Starts(bridge, "pause", "pausing"), files, FALSE)
          /\ UNCHANGED allows

resume ==
    /\ Executes("resume")
    /\ \/ Refuses("resume")
       \/ /\ Permitted(bridge, files, "resume")
          /\ Becomes(Starts(bridge, "resume", "resuming"), files, FALSE)
          /\ UNCHANGED allows

(* requestStopOnQueue: the guest is asked, which may fail. *)
Requested(b, failed) ==
    IF failed \/ ~CanRequestStop(b) THEN b
    ELSE [b EXCEPT !.stopRequested = TRUE]

(* A paused guest is resumed first, so that it can shut down. *)
requestStop ==
    /\ Executes("requestStop")
    /\ \/ Refuses("requestStop")
       \/ /\ Permitted(bridge, files, "requestStop") /\ CanRequestStop(bridge)
          /\ \E failed \in Outcomes :
                /\ Becomes(Requested(bridge, failed), files, failed)
                /\ Counted(One(failed))
       \/ /\ Permitted(bridge, files, "requestStop") /\ CanResume(bridge)
          /\ Becomes(Starts(bridge, "resume to stop", "resuming"), files, FALSE)
          /\ UNCHANGED allows

forceStop ==
    /\ Executes("forceStop")
    /\ \/ Refuses("forceStop")
       \/ /\ Permitted(bridge, files, "forceStop")
          /\ Becomes([Starts(bridge, "stop", "stopping")
                      EXCEPT !.stopRequested = FALSE], files, FALSE)
          /\ UNCHANGED allows

-----------------------------------------------------------------------------
(* Suspension: pause, save to a temporary file, publish it, stop the guest, *)
(* and replace the stopped machine by a fresh one.                          *)

(* finishSuspensionWithError. *)
FinishSuspension(b, f, failed) ==
    Becomes([b EXCEPT !.suspensionRequested = FALSE], f, failed)

(* saveAndStopOnQueue, up to the call that saves: beginSaving refuses while a *)
(* saved state is there.                                                      *)
SaveAndStop(b, failed) ==
    IF failed \/ files.saved # NoFile
    THEN FinishSuspension([b EXCEPT !.flight = "none"], files, TRUE)
    ELSE /\ bridge' = Starts(b, "save", "saving")
         /\ UNCHANGED <<files, events>>

(* The status that tells of the suspension goes out before the save begins. *)
suspend ==
    /\ Executes("suspend")
    /\ \/ Refuses("suspend")
       \/ /\ Permitted(bridge, files, "suspend")
          /\ LET b == [bridge EXCEPT !.suspensionRequested = TRUE]
                 told == Told(b, files, FALSE)
             IN \/ /\ b.state # "paused"
                   /\ bridge' = Starts(b, "pause to save", "pausing")
                   /\ events' = events \o told
                   /\ UNCHANGED <<files, allows>>
                \/ /\ b.state = "paused"
                   /\ \E failed \in Outcomes :
                        /\ bridge' = IF failed
                                     THEN bridge
                                     ELSE Starts(b, "save", "saving")
                        /\ events' = events \o told \o
                             (IF failed THEN Told(bridge, files, TRUE) ELSE <<>>)
                        /\ Counted(One(failed))
                   /\ UNCHANGED files

\* mutant of restore: the saved state is copied, not moved
restore_copies ==
    /\ Executes("restore")
    /\ Permitted(bridge, files, "restore")
    /\ Becomes([Starts(bridge, "restore", "restoring")
                EXCEPT !.restorationRequested = TRUE],
               [files EXCEPT !.restoring = files.saved], FALSE)
    /\ UNCHANGED allows

(* The bridge moves the saved state aside before the framework reads it: a *)
(* restore uses it up, whatever becomes of the restore.                    *)
restore ==
    /\ Executes("restore")
    /\ \/ Refuses("restore")
       \/ /\ Permitted(bridge, files, "restore")
          /\ \E failed \in Outcomes :
                /\ IF failed
                   THEN Becomes(bridge, files, TRUE)
                   ELSE Becomes([Starts(bridge, "restore", "restoring")
                                 EXCEPT !.restorationRequested = TRUE],
                                [saved |-> NoFile, restoring |-> files.saved],
                                FALSE)
                /\ Counted(One(failed))

\* mutant of discard: nothing is told when the saved state is gone
discard_mute ==
    /\ Executes("discard")
    /\ files' = [files EXCEPT !.saved = NoFile]
    /\ UNCHANGED <<bridge, events, allows>>

(* discardSavedState. *)
discard ==
    /\ Executes("discard")
    /\ \/ Refuses("discard")
       \/ /\ Permitted(bridge, files, "discard")
          /\ \E failed \in Outcomes :
                /\ Becomes(bridge,
                           IF failed THEN files
                           ELSE [files EXCEPT !.saved = NoFile], failed)
                /\ Counted(One(failed))

Execute == \/ start \/ pause \/ resume \/ requestStop \/ forceStop
           \/ suspend \/ restore \/ discard

-----------------------------------------------------------------------------
(* Completions.  An operation the guest's stop has overtaken fails; a save   *)
(* may have been whole before.                                               *)

Overtaken == bridge.state \in {"stopped", "error"}

Completes(op) ==
    /\ bridge.flight = op
    /\ UNCHANGED <<commands, retargets, ctl>>

(* The machine in state "ok" after a success; after a failure in "before", or *)
(* where the guest's stop has left it.                                        *)
Ends(ok, before, failed) ==
    [bridge EXCEPT !.flight = "none",
                   !.state  = IF ~failed THEN ok
                              ELSE IF Overtaken THEN @ ELSE before]

Results == IF Overtaken THEN {TRUE} ELSE Outcomes

Runs(failed) == disk' = IF failed THEN disk ELSE disk + 1

Spent(failed) == Counted(IF failed /\ ~Overtaken THEN 1 ELSE 0)

StartDone ==
    /\ Completes("start")
    /\ \E failed \in Results :
          /\ Becomes(Ends("running", "stopped", failed), files, failed)
          /\ Runs(failed) /\ Spent(failed)

PauseDone ==
    /\ Completes("pause")
    /\ \E failed \in Results :
          /\ Becomes(Ends("paused", "running", failed), files, failed)
          /\ Spent(failed)
    /\ UNCHANGED disk

ResumeDone ==
    /\ Completes("resume")
    /\ \E failed \in Results :
          /\ Becomes(Ends("running", "paused", failed), files, failed)
          /\ Runs(failed) /\ Spent(failed)

ResumeToStopDone ==
    /\ Completes("resume to stop")
    /\ \E failed \in Results, refused \in Outcomes :
          /\ One(failed /\ ~Overtaken) + One(refused) <= allows.failures
          /\ LET b == Ends("running", "paused", failed)
             IN IF failed THEN ~refused /\ Becomes(b, files, TRUE)
                ELSE Becomes(Requested(b, refused), files, refused)
          /\ Runs(failed)
          /\ Counted(One(failed /\ ~Overtaken) + One(refused))

StopDone ==
    /\ Completes("stop")
    /\ \E failed \in Outcomes :
          /\ Becomes(Ends("stopped", "paused", failed), files, failed)
          /\ Counted(One(failed))
    /\ UNCHANGED disk

PauseToSaveDone ==
    /\ Completes("pause to save")
    /\ \E failed \in Results, refused \in Outcomes :
          /\ One(failed /\ ~Overtaken) + One(refused) <= allows.failures
          /\ LET b == Ends("paused", "running", failed)
             IN IF failed THEN ~refused /\ FinishSuspension(b, files, TRUE)
                ELSE SaveAndStop(b, refused)
          /\ Counted(One(failed /\ ~Overtaken) + One(refused))
    /\ UNCHANGED disk

\* mutant of SaveDone: the suspension ends although its file was not published
SaveDone_unpublished ==
    /\ Completes("save")
    /\ ~Overtaken
    /\ \E failed \in Outcomes :
          /\ bridge' = Starts(bridge, "stop to suspend", "stopping")
          /\ files' = IF failed THEN files ELSE [files EXCEPT !.saved = disk]
          /\ Counted(One(failed))
    /\ UNCHANGED <<events, disk>>

(* The saved state is published; a machine that cannot be stopped then has *)
(* its state discarded again, which itself may fail.                       *)
SaveDone ==
    /\ Completes("save")
    /\ \/ \E failed \in Results :         \* the save, or its publication
             /\ failed
             /\ FinishSuspension(Ends("paused", "paused", TRUE), files, TRUE)
             /\ Spent(TRUE)
       \/ /\ ~Overtaken
          /\ bridge' = Starts(bridge, "stop to suspend", "stopping")
          /\ files' = [files EXCEPT !.saved = disk]
          /\ UNCHANGED <<events, allows>>
       \/ /\ Overtaken
          /\ \E kept \in Outcomes :
                /\ FinishSuspension(Ends("paused", "paused", TRUE),
                      [files EXCEPT !.saved = IF kept THEN disk ELSE NoFile],
                      TRUE)
                /\ Counted(One(kept))
    /\ UNCHANGED disk

\* mutant of StopToSuspendDone: views stay with the machine they were made for
StopToSuspendDone_views ==
    /\ bridge.flight = "stop to suspend"
    /\ FinishSuspension([Ends("stopped", "stopped", FALSE)
                         EXCEPT !.instance = @ + 1], files, FALSE)
    /\ UNCHANGED <<commands, disk, ctl, retargets, allows>>

\* mutant of StopToSuspendDone: an error forgets to end the suspension
StopToSuspendDone_stuck ==
    /\ bridge.flight = "stop to suspend"
    /\ Becomes([Ends("stopped", "stopped", FALSE) EXCEPT !.instance = @ + 1],
               files, FALSE)
    /\ UNCHANGED <<commands, disk, ctl, retargets, allows>>

(* replaceStoppedVirtualMachineOnQueue: the views follow on the main queue. *)
StopToSuspendDone ==
    /\ bridge.flight = "stop to suspend"
    /\ \/ \E kept \in Outcomes :                \* the stop fails
             /\ 1 + One(kept) <= allows.failures
             /\ FinishSuspension(Ends("stopped", "paused", TRUE),
                   IF kept THEN files ELSE [files EXCEPT !.saved = NoFile], TRUE)
             /\ Counted(1 + One(kept))
             /\ UNCHANGED retargets
       \/ \E failed \in Outcomes :              \* the replacement may fail
             LET b == Ends("stopped", "stopped", FALSE)
             IN /\ FinishSuspension(
                     IF failed THEN b
                     ELSE [b EXCEPT !.instance = @ + 1, !.notice = "none"],
                     files, failed)
                /\ retargets' = IF failed THEN retargets
                                ELSE Append(retargets, bridge.instance)
                /\ Counted(One(failed))
    /\ UNCHANGED <<commands, disk, ctl>>

(* The file is removed after the framework has read it; failing that, it    *)
(* stays until the next restore or opening.                                 *)
RestoreDone ==
    /\ Completes("restore")
    /\ \E failed \in Results, kept \in Outcomes :
          /\ One(failed /\ ~Overtaken) + One(kept) <= allows.failures
          /\ LET f == IF kept THEN files ELSE [files EXCEPT !.restoring = NoFile]
                 b == Ends("paused", "stopped", failed)
             IN IF failed
                THEN Becomes([b EXCEPT !.restorationRequested = FALSE], f, TRUE)
                ELSE /\ bridge' = Starts(b, "resume restored", "resuming")
                     /\ files' = f
                     /\ UNCHANGED events
          /\ Counted(One(failed /\ ~Overtaken) + One(kept))
    /\ UNCHANGED disk

(* A file that could not be removed is told as an error of the restore. *)
ResumeRestoredDone ==
    /\ Completes("resume restored")
    /\ \E failed \in Results :
          /\ Becomes([Ends("running", "paused", failed)
                      EXCEPT !.restorationRequested = FALSE], files,
                     failed \/ files.restoring # NoFile)
          /\ Runs(failed) /\ Spent(failed)

Complete == \/ StartDone \/ PauseDone \/ ResumeDone \/ ResumeToStopDone
            \/ StopDone \/ PauseToSaveDone \/ SaveDone \/ StopToSuspendDone
            \/ RestoreDone \/ ResumeRestoredDone

-----------------------------------------------------------------------------
(* The guest shuts down, or the framework stops it with an error; the     *)
(* delegate hears of it later, on the same queue.                         *)
GuestStops(how) ==
    /\ allows.stops > 0
    /\ ~bridge.invalidated /\ bridge.notice = "none"
    /\ \/ bridge.state \in {"running", "pausing"}
       \/ how = "error" /\ bridge.state \in {"paused", "saving", "resuming"}
    /\ bridge' = [bridge EXCEPT !.state = how, !.notice = how]
    /\ allows' = [allows EXCEPT !.stops = @ - 1]
    /\ UNCHANGED <<commands, files, disk, events, retargets, ctl>>

guestDidStop ==
    /\ bridge.notice # "none"
    /\ Becomes([bridge EXCEPT !.notice = "none", !.stopRequested = FALSE],
               files, bridge.notice = "error")
    /\ UNCHANGED <<commands, disk, retargets, ctl, allows>>

-----------------------------------------------------------------------------
(* The controller. *)

canSelectBundle ==
    /\ ~ctl.pending
    /\ \/ ~ctl.open
       \/ ctl.state \in {"stopped", "suspended"}
       \/ ctl.state = "error" /\ "forceStop" \notin ctl.can

(* The main thread waits in a synchronous call on the bridge's queue. *)
Blocked == ctl.closing \/ ctl.attaching # NoView

Apply(c, status) == [c EXCEPT !.state = status.state, !.can = status.can,
                              !.pending = FALSE]

Ask(c) ==
    /\ commands' = Append(commands, c)
    /\ allows' = [allows EXCEPT !.commands = @ - 1]

(* A fresh machine, whose status reaches the controller inside the call: files *)
(* left by an interrupted save or restore are removed.                         *)
Opened ==
    LET b == [Absent EXCEPT !.invalidated = FALSE, !.instance = bridge.instance + 1,
                            !.generation = ctl.generation + 1]
        f == [files EXCEPT !.restoring = NoFile]
        c == [Apply(ctl, currentStatus(b, f))
              EXCEPT !.generation = ctl.generation + 1, !.open = TRUE,
                     !.bundle = TRUE]
    IN [bridge |-> b, files |-> f, ctl |-> c]

(* Unlike here, the code does not wait for the framework to complete what an *)
(* earlier machine was asked before it opens a machine anew                  *)
(* (realmcontroller.cpp:73): the completion's block keeps the earlier one    *)
(* alive (macos_vm.mm:263, 362), and two of them would meet on one bundle.   *)
(* It is taken that the framework refuses a disk that is in use.             *)
CanOpen == ~ctl.open /\ bridge.flight = "none" /\ allows.opens > 0

(* ensureRealm, with the command of a handler that opens before it asks. *)
Opens(c) ==
    /\ CanOpen
    /\ LET o == Opened
           asks == c # "none" /\ c \in o.ctl.can /\ allows.commands > 0
       IN /\ bridge' = o.bridge
          /\ files' = o.files
          /\ ctl' = [o.ctl EXCEPT !.pending = asks]
          /\ commands' = IF asks THEN <<c>> ELSE <<>>
          /\ allows' = [allows EXCEPT !.opens = @ - 1,
                                  !.commands = @ - One(asks)]
    /\ UNCHANGED <<disk, events, retargets>>

OpenFails ==
    /\ CanOpen
    /\ TRUE \in Outcomes
    /\ ctl' = [ctl EXCEPT !.generation = @ + 1, !.bundle = TRUE]
    /\ Counted(1)
    /\ UNCHANGED <<bridge, commands, files, disk, events, retargets>>

(* setBundleUrl of a bundle: it is opened at once. *)
SelectBundle == ~Blocked /\ ~ctl.bundle /\ canSelectBundle
                /\ (Opens("none") \/ OpenFails)

(* start and restore open the realm when it is not. *)
Retry(c) == /\ ~Blocked /\ ctl.bundle /\ ~ctl.pending
            /\ c \in {"start", "restore"}
            /\ (Opens(c) \/ OpenFails)

Command(c) ==
    /\ ~Blocked /\ ctl.open /\ ~ctl.pending
    /\ c \in ctl.can
    /\ allows.commands > 0
    /\ ctl' = [ctl EXCEPT !.pending = TRUE]
    /\ Ask(c)
    /\ UNCHANGED <<bridge, files, disk, events, retargets>>

(* destroyRealm: the view is detached, events of this generation no longer *)
(* count, and the main thread waits for the bridge's queue.                *)
CloseBundle ==
    /\ ~Blocked /\ ctl.open /\ canSelectBundle
    /\ ctl' = [ctl EXCEPT !.closing = TRUE, !.bundle = FALSE, !.view = NoView,
                          !.generation = @ + 1]
    /\ UNCHANGED <<bridge, commands, files, disk, events, retargets, allows>>

(* invalidate runs behind the commands queued before it. *)
invalidate ==
    /\ ctl.closing /\ commands = <<>>
    /\ bridge' = [bridge EXCEPT !.invalidated = TRUE, !.notice = "none"]
    /\ ctl' = [ctl EXCEPT !.closing = FALSE, !.open = FALSE, !.can = {},
                          !.state = "closed", !.pending = FALSE]
    /\ UNCHANGED <<commands, files, disk, events, retargets, allows>>

(* makeDisplayView reads the machine on the bridge's queue, and creates the *)
(* view on the main thread after it.                                        *)
attachDisplay ==
    /\ ~Blocked /\ ctl.open /\ ctl.view = NoView
    /\ commands = <<>>
    /\ ctl' = [ctl EXCEPT !.attaching = bridge.instance]
    /\ UNCHANGED <<bridge, commands, files, disk, events, retargets, allows>>

makeDisplayView ==
    /\ ctl.attaching # NoView
    /\ ctl' = [ctl EXCEPT !.attaching = NoView, !.view = ctl.attaching]
    /\ UNCHANGED <<bridge, commands, files, disk, events, retargets, allows>>

detachDisplay ==
    /\ ~Blocked /\ ctl.view # NoView
    /\ ctl' = [ctl EXCEPT !.view = NoView]
    /\ UNCHANGED <<bridge, commands, files, disk, events, retargets, allows>>

(* retargetDisplayViews: on the main queue, so never inside makeDisplayView. *)
Retarget ==
    /\ ~Blocked /\ retargets # <<>>
    /\ ctl' = [ctl EXCEPT !.view = IF @ = Head(retargets) THEN @ + 1 ELSE @]
    /\ retargets' = Tail(retargets)
    /\ UNCHANGED <<bridge, commands, files, disk, events, allows>>

\* mutant of applyStatus: events of a machine that was closed are applied
applyStatus_any ==
    /\ ~Blocked /\ events # <<>>
    /\ ctl' = Apply(ctl, Head(events).status)
    /\ events' = Tail(events)
    /\ UNCHANGED <<bridge, commands, files, disk, retargets, allows>>

(* handleRealmEvent and applyStatus: any event settles the pending command. *)
applyStatus ==
    /\ ~Blocked /\ events # <<>>
    /\ ctl' = IF Head(events).generation = ctl.generation
              THEN Apply(ctl, Head(events).status) ELSE ctl
    /\ events' = Tail(events)
    /\ UNCHANGED <<bridge, commands, files, disk, retargets, allows>>

(* The process ends: the files and the disk stay. *)
Exit ==
    /\ ~bridge.invalidated /\ allows.opens > 0
    /\ bridge' = Absent
    /\ commands' = <<>> /\ events' = <<>> /\ retargets' = <<>>
    /\ ctl' = [ctl EXCEPT !.bundle = FALSE, !.open = FALSE, !.state = "closed",
                          !.can = {}, !.pending = FALSE, !.closing = FALSE,
                          !.attaching = NoView, !.view = NoView]
    /\ UNCHANGED <<files, disk, allows>>

User == \/ SelectBundle \/ CloseBundle \/ attachDisplay \/ detachDisplay
        \/ \E c \in Commands : Retry(c) \/ Command(c)

Next == \/ User \/ Execute \/ Complete \/ guestDidStop
        \/ \E how \in {"stopped", "error"} : GuestStops(how)
        \/ invalidate \/ makeDisplayView \/ Retarget \/ applyStatus \/ Exit

Spec == Init /\ [][Next]_vars
-----------------------------------------------------------------------------
States == {"stopped", "running", "paused", "error", "starting", "pausing",
           "resuming", "stopping", "saving", "restoring"}
Flights == {"none", "start", "pause", "resume", "resume to stop", "stop",
            "pause to save", "save", "stop to suspend", "restore",
            "resume restored"}
Shown == States \cup {"suspended", "closed"}
Statuses == [state : Shown, can : SUBSET Commands]
Bridges == [state : States, flight : Flights, notice : {"none", "stopped", "error"},
            instance : Nat, generation : Nat, stopRequested : BOOLEAN,
            suspensionRequested : BOOLEAN, restorationRequested : BOOLEAN,
            invalidated : BOOLEAN]
Controllers == [bundle : BOOLEAN, open : BOOLEAN, generation : Nat, state : Shown,
                can : SUBSET Commands, pending : BOOLEAN, closing : BOOLEAN,
                attaching : Nat, view : Nat]
Events == [generation : Nat, status : Statuses, failed : BOOLEAN]

TypeOK ==
    /\ bridge \in Bridges
    /\ commands \in Seq(Commands)
    /\ files \in [saved : Nat, restoring : Nat]
    /\ disk \in Nat \ {NoFile}
    /\ events \in Seq(Events)
    /\ retargets \in Seq(Nat)
    /\ ctl \in Controllers
    /\ allows \in [saves : BOOLEAN, commands : Nat, failures : Nat, stops : Nat,
                   opens : Nat]
    /\ bridge.flight \in {"pause to save", "save", "stop to suspend"}
         <=> bridge.suspensionRequested
    /\ bridge.flight \in {"restore", "resume restored"}
         <=> bridge.restorationRequested

(* A saved machine state can only be restored over the disk it was saved   *)
(* with: the guest never runs while one is kept, and the framework never   *)
(* reads another (macos_machine_state.mm: "consumed state that may no      *)
(* longer match the guest disk").                                          *)
SavedStateMatchesDisk ==
    /\ files.saved # NoFile => files.saved = disk
    /\ bridge.flight = "restore" => files.restoring = disk

(* Every change of the machine is told: once nothing is queued or in flight,  *)
(* the controller shows the machine's own status, and permits what it permits. *)
StatusIsCurrent ==
    ctl.open /\ commands = <<>> /\ events = <<>> /\ bridge.notice = "none" /\ ~Blocked
        => /\ [state |-> ctl.state, can |-> ctl.can]
                = currentStatus(bridge, files)
           /\ ~ctl.pending

(* A view shows the machine in use: also when it is made while a suspension *)
(* replaces the machine.                                                    *)
ViewFollowsMachine ==
    ctl.view # NoView /\ retargets = <<>> => ctl.view = bridge.instance

(* A suspension that ends without an error has published the guest's memory. *)
SuspensionKeepsGuest ==
    /\ bridge.suspensionRequested /\ ~bridge'.suspensionRequested
       /\ Len(events') > Len(events) /\ ~events'[Len(events')].failed
       => files'.saved = disk' /\ bridge'.state = "stopped"
=============================================================================
