------------------------------- MODULE MCRealm -------------------------------
(***************************************************************************)
(* A realm, one part at a time: its machine, which can be suspended and    *)
(* restored, or cannot be saved; and its bundle, being prepared and        *)
(* installed, or edited as well.  `part` names the part that is explored.  *)
(***************************************************************************)
EXTENDS RealmMachine, RealmBundle

VARIABLE part

---------------------------------------------------------------------------
(* RealmMachine *)

Suspending == [saves |-> TRUE, commands |-> 4, failures |-> 2, stops |-> 1, opens |-> 2]
Stopping == [Suspending EXCEPT !.saves = FALSE, !.failures = 1]
MCAllowances == {Suspending, Stopping}

ASSUME MachineAssumption == RealmMachineAssumption

(* RealmBundle: restore images that are and are not accepted, or one whose   *)
(* manifest is edited                                                        *)

Image == [cpu_count |-> 2, memory_mib |-> 2, named |-> TRUE, identity |-> TRUE,
          mac_address |-> TRUE, whole |-> TRUE]
MCInfos == {Image, [Image EXCEPT !.cpu_count = 0], [Image EXCEPT !.whole = FALSE],
            [Image EXCEPT !.memory_mib = 3], [Image EXCEPT !.identity = FALSE]}
Preparing == [preparers |-> Preparers, infos |-> MCInfos, edits |-> 0, failures |-> 2]
Editing == [preparers |-> {CHOOSE p \in Preparers : TRUE}, infos |-> {Image},
            edits |-> 2, failures |-> 1]
MCSettings == {Preparing, Editing}

---------------------------------------------------------------------------
NotExplored == "not explored"

RealmInit ==
    \/ /\ part = "machine" /\ Init
       /\ staging = NotExplored /\ preparing = NotExplored /\ bundle = NotExplored
       /\ installing = NotExplored /\ machine = NotExplored /\ used = NotExplored
       /\ setting = NotExplored
    \/ /\ part = "bundle" /\ BundleInit
       /\ bridge = NotExplored /\ commands = NotExplored /\ files = NotExplored
       /\ disk = NotExplored /\ events = NotExplored /\ retargets = NotExplored
       /\ ctl = NotExplored /\ allows = NotExplored
RealmNext ==
    /\ \/ part = "machine" /\ Next /\ UNCHANGED bundle_vars
       \/ part = "bundle" /\ BundleNext /\ UNCHANGED vars
    /\ UNCHANGED part
realm_vars == <<part, vars, bundle_vars>>

(* Queues are served, and the framework completes what it has begun.  The main *)
(* loop takes posted events in turn, whatever the user does between them.      *)
Progresses == part = "machine"
RealmSpec ==
    /\ RealmInit /\ [][RealmNext]_realm_vars
    /\ WF_vars(Progresses /\ Execute)
    /\ WF_vars(Progresses /\ Complete)
    /\ WF_vars(Progresses /\ guestDidStop)
    /\ WF_vars(Progresses /\ invalidate)
    /\ WF_vars(Progresses /\ makeDisplayView)
    /\ SF_vars(Progresses /\ Retarget)
    /\ SF_vars(Progresses /\ applyStatus)

---------------------------------------------------------------------------
(* Properties                                                               *)

\* The machine and the bundle keep their variables in their types, and a
\* request to suspend or restore is set just while its steps are in flight.
RealmTypeOK ==
    /\ part = "machine" => TypeOK
    /\ part = "bundle" => BundleTypeOK

\* A saved machine state is only ever there for, and restored over, the disk it
\* was saved with, and a suspension that ends without an error has published
\* the guest's memory (macos_machine_state.mm).
SuspensionsAreSound ==
    [][part = "machine" => SavedStateMatchesDisk' /\ SuspensionKeepsGuest]_realm_vars

\* Every change of the machine is told to the controller, and the view that is
\* shown is of the machine in use, also while a suspension replaces it.
ShowsTheMachine ==
    part = "machine" => StatusIsCurrent /\ ViewFollowsMachine

\* A bundle is told to be installed and is opened only with all of macOS on its
\* disk, what is published can be opened, whatever is edited only an accepted
\* machine is made, and a preparation that ends leaves nothing behind if its
\* files can be removed (bundle.rs:124 tries to and ignores a failure).
BundlesCanBeTrusted ==
    part = "bundle" => /\ InstalledIsComplete /\ OpenedIsAccepted
                       /\ PublishedCanBeOpened /\ StagingIsRemoved

\* A published bundle is not replaced, macOS is installed on a disk nothing was
\* written to, and recording a state changes nothing else of the manifest.
\* Nothing locks a bundle: installers of one bundle are taken to take turns.
BundlesAreKept ==
    [][part = "bundle" => /\ NeverReplaced /\ InstallsOnBlankDisk
                          /\ OnlyStateIsRecorded]_realm_vars

\* The command a user gives is answered, and a suspension or restore ends.
Awaits ==
    /\ part = "machine"
    /\ ctl.pending \/ bridge.suspensionRequested \/ bridge.restorationRequested
LifecycleEnds == Awaits ~> ~Awaits
=============================================================================
