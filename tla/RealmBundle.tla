----------------------------- MODULE RealmBundle -----------------------------
(***************************************************************************)
(* Realm bundles on disk: processes that prepare a bundle at one           *)
(* destination, in a staging directory of their own, and publish it by a   *)
(* rename; processes that install macOS into it and record each step in    *)
(* its manifest; and the application that opens it.  Any process may die   *)
(* between two of its steps, and the manifest may be edited by hand.       *)
(***************************************************************************)
EXTENDS RealmManifest

CONSTANTS Preparers, Installers, \* processes, each used once
          Infos,         \* what the adapter may report of a restore image
          DiskSizes,     \* sizes of a disk that are asked for
          Settings       \* those that take part, and bounds: the edits by hand,
                         \* the failures of files and of the adapter

Edits == {"cpu", "memory", "more", "schema", "system", "format", "image", "disk",
          "lost", "blocked"}

(* The adapter reports the memory in bytes that fit a u64. *)
ASSUME RealmBundleAssumption ==
    /\ "none" \notin Preparers
    /\ Infos \subseteq [cpu_count : Nat, memory_mib : 0 .. MaxMemory, named : BOOLEAN,
                        identity : BOOLEAN, mac_address : BOOLEAN, whole : BOOLEAN]
    /\ DiskSizes \subseteq Nat
    /\ Settings \subseteq [preparers : SUBSET Preparers, infos : SUBSET Infos,
                          edits : Nat, failures : Nat]

VARIABLES staging,    \* the staging directory of each preparer
          preparing,  \* where prepare_macos_bundle of each preparer stands
          bundle,     \* the published bundle
          installing, \* install_macos_bundle of each installer
          machine,    \* the configuration the application opened, or None
          used,       \* what was used up of the bounds
          setting     \* the one explored

bundle_vars == <<staging, preparing, bundle, installing, machine, used, setting>>

NoManifest == [schema_version |-> "none"]
NoRealm == [state |-> "none"]
None == [places |-> "none"]
Empty == [is |-> "none", manifest |-> NoManifest]

BundleInit ==
    /\ staging = [p \in Preparers |-> Empty]
    /\ preparing = [p \in Preparers |-> "idle"]
    /\ bundle = [publisher |-> "none", disk |-> "blank", places |-> "sound",
                 manifest |-> NoManifest]
    /\ installing = [q \in Installers |->
                        [pc |-> "idle", realm |-> NoRealm, result |-> "none"]]
    /\ machine = None
    /\ used = [edits |-> 0, failures |-> 0]
    /\ setting \in Settings

Published == bundle.publisher # "none"

(* Calls of the file system and the adapter may fail; each failure counts. *)
Failures == IF used.failures < setting.failures THEN BOOLEAN ELSE {FALSE}
CountFailure(failed) ==
    used' = [used EXCEPT !.failures = @ + (IF failed THEN 1 ELSE 0)]

-----------------------------------------------------------------------------
(* Preparation. *)

Settles(p, step, directory) ==
    /\ preparing' = [preparing EXCEPT ![p] = step]
    /\ staging' = [staging EXCEPT ![p] = directory]

(* Drop of a PendingRealmBundle that was not published. *)
GivesUp(p) == Settles(p, "done", Empty)

(* begin, and the call that has the adapter fill the directory. *)
begin(p) ==
    /\ preparing[p] = "idle" /\ p \in setting.preparers
    /\ \E failed \in Failures :
          /\ IF failed \/ Published THEN GivesUp(p)
             ELSE Settles(p, "preparing", [Empty EXCEPT !.is = "made"])
          /\ CountFailure(failed)
    /\ UNCHANGED <<bundle, installing, machine>>

(* preparation_completed: the disk and the auxiliary storage are in place, or *)
(* the adapter has failed.                                                    *)
preparation_completed(p) ==
    /\ preparing[p] = "preparing"
    /\ \E failed \in Failures :
          /\ IF failed THEN GivesUp(p)
             ELSE Settles(p, "prepared", [Empty EXCEPT !.is = "populated"])
          /\ CountFailure(failed)
    /\ UNCHANGED <<bundle, installing, machine>>

(* publish_vz_macos, up to the rename: the realm is validated, and written to *)
(* the staging directory, before the destination is looked at again.  "whole" *)
(* says that the memory the adapter reports is a number of mebibytes.         *)
publish_vz_macos(p) ==
    /\ preparing[p] = "prepared"
    /\ \E info \in setting.infos, size \in DiskSizes, failed \in Failures :
          LET realm == new_vz_macos(info, size)
          IN /\ IF failed \/ ~info.whole \/ ~validate(realm) \/ Published
                THEN GivesUp(p)
                ELSE Settles(p, "publishing",
                             [is |-> "whole", manifest |-> encode(realm)])
             /\ CountFailure(failed)
    /\ UNCHANGED <<bundle, installing, machine>>

Publishes(p) ==
    /\ Settles(p, "done", Empty)
    /\ bundle' = [publisher |-> p, disk |-> "blank", places |-> "sound",
                  manifest |-> staging[p].manifest]

\* mutant of rename: the destination is replaced
rename_over(p) ==
    /\ preparing[p] = "publishing"
    /\ Publishes(p)
    /\ UNCHANGED <<installing, machine, used>>

(* The rename fails over a bundle that was published in the meantime: its *)
(* directory is not empty.                                                *)
rename(p) ==
    /\ preparing[p] = "publishing"
    /\ \E failed \in Failures :
          /\ IF failed \/ Published
             THEN GivesUp(p) /\ UNCHANGED <<bundle>>
             ELSE Publishes(p)
          /\ CountFailure(failed)
    /\ UNCHANGED <<installing, machine>>

-----------------------------------------------------------------------------
(* Installation. *)

(* The disks and the auxiliary storage must be files within the bundle. *)
validate_artifacts == bundle.places # "lost"

RealmBundle_open == Published /\ Decodes(bundle.manifest) /\ validate_artifacts

\* mutant of resolve_saved_state_files: any place will do
resolve_saved_state_files_anywhere == TRUE

(* Where the machine's state is saved there must be nothing or a file. *)
resolve_saved_state_files == bundle.places # "blocked"

resolve_vz_macos(realm) ==
    /\ realm.kind = "VirtualMachine" /\ realm.system = "MacOs"
    /\ realm.architecture = "Aarch64"
    /\ validate_artifacts /\ resolve_saved_state_files

(* The bundle can be opened in the state it must be in, and configured. *)
Openable(state) ==
    /\ RealmBundle_open
    /\ LET realm == decode(bundle.manifest)
       IN  realm.state = state /\ resolve_vz_macos(realm) /\ Configures(realm)

Moves(q, pc, realm, result) ==
    installing' = [installing EXCEPT ![q] =
                      [pc |-> pc, realm |-> realm, result |-> result]]

Busy(q) == installing[q].pc \notin {"idle", "done", "dead"}

(* The bundle is read, and must be prepared.  Installers take turns: nothing *)
(* but the user keeps two of them from one disk.                             *)
install(q) ==
    /\ installing[q].pc = "idle"
    /\ \A o \in Installers : ~Busy(o)
    /\ IF Openable("Prepared")
       THEN Moves(q, "opened", decode(bundle.manifest), "none")
       ELSE Moves(q, "done", NoRealm, "refused")
    /\ UNCHANGED <<staging, preparing, bundle, machine, used>>

(* persist: a temporary file takes the manifest's place by a rename, or the *)
(* realm in memory falls back to its former state.                          *)
Persists(realm) == bundle' = [bundle EXCEPT !.manifest = encode(realm)]

(* update_vz_macos_installation_state of installer q, which goes on at pc. *)
Updates(q, state, pc, result) ==
    LET realm == [installing[q].realm EXCEPT !.state = state]
    IN Persists(realm) /\ Moves(q, pc, realm, result)

record_installing(q) ==
    /\ installing[q].pc = "opened"
    /\ \E failed \in Failures :
          /\ IF failed
             THEN Moves(q, "done", NoRealm, "failed") /\ UNCHANGED bundle
             ELSE Updates(q, "Installing", "starting", "none")
          /\ CountFailure(failed)
    /\ UNCHANGED <<staging, preparing, machine>>

\* mutant of install_macos: a rollback also follows an installation that began
install_macos_rollback(q) ==
    /\ installing[q].pc = "starting"
    /\ \/ Moves(q, "running", installing[q].realm, "none") /\ UNCHANGED bundle
       \/ /\ Moves(q, "done", NoRealm, "failed")
          /\ bundle' = [bundle EXCEPT !.disk = "partial",
                            !.manifest = encode([installing[q].realm
                                                 EXCEPT !.state = "Prepared"])]
    /\ UNCHANGED <<staging, preparing, machine, used>>

(* install_macos: when the adapter refuses, the state is rolled back, which *)
(* may fail as well.                                                        *)
install_macos(q) ==
    /\ installing[q].pc = "starting"
    /\ \/ /\ Moves(q, "running", installing[q].realm, "none")
          /\ UNCHANGED <<bundle, used>>
       \/ /\ TRUE \in Failures
          /\ CountFailure(TRUE)
          /\ \/ Updates(q, "Prepared", "done", "failed")
             \/ Moves(q, "done", NoRealm, "failed") /\ UNCHANGED bundle
    /\ UNCHANGED <<staging, preparing, machine>>

(* The adapter writes the disk. *)
Writes(q) ==
    /\ installing[q].pc = "running"
    /\ bundle' = [bundle EXCEPT !.disk = "partial"]
    /\ Moves(q, "writing", installing[q].realm, "none")
    /\ UNCHANGED <<staging, preparing, machine, used>>

(* The adapter is done: the disk holds macOS, or it reports an error. *)
Finishes(q) ==
    /\ installing[q].pc = "writing"
    /\ \E failed \in Failures :
          /\ bundle' = [bundle EXCEPT !.disk = IF failed THEN @ ELSE "installed"]
          /\ Moves(q, IF failed THEN "broken" ELSE "written",
                   installing[q].realm, "none")
          /\ CountFailure(failed)
    /\ UNCHANGED <<staging, preparing, machine>>

\* mutant of installation_completed: any end is recorded as a success
installation_completed_any(q) ==
    /\ installing[q].pc \in {"written", "broken"}
    /\ Updates(q, "Installed", "done", "ok")
    /\ UNCHANGED <<staging, preparing, machine, used>>

(* The completion records how it ended; what is reported says so when the *)
(* manifest could not be written.                                         *)
installation_completed(q) ==
    /\ installing[q].pc \in {"written", "broken"}
    /\ LET ok == installing[q].pc = "written"
       IN \E failed \in Failures :
          /\ IF failed
             THEN Moves(q, "done", NoRealm, "failed") /\ UNCHANGED bundle
             ELSE Updates(q, IF ok THEN "Installed" ELSE "InstallationFailed",
                          "done", IF ok THEN "ok" ELSE "failed")
          /\ CountFailure(failed)
    /\ UNCHANGED <<staging, preparing, machine>>

-----------------------------------------------------------------------------
(* The application, the user, and deaths. *)

open_macos_realm ==
    /\ machine = None
    /\ Openable("Installed")
    /\ machine' = [configuration |-> configuration(decode(bundle.manifest)),
                   places |-> bundle.places]
    /\ UNCHANGED <<staging, preparing, bundle, installing, used>>

close_realm ==
    /\ machine # None
    /\ machine' = None
    /\ UNCHANGED <<staging, preparing, bundle, installing, used>>

(* What a user may make of a manifest by hand. *)
EditedManifest(e, m) ==
    CASE e = "cpu" -> [m EXCEPT !.cpu_count = 0]
      [] e = "memory" -> [m EXCEPT !.memory_mib = MaxMemory + 1]
      [] e = "more" -> [m EXCEPT !.memory_mib = MaxMemory]
      [] e = "schema" -> [m EXCEPT !.schema_version = "v2"]
      [] e = "system" -> [m EXCEPT !.system = "linux"]
      [] e = "format" -> [m EXCEPT !.disks[1].format = "qcow2"]
      [] e = "image" -> [m EXCEPT !.image.cpu_count = @ + 1]
      [] e = "disk" -> [m EXCEPT !.disks = @ \o @]

(* A user edits the manifest, or moves a file of the bundle away or into its *)
(* way, while nobody installs.                                               *)
EditBundle(e) ==
    /\ Published /\ used.edits < setting.edits
    /\ \A q \in Installers : ~Busy(q)
    /\ bundle' = IF e \in {"lost", "blocked"} THEN [bundle EXCEPT !.places = e]
                 ELSE [bundle EXCEPT !.manifest = EditedManifest(e, bundle.manifest)]
    /\ used' = [used EXCEPT !.edits = @ + 1]
    /\ UNCHANGED <<staging, preparing, installing, machine>>

Dies ==
    /\ \/ \E p \in Preparers :
             /\ preparing[p] \in {"preparing", "prepared", "publishing"}
             /\ preparing' = [preparing EXCEPT ![p] = "dead"]
             /\ UNCHANGED installing
       \/ \E q \in Installers :
             /\ Busy(q)
             /\ Moves(q, "dead", NoRealm, "none")
             /\ UNCHANGED preparing
    /\ UNCHANGED <<staging, bundle, machine, used>>

BundleNext ==
    /\ \/ \E p \in Preparers : \/ begin(p) \/ preparation_completed(p)
                               \/ publish_vz_macos(p) \/ rename(p)
       \/ \E q \in Installers : \/ install(q) \/ record_installing(q)
                                \/ install_macos(q) \/ Writes(q) \/ Finishes(q)
                                \/ installation_completed(q)
       \/ open_macos_realm \/ close_realm
       \/ \E e \in Edits : EditBundle(e)
       \/ Dies
    /\ UNCHANGED setting

BundleSpec == BundleInit /\ [][BundleNext]_bundle_vars

-----------------------------------------------------------------------------
State == decode(bundle.manifest).state

BundleTypeOK ==
    /\ \A p \in Preparers :
          /\ staging[p].is \in {"none", "made", "populated", "whole"}
          /\ preparing[p] \in {"idle", "preparing", "prepared", "publishing",
                               "done", "dead"}
          /\ preparing[p] = "publishing" =>
                staging[p].is = "whole" /\ Decodes(staging[p].manifest)
    /\ bundle.publisher \in Preparers \cup {"none"}
    /\ bundle.disk \in {"blank", "partial", "installed"}
    /\ bundle.places \in {"sound", "lost", "blocked"}
    /\ \A q \in Installers :
          /\ installing[q].pc \in {"idle", "opened", "starting", "running",
                                   "writing", "written", "broken", "done", "dead"}
          /\ installing[q].result \in {"none", "refused", "failed", "ok"}

(* A bundle is only told to be installed, and only opened, when the adapter *)
(* has written all of macOS to its disk.                                    *)
InstalledIsComplete ==
    /\ Published /\ Decodes(bundle.manifest) /\ State = "Installed"
          => bundle.disk = "installed"
    /\ machine # None => bundle.disk = "installed"

(* What prepare_macos_bundle publishes can be opened, and is a machine the *)
(* adapter accepts: no check is left for the installation to fail.         *)
PublishedCanBeOpened ==
    Published /\ used.edits = 0
        => /\ RealmBundle_open /\ resolve_vz_macos(decode(bundle.manifest))
           /\ Configures(decode(bundle.manifest))
           /\ Accepted(configuration(decode(bundle.manifest)))

(* Whatever was edited, a machine is only made of a configuration that holds: *)
(* the adapter accepts it, its bytes fit and every file is where it belongs.  *)
OpenedIsAccepted ==
    machine # None => /\ Accepted(machine.configuration)
                      /\ machine.configuration.memory_mib <= MaxMemory
                      /\ machine.places = "sound"

(* A preparation that ends, however it ends, leaves no directory behind; only *)
(* one that dies does.                                                        *)
StagingIsRemoved == \A p \in Preparers : preparing[p] = "done" => staging[p] = Empty

(* A published bundle is not replaced by a slower preparation. *)
NeverReplaced == Published => bundle'.publisher = bundle.publisher

(* macOS is only ever installed on a disk nothing was written to: also after *)
(* a death, a failure, or a rollback.                                        *)
InstallsOnBlankDisk ==
    \A q \in Installers :
          installing[q].pc = "running" /\ installing'[q].pc = "writing"
              => bundle.disk = "blank"

(* Recording a state changes nothing else of the manifest. *)
OnlyStateIsRecorded ==
    Published /\ used'.edits = used.edits
          => \/ bundle'.manifest = bundle.manifest
             \/ /\ Decodes(bundle'.manifest)
                /\ [decode(bundle'.manifest) EXCEPT !.state = State]
                      = decode(bundle.manifest)
=============================================================================
