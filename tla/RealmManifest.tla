---------------------------- MODULE RealmManifest ----------------------------
(***************************************************************************)
(* A Realm, the manifest it is written as, and the machine it describes:   *)
(* validation, encoding, decoding, and the conversion to a configuration.  *)
(* Identifiers, texts and paths are abstract: a text is there or not, a    *)
(* number matters by its minimum and by the largest one that still fits.   *)
(***************************************************************************)
EXTENDS Naturals, Sequences, FiniteSets

CONSTANT MaxMemory  \* the largest memory_mib whose bytes a u64 can hold

ASSUME RealmManifestAssumption == MaxMemory \in Nat \ {0}

(* The names a manifest uses for the values of the model. *)
KindName == [VirtualMachine |-> "vm", Container |-> "container"]
SystemName == [MacOs |-> "macos", Linux |-> "linux", Windows |-> "windows"]
ArchitectureName == [Aarch64 |-> "aarch64", X86_64 |-> "x86_64"]
FormatName == [Raw |-> "raw", Qcow2 |-> "qcow2", Asif |-> "asif"]
StateName == [Prepared |-> "prepared", Installing |-> "installing",
              Installed |-> "installed",
              InstallationFailed |-> "installation_failed"]

Named(names, name) == \E v \in DOMAIN names : names[v] = name
Value(names, name) == CHOOSE v \in DOMAIN names : names[v] = name

Field(s, f) == {s[i][f] : i \in 1..Len(s)}

-----------------------------------------------------------------------------
validate(r) ==
    /\ r.id /\ r.cpu_count > 0 /\ r.memory_mib > 0
    /\ r.disks # <<>>
    /\ \A i \in 1..Len(r.disks) : r.disks[i].id # 0 /\ r.disks[i].size > 0
    /\ Cardinality(Field(r.disks, "id")) = Len(r.disks)
    /\ Cardinality(Field(r.disks, "path")) = Len(r.disks)
    /\ r.kind = "VirtualMachine" /\ r.system = "MacOs"
    /\ r.architecture = "Aarch64"
    /\ r.image.named /\ r.image.cpu_count > 0 /\ r.image.memory_mib > 0
    /\ r.cpu_count >= r.image.cpu_count
    /\ r.memory_mib >= r.image.memory_mib
    /\ r.display > 0 /\ r.identity /\ r.mac_address

(* The realm of a new bundle: one raw disk, the minimum of the restore image. *)
new_vz_macos(info, size) ==
    [id |-> TRUE, kind |-> "VirtualMachine", system |-> "MacOs",
     architecture |-> "Aarch64", cpu_count |-> info.cpu_count,
     memory_mib |-> info.memory_mib,
     disks |-> <<[id |-> 1, path |-> "disk", format |-> "Raw", size |-> size]>>,
     state |-> "Prepared",
     image |-> [named |-> info.named, cpu_count |-> info.cpu_count,
                memory_mib |-> info.memory_mib],
     display |-> 1, identity |-> info.identity, mac_address |-> info.mac_address]

-----------------------------------------------------------------------------
DiskManifest(disk) == [disk EXCEPT !.format = FormatName[disk.format]]

(* encode: refused unless the realm is valid. *)
encode(r) ==
    [schema_version |-> "v1alpha1", backend |-> "vz", network |-> "nat",
     id |-> r.id, kind |-> KindName[r.kind], system |-> SystemName[r.system],
     architecture |-> ArchitectureName[r.architecture], cpu_count |-> r.cpu_count,
     memory_mib |-> r.memory_mib,
     disks |-> [i \in 1..Len(r.disks) |-> DiskManifest(r.disks[i])],
     state |-> StateName[r.state], image |-> r.image, display |-> r.display,
     identity |-> r.identity, mac_address |-> r.mac_address]

(* decode: every name must be known, and the realm be valid. *)
Readable(m) ==
    /\ m.schema_version = "v1alpha1" /\ m.backend = "vz" /\ m.network = "nat"
    /\ Named(KindName, m.kind) /\ Named(SystemName, m.system)
    /\ Named(ArchitectureName, m.architecture) /\ Named(StateName, m.state)
    /\ \A i \in 1..Len(m.disks) : Named(FormatName, m.disks[i].format)

Disk(disk) == [disk EXCEPT !.format = Value(FormatName, disk.format)]

decode(m) ==
    [id |-> m.id, kind |-> Value(KindName, m.kind),
     system |-> Value(SystemName, m.system),
     architecture |-> Value(ArchitectureName, m.architecture),
     cpu_count |-> m.cpu_count, memory_mib |-> m.memory_mib,
     disks |-> [i \in 1..Len(m.disks) |-> Disk(m.disks[i])],
     state |-> Value(StateName, m.state), image |-> m.image, display |-> m.display,
     identity |-> m.identity, mac_address |-> m.mac_address]

Decodes(m) == Readable(m) /\ validate(decode(m))

-----------------------------------------------------------------------------
\* mutant of Configures: any number of mebibytes is taken
Configures_wide(r) == "Qcow2" \notin Field(r.disks, "format")

(* configuration_from_bundle: what the framework is given. *)
Configures(r) ==
    /\ r.memory_mib <= MaxMemory
    /\ "Qcow2" \notin Field(r.disks, "format")

configuration(r) ==
    [cpu_count |-> r.cpu_count, memory_mib |-> r.memory_mib,
     disks |-> Len(r.disks), display |-> r.display, identity |-> r.identity]

(* NativeMacOsVirtualMachineConfiguration: what the adapter demands of it. *)
Accepted(c) ==
    /\ c.cpu_count > 0 /\ c.memory_mib > 0 /\ c.disks > 0
    /\ c.identity /\ c.display > 0
=============================================================================
