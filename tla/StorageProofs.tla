---------------------------- MODULE StorageProofs ----------------------------
(***************************************************************************)
(* Proofs about the block layer, for every registry size, number width,    *)
(* partition table, set of drives and history of probes: StorageInv is     *)
(* inductive, and names keep their meaning.                                *)
(***************************************************************************)
EXTENDS Storage, SequenceTheorems, TLAPS

-----------------------------------------------------------------------------
(* The inductive invariant.  What is registered are the disks of the first *)
(* probe and the usable entries that the scan has passed, each once.       *)
StorageTypeOK ==
    /\ boot_present \subseteq Drives /\ table \in Seq(Entries)
    /\ pc \in {"disks", "mbr", "scan", "ctx", "done"} /\ entry \in Nat \ {0}
    /\ g_devices \in Seq([name : {"disk0", "disk1"} \X Nat, drive : Drives, base : Nat, count : Nat,
                          objs : SUBSET ({"dev", "ctx"} \X Nat)])

Passed == {n \in DOMAIN table : n < entry /\ Usable(table[n])}
IsDisk(dev) == dev \in {Disk(name, BootDrive(name)) : name \in {"disk0", "disk1"}}
IsPartition(dev) == \E n \in Passed : dev = Partition(Disk("disk0", BootDrive("disk0")), n)
Name(i) == g_devices[i].name

RegistryInv ==
    /\ \A i \in DOMAIN g_devices :
          /\ g_devices[i].drive \in boot_present
          /\ IsDisk(g_devices[i]) \/ IsPartition(g_devices[i])
    /\ \A i, j \in DOMAIN g_devices : Name(i) = Name(j) => i = j

InUse == UNION {g_devices[i].objs : i \in DOMAIN g_devices}
HeapInv == heap = Pending \cup InUse

ScanInv ==
    /\ pc = "disks" => g_devices = << >> /\ present = boot_present
    /\ pc \in {"disks", "mbr"} => entry = 1
    /\ mbr_rc = "ok" => pc = "done" /\ entry \notin DOMAIN table
    /\ pc = "ctx" => entry \in DOMAIN table /\ Usable(table[entry])
    /\ pc \in {"scan", "ctx"} \/ mbr_rc = "ok" =>
          \A n \in Passed : \E i \in DOMAIN g_devices : Name(i) = <<"disk0", n>>

StorageInv ==
    /\ StorageTypeOK
    /\ RegistryInv
    /\ HeapInv
    /\ ScanInv
    /\ ReadsOwnSector

-----------------------------------------------------------------------------
DeviceType == [name : {"disk0", "disk1"} \X Nat, drive : Drives, base : Nat, count : Nat,
               objs : SUBSET ({"dev", "ctx"} \X Nat)]

(* What depends on these variables only does not change while they do not. *)
LEMMA RegistryKept ==
    ASSUME StorageInv, UNCHANGED << g_devices, table, boot_present >>, entry' \in Nat \ {0},
           pc' \in {"disks", "mbr", "scan", "ctx", "done"}, entry' >= entry
    PROVE  /\ StorageTypeOK' /\ RegistryInv' /\ Passed \subseteq Passed'
           /\ \A n : (\E i \in DOMAIN g_devices : Name(i) = <<"disk0", n>>)
                        => (\E i \in DOMAIN g_devices : Name(i) = <<"disk0", n>>)'
<1>1. StorageTypeOK'
    BY DEF StorageInv, StorageTypeOK
<1>2. Passed \subseteq Passed'
    BY DEF Passed, Usable, StorageInv, StorageTypeOK
<1>3. \A i : Name(i)' = Name(i)
    BY DEF Name
<1>4. \A dev : (IsDisk(dev) => IsDisk(dev)') /\ (IsPartition(dev) => IsPartition(dev)')
    BY <1>2 DEF IsDisk, IsPartition, Partition, BootDrive, Disk
<1>5. RegistryInv'
    BY <1>3, <1>4 DEF StorageInv, RegistryInv, Disk, Partition
<1> QED BY <1>1, <1>2, <1>3, <1>5

LEMMA HeapKept ==
    ASSUME StorageInv, UNCHANGED << g_devices, heap >>, pc # "ctx", pc' # "ctx"
    PROVE  HeapInv'
BY DEF StorageInv, HeapInv, InUse, Pending

LEMMA ReadKept ==
    ASSUME ReadsOwnSector, UNCHANGED << table, boot_present, last >>
    PROVE  ReadsOwnSector'
BY DEF ReadsOwnSector, BootDrive

LEMMA InitStorageInv == Init => StorageInv
<1> SUFFICES ASSUME Init PROVE StorageInv
    OBVIOUS
<1> USE DEF Init
<1>1. table \in Seq(Entries) /\ boot_present \subseteq Drives
  <2>1. << >> \in Seq(Entries)
      OBVIOUS
  <2> QED BY <2>1, StorageAssumption
<1>2. StorageTypeOK
    BY <1>1 DEF StorageTypeOK
<1>3. RegistryInv /\ Passed = {}
    BY DEF RegistryInv, Passed
<1>4. HeapInv
    BY DEF HeapInv, InUse, Pending
<1> QED BY <1>2, <1>3, <1>4 DEF StorageInv, ScanInv, ReadsOwnSector, NoRead

-----------------------------------------------------------------------------
(* Names.                                                                  *)
LEMMA NameOf ==
    ASSUME StorageInv, NEW i \in DOMAIN g_devices
    PROVE  /\ \/ Name(i)[2] = 0 /\ IsDisk(g_devices[i])
              \/ Name(i)[2] # 0 /\ IsPartition(g_devices[i])
           /\ g_devices[i].drive = BootDrive(Name(i)[1]) /\ g_devices[i].drive \in boot_present
<1>1. /\ IsDisk(g_devices[i]) \/ IsPartition(g_devices[i])
      /\ g_devices[i].drive \in boot_present /\ table \in Seq(Entries)
    BY DEF StorageInv, StorageTypeOK, RegistryInv
<1>2. CASE IsDisk(g_devices[i])
    BY <1>1, <1>2 DEF IsDisk, Disk, Name
<1>3. CASE IsPartition(g_devices[i])
  <2>1. PICK n \in Passed : g_devices[i] = Partition(Disk("disk0", BootDrive("disk0")), n)
      BY <1>3 DEF IsPartition
  <2>2. n \in Nat /\ n # 0
      BY <1>1, <2>1 DEF Passed
  <2> QED BY <1>1, <1>3, <2>1, <2>2 DEF Partition, Disk, Name
<1> QED BY <1>1, <1>2, <1>3

LEMMA FoundByName ==
    ASSUME StorageInv, NEW name
    PROVE  /\ GetByName(name) = {i \in DOMAIN g_devices : Name(i) = name}
           /\ name = <<"disk0", 0>> =>
                 \A i \in GetByName(name) : g_devices[i] = Disk("disk0", BootDrive("disk0"))
<1>1. GetByName(name) = {i \in DOMAIN g_devices : Name(i) = name}
  <2>1. \A i \in DOMAIN g_devices : DOMAIN g_devices = 1 .. Len(g_devices) /\ i \in Nat /\ Len(g_devices) \in Nat
      BY DEF StorageInv, StorageTypeOK
  <2>2. \A i, j \in DOMAIN g_devices : Name(i) = Name(j) => i = j
      BY DEF StorageInv, RegistryInv
  <2>3. ASSUME NEW i \in DOMAIN g_devices, NEW j \in 1 .. i - 1
        PROVE  j \in DOMAIN g_devices /\ j # i
      BY <2>1, <2>3
  <2> QED BY <2>2, <2>3 DEF GetByName, Name
<1>2. ASSUME name = <<"disk0", 0>>, NEW i \in GetByName(name)
      PROVE  g_devices[i] = Disk("disk0", BootDrive("disk0"))
  <2>1. i \in DOMAIN g_devices /\ Name(i) = <<"disk0", 0>>
      BY <1>1, <1>2
  <2>2. IsDisk(g_devices[i])
      BY <2>1, NameOf
  <2> QED BY <2>1, <2>2 DEF IsDisk, Disk, Name
<1> QED BY <1>1, <1>2

-----------------------------------------------------------------------------
(* block_register: a device with a new name joins, or nothing changes.     *)
LEMMA RegisterAppends ==
    ASSUME NEW devs \in Seq(DeviceType), NEW dev \in DeviceType
    PROVE  /\ Register(devs, dev) \in Seq(DeviceType)
           /\ ~Registered(devs, dev) => Register(devs, dev) = devs
           /\ Registered(devs, dev) =>
                 /\ Register(devs, dev) = Append(devs, dev)
                 /\ \A i \in DOMAIN devs : devs[i].name # dev.name
BY DEF Register, Registered

LEMMA StepRegisterDevices ==
    ASSUME StorageInv, RegisterDevices
    PROVE  StorageInv'
<1> USE DEF RegisterDevices
<1>1. /\ g_devices = << >> /\ present = boot_present /\ boot_present \subseteq Drives /\ heap = {}
      /\ mbr_rc # "ok" /\ entry = 1
    BY DEF StorageInv, StorageTypeOK, ScanInv, RegistryInv, HeapInv, InUse, Pending
<1> DEFINE d0 == Disk("disk0", BootDrive("disk0"))  d1 == Disk("disk1", 1)
<1>2. /\ d0 \in DeviceType /\ d1 \in DeviceType /\ IsDisk(d0) /\ IsDisk(d1)
      /\ d0.name # d1.name /\ d0.objs = {} /\ d1.objs = {}
      /\ present # {} => d0.drive \in present /\ d0 = Disk("disk0", Disk0Drive)
    BY <1>1 DEF Disk, DeviceType, BootDrive, IsDisk, Drives, Disk0Drive
<1> HIDE DEF d0, d1
<1>3. Register(<< >>, d0) \in {<< >>, <<d0>>}
    BY DEF Register
<1>4. Registered(<< >>, d0) => Register(<< >>, d0) = <<d0>>
    BY DEF Register, Registered
<1>5. Register(<<d0>>, d1) \in {<<d0>>, <<d0, d1>>}
  <2>1. Append(<<d0>>, d1) = <<d0, d1>>
    <3>1. <<d0>> \in Seq({d0, d1}) /\ Len(<<d0>>) = 1 /\ <<d0, d1>> \in Seq({d0, d1})
        OBVIOUS
    <3>2. /\ Append(<<d0>>, d1) \in Seq({d0, d1}) /\ Len(Append(<<d0>>, d1)) = 2
          /\ Append(<<d0>>, d1)[1] = d0 /\ Append(<<d0>>, d1)[2] = d1
        BY <3>1
    <3>3. /\ Len(<<d0, d1>>) = 2 /\ <<d0, d1>>[1] = d0 /\ <<d0, d1>>[2] = d1
          /\ \A k \in 1..2 : k = 1 \/ k = 2
        OBVIOUS
    <3> QED BY <3>1, <3>2, <3>3, SeqEqual
  <2> QED BY <2>1 DEF Register
<1>6. \/ g_devices' = << >>
      \/ g_devices' = <<d0>> /\ present # {}
      \/ g_devices' = <<d0, d1>> /\ present = Drives
  <2>1. CASE present = {}
      BY <1>1, <2>1 DEF Disks
  <2>2. CASE present = Drives /\ Registered(<< >>, d0)
      BY <1>1, <1>2, <1>4, <1>5, <2>2 DEF Disks, d1
  <2>3. CASE present # {} /\ ~(present = Drives /\ Registered(<< >>, d0))
      BY <1>1, <1>2, <1>3, <2>3 DEF Disks
  <2> QED BY <2>1, <2>2, <2>3
<1>7. /\ g_devices' \in Seq(DeviceType)
      /\ \A i \in DOMAIN g_devices' : /\ g_devices'[i] \in {d0, d1}
                                      /\ g_devices'[i].drive \in boot_present
      /\ \A i, j \in DOMAIN g_devices' : g_devices'[i].name = g_devices'[j].name => i = j
  <2>1. CASE g_devices' = << >>
      BY <2>1
  <2>2. CASE g_devices' = <<d0>> /\ present # {}
      BY <1>1, <1>2, <2>2
  <2>3. CASE g_devices' = <<d0, d1>> /\ present = Drives
    <3>1. d1.drive \in Drives
        BY <1>2 DEF DeviceType
    <3> QED BY <1>1, <1>2, <2>3, <3>1
  <2> QED BY <1>6, <2>1, <2>2, <2>3
<1>8. StorageTypeOK'
    BY <1>7 DEF StorageInv, StorageTypeOK, DeviceType
<1>9. RegistryInv'
  <2>1. \A dev : IsDisk(dev) => IsDisk(dev)'
      BY DEF IsDisk, BootDrive
  <2> QED BY <1>1, <1>2, <1>7, <2>1 DEF RegistryInv, Name
<1>10. ScanInv'
    BY <1>1 DEF ScanInv
<1>11. HeapInv'
  <2>1. UNION {g_devices'[i].objs : i \in DOMAIN g_devices'} = {}
      BY <1>2, <1>7
  <2> QED BY <1>1, <2>1 DEF HeapInv, InUse, Pending
<1> QED BY <1>8, <1>9, <1>10, <1>11, ReadKept DEF StorageInv

LEMMA StepScanBegin ==
    ASSUME StorageInv, NEW ok \in BOOLEAN, ScanBegin(ok)
    PROVE  StorageInv'
<1> USE DEF ScanBegin, ScanEnds
<1>1. pc' \in {"scan", "done"} /\ entry = 1 /\ Passed = {} /\ Passed' = {} /\ mbr_rc' # "ok"
    BY DEF StorageInv, StorageTypeOK, ScanInv, Passed
<1>2. StorageTypeOK' /\ RegistryInv'
    BY <1>1, RegistryKept
<1>3. HeapInv'
    BY <1>1, HeapKept
<1> QED BY <1>1, <1>2, <1>3, ReadKept DEF StorageInv, ScanInv

LEMMA StepSkipEntry ==
    ASSUME StorageInv, SkipEntry
    PROVE  StorageInv'
<1> USE DEF SkipEntry, NextEntry
<1>1. entry \in Nat \ {0} /\ table \in Seq(Entries) /\ pc' = "scan" /\ mbr_rc' # "ok"
    BY DEF StorageInv, StorageTypeOK, ScanInv
<1>2. StorageTypeOK' /\ RegistryInv'
    BY <1>1, RegistryKept
<1>3. Passed' = Passed
    BY <1>1 DEF Passed, Usable
<1>4. ScanInv'
    BY <1>1, <1>3 DEF StorageInv, ScanInv, Name
<1>5. HeapInv'
    BY <1>1, HeapKept
<1> QED BY <1>2, <1>4, <1>5, ReadKept DEF StorageInv

(* The objects of the entry that the scan is at belong to no device.       *)
LEMMA EntryObjectsNew ==
    ASSUME StorageInv
    PROVE  <<"dev", entry>> \notin InUse /\ <<"ctx", entry>> \notin InUse
<1> SUFFICES ASSUME NEW i \in DOMAIN g_devices
             PROVE  <<"dev", entry>> \notin g_devices[i].objs /\ <<"ctx", entry>> \notin g_devices[i].objs
    BY DEF InUse
<1>1. entry \in Nat /\ \A n \in Passed : n < entry
    BY DEF StorageInv, StorageTypeOK, Passed
<1>2. IsDisk(g_devices[i]) \/ IsPartition(g_devices[i])
    BY DEF StorageInv, RegistryInv
<1> QED BY <1>1, <1>2 DEF IsDisk, IsPartition, Disk, Partition

LEMMA StepAlloc ==
    ASSUME StorageInv, AllocDevice \/ NoDevice \/ NoContext
    PROVE  StorageInv'
<1> USE DEF AllocDevice, NoDevice, NoContext, ScanEnds
<1>1. entry \in Nat \ {0} /\ entry' = entry /\ pc' \in {"ctx", "done"} /\ mbr_rc' # "ok"
    BY DEF StorageInv, StorageTypeOK, ScanInv
<1>2. StorageTypeOK' /\ RegistryInv'
    BY <1>1, RegistryKept
<1>3. HeapInv'
  <2>1. InUse' = InUse
      BY DEF InUse
  <2> QED BY <2>1, EntryObjectsNew DEF StorageInv, HeapInv, Pending
<1>4. Passed' = Passed
    BY DEF Passed, Usable
<1>5. ScanInv'
    BY <1>1, <1>4 DEF StorageInv, ScanInv, Name, Usable
<1> QED BY <1>2, <1>3, <1>5, ReadKept DEF StorageInv

LEMMA StepScanDone ==
    ASSUME StorageInv, ScanDone
    PROVE  StorageInv'
<1> USE DEF ScanDone, ScanEnds
<1>1. entry \in Nat \ {0} /\ pc' = "done" /\ mbr_rc' = "ok" /\ entry \notin DOMAIN table
    BY DEF StorageInv, StorageTypeOK
<1>2. StorageTypeOK' /\ RegistryInv'
    BY <1>1, RegistryKept
<1>3. Passed' = Passed
    BY DEF Passed, Usable
<1>4. ScanInv'
    BY <1>1, <1>3 DEF StorageInv, ScanInv, Name
<1>5. HeapInv'
    BY <1>1, HeapKept
<1> QED BY <1>2, <1>4, <1>5, ReadKept DEF StorageInv

(* A registered partition is the entry that the scan is at.                *)
LEMMA StepAddPartition ==
    ASSUME StorageInv, AddPartition
    PROVE  StorageInv'
<1>1. /\ entry \in Nat \ {0} /\ table \in Seq(Entries) /\ pc = "ctx" /\ mbr_rc # "ok"
      /\ entry \in DOMAIN table /\ Usable(table[entry]) /\ g_devices \in Seq(DeviceType)
    BY DEF AddPartition, StorageInv, StorageTypeOK, ScanInv, DeviceType
<1>2. PICK i \in GetByName(<<"disk0", 0>>) :
          LET dev == Partition(g_devices[i], entry)
          IN  /\ g_devices' = Register(g_devices, dev)
              /\ IF Registered(g_devices, dev)
                 THEN heap' = heap \cup dev.objs /\ NextEntry
                 ELSE heap' = heap \ dev.objs /\ ScanEnds("no_space") /\ UNCHANGED entry
    BY DEF AddPartition
<1>3. i \in DOMAIN g_devices /\ g_devices[i] = Disk("disk0", BootDrive("disk0"))
    BY FoundByName
<1> DEFINE dev == Partition(Disk("disk0", BootDrive("disk0")), entry)
           ok == Registered(g_devices, dev)
<1>4. /\ g_devices' = Register(g_devices, dev)
      /\ IF ok THEN heap' = heap \cup dev.objs /\ NextEntry
               ELSE heap' = heap \ dev.objs /\ ScanEnds("no_space") /\ UNCHANGED entry
      /\ UNCHANGED << present, table, boot_present, last >>
    BY <1>2, <1>3 DEF AddPartition
<1>5. dev \in DeviceType /\ dev.name = <<"disk0", entry>> /\ dev.drive \in boot_present
      /\ dev.objs = {<<"dev", entry>>, <<"ctx", entry>>}
  <2>1. dev.drive = g_devices[i].drive /\ g_devices[i].drive \in boot_present
      BY <1>3 DEF Partition, StorageInv, RegistryInv
  <2>2. table[entry].start \in Nat /\ table[entry].count \in Nat
    <3>1. table[entry] \in Entries
        BY <1>1
    <3>2. table[entry].start \in 0 .. U32 - 1 /\ table[entry].count \in 0 .. U32 - 1
        BY <3>1 DEF Entries
    <3> QED BY <3>2, StorageAssumption
  <2>3. dev.drive \in Drives
      BY <2>1 DEF StorageInv, StorageTypeOK
  <2>4. dev = [name |-> <<"disk0", entry>>, drive |-> dev.drive,
               base |-> table[entry].start, count |-> table[entry].count,
               objs |-> {<<"dev", entry>>, <<"ctx", entry>>}]
      BY DEF Partition
  <2> HIDE DEF dev
  <2>5. /\ <<"disk0", entry>> \in {"disk0", "disk1"} \X Nat
        /\ {<<"dev", entry>>, <<"ctx", entry>>} \in SUBSET ({"dev", "ctx"} \X Nat)
      BY <1>1
  <2>6. dev \in DeviceType
      BY <2>2, <2>3, <2>4, <2>5 DEF DeviceType
  <2>7. dev.name = <<"disk0", entry>> /\ dev.objs = {<<"dev", entry>>, <<"ctx", entry>>}
      BY <2>4
  <2> QED BY <2>1, <2>6, <2>7
<1> HIDE DEF dev
<1>6. CASE ~ok
  <2>1. /\ g_devices' = g_devices /\ heap' = heap \ dev.objs /\ pc' = "done"
        /\ mbr_rc' # "ok" /\ entry' = entry
      BY <1>1, <1>4, <1>5, <1>6, RegisterAppends DEF ScanEnds
  <2>2. StorageTypeOK' /\ RegistryInv'
      BY <1>1, <1>4, <2>1, RegistryKept
  <2>3. ScanInv'
      BY <2>1 DEF ScanInv
  <2>4. HeapInv'
    <3>1. InUse' = InUse
        BY <2>1 DEF InUse
    <3> QED BY <1>1, <1>5, <2>1, <3>1, EntryObjectsNew DEF StorageInv, HeapInv, Pending
  <2> QED BY <1>4, <2>2, <2>3, <2>4, ReadKept DEF StorageInv
<1>7. CASE ok
  <2>1. /\ g_devices' = Append(g_devices, dev) /\ heap' = heap \cup dev.objs
        /\ \A k \in DOMAIN g_devices : g_devices[k].name # dev.name
        /\ entry' = entry + 1 /\ pc' = "scan" /\ mbr_rc' # "ok"
      BY <1>1, <1>4, <1>5, <1>7, RegisterAppends DEF NextEntry
  <2> DEFINE n == Len(g_devices)
  <2>2. /\ n \in Nat /\ DOMAIN g_devices = 1..n /\ DOMAIN g_devices' = 1..(n + 1)
        /\ g_devices'[n + 1] = dev /\ \A k \in 1..n : g_devices'[k] = g_devices[k]
        /\ g_devices' \in Seq(DeviceType)
      BY <1>1, <1>5, <2>1
  <2> HIDE DEF n
  <2>3. 1..(n + 1) = (1..n) \cup {n + 1} /\ n + 1 \notin 1..n
      BY <2>2
  <2>4. StorageTypeOK'
      BY <1>1, <1>4, <2>1, <2>2 DEF StorageInv, StorageTypeOK, DeviceType
  <2>5. Passed' = Passed \cup {entry}
      BY <1>1, <1>4, <2>1 DEF Passed, Usable
  <2>6. \A d : (IsDisk(d) => IsDisk(d)') /\ (IsPartition(d) => IsPartition(d)')
      BY <1>4, <2>5 DEF IsDisk, IsPartition, Partition, BootDrive, Disk
  <2>7. \A d : d = dev => IsPartition(d)'
      BY <1>4, <2>5 DEF IsPartition, Partition, BootDrive, Disk, dev
  <2>8. \A k, l \in DOMAIN g_devices' : g_devices'[k].name = g_devices'[l].name => k = l
      BY <2>1, <2>2, <2>3 DEF StorageInv, RegistryInv, Name
  <2>9. HeapInv'
    <3>1. {g_devices'[k].objs : k \in DOMAIN g_devices'}
             = {g_devices[k].objs : k \in DOMAIN g_devices} \cup {dev.objs}
        BY <2>2, <2>3
    <3>2. InUse' = InUse \cup dev.objs
        BY <3>1 DEF InUse
    <3> QED BY <1>1, <1>5, <2>1, <3>2 DEF StorageInv, HeapInv, Pending
  <2>10. RegistryInv'
    <3>1. \A k \in DOMAIN g_devices' :
             /\ g_devices'[k].drive \in boot_present'
             /\ (IsDisk(g_devices[k]) \/ IsPartition(g_devices[k]))'
      <4> SUFFICES ASSUME NEW k \in DOMAIN g_devices'
                   PROVE  /\ g_devices'[k].drive \in boot_present'
                          /\ (IsDisk(g_devices[k]) \/ IsPartition(g_devices[k]))'
          OBVIOUS
      <4>1. CASE k = n + 1
        <5>1. g_devices'[k] = dev
            BY <2>2, <4>1
        <5>2. g_devices'[k].drive \in boot_present'
            BY <1>4, <1>5, <5>1
        <5>3. IsPartition(g_devices[k])'
            BY <2>7, <5>1 DEF IsPartition
        <5> QED BY <5>2, <5>3
      <4>2. CASE k \in 1..n
        <5>1. /\ g_devices[k].drive \in boot_present
              /\ IsDisk(g_devices[k]) \/ IsPartition(g_devices[k])
            BY <2>2, <4>2 DEF StorageInv, RegistryInv
        <5>2. g_devices'[k] = g_devices[k]
            BY <2>2, <4>2
        <5> QED BY <1>4, <2>6, <5>1, <5>2 DEF IsDisk, IsPartition
      <4> QED BY <2>2, <2>3, <4>1, <4>2
    <3> QED BY <2>8, <3>1 DEF RegistryInv, Name
  <2>11. ScanInv'
    <3>1. \A m \in Passed : \E k \in DOMAIN g_devices : g_devices[k].name = <<"disk0", m>>
        BY <1>1 DEF StorageInv, ScanInv, Name
    <3>2. \A m \in Passed' : \E k \in DOMAIN g_devices' : g_devices'[k].name = <<"disk0", m>>
        BY <1>5, <2>2, <2>3, <2>5, <3>1
    <3> QED BY <2>1, <3>2 DEF ScanInv, Name
  <2> QED BY <1>4, <2>4, <2>9, <2>10, <2>11, ReadKept DEF StorageInv
<1> QED BY <1>6, <1>7

(* mbr_partition_read cannot leave the partition, and wraps nowhere.       *)
LEMMA StepRead ==
    ASSUME StorageInv, NEW name, NEW lba \in Lbas, NEW ok \in BOOLEAN, Read(name, lba, ok)
    PROVE  StorageInv'
<1> USE DEF Read
<1>1. StorageTypeOK' /\ RegistryInv'
    BY RegistryKept DEF StorageInv, StorageTypeOK
<1>2. ScanInv'
  <2>1. Passed' = Passed
      BY DEF Passed, Usable
  <2> QED BY <2>1 DEF StorageInv, ScanInv, Name
<1>3. PICK i \in DOMAIN g_devices :
          /\ Name(i) = name /\ (ok => CanRead(g_devices[i], lba))
          /\ last' = ReadResult(g_devices[i], lba, ok)
    BY FoundByName
<1>4. ~ok => ReadsOwnSector'
    BY <1>3 DEF ReadsOwnSector, ReadResult
<1>5. ASSUME ok PROVE ReadsOwnSector'
  <2> DEFINE d == g_devices[i]
  <2>1. /\ d.drive = BootDrive(d.name[1]) /\ d.drive \in boot_present
        /\ \/ d.name[2] = 0 /\ IsDisk(d)
           \/ d.name[2] # 0 /\ IsPartition(d)
      BY <1>3, NameOf DEF Name
  <2>2. d.base \in Nat /\ d.count \in Nat /\ lba \in Nat /\ U32 \in Nat
    <3>1. g_devices \in Seq(DeviceType)
        BY DEF StorageInv, StorageTypeOK, DeviceType
    <3>2. d \in DeviceType
        BY <1>3, <3>1
    <3> QED BY <3>2, StorageAssumption DEF DeviceType
  <2>3. d.base <= U32 - 1 - lba /\ (d.count # 0 => lba < d.count)
      BY <1>3, <1>5 DEF CanRead, NoWrap, Within
  <2>4. ParentLba(d, lba) = d.base + lba
      BY <2>2, <2>3 DEF ParentLba
  <2>5. last' = [name |-> d.name, lba |-> lba, rc |-> "ok", drive |-> d.drive, sector |-> d.base + lba]
      BY <1>3, <1>5, <2>4 DEF ReadResult
  <2>6. d.base = IF d.name[2] = 0 THEN 0 ELSE table[d.name[2]].start
      BY <2>1 DEF IsDisk, IsPartition, Disk, Partition
  <2>7. d.name[2] # 0 => lba < table[d.name[2]].count
      BY <2>1, <2>3 DEF IsPartition, Partition, Passed, Usable
  <2> HIDE DEF d
  <2>8. d.base + lba = lba + (IF d.name[2] = 0 THEN 0 ELSE table[d.name[2]].start)
      BY <2>2, <2>6
  <2> QED BY <2>1, <2>5, <2>7, <2>8 DEF ReadsOwnSector, BootDrive
<1>6. ReadsOwnSector'
    BY <1>4, <1>5
<1>7. HeapInv'
    BY HeapKept
<1> QED BY <1>1, <1>2, <1>6, <1>7 DEF StorageInv

LEMMA StepReprobe ==
    ASSUME StorageInv, NEW found, Reprobe(found) \/ UNCHANGED vars
    PROVE  StorageInv'
<1> USE DEF Reprobe, vars
<1>1. StorageTypeOK' /\ RegistryInv'
    BY RegistryKept DEF StorageInv, StorageTypeOK
<1>2. Passed' = Passed
    BY DEF Passed, Usable
<1>3. ScanInv'
    BY <1>2 DEF StorageInv, ScanInv, Name
<1>4. HeapInv'
    BY DEF StorageInv, HeapInv, InUse, Pending
<1> QED BY <1>1, <1>3, <1>4, ReadKept DEF StorageInv

LEMMA NextStorageInv == StorageInv /\ [Next]_vars => StorageInv'
<1> SUFFICES ASSUME StorageInv, [Next]_vars PROVE StorageInv'
    OBVIOUS
<1> QED BY StepRegisterDevices, StepScanBegin, StepSkipEntry, StepAlloc, StepAddPartition,
           StepScanDone, StepRead, StepReprobe DEF Next

-----------------------------------------------------------------------------
(* The inductive invariant of the block layer.                             *)
THEOREM StorageInvariant == Spec => []StorageInv
BY InitStorageInv, NextStorageInv, PTL DEF Spec

(* ata_block_read and mbr_partition_read: a read through a name that       *)
(* succeeds is from the drive and the partition the name was given for.    *)
THEOREM StorageReadsOwnSector == Spec => []ReadsOwnSector
<1>1. StorageInv => ReadsOwnSector
    BY DEF StorageInv
<1> QED BY <1>1, StorageInvariant, PTL

(* mbr_scan_and_register: nothing leaks on any of its exits, and success   *)
(* means that every usable entry got its device.                           *)
THEOREM StorageScanAccounts == Spec => []ScanAccountsForAll
<1>1. StorageInv => ScanAccountsForAll
  <2> SUFFICES ASSUME StorageInv PROVE ScanAccountsForAll
      OBVIOUS
  <2>1. heap = Pending \cup UNION {g_devices[i].objs : i \in DOMAIN g_devices}
      BY DEF StorageInv, HeapInv, InUse
  <2>2. ASSUME NEW i \in DOMAIN g_devices, NEW j \in DOMAIN g_devices, i # j
        PROVE  g_devices[i].objs \cap g_devices[j].objs = {}
    <3>1. Name(i) # Name(j)
        BY <2>2 DEF StorageInv, RegistryInv
    <3>2. \A k \in {i, j} : g_devices[k].objs = {} \/
              \E n \in Nat : Name(k) = <<"disk0", n>> /\ g_devices[k].objs = {<<"dev", n>>, <<"ctx", n>>}
      <4>1. \A k \in {i, j} : IsDisk(g_devices[k]) \/ IsPartition(g_devices[k])
          BY <2>2, NameOf
      <4>2. \A n \in Passed : n \in Nat
        <5>1. table \in Seq(Entries)
            BY DEF StorageInv, StorageTypeOK
        <5> QED BY <5>1 DEF Passed
      <4> QED BY <4>1, <4>2 DEF IsDisk, IsPartition, Disk, Partition, Name
    <3> QED BY <3>1, <3>2
  <2>3. ASSUME mbr_rc = "ok", NEW n \in DOMAIN table, Usable(table[n])
        PROVE  GetByName(<<"disk0", n>>) # {}
    <3>1. n \in Passed
      <4>1. table \in Seq(Entries) /\ entry \in Nat \ {0} /\ entry \notin DOMAIN table
          BY <2>3 DEF StorageInv, StorageTypeOK, ScanInv
      <4> QED BY <2>3, <4>1 DEF Passed
    <3>2. \E i \in DOMAIN g_devices : Name(i) = <<"disk0", n>>
        BY <2>3, <3>1 DEF StorageInv, ScanInv
    <3> QED BY <3>2, FoundByName
  <2> QED BY <2>1, <2>2, <2>3 DEF ScanAccountsForAll
<1> QED BY <1>1, StorageInvariant, PTL
=============================================================================
