------------------------------- MODULE Storage -------------------------------
(***************************************************************************)
(* The block layer: the registry of block devices, kernel/drivers/block.c, *)
(* the disks that ata_block.c puts in front of the ATA driver, and the     *)
(* partitions that mbr.c finds on disk0.                                   *)
(*                                                                         *)
(* The start-up code registers the drives that answered the probe, reads   *)
(* sector 0 of disk0 and registers one device for each usable entry of its *)
(* partition table; two objects of the heap make up such a device.  Then   *)
(* anyone may read any device, and the self test may probe the drives      *)
(* again.  A sector is known by its drive and its number.                  *)
(***************************************************************************)
EXTENDS Integers, Sequences

CONSTANTS
    BLOCK_MAX_DEVICES,     \* block.h: 8
    ATA_LBA28_MAX,         \* the last sector number that the driver accepts
    U32,                   \* the uint32_t of a sector number wraps here, 2^32
    Attached,              \* the drives that may be on the channel
    Size,                  \* their sectors, 0: not reported
    Tables,                \* partition tables that disk0 may hold
    Lbas                   \* the sectors callers ask for

Drives == {0, 1}
EntryTypes == {"empty", "extended", "data"}
Entries == [type : EntryTypes, start : 0 .. U32 - 1, count : 0 .. U32 - 1]

ASSUME StorageAssumption ==
    /\ BLOCK_MAX_DEVICES \in Nat /\ ATA_LBA28_MAX \in Nat /\ U32 \in Nat \ {0}
    /\ Attached \subseteq Drives
    /\ Size \in [Drives -> Nat]
    /\ Tables \subseteq Seq(Entries)
    /\ Lbas \subseteq 0 .. U32 - 1

VARIABLES
    present,         \* the drives the last probe found
    g_devices,       \* the registry
    heap,            \* the heap objects of the block layer
    pc, entry,       \* where the start-up code is, the loop of the scan
    mbr_rc,          \* what the scan returned
    table,           \* what sector 0 of disk0 holds
    boot_present,    \* ghost: what the first probe found
    last             \* ghost: the last read: device, sector asked for, result

vars == << present, g_devices, heap, pc, entry, mbr_rc, table, boot_present, last >>

NoRead == [name |-> <<"none", 0>>, lba |-> 0, rc |-> "none", drive |-> 0, sector |-> 0]

(* block_init, and ata_init at the start of ata_block_register_devices.    *)
Init ==
    /\ present \in SUBSET Attached
    /\ g_devices = << >> /\ heap = {}
    /\ pc = "disks" /\ entry = 1 /\ mbr_rc = "none"
    /\ table \in Tables \cup {<< >>}
    /\ boot_present = present
    /\ last = NoRead

-----------------------------------------------------------------------------
(* block_register and block_get_by_name.  The devices that reach the       *)
(* registry have a name, a sector size and a read function.                *)
Register(devs, dev) ==
    IF Len(devs) >= BLOCK_MAX_DEVICES \/ \E i \in DOMAIN devs : devs[i].name = dev.name
    THEN devs
    ELSE Append(devs, dev)

Registered(devs, dev) == Len(Register(devs, dev)) > Len(devs)

GetByName(name) ==
    {i \in DOMAIN g_devices : /\ g_devices[i].name = name
                              /\ \A j \in 1 .. i - 1 : g_devices[j].name # name}

Disk(name, drive) == [name |-> <<name, 0>>, drive |-> drive, base |-> 0, count |-> 0, objs |-> {}]

(* The naming policy: disk0 is the master, or else the slave; disk1 is a   *)
(* slave beside a master.                                                  *)
Disk0Drive == IF 0 \in present THEN 0 ELSE 1

Disks ==
    LET disk0 == Disk("disk0", Disk0Drive)
        devs == Register(g_devices, disk0)
    IN  IF present = {} THEN g_devices
        ELSE IF present = Drives /\ Registered(g_devices, disk0)
             THEN Register(devs, Disk("disk1", 1))
             ELSE devs

RegisterDevices ==
    /\ pc = "disks" /\ pc' = "mbr"
    /\ g_devices' = Disks
    /\ UNCHANGED << present, heap, entry, mbr_rc, table, boot_present, last >>

-----------------------------------------------------------------------------
(* Reads.  The driver refuses absent drives and sectors beyond the end.    *)
DriveReads(drive, lba) ==
    /\ drive \in present
    /\ lba <= ATA_LBA28_MAX
    /\ Size[drive] # 0 => lba < Size[drive]

(* mbr_partition_read: the sector of the parent, or none.  A whole disk    *)
(* passes the sector on.                                                   *)
NoWrapUnchecked(dev, lba) == TRUE
NoWrap(dev, lba) == dev.base <= U32 - 1 - lba
Within(dev, lba) == dev.count # 0 => lba < dev.count
ParentLba(dev, lba) == (dev.base + lba) % U32

CanRead(dev, lba) ==
    /\ Within(dev, lba)
    /\ NoWrap(dev, lba)
    /\ DriveReads(dev.drive, ParentLba(dev, lba))

ReadResult(dev, lba, ok) ==
    [name |-> dev.name, lba |-> lba, rc |-> IF ok THEN "ok" ELSE "error",
     drive |-> dev.drive, sector |-> ParentLba(dev, lba)]

(* A drive may fail any read.                                              *)
Read(name, lba, ok) ==
    /\ pc = "done"
    /\ \E i \in GetByName(name) :
          /\ ok => CanRead(g_devices[i], lba)
          /\ last' = ReadResult(g_devices[i], lba, ok)
    /\ UNCHANGED << present, g_devices, heap, pc, entry, mbr_rc, table, boot_present >>

(* selftest_ata calls ata_init again.                                      *)
Reprobe(found) ==
    /\ pc = "done"
    /\ present' = found
    /\ UNCHANGED << g_devices, heap, pc, entry, mbr_rc, table, boot_present, last >>

-----------------------------------------------------------------------------
(* mbr_scan_and_register on disk0, one entry per step.                     *)
ScanEnds(rc) == pc' = "done" /\ mbr_rc' = rc

ScanBegin(ok) ==
    /\ pc = "mbr"
    /\ \/ /\ GetByName(<<"disk0", 0>>) = {} /\ ok = FALSE
          /\ ScanEnds("skipped")
       \/ \E i \in GetByName(<<"disk0", 0>>) :
             /\ ok => CanRead(g_devices[i], 0)
             /\ IF ~ok THEN ScanEnds("io")
                ELSE IF table = << >> THEN ScanEnds("bad_signature")
                ELSE pc' = "scan" /\ UNCHANGED mbr_rc
    /\ UNCHANGED << present, g_devices, heap, entry, table, boot_present, last >>

Usable(e) == e.type = "data" /\ e.count # 0

Partition(disk, i) ==
    [name |-> <<"disk0", i>>, drive |-> disk.drive,
     base |-> table[i].start, count |-> table[i].count,
     objs |-> {<<"dev", i>>, <<"ctx", i>>}]

NextEntry == entry' = entry + 1 /\ pc' = "scan" /\ UNCHANGED mbr_rc

SkipEntry ==
    /\ pc = "scan" /\ entry \in DOMAIN table /\ ~Usable(table[entry])
    /\ NextEntry
    /\ UNCHANGED << present, g_devices, heap, table, boot_present, last >>

(* The first kmalloc, for the device.                                      *)
AllocDevice ==
    /\ pc = "scan" /\ entry \in DOMAIN table /\ Usable(table[entry])
    /\ pc' = "ctx" /\ heap' = heap \cup {<<"dev", entry>>}
    /\ UNCHANGED << present, g_devices, entry, mbr_rc, table, boot_present, last >>

NoDevice ==
    /\ pc = "scan" /\ entry \in DOMAIN table /\ Usable(table[entry])
    /\ ScanEnds("no_space")
    /\ UNCHANGED << present, g_devices, heap, entry, table, boot_present, last >>

(* The second kmalloc, for its context, fails: the device is freed.        *)
NoContextLeaks ==
    /\ pc = "ctx"
    /\ ScanEnds("no_space")
    /\ UNCHANGED << present, g_devices, heap, entry, table, boot_present, last >>

NoContext ==
    /\ pc = "ctx"
    /\ ScanEnds("no_space") /\ heap' = heap \ {<<"dev", entry>>}
    /\ UNCHANGED << present, g_devices, entry, table, boot_present, last >>

(* It succeeds, and the device is registered, or both objects are freed.   *)
AddPartition ==
    /\ pc = "ctx"
    /\ \E i \in GetByName(<<"disk0", 0>>) :
          LET dev == Partition(g_devices[i], entry)
          IN  /\ g_devices' = Register(g_devices, dev)
              /\ IF Registered(g_devices, dev)
                 THEN heap' = heap \cup dev.objs /\ NextEntry
                 ELSE heap' = heap \ dev.objs /\ ScanEnds("no_space") /\ UNCHANGED entry
    /\ UNCHANGED << present, table, boot_present, last >>

ScanDone ==
    /\ pc = "scan" /\ entry \notin DOMAIN table
    /\ ScanEnds("ok")
    /\ UNCHANGED << present, g_devices, heap, entry, table, boot_present, last >>

DeviceNames == ({"disk0", "disk1"} \X {0}) \cup ({"disk0"} \X (1 .. Len(table)))

Next ==
    \/ RegisterDevices
    \/ \E ok \in BOOLEAN : ScanBegin(ok)
    \/ SkipEntry \/ AllocDevice \/ NoDevice \/ NoContext \/ AddPartition \/ ScanDone
    \/ \E name \in DeviceNames, lba \in Lbas, ok \in BOOLEAN : Read(name, lba, ok)
    \/ \E found \in SUBSET Attached : Reprobe(found)

Spec == Init /\ [][Next]_vars

-----------------------------------------------------------------------------
(* From a name to a sector.  A read that succeeds comes from the drive     *)
(* that the name stood for when the system started, also after drives came *)
(* and went; disk0pN reads entry N of the table, counted from 1 with the   *)
(* skipped entries, and never a sector outside it, whatever start and      *)
(* length the table claims.                                                *)
BootDrive(disk) == IF disk = "disk0" /\ 0 \in boot_present THEN 0 ELSE 1

ReadsOwnSector ==
    last.rc = "ok" =>
        LET n == last.name[2]
        IN  /\ last.drive = BootDrive(last.name[1]) /\ last.drive \in boot_present
            /\ last.sector = last.lba + (IF n = 0 THEN 0 ELSE table[n].start)
            /\ n # 0 => last.lba < table[n].count

(* The scan accounts for everything.  After any failure, at any entry and  *)
(* of either allocation, the heap holds the objects of registered          *)
(* partitions and no others (but for the device that the scan is still     *)
(* making), and no two devices share an object; and a scan that reports    *)
(* success has registered every usable entry, also those that follow empty *)
(* or extended ones.                                                       *)
Pending == IF pc = "ctx" THEN {<<"dev", entry>>} ELSE {}

ScanAccountsForAll ==
    /\ heap = Pending \cup UNION {g_devices[i].objs : i \in DOMAIN g_devices}
    /\ \A i, j \in DOMAIN g_devices : i # j => g_devices[i].objs \cap g_devices[j].objs = {}
    /\ mbr_rc = "ok" =>
          \A n \in DOMAIN table : Usable(table[n]) => GetByName(<<"disk0", n>>) # {}
=============================================================================
