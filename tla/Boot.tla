--------------------------------- MODULE Boot ---------------------------------
(***************************************************************************)
(* The two boot stages, boot/src/legacy/stage1.asm and stage2.asm, from    *)
(* the MBR to the jump to the kernel: BIOS reads that fail and fall back   *)
(* from LBA to CHS, 64 KiB segments, the image header and its checksum.    *)
(*                                                                         *)
(* Lengths are scaled by constants.  A buffer offset is counted in         *)
(* sectors, as it always is a multiple of one, and so is memory from       *)
(* KERNEL_LOAD_SEG on: mem[k] is the disk sector whose bytes lie there, -1 *)
(* for what was there before.  Of the screens, only the menu and the last  *)
(* countdown are modelled, which wait for keys.                            *)
(***************************************************************************)
EXTENDS Integers, Sequences, FiniteSetsExt

CONSTANTS
    SEG,                  \* sectors in a 64 KiB segment: 128
    BATCH,                \* the most that is read at once: 18
    SECTORS_PER_TRACK, HEADS_PER_CYLINDER,   \* 18, 2
    CYLINDERS,            \* values of the eight bits of CH
    KERNEL_LBA,           \* where the header is; the image follows
    SECTOR,               \* bytes in a sector: 512
    MEM,                  \* sectors from KERNEL_LOAD_SEG to the stack
    U16, U32,             \* 2^16, 2^32
    Disk,                 \* the bytes of each sector of the disk
    KernelSizes,          \* the lengths of kernel.bin in bytes
    Geometries,           \* what drives the BIOS may find
    MENU_POLLS,           \* polls of the keyboard for F8: 0x4000
    WAIT_TICKS,           \* UI_WAIT_SECS * UI_WAIT_TICKS_PER_SEC
    MaxRegions            \* bound: the E820 entries of a BIOS

ImageSectors(size) == ((size + SECTOR - 1) \div SECTOR) % U16

(* The image fits the memory below the stack and the disk, and its         *)
(* cylinders fit CH.  The E820 entries fit the memory below stage 2.       *)
ASSUME BootAssumption ==
    /\ {SEG, BATCH, SECTORS_PER_TRACK, HEADS_PER_CYLINDER, CYLINDERS, SECTOR, MENU_POLLS,
        WAIT_TICKS, U16} \subseteq Nat \ {0}
    /\ {KERNEL_LBA, MEM, MaxRegions} \subseteq Nat /\ KernelSizes \subseteq Nat
    /\ SEG > 1 /\ MEM % SEG = 0 /\ MaxRegions < U16 /\ U32 \in Nat /\ U32 > 2
    /\ \A s \in KernelSizes :
          /\ (s + SECTOR - 1) \div SECTOR < U16 /\ ImageSectors(s) <= MEM
          /\ KERNEL_LBA + ImageSectors(s)
                < CYLINDERS * (HEADS_PER_CYLINDER * SECTORS_PER_TRACK)
          /\ (KERNEL_LBA + 1) .. (KERNEL_LBA + ImageSectors(s)) \subseteq DOMAIN Disk

VARIABLES
    stage,
    geometry, size, sealed, sound,   \* the drive; kernel.bin, whether its header
                                     \* has a checksum, whether the disk agrees
    stale,                           \* what memory holds under the BootInfo
    rounds,                          \* rounds left of the loop that polls for a key
    a20, regions,
    kernel_size, expected,           \* from the header
    eax, cx, es, bx,                 \* the loading loop's LBA, count, ES:BX
    count, ret,                      \* the read under way, and what follows it
    scratch, mem,                    \* the sector at SCRATCH_SEG; the kernel
    info,                            \* the BootInfo handed over
    refused                          \* ghost: both ways to read failed

machine == << geometry, size, sealed, sound, stale >>
early == << rounds, a20, regions >>
header == << kernel_size, expected >>
loop == << eax, cx, es, bx >>
request == << count, ret >>
bootVars == << stage, machine, early, header, loop, request, scratch, mem, info, refused >>

Slots == 0 .. (MEM - 1)
Sum32(bytes, n) ==
    LET sum[k \in 0..n] == IF k = 0 THEN 0 ELSE (sum[k - 1] + bytes[k - 1]) % U32
    IN  sum[n]

(* kernel.bin as the build put it on the disk, padded to a sector.         *)
ImageByte(k) == Disk[KERNEL_LBA + 1 + k \div SECTOR][k % SECTOR]
ImageSum == Sum32([k \in 0..(size - 1) |-> ImageByte(k)], size)

(* What the header says of it: nothing, its sum, or another one.           *)
HeaderSum ==
    IF ~sealed THEN 0
    ELSE IF sound THEN ImageSum
    ELSE CHOOSE c \in {1, 2} : c # ImageSum

BootInit ==
    /\ stage = "s1_extensions"
    /\ geometry \in Geometries /\ size \in KernelSizes
    /\ sealed \in BOOLEAN /\ sound \in BOOLEAN /\ stale \in {0, 1}
    /\ a20 \in BOOLEAN /\ regions = 0 /\ rounds = MENU_POLLS
    /\ kernel_size = 0 /\ expected = 0
    /\ eax = 0 /\ cx = 0 /\ es = 0 /\ bx = 0
    /\ count = 0 /\ ret = "none" /\ scratch = -1
    /\ mem = [k \in Slots |-> -1] /\ info = << >> /\ refused = FALSE

Go(to) == stage' = to
But(v) == UNCHANGED v

-----------------------------------------------------------------------------
(* Stage 1: extensions, the extended read, the standard read.              *)
Stage1 ==
    /\ \/ stage = "s1_extensions" /\ Go("s1_lba") /\ But(refused)
       \/ stage = "s1_extensions" /\ Go("s1_chs") /\ But(refused)
       \/ stage = "s1_lba" /\ Go("menu_poll") /\ But(refused)
       \/ stage = "s1_lba" /\ Go("s1_chs") /\ But(refused)
       \/ stage = "s1_chs" /\ Go("menu_poll") /\ But(refused)
       \/ stage = "s1_chs" /\ Go("halt") /\ refused' = TRUE
    /\ UNCHANGED << machine, early, header, loop, request, scratch, mem, info >>

(* Stage 2.  The menu opens on F8, then waits for a choice.                *)
Screen == UNCHANGED << machine, a20, regions, header, loop, request, scratch, mem, info, refused >>
PollBootMenu ==
    /\ stage = "menu_poll"
    /\ Go(IF rounds = 1 THEN "enable_a20" ELSE "menu_poll") \/ Go("menu")
    /\ rounds' = IF stage' = stage THEN rounds - 1 ELSE 0
    /\ Screen
BootMenuChoice == stage = "menu" /\ Go("enable_a20") /\ UNCHANGED rounds /\ Screen

(* The BIOS or port 0x92 opens the gate, or neither does.        *)
EnableA20 ==
    /\ stage = "enable_a20" /\ Go("check_a20") /\ a20' \in {a20, TRUE}
    /\ UNCHANGED << machine, rounds, regions, header, loop, request, scratch, mem, info, refused >>
CheckA20 ==
    /\ stage = "check_a20" /\ Go(IF a20 THEN "e820" ELSE "halt")
    /\ UNCHANGED << machine, early, header, loop, request, scratch, mem, info, refused >>

(* do_e820: an entry with more to come, the last one, or the end by carry  *)
(* or by a wrong signature.                                                *)
E820Entry(last) ==
    /\ stage = "e820" /\ regions < MaxRegions /\ regions' = regions + 1
    /\ Go(IF last THEN "header" ELSE "e820")
    /\ UNCHANGED << machine, rounds, a20, header, loop, request, scratch, mem, info, refused >>
E820Ends ==
    /\ stage = "e820" /\ Go("header")
    /\ UNCHANGED << machine, early, header, loop, request, scratch, mem, info, refused >>

-----------------------------------------------------------------------------
(* read_sectors_universal(eax, n): LBA first.                              *)
Read(n, then) == stage' = "int13_lba" /\ count' = n /\ ret' = then

(* Sectors first, first + 1, ... at the buffer: an offset wraps inside its *)
(* segment.                                                                *)
Buffer(n) == [i \in 0..(n - 1) |-> es * SEG + ((bx + i) % SEG)]
Deliver(first, n) ==
    IF ret = "magic"
    THEN scratch' = (IF n > 0 THEN first ELSE scratch) /\ UNCHANGED mem
    ELSE /\ mem' = [k \in Slots |->
                      IF \E i \in 0..(n - 1) : Buffer(n)[i] = k
                      THEN first + (CHOOSE i \in 0..(n - 1) : Buffer(n)[i] = k)
                      ELSE mem[k]]
         /\ UNCHANGED scratch

LbaRead ==
    /\ stage = "int13_lba" /\ Deliver(eax, count) /\ Go(ret)
    /\ UNCHANGED << machine, early, header, loop, request, info, refused >>

(* A failed read may have filled a part of the buffer.                     *)
LbaReadFails ==
    /\ stage = "int13_lba" /\ \E n \in 0..(count - 1) : Deliver(eax, n)
    /\ Go("int13_chs")
    /\ UNCHANGED << machine, early, header, loop, request, info, refused >>

(* The address is worked out for a floppy; the drive has its own geometry. *)
Chs ==
    [sector |-> (eax % SECTORS_PER_TRACK) + 1,
     head |-> (eax \div SECTORS_PER_TRACK) % HEADS_PER_CYLINDER,
     cyl |-> ((eax \div SECTORS_PER_TRACK) \div HEADS_PER_CYLINDER) % CYLINDERS]
OnDrive(a) == (a.cyl * geometry.heads + a.head) * geometry.sectors + a.sector - 1

ChsRead ==
    /\ stage = "int13_chs" /\ Chs.sector <= geometry.sectors /\ Chs.head < geometry.heads
    /\ Deliver(OnDrive(Chs), count) /\ Go(ret)
    /\ UNCHANGED << machine, early, header, loop, request, info, refused >>
ChsReadFails ==
    /\ stage = "int13_chs" /\ Go("halt") /\ refused' = TRUE
    /\ UNCHANGED << machine, early, header, loop, request, scratch, mem, info >>

-----------------------------------------------------------------------------
ReadHeader ==
    /\ stage = "header" /\ eax' = KERNEL_LBA /\ Read(1, "magic")
    /\ UNCHANGED << machine, early, header, cx, es, bx, scratch, mem, info, refused >>

(* Only the header has the magic.  The loop starts at KERNEL_LOAD_SEG:0.   *)
CheckMagic ==
    /\ stage = "magic" /\ scratch = KERNEL_LBA
    /\ kernel_size' = size
    /\ expected' = HeaderSum
    /\ eax' = KERNEL_LBA + 1 /\ cx' = ImageSectors(size) /\ es' = 0 /\ bx' = 0
    /\ Go("loop")
    /\ UNCHANGED << machine, early, request, scratch, mem, info, refused >>
BadMagic ==
    /\ stage = "magic" /\ scratch # KERNEL_LBA /\ Go("halt")
    /\ UNCHANGED << machine, early, header, loop, request, scratch, mem, info, refused >>

(* read_kernel_robust: a batch ends with the segment ...                   *)
RoomFromZero == (SEG - bx) % SEG
Room == IF bx = 0 THEN SEG - 1 ELSE SEG - bx
BatchOverSegment == Min({BATCH, cx})
Batch == Min({Room, BATCH, cx})
LoadBatch ==
    /\ stage = "loop" /\ cx # 0 /\ Read(Batch, "advance")
    /\ UNCHANGED << machine, early, header, loop, scratch, mem, info, refused >>

(* ... and the carry of the offset moves ES on.                            *)
Advance ==
    /\ stage = "advance" /\ Go("loop")
    /\ bx' = (bx + count) % SEG
    /\ es' = IF bx + count >= SEG THEN es + 1 ELSE es
    /\ eax' = eax + count /\ cx' = cx - count
    /\ UNCHANGED << machine, early, header, request, scratch, mem, info, refused >>

Loaded ==
    /\ stage = "loop" /\ cx = 0 /\ Go("checksum")
    /\ UNCHANGED << machine, early, header, loop, request, scratch, mem, info, refused >>

(* kernel_checksum_sum32 over kernel_size bytes, unless the header has 0.  *)
MemByte(k) ==
    LET sector == mem[k \div SECTOR]
    IN  IF sector \in DOMAIN Disk THEN Disk[sector][k % SECTOR] ELSE 0
MemSum == Sum32([k \in 0..(kernel_size - 1) |-> MemByte(k)], kernel_size)
ChecksumIgnored ==
    /\ stage = "checksum" /\ Go("boot_info")
    /\ UNCHANGED << machine, early, header, loop, request, scratch, mem, info, refused >>
VerifyChecksum ==
    /\ stage = "checksum"
    /\ Go(IF expected = 0 \/ MemSum = expected THEN "boot_info" ELSE "halt")
    /\ UNCHANGED << machine, early, header, loop, request, scratch, mem, info, refused >>

(* setup_boot_info stores the low half of the count only.                  *)
SetupBootInfo ==
    /\ stage = "boot_info" /\ Go("countdown") /\ rounds' = WAIT_TICKS
    /\ info' = [kernel_size |-> kernel_size, mmap_count |-> stale * U16 + (regions % U16)]
    /\ UNCHANGED << machine, a20, regions, header, loop, request, scratch, mem, refused >>

(* ui_wait_enter_or_timeout: ENTER ends the wait early.                    *)
WaitEnterOrTimeout ==
    /\ stage = "countdown"
    /\ Go(IF rounds = 1 THEN "kernel" ELSE "countdown") \/ Go("kernel")
    /\ rounds' = IF stage' = stage THEN rounds - 1 ELSE 0
    /\ Screen

Ended == stage \in {"halt", "kernel"} /\ UNCHANGED bootVars

Stage2 ==
    \/ PollBootMenu \/ EnableA20 \/ CheckA20 \/ \E last \in BOOLEAN : E820Entry(last)
    \/ E820Ends
    \/ ReadHeader \/ CheckMagic \/ BadMagic
    \/ LbaRead \/ LbaReadFails \/ ChsRead \/ ChsReadFails
    \/ LoadBatch \/ Advance \/ Loaded
    \/ VerifyChecksum \/ SetupBootInfo \/ WaitEnterOrTimeout

BootNext == Stage1 \/ Stage2 \/ BootMenuChoice \/ Ended

(* The CPU runs on, and each BIOS call returns, but for the one that waits *)
(* for a key of the menu.                                                  *)
BootSpec == BootInit /\ [][BootNext]_bootVars /\ WF_bootVars(Stage1 \/ Stage2)

-----------------------------------------------------------------------------
FloppyDrive ==
    geometry = [sectors |-> SECTORS_PER_TRACK, heads |-> HEADS_PER_CYLINDER]
InPlace == \A k \in Slots :
    mem[k] = IF k < ImageSectors(size) THEN KERNEL_LBA + 1 + k ELSE -1

(* Other sectors than the image's have the sum that its header asks for.   *)
SumCollides == ~InPlace /\ MemSum = HeaderSum

(* The kernel is entered only with its image in place, sector after sector *)
(* across segments, whichever reads failed and fell back: on the assumed   *)
(* geometry for any image, on other drives for one with a checksum (0 is   *)
(* none), unless the sum collides.  No drive makes it write beyond the     *)
(* image, and an image in place is not a damaged one.  The BootInfo tells  *)
(* its size and, where memory was zero, the number of regions.             *)
HandsOverImage ==
    stage = "kernel" =>
        /\ FloppyDrive \/ (HeaderSum # 0 /\ ~SumCollides) => InPlace
        /\ \A k \in Slots : k >= ImageSectors(size) => mem[k] = -1
        /\ sealed /\ InPlace => sound
        /\ info.kernel_size = size
        /\ stale = 0 => info.mmap_count = regions

(* A sound image is refused only for a failure: of the A20 gate, of both   *)
(* ways to read, or on a drive whose geometry is not the one assumed.      *)
RefusesOnlyOnFailure ==
    stage = "halt" => ~a20 \/ refused \/ ~FloppyDrive \/ (sealed /\ ~sound)

(* The loader comes to an end: the loop makes progress in every batch, and *)
(* only an open menu waits for the user.                                   *)
BootEnds == <>(stage \in {"halt", "kernel"}) \/ <>[](stage = "menu")
=============================================================================
