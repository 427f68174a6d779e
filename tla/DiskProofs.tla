------------------------------ MODULE DiskProofs -----------------------------
(***************************************************************************)
(* Proofs about the two readers of disks.  The ATA driver, for every       *)
(* time-out, every combination of drives, every size and every sector, and *)
(* drives that take any time: AtaInv is inductive.  The boot stages, for   *)
(* every length of segment, batch and image, every floppy geometry and     *)
(* every BIOS call that fails: BootInv is inductive.                       *)
(***************************************************************************)
EXTENDS Ata, Boot, TLAPS

-----------------------------------------------------------------------------
(* The inductive invariant of the driver: until a wait gives up on a drive *)
(* at work, a call begins with a device that listens, and what the device  *)
(* works on is the call's own command.                                     *)
AtaTypes ==
    /\ attached \in [Drives -> Attachable]
    /\ selected \in Drives /\ lba_reg \in Nat
    /\ st \in {"idle", "busy", "data", "error", "signature"}
    /\ cmd \in Commands \cup {NoData} /\ left \in Nat
    /\ present \in [Drives -> BOOLEAN] /\ lba28_sectors \in [Drives -> Nat]
    /\ pc \in {"idle", "select", "regs", "command", "exists", "not_busy", "drq"}
    /\ req \in Commands /\ polls \in Nat /\ late \in BOOLEAN

Listens == ~late /\ pc \in {"idle", "select", "regs", "command"} => ~Deaf

OwnCommand == ~late =>
    /\ pc \in {"regs", "command", "exists", "not_busy", "drq"} => selected = req.drive
    /\ pc \in {"command", "exists", "not_busy", "drq"} => lba_reg = req.lba
    /\ Deaf => cmd = req /\ ~Zero
    /\ st = "data" => attached[cmd.drive] = "ata"

RequestInRange == ~late /\ req.op = "read" /\ pc # "idle" => InRange(req)

AtaInv ==
    /\ AtaTypes
    /\ Listens
    /\ OwnCommand
    /\ RequestInRange
    /\ NoPhantomDrive
    /\ CommandsInRange
    /\ DataAsRequested

-----------------------------------------------------------------------------
(* The inductive invariant of the loader.  L sectors of the image are in   *)
(* memory.                                                                 *)
L == es * SEG + bx
Reading == stage \in {"int13_lba", "int13_chs"}
Loading == stage \in {"loop", "advance"} \/ (Reading /\ ret = "advance")
Stages == {"s1_extensions", "s1_lba", "s1_chs", "menu_poll", "menu", "enable_a20", "check_a20",
           "e820", "header", "int13_lba", "int13_chs", "magic", "loop", "advance", "checksum",
           "boot_info", "countdown", "kernel", "halt"}

BootTypeOK ==
    /\ stage \in Stages /\ size \in KernelSizes /\ regions \in 0..MaxRegions
    /\ sealed \in BOOLEAN /\ sound \in BOOLEAN /\ stale \in {0, 1}
    /\ Reading => ret \in {"magic", "advance"}

(* Before the loop: memory is as it was, and the header is asked for.      *)
HeaderInv ==
    /\ stage \notin {"checksum", "boot_info", "countdown", "kernel", "halt"} /\ ~Loading
          => \A k \in Slots : mem[k] = -1
    /\ Reading /\ ret = "magic" => eax = KERNEL_LBA /\ count = 1
    /\ stage = "magic" /\ FloppyDrive => scratch = KERNEL_LBA

(* In the loop: the registers agree on L, a batch stays in its segment and *)
(* in the image, and only its own places are open while it is read.        *)
LoopInv == Loading =>
    /\ es \in Nat /\ bx \in 0..(SEG - 1) /\ cx \in Nat
    /\ L + cx = ImageSectors(size) /\ eax = KERNEL_LBA + 1 + L
    /\ stage # "loop" => count \in 1..cx /\ bx + count <= SEG
    /\ FloppyDrive => \A k \in Slots :
          /\ k < L => mem[k] = KERNEL_LBA + 1 + k
          /\ stage = "advance" /\ k >= L /\ k < L + count => mem[k] = KERNEL_LBA + 1 + k
    /\ \A k \in Slots : k >= L + (IF stage = "loop" THEN 0 ELSE count) => mem[k] = -1

(* After it: the image is in place, and what follows was read from it.     *)
LoadedInv ==
    /\ Loading \/ stage \in {"checksum", "boot_info", "countdown", "kernel"}
          => kernel_size = size /\ expected = HeaderSum
    /\ stage \in {"checksum", "boot_info", "countdown", "kernel"} =>
          /\ FloppyDrive => InPlace
          /\ \A k \in Slots : k >= ImageSectors(size) => mem[k] = -1
    /\ stage \in {"boot_info", "countdown", "kernel"} => HeaderSum = 0 \/ MemSum = HeaderSum
    /\ stage \in {"countdown", "kernel"} =>
          info = [kernel_size |-> size, mmap_count |-> stale * U16 + (regions % U16)]

BootInv ==
    /\ BootTypeOK
    /\ HeaderInv
    /\ LoopInv
    /\ LoadedInv
    /\ RefusesOnlyOnFailure

-----------------------------------------------------------------------------
(* What a return leaves behind, from the loop or the check it came from.   *)
LEMMA ReturnKeeps ==
    ASSUME AtaInv, NEW rc \in {"ok", "no_device", "device", "timeout", "unsupported"},
           NEW data \in Commands \cup {NoData}, Return(rc, data),
           pc \in {"exists", "not_busy", "drq"},
           UNCHANGED << attached, selected, lba_reg, cmd, left >>,
           st' \in {"idle", "busy", "data", "error", "signature"}, late' \in BOOLEAN,
           ~late' => /\ ~late
                     /\ st' \notin {"busy", "data"}
                     /\ rc = "ok" => data = req /\ attached[req.drive] = "ata"
    PROVE  AtaInv'
<1>0. req.drive \in Drives /\ data.drive \in Drives /\ req \in Commands
    BY DEF AtaInv, AtaTypes, Commands, NoData, Drives
<1>1. AtaTypes'
  <2>1. present' \in [Drives -> BOOLEAN]
    <3>1. present \in [Drives -> BOOLEAN] /\ (rc = "ok") \in BOOLEAN
        BY DEF AtaInv, AtaTypes
    <3>2. Marks(rc) \in [Drives -> BOOLEAN]
        BY <1>0, <3>1 DEF Marks
    <3> QED BY <3>1, <3>2 DEF Return, drives
  <2>2. lba28_sectors' \in [Drives -> Nat]
      BY <1>0, AtaAssumption DEF AtaInv, AtaTypes, Return, drives
  <2>3. req' \in Commands /\ polls' \in Nat /\ pc' \in {"idle", "select"}
      BY <1>0 DEF Return, Command, Commands, Drives
  <2> QED BY <2>1, <2>2, <2>3 DEF AtaInv, AtaTypes
<1>2. NoPhantomDrive'
  <2> SUFFICES ASSUME ~late' PROVE NoPhantomDrive'
      BY DEF NoPhantomDrive
  <2>1. CASE req.op # "identify"
      BY <2>1 DEF AtaInv, NoPhantomDrive, Return, drives
  <2>2. CASE req.op = "identify"
    <3>1. ASSUME NEW d \in Drives, present'[d]
          PROVE  attached[d] = "ata" /\ lba28_sectors'[d] = Size[d]
      <4>1. /\ present' = [present EXCEPT ![req.drive] = (rc = "ok")]
            /\ lba28_sectors' = [lba28_sectors EXCEPT
                   ![req.drive] = IF rc = "ok" THEN Size[data.drive] ELSE 0]
            /\ present \in [Drives -> BOOLEAN] /\ lba28_sectors \in [Drives -> Nat]
          BY <2>2 DEF Return, Marks, AtaInv, AtaTypes
      <4>2. CASE d = req.drive
          BY <1>0, <3>1, <4>1, <4>2
      <4>3. CASE d # req.drive
          BY <1>0, <3>1, <4>1, <4>3 DEF AtaInv, NoPhantomDrive
      <4> QED BY <4>2, <4>3
    <3> QED BY <3>1 DEF NoPhantomDrive
  <2> QED BY <2>1, <2>2
<1>3. Listens' /\ OwnCommand' /\ RequestInRange'
    BY DEF AtaInv, AtaTypes, Return, Listens, OwnCommand, RequestInRange, Deaf,
           Command, Commands, Zero
<1>4. CommandsInRange' /\ DataAsRequested'
    BY DEF AtaInv, CommandsInRange, DataAsRequested, Return, InRange
<1> QED BY <1>1, <1>2, <1>3, <1>4 DEF AtaInv

(* The invariant, with one step per action.                                *)
THEOREM AtaInvariant == Spec => []AtaInv
<1>1. ASSUME Init PROVE AtaInv
  <2>1. AtaTypes
      BY <1>1, AtaAssumption DEF Init, AtaTypes, Command, Commands, Drives
  <2>2. Listens /\ OwnCommand /\ RequestInRange
      BY <1>1 DEF Init, Listens, OwnCommand, RequestInRange, Deaf, Command
  <2>3. NoPhantomDrive /\ CommandsInRange /\ DataAsRequested
      BY <1>1 DEF Init, NoPhantomDrive, CommandsInRange, DataAsRequested, NoData
  <2> QED BY <2>1, <2>2, <2>3 DEF AtaInv
<1>2. ASSUME AtaInv, [Next]_vars PROVE AtaInv'
  <2> USE AtaAssumption
  <2>0. CASE UNCHANGED vars
      BY <1>2, <2>0 DEF vars, device, drives, AtaInv, AtaTypes, Listens, OwnCommand,
         RequestInRange, NoPhantomDrive, CommandsInRange, DataAsRequested, Deaf, Zero, InRange
  <2>1. CASE AtaInit
      BY <1>2, <2>1 DEF AtaInit, device, AtaInv, AtaTypes, Listens, OwnCommand,
         RequestInRange, NoPhantomDrive, CommandsInRange, DataAsRequested, Deaf, Zero,
         Command, Commands, Drives
  <2>2. ASSUME NEW d \in Drives, NEW lba \in Lbas, ReadSector(d, lba) PROVE AtaInv'
    <3>1. ~late => InRange(Command("read", d, lba))
        BY <1>2, <2>2 DEF ReadSector, LbaOk, InRange, Command, AtaInv, NoPhantomDrive
    <3> QED BY <1>2, <2>2, <3>1 DEF ReadSector, device, drives, AtaInv, AtaTypes, Listens,
         OwnCommand, RequestInRange, NoPhantomDrive, CommandsInRange,
         DataAsRequested, Deaf, Zero, Command, Commands, InRange
  <2>3. ASSUME NEW d \in Drives, NEW lba \in Lbas, ReadRefused(d, lba) PROVE AtaInv'
      BY <1>2, <2>3 DEF ReadRefused, device, drives, AtaInv, AtaTypes, Listens, OwnCommand,
         RequestInRange, NoPhantomDrive, CommandsInRange, DataAsRequested, Deaf, Zero,
         InRange
  <2>4. CASE WriteSelect
      BY <1>2, <2>4 DEF WriteSelect, drives, AtaInv, AtaTypes, Listens, OwnCommand,
         RequestInRange, NoPhantomDrive, CommandsInRange, DataAsRequested, Deaf, Zero,
         InRange, Commands
  <2>5. CASE WriteRegs
      BY <1>2, <2>5 DEF WriteRegs, drives, AtaInv, AtaTypes, Listens, OwnCommand,
         RequestInRange, NoPhantomDrive, CommandsInRange, DataAsRequested, Deaf, Zero,
         InRange, Commands
  <2>6. ASSUME NEW b \in 0..MaxBusy, WriteCommand(b) PROVE AtaInv'
    <3>1. ~late => Command(req.op, selected, lba_reg) = req
        BY <1>2, <2>6 DEF WriteCommand, AtaInv, AtaTypes, OwnCommand, Command, Commands
    <3>2. Command(req.op, selected, lba_reg) \in Commands
        BY <1>2 DEF AtaInv, AtaTypes, Command, Commands
    <3> QED BY <1>2, <2>6, <3>1, <3>2 DEF WriteCommand, drives, AtaInv, AtaTypes, Listens, OwnCommand,
         RequestInRange, NoPhantomDrive, CommandsInRange, DataAsRequested, Deaf, Zero,
         InRange, Commands
  <2>7. CASE NotThere
    <3>1. /\ st' = st /\ st \in {"idle", "busy", "data", "error", "signature"}
          /\ late' = late /\ late \in BOOLEAN
          /\ ~late => ~Deaf
        BY <1>2, <2>7 DEF NotThere, device, AtaInv, AtaTypes, OwnCommand
    <3> QED BY <1>2, <2>7, <3>1, ReturnKeeps DEF NotThere, device, Deaf
  <2>8. CASE SomethingThere
      BY <1>2, <2>8 DEF SomethingThere, device, drives, AtaInv, AtaTypes, Listens, OwnCommand,
         RequestInRange, NoPhantomDrive, CommandsInRange, DataAsRequested, Deaf, Zero,
         InRange
  <2>9. ASSUME NEW wait \in {"not_busy", "drq"}, WaitFails(wait) PROVE AtaInv'
    <3>1. PICK rc \in {"device", "timeout"} : Return(rc, NoData)
        BY <2>9 DEF WaitFails
    <3>2. late' \in BOOLEAN /\ (~late' => ~late /\ ~Deaf)
        BY <1>2, <2>9 DEF WaitFails, Err, Deaf, AtaInv, AtaTypes
    <3>3. st' = st /\ st \in {"idle", "busy", "data", "error", "signature"}
        BY <1>2, <2>9 DEF WaitFails, device, AtaInv, AtaTypes
    <3> QED BY <1>2, <2>9, <3>1, <3>2, <3>3, ReturnKeeps DEF WaitFails, device, Deaf
  <2>10. CASE PollAgain("not_busy", ~Bsy)
      BY <1>2, <2>10 DEF PollAgain, PollTime, TimePasses, Bsy, drives, AtaInv, AtaTypes, Listens,
         OwnCommand, RequestInRange, NoPhantomDrive, CommandsInRange, DataAsRequested,
         Deaf, Zero, InRange
  <2>11. CASE PollAgain("drq", Drq)
      BY <1>2, <2>11 DEF PollAgain, PollTime, TimePasses, Drq, drives, AtaInv, AtaTypes, Listens,
         OwnCommand, RequestInRange, NoPhantomDrive, CommandsInRange, DataAsRequested,
         Deaf, Zero, InRange
  <2>12. CASE NotBusy
    <3>1. CASE req.op = "identify" /\ ForeignSignature
        BY <1>2, <2>12, <3>1, ReturnKeeps DEF NotBusy, ForeignSignature, device, AtaInv, AtaTypes
    <3>2. CASE ~(req.op = "identify" /\ ForeignSignature)
        BY <1>2, <2>12, <3>2 DEF NotBusy, Bsy, device, drives, AtaInv, AtaTypes, Listens,
           OwnCommand, RequestInRange, NoPhantomDrive, CommandsInRange,
           DataAsRequested, Deaf, Zero, InRange
    <3> QED BY <3>1, <3>2
  <2>13. CASE Transfer
      BY <1>2, <2>13, ReturnKeeps DEF Transfer, Drq, Deaf, AtaInv, AtaTypes, OwnCommand
  <2>14. ASSUME NEW s \in {"data", "error", "idle", "signature"}, DevComplete(s)
         PROVE  AtaInv'
      BY <1>2, <2>14 DEF DevComplete, drives, AtaInv, AtaTypes, Listens, OwnCommand,
         RequestInRange, NoPhantomDrive, CommandsInRange, DataAsRequested, Deaf, Zero, InRange
  <2> QED BY <1>2, <2>0, <2>1, <2>2, <2>3, <2>4, <2>5, <2>6, <2>7, <2>8, <2>9, <2>10, <2>11,
             <2>12, <2>13, <2>14 DEF Next, DriverStep, DeviceStep
<1> QED BY <1>1, <1>2, PTL DEF Spec

(* Until a wait gives up on a drive at work, a successful call has         *)
(* delivered the data of its own command.                                  *)
THEOREM AtaDataAsRequested == Spec => []DataAsRequested
<1>1. AtaInv => DataAsRequested
    BY DEF AtaInv
<1> QED BY <1>1, AtaInvariant, PTL

(* Until then, no drive is present that is not there.                      *)
THEOREM AtaNoPhantom == Spec => []NoPhantomDrive
<1>1. AtaInv => NoPhantomDrive
    BY DEF AtaInv
<1> QED BY <1>1, AtaInvariant, PTL

(* Until then, no command is out of the range of its drive.                *)
THEOREM AtaInRange == Spec => []CommandsInRange
<1>1. AtaInv => CommandsInRange
    BY DEF AtaInv
<1> QED BY <1>1, AtaInvariant, PTL

-----------------------------------------------------------------------------
(* Progress of the driver.  Steps that a call may still take: one for each *)
(* register, T polls in each wait, twice when ata_init still has to probe  *)
(* the slave; in between the device may complete once per command.         *)
T == ATA_PIO_TIMEOUT

StepsLeft ==
    (IF req.op = "identify" /\ req.drive = 0 THEN 2 * T + 6 ELSE 0)
    + [select |-> 2 * T + 5, regs |-> 2 * T + 4, command |-> 2 * T + 3, exists |-> 2 * T + 2,
       not_busy |-> 2 * T + 1 - polls, drq |-> T - polls][pc]

CallLeft == 2 * StepsLeft + (IF st = "busy" THEN 1 ELSE 0)

PollsInv == polls \in 0..T

LEMMA TimeoutType == T \in Nat \ {0}
BY AtaAssumption DEF T

LEMMA FewerSteps ==
    ASSUME StepsLeft \in Nat, StepsLeft' \in Nat, StepsLeft' < StepsLeft
    PROVE  CallLeft' \in Nat /\ CallLeft' < CallLeft
<1> DEFINE b == IF st = "busy" THEN 1 ELSE 0
<1>1. b \in {0, 1} /\ b' \in {0, 1}
    OBVIOUS
<1>2. CallLeft = 2 * StepsLeft + b /\ CallLeft' = 2 * StepsLeft' + b'
    BY DEF CallLeft
<1>3. ASSUME NEW n \in Nat, NEW k \in Nat, n < k, NEW c \in {0, 1}, NEW d \in {0, 1}
      PROVE  2 * n + c \in Nat /\ 2 * n + c < 2 * k + d
    BY <1>3
<1> QED BY <1>1, <1>2, <1>3

LEMMA ReturnEnds ==
    ASSUME AtaInv, PollsInv, NEW rc, NEW data, Return(rc, data), pc \in {"exists", "not_busy", "drq"},
           st' = "busy" => st = "busy"
    PROVE  pc' = "idle" \/ (CallLeft' \in Nat /\ CallLeft' < CallLeft)
<1>1. req.op \in {"identify", "read"} /\ req.drive \in {0, 1}
    BY DEF AtaInv, AtaTypes, Commands, Drives
<1>2. CASE req.op = "identify" /\ req.drive = 0
  <2>1. pc' = "select" /\ req' = Command("identify", 1, 0)
    BY <1>2 DEF Return
  <2>2. StepsLeft' = 2 * T + 5
    BY <2>1, TimeoutType DEF StepsLeft, Command
  <2>3. StepsLeft \in Nat /\ StepsLeft >= 2 * T + 6
    BY <1>2, TimeoutType DEF StepsLeft, PollsInv
  <2> QED BY <2>2, <2>3, TimeoutType DEF CallLeft
<1>3. CASE ~(req.op = "identify" /\ req.drive = 0)
    BY <1>3 DEF Return
<1> QED BY <1>2, <1>3

LEMMA AtaStepDescends ==
    ASSUME AtaInv, PollsInv, Next, pc # "idle"
    PROVE  pc' = "idle" \/ (CallLeft' \in Nat /\ CallLeft' < CallLeft)
<1> USE TimeoutType
<1>1. CASE WriteSelect \/ WriteRegs
  <2>1. /\ req' = req /\ st' = st
        /\ \/ pc = "select" /\ pc' = "regs"
           \/ pc = "regs" /\ pc' = "command"
    BY <1>1 DEF WriteSelect, WriteRegs
  <2>2. StepsLeft' \in Nat /\ StepsLeft \in Nat /\ StepsLeft' = StepsLeft - 1
    BY <2>1 DEF StepsLeft
  <2> QED BY <2>1, <2>2 DEF CallLeft
<1>2. ASSUME NEW b \in 0..MaxBusy, WriteCommand(b) PROVE CallLeft' \in Nat /\ CallLeft' < CallLeft
  <2>1. pc = "command" /\ pc' \in {"exists", "not_busy"} /\ polls' = 0 /\ req' = req
    BY <1>2 DEF WriteCommand
  <2>2. StepsLeft' \in Nat /\ StepsLeft \in Nat /\ StepsLeft' < StepsLeft
    BY <2>1 DEF StepsLeft
  <2> QED BY <2>2, FewerSteps
<1>3. CASE SomethingThere
  <2>1. pc = "exists" /\ pc' = "not_busy" /\ req' = req /\ polls' = polls /\ st' = st
    BY <1>3 DEF SomethingThere, device
  <2>2. StepsLeft' \in Nat /\ StepsLeft \in Nat /\ StepsLeft' < StepsLeft
    BY <2>1 DEF StepsLeft, PollsInv
  <2> QED BY <2>2, FewerSteps
<1>4. CASE PollAgain("not_busy", ~Bsy) \/ PollAgain("drq", Drq)
  <2>1. /\ pc \in {"not_busy", "drq"} /\ pc' = pc /\ req' = req /\ st' = st
        /\ polls < T /\ polls' = polls + 1
    BY <1>4 DEF PollAgain, PollsLeft, T
  <2>2. StepsLeft' \in Nat /\ StepsLeft \in Nat /\ StepsLeft' < StepsLeft
    BY <2>1 DEF StepsLeft, PollsInv
  <2> QED BY <2>2, FewerSteps
<1>5. CASE NotBusy
  <2>1. pc = "not_busy" /\ polls' = 0 /\ st' = st
    BY <1>5 DEF NotBusy, device
  <2>2. CASE pc' = "drq" /\ req' = req
    <3>1. StepsLeft' \in Nat /\ StepsLeft \in Nat /\ StepsLeft' < StepsLeft
        BY <2>1, <2>2 DEF StepsLeft, PollsInv
    <3> QED BY <3>1, FewerSteps
  <2>3. CASE Return("unsupported", NoData)
    BY <2>1, <2>3, ReturnEnds
  <2> QED BY <1>5, <2>2, <2>3 DEF NotBusy
<1>6. CASE NotThere
  <2>1. Return("no_device", NoData) /\ pc = "exists" /\ st' = st
    BY <1>6 DEF NotThere, device
  <2> QED BY <2>1, ReturnEnds
<1>7. CASE WaitFails("not_busy") \/ WaitFails("drq")
  <2>1. PICK rc : Return(rc, NoData)
    BY <1>7 DEF WaitFails
  <2>2. pc \in {"not_busy", "drq"} /\ st' = st
    BY <1>7 DEF WaitFails, device
  <2> QED BY <2>1, <2>2, ReturnEnds
<1>8. CASE Transfer
  <2>1. Return("ok", cmd) /\ pc = "drq" /\ st' = "idle"
    BY <1>8 DEF Transfer
  <2> QED BY <2>1, ReturnEnds
<1>9. CASE DeviceStep
  <2>1. st = "busy" /\ st' # "busy" /\ pc' = pc /\ req' = req /\ polls' = polls
    BY <1>9 DEF DeviceStep, DevComplete
  <2>2. StepsLeft \in Nat /\ StepsLeft' = StepsLeft
    BY <2>1 DEF StepsLeft, PollsInv, AtaInv, AtaTypes
  <2> QED BY <2>1, <2>2 DEF CallLeft
<1>10. CASE AtaInit \/ \E d \in Drives, lba \in Lbas : ReadSector(d, lba) \/ ReadRefused(d, lba)
    BY <1>10 DEF AtaInit, ReadSector, ReadRefused
<1> QED BY <1>1, <1>2, <1>3, <1>4, <1>5, <1>6, <1>7, <1>8, <1>9, <1>10 DEF Next, DriverStep

LEMMA PollsBounded ==
    /\ Init => PollsInv
    /\ PollsInv /\ [Next]_vars => PollsInv'
<1> USE TimeoutType
<1>1. Init => PollsInv
    BY DEF Init, PollsInv
<1>2. ASSUME PollsInv, [Next]_vars PROVE PollsInv'
  <2>1. CASE \E rc, data : Return(rc, data)
    BY <2>1 DEF Return, PollsInv
  <2>2. CASE NotThere \/ WaitFails("not_busy") \/ WaitFails("drq") \/ Transfer
    BY <2>1, <2>2 DEF NotThere, WaitFails, Transfer
  <2>3. CASE NotBusy \/ \E b \in 0..MaxBusy : WriteCommand(b)
    BY <2>3 DEF NotBusy, WriteCommand, PollsInv
  <2>4. CASE PollAgain("not_busy", ~Bsy) \/ PollAgain("drq", Drq)
    BY <1>2, <2>4 DEF PollAgain, PollsLeft, PollsInv, T
  <2>5. CASE \/ AtaInit \/ WriteSelect \/ WriteRegs \/ SomethingThere \/ DeviceStep
             \/ \E d \in Drives, lba \in Lbas : ReadSector(d, lba) \/ ReadRefused(d, lba)
             \/ UNCHANGED vars
    <3>1. polls' = polls
        BY <2>5 DEF AtaInit, WriteSelect, WriteRegs, SomethingThere, DeviceStep, DevComplete,
             ReadSector, ReadRefused, vars
    <3> QED BY <1>2, <3>1 DEF PollsInv
  <2> QED BY <1>2, <2>2, <2>3, <2>4, <2>5 DEF Next, DriverStep
<1> QED BY <1>1, <1>2

(* A call of ata_init or ata_read_sector takes a bounded number of steps,  *)
(* whatever the drives do and also after a wait gave up on one: each step, *)
(* of the driver or of the device, leaves fewer.                           *)
THEOREM AtaCallsBounded ==
    Spec => [][pc # "idle" => pc' = "idle" \/ (CallLeft' \in Nat /\ CallLeft' < CallLeft)]_vars
<1>1. ASSUME AtaInv, PollsInv, [Next]_vars
      PROVE  [pc # "idle" => pc' = "idle" \/ (CallLeft' \in Nat /\ CallLeft' < CallLeft)]_vars
    BY <1>1, AtaStepDescends
<1>2. Spec => []PollsInv
    BY PollsBounded, PTL DEF Spec
<1> QED BY <1>1, <1>2, AtaInvariant, PTL DEF Spec

-----------------------------------------------------------------------------
(* The constants, one by one.                                              *)
LEMMA BootConstants ==
    /\ SEG \in Nat /\ SEG > 1 /\ BATCH \in Nat /\ BATCH > 0 /\ SECTOR \in Nat /\ SECTOR > 0
    /\ SECTORS_PER_TRACK \in Nat /\ SECTORS_PER_TRACK > 0
    /\ HEADS_PER_CYLINDER \in Nat /\ HEADS_PER_CYLINDER > 0
    /\ CYLINDERS \in Nat /\ CYLINDERS > 0
    /\ KERNEL_LBA \in Nat /\ MEM \in Nat /\ MaxRegions \in Nat /\ U16 \in Nat /\ MaxRegions < U16
BY BootAssumption

(* The image of a kernel fills its sectors, and has none to spare.         *)
LEMMA ImageFacts ==
    ASSUME NEW s \in KernelSizes
    PROVE  /\ s \in Nat
           /\ ImageSectors(s) \in Nat /\ ImageSectors(s) <= MEM
           /\ KERNEL_LBA + ImageSectors(s) < CYLINDERS * (HEADS_PER_CYLINDER * SECTORS_PER_TRACK)
           /\ \A k \in 0..(s - 1) : k \div SECTOR \in 0..(ImageSectors(s) - 1)
           /\ (KERNEL_LBA + 1) .. (KERNEL_LBA + ImageSectors(s)) \subseteq DOMAIN Disk
<1> DEFINE q == (s + SECTOR - 1) \div SECTOR
<1>1. s \in Nat /\ q < U16 /\ U16 \in Nat /\ SECTOR \in Nat \ {0}
    BY BootAssumption
<1>2. q \in Nat /\ s + SECTOR - 1 < SECTOR * q + SECTOR
  <2>1. s + SECTOR - 1 \in Nat
    BY <1>1
  <2> QED BY <1>1, <2>1
<1>3. ImageSectors(s) = q
    BY <1>1, <1>2 DEF ImageSectors
<1>4. ASSUME NEW k \in 0..(s - 1)
      PROVE  k \div SECTOR \in 0..(q - 1)
  <2> DEFINE d == k \div SECTOR
  <2>1. k \in Nat /\ d \in Nat /\ SECTOR * d <= k
    BY <1>1
  <2>2. SUFFICES ASSUME d >= q PROVE FALSE
    BY <1>2, <2>1
  <2>3. SECTOR * d >= SECTOR * q
    <3> HIDE DEF d, q
    <3>1. d - q \in Nat /\ SECTOR * (d - q) >= 0
        BY <1>1, <1>2, <2>1, <2>2
    <3> QED BY <3>1, <1>1, <1>2, <2>1
  <2> QED BY <1>1, <1>2, <2>1, <2>3
<1> QED BY <1>1, <1>2, <1>3, <1>4, BootAssumption

(* On a floppy drive the address that read_sectors_universal works out is  *)
(* that of the sector that was asked for.                                  *)
LEMMA ChsIsExact ==
    ASSUME FloppyDrive, eax \in Nat,
           eax < CYLINDERS * (HEADS_PER_CYLINDER * SECTORS_PER_TRACK)
    PROVE  OnDrive(Chs) = eax
<1> DEFINE S == SECTORS_PER_TRACK
           H == HEADS_PER_CYLINDER
           q == eax \div S
           c == q \div H
<1>1. S \in Nat /\ S > 0 /\ H \in Nat /\ H > 0 /\ CYLINDERS \in Nat /\ CYLINDERS > 0
    BY BootConstants
<1>2. q \in Nat /\ eax % S \in Nat /\ eax = S * q + (eax % S)
    BY <1>1
<1>3. c \in Nat /\ q % H \in Nat /\ q = H * c + (q % H)
    BY <1>1, <1>2
<1>4. c < CYLINDERS
  <2>1. SUFFICES ASSUME c >= CYLINDERS PROVE FALSE
    BY <1>1, <1>3
  <2>2. H * S \in Nat
    BY <1>1
  <2>3. eax >= (H * S) * c
    <3> HIDE DEF c
    <3>1. S * q >= S * (H * c)
      <4> HIDE DEF q
      <4>1. q - H * c \in Nat
        BY <1>1, <1>2, <1>3
      <4>2. S * (q - H * c) >= 0
        BY <4>1, <1>1
      <4> QED BY <4>1, <4>2, <1>1, <1>2, <1>3
    <3>2. S * (H * c) = (H * S) * c
        BY <1>1, <1>3
    <3> QED BY <3>1, <3>2, <1>1, <1>2, <1>3
  <2>4. (H * S) * c >= (H * S) * CYLINDERS
    <3> DEFINE hs == H * S
    <3> SUFFICES hs * c >= hs * CYLINDERS
        OBVIOUS
    <3>1. hs \in Nat
        BY <2>2
    <3> HIDE DEF c, hs
    <3>2. c - CYLINDERS \in Nat /\ hs * (c - CYLINDERS) >= 0
        BY <3>1, <1>1, <1>3, <2>1
    <3> QED BY <3>1, <3>2, <1>1, <1>3
  <2>5. (H * S) * CYLINDERS = CYLINDERS * (H * S)
    BY <1>1, <2>2
  <2> QED BY <2>2, <2>3, <2>4, <2>5, <1>1, <1>3
<1>5. c % CYLINDERS = c
    BY <1>1, <1>3, <1>4
<1>6. Chs.cyl = c /\ Chs.head = q % H /\ Chs.sector = (eax % S) + 1
    BY <1>5 DEF Chs
<1>7. geometry.sectors = S /\ geometry.heads = H
    BY DEF FloppyDrive
<1>8. OnDrive(Chs) = (c * H + (q % H)) * S + ((eax % S) + 1) - 1
    BY <1>6, <1>7 DEF OnDrive
<1>9. c * H + (q % H) = q
    BY <1>1, <1>3
<1>10. q * S = S * q
    BY <1>1, <1>2
<1> QED
  <2> HIDE DEF q, c, S, H
  <2> QED BY <1>1, <1>2, <1>8, <1>9, <1>10

(* A batch is not empty, ends with the segment and the image.              *)
LEMMA BatchFacts ==
    ASSUME bx \in 0..(SEG - 1), cx \in Nat, cx # 0
    PROVE  Batch \in 1..cx /\ bx + Batch <= SEG
<1>1. Room \in Nat \ {0} /\ bx + Room <= SEG
    BY BootConstants DEF Room
<1>2. \E x \in {Room, BATCH, cx} : \A y \in {Room, BATCH, cx} : x <= y
    BY <1>1, BootConstants
<1>3. Batch \in {Room, BATCH, cx} /\ \A y \in {Room, BATCH, cx} : Batch <= y
    BY <1>2 DEF Batch, Min
<1> QED BY <1>1, <1>3, BootConstants

(* Where the sectors of a read go: into their own places.                  *)
LEMMA DeliverFacts ==
    ASSUME LoopInv, BootTypeOK, Reading, ret = "advance",
           NEW n \in 0..count, NEW first, Deliver(first, n)
    PROVE  /\ UNCHANGED scratch
           /\ L \in Nat /\ L + count <= ImageSectors(size)
           /\ \A k \in Slots :
                 mem'[k] = IF k >= L /\ k < L + n THEN first + (k - L) ELSE mem[k]
<1>1. es \in Nat /\ bx \in 0..(SEG - 1) /\ count \in 1..cx /\ bx + count <= SEG /\ cx \in Nat
      /\ L + cx = ImageSectors(size)
    BY DEF LoopInv, Loading, Reading
<1>2. SEG \in Nat /\ SEG > 1 /\ MEM \in Nat
    BY BootConstants
<1>3. es * SEG \in Nat /\ L \in Nat /\ L = es * SEG + bx
    BY <1>1, <1>2 DEF L
<1>4. n \in Nat /\ n <= count
    BY <1>1
<1>5. \A i \in 0..(n - 1) : Buffer(n)[i] = L + i
  <2> TAKE i \in 0..(n - 1)
  <2>1. (bx + i) % SEG = bx + i
    BY <1>1, <1>2, <1>4
  <2> QED BY <2>1, <1>1, <1>3, <1>4 DEF Buffer
<1>6. ASSUME NEW k \in Slots
      PROVE  mem'[k] = IF k >= L /\ k < L + n THEN first + (k - L) ELSE mem[k]
  <2> DEFINE Hit(i) == Buffer(n)[i] = k
  <2>1. mem'[k] = IF \E i \in 0..(n - 1) : Hit(i)
                  THEN first + (CHOOSE i \in 0..(n - 1) : Hit(i)) ELSE mem[k]
    BY DEF Deliver
  <2>2. k \in Nat
    BY <1>2 DEF Slots
  <2>3. \A i \in 0..(n - 1) : Hit(i) <=> i = k - L
    BY <1>5, <1>3, <1>4, <2>2
  <2>4. (\E i \in 0..(n - 1) : Hit(i)) <=> k >= L /\ k < L + n
    BY <2>3, <2>2, <1>3, <1>4
  <2>5. CASE \E i \in 0..(n - 1) : Hit(i)
    <3>1. (CHOOSE i \in 0..(n - 1) : Hit(i)) = k - L
        BY <2>3, <2>5
    <3> QED BY <3>1, <2>1, <2>4, <2>5
  <2>6. CASE ~ \E i \in 0..(n - 1) : Hit(i)
    BY <2>6, <2>1, <2>4
  <2> QED BY <2>5, <2>6
<1> QED BY <1>1, <1>3, <1>6 DEF Deliver

-----------------------------------------------------------------------------
(* The machine stays as it is, and with it what was written to its disk.   *)
LEMMA MachineKept ==
    ASSUME UNCHANGED machine
    PROVE  /\ HeaderSum' = HeaderSum /\ ImageSum' = ImageSum
           /\ FloppyDrive' <=> FloppyDrive
           /\ size' = size /\ sealed' = sealed /\ sound' = sound /\ stale' = stale
           /\ geometry' = geometry
BY DEF machine, HeaderSum, ImageSum, ImageByte, FloppyDrive

LEMMA InitBootInv ==
    ASSUME BootInit
    PROVE  BootInv
<1>1. BootTypeOK
    BY BootConstants DEF BootInit, BootTypeOK, Stages, Reading
<1>2. HeaderInv /\ LoopInv /\ LoadedInv /\ RefusesOnlyOnFailure
    BY DEF BootInit, HeaderInv, LoopInv, LoadedInv, RefusesOnlyOnFailure, Loading, Reading
<1> QED BY <1>1, <1>2 DEF BootInv

(* Steps before the loop that touch neither memory nor the request.        *)
Quiet == {"s1_extensions", "s1_lba", "s1_chs", "menu_poll", "menu", "enable_a20", "check_a20",
          "e820", "header"}
LEMMA QuietKeeps ==
    ASSUME BootInv, stage \in Quiet, stage' \in Quiet \cup {"halt"},
           UNCHANGED << machine, mem >>, regions' \in 0..MaxRegions,
           stage' = "halt" => ~a20' \/ refused'
    PROVE  BootInv'
<1> USE MachineKept
<1>1. BootTypeOK'
    BY DEF BootInv, BootTypeOK, Quiet, Stages, Reading
<1>2. HeaderInv' /\ LoopInv' /\ LoadedInv'
    BY DEF BootInv, HeaderInv, LoopInv, LoadedInv, Quiet, Loading, Reading
<1>3. RefusesOnlyOnFailure'
    BY DEF RefusesOnlyOnFailure
<1> QED BY <1>1, <1>2, <1>3 DEF BootInv

(* What a read leaves, by LBA or by CHS, whole or in part: m sectors of    *)
(* the batch.  On a floppy drive they are the ones that were asked for.    *)
LEMMA ReadKeeps ==
    ASSUME BootInv, Reading, NEW first, FloppyDrive => first = eax,
           NEW n \in 0..count, Deliver(first, n),
           (stage' = ret /\ n = count) \/ stage' = "int13_chs",
           UNCHANGED << machine, early, header, loop, request, info, refused >>
    PROVE  BootInv'
<1> USE MachineKept
<1>0. ret \in {"magic", "advance"} /\ ret' = ret /\ count' = count /\ eax' = eax /\ cx' = cx
      /\ es' = es /\ bx' = bx /\ kernel_size' = kernel_size /\ expected' = expected
      /\ regions' = regions /\ a20' = a20 /\ info' = info
    BY DEF BootInv, BootTypeOK, request, loop, header, early
<1>1. BootTypeOK' /\ RefusesOnlyOnFailure'
    BY <1>0 DEF BootInv, BootTypeOK, Stages, Reading, RefusesOnlyOnFailure
<1>2. CASE ret = "magic"
  <2>1. UNCHANGED mem /\ scratch' = (IF n > 0 THEN first ELSE scratch)
    BY <1>2 DEF Deliver
  <2>2. eax = KERNEL_LBA /\ count = 1 /\ \A k \in Slots : mem[k] = -1
    BY <1>2 DEF BootInv, HeaderInv, Reading, Loading
  <2>3. HeaderInv'
    BY <1>0, <1>2, <2>1, <2>2 DEF HeaderInv, Reading, Loading
  <2>4. LoopInv' /\ LoadedInv'
    BY <1>0, <1>2 DEF LoopInv, LoadedInv, Loading, Reading
  <2> QED BY <1>1, <2>3, <2>4 DEF BootInv
<1>3. CASE ret = "advance"
  <2>1. L' = L /\ Loading /\ Loading' /\ stage # "loop" /\ stage' # "loop"
    BY <1>0, <1>3 DEF L, Loading, Reading
  <2>2. /\ L \in Nat /\ L + count <= ImageSectors(size)
        /\ \A k \in Slots : mem'[k] = IF k >= L /\ k < L + n THEN first + (k - L) ELSE mem[k]
    BY <1>3, DeliverFacts DEF BootInv
  <2>3. /\ es \in Nat /\ bx \in 0..(SEG - 1) /\ cx \in Nat
        /\ L + cx = ImageSectors(size) /\ eax = KERNEL_LBA + 1 + L
        /\ count \in 1..cx /\ bx + count <= SEG
        /\ FloppyDrive => \A k \in Slots : k < L => mem[k] = KERNEL_LBA + 1 + k
        /\ \A k \in Slots : k >= L + count => mem[k] = -1
    BY <2>1 DEF BootInv, LoopInv, Reading
  <2>4. ASSUME FloppyDrive, NEW k \in Slots
        PROVE  /\ k < L => mem'[k] = KERNEL_LBA + 1 + k
               /\ stage' = "advance" /\ k >= L /\ k < L + count => mem'[k] = KERNEL_LBA + 1 + k
    <3>1. first = KERNEL_LBA + 1 + L
        BY <2>3, <2>4
    <3>2. k \in Nat /\ KERNEL_LBA \in Nat /\ n \in Nat /\ count \in Nat /\ n <= count
        BY BootConstants, <2>3 DEF Slots
    <3>3. stage' = "advance" => n = count
        OBVIOUS
    <3> QED BY <2>2, <2>3, <2>4, <3>1, <3>2, <3>3
  <2>5. ASSUME NEW k \in Slots, k >= L + count PROVE mem'[k] = -1
    <3>1. k \in Nat /\ n \in Nat /\ count \in Nat /\ n <= count
        BY BootConstants, <2>3 DEF Slots
    <3> QED BY <2>2, <2>3, <2>5, <3>1
  <2>6. LoopInv'
    BY <1>0, <2>1, <2>3, <2>4, <2>5 DEF LoopInv
  <2>7. HeaderInv' /\ LoadedInv'
    BY <1>0, <1>3, <2>1 DEF BootInv, HeaderInv, LoadedInv, Reading
  <2> QED BY <1>1, <2>6, <2>7 DEF BootInv
<1> QED BY <1>0, <1>2, <1>3

LEMMA RequestAddress ==
    ASSUME BootInv, Reading
    PROVE  /\ eax \in Nat /\ eax < CYLINDERS * (HEADS_PER_CYLINDER * SECTORS_PER_TRACK)
           /\ count \in Nat
<1>1. size \in KernelSizes
    BY DEF BootInv, BootTypeOK
<1>2. /\ ImageSectors(size) \in Nat
      /\ KERNEL_LBA + ImageSectors(size) < CYLINDERS * (HEADS_PER_CYLINDER * SECTORS_PER_TRACK)
    BY <1>1, ImageFacts
<1>3. CYLINDERS * (HEADS_PER_CYLINDER * SECTORS_PER_TRACK) \in Nat /\ KERNEL_LBA \in Nat /\ SEG \in Nat
    BY BootConstants
<1>4. CASE ret = "magic"
    BY <1>2, <1>3, <1>4 DEF BootInv, HeaderInv
<1>5. CASE ret = "advance"
  <2>1. /\ es \in Nat /\ bx \in 0..(SEG - 1) /\ cx \in Nat
        /\ L + cx = ImageSectors(size) /\ eax = KERNEL_LBA + 1 + L /\ count \in 1..cx
    BY <1>5 DEF BootInv, LoopInv, Loading, Reading
  <2>2. L \in Nat
    BY <2>1, <1>3 DEF L
  <2> QED BY <1>2, <1>3, <2>1, <2>2
<1> QED BY <1>4, <1>5 DEF BootInv, BootTypeOK

(* With the image in place the sum over memory is the sum over the image.  *)
LEMMA SumsAgree ==
    ASSUME size \in KernelSizes, kernel_size = size, InPlace
    PROVE  MemSum = ImageSum
<1>1. ASSUME NEW k \in 0..(size - 1)
      PROVE  MemByte(k) = ImageByte(k)
  <2> DEFINE d == k \div SECTOR
  <2>1. d \in 0..(ImageSectors(size) - 1) /\ ImageSectors(size) \in Nat /\ ImageSectors(size) <= MEM
        /\ (KERNEL_LBA + 1) .. (KERNEL_LBA + ImageSectors(size)) \subseteq DOMAIN Disk
    BY ImageFacts
  <2>2. KERNEL_LBA \in Nat /\ MEM \in Nat
    BY BootConstants
  <2>3. d \in Slots /\ d < ImageSectors(size)
    BY <2>1, <2>2 DEF Slots
  <2>4. mem[d] = KERNEL_LBA + 1 + d
    BY <2>3 DEF InPlace
  <2>5. KERNEL_LBA + 1 + d \in DOMAIN Disk
    BY <2>1, <2>2
  <2> QED BY <2>4, <2>5 DEF MemByte, ImageByte
<1>2. [k \in 0..(size - 1) |-> MemByte(k)] = [k \in 0..(size - 1) |-> ImageByte(k)]
    BY <1>1
<1> QED BY <1>2 DEF MemSum, ImageSum

LEMMA CheckMagicKeeps ==
    ASSUME BootInv, CheckMagic
    PROVE  BootInv'
<1> USE MachineKept
<1>1. /\ stage = "magic" /\ stage' = "loop" /\ es' = 0 /\ bx' = 0 /\ cx' = ImageSectors(size)
      /\ eax' = KERNEL_LBA + 1 /\ kernel_size' = size /\ expected' = HeaderSum
      /\ UNCHANGED << machine, regions, mem >>
    BY DEF CheckMagic, Go, early
<1>2. size \in KernelSizes /\ ImageSectors(size) \in Nat
    BY ImageFacts DEF BootInv, BootTypeOK
<1>3. \A k \in Slots : mem[k] = -1 /\ k \in Nat
    BY <1>1, BootConstants DEF BootInv, HeaderInv, Loading, Reading, Slots
<1>4. L' = 0
    BY <1>1, BootConstants DEF L
<1>5. LoopInv'
    BY <1>1, <1>2, <1>3, <1>4, BootConstants DEF LoopInv
<1>6. BootTypeOK' /\ HeaderInv' /\ LoadedInv' /\ RefusesOnlyOnFailure'
    BY <1>1 DEF BootInv, BootTypeOK, HeaderInv, LoadedInv, RefusesOnlyOnFailure, Loading, Reading,
                Stages
<1> QED BY <1>5, <1>6 DEF BootInv

LEMMA LoadBatchKeeps ==
    ASSUME BootInv, LoadBatch
    PROVE  BootInv'
<1> USE MachineKept
<1>1. /\ stage = "loop" /\ cx # 0 /\ stage' = "int13_lba" /\ count' = Batch /\ ret' = "advance"
      /\ UNCHANGED << machine, regions, kernel_size, expected, eax, cx, es, bx, mem >>
    BY DEF LoadBatch, Read, early, header, loop
<1>2. /\ es \in Nat /\ bx \in 0..(SEG - 1) /\ cx \in Nat
      /\ L + cx = ImageSectors(size) /\ eax = KERNEL_LBA + 1 + L
      /\ FloppyDrive => \A k \in Slots : k < L => mem[k] = KERNEL_LBA + 1 + k
      /\ \A k \in Slots : k >= L + 0 => mem[k] = -1
    BY <1>1 DEF BootInv, LoopInv, Loading
<1>3. count' \in 1..cx /\ bx + count' <= SEG
    BY <1>1, <1>2, BatchFacts
<1>4. L' = L /\ L \in Nat
    BY <1>1, <1>2, BootConstants DEF L
<1>5. \A k \in Slots : k >= L + count' => k >= L + 0
  <2>1. count' \in Nat /\ \A k \in Slots : k \in Nat
    BY <1>2, <1>3, BootConstants DEF Slots
  <2> QED BY <2>1, <1>4
<1>6. LoopInv'
    BY <1>1, <1>2, <1>3, <1>4, <1>5 DEF LoopInv
<1>7. BootTypeOK' /\ HeaderInv' /\ LoadedInv' /\ RefusesOnlyOnFailure'
    BY <1>1 DEF BootInv, BootTypeOK, HeaderInv, LoadedInv, RefusesOnlyOnFailure, Loading, Reading,
                Stages
<1> QED BY <1>6, <1>7 DEF BootInv

(* A full segment is the offset 0 of the next: L grows by the batch.       *)
LEMMA AdvanceKeeps ==
    ASSUME BootInv, Advance
    PROVE  BootInv'
<1> USE MachineKept
<1>1. /\ stage = "advance" /\ stage' = "loop"
      /\ bx' = (bx + count) % SEG
      /\ es' = (IF bx + count >= SEG THEN es + 1 ELSE es)
      /\ eax' = eax + count /\ cx' = cx - count
      /\ UNCHANGED << machine, regions, kernel_size, expected, mem >>
    BY DEF Advance, Go, early, header
<1>2. /\ es \in Nat /\ bx \in 0..(SEG - 1) /\ cx \in Nat
      /\ L + cx = ImageSectors(size) /\ eax = KERNEL_LBA + 1 + L
      /\ count \in 1..cx /\ bx + count <= SEG
      /\ FloppyDrive => \A k \in Slots :
            /\ k < L => mem[k] = KERNEL_LBA + 1 + k
            /\ k >= L /\ k < L + count => mem[k] = KERNEL_LBA + 1 + k
      /\ \A k \in Slots : k >= L + count => mem[k] = -1
    BY <1>1 DEF BootInv, LoopInv, Loading
<1>3. SEG \in Nat /\ SEG > 1 /\ KERNEL_LBA \in Nat /\ MEM \in Nat
    BY BootConstants
<1>4. es' \in Nat /\ bx' \in 0..(SEG - 1) /\ L' = L + count /\ L \in Nat
  <2>1. es * SEG \in Nat /\ L = es * SEG + bx /\ L' = es' * SEG + bx'
    BY <1>2, <1>3 DEF L
  <2>2. CASE bx + count = SEG
    <3>1. bx' = 0 /\ es' = es + 1
        BY <1>1, <1>2, <1>3, <2>2
    <3>2. (es + 1) * SEG = es * SEG + SEG
        BY <1>2, <1>3
    <3> QED BY <2>1, <2>2, <3>1, <3>2, <1>2, <1>3
  <2>3. CASE bx + count < SEG
    <3>1. bx' = bx + count /\ es' = es
        BY <1>1, <1>2, <1>3, <2>3
    <3> QED BY <2>1, <2>3, <3>1, <1>2, <1>3
  <2> QED BY <1>2, <1>3, <2>2, <2>3
<1>5. cx' \in Nat /\ L' + cx' = ImageSectors(size) /\ eax' = KERNEL_LBA + 1 + L'
    BY <1>1, <1>2, <1>3, <1>4
<1>6. ASSUME NEW k \in Slots
      PROVE  (FloppyDrive /\ k < L' => mem[k] = KERNEL_LBA + 1 + k) /\ (k >= L' + 0 => mem[k] = -1)
  <2>1. k \in Nat /\ count \in Nat
    BY <1>2, <1>3 DEF Slots
  <2> QED BY <2>1, <1>2, <1>3, <1>4
<1>7. LoopInv'
    BY <1>1, <1>4, <1>5, <1>6 DEF LoopInv
<1>8. BootTypeOK' /\ HeaderInv' /\ LoadedInv' /\ RefusesOnlyOnFailure'
    BY <1>1 DEF BootInv, BootTypeOK, HeaderInv, LoadedInv, RefusesOnlyOnFailure, Loading, Reading,
                Stages
<1> QED BY <1>7, <1>8 DEF BootInv

LEMMA LoadedKeeps ==
    ASSUME BootInv, Loaded
    PROVE  BootInv'
<1> USE MachineKept
<1>1. /\ stage = "loop" /\ cx = 0 /\ stage' = "checksum"
      /\ UNCHANGED << machine, regions, kernel_size, expected, mem >>
    BY DEF Loaded, Go, early, header
<1>2. L + 0 = ImageSectors(size) /\ es \in Nat /\ bx \in 0..(SEG - 1)
      /\ (FloppyDrive => \A k \in Slots : k < L => mem[k] = KERNEL_LBA + 1 + k)
      /\ \A k \in Slots : k >= L + 0 => mem[k] = -1
    BY <1>1 DEF BootInv, LoopInv, Loading
<1>3. L \in Nat
    BY <1>2, BootConstants DEF L
<1>4. \A k \in Slots : k >= ImageSectors(size) => mem[k] = -1
    BY <1>2, <1>3
<1>5. FloppyDrive => InPlace'
    BY <1>1, <1>2, <1>3, <1>4, BootConstants DEF InPlace, Slots
<1>6. LoadedInv'
    BY <1>1, <1>4, <1>5 DEF BootInv, LoadedInv, Loading, Reading
<1>7. BootTypeOK' /\ HeaderInv' /\ LoopInv' /\ RefusesOnlyOnFailure'
    BY <1>1 DEF BootInv, BootTypeOK, HeaderInv, LoopInv, RefusesOnlyOnFailure, Loading, Reading,
                Stages
<1> QED BY <1>6, <1>7 DEF BootInv

(* What the header says of an image: nothing, its sum, or another one.     *)
LEMMA HeaderSumFacts ==
    ASSUME sealed \in BOOLEAN, sound \in BOOLEAN
    PROVE  /\ ~sealed => HeaderSum = 0
           /\ sealed /\ sound => HeaderSum = ImageSum
           /\ sealed /\ ~sound => HeaderSum # ImageSum /\ HeaderSum # 0
<1>1. \E c \in {1, 2} : c # ImageSum
    OBVIOUS
<1> QED BY <1>1 DEF HeaderSum

LEMMA SumKept ==
    ASSUME UNCHANGED << machine, kernel_size, mem >>
    PROVE  MemSum' = MemSum /\ (InPlace' <=> InPlace)
BY MachineKept DEF MemSum, MemByte, InPlace

(* On a floppy drive the sum in memory is that of the image, so the check  *)
(* stops no sound image; on every drive it stops what has another sum.     *)
LEMMA VerifyKeeps ==
    ASSUME BootInv, VerifyChecksum
    PROVE  BootInv'
<1> USE MachineKept
<1>1. /\ stage = "checksum"
      /\ stage' = (IF expected = 0 \/ MemSum = expected THEN "boot_info" ELSE "halt")
      /\ UNCHANGED << machine, regions, a20, refused, kernel_size, expected, mem >>
    BY DEF VerifyChecksum, Go, early, header
<1>2. /\ size \in KernelSizes /\ kernel_size = size /\ expected = HeaderSum
      /\ FloppyDrive => InPlace
      /\ \A k \in Slots : k >= ImageSectors(size) => mem[k] = -1
    BY <1>1 DEF BootInv, BootTypeOK, LoadedInv
<1>3. FloppyDrive => MemSum = ImageSum
    BY <1>2, SumsAgree
<1>4. sealed \in BOOLEAN /\ sound \in BOOLEAN
    BY DEF BootInv, BootTypeOK
<1>5. RefusesOnlyOnFailure'
    BY <1>1, <1>2, <1>3, <1>4, HeaderSumFacts DEF RefusesOnlyOnFailure
<1>6. MemSum' = MemSum /\ (InPlace' <=> InPlace)
    BY <1>1, SumKept
<1>7. LoadedInv'
    BY <1>1, <1>2, <1>6 DEF LoadedInv, Loading, Reading
<1>8. BootTypeOK' /\ HeaderInv' /\ LoopInv'
    BY <1>1 DEF BootInv, BootTypeOK, HeaderInv, LoopInv, Loading, Reading, Stages
<1> QED BY <1>5, <1>7, <1>8 DEF BootInv

(* Between the checksum and the jump nothing that was loaded changes.      *)
LEMMA HandOverKeeps ==
    ASSUME BootInv, SetupBootInfo \/ WaitEnterOrTimeout
    PROVE  BootInv'
<1> USE MachineKept
<1>1. UNCHANGED << machine, regions, a20, refused, kernel_size, expected, mem >>
      /\ stage \in {"boot_info", "countdown"} /\ stage' \in {"countdown", "kernel"}
    BY DEF SetupBootInfo, WaitEnterOrTimeout, Go, Screen, header
<1>2. /\ kernel_size = size /\ expected = HeaderSum /\ (FloppyDrive => InPlace)
      /\ HeaderSum = 0 \/ MemSum = HeaderSum
      /\ \A k \in Slots : k >= ImageSectors(size) => mem[k] = -1
    BY <1>1 DEF BootInv, LoadedInv
<1>3. info' = [kernel_size |-> size, mmap_count |-> stale * U16 + (regions % U16)]
    BY <1>2 DEF SetupBootInfo, WaitEnterOrTimeout, Screen, BootInv, LoadedInv
<1>4. MemSum' = MemSum /\ (InPlace' <=> InPlace)
    BY <1>1, SumKept
<1>5. LoadedInv'
    BY <1>1, <1>2, <1>3, <1>4 DEF LoadedInv, Loading, Reading
<1>6. BootTypeOK' /\ HeaderInv' /\ LoopInv' /\ RefusesOnlyOnFailure'
    BY <1>1 DEF BootInv, BootTypeOK, HeaderInv, LoopInv, RefusesOnlyOnFailure, Loading, Reading,
                Stages
<1> QED BY <1>5, <1>6 DEF BootInv

LEMMA NextBootInv ==
    ASSUME BootInv, [BootNext]_bootVars
    PROVE  BootInv'
<1>1. CASE Stage1
  <2>1. stage \in Quiet /\ stage' \in Quiet \cup {"halt"} /\ (stage' = "halt" => refused')
        /\ UNCHANGED << machine, mem, regions >>
    BY <1>1 DEF Stage1, Go, Quiet, early
  <2> QED BY <2>1, QuietKeeps DEF BootInv, BootTypeOK
<1>2. CASE PollBootMenu \/ BootMenuChoice
  <2>1. stage \in Quiet /\ stage' \in Quiet /\ UNCHANGED << machine, mem, regions >>
    BY <1>2 DEF PollBootMenu, BootMenuChoice, Go, Quiet, Screen
  <2> QED BY <2>1, QuietKeeps DEF BootInv, BootTypeOK, Quiet
<1>3. CASE EnableA20 \/ CheckA20
  <2>1. CASE EnableA20
    <3>1. stage \in Quiet /\ stage' \in Quiet /\ UNCHANGED << machine, mem, regions >>
        BY <2>1 DEF EnableA20, Go, Quiet
    <3> QED BY <3>1, QuietKeeps DEF BootInv, BootTypeOK, Quiet
  <2>2. CASE CheckA20
    <3>1. stage \in Quiet /\ UNCHANGED << machine, mem, regions >>
        BY <2>2 DEF CheckA20, Quiet, early
    <3>2. CASE a20
        BY <2>2, <3>1, <3>2, QuietKeeps DEF CheckA20, Go, Quiet, BootInv, BootTypeOK
    <3>3. CASE ~a20
      <4>1. stage' = "halt" /\ ~a20'
        BY <2>2, <3>3, Zenon DEF CheckA20, Go, early
      <4> QED BY <3>1, <4>1, QuietKeeps DEF BootInv, BootTypeOK
    <3> QED BY <3>2, <3>3
  <2> QED BY <1>3, <2>1, <2>2
<1>4. CASE E820Ends \/ \E more \in BOOLEAN : E820Entry(more)
  <2>1. regions \in 0..MaxRegions /\ MaxRegions \in Nat
    BY BootConstants DEF BootInv, BootTypeOK
  <2>2. stage \in Quiet /\ stage' \in Quiet /\ UNCHANGED << machine, mem >>
        /\ (regions' = regions \/ (regions < MaxRegions /\ regions' = regions + 1))
    BY <1>4 DEF E820Ends, E820Entry, Go, Quiet, early
  <2>3. regions' \in 0..MaxRegions
    BY <2>1, <2>2
  <2> QED BY <2>2, <2>3, QuietKeeps DEF Quiet
<1>5. CASE ReadHeader
  <2>1. /\ stage = "header" /\ stage' = "int13_lba" /\ eax' = KERNEL_LBA /\ count' = 1
        /\ ret' = "magic" /\ UNCHANGED << machine, mem, regions >>
    BY <1>5 DEF ReadHeader, Read, early
  <2> QED BY <2>1, MachineKept DEF BootInv, BootTypeOK, HeaderInv, LoopInv, LoadedInv,
             RefusesOnlyOnFailure, Loading, Reading, Stages
<1>6. CASE CheckMagic
    BY <1>6, CheckMagicKeeps
<1>7. CASE BadMagic
  <2>1. /\ stage = "magic" /\ scratch # KERNEL_LBA /\ stage' = "halt"
        /\ UNCHANGED << machine, mem, regions >>
    BY <1>7 DEF BadMagic, Go, early
  <2>2. ~FloppyDrive'
    BY <2>1, MachineKept DEF BootInv, HeaderInv
  <2> QED BY <2>1, <2>2, MachineKept DEF BootInv, BootTypeOK, HeaderInv, LoopInv, LoadedInv,
             RefusesOnlyOnFailure, Loading, Reading, Stages
<1>8. CASE LbaRead
  <2>1. Reading /\ eax \in Int /\ count \in 0..count
    BY <1>8, RequestAddress DEF LbaRead, Reading
  <2> QED BY <1>8, <2>1, ReadKeeps DEF LbaRead, Go
<1>9. CASE LbaReadFails
  <2>1. Reading /\ eax \in Int /\ count \in Nat
    BY <1>9, RequestAddress DEF LbaReadFails, Reading
  <2>2. PICK n \in 0..(count - 1) : Deliver(eax, n)
    BY <1>9 DEF LbaReadFails
  <2>3. n \in 0..count
    BY <2>1
  <2> QED BY <1>9, <2>1, <2>2, <2>3, ReadKeeps DEF LbaReadFails, Go
<1>10. CASE ChsRead
  <2>1. Reading /\ eax \in Nat /\ count \in 0..count
    BY <1>10, RequestAddress DEF ChsRead, Reading
  <2>2. FloppyDrive => OnDrive(Chs) = eax
    BY <2>1, RequestAddress, ChsIsExact
  <2> QED BY <1>10, <2>1, <2>2, ReadKeeps DEF ChsRead, Go
<1>11. CASE ChsReadFails
  <2>1. stage' = "halt" /\ refused' /\ UNCHANGED << machine, mem, regions >>
    BY <1>11 DEF ChsReadFails, Go, early
  <2> QED BY <2>1, MachineKept DEF BootInv, BootTypeOK, HeaderInv, LoopInv, LoadedInv,
             RefusesOnlyOnFailure, Loading, Reading, Stages
<1>12. CASE LoadBatch
    BY <1>12, LoadBatchKeeps
<1>13. CASE Advance
    BY <1>13, AdvanceKeeps
<1>14. CASE Loaded
    BY <1>14, LoadedKeeps
<1>15. CASE VerifyChecksum
    BY <1>15, VerifyKeeps
<1>16. CASE SetupBootInfo \/ WaitEnterOrTimeout
    BY <1>16, HandOverKeeps
<1>17. CASE UNCHANGED bootVars
  <2>1. UNCHANGED << stage, machine, regions, a20, kernel_size, expected, eax, cx, es, bx, count,
                     ret, scratch, mem, info, refused >>
    BY <1>17 DEF bootVars, early, header, loop, request
  <2>2. UNCHANGED << L, InPlace, Loading, Reading, MemSum >>
    BY <2>1, MachineKept, SumKept DEF L, InPlace, Loading, Reading
  <2> QED BY <2>1, <2>2, MachineKept DEF BootInv, BootTypeOK, HeaderInv, LoopInv, LoadedInv,
             RefusesOnlyOnFailure
<1> QED BY <1>1, <1>2, <1>3, <1>4, <1>5, <1>6, <1>7, <1>8, <1>9, <1>10, <1>11, <1>12, <1>13,
        <1>14, <1>15, <1>16, <1>17 DEF BootNext, Stage2, Ended

-----------------------------------------------------------------------------
(* BootInv holds in every state of the two stages, whichever BIOS calls    *)
(* fail.                                                                   *)
THEOREM BootInvariant == BootSpec => []BootInv
BY InitBootInv, NextBootInv, PTL DEF BootSpec

(* stage2_main halts only for a closed A20 gate, after both reads failed,  *)
(* on a drive that is no floppy, or for a damaged image: never for its own *)
(* batches, segments or sums.                                              *)
THEOREM BootRefusesOnlyOnFailure == BootSpec => []RefusesOnlyOnFailure
<1>1. BootInv => RefusesOnlyOnFailure
    BY DEF BootInv
<1> QED BY <1>1, BootInvariant, PTL

(* The kernel is entered with its whole image in place on the geometry     *)
(* that read_sectors_universal assumes, for every disk; on other drives if *)
(* the header has a checksum, which only a collision of sums can deceive.  *)
THEOREM BootHandsOverImage == BootSpec => []HandsOverImage
<1>1. BootInv => HandsOverImage
  <2> SUFFICES ASSUME BootInv, stage = "kernel"
               PROVE  /\ FloppyDrive \/ (HeaderSum # 0 /\ ~SumCollides) => InPlace
                      /\ \A k \in Slots : k >= ImageSectors(size) => mem[k] = -1
                      /\ sealed /\ InPlace => sound
                      /\ info.kernel_size = size
                      /\ stale = 0 => info.mmap_count = regions
    BY DEF HandsOverImage
  <2>1. /\ kernel_size = size /\ (FloppyDrive => InPlace)
        /\ HeaderSum = 0 \/ MemSum = HeaderSum
        /\ \A k \in Slots : k >= ImageSectors(size) => mem[k] = -1
        /\ info = [kernel_size |-> size, mmap_count |-> stale * U16 + (regions % U16)]
    BY DEF BootInv, LoadedInv
  <2>2. size \in KernelSizes /\ sealed \in BOOLEAN /\ sound \in BOOLEAN
    BY DEF BootInv, BootTypeOK
  <2>3. FloppyDrive \/ (HeaderSum # 0 /\ ~SumCollides) => InPlace
    BY <2>1 DEF SumCollides
  <2>4. sealed /\ InPlace => sound
    BY <2>1, <2>2, SumsAgree, HeaderSumFacts
  <2>5. regions % U16 = regions /\ regions \in Nat
    BY BootConstants DEF BootInv, BootTypeOK
  <2>6. stale = 0 => stale * U16 + (regions % U16) = regions
    BY <2>5, BootConstants
  <2> QED BY <2>1, <2>3, <2>4, <2>6
<1> QED BY <1>1, BootInvariant, PTL

-----------------------------------------------------------------------------
(* Progress of the loader.  The stages go down in rank; inside a stage     *)
(* that loops, the rounds, the E820 entries or the sectors to load do.     *)
Rank ==
    IF Loading THEN 5
    ELSE [s1_extensions |-> 17, s1_lba |-> 16, s1_chs |-> 15, menu_poll |-> 14, menu |-> 13,
          enable_a20 |-> 12, check_a20 |-> 11, e820 |-> 10, header |-> 9, int13_lba |-> 8,
          int13_chs |-> 7, magic |-> 6, checksum |-> 4, boot_info |-> 3, countdown |-> 2,
          kernel |-> 1, halt |-> 0][stage]

Remaining ==
    IF Loading THEN 4 * cx + [loop |-> 3, int13_lba |-> 2, int13_chs |-> 1, advance |-> 0][stage]
    ELSE IF stage = "e820" THEN MaxRegions - regions
    ELSE IF stage \in {"menu_poll", "countdown"} THEN rounds
    ELSE 0

(* The loops that wait for a key count down from a number of rounds.       *)
RoundsInv ==
    stage \in {"s1_extensions", "s1_lba", "s1_chs", "menu_poll", "countdown"}
        => rounds \in Nat \ {0}

LEMMA RoundsCountDown ==
    /\ BootInit => RoundsInv
    /\ BootInv /\ RoundsInv /\ [BootNext]_bootVars => RoundsInv'
<1>1. MENU_POLLS \in Nat \ {0} /\ WAIT_TICKS \in Nat \ {0}
    BY BootAssumption
<1>2. BootInit => RoundsInv
    BY <1>1 DEF BootInit, RoundsInv
<1>3. ASSUME BootInv, RoundsInv, [BootNext]_bootVars PROVE RoundsInv'
  <2>1. CASE Stage1 \/ UNCHANGED bootVars
    BY <1>3, <2>1 DEF Stage1, Go, early, bootVars, RoundsInv
  <2>2. CASE PollBootMenu
    BY <1>3, <2>2 DEF PollBootMenu, Go, RoundsInv
  <2>3. CASE WaitEnterOrTimeout
    BY <1>3, <2>3 DEF WaitEnterOrTimeout, Go, RoundsInv
  <2>4. CASE SetupBootInfo
    BY <1>1, <2>4 DEF SetupBootInfo, Go, RoundsInv
  <2>5. CASE LbaRead \/ ChsRead
    <3>1. stage' \in {"magic", "advance"}
        BY <1>3, <2>5 DEF LbaRead, ChsRead, Go, BootInv, BootTypeOK, Reading
    <3> QED BY <3>1 DEF RoundsInv
  <2>6. CASE \/ BootMenuChoice \/ EnableA20 \/ CheckA20 \/ E820Ends
             \/ \E more \in BOOLEAN : E820Entry(more)
    BY <2>6 DEF BootMenuChoice, EnableA20, CheckA20, E820Ends, E820Entry, Go, RoundsInv
  <2>7. CASE \/ ReadHeader \/ CheckMagic \/ BadMagic \/ LbaReadFails \/ ChsReadFails
             \/ LoadBatch \/ Advance \/ Loaded \/ VerifyChecksum
    BY <2>7 DEF ReadHeader, CheckMagic, BadMagic, LbaReadFails, ChsReadFails, LoadBatch, Advance,
             Loaded, VerifyChecksum, Read, Go, RoundsInv
  <2> QED BY <1>3, <2>1, <2>2, <2>3, <2>4, <2>5, <2>6, <2>7 DEF BootNext, Stage2, Ended
<1> QED BY <1>2, <1>3

Descends ==
    \/ Rank' < Rank
    \/ Rank' = Rank /\ Remaining' \in Nat /\ Remaining' < Remaining

(* One step of stage 1 and stage 2 goes down, in rank or in what remains.  *)
LEMMA BootStepDescends ==
    ASSUME BootInv, RoundsInv, BootNext, bootVars' # bootVars
    PROVE  Descends
<1>1. CASE Stage1
    BY <1>1 DEF Stage1, Go, Descends, Rank, Loading, Reading
<1>2. CASE PollBootMenu
  <2>1. stage = "menu_poll" /\ rounds \in Nat \ {0}
    BY <1>2 DEF PollBootMenu, RoundsInv
  <2>2. stage' \in {"menu", "enable_a20"} \/ (stage' = "menu_poll" /\ rounds' = rounds - 1)
    BY <1>2, <2>1 DEF PollBootMenu, Go
  <2> QED BY <2>1, <2>2 DEF Descends, Rank, Remaining, Loading, Reading
<1>3. CASE WaitEnterOrTimeout
  <2>1. stage = "countdown" /\ rounds \in Nat \ {0}
    BY <1>3 DEF WaitEnterOrTimeout, RoundsInv
  <2>2. stage' = "kernel" \/ (stage' = "countdown" /\ rounds' = rounds - 1)
    BY <1>3, <2>1 DEF WaitEnterOrTimeout, Go
  <2> QED BY <2>1, <2>2 DEF Descends, Rank, Remaining, Loading, Reading
<1>4. CASE E820Ends \/ \E more \in BOOLEAN : E820Entry(more)
  <2>1. regions \in 0..MaxRegions /\ MaxRegions \in Nat
    BY BootConstants DEF BootInv, BootTypeOK
  <2>2. /\ stage = "e820"
        /\ \/ stage' = "header"
           \/ stage' = "e820" /\ regions < MaxRegions /\ regions' = regions + 1
    BY <1>4 DEF E820Ends, E820Entry, Go
  <2> QED BY <2>1, <2>2 DEF Descends, Rank, Remaining, Loading, Reading
<1>5. CASE BootMenuChoice \/ EnableA20 \/ CheckA20 \/ ReadHeader \/ BadMagic \/ VerifyChecksum
           \/ SetupBootInfo
  <2>1. CheckA20 => stage = "check_a20" /\ stage' \in {"e820", "halt"}
    BY DEF CheckA20, Go
  <2>2. VerifyChecksum => stage = "checksum" /\ stage' \in {"boot_info", "halt"}
    BY DEF VerifyChecksum, Go
  <2>3. BootMenuChoice \/ EnableA20 \/ BadMagic \/ SetupBootInfo =>
            \/ stage = "menu" /\ stage' = "enable_a20"
            \/ stage = "enable_a20" /\ stage' = "check_a20"
            \/ stage = "magic" /\ stage' = "halt"
            \/ stage = "boot_info" /\ stage' = "countdown"
    BY DEF BootMenuChoice, EnableA20, BadMagic, SetupBootInfo, Go
  <2>4. ReadHeader => stage = "header" /\ stage' = "int13_lba" /\ ret' = "magic"
    BY DEF ReadHeader, Read
  <2> QED BY <1>5, <2>1, <2>2, <2>3, <2>4 DEF Descends, Rank, Loading, Reading
<1>6. CASE CheckMagic \/ Loaded
    BY <1>6 DEF CheckMagic, Loaded, Go, Descends, Rank, Loading, Reading
<1>7. CASE LbaRead \/ LbaReadFails \/ ChsRead \/ ChsReadFails
  <2>1. /\ stage \in {"int13_lba", "int13_chs"} /\ ret \in {"magic", "advance"}
        /\ \/ stage' = ret \/ stage' = "halt" \/ (stage = "int13_lba" /\ stage' = "int13_chs")
        /\ ret' = ret /\ cx' = cx
    BY <1>7 DEF LbaRead, LbaReadFails, ChsRead, ChsReadFails, Go, loop, request, BootInv, BootTypeOK,
         Reading
  <2>2. CASE ret = "magic"
    BY <2>1, <2>2 DEF Descends, Rank, Loading, Reading
  <2>3. CASE ret = "advance"
    <3>1. cx \in Nat /\ Loading
        BY <2>1, <2>3 DEF BootInv, LoopInv, Loading, Reading
    <3>2. stage' = "halt" => Rank' = 0 /\ Rank = 5
        BY <3>1 DEF Rank, Loading, Reading
    <3>3. stage' # "halt" => Loading' /\ Rank' = Rank
        BY <2>1, <2>3, <3>1 DEF Rank, Loading, Reading
    <3>4. stage' # "halt" => Remaining' \in Nat /\ Remaining' < Remaining
        BY <2>1, <2>3, <3>1, <3>3 DEF Remaining
    <3> QED BY <3>2, <3>3, <3>4 DEF Descends
  <2> QED BY <2>1, <2>2, <2>3
<1>8. CASE LoadBatch
  <2>1. stage = "loop" /\ stage' = "int13_lba" /\ ret' = "advance" /\ cx' = cx
    BY <1>8 DEF LoadBatch, Read, loop
  <2>2. cx \in Nat /\ Loading /\ Loading'
    BY <2>1 DEF BootInv, LoopInv, Loading, Reading
  <2> QED BY <2>1, <2>2 DEF Descends, Rank, Remaining
<1>9. CASE Advance
  <2>1. stage = "advance" /\ stage' = "loop" /\ cx' = cx - count
    BY <1>9 DEF Advance, Go
  <2>2. cx \in Nat /\ count \in 1..cx /\ Loading /\ Loading'
    BY <2>1 DEF BootInv, LoopInv, Loading, Reading
  <2> QED BY <2>1, <2>2 DEF Descends, Rank, Remaining
<1> QED BY <1>1, <1>2, <1>3, <1>4, <1>5, <1>6, <1>7, <1>8, <1>9 DEF BootNext, Stage2, Ended

(* The loader cannot run in circles: every step that stage 1 or stage 2    *)
(* takes, whichever BIOS calls fail, lowers the pair of Rank and           *)
(* Remaining, so read_kernel_robust and the waits for keys come to an end. *)
THEOREM BootNeverLoops == BootSpec => [][Descends]_bootVars
<1>1. BootSpec => []RoundsInv
    BY RoundsCountDown, BootInvariant, PTL DEF BootSpec
<1>2. ASSUME BootInv, RoundsInv, [BootNext]_bootVars PROVE [Descends]_bootVars
    BY <1>2, BootStepDescends
<1> QED BY <1>1, <1>2, BootInvariant, PTL DEF BootSpec
=============================================================================
