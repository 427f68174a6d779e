--------------------------------- MODULE Ata ---------------------------------
(***************************************************************************)
(* The ATA PIO driver, kernel/drivers/ata.c, and the two drives of the     *)
(* primary channel.                                                        *)
(*                                                                         *)
(* A call of the driver writes the drive select register, the sector       *)
(* registers and the command, and then polls the status register a bounded *)
(* number of times.  The device works on its own: it stays busy for at     *)
(* most MaxBusy polls and may be ready earlier.  While it is busy, or has  *)
(* data to deliver, it does not listen to register writes, the select      *)
(* register included; so only the selected drive is ever at work.          *)
(*                                                                         *)
(* A sector is known by where it came from: the record of the command that *)
(* the device executed.                                                    *)
(***************************************************************************)
EXTENDS Integers

CONSTANTS
    ATA_PIO_TIMEOUT,   \* polls before a wait gives up (200000 in ata.c)
    ATA_LBA28_MAX,     \* 0x0FFFFFFF in ata.h
    MaxBusy,           \* bound: polls for which a drive may stay busy
    Channels,          \* what may be attached: functions from Drives
    Size,              \* the sectors IDENTIFY reports for each drive, 0: none
    Lbas               \* the sectors callers ask for

Drives == {0, 1}
Attachable == {"ata", "atapi", "none"}

ASSUME AtaAssumption ==
    /\ ATA_PIO_TIMEOUT \in Nat \ {0} /\ ATA_LBA28_MAX \in Nat
    /\ MaxBusy \in Nat
    /\ Channels \subseteq [Drives -> Attachable]
    /\ Size \in [Drives -> Nat]
    /\ Lbas \subseteq Nat

VARIABLES
    attached,              \* what is on the channel
    selected, lba_reg,     \* the device's registers
    st, cmd, left,         \* its state, its command, polls it may still take
    present, lba28_sectors,          \* g_ata_drive
    pc, req, polls,                  \* the call in progress
    last,                            \* ghost: the last call: request, rc, data
    late                             \* ghost: a wait gave up on a drive at work

device == << selected, lba_reg, st, cmd, left >>
drives == << present, lba28_sectors >>
vars == << attached, device, drives, pc, req, polls, last, late >>

Command(op, d, lba) == [op |-> op, drive |-> d, lba |-> lba]
Commands == [op : {"identify", "read"}, drive : Drives, lba : Nat]
NoData == [op |-> "none", drive |-> 0, lba |-> 0]

(* ata_init, called by ata_block_register_devices, after its first loop.   *)
Init ==
    /\ attached \in Channels
    /\ selected = 0 /\ lba_reg = 0 /\ st = "idle" /\ left = 0
    /\ cmd = NoData
    /\ present = [d \in Drives |-> FALSE] /\ lba28_sectors = [d \in Drives |-> 0]
    /\ pc = "select" /\ req = Command("identify", 0, 0) /\ polls = 0
    /\ last = [req |-> NoData, rc |-> "none", data |-> NoData] /\ late = FALSE

-----------------------------------------------------------------------------
(* The device.                                                             *)
Deaf == st \in {"busy", "data"}

(* BSY clears: with data, with an error, with neither (a command that the  *)
(* drive drops), or, for a packet device asked to identify itself, with    *)
(* its signature in the sector registers.                                  *)
DevComplete(s) ==
    /\ st = "busy"
    /\ s \in IF attached[cmd.drive] = "ata" THEN {"data", "error", "idle"}
             ELSE {"error", "idle", "signature"}
    /\ st' = s /\ left' = 0
    /\ UNCHANGED << attached, selected, lba_reg, cmd, drives, pc, req, polls, last, late >>

(* What the status register shows.  No drive: zero.                        *)
Zero == attached[selected] = "none"
Bsy == ~Zero /\ st = "busy"
Err == ~Zero /\ st = "error"
Drq == ~Zero /\ st = "data"
ForeignSignature == ~Zero /\ st = "signature"

(* A poll takes the device's time.                                         *)
PollTime == st = "busy" => left > 0
TimePasses == left' = IF st = "busy" THEN left - 1 ELSE left

-----------------------------------------------------------------------------
(* The calls of the driver.                                                *)
AtaInit ==
    /\ pc = "idle"
    /\ present' = [d \in Drives |-> FALSE]
    /\ lba28_sectors' = [d \in Drives |-> 0]
    /\ pc' = "select" /\ req' = Command("identify", 0, 0)
    /\ UNCHANGED << attached, device, polls, last, late >>

(* The checks of ata_read_sector before it touches the device.             *)
LbaOkLoose(d, lba) ==
    /\ lba <= ATA_LBA28_MAX
    /\ lba28_sectors[d] # 0 => lba <= lba28_sectors[d]
LbaOk(d, lba) ==
    /\ lba <= ATA_LBA28_MAX
    /\ lba28_sectors[d] # 0 => lba < lba28_sectors[d]

ReadSector(d, lba) ==
    /\ pc = "idle"
    /\ present[d] /\ LbaOk(d, lba)
    /\ pc' = "select" /\ req' = Command("read", d, lba)
    /\ UNCHANGED << attached, device, drives, polls, last, late >>

ReadRefused(d, lba) ==
    /\ pc = "idle"
    /\ ~(present[d] /\ LbaOk(d, lba))
    /\ last' = [req |-> Command("read", d, lba),
                rc |-> IF present[d] THEN "lba_range" ELSE "no_device",
                data |-> NoData]
    /\ UNCHANGED << attached, device, drives, pc, req, polls, late >>

(* The registers, the command, each lost on a device that does not listen. *)
WriteSelect ==
    /\ pc = "select" /\ pc' = "regs"
    /\ selected' = IF Deaf THEN selected ELSE req.drive
    /\ UNCHANGED << attached, lba_reg, st, cmd, left, drives, req, polls, last, late >>

WriteRegsSkipped ==
    /\ pc = "regs" /\ pc' = "command"
    /\ UNCHANGED << attached, device, drives, req, polls, last, late >>
WriteRegs ==
    /\ pc = "regs" /\ pc' = "command"
    /\ lba_reg' = IF Deaf THEN lba_reg ELSE req.lba
    /\ UNCHANGED << attached, selected, st, cmd, left, drives, req, polls, last, late >>

WriteCommand(busy) ==
    /\ pc = "command"
    /\ pc' = IF req.op = "identify" THEN "exists" ELSE "not_busy"
    /\ polls' = 0
    /\ IF Deaf \/ Zero
       THEN UNCHANGED << st, cmd, left >>
       ELSE /\ st' = "busy" /\ left' = busy
            /\ cmd' = Command(req.op, selected, lba_reg)
    /\ UNCHANGED << attached, selected, lba_reg, drives, req, last, late >>

(* A call returns: ata_init marks the drive and goes on with the next one. *)
MarksMost(rc) == [present EXCEPT ![req.drive] = (rc # "no_device")]
Marks(rc) == [present EXCEPT ![req.drive] = (rc = "ok")]

Return(rc, data) ==
    /\ last' = [req |-> req, rc |-> rc, data |-> data]
    /\ polls' = 0
    /\ IF req.op = "identify"
       THEN /\ present' = Marks(rc)
            /\ lba28_sectors' = [lba28_sectors EXCEPT
                   ![req.drive] = IF rc = "ok" THEN Size[data.drive] ELSE 0]
            /\ IF req.drive = 0
               THEN pc' = "select" /\ req' = Command("identify", 1, 0)
               ELSE pc' = "idle" /\ UNCHANGED req
       ELSE pc' = "idle" /\ UNCHANGED << drives, req >>

NotThere ==
    /\ pc = "exists" /\ Zero
    /\ Return("no_device", NoData)
    /\ UNCHANGED << attached, device, late >>

SomethingThere ==
    /\ pc = "exists" /\ ~Zero
    /\ pc' = "not_busy"
    /\ UNCHANGED << attached, device, drives, req, polls, last, late >>

-----------------------------------------------------------------------------
(* ata_wait_not_busy and ata_wait_drq: one poll per step.                  *)
PollsLeft == polls < ATA_PIO_TIMEOUT

WaitFails(loop) ==
    /\ pc = loop
    /\ \/ PollsLeft /\ Err /\ Return("device", NoData) /\ UNCHANGED late
       \/ ~PollsLeft /\ Return("timeout", NoData) /\ late' = (late \/ Deaf)
    /\ UNCHANGED << attached, device >>

PollAgainForever(loop, ready) ==
    /\ pc = loop /\ ~Err /\ ~ready /\ PollTime
    /\ TimePasses
    /\ UNCHANGED << attached, selected, lba_reg, st, cmd, drives, pc, req, polls, last, late >>
PollAgain(loop, ready) ==
    /\ pc = loop /\ PollsLeft /\ ~Err /\ ~ready /\ PollTime
    /\ polls' = polls + 1 /\ TimePasses
    /\ UNCHANGED << attached, selected, lba_reg, st, cmd, drives, pc, req, last, late >>

NotBusy ==
    /\ pc = "not_busy" /\ PollsLeft /\ ~Err /\ ~Bsy
    /\ polls' = 0
    /\ IF req.op = "identify" /\ ForeignSignature
       THEN Return("unsupported", NoData)
       ELSE pc' = "drq" /\ UNCHANGED << drives, req, last >>
    /\ UNCHANGED << attached, device, late >>

(* 256 words of data, and a read of the status.                            *)
Transfer ==
    /\ pc = "drq" /\ PollsLeft /\ ~Err /\ Drq
    /\ st' = "idle"
    /\ Return("ok", cmd)
    /\ UNCHANGED << attached, selected, lba_reg, cmd, left, late >>

DriverStep ==
    \/ WriteSelect \/ WriteRegs \/ (\E b \in 0..MaxBusy : WriteCommand(b))
    \/ NotThere \/ SomethingThere
    \/ WaitFails("not_busy") \/ PollAgain("not_busy", ~Bsy) \/ NotBusy
    \/ WaitFails("drq") \/ PollAgain("drq", Drq) \/ Transfer

DeviceStep == \E s \in {"data", "error", "idle", "signature"} : DevComplete(s)

Next ==
    \/ AtaInit
    \/ \E d \in Drives, lba \in Lbas : ReadSector(d, lba) \/ ReadRefused(d, lba)
    \/ DriverStep
    \/ DeviceStep

(* The CPU executes the call; a device that has used up its time is ready. *)
Spec == Init /\ [][Next]_vars /\ WF_vars(DriverStep) /\ WF_vars(left = 0 /\ DeviceStep)

-----------------------------------------------------------------------------
(* Until a wait gives up on a drive that is still at work.  From then on   *)
(* the driver, which never checks that the device is ready for a command,  *)
(* may take the late answer for another command's.                         *)
(*                                                                         *)
(* A call that reports success delivers the data of its own command, never *)
(* what an earlier command left in the device, also after errors, dropped  *)
(* commands and waits that gave up on an idle drive.                       *)
DataAsRequested == ~late /\ last.rc = "ok" => last.data = last.req

(* No phantom drives: the driver takes a drive for present only if there   *)
(* is an ATA drive, and has its own size for it.                           *)
NoPhantomDrive ==
    ~late => \A d \in Drives :
                present[d] => attached[d] = "ata" /\ lba28_sectors[d] = Size[d]

(* No command reaches a drive with a sector that the drive does not have,  *)
(* also after the drives were probed again.                                *)
InRange(c) == /\ c.lba <= ATA_LBA28_MAX
              /\ Size[c.drive] # 0 => c.lba < Size[c.drive]
CommandsInRange == ~late /\ cmd.op = "read" => InRange(cmd)

(* Every call returns, whatever the device does: there is no interrupt and *)
(* no timer to end a wait.                                                 *)
CallsReturn == pc # "idle" ~> pc = "idle"
=============================================================================
