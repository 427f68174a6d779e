--------------------------------- MODULE Rtc ---------------------------------
(***************************************************************************)
(* The CMOS clock of kernel/drivers/rtc.c beside the tick counter of       *)
(* Timer: rtc_get_time polls the update flag and then reads the registers  *)
(* one by one, while the clock runs and interrupts take time of their own. *)
(*                                                                         *)
(* The clock counts a second every PERIOD units of time.  For UPDATE of    *)
(* them it changes its registers, which then read as the old or the new    *)
(* second; the flag UIP is set LEAD units before and until the end.  A     *)
(* register access takes one unit, an interrupt HANDLER units.             *)
(***************************************************************************)
EXTENDS Timer, Sequences

CONSTANTS PERIOD, LEAD, UPDATE, HANDLER,
    Rollovers,   \* pairs of successive seconds, of six fields each
    Modes        \* what status register B can say

(* Seconds, minutes, hours, day and month have two digits, and the year is *)
(* of the century that rtc_get_time assumes.                               *)
IsSecond(t) ==
    /\ t \in [1..6 -> Nat]
    /\ \A f \in 1..5 : t[f] < 100
    /\ t[6] \in 2000..2099

(* The data sheet gives 244 us from the flag to the update: time for the   *)
(* six reads and an interrupt of each kind.                                *)
ASSUME RtcAssumption ==
    /\ PERIOD \in Nat /\ LEAD \in Nat /\ UPDATE \in Nat /\ HANDLER \in Nat
    /\ LEAD >= 6 + 2 * HANDLER /\ PERIOD > 2 * (LEAD + UPDATE)
    /\ \A r \in Rollovers : IsSecond(r[1]) /\ IsSecond(r[2])
    /\ Modes \subseteq [binary : BOOLEAN, h24 : BOOLEAN]

VARIABLES
    age, sec,        \* units since the last update, and which second it is
    seconds, mode,   \* the second at the call and the next; status B
    dt,              \* the fields read so far, all six when returned
    served           \* the interrupts since the flag was last polled

clock == << age, sec, seconds, mode >>
rtcVars == << clock, dt, served >>
clockVars == << vars, rtcVars >>

InRtc == pc \in {"uip", "regs", "status"}

-----------------------------------------------------------------------------
(* The clock.                                                              *)
Uip == age >= PERIOD - UPDATE - LEAD
Updating == age >= PERIOD - UPDATE

Elapse(n) ==
    /\ age' = (age + n) % PERIOD
    /\ sec' = IF age + n >= PERIOD THEN sec + 1 ELSE sec
    /\ UNCHANGED << seconds, mode >>

Bcd(n) == (n \div 10) * 16 + (n % 10)

(* How the clock stores a field: two digits, in 12-hour mode with bit 7    *)
(* for the afternoon.                                                      *)
Stored(f, n) ==
    LET digits(k) == IF mode.binary THEN k ELSE Bcd(k)
        hour12 == IF n % 12 = 0 THEN 12 ELSE n % 12
    IN  IF f = 3 /\ ~mode.h24
        THEN digits(hour12) + (IF n >= 12 THEN 128 ELSE 0)
        ELSE digits(n % 100)

(* What register f can read as now.                                        *)
Register(f) ==
    { Stored(f, seconds[k][f]) :
        k \in {sec} \cup (IF Updating THEN {sec + 1} ELSE {}) }

-----------------------------------------------------------------------------
(* rtc_get_time, called for the command time.  Its locals, and those of    *)
(* the calls of Timer before it, are gone when the next call is made.      *)
Forget ==
    /\ age' = 0 /\ sec' = 1 /\ seconds' = << >> /\ mode' = << >>
    /\ dt' = << >> /\ served' = {}

CallGetTime ==
    /\ pc = "idle" /\ pc' = "uip" /\ op' = "time"
    /\ age' \in 0..(PERIOD - 1) /\ sec' = 1
    /\ seconds' \in Rollovers /\ mode' \in Modes
    /\ dt' = << >> /\ served' = {}
    /\ target' = 0 /\ result' = 0 /\ began' = 0 /\ delay' = 0 /\ torn' = FALSE
    /\ UNCHANGED << counter, halves >>

(* while (get_update_in_progress_flag());                                  *)
WaitUpdateNot ==
    /\ pc = "uip" /\ pc' = "regs"
    /\ served' = {} /\ Elapse(1)
    /\ UNCHANGED << counter, op, halves, target, result, ghosts, torn, dt >>
WaitUpdate ==
    /\ pc = "uip" /\ pc' = IF Uip THEN "uip" ELSE "regs"
    /\ served' = {} /\ Elapse(1)
    /\ UNCHANGED << counter, op, halves, target, result, ghosts, torn, dt >>

GetRegister ==
    /\ pc = "regs"
    /\ \E v \in Register(Len(dt) + 1) : dt' = Append(dt, v)
    /\ pc' = IF Len(dt') = 6 THEN "status" ELSE "regs"
    /\ Elapse(1)
    /\ UNCHANGED << counter, op, halves, target, result, ghosts, torn, served >>

bcd2bin(b) == (b \div 16) * 10 + (b % 16)

(* Status B decides on the conversion; the century is assumed.             *)
Finish ==
    LET plain == IF mode.binary THEN dt ELSE [f \in 1..6 |-> bcd2bin(dt[f])]
    IN  /\ pc = "status" /\ pc' = "idle"
        /\ dt' = [plain EXCEPT ![6] = @ + 2000]
        /\ Elapse(1)
        /\ UNCHANGED << counter, op, halves, target, result, ghosts, torn, served >>

RtcStep == (CallGetTime \/ WaitUpdate \/ GetRegister \/ Finish) /\ fresh' = TRUE

(* Both interrupts are rare against the time of the reads: each comes once *)
(* between a poll of the flag and the end.                                 *)
Interrupt(n) ==
    IF InRtc
    THEN n \notin served /\ served' = served \cup {n} /\ Elapse(HANDLER) /\ UNCHANGED dt
    ELSE UNCHANGED rtcVars

ClockTick == Tick /\ Interrupt(0)

KeyDuringRtc ==
    /\ InRtc /\ Interrupt(1)
    /\ UNCHANGED vars

TimerStep ==
    /\ ~InRtc /\ MainStep
    /\ IF pc = "idle" THEN Forget ELSE UNCHANGED rtcVars

ClockInit ==
    /\ Init
    /\ age = 0 /\ sec = 1 /\ seconds = << >> /\ mode = << >> /\ dt = << >>
    /\ served = {}

WakeUp == OtherIrq /\ UNCHANGED rtcVars

ClockNext == ClockTick \/ WakeUp \/ KeyDuringRtc \/ TimerStep \/ RtcStep

(* The timer runs on, and the main thread gets the CPU between interrupts. *)
ClockSpec ==
    /\ ClockInit /\ [][ClockNext]_clockVars
    /\ WF_clockVars(ClockTick) /\ SF_clockVars(TimerStep \/ RtcStep)

-----------------------------------------------------------------------------
(* rtc_get_time never mixes two seconds: the fields it returns are those   *)
(* of one second that was current during the call, in binary, whichever    *)
(* way the clock stores them (24-hour mode).                               *)
TimeOfOneSecond ==
    op = "time" /\ pc = "idle" /\ mode.h24 => \E k \in 1..sec : dt = seconds[k]

(* timer_get_ticks, timer_sleep and rtc_get_time return: although a tick   *)
(* may fall between the check of the deadline and the HLT, and although    *)
(* the flag may be set at the call.  A torn read can put the deadline of   *)
(* timer_sleep a whole HALF away.                                          *)
ClockCallsReturn == pc # "idle" ~> pc = "idle" \/ torn
=============================================================================
