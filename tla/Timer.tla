-------------------------------- MODULE Timer --------------------------------
(***************************************************************************)
(* The tick counter of kernel/drivers/timer.c: a 64-bit variable that the  *)
(* IRQ0 handler increments and that the main thread, on a 32-bit CPU,      *)
(* reads as two halves with interrupts on.                                 *)
(*                                                                         *)
(* HALF stands for 2^32.  Which half is read first is the compiler's       *)
(* choice, so a read takes them in either order.                           *)
(***************************************************************************)
EXTENDS Integers

CONSTANTS
    HALF,        \* the values of half of the counter
    StartTicks,  \* the counter when the first call is made
    MaxTicks,    \* bound: the ticks counted in a behaviour
    Delays       \* the values of ms / 10 passed to timer_sleep

ASSUME TimerAssumption ==
    /\ HALF \in Nat \ {0}
    /\ StartTicks \subseteq Nat
    /\ MaxTicks \in Nat
    /\ Delays \subseteq Nat

VARIABLES
    lo, hi,          \* the counter, and how many ticks there were
    pc, op,          \* the main thread: where it is, in which call
    rlo, rhi,        \* the halves read so far, -1 before
    target,          \* timer_sleep's local
    result,          \* what timer_get_ticks returned last
    began, delay,    \* ghost: the true tick and the argument of this call
    torn,            \* ghost: the low half wrapped between the two halves
                     \* of a read of this call
    fresh            \* ghost: a main thread step was made since the last tick

counter == << lo, hi >>
halves == << rlo, rhi >>
ghosts == << began, delay >>
vars == << counter, pc, op, halves, target, result, ghosts, torn, fresh >>

now == hi * HALF + lo
HaveBoth == rlo # -1 /\ rhi # -1
Value == rhi * HALF + rlo

Init ==
    /\ \E t \in StartTicks : lo = t % HALF /\ hi = t \div HALF
    /\ pc = "idle" /\ op = "none" /\ rlo = -1 /\ rhi = -1 /\ target = 0
    /\ result = 0 /\ began = 0 /\ delay = 0 /\ torn = FALSE /\ fresh = TRUE

(* IRQ0: timer_handler, atomic for the main thread, ends a HLT.  A period  *)
(* of 10 ms lets the main thread make a step between two ticks.            *)
Wraps == lo = HALF - 1
Tick ==
    /\ now < MaxTicks /\ (fresh \/ pc = "halted")
    /\ lo' = (lo + 1) % HALF
    /\ hi' = IF Wraps THEN hi + 1 ELSE hi
    /\ torn' = (torn \/ (Wraps /\ ((rlo = -1) # (rhi = -1))))
    /\ pc' = IF pc = "halted" THEN "read" ELSE pc
    /\ fresh' = FALSE
    /\ UNCHANGED << op, halves, target, result, ghosts >>

(* Another interrupt ends the HLT of cpu_idle, too.                        *)
OtherIrq ==
    /\ pc = "halted" /\ pc' = "read"
    /\ fresh' = TRUE
    /\ UNCHANGED << counter, op, halves, target, result, ghosts, torn >>

CallGetTicks ==
    /\ pc = "idle" /\ pc' = "read" /\ op' = "get"
    /\ began' = now /\ delay' = 0 /\ torn' = FALSE
    /\ UNCHANGED << counter, halves, target, result >>

(* A call whose end the bound on ticks leaves room for.                    *)
Slack == 6
CallSleep(d) ==
    /\ pc = "idle" /\ now + d + Slack <= MaxTicks
    /\ pc' = "read" /\ op' = "target"
    /\ began' = now /\ delay' = d /\ torn' = FALSE
    /\ UNCHANGED << counter, halves, target, result >>

ReadLow ==
    /\ pc = "read" /\ rlo = -1 /\ rlo' = lo
    /\ UNCHANGED << counter, pc, op, rhi, target, result, ghosts, torn >>

ReadHigh ==
    /\ pc = "read" /\ rhi = -1 /\ rhi' = hi
    /\ UNCHANGED << counter, pc, op, rlo, target, result, ghosts, torn >>

Consume == HaveBoth /\ pc = "read" /\ rlo' = -1 /\ rhi' = -1

(* timer_get_ticks returns.                                                *)
GetTicks ==
    /\ Consume /\ op = "get"
    /\ pc' = "idle" /\ op' = "got" /\ result' = Value
    /\ UNCHANGED << counter, target, ghosts, torn >>

(* uint64_t target = ticks + ms / 10.                                      *)
SetTargetShort ==
    /\ Consume /\ op = "target"
    /\ target' = Value + delay - 1 /\ op' = "compare"
    /\ UNCHANGED << counter, pc, result, ghosts, torn >>
SetTarget ==
    /\ Consume /\ op = "target"
    /\ target' = Value + delay /\ op' = "compare"
    /\ UNCHANGED << counter, pc, result, ghosts, torn >>

(* while (ticks < target) cpu_idle().                                      *)
SleepMoreUntilEqual ==
    /\ Consume /\ op = "compare" /\ Value # target
    /\ pc' = "sti"
    /\ UNCHANGED << counter, op, target, result, ghosts, torn >>
SleepMore ==
    /\ Consume /\ op = "compare" /\ Value < target
    /\ pc' = "sti"
    /\ UNCHANGED << counter, op, target, result, ghosts, torn >>

(* sti; hlt.  Interrupts were on already: a tick may come before the HLT,  *)
(* which then waits for the next one.                                      *)
Halt ==
    /\ pc = "sti" /\ pc' = "halted"
    /\ UNCHANGED << counter, op, halves, target, result, ghosts, torn >>

SleepEnds ==
    /\ Consume /\ op = "compare" /\ Value >= target
    /\ pc' = "idle" /\ op' = "slept"
    /\ UNCHANGED << counter, target, result, ghosts, torn >>

MainStep ==
    /\ \/ CallGetTicks \/ \E d \in Delays : CallSleep(d)
       \/ ReadLow \/ ReadHigh \/ GetTicks \/ SetTarget
       \/ SleepMore \/ Halt \/ SleepEnds
    /\ fresh' = TRUE

Next == Tick \/ OtherIrq \/ MainStep

(* The timer runs on, and the main thread gets the CPU between interrupts. *)
Spec == Init /\ [][Next]_vars /\ WF_vars(Tick) /\ SF_vars(MainStep)

-----------------------------------------------------------------------------
(* The counter tells the time, also when its low half wraps during a call, *)
(* but for a wrap that falls between the two halves of one read:           *)
(* timer_get_ticks returns the count of a moment of the call, and          *)
(* timer_sleep returns no earlier than the number of ticks asked for.      *)
CounterTellsTime ==
    pc = "idle" /\ ~torn =>
        /\ op = "got" => result \in began..now
        /\ op = "slept" => now >= began + delay
=============================================================================
