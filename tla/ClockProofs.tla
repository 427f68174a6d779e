----------------------------- MODULE ClockProofs -----------------------------
(***************************************************************************)
(* Proofs about the tick counter and the CMOS clock, for every width of    *)
(* the counter, delay, period and interrupt time: TimerInv and RtcInv are  *)
(* inductive.                                                              *)
(***************************************************************************)
EXTENDS Rtc, SequenceTheorems, TLAPS

-----------------------------------------------------------------------------
(* The inductive invariant of the counter.  Unless the call is torn, what  *)
(* was read of it is, with the half still to be read, the count of a       *)
(* moment of this call.                                                    *)
TimerTypeOK ==
    /\ lo \in 0..(HALF - 1) /\ hi \in Nat
    /\ rlo \in {-1} \cup 0..(HALF - 1) /\ rhi \in {-1} \cup Nat
    /\ target \in Nat /\ began \in Nat /\ delay \in Nat /\ torn \in BOOLEAN

CallInv ==
    /\ pc # "read" => rlo = -1 /\ rhi = -1
    /\ pc = "read" => op \in {"get", "target", "compare"}
    /\ pc \in {"sti", "halted"} => op = "compare"
    /\ began <= now

ReadInv ==
    ~torn =>
        /\ rlo # -1 /\ rhi = -1 => hi * HALF + rlo \in began..now
        /\ rlo = -1 /\ rhi # -1 => rhi = hi
        /\ HaveBoth => Value \in began..now
        /\ op = "compare" => target >= began + delay

TimerInv ==
    /\ TimerTypeOK
    /\ CallInv
    /\ ReadInv
    /\ CounterTellsTime

-----------------------------------------------------------------------------
(* The inductive invariant of rtc_get_time.  From the poll that saw the    *)
(* flag clear on, the time that passed is that of the reads and of the     *)
(* interrupts, and an update cannot begin before the last read.            *)
Spent(n) == IF n \in served THEN HANDLER ELSE 0
Stolen == Spent(0) + Spent(1)

ReadIn(k) == \A f \in 1..Len(dt) : dt[f] = Stored(f, seconds[k][f])

RtcInv ==
    /\ age \in 0..(PERIOD - 1) /\ sec \in Nat \ {0}
    /\ op = "time" => InRtc \/ pc = "idle"
    /\ InRtc =>
          /\ op = "time" /\ served \subseteq {0, 1}
          /\ mode \in Modes /\ seconds \in Rollovers /\ dt \in Seq(Nat)
    /\ pc = "uip" => dt = << >> /\ (sec = 1 \/ (sec = 2 /\ age <= Stolen))
    /\ pc = "regs" =>
          /\ Len(dt) < 6 /\ sec \in {1, 2} /\ ReadIn(sec)
          /\ age <= PERIOD - UPDATE - LEAD + Len(dt) + Stolen
    /\ pc = "status" => Len(dt) = 6 /\ \E k \in {1, 2} : k <= sec /\ ReadIn(k)
    /\ TimeOfOneSecond

-----------------------------------------------------------------------------
(* The counter.                                                            *)
LEMMA CountFacts ==
    ASSUME TimerTypeOK
    PROVE  /\ HALF \in Nat \ {0} /\ lo \in Nat /\ hi * HALF \in Nat /\ now \in Nat
           /\ now = hi * HALF + lo
           /\ rhi # -1 => rhi \in Nat /\ rhi * HALF \in Nat
           /\ rlo # -1 => rlo \in Nat
           /\ HaveBoth => Value \in Nat /\ Value = rhi * HALF + rlo
<1>1. HALF \in Nat \ {0} /\ lo \in Nat /\ hi \in Nat
    BY TimerAssumption DEF TimerTypeOK
<1>2. hi * HALF \in Nat
    BY <1>1
<1>3. rhi # -1 => rhi \in Nat /\ rhi * HALF \in Nat
    BY <1>1 DEF TimerTypeOK
<1>4. rlo # -1 => rlo \in Nat
    BY <1>1 DEF TimerTypeOK
<1> QED BY <1>1, <1>2, <1>3, <1>4 DEF now, HaveBoth, Value

(* timer_handler adds one, and the high half changes only with a wrap.     *)
LEMMA TickCounts ==
    ASSUME TimerTypeOK, Tick
    PROVE  /\ lo' \in 0..(HALF - 1) /\ hi' \in Nat /\ now' = now + 1
           /\ ~Wraps => hi' = hi
<1>1. HALF \in Nat \ {0} /\ lo \in 0..(HALF - 1) /\ hi \in Nat
    BY CountFacts DEF TimerTypeOK
<1>2. lo' = (lo + 1) % HALF /\ hi' = IF Wraps THEN hi + 1 ELSE hi
    BY DEF Tick
<1>3. CASE Wraps
  <2>1. lo = HALF - 1 /\ lo' = 0 /\ hi' = hi + 1
      BY <1>1, <1>2, <1>3 DEF Wraps
  <2>2. (hi + 1) * HALF = hi * HALF + HALF /\ hi * HALF \in Nat
      BY <1>1
  <2> QED BY <1>1, <1>3, <2>1, <2>2 DEF now
<1>4. CASE ~Wraps
  <2>1. lo + 1 \in 0..(HALF - 1) /\ hi' = hi
      BY <1>1, <1>2, <1>4 DEF Wraps
  <2>2. lo' = lo + 1
      BY <1>1, <1>2, <2>1
  <2>3. hi * HALF \in Nat
      BY <1>1
  <2> QED BY <1>1, <2>1, <2>2, <2>3 DEF now
<1> QED BY <1>3, <1>4

LEMMA TickKeeps ==
    ASSUME TimerInv, Tick
    PROVE  TimerInv'
<1>1. /\ torn' = (torn \/ (Wraps /\ ((rlo = -1) # (rhi = -1))))
      /\ pc' = IF pc = "halted" THEN "read" ELSE pc
      /\ UNCHANGED << op, rlo, rhi, target, result, began, delay >>
    BY DEF Tick, halves, ghosts
<1>2. TimerTypeOK
    BY DEF TimerInv
<1>3. lo' \in 0..(HALF - 1) /\ hi' \in Nat /\ now' = now + 1 /\ (~Wraps => hi' = hi) /\ now \in Nat
    BY <1>2, TickCounts, CountFacts
<1>4. TimerTypeOK'
    BY <1>1, <1>2, <1>3 DEF TimerTypeOK
<1>5. ~torn' => ~torn /\ (Wraps => ((rlo = -1) <=> (rhi = -1)))
    BY <1>1, Zenon
<1> HIDE DEF now, Wraps
<1>6. CallInv'
    BY <1>1, <1>2, <1>3 DEF TimerInv, CallInv, TimerTypeOK
<1>7. ReadInv'
  <2> SUFFICES ASSUME ~torn'
               PROVE  /\ rlo # -1 /\ rhi = -1 => (hi * HALF + rlo \in began..now)'
                      /\ rlo = -1 /\ rhi # -1 => rhi = hi'
                      /\ HaveBoth => (Value \in began..now)'
                      /\ op = "compare" => target >= began + delay
      BY <1>1 DEF ReadInv, HaveBoth
  <2>1. /\ rlo # -1 /\ rhi = -1 => hi * HALF + rlo \in began..now
        /\ rlo = -1 /\ rhi # -1 => rhi = hi
        /\ HaveBoth => Value \in began..now
        /\ op = "compare" => target >= began + delay
      BY <1>5 DEF TimerInv, ReadInv
  <2>2. (rlo = -1) # (rhi = -1) => hi' = hi
      BY <1>3, <1>5
  <2>3. Value' = Value
      BY <1>1 DEF Value
  <2>4. began \in Nat
      BY <1>2 DEF TimerTypeOK
  <2> QED BY <1>1, <1>3, <2>1, <2>2, <2>3, <2>4
<1>8. CounterTellsTime'
  <2>1. pc' = "idle" /\ ~torn' => pc = "idle" /\ ~torn
      BY <1>1, <1>5
  <2>2. began \in Nat /\ delay \in Nat
      BY <1>2 DEF TimerTypeOK
  <2> QED BY <1>1, <1>3, <2>1, <2>2 DEF TimerInv, CounterTellsTime
<1> QED BY <1>4, <1>6, <1>7, <1>8 DEF TimerInv

(* Steps that leave the counter: what is left to show.                     *)
LEMMA CountsSame ==
    ASSUME UNCHANGED counter
    PROVE  lo' = lo /\ hi' = hi /\ now' = now
BY DEF counter, now

(* The calls.  What the last one left is forgotten.                        *)
LEMMA CallsKeep ==
    ASSUME TimerInv, CallGetTicks \/ (\E d \in Delays : CallSleep(d))
    PROVE  TimerInv'
<1>1. /\ pc = "idle" /\ pc' = "read" /\ op' \in {"get", "target"} /\ began' = now /\ delay' \in Nat /\ torn' = FALSE
      /\ UNCHANGED << counter, rlo, rhi, target, result >>
    BY TimerAssumption DEF CallGetTicks, CallSleep, halves
<1>2. TimerTypeOK /\ rlo = -1 /\ rhi = -1 /\ now \in Nat
    BY <1>1, CountFacts DEF TimerInv, CallInv
<1>3. lo' = lo /\ hi' = hi /\ now' = now
    BY <1>1, CountsSame
<1> HIDE DEF now
<1>4. TimerTypeOK'
    BY <1>1, <1>2, <1>3 DEF TimerTypeOK
<1>5. CallInv'
    BY <1>1, <1>2, <1>3 DEF CallInv
<1>6. ReadInv'
    BY <1>1, <1>2, <1>3 DEF ReadInv, HaveBoth
<1>7. CounterTellsTime'
    BY <1>1 DEF CounterTellsTime
<1> QED BY <1>4, <1>5, <1>6, <1>7 DEF TimerInv

(* Reading the halves.  The first fixes a moment, the second completes it. *)
LEMMA ReadsKeep ==
    ASSUME TimerInv, ReadLow \/ ReadHigh
    PROVE  TimerInv'
<1>1. pc = "read" /\ UNCHANGED << counter, pc, op, target, result, began, delay, torn >>
    BY DEF ReadLow, ReadHigh, ghosts
<1>2. TimerTypeOK
    BY DEF TimerInv
<1>3. lo' = lo /\ hi' = hi /\ now' = now
    BY <1>1, CountsSame
<1>4. /\ HALF \in Nat \ {0} /\ lo \in Nat /\ hi \in Nat /\ hi * HALF \in Nat /\ now \in Nat /\ now = hi * HALF + lo
      /\ rlo # -1 => rlo \in Nat
      /\ began \in Nat /\ began <= now
    BY <1>2, CountFacts DEF TimerInv, CallInv, TimerTypeOK
<1>5. TimerTypeOK'
  <2>1. rlo' \in {-1} \cup 0..(HALF - 1) /\ rhi' \in {-1} \cup Nat
      BY <1>2 DEF ReadLow, ReadHigh, TimerTypeOK
  <2> QED BY <1>1, <1>2, <1>3, <2>1 DEF TimerTypeOK
<1> HIDE DEF now
<1>6. CallInv'
    BY <1>1, <1>3, <1>4 DEF TimerInv, CallInv
<1>7. ReadInv'
  <2> SUFFICES ASSUME ~torn
               PROVE  /\ rlo' # -1 /\ rhi' = -1 => hi * HALF + rlo' \in began..now
                      /\ rlo' = -1 /\ rhi' # -1 => rhi' = hi
                      /\ HaveBoth' => Value' \in began..now
                      /\ op = "compare" => target >= began + delay
      BY <1>1, <1>3 DEF ReadInv
  <2>1. /\ rlo # -1 /\ rhi = -1 => hi * HALF + rlo \in began..now
        /\ rlo = -1 /\ rhi # -1 => rhi = hi
        /\ op = "compare" => target >= began + delay
      BY DEF TimerInv, ReadInv
  <2>2. CASE ReadLow
    <3>1. rlo = -1 /\ rlo' = lo /\ rhi' = rhi
        BY <2>2 DEF ReadLow
    <3>2. CASE rhi = -1
        BY <1>4, <2>1, <3>1, <3>2 DEF HaveBoth
    <3>3. CASE rhi # -1
      <4>1. Value' = now
          BY <1>4, <2>1, <3>1, <3>3 DEF Value
      <4> QED BY <1>4, <2>1, <3>1, <3>3, <4>1
    <3> QED BY <3>2, <3>3
  <2>3. CASE ReadHigh
    <3>1. rhi = -1 /\ rhi' = hi /\ rlo' = rlo
        BY <2>3 DEF ReadHigh
    <3>2. CASE rlo = -1
        BY <1>4, <2>1, <3>1, <3>2 DEF HaveBoth
    <3>3. CASE rlo # -1
      <4>1. Value' = hi * HALF + rlo
          BY <3>1 DEF Value
      <4> QED BY <1>4, <2>1, <3>1, <3>3, <4>1
    <3> QED BY <3>2, <3>3
  <2> QED BY <2>2, <2>3
<1>8. CounterTellsTime'
    BY <1>1 DEF CounterTellsTime
<1> QED BY <1>5, <1>6, <1>7, <1>8 DEF TimerInv

(* What a complete value is used for.                                      *)
LEMMA UsesKeep ==
    ASSUME TimerInv, GetTicks \/ SetTarget \/ SleepMore \/ SleepEnds
    PROVE  TimerInv'
<1>1. /\ HaveBoth /\ pc = "read" /\ rlo' = -1 /\ rhi' = -1
      /\ UNCHANGED << counter, began, delay, torn >>
    BY DEF GetTicks, SetTarget, SleepMore, SleepEnds, Consume, ghosts
<1>2. TimerTypeOK
    BY DEF TimerInv
<1>3. lo' = lo /\ hi' = hi /\ now' = now
    BY <1>1, CountsSame
<1>4. Value \in Nat /\ now \in Nat /\ began \in Nat /\ delay \in Nat /\ target \in Nat /\ began <= now
    BY <1>1, <1>2, CountFacts DEF TimerInv, CallInv, TimerTypeOK
<1>5. ~torn => Value \in began..now /\ (op = "compare" => target >= began + delay)
    BY <1>1 DEF TimerInv, ReadInv
<1> HIDE DEF now, Value
<1>6. target' \in Nat /\ (~torn /\ op' = "compare" => target' >= began + delay)
    BY <1>4, <1>5 DEF GetTicks, SetTarget, SleepMore, SleepEnds
<1>7. TimerTypeOK'
    BY <1>1, <1>2, <1>3, <1>6 DEF TimerTypeOK
<1>8. CallInv'
    BY <1>1, <1>3, <1>4 DEF CallInv, GetTicks, SetTarget, SleepMore, SleepEnds
<1>9. ReadInv'
    BY <1>1, <1>6 DEF ReadInv, HaveBoth
<1>10. CounterTellsTime'
  <2>1. ASSUME GetTicks, ~torn PROVE result' \in began..now /\ op' = "got"
      BY <1>4, <1>5, <2>1 DEF GetTicks
  <2>2. ASSUME SleepEnds, ~torn PROVE now >= began + delay /\ op' = "slept"
      BY <1>4, <1>5, <2>2 DEF SleepEnds
  <2>3. ASSUME SetTarget \/ SleepMore PROVE pc' # "idle"
      BY <1>1, <2>3 DEF SetTarget, SleepMore
  <2> QED BY <1>1, <1>3, <2>1, <2>2, <2>3 DEF CounterTellsTime
<1> QED BY <1>7, <1>8, <1>9, <1>10 DEF TimerInv

(* Steps that only move the main thread, those of rtc_get_time included.   *)
LEMMA MovesKeep ==
    ASSUME TimerInv, UNCHANGED << counter, halves, target, ghosts, torn, op, result >>,
           \/ pc = "sti" /\ pc' = "halted"
           \/ pc = "halted" /\ pc' = "read"
           \/ InRtc /\ (InRtc' \/ (pc' = "idle" /\ op = "time"))
           \/ pc' = pc
    PROVE  TimerInv'
<1>1. /\ lo' = lo /\ hi' = hi /\ now' = now /\ rlo' = rlo /\ rhi' = rhi /\ target' = target
      /\ began' = began /\ delay' = delay /\ torn' = torn /\ op' = op /\ result' = result
    BY CountsSame DEF halves, ghosts
<1>2. HaveBoth' = HaveBoth /\ Value' = Value
    BY <1>1 DEF HaveBoth, Value
<1>3. TimerTypeOK /\ CallInv /\ ReadInv /\ CounterTellsTime
    BY DEF TimerInv
<1> HIDE DEF now, Value, HaveBoth
<1>4. TimerTypeOK'
    BY <1>1, <1>3 DEF TimerTypeOK
<1>5. CallInv'
    BY <1>1, <1>3 DEF CallInv, InRtc
<1>6. ReadInv'
    BY <1>1, <1>2, <1>3 DEF ReadInv
<1>7. CounterTellsTime'
    BY <1>1, <1>3 DEF CounterTellsTime, InRtc
<1> QED BY <1>4, <1>5, <1>6, <1>7 DEF TimerInv

LEMMA CallTimeKeeps ==
    ASSUME TimerInv, CallGetTime
    PROVE  TimerInv'
<1>1. /\ pc = "idle" /\ pc' = "uip" /\ op' = "time" /\ target' = 0 /\ began' = 0 /\ delay' = 0 /\ torn' = FALSE
      /\ UNCHANGED << counter, rlo, rhi >>
    BY DEF CallGetTime, halves
<1>2. TimerTypeOK /\ rlo = -1 /\ rhi = -1 /\ now \in Nat
    BY <1>1, CountFacts DEF TimerInv, CallInv
<1>3. lo' = lo /\ hi' = hi /\ now' = now
    BY <1>1, CountsSame
<1> HIDE DEF now
<1>4. TimerTypeOK'
    BY <1>1, <1>2, <1>3 DEF TimerTypeOK
<1>5. CallInv'
    BY <1>1, <1>2, <1>3 DEF CallInv
<1>6. ReadInv'
    BY <1>1, <1>2 DEF ReadInv, HaveBoth
<1>7. CounterTellsTime'
    BY <1>1 DEF CounterTellsTime
<1> QED BY <1>4, <1>5, <1>6, <1>7 DEF TimerInv

LEMMA InitTimerInv == Init => TimerInv
<1> SUFFICES ASSUME Init PROVE TimerInv
    OBVIOUS
<1>1. HALF \in Nat \ {0} /\ StartTicks \subseteq Nat
    BY TimerAssumption
<1>2. PICK t \in StartTicks : lo = t % HALF /\ hi = t \div HALF
    BY DEF Init
<1>3. lo \in 0..(HALF - 1) /\ hi \in Nat
    BY <1>1, <1>2
<1>4. TimerTypeOK
    BY <1>3 DEF Init, TimerTypeOK
<1>5. now \in Nat
    BY <1>4, CountFacts
<1> HIDE DEF now
<1> QED BY <1>4, <1>5 DEF Init, TimerInv, CallInv, ReadInv, HaveBoth, CounterTellsTime
-----------------------------------------------------------------------------
(* The CMOS clock.                                                         *)
LEMMA RtcConstants ==
    /\ PERIOD \in Nat /\ LEAD \in Nat /\ UPDATE \in Nat /\ HANDLER \in Nat
    /\ LEAD >= 6 + 2 * HANDLER /\ PERIOD > 2 * (LEAD + UPDATE)
BY RtcAssumption

LEMMA ElapseFacts ==
    ASSUME age \in 0..(PERIOD - 1), sec \in Nat \ {0}, NEW n \in {1, HANDLER}, Elapse(n)
    PROVE  /\ age' \in 0..(PERIOD - 1) /\ sec' \in Nat \ {0} /\ sec' >= sec
           /\ age + n < PERIOD => age' = age + n /\ sec' = sec
           /\ age + n >= PERIOD => age' = age + n - PERIOD /\ sec' = sec + 1
           /\ UNCHANGED << seconds, mode >>
<1>1. n \in Nat /\ n < PERIOD /\ PERIOD \in Nat
    BY RtcConstants
<1>2. /\ age' = (age + n) % PERIOD
      /\ sec' = IF age + n >= PERIOD THEN sec + 1 ELSE sec
      /\ UNCHANGED << seconds, mode >>
    BY DEF Elapse
<1>3. CASE age + n < PERIOD
    BY <1>1, <1>2, <1>3
<1>4. CASE age + n >= PERIOD
  <2>1. age + n - PERIOD \in 0..(PERIOD - 1)
      BY <1>1, <1>4
  <2>2. (age + n) % PERIOD = age + n - PERIOD
      BY <1>1, <2>1
  <2> QED BY <1>1, <1>2, <1>4, <2>1, <2>2
<1> QED BY <1>1, <1>3, <1>4

(* Decimal digits: what the clock stores comes back.                       *)
LEMMA BcdBack ==
    ASSUME NEW n \in 0..99
    PROVE  bcd2bin(Bcd(n)) = n
<1> DEFINE t == n \div 10  u == n % 10
<1>1. t \in 0..9 /\ u \in 0..9 /\ n = 10 * t + u
    OBVIOUS
<1> HIDE DEF t, u
<1>2. (t * 16 + u) \div 16 = t /\ (t * 16 + u) % 16 = u
    BY <1>1
<1> QED BY <1>1, <1>2 DEF Bcd, bcd2bin, t, u

LEMMA StoredBack ==
    ASSUME mode \in Modes, NEW t, IsSecond(t), NEW f \in 1..6
    PROVE  /\ Stored(f, t[f]) \in Nat
           /\ mode.h24 => (IF mode.binary THEN Stored(f, t[f]) ELSE bcd2bin(Stored(f, t[f]))) = t[f] % 100
<1>1. t[f] \in Nat /\ mode.binary \in BOOLEAN /\ mode.h24 \in BOOLEAN
    BY RtcAssumption DEF IsSecond
<1>2. \A k \in Nat : Bcd(k) \in Nat
  <2>1. \A k \in Nat : k \div 10 \in Nat /\ k % 10 \in Nat
      OBVIOUS
  <2> QED BY <2>1 DEF Bcd
<1>3. t[f] % 100 \in 0..99 /\ t[f] % 12 \in Nat
    BY <1>1
<1>4. Stored(f, t[f]) \in Nat
    BY <1>1, <1>2, <1>3 DEF Stored
<1>5. mode.h24 => Stored(f, t[f]) = IF mode.binary THEN t[f] % 100 ELSE Bcd(t[f] % 100)
    BY DEF Stored
<1> HIDE DEF Stored
<1> QED BY <1>3, <1>4, <1>5, BcdBack

LEMMA TwoDigits ==
    ASSUME NEW t, IsSecond(t)
    PROVE  (\A f \in 1..5 : t[f] % 100 = t[f]) /\ (t[6] % 100) + 2000 = t[6]
<1>1. \A f \in 1..5 : t[f] \in Nat /\ t[f] < 100
    BY DEF IsSecond
<1>2. \A n \in Nat : n < 100 => n % 100 = n
    OBVIOUS
<1>3. \A n \in 2000..2099 : (n % 100) + 2000 = n
    OBVIOUS
<1> QED BY <1>1, <1>2, <1>3 DEF IsSecond

LEMMA ReadInSame ==
    ASSUME UNCHANGED << seconds, mode, dt >>
    PROVE  \A k : ReadIn(k)' = ReadIn(k)
BY DEF ReadIn, Stored

LEMMA StolenFacts ==
    /\ Stolen \in Nat /\ Stolen <= 2 * HANDLER
    /\ served = {} => Stolen = 0
BY RtcConstants DEF Stolen, Spent

(* An interrupt during rtc_get_time.                                       *)
LEMMA InterruptKeeps ==
    ASSUME RtcInv, InRtc, NEW n \in {0, 1}, Interrupt(n), pc' = pc, op' = op
    PROVE  RtcInv'
<1>1. n \notin served /\ served' = served \cup {n} /\ Elapse(HANDLER) /\ dt' = dt
    BY DEF Interrupt
<1>2. /\ age \in 0..(PERIOD - 1) /\ sec \in Nat \ {0}
      /\ op = "time" /\ served \subseteq {0, 1}
      /\ mode \in Modes /\ seconds \in Rollovers /\ dt \in Seq(Nat)
    BY DEF RtcInv
<1>3. /\ age' \in 0..(PERIOD - 1) /\ sec' \in Nat \ {0} /\ sec' >= sec
      /\ age + HANDLER < PERIOD => age' = age + HANDLER /\ sec' = sec
      /\ age + HANDLER >= PERIOD => age' = age + HANDLER - PERIOD /\ sec' = sec + 1
      /\ seconds' = seconds /\ mode' = mode
    BY <1>1, <1>2, ElapseFacts
<1>4. Stolen' = Stolen + HANDLER /\ Stolen \in Nat /\ Stolen' <= 2 * HANDLER
  <2>1. HANDLER \in Nat
      BY RtcConstants
  <2>2. CASE n = 0
    <3>1. Spent(0) = 0 /\ Spent(0)' = HANDLER /\ Spent(1)' = Spent(1)
        BY <1>1, <2>2 DEF Spent
    <3>2. Spent(1) \in {0, HANDLER}
        BY DEF Spent
    <3> QED BY <2>1, <3>1, <3>2 DEF Stolen
  <2>3. CASE n = 1
    <3>1. Spent(1) = 0 /\ Spent(1)' = HANDLER /\ Spent(0)' = Spent(0)
        BY <1>1, <2>3 DEF Spent
    <3>2. Spent(0) \in {0, HANDLER}
        BY DEF Spent
    <3> QED BY <2>1, <3>1, <3>2 DEF Stolen
  <2> QED BY <2>2, <2>3
<1>5. \A k : ReadIn(k)' = ReadIn(k)
    BY <1>1, <1>3, ReadInSame
<1>6. InRtc' /\ pc # "idle" /\ Len(dt) \in Nat
    BY <1>2 DEF InRtc
<1> HIDE DEF ReadIn, Stolen
<1>7. pc = "uip" => dt' = << >> /\ (sec' = 1 \/ (sec' = 2 /\ age' <= Stolen'))
    BY <1>1, <1>2, <1>3, <1>4, RtcConstants DEF RtcInv
<1>8. pc = "regs" =>
         /\ Len(dt') < 6 /\ sec' \in {1, 2} /\ ReadIn(sec)' /\ sec' = sec
         /\ age' <= PERIOD - UPDATE - LEAD + Len(dt') + Stolen'
    BY <1>1, <1>2, <1>3, <1>4, <1>5, <1>6, RtcConstants DEF RtcInv
<1>9. pc = "status" => Len(dt') = 6 /\ \E k \in {1, 2} : k <= sec' /\ ReadIn(k)'
    BY <1>1, <1>2, <1>3, <1>5 DEF RtcInv
<1>10. TimeOfOneSecond'
    BY <1>6 DEF TimeOfOneSecond
<1> QED BY <1>1, <1>2, <1>3, <1>6, <1>7, <1>8, <1>9, <1>10 DEF RtcInv
(* The call, and the poll of the flag.                                     *)
LEMMA CallTimeStarts ==
    ASSUME RtcInv, CallGetTime
    PROVE  RtcInv'
<1>1. /\ pc' = "uip" /\ op' = "time" /\ age' \in 0..(PERIOD - 1) /\ sec' = 1
      /\ seconds' \in Rollovers /\ mode' \in Modes /\ dt' = << >> /\ served' = {}
    BY DEF CallGetTime
<1>2. InRtc' /\ << >> \in Seq(Nat)
    BY <1>1 DEF InRtc
<1>3. TimeOfOneSecond'
    BY <1>1 DEF TimeOfOneSecond
<1> QED BY <1>1, <1>2, <1>3 DEF RtcInv

LEMMA WaitKeeps ==
    ASSUME RtcInv, WaitUpdate
    PROVE  RtcInv'
<1>1. /\ pc = "uip" /\ pc' = IF Uip THEN "uip" ELSE "regs"
      /\ served' = {} /\ Elapse(1) /\ dt' = dt /\ op' = op
    BY DEF WaitUpdate
<1>2. /\ age \in 0..(PERIOD - 1) /\ sec \in Nat \ {0}
      /\ op = "time" /\ mode \in Modes /\ seconds \in Rollovers
      /\ dt = << >> /\ (sec = 1 \/ (sec = 2 /\ age <= Stolen))
    BY <1>1 DEF RtcInv, InRtc
<1>3. /\ age' \in 0..(PERIOD - 1) /\ sec' \in Nat \ {0}
      /\ age + 1 < PERIOD => age' = age + 1 /\ sec' = sec
      /\ age + 1 >= PERIOD => age' = age + 1 - PERIOD /\ sec' = sec + 1
      /\ seconds' = seconds /\ mode' = mode
    BY <1>1, <1>2, ElapseFacts
<1>4. Stolen' = 0
    BY <1>1, RtcConstants DEF Stolen, Spent
<1>5. InRtc' /\ pc' # "idle" /\ pc' # "status" /\ Len(dt') = 0 /\ dt' \in Seq(Nat)
    BY <1>1, <1>2 DEF InRtc
<1>6. TimeOfOneSecond'
    BY <1>5 DEF TimeOfOneSecond
<1>7. CASE Uip
  <2>1. sec = 1
      BY <1>2, <1>7, StolenFacts, RtcConstants DEF Uip
  <2>2. sec' = 1 \/ (sec' = 2 /\ age' <= Stolen')
      BY <1>2, <1>3, <1>4, <2>1, RtcConstants
  <2> QED BY <1>1, <1>2, <1>3, <1>5, <1>6, <1>7, <2>2 DEF RtcInv
<1>8. CASE ~Uip
  <2>1. age + 1 <= PERIOD - UPDATE - LEAD /\ age + 1 < PERIOD
      BY <1>2, <1>8, RtcConstants DEF Uip
  <2>2. sec' \in {1, 2} /\ age' <= PERIOD - UPDATE - LEAD + Len(dt') + Stolen'
      BY <1>2, <1>3, <1>4, <1>5, <2>1, RtcConstants
  <2>3. ReadIn(sec)'
      BY <1>5 DEF ReadIn
  <2> HIDE DEF ReadIn
  <2> QED BY <1>1, <1>2, <1>3, <1>5, <1>6, <1>8, <2>2, <2>3 DEF RtcInv
<1> QED BY <1>7, <1>8

(* A register: the update has not begun.                                   *)
LEMMA RegisterKeeps ==
    ASSUME RtcInv, GetRegister
    PROVE  RtcInv'
<1> DEFINE L == Len(dt)
<1>1. /\ pc = "regs" /\ (\E v \in Register(L + 1) : dt' = Append(dt, v))
      /\ pc' = IF Len(dt') = 6 THEN "status" ELSE "regs"
      /\ Elapse(1) /\ op' = op /\ served' = served
    BY DEF GetRegister
<1>2. /\ age \in 0..(PERIOD - 1) /\ sec \in {1, 2}
      /\ op = "time" /\ served \subseteq {0, 1} /\ mode \in Modes /\ seconds \in Rollovers /\ dt \in Seq(Nat)
      /\ L < 6 /\ ReadIn(sec) /\ age <= PERIOD - UPDATE - LEAD + L + Stolen /\ L \in Nat
    BY <1>1 DEF RtcInv, InRtc
<1>3. Stolen' = Stolen /\ Stolen \in Nat /\ Stolen <= 2 * HANDLER
    BY <1>1, StolenFacts DEF Stolen, Spent
<1>4. age < PERIOD - UPDATE /\ (L + 1 < 6 => age + 1 < PERIOD)
    BY <1>2, <1>3, RtcConstants
<1>5. Register(L + 1) = {Stored(L + 1, seconds[sec][L + 1])}
  <2>1. ~Updating
      BY <1>2, <1>4, RtcConstants DEF Updating
  <2> QED BY <2>1 DEF Register
<1>6. IsSecond(seconds[sec])
    BY <1>2, RtcAssumption
<1>7. PICK v : dt' = Append(dt, v) /\ v = Stored(L + 1, seconds[sec][L + 1]) /\ v \in Nat
  <2>1. L + 1 \in 1..6
      BY <1>2
  <2>2. Stored(L + 1, seconds[sec][L + 1]) \in Nat
      BY <1>2, <1>6, <2>1, StoredBack
  <2> QED BY <1>1, <1>5, <2>2
<1>8. /\ age' \in 0..(PERIOD - 1) /\ sec' \in Nat \ {0} /\ sec' >= sec
      /\ age + 1 < PERIOD => age' = age + 1 /\ sec' = sec
      /\ seconds' = seconds /\ mode' = mode
    BY <1>1, <1>2, ElapseFacts
<1>9. dt' \in Seq(Nat) /\ Len(dt') = L + 1 /\ dt'[L + 1] = v /\ \A f \in 1..L : dt'[f] = dt[f]
    BY <1>2, <1>7
<1>10. PICK k \in {1, 2} : k = sec
    BY <1>2
<1>11. ReadIn(k)'
  <2>1. \A f \in 1..L : dt[f] = Stored(f, seconds[k][f])
      BY <1>2, <1>10 DEF ReadIn
  <2>2. v = Stored(L + 1, seconds[k][L + 1])
      BY <1>7, <1>10
  <2> HIDE DEF Stored, L
  <2>3. \A f \in 1..(L + 1) : dt'[f] = Stored(f, seconds[k][f])
    <3>1. L \in Nat
        BY <1>2
    <3>2. \A f \in 1..(L + 1) : f \in 1..L \/ f = L + 1
        BY <3>1
    <3>3. \A f \in 1..L : dt'[f] = Stored(f, seconds[k][f])
        BY <1>9, <2>1
    <3>4. dt'[L + 1] = Stored(L + 1, seconds[k][L + 1])
        BY <1>9, <2>2
    <3> QED BY <3>2, <3>3, <3>4
  <2>4. \A f : Stored(f, seconds[k][f])' = Stored(f, seconds[k][f])
      BY <1>8 DEF Stored
  <2> QED BY <1>9, <2>3, <2>4 DEF ReadIn
<1>12. InRtc' /\ pc' # "idle" /\ pc' # "uip"
    BY <1>1 DEF InRtc
<1>13. TimeOfOneSecond'
    BY <1>12 DEF TimeOfOneSecond
<1> HIDE DEF ReadIn, L, Stolen
<1>14. CASE L + 1 = 6
  <2>1. pc' = "status" /\ k <= sec'
      BY <1>1, <1>2, <1>8, <1>9, <1>10, <1>14
  <2> QED BY <1>1, <1>2, <1>8, <1>9, <1>11, <1>12, <1>13, <1>14, <2>1 DEF RtcInv
<1>15. CASE L + 1 < 6
  <2>1. pc' = "regs" /\ sec' = k /\ age' = age + 1
      BY <1>1, <1>2, <1>4, <1>8, <1>9, <1>10, <1>15
  <2>2. ReadIn(sec)'
      BY <1>11, <2>1
  <2>3. age' <= PERIOD - UPDATE - LEAD + Len(dt') + Stolen'
    <3>1. /\ age \in Nat /\ L \in Nat /\ Stolen \in Nat /\ PERIOD \in Int /\ UPDATE \in Int /\ LEAD \in Int
          /\ age <= PERIOD - UPDATE - LEAD + L + Stolen
        BY <1>2, <1>3, RtcConstants
    <3>2. age' = age + 1 /\ Len(dt') = L + 1 /\ Stolen' = Stolen
        BY <1>3, <1>9, <2>1
    <3> QED BY <3>1, <3>2
  <2> QED BY <1>1, <1>2, <1>8, <1>9, <1>12, <1>13, <1>15, <2>1, <2>2, <2>3 DEF RtcInv
<1> QED BY <1>2, <1>14, <1>15

(* The conversion gives back the second that was read.                     *)
LEMMA FinishKeeps ==
    ASSUME RtcInv, Finish
    PROVE  RtcInv'
<1> DEFINE plain == IF mode.binary THEN dt ELSE [f \in 1..6 |-> bcd2bin(dt[f])]
<1>1. /\ pc = "status" /\ pc' = "idle" /\ dt' = [plain EXCEPT ![6] = @ + 2000] /\ Elapse(1) /\ op' = op
    BY DEF Finish
<1>2. /\ age \in 0..(PERIOD - 1) /\ sec \in Nat \ {0}
      /\ op = "time" /\ mode \in Modes /\ seconds \in Rollovers /\ dt \in Seq(Nat) /\ Len(dt) = 6
    BY <1>1 DEF RtcInv, InRtc
<1>3. PICK k \in {1, 2} : k <= sec /\ ReadIn(k)
    BY <1>1 DEF RtcInv
<1>4. /\ age' \in 0..(PERIOD - 1) /\ sec' \in Nat \ {0} /\ sec' >= sec /\ seconds' = seconds /\ mode' = mode
    BY <1>1, <1>2, ElapseFacts
<1> DEFINE t == seconds[k]
<1>5. IsSecond(t)
    BY <1>2, RtcAssumption
<1>6. ASSUME mode.h24 PROVE dt' = t
  <2>1. \A f \in 1..6 : dt[f] = Stored(f, t[f])
      BY <1>2, <1>3 DEF ReadIn
  <2>2. DOMAIN plain = 1..6 /\ plain = [f \in 1..6 |-> plain[f]]
    <3>1. DOMAIN dt = 1..6 /\ dt = [f \in 1..6 |-> dt[f]]
        BY <1>2
    <3>2. CASE mode.binary
        BY <3>1, <3>2
    <3>3. CASE ~mode.binary
        BY <3>3
    <3> QED BY <3>2, <3>3
  <2>3. \A f \in 1..6 : plain[f] = IF mode.binary THEN dt[f] ELSE bcd2bin(dt[f])
      BY <1>2
  <2> HIDE DEF plain, t
  <2>4. \A f \in 1..6 : plain[f] = t[f] % 100
      BY <1>2, <1>5, <1>6, <2>1, <2>3, StoredBack
  <2>5. \A f \in 1..6 : dt'[f] = t[f]
    <3>1. \A f \in 1..5 : dt'[f] = plain[f]
        BY <1>1, <2>2
    <3>2. dt'[6] = plain[6] + 2000
        BY <1>1, <2>2
    <3>3. \A f \in 1..6 : f \in 1..5 \/ f = 6
        OBVIOUS
    <3> QED BY <1>5, <2>4, <3>1, <3>2, <3>3, TwoDigits
  <2>6. dt' = [f \in 1..6 |-> dt'[f]]
    <3>1. \A f \in 1..6 : t[f] % 100 \in Nat
        BY <1>5 DEF IsSecond
    <3>2. plain \in [1..6 -> Nat]
        BY <2>2, <2>4, <3>1
    <3>3. dt' \in [1..6 -> Nat]
        BY <1>1, <3>2
    <3> QED BY <3>3
  <2>7. t = [f \in 1..6 |-> t[f]]
      BY <1>5 DEF IsSecond
  <2> QED BY <2>5, <2>6, <2>7
<1>7. TimeOfOneSecond'
  <2>1. k \in 1..sec'
      BY <1>2, <1>3, <1>4
  <2> QED BY <1>4, <1>6, <2>1 DEF TimeOfOneSecond
<1> QED BY <1>1, <1>4, <1>7 DEF RtcInv, InRtc

-----------------------------------------------------------------------------
(* The steps of the tick counter leave the CMOS clock.                     *)
LEMMA OutsideKeeps ==
    ASSUME RtcInv, ~InRtc, ~InRtc', UNCHANGED rtcVars, op' = "time" => op = "time" /\ pc' = pc
    PROVE  RtcInv'
<1>1. UNCHANGED << age, sec, seconds, mode, dt, served >>
    BY DEF rtcVars, clock
<1>2. op' = "time" => pc' = "idle" /\ pc = "idle"
    BY DEF RtcInv
<1>3. TimeOfOneSecond'
    BY <1>1, <1>2 DEF RtcInv, TimeOfOneSecond
<1> QED BY <1>1, <1>2, <1>3 DEF RtcInv, InRtc

LEMMA TimerStepKeeps ==
    ASSUME TimerInv, RtcInv, TimerStep
    PROVE  RtcInv'
<1>1. ~InRtc /\ MainStep /\ (IF pc = "idle" THEN Forget ELSE UNCHANGED rtcVars)
    BY DEF TimerStep
<1>2. CallInv
    BY DEF TimerInv
<1>3. CASE pc = "idle"
  <2>1. pc' = "read" /\ op' \in {"get", "target"}
      BY <1>1, <1>3 DEF MainStep, CallGetTicks, CallSleep, ReadLow, ReadHigh, GetTicks, SetTarget, SleepMore,
                        Halt, SleepEnds, Consume
  <2>2. age' = 0 /\ sec' = 1 /\ PERIOD \in Nat /\ PERIOD > 0
      BY <1>1, <1>3, RtcConstants DEF Forget
  <2>3. TimeOfOneSecond'
      BY <2>1 DEF TimeOfOneSecond
  <2> QED BY <2>1, <2>2, <2>3 DEF RtcInv, InRtc
<1>4. CASE pc # "idle"
  <2>1. ~InRtc' /\ op' # "time"
      BY <1>1, <1>2, <1>4 DEF MainStep, CallGetTicks, CallSleep, ReadLow, ReadHigh, GetTicks, SetTarget, SleepMore,
                        Halt, SleepEnds, Consume, CallInv, InRtc
  <2> QED BY <1>1, <1>4, <2>1, OutsideKeeps
<1> QED BY <1>3, <1>4

(* Both invariants together are inductive.                                 *)
ClockInv == TimerInv /\ RtcInv

LEMMA InitClockInv == ClockInit => ClockInv
<1> SUFFICES ASSUME ClockInit PROVE ClockInv
    OBVIOUS
<1>1. TimerInv
    BY InitTimerInv DEF ClockInit
<1>2. pc = "idle" /\ op = "none" /\ age = 0 /\ sec = 1
    BY DEF ClockInit, Init
<1>3. RtcInv
    BY <1>2, RtcConstants DEF RtcInv, InRtc, TimeOfOneSecond
<1> QED BY <1>1, <1>3 DEF ClockInv

LEMMA NextTimerInv ==
    ASSUME ClockInv, [ClockNext]_clockVars
    PROVE  TimerInv'
<1>1. TimerInv /\ RtcInv
    BY DEF ClockInv
<1>2. CASE ClockTick
    BY <1>1, <1>2, TickKeeps DEF ClockTick
<1>3. CASE WakeUp
    BY <1>1, <1>3, MovesKeep DEF WakeUp, OtherIrq
<1>4. CASE KeyDuringRtc \/ UNCHANGED clockVars
  <2>1. UNCHANGED vars
      BY <1>4 DEF KeyDuringRtc, clockVars
  <2> QED BY <1>1, <2>1, MovesKeep DEF vars
<1>5. CASE TimerStep
  <2>1. CASE Halt
      BY <1>1, <2>1, MovesKeep DEF Halt
  <2>2. CASE ~Halt
      BY <1>1, <1>5, <2>2, CallsKeep, ReadsKeep, UsesKeep DEF TimerStep, MainStep
  <2> QED BY <2>1, <2>2
<1>6. CASE RtcStep
  <2>1. CASE CallGetTime
      BY <1>1, <2>1, CallTimeKeeps
  <2>2. CASE WaitUpdate \/ GetRegister \/ Finish
    <3>1. /\ InRtc /\ (InRtc' \/ pc' = "idle")
          /\ UNCHANGED << counter, halves, target, ghosts, torn, op, result >>
        BY <2>2 DEF WaitUpdate, GetRegister, Finish, InRtc
    <3>2. op = "time"
        BY <1>1, <3>1 DEF RtcInv
    <3> QED BY <1>1, <3>1, <3>2, MovesKeep
  <2> QED BY <1>6, <2>1, <2>2 DEF RtcStep
<1> QED BY <1>2, <1>3, <1>4, <1>5, <1>6 DEF ClockNext

LEMMA NextRtcInv ==
    ASSUME ClockInv, [ClockNext]_clockVars
    PROVE  RtcInv'
<1>1. TimerInv /\ RtcInv /\ CallInv
    BY DEF ClockInv, TimerInv
<1>2. CASE ClockTick
  <2>1. /\ pc' = (IF pc = "halted" THEN "read" ELSE pc) /\ op' = op /\ Interrupt(0)
      BY <1>2 DEF ClockTick, Tick
  <2>2. CASE InRtc
      BY <1>1, <2>1, <2>2, InterruptKeeps DEF InRtc
  <2>3. CASE ~InRtc
      BY <1>1, <2>1, <2>3, OutsideKeeps DEF InRtc, Interrupt, CallInv
  <2> QED BY <2>2, <2>3
<1>3. CASE WakeUp
    BY <1>1, <1>3, OutsideKeeps DEF WakeUp, OtherIrq, InRtc, CallInv
<1>4. CASE KeyDuringRtc
    BY <1>1, <1>4, InterruptKeeps DEF KeyDuringRtc, vars
<1>5. CASE TimerStep
    BY <1>1, <1>5, TimerStepKeeps
<1>6. CASE RtcStep
    BY <1>1, <1>6, CallTimeStarts, WaitKeeps, RegisterKeeps, FinishKeeps DEF RtcStep
<1>7. CASE UNCHANGED clockVars
  <2>1. UNCHANGED << pc, op, age, sec, seconds, mode, dt, served >>
      BY <1>7 DEF clockVars, vars, rtcVars, clock
  <2>2. Stolen' = Stolen /\ \A k : ReadIn(k)' = ReadIn(k)
      BY <2>1, ReadInSame DEF Stolen, Spent
  <2> HIDE DEF Stolen, ReadIn
  <2> QED BY <1>1, <2>1, <2>2 DEF RtcInv, InRtc, TimeOfOneSecond
<1> QED BY <1>2, <1>3, <1>4, <1>5, <1>6, <1>7 DEF ClockNext

(* The tick counter and the CMOS clock keep both inductive invariants,     *)
(* whichever interrupts fall into the calls.                               *)
THEOREM ClockInvariant == ClockSpec => []ClockInv
<1>1. ClockInv /\ [ClockNext]_clockVars => ClockInv'
    BY NextTimerInv, NextRtcInv DEF ClockInv
<1> QED BY <1>1, InitClockInv, PTL DEF ClockSpec

(* timer_get_ticks returns a count of its call and timer_sleep does not    *)
(* return early, but for a read that a wrap of the low half tears.         *)
THEOREM TimerTellsTime == ClockSpec => []CounterTellsTime
<1>1. ClockInv => CounterTellsTime
    BY DEF ClockInv, TimerInv
<1> QED BY <1>1, ClockInvariant, PTL

(* rtc_get_time returns one second that was current during the call, for   *)
(* every timing in which LEAD covers the six reads and both interrupts.    *)
THEOREM RtcTimeOfOneSecond == ClockSpec => []TimeOfOneSecond
<1>1. ClockInv => TimeOfOneSecond
    BY DEF ClockInv, RtcInv
<1> QED BY <1>1, ClockInvariant, PTL
=============================================================================
