--------------------------- MODULE KeyboardProofs ---------------------------
(***************************************************************************)
(* Proofs about Keyboard, for every size of the ring: the CPU never halts  *)
(* on a key, the keyboard never gets stuck, letters have the case that was *)
(* typed, and the ring implements the bounded queue.                       *)
(***************************************************************************)
EXTENDS Keyboard, SequenceTheorems, TLAPS

-----------------------------------------------------------------------------
(* The inductive invariant.  Handlers run with the flag clear and do not   *)
(* nest; a level taken is ended by its own EOI; the reader that checks     *)
(* with the flag clear, or is in the shadow of an sti, is not interrupted. *)
FlagInv ==
    /\ hpc # "none" => ~int_flag
    /\ pc \in {"check", "take", "sti", "idle"} => ~int_flag /\ hpc = "none"
    /\ pc \in {"hlt", "ret", "halted"} => int_flag /\ hpc = "none"
    /\ pc \in {"busy", "cli", "try", "try_read", "try_advance"} /\ hpc = "none"
         => int_flag

ServiceInv ==
    /\ in_service = IF hpc \in {"enter", "store", "eoi"} THEN {irq} ELSE {}
    /\ hpc = "enter" /\ irq = 1 => 1 \notin irr

(* A reader past its check finds a character, and the local variables are  *)
(* empty outside the steps that use them.                                  *)
ReaderInv ==
    /\ pc \in {"take", "try_read", "try_advance"} => ~Empty
    /\ pc = "try_advance" => c = kb_buffer[read_ptr]
    /\ pc \notin {"sti", "ret", "try_advance"} => c = NoChar
    /\ ascii # NoChar <=> hpc = "store"

(* The slots between the two pointers hold characters, never '\0'.         *)
RingInv == \A k \in 1..Used : Contents[k] \in Char

KeyboardInv ==
    /\ TypeOK
    /\ FlagInv
    /\ ServiceInv
    /\ NoLostWakeup
    /\ NoStuckKeyboard
    /\ ReaderInv
    /\ RingInv

(* What the driver has not read yet turns its shift and caps into those of *)
(* the desk: there are modes, one after the byte in the 8042 and one after *)
(* each byte behind it, in which each byte was meant as it will be read.   *)
Modes == [shift : BOOLEAN, caps : BOOLEAN]
DriverMode == [shift |-> shift_pressed, caps |-> caps_lock]
DeskMode == [shift |-> held, caps |-> locked]

After(m, b) ==
    [shift |-> IF b.kind = "shift_down" THEN TRUE
               ELSE IF b.kind = "shift_up" THEN FALSE ELSE m.shift,
     caps |-> IF b.kind = "caps" THEN ~m.caps ELSE m.caps]
Meant(m, b) ==
    \/ b.kind = "letter" /\ m.shift # m.caps
    \/ b.kind = "symbol" /\ m.shift

CaseInv ==
    /\ obf # NoByte => obf.want = Meant(DriverMode, obf)
    /\ \E m \in [0 .. Len(wire) -> Modes] :
          /\ m[0] = After(DriverMode, obf)
          /\ \A n \in 1 .. Len(wire) :
                m[n] = After(m[n - 1], wire[n]) /\ wire[n].want = Meant(m[n - 1], wire[n])
          /\ m[Len(wire)] = DeskMode

-----------------------------------------------------------------------------
N == KB_BUFFER_SIZE

-----------------------------------------------------------------------------
(* Arithmetic modulo N in the three ranges the ring uses.                  *)
LEMMA ModBelow ==
    ASSUME NEW n \in Nat, n > 0, NEW x \in 0 .. (n - 1)
    PROVE  x % n = x
OBVIOUS

LEMMA ModAbove ==
    ASSUME NEW n \in Nat, n > 0, NEW x \in n .. (2 * n - 1)
    PROVE  x % n = x - n
OBVIOUS

LEMMA ModNegative ==
    ASSUME NEW n \in Nat, n > 0, NEW x \in (1 - n) .. (-1)
    PROVE  x % n = x + n
OBVIOUS

LEMMA SizeFacts == N \in Nat /\ N >= 2 /\ Slots = 0 .. (N - 1)
BY KeyboardAssumption DEF N, Slots

(* The successor of a slot wraps at the end of the ring.                   *)
LEMMA NextSlotFacts ==
    ASSUME NEW s \in Slots
    PROVE  /\ NextSlot(s) \in Slots
           /\ s + 1 < N => NextSlot(s) = s + 1
           /\ s + 1 >= N => NextSlot(s) = 0
<1>1. s \in Nat /\ s < N /\ N \in Nat /\ N >= 2
    BY SizeFacts
<1>2. CASE s + 1 < N
  <2>1. s + 1 \in 0 .. (N - 1)
      BY <1>1, <1>2
  <2>2. NextSlot(s) = s + 1
      BY <1>1, <2>1, ModBelow DEF NextSlot, N
  <2> QED BY <1>1, <1>2, <2>1, <2>2, SizeFacts
<1>3. CASE s + 1 >= N
  <2>1. s + 1 \in N .. (2 * N - 1) /\ s + 1 = N
      BY <1>1, <1>3
  <2>2. NextSlot(s) = 0
      BY <1>1, <2>1, ModAbove DEF NextSlot, N
  <2> QED BY <1>1, <1>3, <2>2, SizeFacts
<1> QED BY <1>1, <1>2, <1>3

(* How many characters the ring holds, by the order of the pointers.       *)
Distance(w, r) == (w - r) % N

LEMMA DistanceFacts ==
    ASSUME NEW w \in Slots, NEW r \in Slots
    PROVE  /\ Distance(w, r) \in 0 .. (N - 1)
           /\ w >= r => Distance(w, r) = w - r
           /\ w < r => Distance(w, r) = w - r + N
<1>1. /\ w \in Nat /\ w < N /\ r \in Nat /\ r < N /\ N \in Nat /\ N >= 2
    BY SizeFacts
<1>2. CASE w >= r
  <2>1. w - r \in 0 .. (N - 1)
      BY <1>1, <1>2
  <2>2. Distance(w, r) = w - r
      BY <1>1, <2>1, ModBelow DEF Distance
  <2> QED BY <1>1, <1>2, <2>1, <2>2
<1>3. CASE w < r
  <2>1. w - r \in (1 - N) .. (-1)
      BY <1>1, <1>3
  <2>2. Distance(w, r) = w - r + N
      BY <1>1, <2>1, ModNegative DEF Distance
  <2> QED BY <1>1, <1>3, <2>2
<1> QED BY <1>1, <1>2, <1>3

(* The slot of the k-th character.                                         *)
SlotOf(r, k) == (r + k - 1) % N

LEMMA SlotFacts ==
    ASSUME NEW r \in Slots, NEW k \in 1 .. N
    PROVE  /\ SlotOf(r, k) \in Slots
           /\ r + k - 1 < N => SlotOf(r, k) = r + k - 1
           /\ r + k - 1 >= N => SlotOf(r, k) = r + k - 1 - N
<1>1. r \in Nat /\ r < N /\ k \in Nat /\ 1 <= k /\ k <= N /\ N \in Nat /\ N >= 2
    BY SizeFacts
<1>2. CASE r + k - 1 < N
  <2>1. r + k - 1 \in 0 .. (N - 1)
      BY <1>1, <1>2
  <2>2. SlotOf(r, k) = r + k - 1
      BY <1>1, <2>1, ModBelow DEF SlotOf
  <2> QED BY <1>1, <1>2, <2>1, <2>2, SizeFacts
<1>3. CASE r + k - 1 >= N
  <2>1. r + k - 1 \in N .. (2 * N - 1)
      BY <1>1, <1>3
  <2>2. SlotOf(r, k) = r + k - 1 - N
      BY <1>1, <2>1, ModAbove DEF SlotOf
  <2>3. r + k - 1 - N \in 0 .. (N - 1)
      BY <1>1, <1>3
  <2> QED BY <1>1, <1>3, <2>2, <2>3, SizeFacts
<1> QED BY <1>1, <1>2, <1>3

(* A write makes the ring one longer, unless the write pointer would meet  *)
(* the read pointer; a read makes it one shorter and shifts the slots.     *)
LEMMA PointerFacts ==
    ASSUME NEW w \in Slots, NEW r \in Slots
    PROVE  /\ Distance(w, r) = 0 <=> w = r
           /\ NextSlot(w) = r <=> Distance(w, r) = N - 1
           /\ NextSlot(w) # r => Distance(NextSlot(w), r) = Distance(w, r) + 1
           /\ w # r => Distance(w, NextSlot(r)) = Distance(w, r) - 1
<1>1. /\ w \in Nat /\ w < N /\ r \in Nat /\ r < N /\ N \in Nat /\ N >= 2
    BY SizeFacts
<1>2. /\ NextSlot(w) \in Slots /\ NextSlot(r) \in Slots
      /\ NextSlot(w) \in Nat /\ NextSlot(r) \in Nat
      /\ w + 1 < N => NextSlot(w) = w + 1
      /\ w + 1 >= N => NextSlot(w) = 0
      /\ r + 1 < N => NextSlot(r) = r + 1
      /\ r + 1 >= N => NextSlot(r) = 0
    BY NextSlotFacts, SizeFacts
<1>3. /\ Distance(w, r) \in 0 .. (N - 1)
      /\ w >= r => Distance(w, r) = w - r
      /\ w < r => Distance(w, r) = w - r + N
    BY DistanceFacts
<1>4. /\ NextSlot(w) >= r => Distance(NextSlot(w), r) = NextSlot(w) - r
      /\ NextSlot(w) < r => Distance(NextSlot(w), r) = NextSlot(w) - r + N
    BY <1>2, DistanceFacts
<1>5. /\ w >= NextSlot(r) => Distance(w, NextSlot(r)) = w - NextSlot(r)
      /\ w < NextSlot(r) => Distance(w, NextSlot(r)) = w - NextSlot(r) + N
    BY <1>2, DistanceFacts
<1>6. Distance(w, r) = 0 <=> w = r
    BY <1>1, <1>3
<1>7. NextSlot(w) = r <=> Distance(w, r) = N - 1
    BY <1>1, <1>2, <1>3
<1>8. NextSlot(w) # r => Distance(NextSlot(w), r) = Distance(w, r) + 1
    BY <1>1, <1>2, <1>3, <1>4
<1>9. w # r => Distance(w, NextSlot(r)) = Distance(w, r) - 1
    BY <1>1, <1>2, <1>3, <1>5
<1> QED BY <1>6, <1>7, <1>8, <1>9

LEMMA SlotShift ==
    ASSUME NEW w \in Slots, NEW r \in Slots
    PROVE  /\ SlotOf(r, 1) = r
           /\ SlotOf(r, Distance(w, r) + 1) = w
           /\ \A k \in 1 .. Distance(w, r) : SlotOf(r, k) # w
           /\ \A k \in 1 .. (N - 1) : SlotOf(NextSlot(r), k) = SlotOf(r, k + 1)
<1>1. /\ w \in Nat /\ w < N /\ r \in Nat /\ r < N /\ N \in Nat /\ N >= 2
    BY SizeFacts
<1>2. /\ NextSlot(r) \in Slots /\ NextSlot(r) \in Nat
      /\ r + 1 < N => NextSlot(r) = r + 1
      /\ r + 1 >= N => NextSlot(r) = 0
    BY NextSlotFacts, SizeFacts
<1>3. /\ Distance(w, r) \in 0 .. (N - 1)
      /\ w >= r => Distance(w, r) = w - r
      /\ w < r => Distance(w, r) = w - r + N
    BY DistanceFacts
<1>4. SlotOf(r, 1) = r
  <2>1. 1 \in 1 .. N
      BY <1>1
  <2> QED BY <1>1, <2>1, SlotFacts
<1>5. SlotOf(r, Distance(w, r) + 1) = w
  <2> DEFINE d == Distance(w, r)
  <2>1. d + 1 \in 1 .. N
      BY <1>1, <1>3
  <2>2. /\ r + (d + 1) - 1 < N => SlotOf(r, d + 1) = r + (d + 1) - 1
        /\ r + (d + 1) - 1 >= N => SlotOf(r, d + 1) = r + (d + 1) - 1 - N
      BY <2>1, SlotFacts
  <2> HIDE DEF d
  <2>3. d \in Nat /\ (w >= r => d = w - r) /\ (w < r => d = w - r + N)
      BY <1>1, <1>3 DEF d
  <2>4. SlotOf(r, d + 1) = w
      BY <1>1, <2>2, <2>3
  <2> QED BY <2>4 DEF d
<1>6. ASSUME NEW k \in 1 .. Distance(w, r) PROVE SlotOf(r, k) # w
  <2>1. k \in Nat /\ 1 <= k /\ k <= Distance(w, r) /\ k \in 1 .. N
      BY <1>1, <1>3
  <2>2. /\ r + k - 1 < N => SlotOf(r, k) = r + k - 1
        /\ r + k - 1 >= N => SlotOf(r, k) = r + k - 1 - N
      BY <2>1, SlotFacts
  <2> QED BY <1>1, <1>3, <2>1, <2>2
<1>7. ASSUME NEW k \in 1 .. (N - 1) PROVE SlotOf(NextSlot(r), k) = SlotOf(r, k + 1)
  <2>1. k \in Nat /\ 1 <= k /\ k <= N - 1 /\ k \in 1 .. N /\ k + 1 \in 1 .. N
      BY <1>1
  <2>2. /\ NextSlot(r) + k - 1 < N => SlotOf(NextSlot(r), k) = NextSlot(r) + k - 1
        /\ NextSlot(r) + k - 1 >= N => SlotOf(NextSlot(r), k) = NextSlot(r) + k - 1 - N
      BY <1>2, <2>1, SlotFacts
  <2>3. /\ r + (k + 1) - 1 < N => SlotOf(r, k + 1) = r + (k + 1) - 1
        /\ r + (k + 1) - 1 >= N => SlotOf(r, k + 1) = r + (k + 1) - 1 - N
      BY <2>1, SlotFacts
  <2> QED BY <1>1, <1>2, <2>1, <2>2, <2>3
<1> QED BY <1>4, <1>5, <1>6, <1>7

-----------------------------------------------------------------------------
(* What a write and a read do to the contents of the ring.                 *)
LEMMA ContentsFacts ==
    ASSUME TypeOK
    PROVE  /\ Used \in 0 .. (N - 1)
           /\ Contents \in Seq(Char \cup {NoChar})
           /\ Len(Contents) = Used
           /\ Empty <=> Used = 0
           /\ \A k \in 1 .. Used : Contents[k] = kb_buffer[SlotOf(read_ptr, k)]
<1>1. read_ptr \in Slots /\ write_ptr \in Slots
    BY DEF TypeOK
<1>2. Used = Distance(write_ptr, read_ptr)
    BY DEF Used, Distance, N
<1>3. Used \in 0 .. (N - 1) /\ N \in Nat
    BY <1>1, <1>2, DistanceFacts, SizeFacts
<1>4. Empty <=> Used = 0
    BY <1>1, <1>2, PointerFacts DEF Empty
<1>5. Contents = [k \in 1 .. Used |-> kb_buffer[SlotOf(read_ptr, k)]]
    BY DEF Contents, SlotOf, N
<1>6. \A k \in 1 .. Used : kb_buffer[SlotOf(read_ptr, k)] \in Char \cup {NoChar}
  <2>1. \A k \in 1 .. Used : SlotOf(read_ptr, k) \in Slots
    <3>1. \A k \in 1 .. Used : k \in 1 .. N
        BY <1>3
    <3> QED BY <1>1, <3>1, SlotFacts
  <2> QED BY <2>1 DEF TypeOK
<1>7. Used \in Nat
    BY <1>3
<1> HIDE DEF Used, Contents
<1>8. Contents \in Seq(Char \cup {NoChar}) /\ Len(Contents) = Used
    BY <1>5, <1>6, <1>7
<1> QED BY <1>3, <1>4, <1>5, <1>8

LEMMA WriteContents ==
    ASSUME TypeOK, TypeOK', NextSlot(write_ptr) # read_ptr,
           kb_buffer' = [kb_buffer EXCEPT ![write_ptr] = ascii],
           write_ptr' = NextSlot(write_ptr), read_ptr' = read_ptr
    PROVE  Contents' = Append(Contents, ascii) /\ Used' = Used + 1 /\ Used < N - 1
<1>1. read_ptr \in Slots /\ write_ptr \in Slots
    BY DEF TypeOK
<1>2. Used = Distance(write_ptr, read_ptr) /\ Used' = Distance(write_ptr', read_ptr')
    BY DEF Used, Distance, N
<1>3. Used' = Used + 1 /\ Used # N - 1
    BY <1>1, <1>2, PointerFacts
<1>4. /\ Used \in 0 .. (N - 1) /\ N \in Nat
      /\ Contents \in Seq(Char \cup {NoChar}) /\ Len(Contents) = Used
      /\ \A k \in 1 .. Used : Contents[k] = kb_buffer[SlotOf(read_ptr, k)]
  <2>1. N \in Nat
      BY SizeFacts
  <2> QED BY <2>1, ContentsFacts
<1>5. Contents' = [k \in 1 .. (Used + 1) |-> kb_buffer'[SlotOf(read_ptr, k)]]
    BY <1>3 DEF Contents, SlotOf, N
<1>6. kb_buffer'[SlotOf(read_ptr, Used + 1)] = ascii
    BY <1>1, <1>2, SlotShift DEF TypeOK
<1>7. ASSUME NEW k \in 1 .. Used PROVE kb_buffer'[SlotOf(read_ptr, k)] = Contents[k]
  <2>1. SlotOf(read_ptr, k) # write_ptr
      BY <1>1, <1>2, SlotShift
  <2>2. k \in 1 .. N
      BY <1>4
  <2>3. SlotOf(read_ptr, k) \in Slots
      BY <1>1, <2>2, SlotFacts
  <2> QED BY <1>4, <2>1, <2>3 DEF TypeOK
<1> DEFINE S == Char \cup {NoChar}
           old == Contents
           new == Contents'
           n == Used
<1>8. /\ new = [k \in 1 .. (n + 1) |-> kb_buffer'[SlotOf(read_ptr, k)]]
      /\ n \in Nat /\ old \in Seq(S) /\ Len(old) = n /\ ascii \in S
      /\ kb_buffer'[SlotOf(read_ptr, n + 1)] = ascii
      /\ \A k \in 1 .. n : kb_buffer'[SlotOf(read_ptr, k)] = old[k]
    BY <1>4, <1>5, <1>6, <1>7 DEF TypeOK
<1> HIDE DEF S, old, new, n
<1>9. \A k \in 1 .. n : old[k] \in S
    BY <1>8
<1>10. \A k \in 1 .. (n + 1) : kb_buffer'[SlotOf(read_ptr, k)] \in S
  <2>1. \A k \in 1 .. (n + 1) : k = n + 1 \/ k \in 1 .. n
      BY <1>8
  <2> QED BY <1>8, <1>9, <2>1
<1>11. new \in Seq(S) /\ Len(new) = n + 1
    BY <1>8, <1>10
<1>12. /\ Append(old, ascii) \in Seq(S) /\ Len(Append(old, ascii)) = n + 1
       /\ \A k \in 1 .. n : Append(old, ascii)[k] = old[k]
       /\ Append(old, ascii)[n + 1] = ascii
    BY <1>8, AppendProperties
<1>13. \A k \in 1 .. (n + 1) : new[k] = Append(old, ascii)[k]
  <2>1. \A k \in 1 .. (n + 1) : k = n + 1 \/ k \in 1 .. n
      BY <1>8
  <2> QED BY <1>8, <1>12, <2>1
<1>14. new = Append(old, ascii)
    BY <1>11, <1>12, <1>13, SeqEqual
<1> QED BY <1>3, <1>4, <1>14 DEF new, old

LEMMA ReadContents ==
    ASSUME TypeOK, TypeOK', ~Empty, read_ptr' = NextSlot(read_ptr),
           UNCHANGED << kb_buffer, write_ptr >>
    PROVE  /\ Contents # << >>
           /\ Contents' = Tail(Contents)
           /\ Head(Contents) = kb_buffer[read_ptr]
           /\ Used' = Used - 1
<1>1. read_ptr \in Slots /\ write_ptr \in Slots
    BY DEF TypeOK
<1>2. Used = Distance(write_ptr, read_ptr) /\ Used' = Distance(write_ptr', read_ptr')
    BY DEF Used, Distance, N
<1>3. Used' = Used - 1
    BY <1>1, <1>2, PointerFacts DEF Empty
<1>4. /\ Used \in 0 .. (N - 1) /\ N \in Nat /\ Used # 0
      /\ Contents \in Seq(Char \cup {NoChar}) /\ Len(Contents) = Used
      /\ \A k \in 1 .. Used : Contents[k] = kb_buffer[SlotOf(read_ptr, k)]
  <2>1. N \in Nat
      BY SizeFacts
  <2> QED BY <2>1, ContentsFacts
<1>5. Contents' = [k \in 1 .. (Used - 1) |-> kb_buffer[SlotOf(NextSlot(read_ptr), k)]]
    BY <1>3 DEF Contents, SlotOf, N
<1>6. ASSUME NEW k \in 1 .. (Used - 1)
      PROVE  kb_buffer[SlotOf(NextSlot(read_ptr), k)] = Contents[k + 1]
  <2>1. k \in 1 .. (N - 1) /\ k + 1 \in 1 .. Used
      BY <1>4
  <2>2. SlotOf(NextSlot(read_ptr), k) = SlotOf(read_ptr, k + 1)
      BY <1>1, <2>1, SlotShift
  <2> QED BY <1>4, <2>1, <2>2
<1>7. Head(Contents) = kb_buffer[read_ptr]
  <2>1. 1 \in 1 .. Used
      BY <1>4
  <2>2. SlotOf(read_ptr, 1) = read_ptr
      BY <1>1, SlotShift
  <2> QED BY <1>4, <2>1, <2>2
<1> DEFINE S == Char \cup {NoChar}
           old == Contents
           new == Contents'
           n == Used
           e(k) == kb_buffer[SlotOf(NextSlot(read_ptr), k)]
<1>8. /\ new = [k \in 1 .. (n - 1) |-> e(k)]
      /\ n \in Nat /\ n > 0 /\ old \in Seq(S) /\ Len(old) = n
      /\ \A k \in 1 .. (n - 1) : e(k) = old[k + 1]
    BY <1>4, <1>5, <1>6
<1> HIDE DEF S, old, new, n, e
<1>9. old # << >>
    BY <1>8
<1>10. /\ Tail(old) \in Seq(S) /\ Len(Tail(old)) = n - 1
       /\ \A k \in 1 .. (n - 1) : Tail(old)[k] = old[k + 1]
    BY <1>8, <1>9, HeadTailProperties
<1>11. \A k \in 1 .. (n - 1) : e(k) \in S
  <2>1. \A k \in 1 .. (n - 1) : k + 1 \in 1 .. n
      BY <1>8
  <2> QED BY <1>8, <2>1
<1>12. new \in Seq(S) /\ Len(new) = n - 1
  <2>1. n - 1 \in Nat
      BY <1>8
  <2> QED BY <1>8, <1>11, <2>1
<1>13. new = Tail(old)
    BY <1>8, <1>10, <1>12, SeqEqual
<1> QED BY <1>3, <1>7, <1>9, <1>13 DEF new, old

-----------------------------------------------------------------------------
(* Types.                                                                  *)
LEMMA ByteFacts ==
    ASSUME NEW k \in Codes, TypeOK
    PROVE  [kind |-> k.kind, key |-> k.key, want |-> Want(k)] \in Byte
<1>1. k.kind \in Kinds /\ k.key \in Keys
    BY KeyboardAssumption DEF Keys
<1>2. Want(k) \in BOOLEAN
    BY DEF Want, TypeOK
<1> QED BY <1>1, <1>2 DEF Byte

LEMMA DeviceTypes ==
    ASSUME TypeOK, (\E k \in Codes : Type(k)) \/ Load \/ Tick
    PROVE  TypeOK'
<1>1. ASSUME NEW k \in Codes, Type(k) PROVE TypeOK'
  <2>1. wire' \in Seq(Byte)
      BY <1>1, ByteFacts DEF Type, TypeOK
  <2>2. held' \in BOOLEAN /\ locked' \in BOOLEAN
      BY <1>1 DEF Type, TypeOK
  <2>3. UNCHANGED << obf, ticked, irr, in_service, imr, int_flag, hpc, irq, ascii, pc, c,
                     kb_buffer, write_ptr, read_ptr, shift_pressed, caps_lock >>
      BY <1>1 DEF Type, pic, handler, main, ring, mode
  <2> QED BY <2>1, <2>2, <2>3 DEF TypeOK
<1>2. CASE Load
  <2>1. wire' \in Seq(Byte) /\ obf' \in Byte
      BY <1>2 DEF Load, TypeOK
  <2> QED BY <1>2, <2>1 DEF Load, TypeOK, Irqs, handler, main, ring, mode, Slots
<1>3. CASE Tick
    BY <1>3 DEF Tick, TypeOK, Irqs, desk, handler, main, ring, mode, Slots
<1> QED BY <1>1, <1>2, <1>3

LEMMA HandlerTypes ==
    ASSUME TypeOK, (\E n \in Irqs : Accept(n)) \/ HandlerStep
    PROVE  TypeOK'
<1>1. ASSUME NEW n \in Irqs, Accept(n) PROVE TypeOK'
    BY <1>1 DEF Accept, TypeOK, desk, ring, mode, Slots
<1>2. CASE TimerHandler
    BY <1>2 DEF TimerHandler, TypeOK, desk, pic, main, ring, mode, Slots
<1>3. CASE KeyboardHandler
  <2>1. obf' \in Byte \cup {NoByte} /\ shift_pressed' \in BOOLEAN /\ caps_lock' \in BOOLEAN
      BY <1>3 DEF KeyboardHandler, TypeOK
  <2>2. UseUpper(obf) \in BOOLEAN
      BY DEF UseUpper, TypeOK
  <2>3. obf.kind \in {"letter", "symbol"} => obf.key \in Keys
      BY DEF TypeOK, Byte, NoByte
  <2>4. ascii' \in Char \cup {NoChar}
      BY <1>3, <2>2, <2>3 DEF KeyboardHandler, TypeOK, Char
  <2>5. hpc' \in {"none", "enter", "store", "eoi"}
      BY <1>3 DEF KeyboardHandler
  <2> QED BY <1>3, <2>1, <2>4, <2>5
          DEF KeyboardHandler, TypeOK, desk, pic, main, ring
<1>4. CASE BufferWrite
  <2>1. NextSlot(write_ptr) \in Slots
      BY NextSlotFacts DEF TypeOK
  <2>2. kb_buffer' \in [Slots -> Char \cup {NoChar}] /\ write_ptr' \in Slots
      BY <1>4, <2>1 DEF BufferWrite, TypeOK
  <2> QED BY <1>4, <2>2 DEF BufferWrite, TypeOK, desk, pic, main, mode
<1>5. CASE SendEoi
  <2>1. /\ in_service' \subseteq Irqs /\ int_flag' \in BOOLEAN /\ irq' \in Irqs
        /\ hpc' \in {"none", "enter", "store", "eoi"}
      BY <1>5 DEF SendEoi, TypeOK, Irqs
  <2> QED BY <1>5, <2>1 DEF SendEoi, TypeOK, desk, main, ring, mode
<1> QED BY <1>1, <1>2, <1>3, <1>4, <1>5 DEF HandlerStep

LEMMA MainTypes ==
    ASSUME TypeOK, MainStep
    PROVE  TypeOK'
<1>1. NextSlot(read_ptr) \in Slots /\ kb_buffer[read_ptr] \in Char \cup {NoChar}
    BY NextSlotFacts DEF TypeOK
<1>2. CASE EnableIrqs
    BY <1>2 DEF EnableIrqs, IrqPolicy, At, Goto, TypeOK, desk, handler, ring, mode, Irqs
<1>3. CASE GetChar
    BY <1>1, <1>3 DEF GetChar, SetFlagTo, Jump, Take, At, Goto, TypeOK,
                      desk, pic, handler, ring, mode
<1>4. CASE TryGetChar
    BY <1>1, <1>4 DEF TryGetChar, TryRead, TryAdvance, Jump, At, Goto, TypeOK,
                      desk, pic, handler, ring, mode
<1>5. CASE Caller
    BY <1>5 DEF Caller, SetFlagTo, Jump, At, Goto, TypeOK,
                desk, pic, handler, ring, mode
<1> QED BY <1>2, <1>3, <1>4, <1>5 DEF MainStep

LEMMA TypeStep ==
    ASSUME TypeOK, [Next]_vars
    PROVE  TypeOK'
<1>1. CASE UNCHANGED vars
    BY <1>1 DEF vars, TypeOK, desk, pic, handler, main, ring, mode
<1>2. CASE Next
    BY <1>2, DeviceTypes, HandlerTypes, MainTypes DEF Next
<1> QED BY <1>1, <1>2

-----------------------------------------------------------------------------
(* Control: the flag, the handlers, the 8259 and the 8042.                 *)
Control == FlagInv /\ ServiceInv /\ NoStuckKeyboard

LEMMA NoByteNoByte == \A b \in Byte : b # NoByte
BY DEF Byte, NoByte, Kinds

LEMMA DeviceControl ==
    ASSUME TypeOK, Control, (\E k \in Codes : Type(k)) \/ Load \/ Tick
    PROVE  Control'
<1>1. ASSUME NEW k \in Codes, Type(k) PROVE Control'
    BY <1>1 DEF Type, Control, FlagInv, ServiceInv, NoStuckKeyboard,
                pic, handler, main
<1>2. CASE Load
  <2>1. obf' # NoByte
      BY <1>2, NoByteNoByte DEF Load, TypeOK
  <2> QED BY <1>2, <2>1 DEF Load, Control, FlagInv, ServiceInv, NoStuckKeyboard,
                            handler, main
<1>3. CASE Tick
    BY <1>3 DEF Tick, Control, FlagInv, ServiceInv, NoStuckKeyboard,
                desk, handler, main
<1> QED BY <1>1, <1>2, <1>3

LEMMA HandlerControl ==
    ASSUME TypeOK, Control, (\E n \in Irqs : Accept(n)) \/ HandlerStep
    PROVE  Control'
<1>1. ASSUME NEW n \in Irqs, Accept(n) PROVE Control'
    BY <1>1 DEF Accept, Requested, StiShadow, Control, FlagInv, ServiceInv,
                NoStuckKeyboard, TypeOK, Irqs, desk
<1>2. CASE TimerHandler
    BY <1>2 DEF TimerHandler, Control, FlagInv, ServiceInv, NoStuckKeyboard, pic, main
<1>3. CASE KeyboardHandler
    BY <1>3 DEF KeyboardHandler, Control, FlagInv, ServiceInv, NoStuckKeyboard, pic, main
<1>4. CASE BufferWrite
    BY <1>4 DEF BufferWrite, Control, FlagInv, ServiceInv, NoStuckKeyboard, pic, main
<1>5. CASE SendEoi
  <2>1. in_service' = {}
      BY <1>5 DEF SendEoi, Control, ServiceInv, TypeOK, Irqs
  <2> QED BY <1>5, <2>1 DEF SendEoi, Control, FlagInv, ServiceInv, NoStuckKeyboard, main
<1> QED BY <1>1, <1>2, <1>3, <1>4, <1>5 DEF HandlerStep

LEMMA MainControl ==
    ASSUME TypeOK, Control, MainStep
    PROVE  Control'
<1>2. CASE EnableIrqs
    BY <1>2 DEF EnableIrqs, IrqPolicy, At, Goto, handler,
                Control, FlagInv, ServiceInv, NoStuckKeyboard
<1>3. CASE GetChar
    BY <1>3 DEF GetChar, SetFlagTo, Jump, Take, At, Goto, pic, handler, TypeOK,
                Control, FlagInv, ServiceInv, NoStuckKeyboard
<1>4. CASE TryGetChar
    BY <1>4 DEF TryGetChar, TryRead, TryAdvance, Jump, At, Goto, pic, handler, TypeOK,
                Control, FlagInv, ServiceInv, NoStuckKeyboard
<1>5. CASE Caller
    BY <1>5 DEF Caller, SetFlagTo, Jump, At, Goto, pic, handler, TypeOK,
                Control, FlagInv, ServiceInv, NoStuckKeyboard
<1> QED BY <1>2, <1>3, <1>4, <1>5 DEF MainStep

LEMMA ControlStep ==
    ASSUME TypeOK, Control, [Next]_vars
    PROVE  Control'
<1>1. CASE UNCHANGED vars
    BY <1>1 DEF vars, Control, FlagInv, ServiceInv, NoStuckKeyboard, pic, handler, main
<1>2. CASE Next
    BY <1>2, DeviceControl, HandlerControl, MainControl DEF Next
<1> QED BY <1>1, <1>2

-----------------------------------------------------------------------------
(* Data: the ring, the reader and the handler's character.                 *)
Data == NoLostWakeup /\ ReaderInv /\ RingInv

LEMMA NoCharNoChar == \A ch \in Char : ch # NoChar
BY KeyboardAssumption DEF Char, NoChar

(* A step that leaves the ring alone leaves its contents alone.            *)
LEMMA RingFrame ==
    ASSUME UNCHANGED ring
    PROVE  /\ UNCHANGED << kb_buffer, write_ptr, read_ptr >>
           /\ UNCHANGED << Used, Contents >>
           /\ Empty' = Empty
           /\ RingInv => RingInv'
<1>1. UNCHANGED << kb_buffer, write_ptr, read_ptr >>
    BY DEF ring
<1>2. UNCHANGED << Used, Contents >> /\ Empty' = Empty
    BY <1>1 DEF Used, Contents, Empty
<1> QED BY <1>1, <1>2 DEF RingInv

LEMMA DeviceData ==
    ASSUME Data, (\E k \in Codes : Type(k)) \/ Load \/ Tick
    PROVE  Data' /\ UNCHANGED << Contents, ascii, pc, c >>
<1>1. UNCHANGED ring /\ UNCHANGED << hpc, ascii, pc, c >>
    BY DEF Type, Load, Tick, handler, main, ring
<1>2. NoLostWakeup' /\ ReaderInv'
    BY <1>1, RingFrame DEF Data, NoLostWakeup, ReaderInv
<1> QED BY <1>1, <1>2, RingFrame DEF Data

LEMMA AcceptData ==
    ASSUME Data, NEW n \in Irqs, Accept(n)
    PROVE  Data' /\ UNCHANGED << Contents, ascii, c >> /\ (pc' = "try_advance" <=> pc = "try_advance")
<1>1. UNCHANGED ring /\ UNCHANGED << ascii, c >>
    BY DEF Accept, ring
<1>2. NoLostWakeup'
    BY DEF Accept, NoLostWakeup
<1>3. ReaderInv'
    BY <1>1, RingFrame DEF Accept, Data, ReaderInv
<1>4. pc' = "try_advance" <=> pc = "try_advance"
    BY DEF Accept
<1> QED BY <1>1, <1>2, <1>3, <1>4, RingFrame DEF Data

LEMMA KeyboardHandlerData ==
    ASSUME TypeOK, TypeOK', Data, KeyboardHandler
    PROVE  /\ Data' /\ UNCHANGED << Contents, pc, c >>
           /\ ascii = NoChar /\ ascii' \in Char \cup {NoChar}
<1>1. UNCHANGED ring /\ UNCHANGED << pc, c >> /\ hpc = "enter"
    BY DEF KeyboardHandler, ring, main
<1>2. ascii = NoChar
    BY <1>1 DEF Data, ReaderInv
<1>3. ascii' # NoChar <=> hpc' = "store"
  <2>1. CASE obf.kind \in {"letter", "symbol"}
    <3>1. obf.key \in Keys
        BY <2>1 DEF TypeOK, Byte, NoByte
    <3>2. ascii'.key = obf.key /\ hpc' = "store"
        BY <2>1 DEF KeyboardHandler
    <3> QED BY <3>1, <3>2, KeyboardAssumption DEF NoChar
  <2>2. CASE obf.kind \notin {"letter", "symbol"}
      BY <1>2, <2>2 DEF KeyboardHandler
  <2> QED BY <2>1, <2>2
<1>4. NoLostWakeup'
    BY DEF KeyboardHandler, NoLostWakeup
<1>5. ReaderInv'
    BY <1>1, <1>3, RingFrame DEF Data, ReaderInv
<1> QED BY <1>1, <1>2, <1>4, <1>5, RingFrame DEF Data, TypeOK

LEMMA BufferWriteData ==
    ASSUME TypeOK, TypeOK', Control, Data, BufferWrite
    PROVE  /\ Data' /\ UNCHANGED << pc, c >>
           /\ ascii # NoChar /\ ascii' = NoChar
           /\ Contents' = IF Len(Contents) < N - 1 THEN Append(Contents, ascii) ELSE Contents
<1>1. /\ UNCHANGED << pc, c, read_ptr >> /\ hpc = "store" /\ hpc' = "eoi" /\ ascii' = NoChar
      /\ ascii # NoChar /\ ascii \in Char
  <2>1. UNCHANGED << pc, c, read_ptr >> /\ hpc = "store" /\ hpc' = "eoi" /\ ascii' = NoChar
      BY DEF BufferWrite, main
  <2>2. ascii # NoChar
      BY <2>1 DEF Data, ReaderInv
  <2> QED BY <2>1, <2>2 DEF TypeOK
<1>2. /\ Len(Contents) = Used /\ Used \in 0 .. (N - 1) /\ Contents \in Seq(Char \cup {NoChar})
      /\ Empty <=> Used = 0
    BY ContentsFacts
<1>3. NoLostWakeup'
    BY <1>1 DEF NoLostWakeup
<1>4. CASE NextSlot(write_ptr) # read_ptr
  <2>1. /\ kb_buffer' = [kb_buffer EXCEPT ![write_ptr] = ascii]
        /\ write_ptr' = NextSlot(write_ptr)
      BY <1>4 DEF BufferWrite
  <2>2. Contents' = Append(Contents, ascii) /\ Used' = Used + 1 /\ Used < N - 1
      BY <1>1, <1>4, <2>1, WriteContents
  <2>3. \A k \in 1 .. Used' : Contents'[k] \in Char
    <3>1. \A k \in 1 .. Used : Contents[k] \in Char
        BY DEF Data, RingInv
    <3>2. \A k \in 1 .. Used : Append(Contents, ascii)[k] = Contents[k]
        BY <1>1, <1>2, AppendProperties DEF TypeOK
    <3>3. Append(Contents, ascii)[Used + 1] = ascii
        BY <1>1, <1>2, AppendProperties DEF TypeOK
    <3>4. \A k \in 1 .. (Used + 1) : k = Used + 1 \/ k \in 1 .. Used
        BY <1>2
    <3> QED BY <1>1, <2>2, <3>1, <3>2, <3>3, <3>4
  <2>4. write_ptr' # read_ptr'
      BY <1>1, <1>4, <2>1
  <2>5. ~Empty => kb_buffer'[read_ptr'] = kb_buffer[read_ptr]
      BY <1>1, <2>1 DEF Empty, TypeOK
  <2>6. ReaderInv'
      BY <1>1, <2>4, <2>5 DEF Data, ReaderInv, Empty
  <2> QED BY <1>1, <1>2, <1>3, <2>2, <2>3, <2>6 DEF Data, RingInv
<1>5. CASE NextSlot(write_ptr) = read_ptr
  <2>1. UNCHANGED ring
      BY <1>1, <1>5 DEF BufferWrite, ring
  <2>2. Used = N - 1
    <3>1. write_ptr \in Slots /\ read_ptr \in Slots
        BY DEF TypeOK
    <3>2. Distance(write_ptr, read_ptr) = N - 1
        BY <1>5, <3>1, PointerFacts
    <3> QED BY <3>2 DEF Used, Distance, N
  <2>3. ReaderInv'
      BY <1>1, <2>1, RingFrame DEF Data, ReaderInv
  <2>4. ~(Len(Contents) < N - 1)
      BY <1>2, <2>2
  <2> QED BY <1>1, <1>3, <2>1, <2>3, <2>4, RingFrame DEF Data
<1> QED BY <1>4, <1>5

(* The other steps of a handler.                                           *)
LEMMA HandlerData ==
    ASSUME Control, Data, TimerHandler \/ SendEoi
    PROVE  Data' /\ UNCHANGED << Contents, ascii, pc, c >>
<1>1. UNCHANGED ring /\ UNCHANGED << ascii, pc, c >>
    BY DEF TimerHandler, SendEoi, ring, main
<1>2. NoLostWakeup'
    BY <1>1 DEF TimerHandler, SendEoi, Control, FlagInv, NoLostWakeup
<1>3. ReaderInv'
    BY <1>1, RingFrame DEF TimerHandler, SendEoi, Data, ReaderInv
<1> QED BY <1>1, <1>2, <1>3, RingFrame DEF Data

(* What is left of the ring after a read.                                  *)
LEMMA AfterRead ==
    ASSUME TypeOK, TypeOK', RingInv, ~Empty, read_ptr' = NextSlot(read_ptr),
           UNCHANGED << kb_buffer, write_ptr >>
    PROVE  RingInv'
<1>1. Contents # << >> /\ Contents' = Tail(Contents) /\ Used' = Used - 1
    BY ReadContents
<1>2. /\ Used \in 0 .. (N - 1) /\ Contents \in Seq(Char \cup {NoChar})
      /\ Len(Contents) = Used
    BY ContentsFacts
<1>3. \A k \in 1 .. (Used - 1) : Tail(Contents)[k] = Contents[k + 1] /\ k + 1 \in 1 .. Used
    BY <1>1, <1>2, HeadTailProperties
<1> QED BY <1>1, <1>3 DEF RingInv

(* The main thread: a step takes the head of the queue and nothing else    *)
(* changes it.                                                             *)
MainEffect ==
    \/ UNCHANGED << Contents, Out >>
    \/ Contents # << >> /\ Out = NoChar /\ Out' = Head(Contents) /\ Contents' = Tail(Contents)
    \/ UNCHANGED Contents /\ Out # NoChar /\ Out' = NoChar

LEMMA MainData ==
    ASSUME TypeOK, TypeOK', Control, Data, MainStep
    PROVE  Data' /\ UNCHANGED ascii /\ MainEffect
<1>0. UNCHANGED << hpc, ascii >> /\ hpc = "none"
    BY DEF MainStep, EnableIrqs, IrqPolicy, GetChar, SetFlagTo, Jump, Take, TryGetChar,
           TryRead, TryAdvance, Caller, At, handler
<1>1. CASE EnableIrqs
  <2>1. UNCHANGED ring /\ UNCHANGED c
      BY <1>1 DEF EnableIrqs, IrqPolicy, ring
  <2>2. /\ pc' \in {"clear_irq0", "clear_irq1", "first_sti"}
        /\ pc \in {"pic_disable", "clear_irq0", "clear_irq1"}
      BY <1>1 DEF EnableIrqs, IrqPolicy, At, Goto
  <2>3. NoLostWakeup' /\ ReaderInv'
      BY <1>0, <2>1, <2>2 DEF Data, NoLostWakeup, ReaderInv
  <2> QED BY <1>0, <2>1, <2>2, <2>3, RingFrame DEF Data, MainEffect, Out
<1>2. ASSUME NEW p, NEW q, Take(p, q), p = "take", q = "sti"
      PROVE  Data' /\ MainEffect
  <2>1. /\ pc = "take" /\ pc' = "sti" /\ c' = kb_buffer[read_ptr]
        /\ read_ptr' = NextSlot(read_ptr) /\ UNCHANGED << kb_buffer, write_ptr >>
      BY <1>2 DEF Take, At, Goto
  <2>2. ~Empty /\ c = NoChar
      BY <2>1 DEF Data, ReaderInv
  <2>3. /\ Contents # << >> /\ Contents' = Tail(Contents)
        /\ Head(Contents) = kb_buffer[read_ptr]
      BY <2>1, <2>2, ReadContents
  <2>4. RingInv'
      BY <2>1, <2>2, AfterRead DEF Data
  <2>5. NoLostWakeup' /\ ReaderInv'
      BY <1>0, <2>1 DEF Data, NoLostWakeup, ReaderInv
  <2> QED BY <2>1, <2>2, <2>3, <2>4, <2>5 DEF Data, MainEffect, Out
<1>3. CASE GetChar
  <2>1. CASE Take("take", "sti")
      BY <1>0, <1>2, <2>1
  <2>2. CASE ~Take("take", "sti")
    <3>1. /\ UNCHANGED ring /\ UNCHANGED c
          /\ \/ pc = "cli" /\ pc' = "check"
             \/ pc = "check" /\ pc' = "take" /\ ~Empty
             \/ pc = "check" /\ pc' = "idle" /\ Empty
             \/ pc = "sti" /\ pc' = "ret"
             \/ pc = "idle" /\ pc' = "hlt"
             \/ pc = "hlt" /\ pc' = "halted"
        BY <1>3, <2>2 DEF GetChar, SetFlagTo, Jump, At, Goto
    <3>2. Empty' = Empty /\ UNCHANGED << kb_buffer, read_ptr >>
        BY <3>1, RingFrame
    <3>3. NoLostWakeup'
        BY <1>0, <3>1, <3>2 DEF Data, NoLostWakeup
    <3>4. ReaderInv'
        BY <1>0, <3>1, <3>2 DEF Data, ReaderInv
    <3> QED BY <1>0, <3>1, <3>3, <3>4, RingFrame DEF Data, MainEffect, Out
  <2> QED BY <2>1, <2>2
<1>4. CASE TryGetChar
  <2>1. CASE TryAdvance
    <3>1. /\ pc = "try_advance" /\ pc' = "ret" /\ c' = c
          /\ read_ptr' = NextSlot(read_ptr) /\ UNCHANGED << kb_buffer, write_ptr >>
        BY <2>1 DEF TryAdvance, At, Goto
    <3>2. ~Empty /\ c = kb_buffer[read_ptr]
        BY <3>1 DEF Data, ReaderInv
    <3>3. /\ Contents # << >> /\ Contents' = Tail(Contents)
          /\ Head(Contents) = kb_buffer[read_ptr]
        BY <3>1, <3>2, ReadContents
    <3>4. RingInv'
        BY <3>1, <3>2, AfterRead DEF Data
    <3>5. NoLostWakeup' /\ ReaderInv'
        BY <1>0, <3>1 DEF Data, NoLostWakeup, ReaderInv
    <3> QED BY <1>0, <3>1, <3>2, <3>3, <3>4, <3>5 DEF Data, MainEffect, Out
  <2>2. CASE ~TryAdvance
    <3>1. /\ UNCHANGED ring
          /\ \/ pc = "try" /\ pc' = "busy" /\ Empty /\ c' = c
             \/ pc = "try" /\ pc' = "try_read" /\ ~Empty /\ c' = c
             \/ pc = "try_read" /\ pc' = "try_advance" /\ c' = kb_buffer[read_ptr]
        BY <1>4, <2>2 DEF TryGetChar, TryRead, Jump, At, Goto
    <3>2. Empty' = Empty /\ UNCHANGED << kb_buffer, read_ptr >>
        BY <3>1, RingFrame
    <3>3. NoLostWakeup'
        BY <1>0, <3>1, <3>2 DEF Data, NoLostWakeup
    <3>4. ReaderInv'
        BY <1>0, <3>1, <3>2 DEF Data, ReaderInv
    <3>5. Out' = Out
        BY <3>1 DEF Out, Data, ReaderInv
    <3> QED BY <1>0, <3>1, <3>3, <3>4, <3>5, RingFrame DEF Data, MainEffect
  <2> QED BY <2>1, <2>2
<1>5. CASE Caller
  <2>1. /\ UNCHANGED ring
        /\ \/ pc = "first_sti" /\ pc' = "busy" /\ c' = c
           \/ pc = "busy" /\ pc' = "cli" /\ c' = c
           \/ pc = "busy" /\ pc' = "try" /\ c' = c
           \/ pc = "ret" /\ pc' = "busy" /\ c' = NoChar
      BY <1>5 DEF Caller, SetFlagTo, Jump, At, Goto
  <2>2. NoLostWakeup' /\ ReaderInv'
      BY <1>0, <2>1 DEF Data, NoLostWakeup, ReaderInv
  <2>3. Out' = Out \/ (Out # NoChar /\ Out' = NoChar)
      BY <2>1 DEF Out
  <2> QED BY <1>0, <2>1, <2>2, <2>3, RingFrame DEF Data, MainEffect
<1> QED BY <1>0, <1>1, <1>3, <1>4, <1>5 DEF MainStep

-----------------------------------------------------------------------------
(* The invariant, and one step of the queue for each step of the driver.   *)
LEMMA InitInv == Init => KeyboardInv
<1> SUFFICES ASSUME Init PROVE KeyboardInv
    OBVIOUS
<1>1. TypeOK
    BY SizeFacts DEF Init, TypeOK, Irqs
<1>2. Control
    BY DEF Init, Control, FlagInv, ServiceInv, NoStuckKeyboard
<1>3. Used = 0
    BY <1>1, ContentsFacts DEF Init, Empty
<1>4. NoLostWakeup /\ ReaderInv
    BY DEF Init, NoLostWakeup, ReaderInv
<1>5. RingInv
    BY <1>3 DEF RingInv
<1> QED BY <1>1, <1>2, <1>4, <1>5 DEF KeyboardInv, Control

LEMMA Step ==
    ASSUME KeyboardInv, [Next]_vars
    PROVE  KeyboardInv' /\ [Queue!Next]_(Queue!vars)
<1>1. TypeOK /\ Control /\ Data
    BY DEF KeyboardInv, Control, Data
<1>2. TypeOK' /\ Control'
    BY <1>1, TypeStep, ControlStep
<1>3. Data' => KeyboardInv'
    BY <1>2 DEF KeyboardInv, Control, Data
<1>4. CASE UNCHANGED << Contents, ascii, pc, c >> /\ Data'
    BY <1>3, <1>4 DEF Queue!vars, Out
<1>5. CASE UNCHANGED vars
  <2>1. UNCHANGED ring /\ UNCHANGED << ascii, pc, c, hpc >>
      BY <1>5 DEF vars, main, handler
  <2>2. Data'
      BY <1>1, <2>1, RingFrame DEF Data, NoLostWakeup, ReaderInv
  <2> QED BY <1>4, <2>1, <2>2, RingFrame
<1>6. CASE (\E k \in Codes : Type(k)) \/ Load \/ Tick
    BY <1>1, <1>4, <1>6, DeviceData
<1>7. ASSUME NEW n \in Irqs, Accept(n) PROVE KeyboardInv' /\ [Queue!Next]_(Queue!vars)
    BY <1>1, <1>3, <1>7, AcceptData DEF Queue!vars, Out
<1>8. CASE TimerHandler \/ SendEoi
    BY <1>1, <1>4, <1>8, HandlerData
<1>9. CASE KeyboardHandler
  <2>1. /\ Data' /\ UNCHANGED << Contents, pc, c >>
        /\ ascii = NoChar /\ ascii' \in Char \cup {NoChar}
      BY <1>1, <1>2, <1>9, KeyboardHandlerData
  <2>2. CASE ascii' = NoChar
      BY <1>4, <2>1, <2>2
  <2>3. CASE ascii' \in Char
    <3>1. Queue!Offer(ascii')
        BY <2>1 DEF Queue!Offer, Out
    <3> QED BY <1>3, <2>1, <2>3, <3>1 DEF Queue!Next
  <2> QED BY <2>1, <2>2, <2>3
<1>10. CASE BufferWrite
  <2>1. /\ Data' /\ UNCHANGED << pc, c >>
        /\ ascii # NoChar /\ ascii' = NoChar
        /\ Contents' = IF Len(Contents) < N - 1 THEN Append(Contents, ascii) ELSE Contents
      BY <1>1, <1>2, <1>10, BufferWriteData
  <2>2. Queue!Store
      BY <2>1 DEF Queue!Store, Out, N
  <2> QED BY <1>3, <2>1, <2>2 DEF Queue!Next
<1>11. CASE MainStep
  <2>1. Data' /\ UNCHANGED ascii /\ MainEffect
      BY <1>1, <1>2, <1>11, MainData
  <2>2. Queue!Get \/ Queue!Taken \/ UNCHANGED Queue!vars
      BY <2>1 DEF MainEffect, Queue!Get, Queue!Taken, Queue!vars
  <2> QED BY <1>3, <2>1, <2>2 DEF Queue!Next
<1> QED BY <1>5, <1>6, <1>7, <1>8, <1>9, <1>10, <1>11 DEF Next, HandlerStep

(* The inductive invariant of the driver and the hardware around it.       *)
THEOREM KeyboardInvariant == Spec => []KeyboardInv
<1>1. ASSUME KeyboardInv, [Next]_vars PROVE KeyboardInv'
    BY <1>1, Step
<1> QED BY InitInv, <1>1, PTL DEF Spec

(* Every variable keeps its type.                                          *)
THEOREM KeyboardTypeCorrect == Spec => []TypeOK
<1>1. KeyboardInv => TypeOK
    BY DEF KeyboardInv
<1> QED BY <1>1, KeyboardInvariant, PTL

(* keyboard_get_char never halts the CPU while a key waits in the ring.    *)
THEOREM WakeupNeverLost == Spec => []NoLostWakeup
<1>1. KeyboardInv => NoLostWakeup
    BY DEF KeyboardInv
<1> QED BY <1>1, KeyboardInvariant, PTL

(* A byte in the 8042 always has its interrupt on the way.                 *)
THEOREM KeyboardNeverStuck == Spec => []NoStuckKeyboard
<1>1. KeyboardInv => NoStuckKeyboard
    BY DEF KeyboardInv
<1> QED BY <1>1, KeyboardInvariant, PTL

(* The ring with its two readers implements the bounded queue.             *)
THEOREM RingImplementsQueue == Spec => QueueSpec
<1>1. Init => Queue!Init
  <2> SUFFICES ASSUME Init PROVE Queue!Init
      OBVIOUS
  <2>1. TypeOK
      BY InitInv DEF KeyboardInv
  <2>2. Len(Contents) = 0 /\ Contents \in Seq(Char \cup {NoChar})
      BY <2>1, ContentsFacts DEF Init, Empty
  <2>3. Contents = << >>
      BY <2>2
  <2> QED BY <2>3 DEF Init, Queue!Init, Out
<1>2. ASSUME KeyboardInv, [Next]_vars PROVE [Queue!Next]_(Queue!vars)
    BY <1>2, Step
<1> QED BY <1>1, <1>2, KeyboardInvariant, PTL DEF Spec, QueueSpec, Queue!Spec
-----------------------------------------------------------------------------
(* The case of a letter.  `m' is the witness of CaseInv.                   *)
Follows(m, w) ==
    \A n \in 1 .. Len(w) : m[n] = After(m[n - 1], w[n]) /\ w[n].want = Meant(m[n - 1], w[n])

LEMMA ModeFacts ==
    /\ \A m \in Modes : \A b : After(m, b) \in Modes
    /\ \A m \in Modes : After(m, NoByte) = m
    /\ TypeOK => DriverMode \in Modes /\ DeskMode \in Modes
<1>1. \A m \in Modes : \A b : After(m, b) \in Modes
    BY DEF Modes, After
<1>2. \A m \in Modes : After(m, NoByte) = m
    BY DEF Modes, After, NoByte
<1>3. TypeOK => DriverMode \in Modes /\ DeskMode \in Modes
    BY DEF TypeOK, Modes, DriverMode, DeskMode
<1> QED BY <1>1, <1>2, <1>3

LEMMA TypeCase ==
    ASSUME TypeOK, CaseInv, NEW k \in Codes, Type(k)
    PROVE  CaseInv'
<1> DEFINE b == [kind |-> k.kind, key |-> k.key, want |-> Want(k)]  L == Len(wire)
<1>1. /\ wire' = Append(wire, b) /\ UNCHANGED << obf, shift_pressed, caps_lock >>
      /\ DeskMode' = After(DeskMode, b) /\ b.want = Meant(DeskMode, b)
    BY DEF Type, DeskMode, After, Meant, Want, mode
<1>2. DriverMode' = DriverMode
    BY <1>1 DEF DriverMode
<1>3. b \in Byte /\ wire \in Seq(Byte) /\ DeskMode \in Modes
    BY ByteFacts, ModeFacts DEF TypeOK
<1>4. PICK m \in [0 .. L -> Modes] : m[0] = After(DriverMode, obf) /\ Follows(m, wire) /\ m[L] = DeskMode
    BY DEF CaseInv, Follows
<1> HIDE DEF b, L
<1>5. /\ L \in Nat /\ Len(wire') = L + 1 /\ wire'[L + 1] = b
      /\ \A n \in 1 .. L : wire'[n] = wire[n]
    BY <1>1, <1>3 DEF L
<1> DEFINE m2 == [n \in 0 .. L + 1 |-> IF n <= L THEN m[n] ELSE After(DeskMode, b)]
<1>6. m2 \in [0 .. L + 1 -> Modes] /\ m2[0] = m[0] /\ m2[L + 1] = After(DeskMode, b)
      /\ \A n \in 0 .. L : m2[n] = m[n]
    BY <1>3, <1>4, <1>5, ModeFacts
<1> HIDE DEF m2
<1>7. ASSUME NEW n \in 1 .. Len(wire')
      PROVE  m2[n] = After(m2[n - 1], wire'[n]) /\ wire'[n].want = Meant(m2[n - 1], wire'[n])
  <2>1. CASE n <= L
    <3>1. n \in 1 .. L /\ n - 1 \in 0 .. L /\ n \in 0 .. L
        BY <1>5, <2>1
    <3>2. m[n] = After(m[n - 1], wire[n]) /\ wire[n].want = Meant(m[n - 1], wire[n])
        BY <1>4, <3>1 DEF Follows, L
    <3> QED BY <1>5, <1>6, <3>1, <3>2
  <2>2. CASE n = L + 1
    <3>1. n - 1 = L /\ L \in 0 .. L
        BY <1>5, <2>2
    <3> QED BY <1>1, <1>4, <1>5, <1>6, <2>2, <3>1
  <2> QED BY <1>5, <2>1, <2>2
<1>8. \E f \in [0 .. Len(wire') -> Modes] :
          /\ f[0] = After(DriverMode', obf')
          /\ \A n \in 1 .. Len(wire') :
                f[n] = After(f[n - 1], wire'[n]) /\ wire'[n].want = Meant(f[n - 1], wire'[n])
          /\ f[Len(wire')] = DeskMode'
    BY <1>1, <1>2, <1>4, <1>5, <1>6, <1>7
<1>9. obf' # NoByte => obf'.want = Meant(DriverMode', obf')
    BY <1>1, <1>2 DEF CaseInv
<1> QED BY <1>8, <1>9 DEF CaseInv

LEMMA LoadCase ==
    ASSUME TypeOK, CaseInv, Load
    PROVE  CaseInv'
<1> DEFINE L == Len(wire)
<1>1. /\ obf = NoByte /\ wire # << >> /\ obf' = Head(wire) /\ wire' = Tail(wire)
      /\ UNCHANGED << held, locked, shift_pressed, caps_lock >>
    BY DEF Load, mode
<1>2. DriverMode' = DriverMode /\ DeskMode' = DeskMode
    BY <1>1 DEF DriverMode, DeskMode
<1>3. wire \in Seq(Byte) /\ DriverMode \in Modes
    BY ModeFacts DEF TypeOK
<1>4. PICK m \in [0 .. L -> Modes] : m[0] = After(DriverMode, obf) /\ Follows(m, wire) /\ m[L] = DeskMode
    BY DEF CaseInv, Follows
<1>5. m[0] = DriverMode
    BY <1>1, <1>3, <1>4, ModeFacts
<1>6. /\ L \in Nat \ {0} /\ Len(wire') = L - 1 /\ obf' = wire[1]
      /\ \A n \in 1 .. L - 1 : wire'[n] = wire[n + 1]
    BY <1>1, <1>3
<1>7. m[1] = After(DriverMode, obf') /\ obf'.want = Meant(DriverMode, obf')
  <2>1. 1 \in 1 .. L /\ 1 - 1 = 0
      BY <1>6
  <2>2. m[1] = After(m[1 - 1], wire[1]) /\ wire[1].want = Meant(m[1 - 1], wire[1])
      BY <1>4, <2>1 DEF Follows
  <2> QED BY <1>5, <1>6, <2>1, <2>2
<1> DEFINE m2 == [n \in 0 .. L - 1 |-> m[n + 1]]
<1> HIDE DEF L
<1>8. m2 \in [0 .. L - 1 -> Modes] /\ \A n \in 0 .. L - 1 : m2[n] = m[n + 1]
    BY <1>4, <1>6
<1>9. m2[0] = m[1] /\ m2[L - 1] = m[L]
    BY <1>6, <1>8
<1> HIDE DEF m2
<1>10. ASSUME NEW n \in 1 .. Len(wire')
       PROVE  m2[n] = After(m2[n - 1], wire'[n]) /\ wire'[n].want = Meant(m2[n - 1], wire'[n])
  <2>1. /\ n \in 1 .. L - 1 /\ n + 1 \in 1 .. L /\ n - 1 \in 0 .. L - 1 /\ n \in 0 .. L - 1
        /\ (n + 1) - 1 = n /\ (n - 1) + 1 = n
      BY <1>6
  <2>2. m[n + 1] = After(m[(n + 1) - 1], wire[n + 1]) /\ wire[n + 1].want = Meant(m[(n + 1) - 1], wire[n + 1])
      BY <1>4, <2>1 DEF Follows, L
  <2>3. m2[n] = m[n + 1] /\ m2[n - 1] = m[n] /\ wire'[n] = wire[n + 1]
      BY <1>6, <1>8, <2>1
  <2> QED BY <2>1, <2>2, <2>3
<1>11. \E f \in [0 .. Len(wire') -> Modes] :
          /\ f[0] = After(DriverMode', obf')
          /\ \A n \in 1 .. Len(wire') :
                f[n] = After(f[n - 1], wire'[n]) /\ wire'[n].want = Meant(f[n - 1], wire'[n])
          /\ f[Len(wire')] = DeskMode'
    BY <1>2, <1>4, <1>6, <1>7, <1>8, <1>9, <1>10
<1>12. obf' # NoByte => obf'.want = Meant(DriverMode', obf')
    BY <1>2, <1>7
<1> QED BY <1>11, <1>12 DEF CaseInv

(* The handler takes the mode to that after the byte; no other step of the *)
(* CPU touches what CaseInv is about.                                      *)
LEMMA OtherCase ==
    ASSUME TypeOK, CaseInv, UNCHANGED << wire, held, locked >>,
           \/ UNCHANGED << obf, shift_pressed, caps_lock >>
           \/ KeyboardHandler
    PROVE  CaseInv'
<1>1. DeskMode' = DeskMode
    BY DEF DeskMode
<1>2. /\ After(DriverMode', obf') = After(DriverMode, obf)
      /\ obf' # NoByte => obf'.want = Meant(DriverMode', obf')
  <2>1. CASE UNCHANGED << obf, shift_pressed, caps_lock >>
    <3>1. obf' = obf /\ DriverMode' = DriverMode
        BY <2>1 DEF DriverMode
    <3> QED BY <3>1 DEF CaseInv
  <2>2. CASE KeyboardHandler
    <3>1. obf' = NoByte /\ DriverMode' = After(DriverMode, obf)
        BY <2>2 DEF KeyboardHandler, DriverMode, After
    <3>2. DriverMode' \in Modes
        BY <3>1, ModeFacts
    <3> QED BY <3>1, <3>2, ModeFacts
  <2> QED BY <2>1, <2>2
<1> HIDE DEF KeyboardHandler
<1> QED BY <1>1, <1>2 DEF CaseInv

LEMMA CaseStep ==
    ASSUME TypeOK, CaseInv, [Next]_vars
    PROVE  CaseInv'
<1>1. ASSUME NEW k \in Codes, Type(k) PROVE CaseInv'
    BY <1>1, TypeCase
<1>2. CASE Load
    BY <1>2, LoadCase
<1>3. CASE Tick \/ (\E n \in Irqs : Accept(n)) \/ HandlerStep \/ UNCHANGED vars
  <2>1. CASE KeyboardHandler
      BY <2>1, OtherCase DEF KeyboardHandler, desk
  <2>2. CASE ~KeyboardHandler
    <3>1. UNCHANGED << desk, obf, mode >>
        BY <1>3, <2>2 DEF Tick, Accept, HandlerStep, TimerHandler, BufferWrite, SendEoi, vars
    <3> QED BY <3>1, OtherCase DEF desk, mode
  <2> QED BY <2>1, <2>2
<1>4. CASE MainStep
  <2>1. UNCHANGED << desk, obf, mode >>
      BY <1>4 DEF MainStep, EnableIrqs, IrqPolicy, GetChar, TryGetChar, TryRead, TryAdvance, Caller,
                  SetFlagTo, Jump, Take
  <2> QED BY <2>1, OtherCase DEF desk, mode
<1> QED BY <1>1, <1>2, <1>3, <1>4 DEF Next

LEMMA InitCase == Init => CaseInv
<1> SUFFICES ASSUME Init PROVE CaseInv
    OBVIOUS
<1>1. obf = NoByte /\ wire = << >> /\ DriverMode = DeskMode
    BY DEF Init, DriverMode, DeskMode
<1>2. TypeOK
    BY InitInv DEF KeyboardInv
<1>3. DeskMode \in Modes /\ After(DriverMode, obf) = DeskMode
    BY <1>1, <1>2, ModeFacts
<1>4. Len(wire) = 0
    BY <1>1
<1> DEFINE m == [n \in 0 .. 0 |-> DeskMode]
<1>5. m \in [0 .. 0 -> Modes] /\ m[0] = DeskMode
    BY <1>3
<1> HIDE DEF m
<1>6. \A n \in 1 .. 0 : FALSE
    OBVIOUS
<1> QED BY <1>1, <1>3, <1>4, <1>5, <1>6 DEF CaseInv

(* keyboard_handler gives every letter the case that was in force when its *)
(* key was pressed, whatever waits between the desk and the handler.       *)
THEOREM KeyCaseAsTyped == Spec => []CaseAsTyped
<1>1. Init => TypeOK /\ CaseInv
    BY InitInv, InitCase DEF KeyboardInv
<1>2. ASSUME TypeOK, CaseInv, [Next]_vars PROVE TypeOK' /\ CaseInv'
    BY <1>2, TypeStep, CaseStep
<1>3. TypeOK /\ CaseInv => CaseAsTyped
  <2> SUFFICES ASSUME TypeOK, CaseInv, obf.kind \in {"letter", "symbol"}
               PROVE  UseUpper(obf) = obf.want
      BY DEF CaseAsTyped
  <2>1. obf # NoByte
      BY DEF NoByte
  <2>2. obf.want = Meant(DriverMode, obf)
      BY <2>1 DEF CaseInv
  <2>4. shift_pressed \in BOOLEAN /\ caps_lock \in BOOLEAN
      BY DEF TypeOK
  <2>3. Meant(DriverMode, obf) <=>
          IF obf.kind = "letter" THEN shift_pressed # caps_lock ELSE shift_pressed
      BY <2>4 DEF Meant, DriverMode
  <2>5. UseUpper(obf) <=>
          IF obf.kind = "letter" THEN shift_pressed # caps_lock ELSE shift_pressed
      BY <2>4 DEF UseUpper
  <2>6. Meant(DriverMode, obf) \in BOOLEAN /\ UseUpper(obf) \in BOOLEAN
      BY <2>4 DEF Meant, UseUpper
  <2> QED BY <2>2, <2>3, <2>5, <2>6
<1> QED BY <1>1, <1>2, <1>3, PTL DEF Spec
=============================================================================
