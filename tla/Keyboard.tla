------------------------------ MODULE Keyboard ------------------------------
(***************************************************************************)
(* A key on its way from the keyboard to the shell: the 8042 controller,   *)
(* the 8259 interrupt controller, the CPU's interrupt flag, isr_handler    *)
(* with keyboard_handler, the ring buffer and the two readers of           *)
(* kernel/drivers/keyboard.c.                                              *)
(*                                                                         *)
(* There is one CPU.  The main thread (k_main, then the shell) takes its   *)
(* steps while no handler runs; a handler runs with the interrupt flag     *)
(* clear and is not interrupted, but the devices go on.  An interrupt is   *)
(* taken some time after it becomes possible, and not directly after the   *)
(* sti instruction: the instruction behind it runs first.                  *)
(*                                                                         *)
(* A scancode is a record: its kind is what keyboard_handler tells apart,  *)
(* `key' is the table index, and `want' is a ghost, the case the typist    *)
(* asked for when pressing it.  kind "ignored" stands for releases, codes  *)
(* behind the tables and keys whose table entry is 0.                      *)
(***************************************************************************)
EXTENDS Integers, Sequences

CONSTANTS
    KB_BUFFER_SIZE,  \* slots of the ring buffer (256 in keyboard.c)
    Codes,           \* the scancodes the keyboard sends, as [kind, key]
    MaxWire          \* bound: bytes that wait inside the keyboard

Kinds == {"shift_down", "shift_up", "caps", "letter", "symbol", "ignored"}
Keys == { k.key : k \in Codes }

ASSUME KeyboardAssumption ==
    /\ KB_BUFFER_SIZE \in Nat \ {0, 1}
    /\ \A k \in Codes : k.kind \in Kinds
    /\ "none" \notin Keys
    /\ MaxWire \in Nat

Char == [key : Keys, upper : BOOLEAN]
NoChar == [key |-> "none", upper |-> FALSE]                      \* '\0'
Byte == [kind : Kinds, key : Keys, want : BOOLEAN]
NoByte == [kind |-> "none", key |-> "none", want |-> FALSE]
Slots == 0 .. (KB_BUFFER_SIZE - 1)
Irqs == {0, 1}                                         \* timer and keyboard

VARIABLES
    wire, obf,                            \* the keyboard; the 8042's output byte
    held, locked,                         \* ghost: shift and caps at the desk
    ticked,                               \* ghost: a tick has overtaken IRQ1
    irr, in_service, imr,                 \* the 8259: requests, in service, masked
    int_flag,                             \* EFLAGS.IF
    hpc, irq, ascii,                      \* the handler that runs, its locals
    pc, c,                                \* the main thread, the char it returns
    kb_buffer, write_ptr, read_ptr,       \* the ring
    shift_pressed, caps_lock

desk == << wire, held, locked >>
pic == << irr, in_service, imr >>
handler == << hpc, irq, ascii >>
main == << pc, c >>
ring == << kb_buffer, write_ptr, read_ptr >>
mode == << shift_pressed, caps_lock >>
vars == << desk, obf, ticked, pic, int_flag, handler, main, ring, mode >>

(* k_main after keyboard_init, about to set the IRQ policy.                *)
Init ==
    /\ wire = << >> /\ obf = NoByte /\ held = FALSE /\ locked = FALSE
    /\ ticked = FALSE
    /\ irr = {} /\ in_service = {} /\ imr \in SUBSET Irqs /\ int_flag = FALSE
    /\ hpc = "none" /\ irq = 0 /\ ascii = NoChar
    /\ pc = "pic_disable" /\ c = NoChar
    /\ kb_buffer = [s \in Slots |-> NoChar] /\ write_ptr = 0 /\ read_ptr = 0
    /\ shift_pressed = FALSE /\ caps_lock = FALSE

-----------------------------------------------------------------------------
(* The hardware.                                                           *)

(* Which characters the typist means.  One shift key is used at a time.    *)
Want(k) ==
    \/ k.kind = "letter" /\ held # locked
    \/ k.kind = "symbol" /\ held

Type(k) ==
    /\ Len(wire) < MaxWire
    /\ wire' = Append(wire, [kind |-> k.kind, key |-> k.key, want |-> Want(k)])
    /\ held' = IF k.kind = "shift_down" THEN TRUE
               ELSE IF k.kind = "shift_up" THEN FALSE ELSE held
    /\ locked' = IF k.kind = "caps" THEN ~locked ELSE locked
    /\ UNCHANGED << obf, ticked, pic, int_flag, handler, main, ring, mode >>

(* The 8042 takes the next byte once its output byte has been read, and    *)
(* raises IRQ1.  The request is latched also while masked or in service.   *)
Load ==
    /\ obf = NoByte /\ wire # << >>
    /\ obf' = Head(wire) /\ wire' = Tail(wire)
    /\ irr' = irr \cup {1}
    /\ UNCHANGED << held, locked, ticked, in_service, imr, int_flag, handler, main,
                    ring, mode >>

(* The timer.  Its period is long against every stretch with interrupts    *)
(* off: a request of the keyboard is overtaken by one tick at most.        *)
Tick ==
    /\ 0 \notin irr /\ ~ticked
    /\ irr' = irr \cup {0}
    /\ ticked' = (1 \in irr)
    /\ UNCHANGED << desk, obf, in_service, imr, int_flag, handler, main, ring,
                    mode >>

(* Fixed priorities, and nothing at or below the level in service.         *)
Requested(n) ==
    /\ n \in irr \ imr
    /\ \A m \in irr \ imr : n <= m
    /\ \A m \in in_service : n < m

(* The instruction after an sti.                                           *)
StiShadow == pc \in {"hlt", "ret"}

(* The CPU takes an interrupt; HLT ends, to go round the loop again.       *)
Accept(n) ==
    /\ hpc = "none" /\ int_flag /\ ~StiShadow /\ Requested(n)
    /\ irr' = irr \ {n} /\ in_service' = in_service \cup {n}
    /\ int_flag' = FALSE
    /\ hpc' = "enter" /\ irq' = n
    /\ ticked' = (ticked /\ n = 0)
    /\ pc' = IF pc = "halted" THEN "cli" ELSE pc
    /\ UNCHANGED << desk, obf, imr, ascii, c, ring, mode >>

-----------------------------------------------------------------------------
(* isr_handler, entered through isr_common_stub.                           *)
TimerHandler ==
    /\ hpc = "enter" /\ irq = 0
    /\ hpc' = "eoi"
    /\ UNCHANGED << desk, obf, ticked, pic, int_flag, irq, ascii, main, ring, mode >>

NextSlot(s) == (s + 1) % KB_BUFFER_SIZE

UseUpperNoCaps(s) == shift_pressed
UseUpper(s) == IF caps_lock /\ s.kind = "letter" THEN ~shift_pressed ELSE shift_pressed

KeyboardHandlerSkipsWhenFull ==
    /\ hpc = "enter" /\ irq = 1
    /\ IF NextSlot(write_ptr) = read_ptr \/ obf.kind \notin {"letter", "symbol"}
       THEN hpc' = "eoi" /\ UNCHANGED << obf, ascii >>
       ELSE /\ hpc' = "store" /\ obf' = NoByte
            /\ ascii' = [key |-> obf.key, upper |-> UseUpper(obf)]
    /\ UNCHANGED << desk, ticked, pic, int_flag, irq, main, ring, mode >>

(* keyboard_handler up to buffer_write.  A byte read while none is there   *)
(* (an interrupt without a key) would be stale: see NoStuckKeyboard.       *)
KeyboardHandler ==
    /\ hpc = "enter" /\ irq = 1
    /\ obf' = NoByte
    /\ shift_pressed' = IF obf.kind = "shift_down" THEN TRUE
                        ELSE IF obf.kind = "shift_up" THEN FALSE ELSE shift_pressed
    /\ caps_lock' = IF obf.kind = "caps" THEN ~caps_lock ELSE caps_lock
    /\ IF obf.kind \in {"letter", "symbol"}
       THEN hpc' = "store" /\ ascii' = [key |-> obf.key, upper |-> UseUpper(obf)]
       ELSE hpc' = "eoi" /\ UNCHANGED ascii
    /\ UNCHANGED << desk, ticked, pic, int_flag, irq, main, ring >>

BufferWriteNoCheck ==
    /\ hpc = "store"
    /\ kb_buffer' = [kb_buffer EXCEPT ![write_ptr] = ascii]
    /\ write_ptr' = NextSlot(write_ptr)
    /\ hpc' = "eoi" /\ ascii' = NoChar
    /\ UNCHANGED << desk, obf, ticked, pic, int_flag, irq, main, read_ptr, mode >>

(* buffer_write: one slot stays empty, a key that finds the ring full is   *)
(* dropped.                                                                *)
BufferWrite ==
    /\ hpc = "store"
    /\ IF NextSlot(write_ptr) # read_ptr
       THEN /\ kb_buffer' = [kb_buffer EXCEPT ![write_ptr] = ascii]
            /\ write_ptr' = NextSlot(write_ptr)
       ELSE UNCHANGED << kb_buffer, write_ptr >>
    /\ hpc' = "eoi" /\ ascii' = NoChar
    /\ UNCHANGED << desk, obf, ticked, pic, int_flag, irq, main, read_ptr, mode >>

(* pic_send_eoi: a non-specific EOI ends the highest level in service.     *)
(* The way back from there to iret touches nothing that others see; iret   *)
(* restores the flag, which was set when the interrupt was taken.          *)
SendEoiTimerOnly ==
    /\ hpc = "eoi"
    /\ in_service' = in_service \ {0}
    /\ hpc' = "none" /\ int_flag' = TRUE /\ irq' = 0
    /\ UNCHANGED << desk, obf, ticked, irr, imr, ascii, main, ring, mode >>

SendEoi ==
    /\ hpc = "eoi"
    /\ in_service' = { m \in in_service : \E l \in in_service : l < m }
    /\ hpc' = "none" /\ int_flag' = TRUE /\ irq' = 0
    /\ UNCHANGED << desk, obf, ticked, irr, imr, ascii, main, ring, mode >>

HandlerStep ==
    TimerHandler \/ KeyboardHandler \/ BufferWrite \/ SendEoi

-----------------------------------------------------------------------------
(* The main thread.                                                        *)
At(p) == hpc = "none" /\ pc = p
Goto(p) == pc' = p

(* The IRQ policy of k_main: mask everything, unmask what is used, sti.    *)
IrqPolicy(p, mask, q) ==
    /\ At(p) /\ Goto(q)
    /\ imr' = mask
    /\ UNCHANGED << desk, obf, ticked, irr, in_service, int_flag, handler, c, ring, mode >>

EnableIrqs ==
    \/ IrqPolicy("pic_disable", Irqs, "clear_irq0")
    \/ IrqPolicy("clear_irq0", imr \ {0}, "clear_irq1")
    \/ IrqPolicy("clear_irq1", imr \ {1}, "first_sti")

(* cpu_cli and cpu_sti.                                                    *)
SetFlagTo(p, flag, q) ==
    /\ At(p) /\ Goto(q)
    /\ int_flag' = flag
    /\ UNCHANGED << desk, obf, ticked, pic, handler, c, ring, mode >>

Jump(p, q) ==
    /\ At(p) /\ Goto(q)
    /\ UNCHANGED << desk, obf, ticked, pic, int_flag, handler, c, ring, mode >>

Empty == read_ptr = write_ptr

(* char c = kb_buffer[read_ptr], and read_ptr moves on.                    *)
Take(p, q) ==
    /\ At(p) /\ Goto(q)
    /\ c' = kb_buffer[read_ptr]
    /\ read_ptr' = NextSlot(read_ptr)
    /\ UNCHANGED << desk, obf, ticked, pic, int_flag, handler, kb_buffer, write_ptr, mode >>

(* keyboard_get_char: the check is made with interrupts off, and sti; hlt  *)
(* lets no interrupt in before the HLT.                                    *)
GetCharNoCli ==
    \/ Jump("cli", "check")
    \/ ~Empty /\ Jump("check", "take")
    \/ Empty /\ Jump("check", "idle")
    \/ Take("take", "sti")
    \/ SetFlagTo("sti", TRUE, "ret")
    \/ SetFlagTo("idle", TRUE, "hlt")
    \/ Jump("hlt", "halted")
GetChar ==
    \/ SetFlagTo("cli", FALSE, "check")
    \/ ~Empty /\ Jump("check", "take")
    \/ Empty /\ Jump("check", "idle")
    \/ Take("take", "sti")
    \/ SetFlagTo("sti", TRUE, "ret")
    \/ SetFlagTo("idle", TRUE, "hlt")
    \/ Jump("hlt", "halted")

(* keyboard_try_get_char: interrupts stay on between its steps.            *)
TryRead ==
    /\ At("try_read") /\ Goto("try_advance")
    /\ c' = kb_buffer[read_ptr]
    /\ UNCHANGED << desk, obf, ticked, pic, int_flag, handler, ring, mode >>
TryAdvance ==
    /\ At("try_advance") /\ Goto("ret")
    /\ read_ptr' = NextSlot(read_ptr)
    /\ UNCHANGED << desk, obf, ticked, pic, int_flag, handler, c, kb_buffer, write_ptr, mode >>
TryGetChar ==
    \/ Empty /\ Jump("try", "busy")
    \/ ~Empty /\ Jump("try", "try_read")
    \/ TryRead
    \/ TryAdvance

(* The caller gets the character, works, and calls one of the readers.     *)
Caller ==
    \/ SetFlagTo("first_sti", TRUE, "busy")
    \/ Jump("busy", "cli")
    \/ Jump("busy", "try")
    \/ /\ At("ret") /\ Goto("busy")
       /\ c' = NoChar
       /\ UNCHANGED << desk, obf, ticked, pic, int_flag, handler, ring, mode >>

MainStep == EnableIrqs \/ GetChar \/ TryGetChar \/ Caller

Next ==
    \/ \E k \in Codes : Type(k)
    \/ Load
    \/ Tick
    \/ \E n \in Irqs : Accept(n)
    \/ HandlerStep
    \/ MainStep

(* Interrupts that are possible again and again are taken and handled, and *)
(* the interrupt rate leaves the main thread some of the time.  Nothing is *)
(* assumed of the timer and of the typist.                                 *)
InterruptStep == (\E n \in Irqs : Accept(n)) \/ HandlerStep
Fairness == SF_vars(InterruptStep) /\ SF_vars(MainStep)

Spec == Init /\ [][Next]_vars /\ Fairness

-----------------------------------------------------------------------------
(* Type invariant.                                                         *)
TypeOK ==
    /\ wire \in Seq(Byte) /\ obf \in Byte \cup {NoByte}
    /\ held \in BOOLEAN /\ locked \in BOOLEAN
    /\ ticked \in BOOLEAN
    /\ irr \subseteq Irqs /\ in_service \subseteq Irqs /\ imr \subseteq Irqs
    /\ int_flag \in BOOLEAN
    /\ hpc \in {"none", "enter", "store", "eoi"}
    /\ irq \in Irqs /\ ascii \in Char \cup {NoChar}
    /\ pc \in {"pic_disable", "clear_irq0", "clear_irq1", "first_sti", "busy",
               "cli", "check", "take", "sti", "ret", "idle", "hlt", "halted",
               "try", "try_read", "try_advance"}
    /\ c \in Char \cup {NoChar}
    /\ kb_buffer \in [Slots -> Char \cup {NoChar}]
    /\ write_ptr \in Slots /\ read_ptr \in Slots
    /\ shift_pressed \in BOOLEAN /\ caps_lock \in BOOLEAN

(* keyboard_get_char never sleeps on a key: while the CPU is halted, or    *)
(* about to halt with no way back, the ring is empty.  (The comment in     *)
(* keyboard_get_char calls the opposite a missed wakeup.)                  *)
NoLostWakeup == pc \in {"idle", "hlt", "halted"} /\ hpc = "none" => Empty

(* The 8042 raises IRQ1 once per byte and sends no other before the byte   *)
(* is read.  So an unread byte always has its request latched, or the      *)
(* handler that will read it running; and a handler that reads finds a     *)
(* byte.  Otherwise the keyboard is dead until the next reset.             *)
NoStuckKeyboard ==
    obf # NoByte <=> 1 \in irr \/ (hpc = "enter" /\ irq = 1)

(* The case of a letter is the one in force at the desk when its key was   *)
(* pressed, however late it is handled and whatever was dropped before it. *)
CaseAsTyped ==
    obf.kind \in {"letter", "symbol"} => UseUpper(obf) = obf.want

(* The ring implements the queue the shell relies on.                      *)
Used == (write_ptr - read_ptr) % KB_BUFFER_SIZE
Contents == [k \in 1..Used |-> kb_buffer[(read_ptr + k - 1) % KB_BUFFER_SIZE]]
Out == IF pc = "try_advance" THEN NoChar ELSE c
Queue == INSTANCE BoundedQueue WITH
    Cap <- KB_BUFFER_SIZE - 1,
    q <- Contents,
    offer <- ascii,
    out <- Out
QueueSpec == Queue!Spec

(* Every byte of the keyboard is read by the handler, and a reader gets    *)
(* what is in the ring, with no help from the timer.                       *)
KeysReachShell ==
    /\ obf # NoByte ~> obf = NoByte
    /\ ~Empty ~> c # NoChar
=============================================================================
