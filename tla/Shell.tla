-------------------------------- MODULE Shell --------------------------------
(***************************************************************************)
(* KShell, kernel/core/shell.c, on the screen of Terminal: the line editor *)
(* and execute_command with the calls that can fail and what they hold.    *)
(*                                                                         *)
(* The names of the commands are short lines over the characters of the    *)
(* instance.  What a command prints is one of Outputs, each of which ends  *)
(* with a newline as all of them do.  A call of another component returns  *)
(* what that component's module lets it return: kmalloc may give NULL, the *)
(* file system and the drive may fail.                                     *)
(***************************************************************************)
EXTENDS Terminal, FiniteSets, SequencesExt

CONSTANTS
    CMD_BUF_SIZE,
    Keys,        \* the characters that can be typed
    Digits,      \* those of them that atoi takes
    MAX_DIGITS,  \* 9: as many digits never overflow atoi's int
    PROMPT,      \* "PyramidOS> "
    Named,       \* the lines that name a command, each with its kind
    DISKREAD,    \* "diskread "
    Outputs      \* what a command may print

ASSUME ShellAssumption ==
    /\ CMD_BUF_SIZE \in Nat \ {0} /\ Len(PROMPT) < VGA_COLS
    /\ MAX_DIGITS \in Nat
    /\ Keys \cap {Newline, Backspace, "NUL"} = {}
    /\ PROMPT \in Seq(STRING) /\ \A k \in DOMAIN PROMPT : PROMPT[k] \notin {Newline, Backspace}
    /\ Outputs \subseteq Seq(STRING)
    /\ \A l \in DOMAIN Named : ~IsPrefix(DISKREAD, l)
    /\ \A o \in Outputs : o # << >> /\ o[Len(o)] = Newline

VARIABLES
    cmd_buffer, cmd_idx,
    tty,          \* the screen
    pc,           \* where shell_run and the functions it calls are
    held,         \* heap objects and the descriptor the command holds
    wrapped,      \* ghost: the line being typed has reached the last column
    carried       \* ghost: the last command left its line in the buffer

line == << cmd_buffer, cmd_idx >>
ghosts == << wrapped, carried >>
vars == << line, tty, pc, held, ghosts >>

NUL == "NUL"
Cleared == [k \in 1..CMD_BUF_SIZE |-> NUL]

(* The string in the buffer.                                               *)
Line == SubSeq(cmd_buffer, 1,
               Cardinality({ k \in 1..CMD_BUF_SIZE : \A j \in 1..k : cmd_buffer[j] # NUL }))

Show(str) == tty' = term_print(tty, str)

(* The end of execute_command: a prompt on screen t, and an empty line.    *)
ResetPrompt(t) ==
    /\ tty' = term_print(t, PROMPT)
    /\ cmd_idx' = 0 /\ cmd_buffer' = Cleared
    /\ wrapped' = FALSE /\ carried' = FALSE
    /\ pc' = "read"
PrintAndPrompt(str) == ResetPrompt(term_print(tty, str))

(* shell_init, with what start-up has printed above.                       *)
Init ==
    /\ tty \in { term_print(term_print(term_clear, o), PROMPT) : o \in Outputs }
    /\ cmd_buffer = Cleared /\ cmd_idx = 0
    /\ pc = "read" /\ held = {}
    /\ wrapped = FALSE /\ carried = FALSE

-----------------------------------------------------------------------------
(* shell_run: one character of keyboard_get_char.                          *)
Enter ==
    /\ pc = "read" /\ pc' = "dispatch"
    /\ cmd_buffer' = [cmd_buffer EXCEPT ![cmd_idx + 1] = NUL]
    /\ Show(<< Newline >>)
    /\ UNCHANGED << cmd_idx, held, ghosts >>

EraseAlways ==
    /\ pc = "read"
    /\ IF cmd_idx > 0
       THEN cmd_idx' = cmd_idx - 1 /\ cmd_buffer' = [cmd_buffer EXCEPT ![cmd_idx] = NUL]
       ELSE UNCHANGED line
    /\ Show(<< Backspace >>)
    /\ UNCHANGED << pc, held, ghosts >>
Erase ==
    /\ pc = "read" /\ cmd_idx > 0
    /\ cmd_idx' = cmd_idx - 1
    /\ cmd_buffer' = [cmd_buffer EXCEPT ![cmd_idx] = NUL]
    /\ Show(<< Backspace >>)
    /\ UNCHANGED << pc, held, ghosts >>

Echo(ch) ==
    /\ pc = "read" /\ cmd_idx < CMD_BUF_SIZE - 1
    /\ cmd_buffer' = [cmd_buffer EXCEPT ![cmd_idx + 1] = ch]
    /\ cmd_idx' = cmd_idx + 1
    /\ Show(<< ch >>)
    /\ wrapped' = (wrapped \/ tty'.x = 0)
    /\ UNCHANGED << pc, held, carried >>

Type == Enter \/ Erase \/ \E ch \in Keys : Echo(ch)

-----------------------------------------------------------------------------
(* execute_command.                                                        *)
(* strncmp over the length of a prefix.                                    *)
StartsWith(l, prefix) == IsPrefix(prefix, l)

Kind ==
    IF Line \in DOMAIN Named THEN Named[Line]
    ELSE IF StartsWith(Line, DISKREAD) THEN "diskread"
    ELSE IF Line # << >> THEN "unknown" ELSE "empty"

(* The sign of atoi for what follows "diskread ".  On overflow either sign *)
(* can come out.                                                           *)
Arg == SubSeq(Line, Len(DISKREAD) + 1, Len(Line))
Minus == Arg # << >> /\ Arg[1] = "-"
Number ==
    LET digits == IF Minus THEN Tail(Arg) ELSE Arg
    IN  SubSeq(digits, 1, Cardinality(
            { k \in DOMAIN digits : \A j \in 1..k : digits[j] \in Digits }))
Overflows == Len(Number) > MAX_DIGITS
Negative == Minus /\ \E k \in DOMAIN Number : Number[k] # "0"

Dispatch(kind) == pc = "dispatch" /\ Kind = kind

(* help, mem, blkinfo, mounts, uptime, time, sleep and unknown commands.   *)
Simple ==
    /\ Dispatch("print") \/ Dispatch("unknown")
    /\ \E o \in Outputs : PrintAndPrompt(o)
    /\ UNCHANGED held

EmptyLine == Dispatch("empty") /\ PrintAndPrompt(<< >>) /\ UNCHANGED held

Clear == Dispatch("clear") /\ ResetPrompt(term_clear) /\ UNCHANGED held

(* A step of a command that prints one of Outputs, or nothing.             *)
Within(from, to) ==
    /\ pc = from /\ pc' = to
    /\ Show(<< >>) \/ \E o \in Outputs : Show(o)
    /\ UNCHANGED << line, ghosts >>

(* pyfs_sb: vfs_open, vfs_read, vfs_close.                                 *)
OpenSuperblock ==
    /\ Dispatch("pyfs_sb")
    /\ pc' = "sb_read" /\ held' = {"fd"}
    /\ UNCHANGED << line, tty, ghosts >>
OpenFails ==
    /\ Dispatch("pyfs_sb") /\ \E o \in Outputs : PrintAndPrompt(o)
    /\ UNCHANGED held
ReadSuperblock == Within("sb_read", "sb_close") /\ UNCHANGED held
CloseSuperblock ==
    /\ pc = "sb_close" /\ held' = held \ {"fd"}
    /\ PrintAndPrompt(<< >>)

(* diskread: two errors return before the prompt is reset.                 *)
ReturnEarly(frees) ==
    /\ pc' = "read" /\ held' = held \ frees
    /\ \E o \in Outputs : Show(o)
    /\ wrapped' = FALSE /\ carried' = TRUE
    /\ UNCHANGED line

DiskBuffer ==
    /\ Dispatch("diskread")
    /\ Within("dispatch", "disk_lba") /\ held' = {"buf"}
DiskNoMemory == Dispatch("diskread") /\ ReturnEarly({})
DiskRefusedKeepsBuffer == pc = "disk_lba" /\ (Negative \/ Overflows) /\ ReturnEarly({})
DiskRefused == pc = "disk_lba" /\ (Negative \/ Overflows) /\ ReturnEarly({"buf"})
DiskRead ==
    /\ ~Negative \/ Overflows
    /\ Within("disk_lba", "disk_free") /\ UNCHANGED held
DiskFree ==
    /\ pc = "disk_free" /\ held' = held \ {"buf"}
    /\ PrintAndPrompt(<< >>)

(* diagnose: selftest_pmm gives back what it takes (SelfTest); then the    *)
(* heap and the drive.  A call of kmalloc gives the object or NULL.        *)
StartSelfTest ==
    /\ Dispatch("diagnose")
    /\ Within("dispatch", "heap1") /\ UNCHANGED held
Kmalloc(from, obj, ok, frees, failed) ==
    \/ Within(from, ok) /\ held' = held \cup {obj}
    \/ Within(from, failed) /\ held' = held \ frees
SelfTestHeap ==
    \/ Kmalloc("heap1", "ptr1", "heap2", {}, "ata1")
    \/ Kmalloc("heap2", "ptr2", "heap_free1", {"ptr1"}, "ata1")
    \/ Within("heap_free1", "heap3") /\ held' = held \ {"ptr1"}
    \/ Kmalloc("heap3", "ptr3", "heap_free", {"ptr2"}, "ata1")
    \/ Within("heap_free", "ata1") /\ held' = held \ {"ptr2", "ptr3"}
(* Both the failed read and the wrong signature free the buffer.           *)
SelfTestAta ==
    \/ Kmalloc("ata1", "buffer", "ata_free", {}, "summary")
    \/ Within("ata_free", "summary") /\ held' = held \ {"buffer"}
Summary ==
    /\ pc = "summary" /\ \E o \in Outputs : PrintAndPrompt(o)
    /\ UNCHANGED held

(* reboot pulses the reset line once the 8042 is ready for a command.      *)
Reboot ==
    /\ Dispatch("reboot") /\ pc' = "off"
    /\ \E o \in Outputs : Show(o)
    /\ UNCHANGED << line, held, ghosts >>

(* crash: a write to an unmapped page.  The exception prints and halts.    *)
Crash ==
    /\ Dispatch("crash")
    /\ Within("dispatch", "page_fault") /\ UNCHANGED held
PanicWithRegs == Within("page_fault", "off") /\ UNCHANGED held

Off == pc = "off" /\ UNCHANGED vars

Execute ==
    \/ Simple \/ EmptyLine \/ Clear
    \/ OpenSuperblock \/ OpenFails \/ ReadSuperblock \/ CloseSuperblock
    \/ DiskBuffer \/ DiskNoMemory \/ DiskRefused \/ DiskRead \/ DiskFree
    \/ StartSelfTest \/ SelfTestHeap \/ SelfTestAta \/ Summary
    \/ Reboot \/ Crash \/ PanicWithRegs

Next == Type \/ Execute \/ Off

Spec == Init /\ [][Next]_vars

-----------------------------------------------------------------------------
(* The cursor stays on the screen, so that term_print writes no cell       *)
(* outside the VGA buffer, whatever is printed at the last cell.           *)
CursorOnScreen == tty.x \in 0..(VGA_COLS - 1) /\ tty.y \in 0..(VGA_ROWS - 1)

(* What will be executed is what the user sees: the row of the cursor      *)
(* reads the prompt and the command buffer, and nothing behind the cursor. *)
(* After a diskread that returned early there is no prompt, and the row    *)
(* shows only the end of a line whose beginning is the old command.  Once  *)
(* the line has reached the last column, backspace cannot follow it back.  *)
ScreenShowsCommand ==
    pc = "read" /\ ~wrapped =>
        /\ BehindCursor(tty) = {Space}
        /\ IF carried THEN IsSuffix(BeforeCursor(tty), Line)
           ELSE BeforeCursor(tty) = PROMPT \o Line

(* On every path of every command the buffers are freed and the descriptor *)
(* is closed before the next line is read.                                 *)
NothingHeldAtPrompt == pc = "read" => held = {}
=============================================================================
