------------------------------- MODULE Terminal -------------------------------
(***************************************************************************)
(* The text screen of kernel/drivers/terminal.c as operators on its state: *)
(* a record of the cursor g_cursor_x, g_cursor_y and the cells of          *)
(* g_vga_buffer, row after row.  Colours are left out.                     *)
(***************************************************************************)
EXTENDS Integers, Sequences

CONSTANTS VGA_COLS, VGA_ROWS

ASSUME TerminalAssumption == VGA_COLS \in Nat \ {0} /\ VGA_ROWS \in Nat \ {0}

Newline == "newline"
Backspace == "backspace"
Space == " "

Cells == 0..(VGA_COLS * VGA_ROWS - 1)
Index(t) == t.y * VGA_COLS + t.x

term_clear == [x |-> 0, y |-> 0, cell |-> [k \in Cells |-> Space]]

(* A character moves the cursor, and all but the newline change a cell ... *)
Put(t, ch) ==
    CASE ch = Newline -> [t EXCEPT !.x = 0, !.y = @ + 1]
      [] ch = Backspace /\ t.x > 0 ->
            [t EXCEPT !.x = @ - 1, !.cell[Index(t) - 1] = Space]
      [] ch = Backspace /\ t.x = 0 -> t
      [] OTHER -> [t EXCEPT !.x = @ + 1, !.cell[Index(t)] = ch]

WrapColumn(t) == IF t.x >= VGA_COLS THEN [t EXCEPT !.x = 0, !.y = @ + 1] ELSE t

(* ... and below the last row, the screen is cleared.                      *)
WrapRowLate(t) == IF t.y > VGA_ROWS THEN term_clear ELSE t
WrapRow(t) == IF t.y >= VGA_ROWS THEN term_clear ELSE t

PutChar(t, ch) == WrapRow(WrapColumn(Put(t, ch)))

(* term_print: one character after the other.                              *)
term_print(t, str) ==
    LET screen[k \in 0..Len(str)] == IF k = 0 THEN t ELSE PutChar(screen[k - 1], str[k])
    IN  screen[Len(str)]

(* The text of the cursor's row, up to the cursor and behind it.           *)
BeforeCursor(t) == [k \in 1..t.x |-> t.cell[t.y * VGA_COLS + k - 1]]
BehindCursor(t) == { t.cell[t.y * VGA_COLS + k] : k \in t.x..(VGA_COLS - 1) }
=============================================================================
