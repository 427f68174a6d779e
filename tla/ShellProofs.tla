---------------------------- MODULE ShellProofs ----------------------------
(***************************************************************************)
(* Proofs about the shell, for every size of screen and line, and for all  *)
(* outputs: ShellInv is inductive, so the cursor stays on the screen, the  *)
(* screen shows the command, and nothing is held at the prompt.            *)
(* term_print is a loop over characters; what it does is proved by         *)
(* induction over them.                                                    *)
(***************************************************************************)
EXTENDS Shell, SequenceTheorems, FiniteSetTheorems, WellFoundedInduction, TLAPS

-----------------------------------------------------------------------------
(* The inductive invariant.  The cursor is on the screen, with nothing     *)
(* from there on.                                                          *)
Characters ==
    {Space} \cup Keys \cup UNION { { str[k] : k \in DOMAIN str } : str \in Outputs \cup {PROMPT} }
IsScreen(t) ==
    /\ t \in [x : 0..(VGA_COLS - 1), y : 0..(VGA_ROWS - 1), cell : [Cells -> Characters]]
    /\ \A k \in Cells : k >= Index(t) => t.cell[k] = Space

(* The buffer holds what was typed, and NUL behind it.                     *)
LineInv ==
    /\ cmd_idx \in 0..(CMD_BUF_SIZE - 1)
    /\ cmd_buffer \in [1..CMD_BUF_SIZE -> Keys \cup {NUL}]
    /\ \A k \in 1..CMD_BUF_SIZE : cmd_buffer[k] = NUL <=> k > cmd_idx

(* What each place of the commands holds.                                  *)
Holds ==
    [read |-> {}, dispatch |-> {}, sb_read |-> {"fd"}, sb_close |-> {"fd"},
     disk_lba |-> {"buf"}, disk_free |-> {"buf"}, heap1 |-> {}, heap2 |-> {"ptr1"},
     heap_free1 |-> {"ptr1", "ptr2"}, heap3 |-> {"ptr2"}, heap_free |-> {"ptr2", "ptr3"},
     ata1 |-> {}, ata_free |-> {"buffer"}, summary |-> {}, page_fault |-> {}, off |-> {}]
HeldInv == pc \in DOMAIN Holds /\ held = Holds[pc]

(* The n cells before the cursor show the last n characters of the line.   *)
ShowsLast(n) == \A j \in 1..n : tty.cell[Index(tty) - j] = cmd_buffer[cmd_idx + 1 - j]
ShowsPrompt == \A j \in 1..Len(PROMPT) : tty.cell[tty.y * VGA_COLS + j - 1] = PROMPT[j]

(* A command runs in the first column; while a line is typed, the row      *)
(* shows the prompt and the line, or the end of a line that was carried.   *)
EchoInv ==
    /\ wrapped \in BOOLEAN /\ carried \in BOOLEAN
    /\ pc # "read" => tty.x = 0
    /\ pc = "read" /\ ~wrapped /\ carried => tty.x <= cmd_idx /\ ShowsLast(tty.x)
    /\ pc = "read" /\ ~wrapped /\ ~carried =>
          tty.x = Len(PROMPT) + cmd_idx /\ ShowsLast(cmd_idx) /\ ShowsPrompt

ShellInv == IsScreen(tty) /\ LineInv /\ HeldInv /\ EchoInv

-----------------------------------------------------------------------------
(* Induction over the natural numbers, for a set of them.                  *)
LEMMA LeastOf ==
    ASSUME NEW T, T \subseteq Nat, T # {}
    PROVE  \E n \in T : \A m \in T : n <= m
<1> DEFINE R == OpToRel(<, Nat)
<1>1. IsWellFoundedOn(R, Nat)
    BY NatLessThanWellFounded
<1>2. \A x, y \in Nat : y < x => <<y, x>> \in R
    BY DEF OpToRel
<1> HIDE DEF R
<1>3. PICK n \in T : \A m \in T : <<m, n>> \notin R
    BY <1>1, WFMin
<1>4. \A m \in T : ~(m < n)
    BY <1>2, <1>3
<1>5. n \in Nat /\ \A m \in T : m \in Nat
    OBVIOUS
<1> QED BY <1>4, <1>5

LEMMA InductionOn ==
    ASSUME NEW S, S \subseteq Nat, 0 \in S, \A n \in Nat : n \in S => n + 1 \in S
    PROVE  S = Nat
<1> SUFFICES ASSUME Nat \ S # {} PROVE FALSE
    OBVIOUS
<1>1. PICK n \in Nat \ S : \A m \in Nat \ S : n <= m
    BY LeastOf
<1>2. n # 0 /\ n - 1 \in Nat /\ n - 1 \notin Nat \ S
    BY <1>1
<1> QED BY <1>2

(* A loop of N iterations that computes with values of X has a run.        *)
LoopBodies(N, X) == [X \X (1..N) -> X]
IsRun(f, N, X, x0, step) ==
    f \in [0..N -> X] /\ f[0] = x0 /\ \A k \in 1..N : f[k] = step[<<f[k - 1], k>>]

LEMMA LoopRuns ==
    ASSUME NEW N \in Nat, NEW X, NEW x0 \in X, NEW step \in LoopBodies(N, X)
    PROVE  \E f : IsRun(f, N, X, x0, step)
<1> DEFINE P(n) == \E f \in [0..n -> X] : f[0] = x0 /\ \A k \in 1..n : f[k] = step[<<f[k - 1], k>>]
           S == {n \in Nat : n <= N => P(n)}
<1>1. 0 \in S
  <2> DEFINE f == [k \in 0..0 |-> x0]
  <2>1. f \in [0..0 -> X] /\ f[0] = x0 /\ \A k \in 1..0 : FALSE
      OBVIOUS
  <2> HIDE DEF f
  <2>2. P(0)
      BY <2>1
  <2> QED BY <2>2
<1>2. ASSUME NEW n \in S PROVE n + 1 \in S
  <2> SUFFICES ASSUME n + 1 <= N PROVE P(n + 1)
      OBVIOUS
  <2>1. n \in Nat /\ n <= N /\ n + 1 \in 1..N
      OBVIOUS
  <2>7. step \in [X \X (1..N) -> X]
      BY DEF LoopBodies
  <2>2. PICK f \in [0..n -> X] : f[0] = x0 /\ \A k \in 1..n : f[k] = step[<<f[k - 1], k>>]
      BY <2>1
  <2> DEFINE g == [k \in 0..(n + 1) |-> IF k = n + 1 THEN step[<<f[n], n + 1>>] ELSE f[k]]
  <2>3. step[<<f[n], n + 1>>] \in X
      BY <2>7, <2>1
  <2>4. g \in [0..(n + 1) -> X]
      BY <2>1, <2>3
  <2>5. g[0] = x0
      BY <2>1, <2>2
  <2>6. ASSUME NEW k \in 1..(n + 1) PROVE g[k] = step[<<g[k - 1], k>>]
    <3>1. k - 1 \in 0..n /\ g[k - 1] = f[k - 1]
        BY <2>1
    <3>2. CASE k = n + 1
      <4>1. k - 1 = n /\ g[n + 1] = step[<<f[n], n + 1>>]
          BY <2>1, <3>2
      <4> QED BY <3>1, <3>2, <4>1
    <3>3. CASE k # n + 1
        BY <2>1, <2>2, <3>1, <3>3
    <3> QED BY <3>2, <3>3
  <2> HIDE DEF g
  <2> QED BY <2>4, <2>5, <2>6
<1> HIDE DEF P
<1>3. S = Nat
    BY <1>1, <1>2, InductionOn
<1>4. P(N)
    BY <1>3
<1> QED BY <1>4 DEF P, IsRun

-----------------------------------------------------------------------------
(* The screen.  A row is VGA_COLS cells, and the rows are the screen.      *)
LEMMA RowFacts ==
    ASSUME NEW y \in 0..(VGA_ROWS - 1)
    PROVE  /\ VGA_COLS \in Nat \ {0} /\ VGA_ROWS \in Nat \ {0}
           /\ y * VGA_COLS \in Nat /\ (y + 1) * VGA_COLS = y * VGA_COLS + VGA_COLS
           /\ VGA_COLS * VGA_ROWS \in Nat /\ y * VGA_COLS + VGA_COLS <= VGA_COLS * VGA_ROWS
<1>1. VGA_COLS \in Nat \ {0} /\ VGA_ROWS \in Nat \ {0}
    BY TerminalAssumption
<1>2. \A a, b \in Nat : a * b \in Nat /\ (a + 1) * b = a * b + b
    OBVIOUS
<1>3. \A a, b, c \in Nat : a + 1 <= b => (a + 1) * c <= c * b
    OBVIOUS
<1>4. y \in Nat /\ y + 1 <= VGA_ROWS
    BY <1>1
<1>5. \A a, b \in Nat : a * b \in Nat
    OBVIOUS
<1> QED BY <1>1, <1>2, <1>3, <1>4, <1>5

(* The parts of a screen, with the place of the cursor as a number.        *)
LEMMA ScreenFacts ==
    ASSUME NEW t, IsScreen(t)
    PROVE  /\ t.x \in Nat /\ t.x < VGA_COLS /\ t.y \in 0..(VGA_ROWS - 1)
           /\ t.cell \in [Cells -> Characters]
           /\ t = [x |-> t.x, y |-> t.y, cell |-> t.cell]
           /\ Index(t) \in Cells /\ Index(t) = t.y * VGA_COLS + t.x
           /\ \A k \in Cells : k >= Index(t) => t.cell[k] = Space
<1>1. /\ t \in [x : 0..(VGA_COLS - 1), y : 0..(VGA_ROWS - 1), cell : [Cells -> Characters]]
      /\ \A k \in Cells : k >= Index(t) => t.cell[k] = Space
    BY DEF IsScreen
<1>2. VGA_COLS \in Nat
    BY TerminalAssumption
<1>3. /\ t.x \in Nat /\ t.x < VGA_COLS /\ t.y \in 0..(VGA_ROWS - 1)
      /\ t.cell \in [Cells -> Characters] /\ t = [x |-> t.x, y |-> t.y, cell |-> t.cell]
    BY <1>1, <1>2
<1>4. Index(t) \in Cells /\ Index(t) = t.y * VGA_COLS + t.x
    BY <1>3, RowFacts DEF Index, Cells
<1> QED BY <1>1, <1>3, <1>4

(* The other way round: what makes a screen.                               *)
LEMMA MakeScreen ==
    ASSUME NEW x \in 0..(VGA_COLS - 1), NEW y \in 0..(VGA_ROWS - 1), NEW cell \in [Cells -> Characters],
           \A k \in Cells : k >= y * VGA_COLS + x => cell[k] = Space
    PROVE  IsScreen([x |-> x, y |-> y, cell |-> cell])
BY DEF IsScreen, Index

LEMMA ClearIsScreen == IsScreen(term_clear) /\ term_clear.x = 0
<1>1. 0 \in 0..(VGA_COLS - 1) /\ 0 \in 0..(VGA_ROWS - 1)
    BY TerminalAssumption
<1> DEFINE blank == [k \in Cells |-> Space]
<1>2. Space \in Characters
    BY DEF Characters
<1>3. blank \in [Cells -> Characters] /\ \A k \in Cells : blank[k] = Space
    BY <1>2
<1>4. term_clear = [x |-> 0, y |-> 0, cell |-> blank]
    BY DEF term_clear
<1> HIDE DEF blank
<1> QED BY <1>1, <1>3, <1>4, MakeScreen

(* What one character does.                                                *)
NextRow(t, cell) == IF t.y + 1 >= VGA_ROWS THEN term_clear ELSE [x |-> 0, y |-> t.y + 1, cell |-> cell]

LEMMA PutCharIs ==
    ASSUME NEW t, IsScreen(t), NEW ch
    PROVE  /\ ch = Newline => PutChar(t, ch) = NextRow(t, t.cell)
           /\ ch = Backspace /\ t.x > 0 =>
                 PutChar(t, ch) = [x |-> t.x - 1, y |-> t.y, cell |-> [t.cell EXCEPT ![Index(t) - 1] = Space]]
           /\ ch = Backspace /\ t.x = 0 => PutChar(t, ch) = t
           /\ ch \notin {Newline, Backspace} /\ t.x + 1 < VGA_COLS =>
                 PutChar(t, ch) = [x |-> t.x + 1, y |-> t.y, cell |-> [t.cell EXCEPT ![Index(t)] = ch]]
           /\ ch \notin {Newline, Backspace} /\ t.x + 1 >= VGA_COLS =>
                 PutChar(t, ch) = NextRow(t, [t.cell EXCEPT ![Index(t)] = ch])
<1>1. /\ t.x \in Nat /\ t.x < VGA_COLS /\ t.y \in 0..(VGA_ROWS - 1) /\ VGA_COLS \in Nat \ {0} /\ VGA_ROWS \in Nat \ {0}
      /\ t \in [x : 0..(VGA_COLS - 1), y : 0..(VGA_ROWS - 1), cell : [Cells -> Characters]]
    BY ScreenFacts, TerminalAssumption DEF IsScreen
<1> DEFINE p == Put(t, ch)
<1>2. PutChar(t, ch) = WrapRow(WrapColumn(p))
    BY DEF PutChar
<1>3. Newline # Backspace
    BY DEF Newline, Backspace
<1>5. ASSUME ch = Newline PROVE PutChar(t, ch) = NextRow(t, t.cell)
  <2>1. p = [x |-> 0, y |-> t.y + 1, cell |-> t.cell]
      BY <1>1, <1>3, <1>5 DEF Put
  <2>2. WrapColumn(p) = p
      BY <1>1, <2>1 DEF WrapColumn
  <2> QED BY <1>2, <2>1, <2>2 DEF WrapRow, NextRow
<1>6. ASSUME ch = Backspace, t.x > 0
      PROVE  PutChar(t, ch) = [x |-> t.x - 1, y |-> t.y, cell |-> [t.cell EXCEPT ![Index(t) - 1] = Space]]
  <2> DEFINE cell == [t.cell EXCEPT ![Index(t) - 1] = Space]
  <2>1. p = [t EXCEPT !.x = @ - 1, !.cell[Index(t) - 1] = Space]
      BY <1>1, <1>3, <1>6 DEF Put
  <2>2. p = [x |-> t.x - 1, y |-> t.y, cell |-> cell]
      BY <1>1, <2>1
  <2> HIDE DEF cell, p
  <2>3. WrapColumn(p) = p /\ WrapRow(p) = p
      BY <1>1, <2>2 DEF WrapColumn, WrapRow
  <2>4. PutChar(t, ch) = [x |-> t.x - 1, y |-> t.y, cell |-> cell]
      BY <1>2, <2>2, <2>3
  <2> QED BY <2>4 DEF cell
<1>7. ASSUME ch = Backspace, t.x = 0 PROVE PutChar(t, ch) = t
  <2>1. p = t
      BY <1>1, <1>3, <1>7 DEF Put
  <2>2. WrapColumn(t) = t /\ WrapRow(t) = t
      BY <1>1 DEF WrapColumn, WrapRow
  <2> QED BY <1>2, <2>1, <2>2
<1>8. ASSUME ch \notin {Newline, Backspace}
      PROVE  /\ t.x + 1 < VGA_COLS =>
                   PutChar(t, ch) = [x |-> t.x + 1, y |-> t.y, cell |-> [t.cell EXCEPT ![Index(t)] = ch]]
             /\ t.x + 1 >= VGA_COLS => PutChar(t, ch) = NextRow(t, [t.cell EXCEPT ![Index(t)] = ch])
  <2> DEFINE cell == [t.cell EXCEPT ![Index(t)] = ch]
  <2>1. p = [x |-> t.x + 1, y |-> t.y, cell |-> cell]
      BY <1>1, <1>8 DEF Put
  <2> HIDE DEF cell, p
  <2>2. ASSUME t.x + 1 < VGA_COLS PROVE WrapColumn(p) = p /\ WrapRow(p) = p
      BY <1>1, <2>1, <2>2 DEF WrapColumn, WrapRow
  <2>3. ASSUME t.x + 1 >= VGA_COLS PROVE WrapColumn(p) = [x |-> 0, y |-> t.y + 1, cell |-> cell]
      BY <1>1, <2>1, <2>3 DEF WrapColumn
  <2>4. WrapRow([x |-> 0, y |-> t.y + 1, cell |-> cell]) = NextRow(t, cell)
      BY DEF WrapRow, NextRow
  <2>5. /\ t.x + 1 < VGA_COLS => PutChar(t, ch) = [x |-> t.x + 1, y |-> t.y, cell |-> cell]
        /\ t.x + 1 >= VGA_COLS => PutChar(t, ch) = NextRow(t, cell)
      BY <1>2, <2>1, <2>2, <2>3, <2>4
  <2> QED BY <2>5 DEF cell
<1> HIDE DEF p
<1> QED BY <1>1, <1>5, <1>6, <1>7, <1>8

(* A character leaves a screen, and a newline leaves the first column.     *)
LEMMA NextRowIsScreen ==
    ASSUME NEW t, IsScreen(t), NEW cell \in [Cells -> Characters],
           \A k \in Cells : k >= Index(t) + 1 => cell[k] = Space
    PROVE  t.x + 1 = VGA_COLS \/ cell = t.cell => IsScreen(NextRow(t, cell)) /\ NextRow(t, cell).x = 0
<1> SUFFICES ASSUME t.x + 1 = VGA_COLS \/ cell = t.cell
             PROVE  IsScreen(NextRow(t, cell)) /\ NextRow(t, cell).x = 0
    OBVIOUS
<1>1. CASE t.y + 1 >= VGA_ROWS
    BY <1>1, ClearIsScreen DEF NextRow
<1>2. CASE t.y + 1 < VGA_ROWS
  <2>1. /\ t.x \in Nat /\ t.x < VGA_COLS /\ t.y \in 0..(VGA_ROWS - 1) /\ Index(t) = t.y * VGA_COLS + t.x
        /\ \A k \in Cells : k >= Index(t) => t.cell[k] = Space
      BY ScreenFacts
  <2>2. PICK r : r = t.y + 1
      OBVIOUS
  <2>3. r \in 0..(VGA_ROWS - 1) /\ 0 \in 0..(VGA_COLS - 1) /\ VGA_ROWS \in Nat /\ VGA_COLS \in Nat
      BY <1>2, <2>1, <2>2, TerminalAssumption
  <2>4. r * VGA_COLS = t.y * VGA_COLS + VGA_COLS /\ t.y * VGA_COLS \in Nat
      BY <2>1, <2>2, RowFacts
  <2>5. \A k \in Cells : k >= r * VGA_COLS + 0 => cell[k] = Space
    <3>1. \A k \in Cells : k \in Int
        BY DEF Cells
    <3> QED BY <2>1, <2>3, <2>4, <3>1
  <2>6. IsScreen([x |-> 0, y |-> r, cell |-> cell])
      BY <2>3, <2>5, MakeScreen
  <2> QED BY <1>2, <2>1, <2>2, <2>3, <2>6 DEF NextRow
<1>3. t.y \in Int /\ VGA_ROWS \in Int
    BY ScreenFacts, TerminalAssumption
<1> QED BY <1>1, <1>2, <1>3

LEMMA PutKeeps ==
    ASSUME NEW t, IsScreen(t), NEW ch \in Characters \cup {Newline, Backspace}
    PROVE  IsScreen(PutChar(t, ch)) /\ (ch = Newline => PutChar(t, ch).x = 0)
<1>1. /\ t.x \in Nat /\ t.x < VGA_COLS /\ t.y \in 0..(VGA_ROWS - 1) /\ Index(t) = t.y * VGA_COLS + t.x
      /\ t.cell \in [Cells -> Characters] /\ Index(t) \in Cells
      /\ \A k \in Cells : k >= Index(t) => t.cell[k] = Space
    BY ScreenFacts
<1>2. VGA_COLS \in Nat \ {0} /\ t.y * VGA_COLS \in Nat
    BY <1>1, RowFacts
<1>3. Index(t) \in Nat /\ (\A k \in Cells : k \in Nat) /\ Space \in Characters
      /\ (\A n \in Nat : n <= Index(t) => n \in Cells)
  <2>1. VGA_COLS * VGA_ROWS \in Nat
      BY <1>1, RowFacts
  <2> QED BY <1>1, <2>1 DEF Cells, Characters
<1>4. Newline # Backspace
    BY DEF Newline, Backspace
<1>5. CASE ch = Newline
  <2>1. IsScreen(NextRow(t, t.cell)) /\ NextRow(t, t.cell).x = 0
      BY <1>1, <1>3, NextRowIsScreen
  <2> QED BY <1>5, <2>1, PutCharIs
<1>6. CASE ch = Backspace /\ t.x > 0
  <2>1. PICK i : i = Index(t) - 1
      OBVIOUS
  <2>2. i \in Cells /\ i = t.y * VGA_COLS + (t.x - 1)
      BY <1>1, <1>2, <1>3, <1>6, <2>1
  <2>3. PICK cell : cell = [t.cell EXCEPT ![i] = Space]
      OBVIOUS
  <2>4. cell \in [Cells -> Characters]
      BY <1>1, <1>3, <2>3
  <2>5. \A k \in Cells : k >= t.y * VGA_COLS + (t.x - 1) => cell[k] = Space
    <3>1. \A k \in Cells : k >= i => k = i \/ k >= Index(t)
        BY <1>3, <2>1
    <3> QED BY <1>1, <2>2, <2>3, <3>1
  <2>6. PICK x : x = t.x - 1
      OBVIOUS
  <2>7. x \in 0..(VGA_COLS - 1)
      BY <1>1, <1>2, <1>6, <2>6
  <2>8. IsScreen([x |-> x, y |-> t.y, cell |-> cell])
      BY <1>1, <2>4, <2>5, <2>6, <2>7, MakeScreen
  <2> QED BY <1>4, <1>6, <2>1, <2>3, <2>6, <2>8, PutCharIs
<1>7. CASE ch = Backspace /\ t.x = 0
  <2>1. PutChar(t, ch) = t
      BY <1>7, PutCharIs
  <2> QED BY <1>4, <1>7, <2>1
<1>8. CASE ch \notin {Newline, Backspace}
  <2>1. PICK cell : cell = [t.cell EXCEPT ![Index(t)] = ch]
      OBVIOUS
  <2>2. cell \in [Cells -> Characters]
      BY <1>1, <1>8, <2>1
  <2>3. \A k \in Cells : k >= Index(t) + 1 => cell[k] = Space
    <3>1. \A k \in Cells : k >= Index(t) + 1 => k # Index(t) /\ k >= Index(t)
        BY <1>3
    <3> QED BY <1>1, <2>1, <3>1
  <2>4. CASE t.x + 1 < VGA_COLS
    <3>1. PICK x : x = t.x + 1
        OBVIOUS
    <3>2. x \in 0..(VGA_COLS - 1) /\ Index(t) + 1 = t.y * VGA_COLS + x
        BY <1>1, <1>2, <2>4, <3>1
    <3>3. IsScreen([x |-> x, y |-> t.y, cell |-> cell])
        BY <1>1, <2>2, <2>3, <3>2, MakeScreen
    <3> QED BY <1>8, <2>1, <2>4, <3>1, <3>3, PutCharIs
  <2>5. CASE t.x + 1 >= VGA_COLS
    <3>1. t.x + 1 = VGA_COLS
        BY <1>1, <1>2, <2>5
    <3>2. IsScreen(NextRow(t, cell))
        BY <2>2, <2>3, <3>1, NextRowIsScreen
    <3> QED BY <1>8, <2>1, <2>5, <3>2, PutCharIs
  <2> QED BY <1>1, <1>2, <2>4, <2>5
<1> QED BY <1>1, <1>5, <1>6, <1>7, <1>8

-----------------------------------------------------------------------------
(* term_print: the screens after each character.                           *)
Texts == Seq(Characters \cup {Newline, Backspace})
Screens == { t \in [x : 0..(VGA_COLS - 1), y : 0..(VGA_ROWS - 1), cell : [Cells -> Characters]] : IsScreen(t) }

IsPrinting(screen, t, str) ==
    /\ screen \in [0..Len(str) -> Screens] /\ screen[0] = t
    /\ \A k \in 1..Len(str) : screen[k] = PutChar(screen[k - 1], str[k])
    /\ term_print(t, str) = screen[Len(str)]

LEMMA PrintRuns ==
    ASSUME NEW t, IsScreen(t), NEW str \in Texts
    PROVE  \E screen : IsPrinting(screen, t, str)
<1> DEFINE N == Len(str)
           R(f) == f = [k \in 0..N |-> IF k = 0 THEN t ELSE PutChar(f[k - 1], str[k])]
           screen == CHOOSE f : R(f)
           step == [p \in Screens \X (1..N) |-> PutChar(p[1], str[p[2]])]
<1>1. term_print(t, str) = screen[N]
    BY Zenon DEF term_print
<1>2. N \in Nat /\ \A k \in 1..N : str[k] \in Characters \cup {Newline, Backspace}
    BY DEF Texts
<1>3. \A s : s \in Screens <=> IsScreen(s)
    BY DEF Screens, IsScreen
<1>4. step \in LoopBodies(N, Screens)
  <2>1. \A p \in Screens \X (1..N) : PutChar(p[1], str[p[2]]) \in Screens
      BY <1>2, <1>3, PutKeeps
  <2> QED BY <2>1 DEF LoopBodies
<1> HIDE DEF N
<1>5. R(screen)
  <2>1. PICK f : IsRun(f, N, Screens, t, step)
    <3> HIDE DEF step
    <3> QED BY <1>2, <1>3, <1>4, LoopRuns
  <2>2. f \in [0..N -> Screens] /\ f[0] = t
      BY <2>1 DEF IsRun
  <2>3. \A k \in 1..N : f[k] = PutChar(f[k - 1], str[k])
    <3> SUFFICES ASSUME NEW k \in 1..N PROVE f[k] = PutChar(f[k - 1], str[k])
        OBVIOUS
    <3>1. <<f[k - 1], k>> \in Screens \X (1..N)
        BY <1>2, <2>2
    <3>2. f[k] = step[<<f[k - 1], k>>]
        BY <2>1 DEF IsRun
    <3> QED BY <3>1, <3>2
  <2>4. 0..N = {0} \cup 1..N /\ 0 \notin 1..N
      BY <1>2
  <2>5. R(f)
      BY <2>2, <2>3, <2>4
  <2> HIDE DEF R
  <2> QED BY <2>5
<1> HIDE DEF screen
<1>6. screen[0] = t /\ \A k \in 1..N : screen[k] = PutChar(screen[k - 1], str[k])
    BY <1>2, <1>5
<1> DEFINE S == {n \in Nat : n <= N => screen[n] \in Screens}
<1>7. 0 \in S
    BY <1>3, <1>6
<1>8. ASSUME NEW n \in S PROVE n + 1 \in S
  <2> SUFFICES ASSUME n + 1 <= N PROVE screen[n + 1] \in Screens
      OBVIOUS
  <2>1. n \in Nat /\ n + 1 \in 1..N /\ (n + 1) - 1 = n /\ screen[n] \in Screens
      BY <1>2
  <2>2. screen[n + 1] = PutChar(screen[n], str[n + 1])
      BY <1>6, <2>1
  <2> QED BY <1>2, <1>3, <2>1, <2>2, PutKeeps
<1>9. S = Nat
    BY <1>7, <1>8, InductionOn
<1>10. screen \in [0..N -> Screens]
  <2>1. \A k \in 0..N : screen[k] \in Screens
      BY <1>2, <1>9
  <2>2. screen = [k \in 0..N |-> screen[k]]
      BY <1>5
  <2> QED BY <2>1, <2>2
<1> QED BY <1>1, <1>6, <1>10 DEF IsPrinting, N

(* Whatever is printed, a screen is left; in the first column, if the last *)
(* character is a newline.                                                 *)
LEMMA PrintKeeps ==
    ASSUME NEW t, IsScreen(t), NEW str \in Texts
    PROVE  /\ IsScreen(term_print(t, str))
           /\ str = << >> => term_print(t, str) = t
           /\ Len(str) = 1 => term_print(t, str) = PutChar(t, str[1])
           /\ str # << >> /\ str[Len(str)] = Newline => term_print(t, str).x = 0
<1>1. PICK screen : IsPrinting(screen, t, str)
    BY PrintRuns
<1> DEFINE N == Len(str)
<1>2. N \in Nat /\ N \in 0..N /\ (str = << >> <=> N = 0)
      /\ \A k \in 1..N : str[k] \in Characters \cup {Newline, Backspace}
    BY EmptySeq DEF Texts
<1>3. /\ \A k \in 0..N : IsScreen(screen[k])
      /\ screen[0] = t /\ term_print(t, str) = screen[N]
      /\ \A k \in 1..N : screen[k] = PutChar(screen[k - 1], str[k])
    BY <1>1 DEF IsPrinting, Screens
<1> HIDE DEF N
<1>4. N # 0 => N \in 1..N /\ N - 1 \in 0..N
    BY <1>2
<1>5. N # 0 /\ str[N] = Newline => screen[N].x = 0
    BY <1>2, <1>3, <1>4, PutKeeps
<1>6. N = 1 => screen[N] = PutChar(t, str[1])
    BY <1>3, <1>4
<1> QED BY <1>2, <1>3, <1>5, <1>6 DEF N

(* The texts that are printed.                                             *)
LEMMA TextFacts ==
    /\ PROMPT \in Texts /\ Len(PROMPT) \in Nat /\ Len(PROMPT) < VGA_COLS
    /\ \A k \in 1..Len(PROMPT) : PROMPT[k] \in Characters \ {Newline, Backspace}
    /\ << >> \in Texts /\ << Newline >> \in Texts /\ << Backspace >> \in Texts
    /\ \A ch \in Keys : << ch >> \in Texts
    /\ \A o \in Outputs : o \in Texts /\ o # << >> /\ o[Len(o)] = Newline
<1> DEFINE C == Characters \cup {Newline, Backspace}
<1>1. \A str \in Outputs \cup {PROMPT} : \A k \in DOMAIN str : str[k] \in Characters
    BY DEF Characters
<1>2. \A str : str \in Seq(STRING) /\ (\A k \in DOMAIN str : str[k] \in Characters) => str \in Seq(C)
  <2> SUFFICES ASSUME NEW str \in Seq(STRING), \A k \in DOMAIN str : str[k] \in Characters PROVE str \in Seq(C)
      OBVIOUS
  <2>1. Len(str) \in Nat /\ DOMAIN str = 1..Len(str) /\ str = [k \in 1..Len(str) |-> str[k]]
      OBVIOUS
  <2>2. \A k \in 1..Len(str) : str[k] \in C
      BY <2>1
  <2> HIDE DEF C
  <2>3. str \in [1..Len(str) -> C]
      BY <2>1, <2>2
  <2> QED BY <2>1, <2>3, SeqDef
<1>3. PROMPT \in Seq(STRING) /\ DOMAIN PROMPT = 1..Len(PROMPT) /\ Len(PROMPT) \in Nat /\ Len(PROMPT) < VGA_COLS
    BY ShellAssumption
<1>4. PROMPT \in Texts /\ \A k \in 1..Len(PROMPT) : PROMPT[k] \in Characters \ {Newline, Backspace}
    BY <1>1, <1>2, <1>3, ShellAssumption DEF Texts
<1>5. \A o \in Outputs : o \in Texts /\ o # << >> /\ o[Len(o)] = Newline
    BY <1>1, <1>2, ShellAssumption DEF Texts
<1>6. << >> \in Texts /\ \A ch \in C : << ch >> \in Texts
    BY DEF Texts
<1>7. Keys \subseteq C
    BY DEF Characters
<1> QED BY <1>3, <1>4, <1>5, <1>6, <1>7

(* The prompt fits into a row.                                             *)
LEMMA PromptShown ==
    ASSUME NEW t, IsScreen(t), t.x = 0, NEW p, p = term_print(t, PROMPT)
    PROVE  /\ IsScreen(p) /\ p.x = Len(PROMPT)
           /\ \A j \in 1..Len(PROMPT) : p.cell[p.y * VGA_COLS + j - 1] = PROMPT[j]
<1>1. PICK screen : IsPrinting(screen, t, PROMPT)
    BY PrintRuns, TextFacts
<1> DEFINE N == Len(PROMPT)
<1>2. N \in Nat /\ N < VGA_COLS /\ VGA_COLS \in Nat
      /\ \A k \in 1..N : PROMPT[k] \in Characters \ {Newline, Backspace}
    BY TextFacts, TerminalAssumption
<1>3. /\ \A k \in 0..N : IsScreen(screen[k])
      /\ screen[0] = t /\ p = screen[N]
      /\ \A k \in 1..N : screen[k] = PutChar(screen[k - 1], PROMPT[k])
    BY <1>1 DEF IsPrinting, Screens
<1>4. PICK row : row = t.y * VGA_COLS
    OBVIOUS
<1>5. row \in Nat /\ VGA_COLS * VGA_ROWS \in Nat
    BY <1>4, ScreenFacts, RowFacts
<1> HIDE DEF N
<1> DEFINE P(n) == /\ screen[n].x = n /\ screen[n].y = t.y
                   /\ \A j \in 1..n : screen[n].cell[row + j - 1] = PROMPT[j]
           S == {n \in Nat : n <= N => P(n)}
<1>6. 0 \in S
    BY <1>3
<1>7. ASSUME NEW n \in S PROVE n + 1 \in S
  <2> SUFFICES ASSUME n + 1 <= N PROVE P(n + 1)
      OBVIOUS
  <2>1. n \in Nat /\ n \in 0..N /\ n + 1 \in 1..N /\ (n + 1) - 1 = n /\ n + 1 < VGA_COLS
      BY <1>2
  <2>2. P(n)
      BY <2>1
  <2>3. PICK s : s = screen[n]
      OBVIOUS
  <2>4. IsScreen(s) /\ s.x = n /\ s.y = t.y /\ \A j \in 1..n : s.cell[row + j - 1] = PROMPT[j]
      BY <1>3, <2>1, <2>2, <2>3
  <2>5. Index(s) = row + n /\ Index(s) \in Cells /\ s.cell \in [Cells -> Characters]
      BY <1>4, <2>4, ScreenFacts
  <2>6. PICK cell : cell = [s.cell EXCEPT ![Index(s)] = PROMPT[n + 1]]
      OBVIOUS
  <2>7. screen[n + 1] = [x |-> n + 1, y |-> t.y, cell |-> cell]
    <3>1. screen[n + 1] = PutChar(s, PROMPT[n + 1])
        BY <1>3, <2>1, <2>3
    <3>2. PROMPT[n + 1] \notin {Newline, Backspace}
        BY <1>2, <2>1
    <3> QED BY <2>1, <2>4, <2>6, <3>1, <3>2, PutCharIs
  <2>8. cell[row + n] = PROMPT[n + 1]
      BY <2>5, <2>6
  <2>9. \A j \in 1..n : cell[row + j - 1] = PROMPT[j]
    <3> SUFFICES ASSUME NEW j \in 1..n PROVE cell[row + j - 1] = PROMPT[j]
        OBVIOUS
    <3>1. row + j - 1 # row + n /\ row + j - 1 \in Nat /\ row + j - 1 <= row + n
        BY <1>5, <2>1
    <3>2. row + j - 1 \in Cells
        BY <1>5, <2>1, <2>5, <3>1 DEF Cells
    <3> QED BY <2>4, <2>5, <2>6, <3>1, <3>2
  <2>10. \A j \in 1..(n + 1) : (j \in 1..n \/ j = n + 1) /\ row + (n + 1) - 1 = row + n
      BY <1>5, <2>1
  <2>11. \A j \in 1..(n + 1) : cell[row + j - 1] = PROMPT[j]
      BY <2>8, <2>9, <2>10
  <2> QED BY <2>7, <2>11
<1> HIDE DEF P
<1>8. S = Nat
    BY <1>6, <1>7, InductionOn
<1>9. P(N)
    BY <1>2, <1>8
<1> QED BY <1>2, <1>3, <1>4, <1>9 DEF P, N

-----------------------------------------------------------------------------
(* Steps of the commands.                                                  *)
LEMMA ShowsText ==
    ASSUME IsScreen(tty)
    PROVE  /\ \A o \in Outputs : Show(o) => IsScreen(tty') /\ tty'.x = 0
           /\ Show(<< >>) => tty' = tty
<1>1. PICK t : t = tty
    OBVIOUS
<1>2. IsScreen(t)
    BY <1>1
<1>3. \A o \in Outputs : IsScreen(term_print(t, o)) /\ term_print(t, o).x = 0
    BY <1>2, PrintKeeps, TextFacts
<1>4. term_print(t, << >>) = t
    BY <1>2, PrintKeeps, TextFacts
<1> QED BY <1>1, <1>3, <1>4 DEF Show

(* execute_command leaves a prompt and an empty line.                      *)
LEMMA ResetKeeps ==
    ASSUME NEW t, IsScreen(t), t.x = 0, ResetPrompt(t)
    PROVE  IsScreen(tty') /\ LineInv' /\ EchoInv'
<1>1. PICK p : p = tty'
    OBVIOUS
<1>2. p = term_print(t, PROMPT)
    BY <1>1 DEF ResetPrompt
<1>3. /\ IsScreen(p) /\ p.x = Len(PROMPT)
      /\ \A j \in 1..Len(PROMPT) : p.cell[p.y * VGA_COLS + j - 1] = PROMPT[j]
    BY <1>2, PromptShown
<1>4. cmd_idx' = 0 /\ cmd_buffer' = Cleared /\ wrapped' = FALSE /\ carried' = FALSE /\ pc' = "read"
    BY DEF ResetPrompt
<1>5. LineInv'
    BY <1>4, ShellAssumption DEF LineInv, Cleared
<1>6. EchoInv'
  <2>1. ShowsPrompt' /\ tty'.x = Len(PROMPT) + cmd_idx'
      BY <1>1, <1>3, <1>4, TextFacts DEF ShowsPrompt
  <2>2. ShowsLast(cmd_idx)'
      BY <1>4 DEF ShowsLast
  <2> QED BY <1>4, <2>1, <2>2 DEF EchoInv
<1> QED BY <1>1, <1>3, <1>5, <1>6

LEMMA PromptKeeps ==
    ASSUME IsScreen(tty), tty.x = 0, NEW str \in Outputs \cup {<< >>}, PrintAndPrompt(str)
    PROVE  IsScreen(tty') /\ LineInv' /\ EchoInv'
<1>1. PICK t : t = tty
    OBVIOUS
<1>2. PICK s : s = term_print(t, str)
    OBVIOUS
<1>3. IsScreen(s) /\ s.x = 0
    BY <1>1, <1>2, PrintKeeps, TextFacts
<1>4. ResetPrompt(s)
    BY <1>1, <1>2 DEF PrintAndPrompt
<1> QED BY <1>3, <1>4, ResetKeeps

LEMMA WithinKeeps ==
    ASSUME ShellInv, NEW from, NEW to, Within(from, to), from # "read", to # "read"
    PROVE  IsScreen(tty') /\ LineInv' /\ EchoInv'
<1>1. /\ pc = from /\ pc' = to /\ UNCHANGED << cmd_buffer, cmd_idx, wrapped, carried >>
      /\ Show(<< >>) \/ \E o \in Outputs : Show(o)
    BY DEF Within, line, ghosts
<1>2. IsScreen(tty) /\ LineInv /\ EchoInv /\ tty.x = 0
    BY <1>1 DEF ShellInv, EchoInv
<1>3. IsScreen(tty') /\ tty'.x = 0
    BY <1>1, <1>2, ShowsText
<1> QED BY <1>1, <1>2, <1>3 DEF LineInv, EchoInv

LEMMA ReturnEarlyKeeps ==
    ASSUME ShellInv, pc # "read", NEW frees, ReturnEarly(frees)
    PROVE  IsScreen(tty') /\ LineInv' /\ EchoInv'
<1>1. /\ pc' = "read" /\ UNCHANGED << cmd_buffer, cmd_idx >> /\ wrapped' = FALSE /\ carried' = TRUE
      /\ \E o \in Outputs : Show(o)
    BY DEF ReturnEarly, line
<1>2. IsScreen(tty) /\ LineInv
    BY DEF ShellInv
<1>3. IsScreen(tty') /\ tty'.x = 0
    BY <1>1, <1>2, ShowsText
<1>4. ShowsLast(tty.x)' /\ tty'.x <= cmd_idx'
    BY <1>1, <1>2, <1>3 DEF ShowsLast, LineInv
<1> QED BY <1>1, <1>2, <1>3, <1>4 DEF LineInv, EchoInv

(* The same for every command.                                             *)
LEMMA ExecuteKeeps ==
    ASSUME ShellInv, Execute
    PROVE  IsScreen(tty') /\ LineInv' /\ EchoInv'
<1>1. IsScreen(tty) /\ LineInv /\ EchoInv
    BY DEF ShellInv
<1>2. pc # "read" => tty.x = 0
    BY <1>1 DEF EchoInv
<1>3. CASE Simple \/ EmptyLine \/ OpenFails \/ CloseSuperblock \/ DiskFree \/ Summary
  <2>1. pc # "read" /\ \E str \in Outputs \cup {<< >>} : PrintAndPrompt(str)
      BY <1>3 DEF Simple, EmptyLine, OpenFails, CloseSuperblock, DiskFree, Summary, Dispatch
  <2> QED BY <1>1, <1>2, <2>1, PromptKeeps
<1>4. CASE Clear
    BY <1>4, ClearIsScreen, ResetKeeps DEF Clear
<1>5. CASE OpenSuperblock
  <2>1. pc = "dispatch" /\ pc' = "sb_read" /\ UNCHANGED << cmd_buffer, cmd_idx, tty, wrapped, carried >>
      BY <1>5 DEF OpenSuperblock, Dispatch, line, ghosts
  <2> QED BY <1>1, <1>2, <2>1 DEF LineInv, EchoInv
<1>6. CASE ReadSuperblock \/ DiskBuffer \/ DiskRead \/ StartSelfTest \/ Crash \/ PanicWithRegs
    BY <1>6, WithinKeeps DEF ReadSuperblock, DiskBuffer, DiskRead, StartSelfTest, Crash, PanicWithRegs
<1>7. CASE SelfTestHeap \/ SelfTestAta
    BY <1>7, WithinKeeps DEF SelfTestHeap, SelfTestAta, Kmalloc
<1>8. CASE DiskNoMemory \/ DiskRefused
    BY <1>8, ReturnEarlyKeeps DEF DiskNoMemory, DiskRefused, Dispatch
<1>9. CASE Reboot
  <2>1. pc # "read" /\ pc' = "off" /\ UNCHANGED << cmd_buffer, cmd_idx, wrapped, carried >> /\ \E o \in Outputs : Show(o)
      BY <1>9 DEF Reboot, Dispatch, line, ghosts
  <2>2. IsScreen(tty') /\ tty'.x = 0
      BY <1>1, <2>1, ShowsText
  <2> QED BY <1>1, <2>1, <2>2 DEF LineInv, EchoInv
<1> QED BY <1>3, <1>4, <1>5, <1>6, <1>7, <1>8, <1>9 DEF Execute

(* What is held at each place, and how the calls take and give back.       *)
LEMMA HoldsFacts ==
    /\ DOMAIN Holds = {"read", "dispatch", "sb_read", "sb_close", "disk_lba", "disk_free", "heap1", "heap2",
                       "heap_free1", "heap3", "heap_free", "ata1", "ata_free", "summary", "page_fault", "off"}
    /\ \A w \in {"read", "dispatch", "heap1", "ata1", "summary", "page_fault", "off"} : Holds[w] = {}
    /\ Holds["sb_read"] = {"fd"} /\ Holds["sb_close"] = {"fd"}
    /\ Holds["disk_lba"] = {"buf"} /\ Holds["disk_free"] = {"buf"}
    /\ Holds["heap2"] = {"ptr1"} /\ Holds["heap_free1"] = {"ptr1", "ptr2"}
    /\ Holds["heap3"] = {"ptr2"} /\ Holds["heap_free"] = {"ptr2", "ptr3"}
    /\ Holds["ata_free"] = {"buffer"}
BY DEF Holds

LEMMA HeldKeeps ==
    ASSUME HeldInv, [Next]_vars
    PROVE  HeldInv'
<1>1. pc \in DOMAIN Holds /\ held = Holds[pc]
    BY DEF HeldInv
<1>2. CASE UNCHANGED << pc, held >>
    BY <1>1, <1>2 DEF HeldInv
<1>3. CASE Enter
  <2>1. pc = "read" /\ pc' = "dispatch" /\ held' = held
      BY <1>3 DEF Enter
  <2> QED BY <1>1, <2>1, HoldsFacts DEF HeldInv
<1>4. CASE Simple \/ EmptyLine \/ Clear \/ OpenFails \/ Summary
  <2>1. pc \in {"dispatch", "summary"} /\ pc' = "read" /\ held' = held
      BY <1>4 DEF Simple, EmptyLine, Clear, OpenFails, Summary, Dispatch, PrintAndPrompt, ResetPrompt
  <2> QED BY <1>1, <2>1, HoldsFacts DEF HeldInv
<1>5. CASE OpenSuperblock \/ ReadSuperblock \/ CloseSuperblock
  <2>1. \/ pc = "dispatch" /\ pc' = "sb_read" /\ held' = {"fd"}
        \/ pc = "sb_read" /\ pc' = "sb_close" /\ held' = held
        \/ pc = "sb_close" /\ pc' = "read" /\ held' = held \ {"fd"}
      BY <1>5 DEF OpenSuperblock, ReadSuperblock, CloseSuperblock, Dispatch, Within, PrintAndPrompt, ResetPrompt
  <2> QED BY <1>1, <2>1, HoldsFacts DEF HeldInv
<1>6. CASE DiskBuffer \/ DiskNoMemory \/ DiskRefused \/ DiskRead \/ DiskFree
  <2>1. \/ pc = "dispatch" /\ pc' = "disk_lba" /\ held' = {"buf"}
        \/ pc = "dispatch" /\ pc' = "read" /\ held' = held \ {}
        \/ pc = "disk_lba" /\ pc' = "disk_free" /\ held' = held
        \/ pc \in {"disk_lba", "disk_free"} /\ pc' = "read" /\ held' = held \ {"buf"}
      BY <1>6 DEF DiskBuffer, DiskNoMemory, DiskRefused, DiskRead, DiskFree, Dispatch, Within,
                  ReturnEarly, PrintAndPrompt, ResetPrompt
  <2> QED BY <1>1, <2>1, HoldsFacts DEF HeldInv
<1>7. CASE StartSelfTest
  <2>1. pc = "dispatch" /\ pc' = "heap1" /\ held' = held
      BY <1>7 DEF StartSelfTest, Within
  <2> QED BY <1>1, <2>1, HoldsFacts DEF HeldInv
<1>8. CASE SelfTestHeap
  <2>1. \/ pc = "heap1" /\ (\/ pc' = "heap2" /\ held' = held \cup {"ptr1"}
                            \/ pc' = "ata1" /\ held' = held \ {})
        \/ pc = "heap2" /\ (\/ pc' = "heap_free1" /\ held' = held \cup {"ptr2"}
                            \/ pc' = "ata1" /\ held' = held \ {"ptr1"})
        \/ pc = "heap_free1" /\ pc' = "heap3" /\ held' = held \ {"ptr1"}
        \/ pc = "heap3" /\ (\/ pc' = "heap_free" /\ held' = held \cup {"ptr3"}
                            \/ pc' = "ata1" /\ held' = held \ {"ptr2"})
        \/ pc = "heap_free" /\ pc' = "ata1" /\ held' = held \ {"ptr2", "ptr3"}
      BY <1>8 DEF SelfTestHeap, Kmalloc, Within
  <2>2. pc' \in DOMAIN Holds
      BY <2>1, HoldsFacts
  <2>3. {"ptr1", "ptr2"} \ {"ptr1"} = {"ptr2"}
      OBVIOUS
  <2>4. held' = Holds[pc']
      BY <1>1, <2>1, <2>3, HoldsFacts
  <2> QED BY <2>2, <2>4 DEF HeldInv
<1>9. CASE SelfTestAta
  <2>1. \/ pc = "ata1" /\ pc' = "ata_free" /\ held' = held \cup {"buffer"}
        \/ pc = "ata1" /\ pc' = "summary" /\ held' = held \ {}
        \/ pc = "ata_free" /\ pc' = "summary" /\ held' = held \ {"buffer"}
      BY <1>9 DEF SelfTestAta, Kmalloc, Within
  <2> QED BY <1>1, <2>1, HoldsFacts DEF HeldInv
<1>10. CASE Reboot \/ Crash \/ PanicWithRegs
  <2>1. pc \in {"dispatch", "page_fault"} /\ pc' \in {"page_fault", "off"} /\ held' = held
      BY <1>10 DEF Reboot, Crash, PanicWithRegs, Dispatch, Within
  <2> QED BY <1>1, <2>1, HoldsFacts DEF HeldInv
<1>11. Erase \/ (\E ch \in Keys : Echo(ch)) \/ Off \/ UNCHANGED vars => UNCHANGED << pc, held >>
    BY DEF Erase, Echo, Off, vars
<1> QED BY <1>2, <1>3, <1>4, <1>5, <1>6, <1>7, <1>8, <1>9, <1>10, <1>11 DEF Next, Execute, Type

-----------------------------------------------------------------------------
(* Typing.  The buffer after a key, in numbers.                            *)
LEMMA EnterKeeps ==
    ASSUME ShellInv, Enter
    PROVE  IsScreen(tty') /\ LineInv' /\ EchoInv'
<1>1. IsScreen(tty) /\ LineInv /\ EchoInv
    BY DEF ShellInv
<1>2. PICK t : t = tty
    OBVIOUS
<1>3. tty' = term_print(t, << Newline >>) /\ pc' = "dispatch" /\ cmd_idx' = cmd_idx
      /\ cmd_buffer' = [cmd_buffer EXCEPT ![cmd_idx + 1] = NUL] /\ UNCHANGED << wrapped, carried >>
    BY <1>2 DEF Enter, Show, ghosts
<1>4. IsScreen(tty') /\ tty'.x = 0
  <2>1. << Newline >> # << >> /\ << Newline >>[Len(<< Newline >>)] = Newline
      OBVIOUS
  <2> QED BY <1>1, <1>2, <1>3, <2>1, PrintKeeps, TextFacts
<1>5. LineInv'
  <2>1. cmd_idx + 1 \in 1..CMD_BUF_SIZE /\ cmd_idx + 1 > cmd_idx
      BY <1>1, ShellAssumption DEF LineInv
  <2>2. cmd_buffer' = cmd_buffer
      BY <1>1, <1>3, <2>1 DEF LineInv
  <2> QED BY <1>1, <1>3, <2>2 DEF LineInv
<1> QED BY <1>1, <1>3, <1>4, <1>5 DEF EchoInv

LEMMA EraseKeeps ==
    ASSUME ShellInv, Erase
    PROVE  IsScreen(tty') /\ LineInv' /\ EchoInv'
<1>1. IsScreen(tty) /\ LineInv /\ EchoInv
    BY DEF ShellInv
<1>2. PICK t : t = tty
    OBVIOUS
<1>3. /\ tty' = term_print(t, << Backspace >>) /\ pc = "read" /\ pc' = "read" /\ cmd_idx > 0 /\ cmd_idx' = cmd_idx - 1
      /\ cmd_buffer' = [cmd_buffer EXCEPT ![cmd_idx] = NUL] /\ UNCHANGED << wrapped, carried >>
    BY <1>2 DEF Erase, Show, ghosts
<1>4. tty' = PutChar(t, Backspace) /\ IsScreen(tty')
  <2>1. Len(<< Backspace >>) = 1 /\ << Backspace >>[1] = Backspace
      OBVIOUS
  <2> QED BY <1>1, <1>2, <1>3, <2>1, PrintKeeps, TextFacts
<1>5. LineInv'
  <2>1. /\ cmd_idx \in 1..(CMD_BUF_SIZE - 1) /\ CMD_BUF_SIZE \in Nat
        /\ cmd_buffer \in [1..CMD_BUF_SIZE -> Keys \cup {NUL}]
        /\ \A k \in 1..CMD_BUF_SIZE : cmd_buffer[k] = NUL <=> k > cmd_idx
      BY <1>1, <1>3, ShellAssumption DEF LineInv
  <2>2. \A k \in 1..CMD_BUF_SIZE : cmd_buffer'[k] = IF k = cmd_idx THEN NUL ELSE cmd_buffer[k]
      BY <1>3, <2>1
  <2>3. \A k \in 1..CMD_BUF_SIZE : k > cmd_idx - 1 <=> k = cmd_idx \/ k > cmd_idx
      BY <2>1
  <2>4. \A k \in 1..CMD_BUF_SIZE : cmd_buffer'[k] = NUL <=> k > cmd_idx'
      BY <1>3, <2>1, <2>2, <2>3
  <2>5. cmd_buffer' \in [1..CMD_BUF_SIZE -> Keys \cup {NUL}] /\ cmd_idx' \in 0..(CMD_BUF_SIZE - 1)
      BY <1>3, <2>1
  <2> QED BY <2>4, <2>5 DEF LineInv
<1>6. /\ cmd_idx \in Nat /\ cmd_idx' \in Nat /\ cmd_buffer \in [1..CMD_BUF_SIZE -> Keys \cup {NUL}]
      /\ CMD_BUF_SIZE \in Nat /\ cmd_idx < CMD_BUF_SIZE /\ Len(PROMPT) \in Nat
    BY <1>1, <1>3, ShellAssumption, TextFacts DEF LineInv
<1>7. \A j \in 1..cmd_idx' : cmd_buffer'[cmd_idx' + 1 - j] = cmd_buffer[cmd_idx + 1 - (j + 1)]
    BY <1>3, <1>6
<1>8. CASE t.x > 0
  <2>1. PICK cell : cell = [t.cell EXCEPT ![Index(t) - 1] = Space]
      OBVIOUS
  <2>2. tty' = [x |-> t.x - 1, y |-> t.y, cell |-> cell]
      BY <1>1, <1>2, <1>4, <1>8, <2>1, PutCharIs
  <2>3. /\ t.x \in Nat /\ t.cell \in [Cells -> Characters] /\ Index(t) \in Cells
        /\ Index(t) = t.y * VGA_COLS + t.x /\ t.y * VGA_COLS \in Nat /\ VGA_COLS * VGA_ROWS \in Nat
      BY <1>1, <1>2, ScreenFacts, RowFacts
  <2>4. PICK row : row = t.y * VGA_COLS
      OBVIOUS
  <2>5. \A k \in Nat : k < Index(t) - 1 => cell[k] = t.cell[k]
    <3>1. \A k \in Nat : k < Index(t) - 1 => k \in Cells /\ k # Index(t) - 1
        BY <2>3 DEF Cells
    <3> QED BY <2>1, <2>3, <3>1
  <2>6. Index(tty)' = Index(t) - 1 /\ tty'.x = t.x - 1 /\ tty'.y = t.y /\ tty'.cell = cell
      BY <2>2, <2>3 DEF Index
  <2>7. ASSUME NEW n \in Nat, n < t.x, n < cmd_idx, ShowsLast(n + 1) PROVE ShowsLast(n)'
    <3> SUFFICES ASSUME NEW j \in 1..n PROVE tty'.cell[Index(tty)' - j] = cmd_buffer'[cmd_idx' + 1 - j]
        BY DEF ShowsLast
    <3>1. j + 1 \in 1..(n + 1) /\ j \in 1..cmd_idx' /\ Index(t) - 1 - j \in Nat /\ Index(t) - 1 - j < Index(t) - 1
          /\ Index(t) - 1 - j = Index(t) - (j + 1)
        BY <1>3, <1>6, <2>3, <2>7
    <3>2. t.cell[Index(t) - (j + 1)] = cmd_buffer[cmd_idx + 1 - (j + 1)]
        BY <1>2, <2>7, <3>1 DEF ShowsLast
    <3> QED BY <1>7, <2>5, <2>6, <3>1, <3>2
  <2>8. ASSUME ~wrapped, carried PROVE tty'.x <= cmd_idx' /\ ShowsLast(tty.x)'
    <3>1. t.x <= cmd_idx /\ ShowsLast(t.x)
        BY <1>1, <1>2, <1>3, <2>8 DEF EchoInv
    <3>2. PICK n : n = t.x - 1
        OBVIOUS
    <3>3. n \in Nat /\ n < t.x /\ n < cmd_idx /\ n + 1 = t.x
        BY <1>6, <1>8, <2>3, <3>1, <3>2
    <3>4. ShowsLast(n)'
        BY <2>7, <3>1, <3>3
    <3> QED BY <1>3, <1>6, <2>6, <3>2, <3>3, <3>4
  <2>9. ASSUME ~wrapped, ~carried PROVE tty'.x = Len(PROMPT) + cmd_idx' /\ ShowsLast(cmd_idx)' /\ ShowsPrompt'
    <3>1. t.x = Len(PROMPT) + cmd_idx /\ ShowsLast(cmd_idx) /\ ShowsPrompt
        BY <1>1, <1>2, <1>3, <2>9 DEF EchoInv
    <3>2. PICK n : n = cmd_idx - 1
        OBVIOUS
    <3>3. n \in Nat /\ n < t.x /\ n < cmd_idx /\ n + 1 = cmd_idx /\ n = cmd_idx'
        BY <1>3, <1>6, <3>1, <3>2
    <3>4. ShowsLast(n)'
        BY <2>7, <3>1, <3>3
    <3>5. ShowsPrompt'
      <4> SUFFICES ASSUME NEW j \in 1..Len(PROMPT) PROVE tty'.cell[tty'.y * VGA_COLS + j - 1] = PROMPT[j]
          BY DEF ShowsPrompt
      <4>1. row + j - 1 \in Nat /\ row + j - 1 < Index(t) - 1
          BY <1>3, <1>6, <2>3, <2>4, <3>1
      <4>2. t.cell[row + j - 1] = PROMPT[j]
          BY <1>2, <2>4, <3>1 DEF ShowsPrompt
      <4> QED BY <2>4, <2>5, <2>6, <4>1, <4>2
    <3> QED BY <1>3, <1>6, <2>3, <2>6, <3>1, <3>3, <3>4, <3>5
  <2> QED BY <1>1, <1>3, <1>4, <1>5, <2>8, <2>9 DEF EchoInv
<1>9. CASE t.x = 0
  <2>1. tty' = t
      BY <1>1, <1>2, <1>4, <1>9, PutCharIs
  <2>2. ~wrapped => carried
      BY <1>1, <1>2, <1>3, <1>6, <1>9 DEF EchoInv
  <2>3. ShowsLast(tty.x)' /\ tty'.x <= cmd_idx'
      BY <1>6, <1>9, <2>1 DEF ShowsLast
  <2> QED BY <1>1, <1>3, <1>4, <1>5, <2>2, <2>3 DEF EchoInv
<1>10. t.x \in Nat
    BY <1>1, <1>2, ScreenFacts
<1> QED BY <1>8, <1>9, <1>10

LEMMA EchoKeeps ==
    ASSUME ShellInv, NEW ch \in Keys, Echo(ch)
    PROVE  IsScreen(tty') /\ LineInv' /\ EchoInv'
<1>1. IsScreen(tty) /\ LineInv /\ EchoInv
    BY DEF ShellInv
<1>2. PICK t : t = tty
    OBVIOUS
<1>3. /\ tty' = term_print(t, << ch >>) /\ pc = "read" /\ pc' = "read"
      /\ cmd_idx < CMD_BUF_SIZE - 1 /\ cmd_idx' = cmd_idx + 1
      /\ cmd_buffer' = [cmd_buffer EXCEPT ![cmd_idx + 1] = ch]
      /\ wrapped' = (wrapped \/ tty'.x = 0) /\ carried' = carried
    BY <1>2 DEF Echo, Show
<1>4. tty' = PutChar(t, ch) /\ IsScreen(tty')
  <2>1. Len(<< ch >>) = 1 /\ << ch >>[1] = ch
      OBVIOUS
  <2> QED BY <1>1, <1>2, <1>3, <2>1, PrintKeeps, TextFacts
<1>5. /\ cmd_idx \in Nat /\ cmd_idx' \in Nat /\ cmd_buffer \in [1..CMD_BUF_SIZE -> Keys \cup {NUL}]
      /\ CMD_BUF_SIZE \in Nat /\ cmd_idx + 1 < CMD_BUF_SIZE /\ Len(PROMPT) \in Nat
      /\ ch # NUL /\ ch \notin {Newline, Backspace}
      /\ \A k \in 1..CMD_BUF_SIZE : cmd_buffer[k] = NUL <=> k > cmd_idx
    BY <1>1, <1>3, ShellAssumption, TextFacts DEF LineInv, NUL
<1>6. /\ \A k \in 1..CMD_BUF_SIZE : cmd_buffer'[k] = IF k = cmd_idx + 1 THEN ch ELSE cmd_buffer[k]
      /\ cmd_buffer' \in [1..CMD_BUF_SIZE -> Keys \cup {NUL}]
    BY <1>3, <1>5
<1>7. LineInv'
  <2>1. \A k \in 1..CMD_BUF_SIZE : k > cmd_idx <=> k = cmd_idx + 1 \/ k > cmd_idx + 1
      BY <1>5
  <2>2. \A k \in 1..CMD_BUF_SIZE : cmd_buffer'[k] = NUL <=> k > cmd_idx'
      BY <1>3, <1>5, <1>6, <2>1
  <2>3. cmd_idx' \in 0..(CMD_BUF_SIZE - 1)
      BY <1>3, <1>5
  <2> QED BY <1>6, <2>2, <2>3 DEF LineInv
<1>8. ASSUME wrapped' # TRUE
      PROVE  EchoInv'
  <2>1. ~wrapped /\ tty'.x # 0 /\ wrapped' = FALSE
      BY <1>1, <1>3, <1>8 DEF EchoInv
  <2>2. /\ t.x \in Nat /\ t.x < VGA_COLS /\ VGA_COLS \in Nat /\ t.cell \in [Cells -> Characters] /\ Index(t) \in Cells
        /\ Index(t) = t.y * VGA_COLS + t.x /\ t.y * VGA_COLS \in Nat
      BY <1>1, <1>2, ScreenFacts, RowFacts
  <2> DEFINE row == t.y * VGA_COLS
  <2>2a. Index(t) = row + t.x /\ row \in Nat /\ t.x \in Nat
      BY <2>2
  <2>2b. Index(t) \in Nat /\ Index(t) >= t.x
    <3> HIDE DEF row
    <3> QED BY <2>2a
  <2>3. PICK cell : cell = [t.cell EXCEPT ![Index(t)] = ch]
      OBVIOUS
  <2>4. t.x + 1 < VGA_COLS
    <3>1. SUFFICES ASSUME t.x + 1 >= VGA_COLS PROVE FALSE
        BY <2>2
    <3>2. tty' = NextRow(t, cell)
        BY <1>1, <1>2, <1>4, <1>5, <2>3, <3>1, PutCharIs
    <3>3. NextRow(t, cell).x = 0
        BY ClearIsScreen DEF NextRow
    <3> QED BY <2>1, <3>2, <3>3
  <2>5. tty' = [x |-> t.x + 1, y |-> t.y, cell |-> cell]
      BY <1>1, <1>2, <1>4, <1>5, <2>3, <2>4, PutCharIs
  <2>6. Index(tty)' = Index(t) + 1 /\ tty'.x = t.x + 1 /\ tty'.y = t.y /\ tty'.cell = cell
      BY <2>2, <2>5 DEF Index
  <2>7. cell[Index(t)] = ch /\ \A k \in Nat : k < Index(t) => cell[k] = t.cell[k]
    <3>1. VGA_COLS * VGA_ROWS \in Nat
        BY <1>1, <1>2, ScreenFacts, RowFacts
    <3>2. \A k \in Nat : k < Index(t) => k \in Cells /\ k # Index(t)
        BY <2>2, <2>2b, <3>1 DEF Cells
    <3> QED BY <2>2, <2>3, <3>2
  <2>8. ASSUME NEW n \in Nat, n <= t.x, n <= cmd_idx, ShowsLast(n) PROVE ShowsLast(n + 1)'
    <3> SUFFICES ASSUME NEW j \in 1..(n + 1) PROVE tty'.cell[Index(tty)' - j] = cmd_buffer'[cmd_idx' + 1 - j]
        BY DEF ShowsLast
    <3>1. CASE j = 1
      <4>1. Index(tty)' - j = Index(t) /\ cmd_idx' + 1 - j = cmd_idx + 1 /\ cmd_idx + 1 \in 1..CMD_BUF_SIZE
          BY <1>3, <1>5, <2>2, <2>6, <3>1
      <4> QED BY <1>6, <2>6, <2>7, <4>1
    <3>2. CASE j # 1
      <4>1. PICK i : i = j - 1
          OBVIOUS
      <4>2. /\ i \in 1..n /\ Index(tty)' - j = Index(t) - i /\ Index(t) - i \in Nat /\ Index(t) - i < Index(t)
            /\ cmd_idx' + 1 - j = cmd_idx + 1 - i /\ cmd_idx + 1 - i \in 1..CMD_BUF_SIZE /\ cmd_idx + 1 - i # cmd_idx + 1
        <5>1. Index(tty)' = Index(t) + 1 /\ Index(t) \in Nat /\ n <= Index(t) /\ n \in Nat
            BY <2>6, <2>8, <2>2a, <2>2b
        <5>2. cmd_idx' = cmd_idx + 1 /\ cmd_idx \in Nat /\ CMD_BUF_SIZE \in Nat /\ cmd_idx + 1 < CMD_BUF_SIZE /\ n <= cmd_idx
            BY <1>3, <1>5, <2>8
        <5>3. i \in 1..n /\ j = i + 1
            BY <2>8, <3>2, <4>1
        <5> QED BY <5>1, <5>2, <5>3
      <4>3. t.cell[Index(t) - i] = cmd_buffer[cmd_idx + 1 - i]
          BY <1>2, <2>8, <4>2 DEF ShowsLast
      <4> QED BY <1>6, <2>6, <2>7, <4>2, <4>3
    <3> QED BY <3>1, <3>2
  <2>9. ASSUME carried PROVE tty'.x <= cmd_idx' /\ ShowsLast(tty.x)'
    <3>1. t.x <= cmd_idx /\ ShowsLast(t.x)
        BY <1>1, <1>2, <1>3, <2>1, <2>9 DEF EchoInv
    <3>2. ShowsLast(t.x + 1)'
        BY <2>2, <2>8, <3>1
    <3>3. PICK n : n = t.x + 1
        OBVIOUS
    <3> QED BY <1>3, <1>5, <2>2, <2>6, <3>1, <3>2, <3>3
  <2>10. ASSUME ~carried PROVE tty'.x = Len(PROMPT) + cmd_idx' /\ ShowsLast(cmd_idx)' /\ ShowsPrompt'
    <3>1. t.x = Len(PROMPT) + cmd_idx /\ ShowsLast(cmd_idx) /\ ShowsPrompt
        BY <1>1, <1>2, <1>3, <2>1, <2>10 DEF EchoInv
    <3>2. PICK n : n = cmd_idx
        OBVIOUS
    <3>3. n \in Nat /\ n <= t.x /\ n <= cmd_idx /\ ShowsLast(n) /\ n + 1 = cmd_idx'
        BY <1>3, <1>5, <3>1, <3>2
    <3>4. ShowsLast(n + 1)'
        BY <2>8, <3>3
    <3>5. ShowsPrompt'
      <4> SUFFICES ASSUME NEW j \in 1..Len(PROMPT) PROVE tty'.cell[tty'.y * VGA_COLS + j - 1] = PROMPT[j]
          BY DEF ShowsPrompt
      <4>1. row + j - 1 \in Nat /\ row + j - 1 < Index(t)
        <5> HIDE DEF row
        <5> QED BY <1>5, <2>2a, <3>1
      <4>2. t.cell[row + j - 1] = PROMPT[j]
          BY <1>2, <3>1 DEF ShowsPrompt
      <4> QED BY <2>6, <2>7, <4>1, <4>2
    <3> QED BY <1>3, <1>5, <2>2, <2>6, <3>1, <3>3, <3>4, <3>5
  <2> QED BY <1>1, <1>3, <2>1, <2>9, <2>10 DEF EchoInv
<1>9. wrapped' \in BOOLEAN
    BY <1>1, <1>3 DEF EchoInv
<1>10. wrapped' = TRUE => EchoInv'
    BY <1>1, <1>3 DEF EchoInv
<1> QED BY <1>4, <1>7, <1>8, <1>10

-----------------------------------------------------------------------------
LEMMA InitShellInv == Init => ShellInv
<1> SUFFICES ASSUME Init PROVE ShellInv
    OBVIOUS
<1>1. PICK o \in Outputs : tty = term_print(term_print(term_clear, o), PROMPT)
    BY DEF Init
<1>2. cmd_buffer = Cleared /\ cmd_idx = 0 /\ pc = "read" /\ held = {} /\ wrapped = FALSE /\ carried = FALSE
    BY DEF Init
<1>3. PICK t : t = term_print(term_clear, o)
    OBVIOUS
<1>4. PICK c : c = term_clear
    OBVIOUS
<1>5. IsScreen(t) /\ t.x = 0
    BY <1>3, <1>4, ClearIsScreen, PrintKeeps, TextFacts
<1>6. PICK p : p = tty
    OBVIOUS
<1>7. /\ IsScreen(p) /\ p.x = Len(PROMPT)
      /\ \A j \in 1..Len(PROMPT) : p.cell[p.y * VGA_COLS + j - 1] = PROMPT[j]
    BY <1>1, <1>3, <1>5, <1>6, PromptShown
<1>8. LineInv
    BY <1>2, ShellAssumption DEF LineInv, Cleared
<1>9. HeldInv
    BY <1>2, HoldsFacts DEF HeldInv
<1>10. EchoInv
  <2>1. ShowsPrompt /\ tty.x = Len(PROMPT) + cmd_idx
      BY <1>2, <1>6, <1>7, TextFacts DEF ShowsPrompt
  <2>2. ShowsLast(cmd_idx)
      BY <1>2 DEF ShowsLast
  <2> QED BY <1>2, <2>1, <2>2 DEF EchoInv
<1> QED BY <1>6, <1>7, <1>8, <1>9, <1>10 DEF ShellInv

LEMMA NextShellInv == ShellInv /\ [Next]_vars => ShellInv'
<1> SUFFICES ASSUME ShellInv, [Next]_vars PROVE ShellInv'
    OBVIOUS
<1>1. HeldInv'
    BY HeldKeeps DEF ShellInv
<1>2. CASE Off \/ UNCHANGED vars
  <2>1. UNCHANGED << cmd_buffer, cmd_idx, tty, pc, wrapped, carried >>
      BY <1>2 DEF Off, vars, line, ghosts
  <2> QED BY <1>1, <2>1 DEF ShellInv, LineInv, EchoInv, ShowsLast, ShowsPrompt
<1>3. CASE Type
    BY <1>1, <1>3, EnterKeeps, EraseKeeps, EchoKeeps DEF Type, ShellInv
<1>4. CASE Execute
    BY <1>1, <1>4, ExecuteKeeps DEF ShellInv
<1> QED BY <1>2, <1>3, <1>4 DEF Next

(* The inductive invariant of the line editor and the commands.            *)
THEOREM ShellInvariant == Spec => []ShellInv
BY InitShellInv, NextShellInv, PTL DEF Spec

(* term_print never writes outside g_vga_buffer: the cursor that shell_run *)
(* and the commands leave behind is on the screen, for every size of it.   *)
THEOREM ShellCursorOnScreen == Spec => []CursorOnScreen
<1>1. ShellInv => CursorOnScreen
    BY DEF ShellInv, IsScreen, CursorOnScreen
<1> QED BY <1>1, ShellInvariant, PTL

(* Every return of execute_command and of the self tests has freed its     *)
(* buffers and closed its descriptor.                                      *)
THEOREM ShellHoldsNothing == Spec => []NothingHeldAtPrompt
<1>1. ShellInv => NothingHeldAtPrompt
    BY HoldsFacts DEF ShellInv, HeldInv, NothingHeldAtPrompt
<1> QED BY <1>1, ShellInvariant, PTL

(* The string in the buffer is what was typed.                             *)
LEMMA LineIs ==
    ASSUME LineInv
    PROVE  /\ Line \in Seq(Keys) /\ Len(Line) = cmd_idx
           /\ \A j \in 1..cmd_idx : Line[j] = cmd_buffer[j]
<1>1. /\ cmd_idx \in Nat /\ CMD_BUF_SIZE \in Nat /\ cmd_idx < CMD_BUF_SIZE
      /\ cmd_buffer \in [1..CMD_BUF_SIZE -> Keys \cup {NUL}]
      /\ \A k \in 1..CMD_BUF_SIZE : cmd_buffer[k] = NUL <=> k > cmd_idx
    BY ShellAssumption DEF LineInv
<1>2. { k \in 1..CMD_BUF_SIZE : \A j \in 1..k : cmd_buffer[j] # NUL } = 1..cmd_idx
  <2>1. ASSUME NEW k \in 1..CMD_BUF_SIZE, \A j \in 1..k : cmd_buffer[j] # NUL PROVE k \in 1..cmd_idx
    <3>1. k \in 1..k
        OBVIOUS
    <3> QED BY <1>1, <2>1, <3>1
  <2>2. ASSUME NEW k \in 1..cmd_idx PROVE k \in 1..CMD_BUF_SIZE /\ \A j \in 1..k : cmd_buffer[j] # NUL
      BY <1>1
  <2> QED BY <2>1, <2>2
<1>3. Cardinality(1..cmd_idx) = cmd_idx
  <2>1. PICK n \in Nat : n = cmd_idx
      BY <1>1
  <2>2. Cardinality(1..n) = n
      BY FS_Interval
  <2> QED BY <2>1, <2>2
<1>4. Line = SubSeq(cmd_buffer, 1, cmd_idx)
    BY <1>2, <1>3 DEF Line
<1>5. Line = [j \in 1..cmd_idx |-> cmd_buffer[j]]
    BY <1>1, <1>4
<1>6. \A j \in 1..cmd_idx : cmd_buffer[j] \in Keys
    BY <1>1
<1>7. Line \in [1..cmd_idx -> Keys]
    BY <1>5, <1>6
<1>8. Line \in Seq(Keys) /\ Len(Line) = cmd_idx
    BY <1>1, <1>5, <1>7
<1> QED BY <1>5, <1>8

LEMMA ConcatIs ==
    ASSUME NEW S, NEW a \in Seq(S), NEW b \in Seq(S)
    PROVE  a \o b = [k \in 1..(Len(a) + Len(b)) |-> IF k <= Len(a) THEN a[k] ELSE b[k - Len(a)]]
<1> DEFINE c == a \o b
<1>1. c \in Seq(S) /\ Len(c) = Len(a) + Len(b)
      /\ \A i \in 1..(Len(a) + Len(b)) : c[i] = IF i <= Len(a) THEN a[i] ELSE b[i - Len(a)]
    BY ConcatProperties
<1> HIDE DEF c
<1>2. c = [k \in 1..Len(c) |-> c[k]]
    BY <1>1, LenProperties
<1>3. c = [k \in 1..(Len(a) + Len(b)) |-> IF k <= Len(a) THEN a[k] ELSE b[k - Len(a)]]
    BY <1>1, <1>2
<1> QED BY <1>3 DEF c

(* What execute_command will find in cmd_buffer is what the row shows.     *)
THEOREM ShellShowsCommand == Spec => []ScreenShowsCommand
<1>1. ShellInv => ScreenShowsCommand
  <2> SUFFICES ASSUME ShellInv, pc = "read", ~wrapped
               PROVE  /\ BehindCursor(tty) = {Space}
                      /\ IF carried THEN IsSuffix(BeforeCursor(tty), Line)
                         ELSE BeforeCursor(tty) = PROMPT \o Line
      BY DEF ScreenShowsCommand
  <2>1. IsScreen(tty) /\ LineInv /\ EchoInv
      BY DEF ShellInv
  <2>2. PICK t : t = tty
      OBVIOUS
  <2>3. /\ t.x \in Nat /\ t.x < VGA_COLS /\ VGA_COLS \in Nat /\ VGA_COLS * VGA_ROWS \in Nat
        /\ Index(t) = t.y * VGA_COLS + t.x /\ t.y * VGA_COLS \in Nat
        /\ t.y * VGA_COLS + VGA_COLS <= VGA_COLS * VGA_ROWS
        /\ \A k \in Cells : k >= Index(t) => t.cell[k] = Space
      BY <2>1, <2>2, ScreenFacts, RowFacts
  <2>4. PICK row : row = t.y * VGA_COLS
      OBVIOUS
  <2>5. BehindCursor(t) = {Space}
    <3>1. \A k \in t.x..(VGA_COLS - 1) : t.cell[row + k] = Space
      <4>1. \A k \in t.x..(VGA_COLS - 1) : row + k \in Cells /\ row + k >= Index(t)
          BY <2>3, <2>4 DEF Cells
      <4> QED BY <2>3, <4>1
    <3>2. t.x \in t.x..(VGA_COLS - 1)
        BY <2>3
    <3> QED BY <2>4, <3>1, <3>2 DEF BehindCursor
  <2>6. cmd_idx \in Nat /\ Line \in Seq(Keys) /\ Len(Line) = cmd_idx /\ \A j \in 1..cmd_idx : Line[j] = cmd_buffer[j]
      BY <2>1, LineIs DEF LineInv
  <2>7. BeforeCursor(t) = [k \in 1..t.x |-> t.cell[row + k - 1]]
      BY <2>4 DEF BeforeCursor
  <2>8. ASSUME carried PROVE IsSuffix(BeforeCursor(t), Line)
    <3>1. t.x <= cmd_idx /\ \A j \in 1..t.x : t.cell[Index(t) - j] = cmd_buffer[cmd_idx + 1 - j]
        BY <2>1, <2>2, <2>8 DEF EchoInv, ShowsLast
    <3>2. PICK s : s = BeforeCursor(t)
        OBVIOUS
    <3>3. Len(s) = t.x /\ s = [k \in 1..t.x |-> t.cell[row + k - 1]]
        BY <2>3, <2>7, <3>2
    <3>4. \A j \in 1..t.x : s[t.x + 1 - j] = Line[cmd_idx + 1 - j]
      <4> SUFFICES ASSUME NEW j \in 1..t.x PROVE s[t.x + 1 - j] = Line[cmd_idx + 1 - j]
          OBVIOUS
      <4>1. t.x + 1 - j \in 1..t.x /\ row + (t.x + 1 - j) - 1 = Index(t) - j /\ cmd_idx + 1 - j \in 1..cmd_idx
        <5>1. Index(t) = row + t.x /\ row \in Nat /\ t.x \in Nat /\ t.x <= cmd_idx /\ cmd_idx \in Nat
            BY <2>3, <2>4, <2>6, <3>1
        <5> QED BY <5>1
      <4> QED BY <2>6, <3>1, <3>3, <4>1
    <3>5. PICK l : l = Line
        OBVIOUS
    <3>6. PICK a : a = Reverse(s)
        OBVIOUS
    <3>7. PICK b : b = Reverse(l)
        OBVIOUS
    <3>8. Len(a) = t.x /\ a = [i \in 1..t.x |-> s[(t.x - i) + 1]]
        BY <2>3, <3>3, <3>6 DEF Reverse
    <3>9. Len(b) = cmd_idx /\ b = [i \in 1..cmd_idx |-> l[(cmd_idx - i) + 1]]
        BY <2>6, <3>5, <3>7 DEF Reverse
    <3>10. \A i \in 1..t.x : a[i] = b[i]
      <4> SUFFICES ASSUME NEW i \in 1..t.x PROVE a[i] = b[i]
          OBVIOUS
      <4>1. i \in 1..cmd_idx /\ (t.x - i) + 1 = t.x + 1 - i /\ (cmd_idx - i) + 1 = cmd_idx + 1 - i
          BY <2>3, <2>6, <3>1
      <4> QED BY <3>4, <3>5, <3>8, <3>9, <4>1
    <3>11. SubSeq(a, 1, t.x) = [i \in 1..t.x |-> a[i]] /\ SubSeq(b, 1, t.x) = [i \in 1..t.x |-> b[i]]
        BY <2>3, <2>6, <3>1, <3>8, <3>9
    <3>12. IsPrefix(a, b)
        BY <3>1, <3>8, <3>9, <3>10, <3>11 DEF IsPrefix
    <3> QED BY <3>2, <3>5, <3>6, <3>7, <3>12 DEF IsSuffix
  <2>9. ASSUME ~carried PROVE BeforeCursor(t) = PROMPT \o Line
    <3> DEFINE n == Len(PROMPT)
    <3>1. /\ t.x = n + cmd_idx
          /\ \A j \in 1..cmd_idx : t.cell[Index(t) - j] = cmd_buffer[cmd_idx + 1 - j]
          /\ \A j \in 1..n : t.cell[row + j - 1] = PROMPT[j]
        BY <2>1, <2>2, <2>4, <2>9 DEF EchoInv, ShowsLast, ShowsPrompt
    <3>2. n \in Nat /\ PROMPT \in Seq(STRING)
        BY TextFacts, ShellAssumption
    <3>3. PICK l : l = Line
        OBVIOUS
    <3>4. l \in Seq(Keys) /\ Len(l) = cmd_idx
        BY <2>6, <3>3
    <3>5. PROMPT \o l = [k \in 1..(n + cmd_idx) |-> IF k <= n THEN PROMPT[k] ELSE l[k - n]]
      <4> DEFINE S == STRING \cup Keys
      <4>1. PROMPT \in Seq(S) /\ l \in Seq(S)
          BY <3>2, <3>4, SeqMonotonic
      <4> HIDE DEF S
      <4> QED BY <3>4, <4>1, ConcatIs
    <3> HIDE DEF n
    <3>6. \A k \in 1..(n + cmd_idx) : t.cell[row + k - 1] = IF k <= n THEN PROMPT[k] ELSE l[k - n]
      <4> SUFFICES ASSUME NEW k \in 1..(n + cmd_idx)
                   PROVE  t.cell[row + k - 1] = IF k <= n THEN PROMPT[k] ELSE l[k - n]
          OBVIOUS
      <4>1. CASE k <= n
          BY <3>1, <3>2, <4>1
      <4>2. CASE k > n
        <5>1. PICK j : j = n + cmd_idx + 1 - k
            OBVIOUS
        <5>2. j \in 1..cmd_idx /\ Index(t) - j = row + k - 1 /\ cmd_idx + 1 - j = k - n /\ k - n \in 1..cmd_idx
            BY <2>3, <2>4, <2>6, <3>1, <3>2, <4>2, <5>1
        <5>3. t.cell[Index(t) - j] = cmd_buffer[cmd_idx + 1 - j]
            BY <3>1, <5>2
        <5>4. l[k - n] = cmd_buffer[k - n]
            BY <2>6, <3>3, <5>2
        <5>5. ~(k <= n)
            BY <3>2, <4>2
        <5> QED BY <5>2, <5>3, <5>4, <5>5
      <4> QED BY <2>6, <3>2, <4>1, <4>2
    <3> QED BY <2>7, <3>1, <3>3, <3>5, <3>6
  <2> QED BY <2>2, <2>5, <2>8, <2>9
<1> QED BY <1>1, ShellInvariant, PTL
=============================================================================
