------------------------------ MODULE Console ------------------------------
(***************************************************************************)
(* The text screen (kernel/drivers/console.c): a grid of Rows by Cols      *)
(* cells and a cursor, in VGA text mode (tab stops of 8) or drawn on the   *)
(* framebuffer (4).  Colours and pixels are left out.  The roll is what it *)
(* promises to show: the last Rows rows of a paper that never ends.        *)
(***************************************************************************)
EXTENDS Integers, Sequences

CONSTANTS
    Cols, Rows, \* VT_COLS, VT_ROWS, or those of the framebuffer
    TabStop     \* 8 or 4

ASSUME ConsoleAssumption ==
    Cols \in Nat \ {0} /\ Rows \in Nat \ {0} /\ TabStop \in Nat \ {0}

Cell == (0..(Rows - 1)) \X (0..(Cols - 1))
Blank == " "

\* console_clear.
Cleared == [cells |-> [p \in Cell |-> Blank], x |-> 0, y |-> 0]

NextStop(x) == (x \div TabStop + 1) * TabStop

\* The character alone; a backspace stops at the left edge.
Drawn(s, c) ==
    CASE c = "nl" -> [cells |-> s.cells, x |-> 0, y |-> s.y + 1]
      [] c = "cr" -> [s EXCEPT !.x = 0]
      [] c = "bs" -> IF s.x = 0 THEN s
                     ELSE [cells |-> [s.cells EXCEPT ![<<s.y, s.x - 1>>] = Blank], x |-> s.x - 1, y |-> s.y]
      [] c = "tab" -> [s EXCEPT !.x = NextStop(@)]
      [] OTHER -> [cells |-> [s.cells EXCEPT ![<<s.y, s.x>>] = c], x |-> s.x + 1, y |-> s.y]

\* Mutant of Scrolled: the last row keeps what it held.
ScrolledTwice(cells) == [p \in Cell |-> IF p[1] < Rows - 1 THEN cells[<<p[1] + 1, p[2]>>] ELSE cells[p]]

\* vt_scroll, fb_scroll.
Scrolled(cells) == [p \in Cell |-> IF p[1] < Rows - 1 THEN cells[<<p[1] + 1, p[2]>>] ELSE Blank]

\* vt_putc, fb_putc: the character, the wrap, the scroll.
Put(s, c) ==
    LET d == Drawn(s, c)
        w == IF d.x >= Cols THEN [cells |-> d.cells, x |-> 0, y |-> d.y + 1] ELSE d
    IN  IF w.y >= Rows THEN [cells |-> Scrolled(w.cells), x |-> w.x, y |-> Rows - 1] ELSE w

\* kprintf of the text t.
Puts(s, t) == LET f[i \in 0..Len(t)] == IF i = 0 THEN s ELSE Put(f[i - 1], t[i])
              IN  f[Len(t)]

-----------------------------------------------------------------------------
(* The roll: its rows, each a sequence of at most Cols characters, and the *)
(* column of the cursor, always in the last row.                           *)

NewRoll == [rows |-> << <<>> >>, col |-> 0]

Fill(row, n) == row \o [i \in 1..(n - Len(row)) |-> Blank]
Changed(row, i, c) == [Fill(row, i) EXCEPT ![i] = c]
NewRow(r) == [rows |-> Append(r.rows, <<>>), col |-> 0]

\* The roll with one character of its last row changed, and what a character
\* does before the row is full.
Changing(r, i, c, col) == [rows |-> [r.rows EXCEPT ![Len(r.rows)] = Changed(@, i, c)], col |-> col]
Moved(r, c) ==
    CASE c = "cr" -> [r EXCEPT !.col = 0]
      [] c = "tab" -> [r EXCEPT !.col = NextStop(@)]
      [] c = "bs" /\ r.col = 0 -> r
      [] c = "bs" /\ r.col > 0 -> Changing(r, r.col, Blank, r.col - 1)
      [] OTHER -> Changing(r, r.col + 1, c, r.col + 1)

RollPut(r, c) ==
    IF c = "nl" THEN NewRow(r)
    ELSE IF Moved(r, c).col >= Cols THEN NewRow(Moved(r, c)) ELSE Moved(r, c)

RollPuts(r, t) == LET f[i \in 0..Len(t)] == IF i = 0 THEN r ELSE RollPut(f[i - 1], t[i])
                  IN  f[Len(t)]

\* The part of the roll that a screen shows.
Window(r) ==
    LET n == Len(r.rows)
        above == IF n > Rows THEN n - Rows ELSE 0
    IN  [cells |-> [p \in Cell |-> IF above + p[1] + 1 <= n /\ p[2] + 1 <= Len(r.rows[above + p[1] + 1])
                                   THEN r.rows[above + p[1] + 1][p[2] + 1] ELSE Blank],
         x |-> r.col, y |-> n - above - 1]
=============================================================================
