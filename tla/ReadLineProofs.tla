---------------------------- MODULE ReadLineProofs ---------------------------
(***************************************************************************)
(* Every character drawn on the grid of console.c is the character printed *)
(* on the roll, for every size of the screen and every tab stop; and what  *)
(* the line editor of the shell makes of it: the line on the screen is the *)
(* line it holds, and its history is the last lines entered.               *)
(***************************************************************************)
EXTENDS ReadLine, Induction, TLAPS

\* A roll as printing makes it: some rows, none longer than the screen is
\* wide.  The column is Cols or more while a character that fills the row is
\* being printed.
RollOf(Char, r) ==
    /\ r \in [rows : Seq(Seq(Char)), col : Nat]
    /\ r.rows # <<>>
    /\ \A k \in 1..Len(r.rows) : Len(r.rows[k]) <= Cols

\* The character in a place of the roll.
At(r, k, j) == IF j <= Len(r.rows[k]) THEN r.rows[k][j] ELSE Blank

\* The first row on the screen, and what the screen shows in it and below.
Above(r) == IF Len(r.rows) > Rows THEN Len(r.rows) - Rows ELSE 0
Shown(r) == [p \in Cell |-> IF Above(r) + p[1] + 1 <= Len(r.rows)
                            THEN At(r, Above(r) + p[1] + 1, p[2] + 1) ELSE Blank]

\* The wrap on the grid.
Break(s) == IF s.y + 1 >= Rows THEN [cells |-> Scrolled(s.cells), x |-> 0, y |-> Rows - 1]
            ELSE [cells |-> s.cells, x |-> 0, y |-> s.y + 1]

-----------------------------------------------------------------------------
LEMMA WindowIs ==
    ASSUME NEW Char, NEW r, RollOf(Char, r)
    PROVE  /\ Window(r) = [cells |-> Shown(r), x |-> r.col, y |-> Len(r.rows) - Above(r) - 1]
           /\ Len(r.rows) \in Nat \ {0} /\ Above(r) \in Nat
           /\ Len(r.rows) - Above(r) - 1 \in 0..(Rows - 1)
<1>1. Len(r.rows) \in Nat \ {0}
  BY DEF RollOf
<1>2. Above(r) \in Nat /\ Len(r.rows) - Above(r) - 1 \in 0..(Rows - 1)
  BY <1>1, ConsoleAssumption DEF Above
<1>3. \A p \in Cell : p[1] \in 0..(Rows - 1) /\ p[2] \in 0..(Cols - 1)
  BY DEF Cell
<1>4. Window(r).cells = Shown(r)
  <2>1. ASSUME NEW p \in Cell
        PROVE  Window(r).cells[p] = Shown(r)[p]
    BY <1>1, <1>2, <1>3, <2>1 DEF Window, Shown, At, Above
  <2> QED BY <2>1 DEF Window, Shown
<1>5. Window(r).x = r.col /\ Window(r).y = Len(r.rows) - Above(r) - 1
  BY DEF Window, Above
<1>6. Window(r) = [cells |-> Window(r).cells, x |-> Window(r).x, y |-> Window(r).y]
  BY DEF Window
<1> QED BY <1>1, <1>2, <1>4, <1>5, <1>6

\* Writing one character of a row.
LEMMA ChangedIs ==
    ASSUME NEW Char, Blank \in Char, NEW row \in Seq(Char), Len(row) <= Cols,
           NEW i \in 1..Cols, NEW c \in Char
    PROVE  /\ Changed(row, i, c) \in Seq(Char) /\ Len(Changed(row, i, c)) <= Cols
           /\ \A j \in 1..Cols :
                 (IF j <= Len(Changed(row, i, c)) THEN Changed(row, i, c)[j] ELSE Blank)
                   = IF j = i THEN c ELSE IF j <= Len(row) THEN row[j] ELSE Blank
<1> DEFINE m == IF i > Len(row) THEN i - Len(row) ELSE 0
           n == IF i > Len(row) THEN i ELSE Len(row)
           blanks == [k \in 1..m |-> Blank]
           full == Fill(row, i)
<1>0. Len(row) \in Nat /\ i \in Nat /\ i >= 1 /\ i <= Cols /\ Cols \in Nat
  <2>1. Cols \in Nat
    BY ConsoleAssumption
  <2>2. Len(row) \in Nat
    OBVIOUS
  <2> QED BY <2>1, <2>2
<1>1. /\ n \in Nat /\ i <= n /\ n <= Cols
      /\ m \in Nat /\ n = Len(row) + m
  BY <1>0
<1>2. full = row \o blanks
  <2>1. 1..(i - Len(row)) = 1..m
    BY <1>0
  <2>2. [k \in 1..(i - Len(row)) |-> Blank] = blanks
    BY <2>1
  <2> QED BY <2>2 DEF Fill
<1>3. blanks \in Seq(Char) /\ Len(blanks) = m /\ \A k \in 1..m : blanks[k] = Blank
  BY <1>1
<1>9. m = (IF i > Len(row) THEN i - Len(row) ELSE 0)
  OBVIOUS
<1> HIDE DEF blanks, full, m, n
<1>4. full \in Seq(Char) /\ Len(full) = n
  <2>1. full \in Seq(Char)
    BY <1>2, <1>3
  <2>2. Len(full) = Len(row) + Len(blanks)
    BY <1>2, <1>3
  <2> QED BY <1>1, <1>3, <2>1, <2>2
<1>5. \A j \in 1..n : full[j] = IF j <= Len(row) THEN row[j] ELSE Blank
  <2>1. ASSUME NEW j \in 1..n PROVE full[j] = IF j <= Len(row) THEN row[j] ELSE Blank
    <3>1. CASE j <= Len(row)
      BY <1>1, <1>2, <1>3, <3>1
    <3>2. CASE j > Len(row)
      <4>1. j - Len(row) \in 1..m
        BY <1>1, <3>2
      <4> QED BY <1>1, <1>2, <1>3, <3>2, <4>1
    <3> QED BY <1>1, <3>1, <3>2
  <2> QED BY <2>1
<1>6. Changed(row, i, c) = [full EXCEPT ![i] = c]
  BY DEF Changed, full
<1>7. /\ Changed(row, i, c) \in Seq(Char) /\ Len(Changed(row, i, c)) = n
      /\ \A j \in 1..n : Changed(row, i, c)[j] = IF j = i THEN c ELSE full[j]
  <2>1. i \in 1..n
    BY <1>1
  <2> QED BY <1>1, <1>4, <1>6, <2>1
<1>8. ASSUME NEW j \in 1..Cols
      PROVE  (IF j <= Len(Changed(row, i, c)) THEN Changed(row, i, c)[j] ELSE Blank)
               = IF j = i THEN c ELSE IF j <= Len(row) THEN row[j] ELSE Blank
  <2>1. CASE j <= n
    BY <1>1, <1>5, <1>7, <2>1
  <2>2. CASE j > n
    BY <1>1, <1>7, <2>2 DEF n
  <2> QED BY <1>1, <2>1, <2>2
<1> QED BY <1>1, <1>7, <1>8

\* A place is its row and its column.
LEMMA PairIs ==
    ASSUME NEW S, NEW T, NEW p \in S \X T
    PROVE  p[1] \in S /\ p[2] \in T /\ p = <<p[1], p[2]>>
OBVIOUS

LEMMA PlaceIs ==
    ASSUME NEW p \in Cell
    PROVE  p[1] \in 0..(Rows - 1) /\ p[2] \in 0..(Cols - 1) /\ p = <<p[1], p[2]>>
BY PairIs DEF Cell

\* Two grids that agree in every place are the same.
LEMMA Extensional ==
    ASSUME NEW f, NEW g, f = [p \in Cell |-> f[p]], g = [p \in Cell |-> g[p]],
           \A y \in 0..(Rows - 1), x \in 0..(Cols - 1) : f[<<y, x>>] = g[<<y, x>>]
    PROVE  f = g
<1>1. ASSUME NEW p \in Cell PROVE f[p] = g[p]
  <2>1. p[1] \in 0..(Rows - 1) /\ p[2] \in 0..(Cols - 1) /\ p = <<p[1], p[2]>>
    BY PlaceIs
  <2>2. p = <<p[1], p[2]>>
    BY <2>1
  <2>3. f[<<p[1], p[2]>>] = g[<<p[1], p[2]>>]
    BY <2>1
  <2> QED BY <2>2, <2>3
<1> QED BY <1>1

\* A wrap or a newline: a new row, at the bottom or after a scroll.
LEMMA BreakShows ==
    ASSUME NEW Char, NEW r, RollOf(Char, r)
    PROVE  /\ Break(Window(r)) = Window(NewRow(r))
           /\ RollOf(Char, NewRow(r)) /\ NewRow(r).col = 0
<1> DEFINE q == NewRow(r)
           n == Len(r.rows)
<1>1. /\ q = [rows |-> Append(r.rows, <<>>), col |-> 0]
      /\ r.rows \in Seq(Seq(Char)) /\ n \in Nat \ {0}
  BY DEF NewRow, RollOf
<1>2. /\ q.rows \in Seq(Seq(Char)) /\ Len(q.rows) = n + 1
      /\ q.rows[n + 1] = <<>> /\ \A k \in 1..n : q.rows[k] = r.rows[k]
  BY <1>1
<1>3. RollOf(Char, q) /\ q.col = 0
  BY <1>1, <1>2, ConsoleAssumption DEF RollOf
<1> HIDE DEF q
<1>4. /\ Window(r) = [cells |-> Shown(r), x |-> r.col, y |-> n - Above(r) - 1]
      /\ Above(r) \in Nat
  BY WindowIs
<1>5. /\ Window(q) = [cells |-> Shown(q), x |-> 0, y |-> n - Above(q)]
      /\ Above(q) \in Nat
  <2>1. /\ Window(q) = [cells |-> Shown(q), x |-> q.col, y |-> Len(q.rows) - Above(q) - 1]
        /\ Above(q) \in Nat
    BY <1>3, WindowIs
  <2>2. Len(q.rows) - Above(q) - 1 = n - Above(q)
    BY <1>1, <1>2, <2>1
  <2> QED BY <1>3, <2>1, <2>2
<1>6. \A k \in 1..n, j \in 1..Cols : At(q, k, j) = At(r, k, j)
  BY <1>2 DEF At
<1>7. \A j \in 1..Cols : At(q, n + 1, j) = Blank
  <2>1. Len(q.rows[n + 1]) = 0
    BY <1>2
  <2> QED BY <2>1, ConsoleAssumption DEF At
<1> HIDE DEF n
<1>8. ASSUME NEW y \in 0..(Rows - 1), NEW x \in 0..(Cols - 1)
      PROVE  /\ Shown(r)[<<y, x>>] = IF Above(r) + y + 1 <= n THEN At(r, Above(r) + y + 1, x + 1) ELSE Blank
             /\ Shown(q)[<<y, x>>] = IF Above(q) + y + 1 <= n + 1 THEN At(q, Above(q) + y + 1, x + 1) ELSE Blank
             /\ x + 1 \in 1..Cols
  <2>1. <<y, x>> \in Cell
    BY DEF Cell
  <2>2. <<y, x>>[1] = y /\ <<y, x>>[2] = x
    OBVIOUS
  <2>3. x + 1 \in 1..Cols
    BY ConsoleAssumption
  <2> QED BY <1>2, <2>1, <2>2, <2>3 DEF Shown, n
<1>9. CASE n < Rows
  <2>1. Above(r) = 0 /\ Above(q) = 0
    BY <1>1, <1>2, <1>9, ConsoleAssumption DEF Above, n
  <2>2. ASSUME NEW y \in 0..(Rows - 1), NEW x \in 0..(Cols - 1)
        PROVE  Shown(q)[<<y, x>>] = Shown(r)[<<y, x>>]
    <3>0. y \in Nat
      BY ConsoleAssumption
    <3>1. CASE y + 1 <= n
      <4>1. Above(r) + y + 1 = y + 1 /\ Above(q) + y + 1 = y + 1 /\ y + 1 \in 1..n /\ y + 1 <= n + 1
        BY <1>1, <2>1, <3>0, <3>1
      <4>2. Shown(r)[<<y, x>>] = At(r, y + 1, x + 1)
        BY <1>8, <4>1
      <4>3. Shown(q)[<<y, x>>] = At(q, y + 1, x + 1)
        BY <1>8, <4>1
      <4> QED BY <1>6, <1>8, <4>1, <4>2, <4>3
    <3>2. CASE y + 1 = n + 1
      <4>1. Above(r) + y + 1 = n + 1 /\ Above(q) + y + 1 = n + 1 /\ ~(n + 1 <= n) /\ n + 1 <= n + 1
        BY <1>1, <2>1, <3>0, <3>2
      <4>2. Shown(r)[<<y, x>>] = Blank
        BY <1>8, <4>1
      <4>3. Shown(q)[<<y, x>>] = At(q, n + 1, x + 1)
        BY <1>8, <4>1
      <4> QED BY <1>7, <1>8, <4>2, <4>3
    <3>3. CASE y + 1 > n + 1
      <4>1. ~(Above(r) + y + 1 <= n) /\ ~(Above(q) + y + 1 <= n + 1)
        BY <1>1, <2>1, <3>0, <3>3
      <4> QED BY <1>8, <4>1
    <3> QED BY <1>1, <3>0, <3>1, <3>2, <3>3
  <2>3. Shown(q) = Shown(r)
    <3>1. Shown(q) = [p \in Cell |-> Shown(q)[p]]
      BY DEF Shown
    <3>2. Shown(r) = [p \in Cell |-> Shown(r)[p]]
      BY DEF Shown
    <3> QED BY <2>2, <3>1, <3>2, Extensional
  <2>4. Break(Window(r)) = [cells |-> Shown(r), x |-> 0, y |-> n]
    <3>1. Window(r).y = n - 1 /\ Window(r).cells = Shown(r)
      BY <1>1, <1>4, <2>1
    <3>2. ~(n - 1 + 1 >= Rows) /\ n - 1 + 1 = n
      BY <1>1, <1>9, ConsoleAssumption
    <3> QED BY <3>1, <3>2 DEF Break
  <2>5. n - Above(q) = n
    BY <1>1, <2>1
  <2> QED BY <1>3, <1>5, <2>3, <2>4, <2>5 DEF q
<1>10. CASE n >= Rows
  <2>1. Above(r) = n - Rows /\ Above(q) = n + 1 - Rows
    BY <1>1, <1>2, <1>10, ConsoleAssumption DEF Above, n
  <2>2. ASSUME NEW y \in 0..(Rows - 1), NEW x \in 0..(Cols - 1)
        PROVE  Shown(q)[<<y, x>>] = Scrolled(Shown(r))[<<y, x>>]
    <3>1. Scrolled(Shown(r))[<<y, x>>] = IF y < Rows - 1 THEN Shown(r)[<<y + 1, x>>] ELSE Blank
      <4>1. <<y, x>> \in Cell /\ <<y, x>>[1] = y /\ <<y, x>>[2] = x
        BY DEF Cell
      <4> QED BY <4>1 DEF Scrolled
    <3>2. CASE y < Rows - 1
      <4>1. y + 1 \in 0..(Rows - 1)
        BY <3>2, ConsoleAssumption
      <4>2. /\ Above(q) + y + 1 \in 1..n /\ Above(r) + (y + 1) + 1 = Above(q) + y + 1
            /\ Above(q) + y + 1 <= n + 1
        BY <1>1, <1>10, <2>1, <3>2, ConsoleAssumption
      <4>3. Shown(r)[<<y + 1, x>>] = At(r, Above(q) + y + 1, x + 1)
        BY <1>1, <1>8, <4>1, <4>2
      <4>4. Shown(q)[<<y, x>>] = At(q, Above(q) + y + 1, x + 1)
        BY <1>8, <4>2
      <4> QED BY <1>6, <1>8, <3>1, <3>2, <4>2, <4>3, <4>4
    <3>3. CASE y = Rows - 1
      <4>1. Above(q) + y + 1 = n + 1 /\ n + 1 <= n + 1
        BY <1>1, <2>1, <3>3, ConsoleAssumption
      <4>2. Shown(q)[<<y, x>>] = At(q, n + 1, x + 1)
        BY <1>8, <4>1
      <4>3. ~(y < Rows - 1)
        BY <3>3, ConsoleAssumption
      <4> QED BY <1>7, <1>8, <3>1, <4>2, <4>3
    <3> QED BY <3>2, <3>3, ConsoleAssumption
  <2>3. Shown(q) = Scrolled(Shown(r))
    <3>1. Shown(q) = [p \in Cell |-> Shown(q)[p]]
      BY DEF Shown
    <3>2. Scrolled(Shown(r)) = [p \in Cell |-> Scrolled(Shown(r))[p]]
      BY DEF Scrolled
    <3> QED BY <2>2, <3>1, <3>2, Extensional
  <2>4. Break(Window(r)) = [cells |-> Scrolled(Shown(r)), x |-> 0, y |-> Rows - 1]
    <3>1. Window(r).y = Rows - 1 /\ Window(r).cells = Shown(r)
      BY <1>1, <1>4, <2>1, ConsoleAssumption
    <3>2. Rows - 1 + 1 >= Rows
      BY ConsoleAssumption
    <3> QED BY <3>1, <3>2 DEF Break
  <2>5. n - Above(q) = Rows - 1
    BY <1>1, <2>1, ConsoleAssumption
  <2> QED BY <1>3, <1>5, <2>3, <2>4, <2>5 DEF q
<1> QED BY <1>1, <1>9, <1>10, ConsoleAssumption

\* One character written in the last row, and the cursor moved.
LEMMA ChangingShows ==
    ASSUME NEW Char, Blank \in Char, NEW r, RollOf(Char, r),
           NEW i \in 1..Cols, NEW c \in Char, NEW col \in Nat
    PROVE  /\ RollOf(Char, Changing(r, i, c, col)) /\ Changing(r, i, c, col).col = col
           /\ Window(Changing(r, i, c, col)) =
                [cells |-> [Window(r).cells EXCEPT ![<<Window(r).y, i - 1>>] = c],
                 x |-> col, y |-> Window(r).y]
<1> DEFINE q == Changing(r, i, c, col)
           n == Len(r.rows)
           y == n - Above(r) - 1
<1>1. /\ r.rows \in Seq(Seq(Char)) /\ n \in Nat \ {0}
      /\ \A k \in 1..n : Len(r.rows[k]) <= Cols
  BY DEF RollOf
<1>2. r.rows[n] \in Seq(Char) /\ Len(r.rows[n]) <= Cols
  <2>1. n \in 1..n
    BY <1>1
  <2> QED BY <1>1, <2>1
<1> DEFINE old == r.rows[n]
           new == Changed(old, i, c)
<1>0. old \in Seq(Char) /\ Len(old) <= Cols
  BY <1>2
<1> HIDE DEF old, q, n, y
<1>3. /\ new \in Seq(Char) /\ Len(new) <= Cols
      /\ \A j \in 1..Cols :
            (IF j <= Len(new) THEN new[j] ELSE Blank)
              = IF j = i THEN c ELSE IF j <= Len(old) THEN old[j] ELSE Blank
  BY <1>0, ChangedIs
<1>4. q = [rows |-> [r.rows EXCEPT ![n] = new], col |-> col]
  BY DEF Changing, q, n, old
<1> HIDE DEF new
<1>5. /\ q.rows \in Seq(Seq(Char)) /\ Len(q.rows) = n /\ q.rows[n] = new
      /\ \A k \in 1..n : k # n => q.rows[k] = r.rows[k]
  <2>1. n \in 1..n
    BY <1>1
  <2>2. q.rows = [r.rows EXCEPT ![n] = new] /\ Len(r.rows) = n
    BY <1>4 DEF n
  <2>3. q.rows \in Seq(Seq(Char))
    BY <1>1, <1>3, <2>1, <2>2
  <2>4. Len(q.rows) = n
    BY <1>1, <2>2
  <2>5. q.rows[n] = new /\ \A k \in 1..n : k # n => q.rows[k] = r.rows[k]
    BY <1>1, <2>1, <2>2
  <2> QED BY <2>3, <2>4, <2>5
<1>6. RollOf(Char, q) /\ q.col = col
  <2>1. ASSUME NEW k \in 1..Len(q.rows) PROVE Len(q.rows[k]) <= Cols
    <3>1. CASE k = n
      BY <1>3, <1>5, <3>1
    <3>2. CASE k # n
      BY <1>1, <1>5, <3>2
    <3> QED BY <3>1, <3>2
  <2>2. q.rows # <<>>
    BY <1>1, <1>5
  <2>3. q \in [rows : Seq(Seq(Char)), col : Nat]
    BY <1>4, <1>5
  <2> QED BY <1>4, <2>1, <2>2, <2>3 DEF RollOf
<1>7. Above(q) = Above(r)
  BY <1>5 DEF Above, n
<1>8. /\ Window(r) = [cells |-> Shown(r), x |-> r.col, y |-> y]
      /\ Above(r) \in Nat /\ y \in 0..(Rows - 1)
  BY WindowIs DEF n, y
<1>9. Window(q) = [cells |-> Shown(q), x |-> col, y |-> y]
  <2>1. Window(q) = [cells |-> Shown(q), x |-> q.col, y |-> Len(q.rows) - Above(q) - 1]
    BY <1>6, WindowIs
  <2>2. Len(q.rows) - Above(q) - 1 = y /\ q.col = col
    BY <1>5, <1>6, <1>7 DEF y
  <2> QED BY <2>1, <2>2
<1>10. \A j \in 1..Cols : At(q, n, j) = IF j = i THEN c ELSE At(r, n, j)
  BY <1>3, <1>5 DEF At, old
<1>11. \A k \in 1..n, j \in 1..Cols : k # n => At(q, k, j) = At(r, k, j)
  BY <1>5 DEF At
<1>12. y \in Nat /\ Above(r) + y + 1 = n
  BY <1>1, <1>8, ConsoleAssumption DEF y
<1> DEFINE written == [Shown(r) EXCEPT ![<<y, i - 1>>] = c]
<1>13. ASSUME NEW u \in 0..(Rows - 1), NEW x \in 0..(Cols - 1)
       PROVE  Shown(q)[<<u, x>>] = written[<<u, x>>]
  <2>1. <<u, x>> \in Cell /\ <<u, x>>[1] = u /\ <<u, x>>[2] = x
    BY DEF Cell
  <2>2. /\ Shown(r)[<<u, x>>] = IF Above(r) + u + 1 <= n THEN At(r, Above(r) + u + 1, x + 1) ELSE Blank
        /\ Shown(q)[<<u, x>>] = IF Above(r) + u + 1 <= n THEN At(q, Above(r) + u + 1, x + 1) ELSE Blank
    BY <1>5, <1>7, <2>1 DEF Shown, n
  <2>3. x + 1 \in 1..Cols /\ u \in Nat /\ x \in Nat /\ i \in Nat
    BY ConsoleAssumption
  <2>4. written[<<u, x>>] = IF u = y /\ x = i - 1 THEN c ELSE Shown(r)[<<u, x>>]
    <3>1. <<u, x>> = <<y, i - 1>> <=> u = y /\ x = i - 1
      OBVIOUS
    <3>2. Shown(r) = [p \in Cell |-> Shown(r)[p]]
      BY DEF Shown
    <3> HIDE DEF Shown
    <3> QED BY <2>1, <3>1, <3>2
  <2>5. CASE u = y
    <3>1. Above(r) + u + 1 = n /\ n <= n
      BY <1>1, <1>12, <2>5
    <3>2. Shown(r)[<<u, x>>] = At(r, n, x + 1) /\ Shown(q)[<<u, x>>] = At(q, n, x + 1)
      BY <2>2, <3>1
    <3>3. x + 1 = i <=> x = i - 1
      BY <2>3
    <3> QED BY <1>10, <2>3, <2>4, <2>5, <3>2, <3>3
  <2>6. CASE u # y /\ Above(r) + u + 1 <= n
    <3>1. Above(r) + u + 1 \in 1..n /\ Above(r) + u + 1 # n
      BY <1>1, <1>8, <1>12, <2>3, <2>6
    <3> QED BY <1>11, <2>2, <2>3, <2>4, <2>6, <3>1
  <2>7. CASE u # y /\ ~(Above(r) + u + 1 <= n)
    BY <2>2, <2>4, <2>7
  <2> QED BY <2>5, <2>6, <2>7
<1>14. Shown(q) = written
  <2>1. Shown(q) = [p \in Cell |-> Shown(q)[p]]
    BY DEF Shown
  <2>2. written = [p \in Cell |-> written[p]]
    BY DEF Shown
  <2> HIDE DEF written
  <2> QED BY <1>13, <2>1, <2>2, Extensional
<1> QED BY <1>6, <1>8, <1>9, <1>14 DEF q

\* The next tab stop lies to the right.
LEMMA NextStopIs ==
    ASSUME NEW x \in Nat
    PROVE  NextStop(x) \in Nat
<1>1. x \div TabStop \in Nat /\ TabStop \in Nat
  BY ConsoleAssumption
<1>2. \A a, b \in Nat : (a + 1) * b \in Nat
  OBVIOUS
<1> QED BY <1>1, <1>2 DEF NextStop

\* A character before the wrap.
LEMMA MovedShows ==
    ASSUME NEW Char, Blank \in Char, NEW r, RollOf(Char, r), r.col < Cols,
           NEW c \in Char, c # "nl"
    PROVE  /\ RollOf(Char, Moved(r, c))
           /\ Window(Moved(r, c)) = Drawn(Window(r), c)
<1> DEFINE y == Len(r.rows) - Above(r) - 1
<1>1. Window(r) = [cells |-> Shown(r), x |-> r.col, y |-> y]
  BY WindowIs
<1>2. /\ r \in [rows : Seq(Seq(Char)), col : Nat] /\ r.col \in Nat
      /\ r = [rows |-> r.rows, col |-> r.col]
  BY DEF RollOf
<1> HIDE DEF y
<1>3. ASSUME NEW col \in Nat
      PROVE  /\ RollOf(Char, [r EXCEPT !.col = col])
             /\ Window([r EXCEPT !.col = col]) = [Window(r) EXCEPT !.x = col]
  <2> DEFINE q == [r EXCEPT !.col = col]
  <2>1. q = [rows |-> r.rows, col |-> col]
    BY <1>2
  <2> HIDE DEF q
  <2>2. RollOf(Char, q)
    BY <1>2, <2>1 DEF RollOf
  <2>3. Window(q) = [cells |-> Shown(q), x |-> q.col, y |-> Len(q.rows) - Above(q) - 1]
    BY <2>2, WindowIs
  <2>4. Above(q) = Above(r) /\ Len(q.rows) - Above(q) - 1 = y /\ q.col = col
    BY <2>1 DEF Above, y
  <2>5. Shown(q) = Shown(r)
    BY <2>1, <2>4 DEF Shown, At
  <2>6. Window(q) = [Window(r) EXCEPT !.x = col]
    BY <1>1, <2>3, <2>4, <2>5
  <2> QED BY <2>2, <2>6 DEF q
<1>4. CASE c = "cr"
  <2>1. Moved(r, c) = [r EXCEPT !.col = 0]
    BY <1>4 DEF Moved
  <2>2. Drawn(Window(r), c) = [Window(r) EXCEPT !.x = 0]
    BY <1>4 DEF Drawn
  <2> QED BY <1>3, <2>1, <2>2
<1>5. CASE c = "tab"
  <2>1. Moved(r, c) = [r EXCEPT !.col = NextStop(r.col)]
    BY <1>5 DEF Moved
  <2>2. Drawn(Window(r), c) = [Window(r) EXCEPT !.x = NextStop(r.col)]
    BY <1>1, <1>5 DEF Drawn
  <2>3. NextStop(r.col) \in Nat
    BY <1>2, NextStopIs
  <2> QED BY <1>3, <2>1, <2>2, <2>3
<1>6. CASE c = "bs" /\ r.col = 0
  <2>1. Moved(r, c) = r
    BY <1>6 DEF Moved
  <2>2. Drawn(Window(r), c) = Window(r)
    BY <1>1, <1>6 DEF Drawn
  <2> QED BY <2>1, <2>2
<1>7. CASE c = "bs" /\ r.col > 0
  <2>1. Moved(r, c) = Changing(r, r.col, Blank, r.col - 1)
    BY <1>2, <1>7 DEF Moved
  <2>2. Drawn(Window(r), c) =
          [cells |-> [Window(r).cells EXCEPT ![<<Window(r).y, r.col - 1>>] = Blank],
           x |-> r.col - 1, y |-> Window(r).y]
    BY <1>1, <1>7 DEF Drawn
  <2>3. r.col \in 1..Cols /\ r.col - 1 \in Nat
    BY <1>2, <1>7, ConsoleAssumption
  <2>4. PICK i \in 1..Cols, col \in Nat : i = r.col /\ col = r.col - 1
    BY <2>3
  <2>5. /\ RollOf(Char, Changing(r, i, Blank, col))
        /\ Window(Changing(r, i, Blank, col)) =
             [cells |-> [Window(r).cells EXCEPT ![<<Window(r).y, i - 1>>] = Blank],
              x |-> col, y |-> Window(r).y]
    BY ChangingShows
  <2> QED BY <2>1, <2>2, <2>4, <2>5
<1>8. CASE c \notin {"cr", "tab", "bs"}
  <2>1. Moved(r, c) = Changing(r, r.col + 1, c, r.col + 1)
    BY <1>8 DEF Moved
  <2>2. Drawn(Window(r), c) =
          [cells |-> [Window(r).cells EXCEPT ![<<Window(r).y, r.col>>] = c],
           x |-> r.col + 1, y |-> Window(r).y]
    BY <1>1, <1>8 DEF Drawn
  <2>3. r.col + 1 \in 1..Cols /\ r.col + 1 \in Nat /\ r.col = r.col + 1 - 1
    BY <1>2, ConsoleAssumption
  <2>4. PICK i \in 1..Cols : i = r.col + 1
    BY <2>3
  <2>5. i \in Nat /\ r.col = i - 1
    BY <1>2, <2>4
  <2>6. /\ RollOf(Char, Changing(r, i, c, i))
        /\ Window(Changing(r, i, c, i)) =
             [cells |-> [Window(r).cells EXCEPT ![<<Window(r).y, i - 1>>] = c],
              x |-> i, y |-> Window(r).y]
    BY <2>5, ChangingShows
  <2> QED BY <2>1, <2>2, <2>4, <2>5, <2>6
<1> QED BY <1>2, <1>4, <1>5, <1>6, <1>7, <1>8

\* vt_putc and fb_putc put on the screen what printing puts on the roll: if the
\* screen showed the end of a roll, it still does after any character.
THEOREM PutShowsRoll ==
    ASSUME NEW Char, Blank \in Char, NEW r, RollOf(Char, r), r.col < Cols, NEW c \in Char
    PROVE  /\ Put(Window(r), c) = Window(RollPut(r, c))
           /\ RollOf(Char, RollPut(r, c)) /\ RollPut(r, c).col < Cols
<1> DEFINE s == Window(r)
           d == Drawn(s, c)
<1>1. /\ Window(r) = [cells |-> Shown(r), x |-> r.col, y |-> Len(r.rows) - Above(r) - 1]
      /\ s.y \in 0..(Rows - 1)
  <2>1. /\ Window(r) = [cells |-> Shown(r), x |-> r.col, y |-> Len(r.rows) - Above(r) - 1]
        /\ Len(r.rows) - Above(r) - 1 \in 0..(Rows - 1)
    BY WindowIs
  <2> QED BY <2>1
<1> HIDE DEF s
<1>2. CASE c = "nl"
  <2>1. RollPut(r, c) = NewRow(r)
    BY <1>2 DEF RollPut
  <2>2. d = [cells |-> s.cells, x |-> 0, y |-> s.y + 1]
    BY <1>2 DEF Drawn
  <2>3. Put(s, c) = Break(s)
    <3>1. d = [cells |-> s.cells, x |-> 0, y |-> s.y + 1]
      BY <2>2
    <3>2. ~(0 >= Cols)
      BY ConsoleAssumption
    <3> HIDE DEF d
    <3>3. Put(s, c) = IF d.y >= Rows THEN [cells |-> Scrolled(d.cells), x |-> d.x, y |-> Rows - 1] ELSE d
      BY <3>1, <3>2 DEF Put, d
    <3> QED BY <3>1, <3>3 DEF Break
  <2>4. 0 < Cols
    BY ConsoleAssumption
  <2> QED BY <2>1, <2>3, <2>4, BreakShows DEF s
<1>3. CASE c # "nl"
  <2> DEFINE m == Moved(r, c)
  <2>1. RollOf(Char, m) /\ Window(m) = d
    BY <1>3, MovedShows DEF s
  <2>2. RollPut(r, c) = IF m.col >= Cols THEN NewRow(m) ELSE m
    BY <1>3 DEF RollPut
  <2> HIDE DEF m, d
  <2>3. d = [cells |-> Shown(m), x |-> m.col, y |-> Len(m.rows) - Above(m) - 1]
    BY <2>1, WindowIs
  <2>4. d.y \in 0..(Rows - 1)
    <3>1. Len(m.rows) - Above(m) - 1 \in 0..(Rows - 1)
      BY <2>1, WindowIs
    <3> QED BY <2>3, <3>1
  <2>5. m.col \in Nat /\ d.x = m.col
    BY <2>1, <2>3 DEF RollOf
  <2>6. CASE d.x >= Cols
    <3>1. Put(s, c) = Break(d)
      <4> DEFINE w == [cells |-> d.cells, x |-> 0, y |-> d.y + 1]
      <4>1. w = [cells |-> d.cells, x |-> 0, y |-> d.y + 1]
        OBVIOUS
      <4>2. Put(s, c) = IF w.y >= Rows THEN [cells |-> Scrolled(w.cells), x |-> w.x, y |-> Rows - 1] ELSE w
        BY <2>6 DEF Put, d
      <4> HIDE DEF w
      <4> QED BY <4>1, <4>2 DEF Break
    <3>2. Break(d) = Window(NewRow(m)) /\ RollOf(Char, NewRow(m)) /\ NewRow(m).col = 0
      BY <2>1, BreakShows
    <3>3. 0 < Cols
      BY ConsoleAssumption
    <3> QED BY <2>2, <2>5, <2>6, <3>1, <3>2, <3>3 DEF s
  <2>7. CASE ~(d.x >= Cols)
    <3>1. ~(d.y >= Rows)
      BY <2>4, ConsoleAssumption
    <3>2. Put(s, c) = d
      BY <2>7, <3>1 DEF Put, d
    <3>3. m.col < Cols
      BY <2>5, <2>7, ConsoleAssumption
    <3> QED BY <2>1, <2>2, <2>5, <2>7, <3>2, <3>3 DEF s
  <2> QED BY <2>6, <2>7
<1> QED BY <1>2, <1>3

-----------------------------------------------------------------------------
(* Texts on the screen.                                                    *)

Screens == [cells : [Cell -> Glyphs], x : 0..(Cols - 1), y : 0..(Rows - 1)]

Rolls == {r \in [rows : Seq(Seq(Glyphs)), col : Nat] : RollOf(Glyphs, r) /\ r.col < Cols}

\* A screen on which a character has been drawn, before the wrap and the scroll.
Drawing(d) ==
    /\ d = [cells |-> d.cells, x |-> d.x, y |-> d.y]
    /\ d.cells \in [Cell -> Glyphs] /\ d.x \in Nat /\ d.y \in 0..Rows /\ (d.y = Rows => d.x = 0)

\* The wrap and the scroll.
Fitted(d) ==
    LET w == IF d.x >= Cols THEN [cells |-> d.cells, x |-> 0, y |-> d.y + 1] ELSE d
    IN  IF w.y >= Rows THEN [cells |-> Scrolled(w.cells), x |-> w.x, y |-> Rows - 1] ELSE w

LEMMA OneMoreCell ==
    ASSUME NEW A, NEW B, NEW f \in [A -> B], NEW k, NEW v \in B
    PROVE  [f EXCEPT ![k] = v] \in [A -> B]
OBVIOUS

LEMMA DrawnIs ==
    ASSUME NEW s \in Screens, NEW c \in Glyphs
    PROVE  Drawing(Drawn(s, c)) /\ Put(s, c) = Fitted(Drawn(s, c))
<1>1. /\ s = [cells |-> s.cells, x |-> s.x, y |-> s.y] /\ s.cells \in [Cell -> Glyphs]
      /\ s.x \in 0..(Cols - 1) /\ s.y \in 0..(Rows - 1) /\ Cols \in Nat /\ Rows \in Nat
      /\ s.x \in Nat /\ s.y \in Nat /\ s.y + 1 \in 0..Rows /\ s.y \in 0..Rows /\ s.y # Rows
  BY ConsoleAssumption DEF Screens
<1>2. Blank \in Glyphs
  BY ReadLineAssumption DEF Blank
<1>3. Put(s, c) = Fitted(Drawn(s, c))
  BY DEF Put, Fitted
<1>4. CASE c = "nl"
  BY <1>1, <1>3, <1>4 DEF Drawn, Drawing
<1>5. CASE c = "cr"
  <2>1. Drawn(s, c) = [cells |-> s.cells, x |-> 0, y |-> s.y]
    BY <1>1, <1>5 DEF Drawn
  <2>2. QED BY <1>1, <1>3, <2>1 DEF Drawing
<1>6. CASE c = "bs"
  <2>1. CASE s.x = 0
    BY <1>1, <1>3, <1>6, <2>1 DEF Drawn, Drawing
  <2>2. CASE s.x # 0
    <3>1. Drawn(s, c) = [cells |-> [s.cells EXCEPT ![<<s.y, s.x - 1>>] = Blank], x |-> s.x - 1, y |-> s.y]
      BY <1>1, <1>6, <2>2 DEF Drawn
    <3>2. [s.cells EXCEPT ![<<s.y, s.x - 1>>] = Blank] \in [Cell -> Glyphs] /\ s.x - 1 \in Nat
      BY <1>1, <1>2, <2>2, OneMoreCell
    <3>3. QED BY <1>1, <1>3, <3>1, <3>2 DEF Drawing
  <2>3. QED BY <2>1, <2>2
<1>7. CASE c = "tab"
  <2>1. NextStop(s.x) \in Nat
    BY <1>1, NextStopIs
  <2>2. Drawn(s, c) = [cells |-> s.cells, x |-> NextStop(s.x), y |-> s.y]
    BY <1>1, <1>7 DEF Drawn
  <2>3. QED BY <1>1, <1>3, <2>1, <2>2 DEF Drawing
<1>8. CASE c \notin {"nl", "cr", "bs", "tab"}
  <2>1. Drawn(s, c) = [cells |-> [s.cells EXCEPT ![<<s.y, s.x>>] = c], x |-> s.x + 1, y |-> s.y]
    BY <1>8 DEF Drawn
  <2>2. [s.cells EXCEPT ![<<s.y, s.x>>] = c] \in [Cell -> Glyphs] /\ s.x + 1 \in Nat
    BY <1>1, OneMoreCell
  <2>3. QED BY <1>1, <1>3, <2>1, <2>2 DEF Drawing
<1>9. QED BY <1>4, <1>5, <1>6, <1>7, <1>8

LEMMA ScrolledIs ==
    ASSUME NEW cells \in [Cell -> Glyphs]
    PROVE  /\ Scrolled(cells) \in [Cell -> Glyphs]
           /\ \A v \in 0..(Rows - 1), u \in 0..(Cols - 1) :
                Scrolled(cells)[<<v, u>>] = IF v < Rows - 1 THEN cells[<<v + 1, u>>] ELSE Blank
<1>1. Blank \in Glyphs /\ Rows \in Nat \ {0} /\ Cols \in Nat \ {0}
  BY ReadLineAssumption, ConsoleAssumption DEF Blank
<1>2. ASSUME NEW v \in 0..(Rows - 1), NEW u \in 0..(Cols - 1)
      PROVE  /\ Scrolled(cells)[<<v, u>>] = IF v < Rows - 1 THEN cells[<<v + 1, u>>] ELSE Blank
             /\ Scrolled(cells)[<<v, u>>] \in Glyphs
  <2>1. <<v, u>> \in Cell /\ <<v, u>>[1] = v /\ <<v, u>>[2] = u
    BY DEF Cell
  <2>2. Scrolled(cells)[<<v, u>>] = IF v < Rows - 1 THEN cells[<<v + 1, u>>] ELSE Blank
    BY <2>1 DEF Scrolled
  <2>3. v < Rows - 1 => <<v + 1, u>> \in Cell
    BY <1>1 DEF Cell
  <2>4. QED BY <1>1, <2>2, <2>3
<1>3. \A p \in Cell : Scrolled(cells)[p] \in Glyphs
  BY <1>2, PlaceIs
<1>4. QED BY <1>2, <1>3 DEF Scrolled

LEMMA FittedIs ==
    ASSUME NEW d, Drawing(d)
    PROVE  /\ Fitted(d) \in Screens
           /\ d.x < Cols /\ d.y < Rows => Fitted(d) = d
<1>1. /\ d = [cells |-> d.cells, x |-> d.x, y |-> d.y] /\ d.cells \in [Cell -> Glyphs] /\ d.x \in Nat
      /\ d.y \in 0..Rows /\ (d.y = Rows => d.x = 0) /\ d.y \in Nat
      /\ Cols \in Nat \ {0} /\ Rows \in Nat \ {0}
  BY ConsoleAssumption DEF Drawing
<1>2. Scrolled(d.cells) \in [Cell -> Glyphs]
  BY <1>1, ScrolledIs
<1>3. CASE d.x < Cols /\ d.y < Rows
  <2>1. Fitted(d) = d
    BY <1>1, <1>3 DEF Fitted
  <2>2. QED BY <1>1, <1>3, <2>1 DEF Screens
<1>4. CASE d.x < Cols /\ d.y = Rows
  <2>1. Fitted(d) = [cells |-> Scrolled(d.cells), x |-> d.x, y |-> Rows - 1]
    BY <1>1, <1>4 DEF Fitted
  <2>2. QED BY <1>1, <1>2, <1>4, <2>1 DEF Screens
<1>5. CASE d.x >= Cols
  <2>1. d.y < Rows
    BY <1>1, <1>5
  <2>2. CASE d.y + 1 < Rows
    <3>1. Fitted(d) = [cells |-> d.cells, x |-> 0, y |-> d.y + 1]
      BY <1>1, <1>5, <2>2 DEF Fitted
    <3>2. QED BY <1>1, <1>5, <2>2, <3>1 DEF Screens
  <2>3. CASE d.y + 1 = Rows
    <3>1. Fitted(d) = [cells |-> Scrolled(d.cells), x |-> 0, y |-> Rows - 1]
      BY <1>1, <1>5, <2>3 DEF Fitted
    <3>2. QED BY <1>1, <1>2, <1>5, <2>3, <3>1 DEF Screens
  <2>4. QED BY <1>1, <2>1, <2>2, <2>3
<1>6. QED BY <1>1, <1>3, <1>4, <1>5

LEMMA PutTyped ==
    ASSUME NEW s \in Screens, NEW c \in Glyphs PROVE Put(s, c) \in Screens
BY DrawnIs, FittedIs

\* Printing a text is printing its characters one after the other.
LEMMA PutsSteps ==
    ASSUME NEW s \in Screens, NEW t \in Seq(Glyphs)
    PROVE  \E h \in [0..Len(t) -> Screens] :
                /\ h[0] = s /\ h[Len(t)] = Puts(s, t)
                /\ \A i \in 1..Len(t) : h[i] = Put(h[i - 1], t[i])
<1> DEFINE N == Len(t)
           F == [p \in Screens \X Nat |-> IF p[2] \in 1..N THEN Put(p[1], t[p[2]]) ELSE p[1]]
           Eq(f) == f = [i \in 0..N |-> IF i = 0 THEN s ELSE Put(f[i - 1], t[i])]
           made == CHOOSE f : Eq(f)
<1>1. N \in Nat /\ \A i \in 1..N : t[i] \in Glyphs
  OBVIOUS
<1>2. Puts(s, t) = made[N]
  BY DEF Puts
<1>3. F \in [Screens \X Nat -> Screens]
  BY <1>1, PutTyped
<1>4. \A x \in Screens, i \in 1..N : F[<<x, i>>] = Put(x, t[i])
  BY <1>1
<1> HIDE DEF F, N
<1>5. PICK h \in [0..N -> Screens] : Recurs(h, N, s, F)
  BY <1>1, <1>3, RecursionUpTo
<1>6. h[0] = s /\ \A i \in 1..N : h[i] = F[<<h[i - 1], i>>] /\ h[i - 1] \in Screens
  BY <1>1, <1>5, RecursionSteps
<1>7. \A i \in 1..N : h[i] = Put(h[i - 1], t[i])
  BY <1>4, <1>6
<1>8. Eq(h)
  <2>1. \A i \in 0..N : h[i] = IF i = 0 THEN s ELSE Put(h[i - 1], t[i])
    BY <1>1, <1>6, <1>7
  <2>2. h = [i \in 0..N |-> h[i]]
    OBVIOUS
  <2>3. QED BY <2>1, <2>2
<1>9. Eq(made)
  <2> HIDE DEF Eq
  <2>1. QED BY <1>8
<1>10. \A i \in 0..N : made[i] = IF i = 0 THEN s ELSE Put(made[i - 1], t[i])
  <2> HIDE DEF made
  <2>1. QED BY <1>9
<1> HIDE DEF Eq, made
<1> DEFINE S == {i \in 0..N : made[i] = h[i]}
<1>11. 0 \in S
  BY <1>1, <1>6, <1>10
<1>12. ASSUME NEW i \in 0..(N - 1), i \in S PROVE i + 1 \in S
  <2>1. i + 1 \in 1..N /\ i + 1 \in 0..N /\ (i + 1) - 1 = i /\ i + 1 # 0
    BY <1>1
  <2>2. made[i + 1] = Put(made[i], t[i + 1]) /\ h[i + 1] = Put(h[i], t[i + 1])
    BY <1>7, <1>10, <2>1
  <2>3. QED BY <1>12, <2>1, <2>2
<1>13. N \in S
  <2> HIDE DEF S
  <2>1. 0..N \subseteq S
    BY <1>1, <1>11, <1>12, InductionUpTo
  <2>2. QED BY <1>1, <2>1
<1>14. QED BY <1>2, <1>6, <1>7, <1>13 DEF N

LEMMA RollPutTyped ==
    ASSUME NEW r \in Rolls, NEW c \in Glyphs
    PROVE  RollPut(r, c) \in Rolls /\ Put(Window(r), c) = Window(RollPut(r, c))
<1>1. Blank \in Glyphs /\ RollOf(Glyphs, r) /\ r.col < Cols
  BY ReadLineAssumption DEF Blank, Rolls
<1>2. /\ Put(Window(r), c) = Window(RollPut(r, c))
      /\ RollOf(Glyphs, RollPut(r, c)) /\ RollPut(r, c).col < Cols
  BY <1>1, PutShowsRoll
<1>3. QED BY <1>2 DEF Rolls, RollOf

LEMMA RollPutsSteps ==
    ASSUME NEW r \in Rolls, NEW t \in Seq(Glyphs)
    PROVE  \E h \in [0..Len(t) -> Rolls] :
                /\ h[0] = r /\ h[Len(t)] = RollPuts(r, t)
                /\ \A i \in 1..Len(t) : h[i] = RollPut(h[i - 1], t[i])
<1> DEFINE N == Len(t)
           F == [p \in Rolls \X Nat |-> IF p[2] \in 1..N THEN RollPut(p[1], t[p[2]]) ELSE p[1]]
           Eq(f) == f = [i \in 0..N |-> IF i = 0 THEN r ELSE RollPut(f[i - 1], t[i])]
           made == CHOOSE f : Eq(f)
<1>1. N \in Nat /\ \A i \in 1..N : t[i] \in Glyphs
  OBVIOUS
<1>2. RollPuts(r, t) = made[N]
  BY DEF RollPuts
<1>3. F \in [Rolls \X Nat -> Rolls]
  BY <1>1, RollPutTyped
<1>4. \A x \in Rolls, i \in 1..N : F[<<x, i>>] = RollPut(x, t[i])
  BY <1>1
<1> HIDE DEF F, N
<1>5. PICK h \in [0..N -> Rolls] : Recurs(h, N, r, F)
  BY <1>1, <1>3, RecursionUpTo
<1>6. h[0] = r /\ \A i \in 1..N : h[i] = F[<<h[i - 1], i>>] /\ h[i - 1] \in Rolls
  BY <1>1, <1>5, RecursionSteps
<1>7. \A i \in 1..N : h[i] = RollPut(h[i - 1], t[i])
  BY <1>4, <1>6
<1>8. Eq(h)
  <2>1. \A i \in 0..N : h[i] = IF i = 0 THEN r ELSE RollPut(h[i - 1], t[i])
    BY <1>1, <1>6, <1>7
  <2>2. h = [i \in 0..N |-> h[i]]
    OBVIOUS
  <2>3. QED BY <2>1, <2>2
<1>9. Eq(made)
  <2> HIDE DEF Eq
  <2>1. QED BY <1>8
<1>10. \A i \in 0..N : made[i] = IF i = 0 THEN r ELSE RollPut(made[i - 1], t[i])
  <2> HIDE DEF made
  <2>1. QED BY <1>9
<1> HIDE DEF Eq, made
<1> DEFINE S == {i \in 0..N : made[i] = h[i]}
<1>11. 0 \in S
  BY <1>1, <1>6, <1>10
<1>12. ASSUME NEW i \in 0..(N - 1), i \in S PROVE i + 1 \in S
  <2>1. i + 1 \in 1..N /\ i + 1 \in 0..N /\ (i + 1) - 1 = i /\ i + 1 # 0
    BY <1>1
  <2>2. made[i + 1] = RollPut(made[i], t[i + 1]) /\ h[i + 1] = RollPut(h[i], t[i + 1])
    BY <1>7, <1>10, <2>1
  <2>3. QED BY <1>12, <2>1, <2>2
<1>13. N \in S
  <2> HIDE DEF S
  <2>1. 0..N \subseteq S
    BY <1>1, <1>11, <1>12, InductionUpTo
  <2>2. QED BY <1>1, <2>1
<1>14. QED BY <1>2, <1>6, <1>7, <1>13 DEF N

-----------------------------------------------------------------------------
(* What is printed, on the screen and on the roll.                         *)

LEMMA PutsTyped ==
    ASSUME NEW s \in Screens, NEW t \in Seq(Glyphs) PROVE Puts(s, t) \in Screens
<1>1. PICK h \in [0..Len(t) -> Screens] :
            /\ h[0] = s /\ h[Len(t)] = Puts(s, t)
            /\ \A i \in 1..Len(t) : h[i] = Put(h[i - 1], t[i])
  BY PutsSteps
<1>2. Len(t) \in 0..Len(t)
  OBVIOUS
<1>3. QED BY <1>1, <1>2

LEMMA WindowTyped ==
    ASSUME NEW r \in Rolls PROVE Window(r) \in Screens
<1>0. RollOf(Glyphs, r) /\ r.col \in Nat /\ r.col < Cols /\ r.rows \in Seq(Seq(Glyphs))
  <2>1. r \in [rows : Seq(Seq(Glyphs)), col : Nat] /\ RollOf(Glyphs, r) /\ r.col < Cols
    BY DEF Rolls
  <2>2. QED BY <2>1
<1>1. RollOf(Glyphs, r) /\ r.col \in 0..(Cols - 1) /\ r.rows \in Seq(Seq(Glyphs)) /\ Blank \in Glyphs
  <2>1. Blank \in Glyphs
    BY ReadLineAssumption DEF Blank
  <2>2. Cols \in Nat
    BY ConsoleAssumption
  <2>3. r.col \in 0..(Cols - 1)
    BY <1>0, <2>2
  <2>4. QED BY <1>0, <2>1, <2>3
<1>2. /\ Window(r) = [cells |-> Shown(r), x |-> r.col, y |-> Len(r.rows) - Above(r) - 1]
      /\ Above(r) \in Nat /\ Len(r.rows) - Above(r) - 1 \in 0..(Rows - 1) /\ Len(r.rows) \in Nat
  BY <1>1, WindowIs
<1>3. ASSUME NEW p \in Cell PROVE Shown(r)[p] \in Glyphs
  <2> DEFINE k == Above(r) + p[1] + 1
             j == p[2] + 1
  <2>1. Shown(r)[p] = IF k <= Len(r.rows) THEN At(r, k, j) ELSE Blank
    BY DEF Shown
  <2>2. k \in Int /\ k >= 1 /\ j \in Int /\ j >= 1
    BY <1>2, PlaceIs, ConsoleAssumption
  <2> HIDE DEF k, j
  <2>3. k <= Len(r.rows) => At(r, k, j) \in Glyphs
    <3>1. ASSUME k <= Len(r.rows) PROVE At(r, k, j) \in Glyphs
      <4>1. r.rows[k] \in Seq(Glyphs)
        BY <1>1, <1>2, <2>2, <3>1
      <4>2. QED BY <1>1, <2>2, <4>1 DEF At
    <3>2. QED BY <3>1
  <2>4. QED BY <1>1, <2>1, <2>3
<1>4. Shown(r) \in [Cell -> Glyphs]
  BY <1>3 DEF Shown
<1>5. QED BY <1>1, <1>2, <1>4 DEF Screens

\* A text leaves on the screen the end of what it makes of the roll.
LEMMA PutsShowRoll ==
    ASSUME NEW r \in Rolls, NEW t \in Seq(Glyphs)
    PROVE  RollPuts(r, t) \in Rolls /\ Puts(Window(r), t) = Window(RollPuts(r, t))
<1> DEFINE N == Len(t)
<1>1. N \in Nat /\ \A i \in 1..N : t[i] \in Glyphs
  OBVIOUS
<1>2. PICK a \in [0..N -> Rolls] :
            /\ a[0] = r /\ a[N] = RollPuts(r, t)
            /\ \A i \in 1..N : a[i] = RollPut(a[i - 1], t[i])
  BY RollPutsSteps
<1>3. Window(r) \in Screens
  BY WindowTyped
<1>4. PICK b \in [0..N -> Screens] :
            /\ b[0] = Window(r) /\ b[N] = Puts(Window(r), t)
            /\ \A i \in 1..N : b[i] = Put(b[i - 1], t[i])
  BY <1>3, PutsSteps
<1> HIDE DEF N
<1> DEFINE S == {i \in 0..N : b[i] = Window(a[i])}
<1>5. 0 \in S
  BY <1>1, <1>2, <1>4
<1>6. ASSUME NEW i \in 0..(N - 1), i \in S PROVE i + 1 \in S
  <2>1. i + 1 \in 1..N /\ i + 1 \in 0..N /\ (i + 1) - 1 = i /\ i \in 0..N
    BY <1>1
  <2>2. b[i] = Window(a[i]) /\ a[i] \in Rolls /\ t[i + 1] \in Glyphs
    BY <1>1, <1>2, <1>6, <2>1
  <2>3. a[i + 1] = RollPut(a[i], t[i + 1]) /\ b[i + 1] = Put(b[i], t[i + 1])
    BY <1>2, <1>4, <2>1
  <2>4. b[i + 1] = Window(a[i + 1])
    BY <2>2, <2>3, RollPutTyped
  <2>5. QED BY <2>1, <2>4
<1>7. N \in S
  <2> HIDE DEF S
  <2>1. 0..N \subseteq S
    BY <1>1, <1>5, <1>6, InductionUpTo
  <2>2. QED BY <1>1, <2>1
<1>8. QED BY <1>2, <1>4, <1>7

LEMMA NewRollIs == NewRoll \in Rolls /\ Window(NewRoll) = Cleared
<1>1. NewRoll = [rows |-> << <<>> >>, col |-> 0]
  BY DEF NewRoll
<1>2. NewRoll.rows = << <<>> >> /\ NewRoll.col = 0 /\ Len(NewRoll.rows) = 1 /\ NewRoll.rows[1] = <<>>
      /\ NewRoll \in [rows : Seq(Seq(Glyphs)), col : Nat]
  <2>1. <<>> \in Seq(Glyphs)
    OBVIOUS
  <2>2. << <<>> >> \in Seq(Seq(Glyphs))
    BY <2>1
  <2>3. QED BY <1>1, <2>2
<1>3. RollOf(Glyphs, NewRoll) /\ NewRoll.col < Cols
  BY <1>2, ConsoleAssumption DEF RollOf
<1>4. Above(NewRoll) = 0
  BY <1>2, ConsoleAssumption DEF Above
<1>5. Window(NewRoll) = [cells |-> Shown(NewRoll), x |-> 0, y |-> 0]
  <2>1. Window(NewRoll) = [cells |-> Shown(NewRoll), x |-> NewRoll.col, y |-> Len(NewRoll.rows) - Above(NewRoll) - 1]
    BY <1>3, WindowIs
  <2>2. Len(NewRoll.rows) - Above(NewRoll) - 1 = 0
    BY <1>2, <1>4
  <2>3. QED BY <1>2, <2>1, <2>2
<1>6. ASSUME NEW p \in Cell PROVE Shown(NewRoll)[p] = Blank
  <2>1. p[1] \in Nat /\ p[2] \in Nat
    BY PlaceIs, ConsoleAssumption
  <2>2. Shown(NewRoll)[p] = IF 0 + p[1] + 1 <= 1 THEN At(NewRoll, 0 + p[1] + 1, p[2] + 1) ELSE Blank
    BY <1>2, <1>4 DEF Shown
  <2>3. At(NewRoll, 1, p[2] + 1) = Blank
    BY <1>2, <2>1 DEF At
  <2>4. CASE p[1] = 0
    BY <2>2, <2>3, <2>4
  <2>5. CASE p[1] # 0
    BY <2>1, <2>2, <2>5
  <2>6. QED BY <2>4, <2>5
<1>7. Shown(NewRoll) = [p \in Cell |-> Blank]
  BY <1>6 DEF Shown
<1>8. QED BY <1>2, <1>3, <1>5, <1>7 DEF Rolls, Cleared

-----------------------------------------------------------------------------
(* Nothing is left on the screen behind the cursor.                        *)

After(cells, y, x) ==
    \A v \in 0..(Rows - 1), u \in 0..(Cols - 1) : v > y \/ (v = y /\ u >= x) => cells[<<v, u>>] = Blank

LEMMA NextStopRight ==
    ASSUME NEW x \in Nat PROVE NextStop(x) > x
<1>1. \A n \in Nat, k \in Nat \ {0} : n < (n \div k + 1) * k
  OBVIOUS
<1>2. QED BY <1>1, ConsoleAssumption DEF NextStop

LEMMA DrawnAfter ==
    ASSUME NEW s \in Screens, NEW c \in Glyphs, After(s.cells, s.y, Cols)
    PROVE  /\ After(Drawn(s, c).cells, Drawn(s, c).y, Cols)
           /\ c = "nl" \/ (c # "cr" /\ After(s.cells, s.y, s.x)) =>
                After(Drawn(s, c).cells, Drawn(s, c).y, Drawn(s, c).x)
<1>1. /\ s = [cells |-> s.cells, x |-> s.x, y |-> s.y] /\ s.cells \in [Cell -> Glyphs]
      /\ s.x \in 0..(Cols - 1) /\ s.y \in 0..(Rows - 1) /\ Cols \in Nat /\ Rows \in Nat
      /\ s.x \in Nat /\ s.y \in Nat
  BY ConsoleAssumption DEF Screens
<1>2. CASE c = "nl"
  <2>1. Drawn(s, c).cells = s.cells /\ Drawn(s, c).x = 0 /\ Drawn(s, c).y = s.y + 1
    BY <1>2 DEF Drawn
  <2>2. QED BY <1>1, <2>1 DEF After
<1>3. CASE c = "cr"
  <2>1. Drawn(s, c).cells = s.cells /\ Drawn(s, c).y = s.y
    BY <1>1, <1>3 DEF Drawn
  <2>2. QED BY <1>3, <2>1
<1>4. CASE c = "tab"
  <2>1. Drawn(s, c) = [cells |-> s.cells, x |-> NextStop(s.x), y |-> s.y]
    BY <1>1, <1>4 DEF Drawn
  <2>2. NextStop(s.x) \in Nat /\ NextStop(s.x) > s.x
    BY <1>1, NextStopIs, NextStopRight
  <2>3. QED BY <1>1, <1>4, <2>1, <2>2 DEF After
<1>5. CASE c = "bs" /\ s.x = 0
  <2>1. Drawn(s, c) = s
    BY <1>5 DEF Drawn
  <2>2. QED BY <1>5, <2>1
<1>6. CASE c = "bs" /\ s.x # 0
  <2>1. Drawn(s, c) = [cells |-> [s.cells EXCEPT ![<<s.y, s.x - 1>>] = Blank], x |-> s.x - 1, y |-> s.y]
    BY <1>6 DEF Drawn
  <2> DEFINE new == [s.cells EXCEPT ![<<s.y, s.x - 1>>] = Blank]
  <2>2. \A v \in 0..(Rows - 1), u \in 0..(Cols - 1) :
            new[<<v, u>>] = IF v = s.y /\ u = s.x - 1 THEN Blank ELSE s.cells[<<v, u>>]
    <3>1. ASSUME NEW v \in 0..(Rows - 1), NEW u \in 0..(Cols - 1)
          PROVE  new[<<v, u>>] = IF v = s.y /\ u = s.x - 1 THEN Blank ELSE s.cells[<<v, u>>]
      <4>1. <<v, u>> \in Cell /\ (<<v, u>> = <<s.y, s.x - 1>> <=> v = s.y /\ u = s.x - 1)
        BY DEF Cell
      <4>2. QED BY <1>1, <4>1
    <3>2. QED BY <3>1
  <2>3. Drawn(s, c) = [cells |-> new, x |-> s.x - 1, y |-> s.y]
    BY <2>1
  <2> HIDE DEF new
  <2>4. After(new, s.y, Cols) /\ (After(s.cells, s.y, s.x) => After(new, s.y, s.x - 1))
    BY <1>1, <2>2 DEF After
  <2>5. QED BY <1>6, <2>3, <2>4
<1>7. CASE c \notin {"nl", "cr", "bs", "tab"}
  <2>1. Drawn(s, c) = [cells |-> [s.cells EXCEPT ![<<s.y, s.x>>] = c], x |-> s.x + 1, y |-> s.y]
    BY <1>7 DEF Drawn
  <2> DEFINE new == [s.cells EXCEPT ![<<s.y, s.x>>] = c]
  <2>2. \A v \in 0..(Rows - 1), u \in 0..(Cols - 1) :
            new[<<v, u>>] = IF v = s.y /\ u = s.x THEN c ELSE s.cells[<<v, u>>]
    <3>1. ASSUME NEW v \in 0..(Rows - 1), NEW u \in 0..(Cols - 1)
          PROVE  new[<<v, u>>] = IF v = s.y /\ u = s.x THEN c ELSE s.cells[<<v, u>>]
      <4>1. <<v, u>> \in Cell /\ (<<v, u>> = <<s.y, s.x>> <=> v = s.y /\ u = s.x)
        BY DEF Cell
      <4>2. QED BY <1>1, <4>1
    <3>2. QED BY <3>1
  <2>3. Drawn(s, c) = [cells |-> new, x |-> s.x + 1, y |-> s.y]
    BY <2>1
  <2> HIDE DEF new
  <2>4. After(new, s.y, Cols) /\ (After(s.cells, s.y, s.x) => After(new, s.y, s.x + 1))
    BY <1>1, <2>2 DEF After
  <2>5. QED BY <1>7, <2>3, <2>4
<1>8. QED BY <1>2, <1>3, <1>4, <1>5, <1>6, <1>7

LEMMA FittedAfter ==
    ASSUME NEW d, Drawing(d), After(d.cells, d.y, Cols)
    PROVE  /\ After(Fitted(d).cells, Fitted(d).y, Cols)
           /\ After(d.cells, d.y, d.x) => After(Fitted(d).cells, Fitted(d).y, Fitted(d).x)
<1>1. /\ d = [cells |-> d.cells, x |-> d.x, y |-> d.y] /\ d.cells \in [Cell -> Glyphs] /\ d.x \in Nat
      /\ d.y \in 0..Rows /\ (d.y = Rows => d.x = 0) /\ d.y \in Nat
      /\ Cols \in Nat \ {0} /\ Rows \in Nat \ {0}
  BY ConsoleAssumption DEF Drawing
<1>2. \A n \in Nat : After(Scrolled(d.cells), Rows - 1, n)
  <2>1. \A v \in 0..(Rows - 1), u \in 0..(Cols - 1) :
            Scrolled(d.cells)[<<v, u>>] = IF v < Rows - 1 THEN d.cells[<<v + 1, u>>] ELSE Blank
    BY <1>1, ScrolledIs
  <2>2. ASSUME NEW n \in Nat, NEW v \in 0..(Rows - 1), NEW u \in 0..(Cols - 1),
               v > Rows - 1 \/ (v = Rows - 1 /\ u >= n)
        PROVE  Scrolled(d.cells)[<<v, u>>] = Blank
    <3>1. ~(v < Rows - 1)
      BY <1>1, <2>2
    <3>2. QED BY <2>1, <3>1
  <2>3. QED BY <2>2 DEF After
<1>3. CASE d.x < Cols /\ d.y < Rows
  BY <1>1, <1>3, FittedIs
<1>4. CASE d.x < Cols /\ d.y = Rows
  <2>1. Fitted(d) = [cells |-> Scrolled(d.cells), x |-> d.x, y |-> Rows - 1]
    BY <1>1, <1>4 DEF Fitted
  <2>2. QED BY <1>1, <1>2, <2>1
<1>5. CASE d.x >= Cols
  <2>1. d.y < Rows
    BY <1>1, <1>5
  <2>2. CASE d.y + 1 < Rows
    <3>1. Fitted(d) = [cells |-> d.cells, x |-> 0, y |-> d.y + 1]
      BY <1>1, <1>5, <2>2 DEF Fitted
    <3>2. After(d.cells, d.y + 1, Cols) /\ After(d.cells, d.y + 1, 0)
      BY <1>1 DEF After
    <3>3. QED BY <3>1, <3>2
  <2>3. CASE d.y + 1 = Rows
    <3>1. Fitted(d) = [cells |-> Scrolled(d.cells), x |-> 0, y |-> Rows - 1]
      BY <1>1, <1>5, <2>3 DEF Fitted
    <3>2. QED BY <1>1, <1>2, <3>1
  <2>4. QED BY <1>1, <2>1, <2>2, <2>3
<1>6. QED BY <1>1, <1>3, <1>4, <1>5

\* The cursor is at the end of what the screen shows.
AtEnd(s) == After(s.cells, s.y, s.x)

\* Printing keeps it there, when no carriage return is left without a newline.
LEMMA PutsAtEnd ==
    ASSUME NEW s \in Screens, AtEnd(s), NEW t \in Seq(Glyphs), EndsReturns(t)
    PROVE  AtEnd(Puts(s, t))
<1> DEFINE N == Len(t)
<1>1. N \in Nat /\ DOMAIN t = 1..N /\ \A i \in 1..N : t[i] \in Glyphs
  OBVIOUS
<1>2. PICK h \in [0..N -> Screens] :
            /\ h[0] = s /\ h[N] = Puts(s, t)
            /\ \A i \in 1..N : h[i] = Put(h[i - 1], t[i])
  BY PutsSteps
<1> HIDE DEF N
<1> DEFINE Below(q) == After(q.cells, q.y, Cols)
           Back(i) == \E j \in 1..i : t[j] = "cr" /\ \A l \in (j + 1)..i : t[l] # "nl"
           S == {i \in 0..N : Below(h[i]) /\ (AtEnd(h[i]) \/ Back(i))}
<1>3. 0 \in S
  <2>1. s.x \in Int /\ s.y \in Int /\ s.x < Cols /\ Cols \in Nat /\ Rows \in Nat
    BY ConsoleAssumption DEF Screens
  <2>2. Below(s)
    BY <2>1 DEF AtEnd, After
  <2>3. QED BY <1>1, <1>2, <2>2
<1>4. ASSUME NEW i \in 0..(N - 1), i \in S PROVE i + 1 \in S
  <2>1. i + 1 \in 1..N /\ i + 1 \in 0..N /\ (i + 1) - 1 = i /\ i \in 0..N /\ i \in Nat
    BY <1>1
  <2>2. h[i] \in Screens /\ t[i + 1] \in Glyphs /\ h[i + 1] = Put(h[i], t[i + 1]) /\ Below(h[i])
    BY <1>1, <1>2, <1>4, <2>1
  <2> DEFINE d == Drawn(h[i], t[i + 1])
  <2>3. /\ After(d.cells, d.y, Cols)
        /\ t[i + 1] = "nl" \/ (t[i + 1] # "cr" /\ AtEnd(h[i])) => After(d.cells, d.y, d.x)
    BY <2>2, DrawnAfter DEF AtEnd
  <2>4. Drawing(d) /\ h[i + 1] = Fitted(d)
    BY <2>2, DrawnIs
  <2> HIDE DEF d
  <2>5. Below(h[i + 1]) /\ (After(d.cells, d.y, d.x) => AtEnd(h[i + 1]))
    BY <2>3, <2>4, FittedAfter DEF AtEnd
  <2>6. AtEnd(h[i + 1]) \/ Back(i + 1)
    <3>1. CASE t[i + 1] = "nl"
      BY <2>3, <2>5, <3>1
    <3>2. CASE t[i + 1] = "cr"
      <4>1. i + 1 \in 1..(i + 1) /\ \A l \in ((i + 1) + 1)..(i + 1) : t[l] # "nl"
        BY <2>1
      <4>2. QED BY <3>2, <4>1
    <3>3. CASE t[i + 1] \notin {"nl", "cr"} /\ AtEnd(h[i])
      BY <2>3, <2>5, <3>3
    <3>4. CASE t[i + 1] \notin {"nl", "cr"} /\ ~AtEnd(h[i])
      <4>1. PICK j \in 1..i : t[j] = "cr" /\ \A l \in (j + 1)..i : t[l] # "nl"
        BY <1>4, <3>4
      <4>2. j \in 1..(i + 1) /\ \A l \in (j + 1)..(i + 1) : l \in (j + 1)..i \/ l = i + 1
        BY <2>1
      <4>3. QED BY <3>4, <4>1, <4>2
    <3>5. QED BY <3>1, <3>2, <3>3, <3>4
  <2> HIDE DEF Back, Below
  <2>7. QED BY <2>1, <2>5, <2>6
<1>5. N \in S
  <2> HIDE DEF S
  <2>1. 0..N \subseteq S
    BY <1>1, <1>3, <1>4, InductionUpTo
  <2>2. QED BY <1>1, <2>1
<1>6. ~Back(N)
  BY <1>1 DEF EndsReturns
<1>7. QED BY <1>2, <1>5, <1>6

-----------------------------------------------------------------------------
(* The line on the screen.                                                 *)

\* Behind the column st of its row the screen shows the first n of f, and the
\* cursor behind them.
Holds(s, f, n, st) ==
    /\ s.x = st + n
    /\ \A i \in st..(Cols - 1) : s.cells[<<s.y, i>>] = IF i < st + n THEN f[i - st + 1] ELSE Blank

LEMMA PutPlain ==
    ASSUME NEW s \in Screens, NEW c \in Glyphs, c \notin {"nl", "cr", "bs", "tab"}, s.x + 1 < Cols
    PROVE  /\ Put(s, c) \in Screens /\ Put(s, c).x = s.x + 1 /\ Put(s, c).y = s.y
           /\ \A u \in 0..(Cols - 1) : Put(s, c).cells[<<s.y, u>>] = IF u = s.x THEN c ELSE s.cells[<<s.y, u>>]
<1>1. /\ s.cells \in [Cell -> Glyphs] /\ s.x \in 0..(Cols - 1) /\ s.y \in 0..(Rows - 1)
      /\ Cols \in Nat /\ Rows \in Nat
  BY ConsoleAssumption DEF Screens
<1> DEFINE new == [s.cells EXCEPT ![<<s.y, s.x>>] = c]
           d == Drawn(s, c)
<1>2. d = [cells |-> new, x |-> s.x + 1, y |-> s.y]
  BY DEF Drawn
<1>3. Drawing(d) /\ Put(s, c) = Fitted(d)
  BY DrawnIs
<1>4. ASSUME NEW u \in 0..(Cols - 1)
      PROVE  new[<<s.y, u>>] = IF u = s.x THEN c ELSE s.cells[<<s.y, u>>]
  <2>1. <<s.y, u>> \in Cell /\ (<<s.y, u>> = <<s.y, s.x>> <=> u = s.x)
    BY <1>1 DEF Cell
  <2>2. QED BY <1>1, <2>1
<1> HIDE DEF new, d
<1>5. d.x < Cols /\ d.y < Rows
  BY <1>1, <1>2
<1>6. Put(s, c) = d
  BY <1>3, <1>5, FittedIs
<1>7. QED BY <1>2, <1>4, <1>6, PutTyped

LEMMA PutBack ==
    ASSUME NEW s \in Screens, s.x > 0
    PROVE  /\ Put(s, "bs") \in Screens /\ Put(s, "bs").x = s.x - 1 /\ Put(s, "bs").y = s.y
           /\ \A u \in 0..(Cols - 1) :
                Put(s, "bs").cells[<<s.y, u>>] = IF u = s.x - 1 THEN Blank ELSE s.cells[<<s.y, u>>]
<1>1. /\ s.cells \in [Cell -> Glyphs] /\ s.x \in 0..(Cols - 1) /\ s.y \in 0..(Rows - 1)
      /\ Cols \in Nat /\ Rows \in Nat
  BY ConsoleAssumption DEF Screens
<1>2. "bs" \in Glyphs
  BY ReadLineAssumption
<1> DEFINE new == [s.cells EXCEPT ![<<s.y, s.x - 1>>] = Blank]
           d == Drawn(s, "bs")
<1>3. d = [cells |-> new, x |-> s.x - 1, y |-> s.y]
  BY <1>1 DEF Drawn
<1>4. Drawing(d) /\ Put(s, "bs") = Fitted(d)
  BY <1>2, DrawnIs
<1>5. ASSUME NEW u \in 0..(Cols - 1)
      PROVE  new[<<s.y, u>>] = IF u = s.x - 1 THEN Blank ELSE s.cells[<<s.y, u>>]
  <2>1. <<s.y, u>> \in Cell /\ (<<s.y, u>> = <<s.y, s.x - 1>> <=> u = s.x - 1)
    BY <1>1 DEF Cell
  <2>2. QED BY <1>1, <2>1
<1> HIDE DEF new, d
<1>6. d.x < Cols /\ d.y < Rows
  BY <1>1, <1>3
<1>7. Put(s, "bs") = d
  BY <1>4, <1>6, FittedIs
<1>8. Put(s, "bs") \in Screens
  BY <1>2, PutTyped
<1>9. QED BY <1>3, <1>5, <1>7, <1>8

\* A character typed, and one erased.
LEMMA HoldsOneMore ==
    ASSUME NEW s \in Screens, NEW f, NEW n \in Nat, NEW st \in Nat, Holds(s, f, n, st),
           st + n + 1 < Cols, NEW c \in Chars, f[n + 1] = c
    PROVE  Holds(Put(s, c), f, n + 1, st)
<1>1. c \in Glyphs /\ c \notin {"nl", "cr", "bs", "tab"} /\ Cols \in Nat
  BY ReadLineAssumption, ConsoleAssumption
<1>2. s.x = st + n /\ s.x + 1 < Cols
  BY DEF Holds
<1> DEFINE r == Put(s, c)
<1>3. /\ r.x = s.x + 1 /\ r.y = s.y
      /\ \A u \in 0..(Cols - 1) : r.cells[<<s.y, u>>] = IF u = s.x THEN c ELSE s.cells[<<s.y, u>>]
  BY <1>1, <1>2, PutPlain
<1> HIDE DEF r
<1>4. ASSUME NEW i \in st..(Cols - 1)
      PROVE  r.cells[<<r.y, i>>] = IF i < st + (n + 1) THEN f[i - st + 1] ELSE Blank
  <2>1. i \in 0..(Cols - 1) /\ i \in Nat
    BY <1>1
  <2>2. r.cells[<<r.y, i>>] = IF i = s.x THEN c ELSE s.cells[<<s.y, i>>]
    BY <1>3, <2>1
  <2>3. s.cells[<<s.y, i>>] = IF i < st + n THEN f[i - st + 1] ELSE Blank
    BY DEF Holds
  <2>4. CASE i = st + n
    <3>1. i - st + 1 = n + 1 /\ i < st + (n + 1)
      BY <2>1, <2>4
    <3>2. QED BY <1>2, <2>2, <2>4, <3>1
  <2>5. CASE i # st + n
    <3>1. (i < st + n) <=> (i < st + (n + 1))
      BY <2>1, <2>5
    <3>2. QED BY <1>2, <2>2, <2>3, <2>5, <3>1
  <2>6. QED BY <2>4, <2>5
<1>5. r.x = st + (n + 1)
  BY <1>2, <1>3
<1>6. QED BY <1>4, <1>5 DEF Holds, r

LEMMA HoldsOneLess ==
    ASSUME NEW s \in Screens, NEW f, NEW n \in Nat \ {0}, NEW st \in Nat, Holds(s, f, n, st), st + n < Cols
    PROVE  Holds(Put(Put(Put(s, "bs"), Blank), "bs"), f, n - 1, st)
<1>1. Blank \in Glyphs /\ Blank \notin {"nl", "cr", "bs", "tab"} /\ Cols \in Nat
  <2>1. Blank \notin {"nl", "cr", "bs", "tab"}
    BY Zenon DEF Blank
  <2>2. QED BY <2>1, ReadLineAssumption, ConsoleAssumption
<1>2. s.x = st + n /\ s.x > 0 /\ s.x \in Nat
  <2>1. s.x = st + n
    BY DEF Holds
  <2>2. QED BY <2>1
<1> DEFINE a == Put(s, "bs")
           b == Put(a, Blank)
           r == Put(b, "bs")
<1>3. /\ a \in Screens /\ a.x = s.x - 1 /\ a.y = s.y
      /\ \A u \in 0..(Cols - 1) : a.cells[<<s.y, u>>] = IF u = s.x - 1 THEN Blank ELSE s.cells[<<s.y, u>>]
  BY <1>2, PutBack
<1> HIDE DEF a
<1>4. a.x + 1 < Cols
  BY <1>1, <1>2, <1>3
<1>5. /\ b \in Screens /\ b.x = a.x + 1 /\ b.y = a.y
      /\ \A u \in 0..(Cols - 1) : b.cells[<<a.y, u>>] = IF u = a.x THEN Blank ELSE a.cells[<<a.y, u>>]
  BY <1>1, <1>3, <1>4, PutPlain
<1> HIDE DEF b
<1>6. b.x = s.x /\ b.x > 0
  BY <1>2, <1>3, <1>5
<1>7. /\ r.x = b.x - 1 /\ r.y = b.y
      /\ \A u \in 0..(Cols - 1) : r.cells[<<b.y, u>>] = IF u = b.x - 1 THEN Blank ELSE b.cells[<<b.y, u>>]
  BY <1>5, <1>6, PutBack
<1> HIDE DEF r
<1>8. ASSUME NEW i \in st..(Cols - 1)
      PROVE  r.cells[<<r.y, i>>] = IF i < st + (n - 1) THEN f[i - st + 1] ELSE Blank
  <2>1. i \in 0..(Cols - 1) /\ i \in Nat
    BY <1>1
  <2>2. r.cells[<<r.y, i>>] = IF i = s.x - 1 THEN Blank ELSE s.cells[<<s.y, i>>]
    BY <1>3, <1>5, <1>6, <1>7, <2>1
  <2>3. s.cells[<<s.y, i>>] = IF i < st + n THEN f[i - st + 1] ELSE Blank
    BY DEF Holds
  <2>4. CASE i = st + n - 1
    <3>1. ~(i < st + (n - 1)) /\ i = s.x - 1
      BY <1>2, <2>1, <2>4
    <3>2. QED BY <2>2, <3>1
  <2>5. CASE i # st + n - 1
    <3>1. ((i < st + n) <=> (i < st + (n - 1))) /\ i # s.x - 1
      BY <1>2, <2>1, <2>5
    <3>2. QED BY <2>2, <2>3, <3>1
  <2>6. QED BY <2>4, <2>5
<1>9. r.x = st + (n - 1)
  BY <1>2, <1>6, <1>7
<1>10. QED BY <1>8, <1>9 DEF Holds, a, b, r

LEMMA Joined ==
    ASSUME NEW A, NEW a \in Seq(A), NEW b \in Seq(A)
    PROVE  /\ a \o b \in Seq(A) /\ Len(a \o b) = Len(a) + Len(b)
           /\ \A i \in 1..Len(a) : (a \o b)[i] = a[i]
           /\ \A i \in 1..Len(b) : (a \o b)[Len(a) + i] = b[i]
<1>1. Len(a) \in Nat /\ Len(b) \in Nat /\ Len(a \o b) = Len(a) + Len(b)
  OBVIOUS
<1>2. \A i \in 1..(Len(a) + Len(b)) : (a \o b)[i] = IF i <= Len(a) THEN a[i] ELSE b[i - Len(a)]
  OBVIOUS
<1>3. a \o b \in Seq(A)
  OBVIOUS
<1>4. ASSUME NEW i \in 1..Len(b) PROVE (a \o b)[Len(a) + i] = b[i]
  <2>1. Len(a) + i \in 1..(Len(a) + Len(b)) /\ ~(Len(a) + i <= Len(a)) /\ (Len(a) + i) - Len(a) = i
    BY <1>1
  <2>2. QED BY <1>2, <2>1
<1>5. ASSUME NEW i \in 1..Len(a) PROVE (a \o b)[i] = a[i]
  <2>1. i \in 1..(Len(a) + Len(b)) /\ i <= Len(a)
    BY <1>1
  <2>2. QED BY <1>2, <2>1
<1>6. QED BY <1>1, <1>3, <1>4, <1>5

LEMMA ErasedIs ==
    ASSUME NEW n \in Nat
    PROVE  /\ Erased(n) \in Seq(Glyphs) /\ Len(Erased(n)) = 3 * n
           /\ \A i \in 1..(3 * n) : Erased(n)[i] \in {"bs", Blank}
           /\ \A k \in 0..(n - 1) : /\ Erased(n)[3 * k + 1] = "bs" /\ Erased(n)[3 * k + 2] = Blank
                                    /\ Erased(n)[3 * k + 3] = "bs"
<1>1. 3 * n \in Nat /\ "bs" \in Glyphs /\ Blank \in Glyphs
  <2>1. 3 * n \in Nat
    OBVIOUS
  <2>2. QED BY <2>1, ReadLineAssumption
<1>2. \A i \in 1..(3 * n) : Erased(n)[i] = IF i % 3 = 2 THEN Blank ELSE "bs"
  BY DEF Erased
<1>3. Erased(n) \in Seq(Glyphs) /\ Len(Erased(n)) = 3 * n
  BY <1>1 DEF Erased
<1>4. ASSUME NEW k \in 0..(n - 1)
      PROVE  /\ 3 * k + 1 \in 1..(3 * n) /\ 3 * k + 2 \in 1..(3 * n) /\ 3 * k + 3 \in 1..(3 * n)
             /\ (3 * k + 1) % 3 = 1 /\ (3 * k + 2) % 3 = 2 /\ (3 * k + 3) % 3 = 0
  OBVIOUS
<1>5. QED BY <1>2, <1>3, <1>4

\* The line b becomes v: its last n go, w comes.
Becomes(b, n, w, v) ==
    /\ b \in Seq(Chars) /\ n \in 0..Len(b) /\ w \in Seq(Chars)
    /\ v \in Seq(Chars) /\ Len(v) = (Len(b) - n) + Len(w)
    /\ \A i \in 1..(Len(b) - n) : v[i] = b[i]
    /\ \A i \in 1..Len(w) : v[(Len(b) - n) + i] = w[i]

\* Erasing the last n of b and writing w puts what the editor holds then on the
\* screen.
LEMMA EditShows ==
    ASSUME NEW s \in Screens, NEW b, NEW n, NEW w, NEW v, Becomes(b, n, w, v),
           NEW st \in Nat, Holds(s, b, Len(b), st), st + Len(b) < Cols, st + Len(v) < Cols
    PROVE  Holds(Puts(s, Erased(n) \o w), v, Len(v), st)
<1> /\ b \in Seq(Chars) /\ n \in 0..Len(b) /\ w \in Seq(Chars)
    /\ v \in Seq(Chars) /\ Len(v) = (Len(b) - n) + Len(w)
    /\ \A i \in 1..(Len(b) - n) : v[i] = b[i]
    /\ \A i \in 1..Len(w) : v[(Len(b) - n) + i] = w[i]
  BY DEF Becomes
<1> DEFINE m == Len(b)
           e == Erased(n)
           t == e \o w
           N == Len(t)
<1>1. m \in Nat /\ n \in Nat /\ n <= m /\ Len(w) \in Nat /\ Cols \in Nat
  BY ConsoleAssumption
<1>2. e \in Seq(Glyphs) /\ Len(e) = 3 * n
      /\ \A k \in 0..(n - 1) : e[3 * k + 1] = "bs" /\ e[3 * k + 2] = Blank /\ e[3 * k + 3] = "bs"
  BY <1>1, ErasedIs
<1>3. w \in Seq(Glyphs) /\ \A i \in 1..Len(w) : w[i] \in Chars
  <2>1. Chars \subseteq Glyphs
    BY ReadLineAssumption
  <2>2. QED BY <2>1
<1> HIDE DEF e
<1>4. /\ t \in Seq(Glyphs) /\ N = 3 * n + Len(w) /\ N \in Nat
      /\ \A i \in 1..(3 * n) : t[i] = e[i]
      /\ \A i \in 1..Len(w) : t[3 * n + i] = w[i]
  <2>1. e \in Seq(Glyphs) /\ w \in Seq(Glyphs)
    BY <1>2, <1>3
  <2>2. t \in Seq(Glyphs)
    BY <2>1, Joined
  <2>3. N = Len(e) + Len(w)
    BY <2>1, Joined
  <2>4. \A i \in 1..Len(e) : t[i] = e[i]
    BY <2>1, Joined
  <2>5. \A i \in 1..Len(w) : t[Len(e) + i] = w[i]
    BY <2>1, Joined
  <2> HIDE DEF t, N
  <2>6. QED BY <1>1, <1>2, <2>2, <2>3, <2>4, <2>5
<1> HIDE DEF t, N
<1>5. PICK h \in [0..N -> Screens] :
            /\ h[0] = s /\ h[N] = Puts(s, t)
            /\ \A i \in 1..N : h[i] = Put(h[i - 1], t[i])
  BY <1>4, PutsSteps DEF N
<1> DEFINE S == {k \in 0..n : Holds(h[3 * k], b, m - k, st)}
<1>6. 0 \in S
  BY <1>1, <1>5
<1>7. ASSUME NEW k \in 0..(n - 1), k \in S PROVE k + 1 \in S
  <2>1. /\ k \in Nat /\ k + 1 \in 0..n /\ 3 * (k + 1) = 3 * k + 3 /\ 3 * k \in 0..N
        /\ 3 * k + 1 \in 1..N /\ 3 * k + 2 \in 1..N /\ 3 * k + 3 \in 1..N
        /\ 3 * k + 1 \in 1..(3 * n) /\ 3 * k + 2 \in 1..(3 * n) /\ 3 * k + 3 \in 1..(3 * n)
        /\ (3 * k + 1) - 1 = 3 * k /\ (3 * k + 2) - 1 = 3 * k + 1 /\ (3 * k + 3) - 1 = 3 * k + 2
        /\ m - k \in Nat \ {0} /\ (m - k) - 1 = m - (k + 1) /\ st + (m - k) < Cols
    BY <1>1, <1>4
  <2>2. t[3 * k + 1] = "bs" /\ t[3 * k + 2] = Blank /\ t[3 * k + 3] = "bs"
    BY <1>2, <1>4, <2>1
  <2>3. /\ h[3 * k + 1] = Put(h[3 * k], "bs") /\ h[3 * k + 2] = Put(h[3 * k + 1], Blank)
        /\ h[3 * k + 3] = Put(h[3 * k + 2], "bs")
    BY <1>5, <2>1, <2>2
  <2>4. h[3 * k] \in Screens /\ Holds(h[3 * k], b, m - k, st)
    BY <1>5, <1>7, <2>1
  <2> DEFINE g == h[3 * k]
             q == m - k
  <2>5. g \in Screens /\ q \in Nat \ {0} /\ st + q < Cols /\ Holds(g, b, q, st)
        /\ h[3 * k + 3] = Put(Put(Put(g, "bs"), Blank), "bs")
    BY <2>1, <2>3, <2>4
  <2> HIDE DEF g, q
  <2>6. Holds(h[3 * k + 3], b, q - 1, st)
    BY <2>5, HoldsOneLess
  <2>7. QED BY <2>1, <2>6 DEF q
<1>8. n \in S
  <2> HIDE DEF S
  <2>1. 0..n \subseteq S
    BY <1>1, <1>6, <1>7, InductionUpTo
  <2>2. QED BY <1>1, <2>1
<1> DEFINE T == {j \in 0..Len(w) : Holds(h[3 * n + j], v, (m - n) + j, st)}
<1>9. 0 \in T
  <2>1. Holds(h[3 * n], b, m - n, st)
    BY <1>8
  <2>2. \A i \in st..(Cols - 1) : i < st + (m - n) => b[i - st + 1] = v[i - st + 1]
    <3>1. ASSUME NEW i \in st..(Cols - 1), i < st + (m - n) PROVE b[i - st + 1] = v[i - st + 1]
      <4>1. i - st + 1 \in 1..(m - n)
        BY <1>1, <3>1
      <4>2. QED BY <4>1
    <3>2. QED BY <3>1
  <2>3. Holds(h[3 * n], v, m - n, st)
    BY <2>1, <2>2 DEF Holds
  <2>4. 3 * n + 0 = 3 * n /\ (m - n) + 0 = m - n /\ 0 \in 0..Len(w)
    BY <1>1
  <2>5. QED BY <2>3, <2>4
<1>10. ASSUME NEW j \in 0..(Len(w) - 1), j \in T PROVE j + 1 \in T
  <2>1. /\ j \in Nat /\ j + 1 \in 0..Len(w) /\ j + 1 \in 1..Len(w)
        /\ 3 * n + j \in 0..N /\ 3 * n + (j + 1) \in 1..N /\ (3 * n + (j + 1)) - 1 = 3 * n + j
        /\ (m - n) + j \in Nat /\ (m - n) + (j + 1) = ((m - n) + j) + 1
        /\ st + ((m - n) + j) + 1 < Cols
    BY <1>1, <1>4
  <2>2. t[3 * n + (j + 1)] = w[j + 1] /\ v[(m - n) + (j + 1)] = w[j + 1] /\ w[j + 1] \in Chars
    BY <1>3, <1>4, <2>1
  <2>3. h[3 * n + (j + 1)] = Put(h[3 * n + j], w[j + 1])
    BY <1>5, <2>1, <2>2
  <2>4. h[3 * n + j] \in Screens /\ Holds(h[3 * n + j], v, (m - n) + j, st)
    BY <1>5, <1>10, <2>1
  <2>5. v[((m - n) + j) + 1] = w[j + 1]
    BY <2>1, <2>2
  <2>6. Holds(h[3 * n + (j + 1)], v, ((m - n) + j) + 1, st)
    BY <2>1, <2>2, <2>3, <2>4, <2>5, HoldsOneMore
  <2>7. QED BY <2>1, <2>6
<1>11. Len(w) \in T
  <2> HIDE DEF T
  <2>1. 0..Len(w) \subseteq T
    BY <1>1, <1>9, <1>10, InductionUpTo
  <2>2. QED BY <1>1, <2>1
<1>12. Holds(h[N], v, Len(v), st)
  BY <1>4, <1>11
<1>13. QED BY <1>5, <1>12 DEF t, e

-----------------------------------------------------------------------------
(* The texts the editor prints.                                            *)

\* Erasing no character prints nothing.
LEMMA EraseNone == Erased(0) = <<>>
<1>1. Erased(0) \in Seq(Glyphs) /\ Len(Erased(0)) = 0
  BY ErasedIs
<1>2. QED BY <1>1

\* A text without carriage returns.
LEMMA PlainEnds ==
    ASSUME NEW t \in Seq(Glyphs), \A i \in 1..Len(t) : t[i] # "cr" PROVE EndsReturns(t)
BY DEF EndsReturns

LEMMA JoinedEnds ==
    ASSUME NEW a \in Seq(Glyphs), NEW b \in Seq(Glyphs), EndsReturns(a), EndsReturns(b)
    PROVE  EndsReturns(a \o b)
<1> DEFINE t == a \o b
           m == Len(a)
           n == Len(b)
<1>1. m \in Nat /\ n \in Nat
  OBVIOUS
<1>2. Len(t) = m + n
  BY Joined
<1>3. \A i \in 1..m : t[i] = a[i]
  BY Joined
<1>4. \A i \in 1..n : t[m + i] = b[i]
  BY Joined
<1>5. DOMAIN t = 1..(m + n)
  BY <1>2
<1>6. \A i \in 1..m : a[i] = "cr" => \E j \in 1..m : j > i /\ a[j] = "nl"
  BY DEF EndsReturns
<1>7. \A i \in 1..n : b[i] = "cr" => \E j \in 1..n : j > i /\ b[j] = "nl"
  BY DEF EndsReturns
<1> HIDE DEF t, m, n
<1>8. ASSUME NEW i \in 1..(m + n), t[i] = "cr" PROVE \E j \in 1..(m + n) : j > i /\ t[j] = "nl"
  <2>1. CASE i <= m
    <3>1. i \in 1..m
      BY <1>1, <2>1
    <3>2. PICK j \in 1..m : j > i /\ a[j] = "nl"
      BY <1>3, <1>6, <1>8, <3>1
    <3>3. j \in 1..(m + n)
      BY <1>1
    <3>4. QED BY <1>3, <3>2, <3>3
  <2>2. CASE ~(i <= m)
    <3>1. i - m \in 1..n /\ m + (i - m) = i
      BY <1>1, <2>2
    <3>2. b[i - m] = "cr"
      BY <1>4, <1>8, <3>1
    <3>3. PICK j \in 1..n : j > i - m /\ b[j] = "nl"
      BY <1>7, <3>1, <3>2
    <3>4. m + j \in 1..(m + n) /\ m + j > i
      BY <1>1, <3>3
    <3>5. QED BY <1>4, <3>3, <3>4
  <2>3. QED BY <2>1, <2>2
<1>9. QED BY <1>5, <1>8 DEF EndsReturns, t

\* What erases n characters and writes w.
LEMMA EditText ==
    ASSUME NEW n \in Nat, NEW w \in Seq(Chars)
    PROVE  Erased(n) \o w \in Seq(Glyphs) /\ EndsReturns(Erased(n) \o w)
<1>1. Chars \subseteq Glyphs /\ \A c \in Chars : c # "cr"
  BY ReadLineAssumption
<1>2. w \in Seq(Glyphs) /\ \A i \in 1..Len(w) : w[i] # "cr"
  <2>1. w \in Seq(Glyphs)
    BY <1>1
  <2>2. \A i \in 1..Len(w) : w[i] \in Chars
    OBVIOUS
  <2>3. QED BY <1>1, <2>1, <2>2
<1>3. Blank # "cr"
  BY Zenon DEF Blank
<1>4. Erased(n) \in Seq(Glyphs) /\ \A i \in 1..Len(Erased(n)) : Erased(n)[i] # "cr"
  <2>1. Erased(n) \in Seq(Glyphs) /\ Len(Erased(n)) = 3 * n /\ \A i \in 1..(3 * n) : Erased(n)[i] \in {"bs", Blank}
    BY ErasedIs
  <2>2. QED BY <1>3, <2>1
<1>5. EndsReturns(w)
  BY <1>2, PlainEnds
<1>6. EndsReturns(Erased(n))
  BY <1>4, PlainEnds
<1>7. QED BY <1>2, <1>4, <1>5, <1>6, Joined, JoinedEnds

-----------------------------------------------------------------------------
(* The invariant.                                                          *)

TextInv ==
    /\ buf \in Seq(Chars) /\ Len(buf) < LINE_MAX
    /\ hist \in Seq(Seq(Chars)) /\ Len(hist) <= HIST_MAX
    /\ \A i \in 1..Len(hist) : Len(hist[i]) < LINE_MAX
    /\ hist_pos \in 0..Len(hist)

ScreenInv == roll \in Rolls /\ screen = Window(roll) /\ AtEnd(screen)

LineInv ==
    /\ start \in 0..(Cols - 1) /\ longest \in Nat /\ Len(buf) <= longest
    /\ start + longest < Cols => Holds(screen, buf, Len(buf), start)

Inv == TextInv /\ ScreenInv /\ LineInv

LEMMA ScreenIs == ASSUME ScreenInv PROVE screen \in Screens
BY WindowTyped DEF ScreenInv

\* Printing a text that ends its returns keeps the screen whole.
LEMMA Printed ==
    ASSUME NEW r \in Rolls, AtEnd(Window(r)), NEW t \in Seq(Glyphs), EndsReturns(t)
    PROVE  /\ RollPuts(r, t) \in Rolls /\ Puts(Window(r), t) = Window(RollPuts(r, t))
           /\ Puts(Window(r), t) \in Screens /\ AtEnd(Puts(Window(r), t))
<1>1. Window(r) \in Screens
  BY WindowTyped
<1>2. AtEnd(Puts(Window(r), t))
  BY <1>1, PutsAtEnd
<1>3. QED BY <1>1, <1>2, PutsTyped, PutsShowRoll

\* The screen just cleared.
LEMMA ClearedAtEnd == AtEnd(Cleared)
<1>1. \A v \in 0..(Rows - 1), u \in 0..(Cols - 1) : <<v, u>> \in Cell
  BY DEF Cell
<1>2. QED BY <1>1 DEF AtEnd, After, Cleared

LEMMA FreshPrompt ==
    /\ RollPuts(NewRoll, Prompt) \in Rolls /\ Puts(Cleared, Prompt) = Window(RollPuts(NewRoll, Prompt))
    /\ Puts(Cleared, Prompt) \in Screens /\ AtEnd(Puts(Cleared, Prompt))
<1>1. Prompt \in Seq(Glyphs) /\ EndsReturns(Prompt)
  BY ReadLineAssumption
<1>2. NewRoll \in Rolls /\ Window(NewRoll) = Cleared /\ AtEnd(Cleared)
  BY NewRollIs, ClearedAtEnd
<1> DEFINE r == NewRoll
<1> HIDE DEF r
<1>3. r \in Rolls /\ AtEnd(Window(r)) /\ Window(r) = Cleared
  BY <1>2 DEF r
<1>4. QED BY <1>1, <1>3, Printed DEF r

\* An empty line begins where the cursor is, and nothing is behind it.
LEMMA EmptyLine ==
    ASSUME NEW s \in Screens, AtEnd(s) PROVE s.x \in 0..(Cols - 1) /\ Holds(s, <<>>, 0, s.x)
<1>1. s.x \in 0..(Cols - 1) /\ s.y \in 0..(Rows - 1) /\ Cols \in Nat
  BY ConsoleAssumption DEF Screens
<1>2. ASSUME NEW i \in s.x..(Cols - 1) PROVE s.cells[<<s.y, i>>] = Blank /\ ~(i < s.x + 0)
  <2>1. i \in 0..(Cols - 1) /\ i >= s.x /\ ~(i < s.x + 0)
    BY <1>1
  <2>2. QED BY <1>1, <2>1 DEF AtEnd, After
<1>3. s.x = s.x + 0
  BY <1>1
<1>4. QED BY <1>1, <1>2, <1>3 DEF Holds

LEMMA InitInv == Init => Inv
<1> SUFFICES ASSUME Init PROVE Inv
  OBVIOUS
<1>1. /\ screen = Puts(Cleared, Prompt) /\ roll = RollPuts(NewRoll, Prompt)
      /\ buf = <<>> /\ hist = <<>> /\ hist_pos = 0 /\ start = screen.x /\ longest = 0
  BY DEF Init
<1>2. ScreenInv /\ screen \in Screens
  BY <1>1, FreshPrompt DEF ScreenInv
<1>3. TextInv
  <2>1. LINE_MAX \in Nat \ {0} /\ HIST_MAX \in Nat \ {0}
    BY ReadLineAssumption
  <2>2. <<>> \in Seq(Chars) /\ <<>> \in Seq(Seq(Chars)) /\ Len(<<>>) = 0
    OBVIOUS
  <2>3. QED BY <1>1, <2>1, <2>2 DEF TextInv
<1>4. LineInv
  <2>1. screen.x \in 0..(Cols - 1) /\ Holds(screen, <<>>, 0, screen.x)
    BY <1>2, EmptyLine DEF ScreenInv
  <2>2. Len(<<>>) = 0
    OBVIOUS
  <2>3. QED BY <1>1, <2>1, <2>2 DEF LineInv
<1>5. QED BY <1>2, <1>3, <1>4 DEF Inv

\* A line no longer than the longest one fits where that one did.
LEMMA Within ==
    ASSUME NEW from \in Nat, NEW a \in Nat, NEW b \in Nat, NEW l \in Nat, NEW top \in Nat, NEW cols \in Nat,
           a <= l, l <= top, b <= top, from + top < cols
    PROVE  from + a < cols /\ from + b < cols /\ from + l < cols
OBVIOUS

\* A key that edits the line: the last n characters go, w comes.
LEMMA EditKeeps ==
    ASSUME Inv, NEW n, NEW w, NEW v, Becomes(buf, n, w, v), Len(v) < LINE_MAX,
           NEW t, t = Erased(n) \o w, Edit(v, t), hist_pos' \in 0..Len(hist)
    PROVE  Inv'
<1>0. n \in Nat /\ w \in Seq(Chars) /\ v \in Seq(Chars) /\ Len(v) \in Nat /\ Len(buf) \in Nat
  BY DEF Becomes
<1>1. /\ buf \in Seq(Chars) /\ roll \in Rolls /\ screen = Window(roll) /\ AtEnd(screen) /\ screen \in Screens
      /\ start \in Nat /\ longest \in Nat /\ Len(buf) <= longest /\ Cols \in Nat
      /\ start + longest < Cols => Holds(screen, buf, Len(buf), start)
  BY ScreenIs, ConsoleAssumption DEF Inv, TextInv, ScreenInv, LineInv
<1>2. /\ buf' = v /\ screen' = Puts(screen, t) /\ roll' = RollPuts(roll, t)
      /\ longest' = IF Len(v) > longest THEN Len(v) ELSE longest
      /\ hist' = hist /\ start' = start
  BY DEF Edit, Show
<1>3. t \in Seq(Glyphs) /\ EndsReturns(t)
  BY <1>0, EditText
<1>4. TextInv'
  BY <1>0, <1>2 DEF Inv, TextInv
<1>5. ScreenInv'
  <2>1. /\ RollPuts(roll, t) \in Rolls /\ Puts(screen, t) = Window(RollPuts(roll, t))
        /\ AtEnd(Puts(screen, t))
    BY <1>1, <1>3, Printed
  <2>2. QED BY <1>2, <2>1 DEF ScreenInv
<1>6. LineInv'
  <2>1. Len(v) \in Nat /\ Len(buf) \in Nat
    BY <1>0
  <2>2. longest' \in Nat /\ longest' >= longest /\ longest' >= Len(v)
    BY <1>1, <1>2, <2>1
  <2>3. ASSUME start + longest' < Cols PROVE Holds(screen', v, Len(v), start)
    <3>1. start + Len(buf) < Cols /\ start + Len(v) < Cols /\ start + longest < Cols
      BY <1>1, <2>1, <2>2, <2>3, Within
    <3>2. Holds(screen, buf, Len(buf), start)
      BY <1>1, <3>1
    <3>3. Holds(Puts(screen, Erased(n) \o w), v, Len(v), start)
      BY <1>1, <3>1, <3>2, EditShows
    <3>4. QED BY <1>2, <3>3
  <2>4. start \in 0..(Cols - 1)
    BY DEF Inv, LineInv
  <2>5. QED BY <1>2, <2>2, <2>3, <2>4 DEF LineInv
<1>7. QED BY <1>4, <1>5, <1>6 DEF Inv

LEMMA FrontIs ==
    ASSUME NEW b \in Seq(Chars), Len(b) > 0
    PROVE  Front(b) \in Seq(Chars) /\ Len(Front(b)) = Len(b) - 1 /\ \A i \in 1..(Len(b) - 1) : Front(b)[i] = b[i]
<1> DEFINE n == Len(b) - 1
<1>1. n \in Nat /\ \A i \in 1..n : b[i] \in Chars
  OBVIOUS
<1>2. Front(b) = SubSeq(b, 1, n)
  BY DEF Front
<1> HIDE DEF n
<1>3. SubSeq(b, 1, n) \in Seq(Chars)
  BY <1>1
<1>4. Len(SubSeq(b, 1, n)) = n /\ \A i \in 1..n : SubSeq(b, 1, n)[i] = b[i]
  BY <1>1
<1>5. QED BY <1>2, <1>3, <1>4 DEF n

\* The keys.
LEMMA InsertKeeps == ASSUME Inv, NEW c \in Chars, Insert(c) PROVE Inv'
<1>1. buf \in Seq(Chars) /\ Len(buf) \in Nat /\ Len(buf) < LINE_MAX /\ LINE_MAX \in Nat /\ hist_pos \in 0..Len(hist)
  BY ReadLineAssumption DEF Inv, TextInv
<1>2. hist_pos' \in 0..Len(hist)
  BY <1>1 DEF Insert
<1>3. CASE Len(buf) < LINE_MAX - 1
  <2> DEFINE w == <<c>>
             v == Append(buf, c)
  <2>1. w \in Seq(Chars) /\ Len(w) = 1 /\ w[1] = c
    OBVIOUS
  <2>2. v \in Seq(Chars) /\ Len(v) = Len(buf) + 1 /\ v[Len(buf) + 1] = c /\ \A i \in 1..Len(buf) : v[i] = buf[i]
    BY <1>1
  <2>3. Erased(0) \o w = <<c>>
    <3>1. <<>> \o <<c>> = <<c>>
      OBVIOUS
    <3>2. QED BY <3>1, EraseNone
  <2>4. Edit(v, <<c>>)
    BY <1>3 DEF Insert
  <2> HIDE DEF w, v
  <2>5. \A i \in 1..Len(w) : v[(Len(buf) - 0) + i] = w[i]
    BY <1>1, <2>1, <2>2
  <2>6. Becomes(buf, 0, w, v) /\ Len(v) < LINE_MAX
    BY <1>1, <1>3, <2>1, <2>2, <2>5 DEF Becomes
  <2>7. QED BY <1>2, <2>3, <2>4, <2>6, EditKeeps
<1>4. CASE ~(Len(buf) < LINE_MAX - 1)
  <2>1. Edit(buf, <<>>)
    BY <1>4 DEF Insert
  <2>2. Erased(0) \o <<>> = <<>>
    BY EraseNone
  <2>3. Becomes(buf, 0, <<>>, buf)
    BY <1>1 DEF Becomes
  <2>4. QED BY <1>1, <1>2, <2>1, <2>2, <2>3, EditKeeps
<1>5. QED BY <1>3, <1>4

LEMMA BackspaceKeeps == ASSUME Inv, Backspace PROVE Inv'
<1>1. buf \in Seq(Chars) /\ Len(buf) \in Nat /\ Len(buf) < LINE_MAX /\ LINE_MAX \in Nat /\ hist_pos \in 0..Len(hist)
  BY ReadLineAssumption DEF Inv, TextInv
<1>2. hist_pos' \in 0..Len(hist)
  BY <1>1 DEF Backspace
<1>3. CASE buf # <<>>
  <2> DEFINE v == Front(buf)
  <2>1. Len(buf) > 0
    BY <1>1, <1>3
  <2>2. v \in Seq(Chars) /\ Len(v) = Len(buf) - 1 /\ \A i \in 1..(Len(buf) - 1) : v[i] = buf[i]
    BY <1>1, <2>1, FrontIs
  <2>3. Erased(1) \o <<>> = Erased(1)
    <3>1. Erased(1) \in Seq(Glyphs)
      BY ErasedIs
    <3>2. QED BY <3>1
  <2>4. Edit(v, Erased(1))
    BY <1>3 DEF Backspace
  <2> HIDE DEF v
  <2>5. Becomes(buf, 1, <<>>, v) /\ Len(v) < LINE_MAX
    BY <1>1, <2>1, <2>2 DEF Becomes
  <2>6. QED BY <1>2, <2>3, <2>4, <2>5, EditKeeps
<1>4. CASE buf = <<>>
  <2>1. Edit(buf, <<>>)
    BY <1>4 DEF Backspace
  <2>2. Erased(0) \o <<>> = <<>>
    BY EraseNone
  <2>3. Becomes(buf, 0, <<>>, buf)
    BY <1>1 DEF Becomes
  <2>4. QED BY <1>1, <1>2, <2>1, <2>2, <2>3, EditKeeps
<1>5. QED BY <1>3, <1>4

\* A line of the history takes the place of the whole line.
LEMMA RecallKeeps ==
    ASSUME Inv, NEW v \in Seq(Chars), Len(v) < LINE_MAX, Edit(v, Erased(Len(buf)) \o v), hist_pos' \in 0..Len(hist)
    PROVE  Inv'
<1>1. buf \in Seq(Chars) /\ Len(buf) \in Nat
  BY DEF Inv, TextInv
<1>2. Becomes(buf, Len(buf), v, v)
  BY <1>1 DEF Becomes
<1>3. QED BY <1>2, EditKeeps

LEMMA UpKeeps == ASSUME Inv, Up PROVE Inv'
<1>1. hist \in Seq(Seq(Chars)) /\ hist_pos \in 1..Len(hist) /\ \A i \in 1..Len(hist) : Len(hist[i]) < LINE_MAX
  BY DEF Inv, TextInv, Up
<1>2. hist[hist_pos] \in Seq(Chars) /\ Len(hist[hist_pos]) < LINE_MAX /\ hist_pos' \in 0..Len(hist)
  BY <1>1 DEF Up
<1>3. Edit(hist[hist_pos], Erased(Len(buf)) \o hist[hist_pos])
  BY DEF Up
<1>4. QED BY <1>2, <1>3, RecallKeeps

LEMMA DownKeeps == ASSUME Inv, Down PROVE Inv'
<1>1. /\ hist \in Seq(Seq(Chars)) /\ hist_pos \in 0..Len(hist) /\ LINE_MAX \in Nat \ {0}
      /\ \A i \in 1..Len(hist) : Len(hist[i]) < LINE_MAX
  BY ReadLineAssumption DEF Inv, TextInv
<1> DEFINE next == IF hist_pos + 1 = Len(hist) THEN <<>> ELSE hist[hist_pos + 2]
<1>2. hist_pos < Len(hist) /\ hist_pos' = hist_pos + 1 /\ Edit(next, Erased(Len(buf)) \o next)
  BY DEF Down
<1>6. hist_pos + 1 = Len(hist) => next = <<>>
  OBVIOUS
<1>7. hist_pos + 1 # Len(hist) => next = hist[hist_pos + 2]
  OBVIOUS
<1> HIDE DEF next
<1>3. next \in Seq(Chars) /\ Len(next) < LINE_MAX
  <2>1. CASE hist_pos + 1 = Len(hist)
    <3>1. next = <<>>
      BY <1>6, <2>1
    <3>2. <<>> \in Seq(Chars) /\ Len(<<>>) = 0
      OBVIOUS
    <3>3. next \in Seq(Chars)
      BY Zenon, <3>1, <3>2
    <3>4. Len(next) = 0
      BY Zenon, <3>1, <3>2
    <3>5. QED BY <1>1, <3>3, <3>4
  <2>2. CASE hist_pos + 1 # Len(hist)
    <3>1. hist_pos + 2 \in 1..Len(hist)
      BY <1>1, <1>2, <2>2
    <3>2. QED BY <1>1, <1>7, <2>2, <3>1
  <2>3. QED BY <2>1, <2>2
<1>4. hist_pos' \in 0..Len(hist)
  BY <1>1, <1>2
<1>5. QED BY <1>2, <1>3, <1>4, RecallKeeps

\* Enter: the line goes to the history, and a fresh one begins after the prompt.
LEMMA HistoryTyped ==
    ASSUME TextInv
    PROVE  /\ HistoryAdd(buf) \in Seq(Seq(Chars)) /\ Len(HistoryAdd(buf)) <= HIST_MAX
           /\ \A i \in 1..Len(HistoryAdd(buf)) : Len(HistoryAdd(buf)[i]) < LINE_MAX
<1>1. /\ buf \in Seq(Chars) /\ Len(buf) < LINE_MAX /\ HIST_MAX \in Nat \ {0} /\ LINE_MAX \in Nat
      /\ hist \in Seq(Seq(Chars)) /\ Len(hist) \in Nat /\ Len(hist) <= HIST_MAX
      /\ \A i \in 1..Len(hist) : Len(hist[i]) < LINE_MAX
  BY ReadLineAssumption DEF TextInv
<1> DEFINE h == HistoryAdd(buf)
<1>2. CASE buf = <<>> \/ (hist # <<>> /\ Last(hist) = buf)
  <2>1. h = hist
    BY <1>2 DEF HistoryAdd
  <2>2. QED BY <1>1, <2>1
<1>3. CASE ~(buf = <<>> \/ (hist # <<>> /\ Last(hist) = buf)) /\ Len(hist) = HIST_MAX
  <2>1. h = Append(Tail(hist), buf)
    BY <1>3 DEF HistoryAdd
  <2>2. Tail(hist) \in Seq(Seq(Chars)) /\ Len(Tail(hist)) = HIST_MAX - 1
        /\ \A i \in 1..(HIST_MAX - 1) : Tail(hist)[i] = hist[i + 1]
    BY <1>1, <1>3
  <2> DEFINE old == Tail(hist)
  <2> HIDE DEF old, h
  <2>3. /\ h \in Seq(Seq(Chars)) /\ Len(h) = HIST_MAX
        /\ h[HIST_MAX] = buf /\ \A i \in 1..(HIST_MAX - 1) : h[i] = old[i]
    BY <1>1, <2>1, <2>2 DEF old
  <2>4. ASSUME NEW i \in 1..HIST_MAX PROVE Len(h[i]) < LINE_MAX
    <3>1. CASE i = HIST_MAX
      BY <1>1, <2>3, <3>1
    <3>2. CASE i # HIST_MAX
      <4>1. i \in 1..(HIST_MAX - 1) /\ i + 1 \in 1..Len(hist)
        BY <1>1, <1>3, <3>2
      <4>2. h[i] = hist[i + 1]
        BY <2>2, <2>3, <4>1 DEF old
      <4>3. QED BY <1>1, <4>1, <4>2
    <3>3. QED BY <3>1, <3>2
  <2>5. QED BY <1>1, <2>3, <2>4 DEF h
<1>4. CASE ~(buf = <<>> \/ (hist # <<>> /\ Last(hist) = buf)) /\ Len(hist) # HIST_MAX
  <2>1. h = Append(hist, buf)
    BY <1>4 DEF HistoryAdd
  <2>2. /\ h \in Seq(Seq(Chars)) /\ Len(h) = Len(hist) + 1
        /\ h[Len(hist) + 1] = buf /\ \A i \in 1..Len(hist) : h[i] = hist[i]
    BY <1>1, <2>1
  <2> HIDE DEF h
  <2>3. ASSUME NEW i \in 1..(Len(hist) + 1) PROVE Len(h[i]) < LINE_MAX
    <3>1. CASE i = Len(hist) + 1
      BY <1>1, <2>2, <3>1
    <3>2. CASE i # Len(hist) + 1
      <4>1. i \in 1..Len(hist)
        BY <1>1, <3>2
      <4>2. QED BY <1>1, <2>2, <4>1
    <3>3. QED BY <3>1, <3>2
  <2>4. Len(h) <= HIST_MAX
    BY <1>1, <1>4, <2>2
  <2>5. QED BY <2>2, <2>3, <2>4 DEF h
<1>5. QED BY <1>2, <1>3, <1>4

LEMMA EnterKeeps == ASSUME Inv, Enter PROVE Inv'
<1>1. roll \in Rolls /\ screen = Window(roll) /\ AtEnd(Window(roll)) /\ screen \in Screens
  BY ScreenIs DEF Inv, ScreenInv
<1>2. /\ hist' = HistoryAdd(buf) /\ buf' = <<>> /\ hist_pos' = Len(hist')
      /\ start' = screen'.x /\ longest' = 0
  BY DEF Enter
<1>3. roll' \in Rolls /\ screen' = Window(roll') /\ screen' \in Screens /\ AtEnd(screen')
  <2>1. ASSUME NEW o \in Seq(Glyphs), EndsReturns(o), Show(<<"nl">> \o o \o Prompt)
        PROVE  roll' \in Rolls /\ screen' = Window(roll') /\ screen' \in Screens /\ AtEnd(screen')
    <3>1. <<"nl">> \in Seq(Glyphs) /\ EndsReturns(<<"nl">>)
      <4> DEFINE line == <<"nl">>
      <4>1. "nl" \in Glyphs /\ Prompt \in Seq(Glyphs) /\ EndsReturns(Prompt)
        BY ReadLineAssumption
      <4>2. line \in Seq(Glyphs) /\ \A i \in 1..Len(line) : line[i] # "cr"
        BY <4>1
      <4> HIDE DEF line
      <4>3. QED BY <4>2, PlainEnds DEF line
    <3>2. Prompt \in Seq(Glyphs) /\ EndsReturns(Prompt)
      BY ReadLineAssumption
    <3> DEFINE a == <<"nl">>
               b == a \o o
               t == b \o Prompt
    <3>3. a \in Seq(Glyphs) /\ EndsReturns(a)
      BY <3>1
    <3> HIDE DEF a
    <3>4. b \in Seq(Glyphs) /\ EndsReturns(b)
      BY <2>1, <3>3, JoinedEnds
    <3> HIDE DEF b
    <3>5. t \in Seq(Glyphs) /\ EndsReturns(t)
      BY <3>2, <3>4, JoinedEnds
    <3>6. screen' = Puts(screen, t) /\ roll' = RollPuts(roll, t)
      BY <2>1 DEF Show, a, b
    <3> HIDE DEF t
    <3>7. /\ RollPuts(roll, t) \in Rolls /\ Puts(screen, t) = Window(RollPuts(roll, t))
          /\ Puts(screen, t) \in Screens /\ AtEnd(Puts(screen, t))
      BY <1>1, <3>5, Printed
    <3>8. QED BY <3>6, <3>7
  <2>2. CASE \E o \in (IF argv' = <<>> THEN {<<>>} ELSE Outputs) : Show(<<"nl">> \o o \o Prompt)
    <3>1. PICK o \in (IF argv' = <<>> THEN {<<>>} ELSE Outputs) : Show(<<"nl">> \o o \o Prompt)
      BY <2>2
    <3>2. o = <<>> \/ o \in Outputs
      OBVIOUS
    <3>3. o \in Seq(Glyphs) /\ EndsReturns(o)
      <4>1. CASE o = <<>>
        <5>1. o \in Seq(Glyphs) /\ \A i \in 1..Len(o) : o[i] # "cr"
          BY <4>1
        <5>2. QED BY <5>1, PlainEnds
      <4>2. CASE o \in Outputs
        BY <4>2, ReadLineAssumption
      <4>3. QED BY <3>2, <4>1, <4>2
    <3>4. QED BY <2>1, <3>1, <3>3
  <2>3. CASE screen' = Puts(Cleared, Prompt) /\ roll' = RollPuts(NewRoll, Prompt)
    BY <2>3, FreshPrompt
  <2>4. QED BY <2>2, <2>3 DEF Enter
<1>4. TextInv'
  <2>1. /\ hist' \in Seq(Seq(Chars)) /\ Len(hist') <= HIST_MAX
        /\ \A i \in 1..Len(hist') : Len(hist'[i]) < LINE_MAX
    BY <1>2, HistoryTyped DEF Inv
  <2>2. <<>> \in Seq(Chars) /\ Len(<<>>) = 0 /\ LINE_MAX \in Nat \ {0} /\ Len(hist') \in 0..Len(hist')
    BY <2>1, ReadLineAssumption
  <2>3. QED BY <1>2, <2>1, <2>2 DEF TextInv
<1>5. LineInv'
  <2>1. screen'.x \in 0..(Cols - 1) /\ Holds(screen', <<>>, 0, screen'.x)
    BY <1>3, EmptyLine
  <2>2. Len(<<>>) = 0
    OBVIOUS
  <2>3. QED BY <1>2, <2>1, <2>2 DEF LineInv
<1>6. QED BY <1>3, <1>4, <1>5 DEF Inv, ScreenInv

LEMMA StutterKeeps == ASSUME Inv, UNCHANGED vars PROVE Inv'
BY DEF Inv, TextInv, ScreenInv, LineInv, vars

\* The editor, the screen and the line on it agree after any keys (read_line,
\* console_putc).
THEOREM LineHolds == Spec => []Inv
<1>1. Inv /\ [Next]_vars => Inv'
  <2> SUFFICES ASSUME Inv, [Next]_vars PROVE Inv'
    OBVIOUS
  <2>1. ASSUME NEW c \in Chars, Insert(c) PROVE Inv'
    BY <2>1, InsertKeeps
  <2>2. CASE Backspace
    BY <2>2, BackspaceKeeps
  <2>3. CASE Up
    BY <2>3, UpKeeps
  <2>4. CASE Down
    BY <2>4, DownKeeps
  <2>5. CASE Enter
    BY <2>5, EnterKeeps
  <2>6. CASE UNCHANGED vars
    BY <2>6, StutterKeeps
  <2>7. QED BY <2>1, <2>2, <2>3, <2>4, <2>5, <2>6 DEF Next
<1>2. QED BY <1>1, InitInv, PTL DEF Spec

\* The line, the history and the place in it stay within their buffers, and the
\* cursor on the screen (read_line, history_add).
THEOREM LineTyped == Spec => []TypeOK
<1>1. Inv => TypeOK
  <2> SUFFICES ASSUME Inv PROVE TypeOK
    OBVIOUS
  <2>1. screen \in Screens
    BY ScreenIs DEF Inv
  <2>2. hist \in Seq(Seq(Chars)) /\ DOMAIN hist = 1..Len(hist) /\ \A i \in 1..Len(hist) : hist[i] \in Seq(Chars)
    BY DEF Inv, TextInv
  <2>3. screen.x \in 0..(Cols - 1) /\ screen.y \in 0..(Rows - 1)
    BY <2>1 DEF Screens
  <2>4. QED BY <2>2, <2>3 DEF Inv, TextInv, TypeOK, IsLine
<1>2. QED BY <1>1, LineHolds, PTL

\* The screen is the last rows of all that was printed since it was cleared:
\* every echo, every erasure, every output and every prompt (console_putc,
\* console_clear).
THEOREM ScreenIsRoll == Spec => []ConsoleIsRoll
<1>1. Inv => ConsoleIsRoll
  BY DEF Inv, ScreenInv, ConsoleIsRoll
<1>2. QED BY <1>1, LineHolds, PTL

\* A line that never reached the end of the row is on the screen as the editor
\* holds it, after any keys: typed characters, erasures, walks through the
\* history (read_line, erase_line).
THEOREM LineShown == Spec => []LineIsOnScreen
<1>1. Inv => LineIsOnScreen
  <2> SUFFICES ASSUME Inv, start + longest < Cols PROVE Holds(screen, buf, Len(buf), start)
    BY DEF LineIsOnScreen, Holds
  <2>1. QED BY DEF Inv, LineInv
<1>2. QED BY <1>1, LineHolds, PTL

-----------------------------------------------------------------------------
(* The history.                                                            *)

KeptIn(e, i) ==
    /\ e[i] # <<>>
    /\ ~\E h \in 1..(i - 1) : e[h] = e[i] /\ \A j \in (h + 1)..(i - 1) : e[j] = <<>>

FreshIn(e) == {i \in 1..Len(e) : KeptIn(e, i)}

Later(e, i) == {j \in FreshIn(e) : j > i}

Recent(e, h) ==
    /\ Len(h) = IF Cardinality(FreshIn(e)) < HIST_MAX THEN Cardinality(FreshIn(e)) ELSE HIST_MAX
    /\ \A i \in FreshIn(e) : Cardinality(Later(e, i)) < HIST_MAX => h[Len(h) - Cardinality(Later(e, i))] = e[i]

\* The last of the lines entered that is not empty: it ends the history.
Newest(e, i) == i \in 1..Len(e) /\ e[i] # <<>> /\ \A j \in (i + 1)..Len(e) : e[j] = <<>>

NewestEnds(e, h) ==
    /\ \A i \in 1..Len(e) : Newest(e, i) => h # <<>> /\ h[Len(h)] = e[i]
    /\ h # <<>> => \E i \in 1..Len(e) : Newest(e, i)

\* history_add.
Added(h, l) ==
    IF l = <<>> \/ (h # <<>> /\ h[Len(h)] = l) THEN h
    ELSE IF Len(h) = HIST_MAX THEN Append(Tail(h), l)
    ELSE Append(h, l)

\* One more line.
Grown(e, l, g) ==
    /\ Len(e) \in Nat /\ Len(g) = Len(e) + 1
    /\ g[Len(e) + 1] = l
    /\ \A i \in 1..Len(e) : g[i] = e[i]

LEMMA KeptGrown ==
    ASSUME NEW e, NEW l, NEW g, Grown(e, l, g)
    PROVE  /\ \A i \in 1..Len(e) : KeptIn(g, i) <=> KeptIn(e, i)
           /\ KeptIn(g, Len(e) + 1) <=> l # <<>> /\ ~\E i \in 1..Len(e) : Newest(e, i) /\ e[i] = l
<1> DEFINE n == Len(e)
<1>1. n \in Nat /\ g[n + 1] = l /\ \A i \in 1..n : g[i] = e[i]
  BY DEF Grown
<1> HIDE DEF n
<1>2. ASSUME NEW i \in 1..n PROVE KeptIn(g, i) <=> KeptIn(e, i)
  <2>1. g[i] = e[i] /\ \A h \in 1..(i - 1) : g[h] = e[h]
    BY <1>1
  <2>2. \A h \in 1..(i - 1) : \A j \in (h + 1)..(i - 1) : g[j] = e[j]
    BY <1>1
  <2>3. \A h \in 1..(i - 1) : (\A j \in (h + 1)..(i - 1) : g[j] = <<>>) <=> (\A j \in (h + 1)..(i - 1) : e[j] = <<>>)
    BY <2>2
  <2>4. QED BY <2>1, <2>3 DEF KeptIn
<1>3. ASSUME NEW h \in 1..n
      PROVE  (\A j \in (h + 1)..n : g[j] = <<>>) <=> (\A j \in (h + 1)..n : e[j] = <<>>)
  <2>1. \A j \in (h + 1)..n : g[j] = e[j]
    BY <1>1
  <2>2. QED BY <2>1
<1>4. KeptIn(g, n + 1) <=> l # <<>> /\ ~\E i \in 1..n : Newest(e, i) /\ e[i] = l
  <2>1. (n + 1) - 1 = n
    BY <1>1
  <2>2. KeptIn(g, n + 1) <=> l # <<>> /\ ~\E h \in 1..n : g[h] = l /\ \A j \in (h + 1)..n : g[j] = <<>>
    BY <1>1, <2>1 DEF KeptIn
  <2>3. ASSUME NEW h \in 1..n, l # <<>>
        PROVE  (g[h] = l /\ \A j \in (h + 1)..n : g[j] = <<>>) <=> Newest(e, h) /\ e[h] = l
    <3>1. g[h] = e[h]
      BY <1>1
    <3>2. QED BY <1>3, <2>3, <3>1 DEF Newest, n
  <2>4. QED BY <2>2, <2>3
<1>5. QED BY <1>2, <1>4 DEF n

LEMMA FreshGrown ==
    ASSUME NEW e, NEW l, NEW g, Grown(e, l, g)
    PROVE  FreshIn(g) = IF KeptIn(g, Len(e) + 1) THEN FreshIn(e) \cup {Len(e) + 1} ELSE FreshIn(e)
<1> DEFINE n == Len(e)
<1>1. n \in Nat /\ Len(g) = n + 1
  BY DEF Grown
<1>2. \A i \in 1..n : KeptIn(g, i) <=> KeptIn(e, i)
  BY KeptGrown
<1> HIDE DEF n
<1>3. 1..(n + 1) = (1..n) \cup {n + 1}
  BY <1>1
<1>4. FreshIn(g) = {i \in 1..(n + 1) : KeptIn(g, i)} /\ FreshIn(e) = {i \in 1..n : KeptIn(e, i)}
  BY <1>1 DEF FreshIn, n
<1>5. QED BY <1>2, <1>3, <1>4 DEF n

LEMMA FreshFinite ==
    ASSUME NEW e, Len(e) \in Nat
    PROVE  /\ IsFiniteSet(FreshIn(e)) /\ Cardinality(FreshIn(e)) \in Nat
           /\ \A i : /\ IsFiniteSet(Later(e, i)) /\ Cardinality(Later(e, i)) \in Nat
                     /\ Cardinality(Later(e, i)) <= Cardinality(FreshIn(e))
                     /\ i \in FreshIn(e) => Cardinality(Later(e, i)) < Cardinality(FreshIn(e))
<1>1. IsFiniteSet(1..Len(e)) /\ FreshIn(e) \subseteq 1..Len(e)
  BY FS_Interval DEF FreshIn
<1>2. IsFiniteSet(FreshIn(e))
  BY <1>1, FS_Subset
<1>3. ASSUME NEW i
      PROVE  /\ IsFiniteSet(Later(e, i)) /\ Cardinality(Later(e, i)) \in Nat
             /\ Cardinality(Later(e, i)) <= Cardinality(FreshIn(e))
             /\ i \in FreshIn(e) => Cardinality(Later(e, i)) < Cardinality(FreshIn(e))
  <2>1. Later(e, i) \subseteq FreshIn(e)
    BY DEF Later
  <2>2. IsFiniteSet(Later(e, i)) /\ Cardinality(Later(e, i)) <= Cardinality(FreshIn(e))
    BY <1>2, <2>1, FS_Subset
  <2>3. Cardinality(Later(e, i)) \in Nat /\ Cardinality(FreshIn(e)) \in Nat
    BY <1>2, <2>2, FS_CardinalityType
  <2>4. ASSUME i \in FreshIn(e) PROVE Cardinality(Later(e, i)) # Cardinality(FreshIn(e))
    <3>1. i \in Int /\ i \notin Later(e, i)
      BY <1>1, <2>4 DEF Later
    <3>2. Later(e, i) # FreshIn(e)
      BY <2>4, <3>1
    <3>3. QED BY <1>2, <2>1, <3>2, FS_Subset
  <2>5. QED BY <2>2, <2>3, <2>4
<1>4. Cardinality(FreshIn(e)) \in Nat
  BY <1>2, FS_CardinalityType
<1>5. QED BY <1>2, <1>3, <1>4

LEMMA LaterGrown ==
    ASSUME NEW e, NEW l, NEW g, Grown(e, l, g), KeptIn(g, Len(e) + 1)
    PROVE  /\ Cardinality(FreshIn(g)) = Cardinality(FreshIn(e)) + 1
           /\ Cardinality(Later(g, Len(e) + 1)) = 0
           /\ \A i \in FreshIn(e) : Cardinality(Later(g, i)) = Cardinality(Later(e, i)) + 1
<1> DEFINE n == Len(e)
<1>1. n \in Nat
  BY DEF Grown
<1>2. FreshIn(g) = FreshIn(e) \cup {n + 1}
  BY FreshGrown
<1>3. FreshIn(e) \subseteq 1..n
  BY DEF FreshIn
<1>4. IsFiniteSet(FreshIn(e)) /\ \A i : IsFiniteSet(Later(e, i))
  BY <1>1, FreshFinite
<1> HIDE DEF n
<1>5. n + 1 \notin FreshIn(e) /\ \A i \in FreshIn(e) : i \in 1..n
  BY <1>1, <1>3
<1>6. Cardinality(FreshIn(g)) = Cardinality(FreshIn(e)) + 1
  BY <1>2, <1>4, <1>5, FS_AddElement
<1>7. Cardinality(Later(g, n + 1)) = 0
  <2>1. Later(g, n + 1) = {}
    BY <1>1, <1>2, <1>5 DEF Later
  <2>2. QED BY <2>1, FS_EmptySet
<1>8. ASSUME NEW i \in FreshIn(e) PROVE Cardinality(Later(g, i)) = Cardinality(Later(e, i)) + 1
  <2>1. n + 1 > i /\ n + 1 \notin Later(e, i)
    BY <1>1, <1>5 DEF Later
  <2>2. Later(g, i) = Later(e, i) \cup {n + 1}
    BY <1>2, <2>1 DEF Later
  <2>3. QED BY <1>4, <2>1, <2>2, FS_AddElement
<1>9. QED BY <1>6, <1>7, <1>8 DEF n

\* The newest line of a history with one more.
LEMMA NewestGrown ==
    ASSUME NEW e, NEW l, NEW g, Grown(e, l, g)
    PROVE  /\ Newest(g, Len(e) + 1) <=> l # <<>>
           /\ l = <<>> => \A i \in 1..Len(e) : Newest(g, i) <=> Newest(e, i)
           /\ l # <<>> => \A i \in 1..Len(e) : ~Newest(g, i)
<1> DEFINE n == Len(e)
<1>1. n \in Nat /\ Len(g) = n + 1 /\ g[n + 1] = l /\ \A i \in 1..n : g[i] = e[i]
  BY DEF Grown
<1> HIDE DEF n
<1>2. Newest(g, n + 1) <=> l # <<>>
  <2>1. n + 1 \in 1..(n + 1) /\ (n + 1 + 1)..(n + 1) = {}
    BY <1>1
  <2>2. QED BY <1>1, <2>1 DEF Newest
<1>3. ASSUME NEW i \in 1..n
      PROVE Newest(g, i) <=> (g[n + 1] = <<>> /\ e[i] # <<>> /\ \A j \in (i + 1)..n : e[j] = <<>>)
  <2>1. i \in 1..(n + 1) /\ g[i] = e[i] /\ (i + 1)..(n + 1) = ((i + 1)..n) \cup {n + 1}
    BY <1>1
  <2>2. \A j \in (i + 1)..n : g[j] = e[j]
    BY <1>1
  <2>3. Newest(g, i) <=> e[i] # <<>> /\ \A j \in (i + 1)..(n + 1) : g[j] = <<>>
    BY <1>1, <2>1 DEF Newest
  <2>4. QED BY <2>1, <2>2, <2>3
<1>4. QED BY <1>1, <1>2, <1>3 DEF Newest, n

LEMMA HistoryStep ==
    ASSUME NEW e \in Seq(Seq(Chars)), NEW h \in Seq(Seq(Chars)), NEW l \in Seq(Chars),
           Recent(e, h), NewestEnds(e, h)
    PROVE  Recent(Append(e, l), Added(h, l)) /\ NewestEnds(Append(e, l), Added(h, l))
<1> DEFINE g == Append(e, l)
           n == Len(e)
           k == Added(h, l)
           c == Cardinality(FreshIn(e))
<1>1. Grown(e, l, g) /\ n \in Nat /\ Len(g) = n + 1 /\ g[n + 1] = l /\ \A i \in 1..n : g[i] = e[i]
  BY DEF Grown
<1>2. HIST_MAX \in Nat \ {0} /\ Len(h) \in Nat
  BY ReadLineAssumption
<1>3. /\ c \in Nat
      /\ \A i \in FreshIn(e) : Cardinality(Later(e, i)) \in Nat /\ Cardinality(Later(e, i)) < c
  BY <1>1, FreshFinite
<1>4. /\ Len(h) = IF c < HIST_MAX THEN c ELSE HIST_MAX
      /\ \A i \in FreshIn(e) : Cardinality(Later(e, i)) < HIST_MAX => h[Len(h) - Cardinality(Later(e, i))] = e[i]
  BY DEF Recent
<1> HIDE DEF g, c
<1>5. FreshIn(e) \subseteq 1..n /\ 1..(n + 1) = (1..n) \cup {n + 1}
  BY <1>1 DEF FreshIn
<1>6. (l = <<>> \/ (h # <<>> /\ h[Len(h)] = l)) <=> ~KeptIn(g, n + 1)
  <2>1. KeptIn(g, n + 1) <=> l # <<>> /\ ~\E i \in 1..n : Newest(e, i) /\ e[i] = l
    BY <1>1, KeptGrown
  <2>2. ASSUME NEW i \in 1..n, Newest(e, i) PROVE h # <<>> /\ h[Len(h)] = e[i]
    BY <2>2 DEF NewestEnds
  <2>3. h # <<>> => \E i \in 1..n : Newest(e, i)
    BY DEF NewestEnds
  <2>4. QED BY <2>1, <2>2, <2>3
<1>7. CASE ~KeptIn(g, n + 1)
  <2>1. k = h
    BY <1>6, <1>7 DEF Added
  <2>2. FreshIn(g) = FreshIn(e)
    BY <1>1, <1>7, FreshGrown
  <2>3. \A i : Later(g, i) = Later(e, i)
    BY <2>2 DEF Later
  <2>4. Recent(g, k)
    BY <1>1, <1>4, <1>5, <2>1, <2>2, <2>3 DEF Recent, c
  <2>5. NewestEnds(g, k)
    <3>1. CASE l = <<>>
      <4>1. \A i \in 1..n : Newest(g, i) <=> Newest(e, i)
        BY <1>1, <3>1, NewestGrown
      <4>2. ~Newest(g, n + 1)
        BY <1>1, <3>1, NewestGrown
      <4>3. QED BY <1>1, <1>5, <2>1, <4>1, <4>2 DEF NewestEnds
    <3>2. CASE l # <<>>
      <4>1. h # <<>> /\ h[Len(h)] = l
        BY <1>6, <1>7, <3>2
      <4>2. Newest(g, n + 1) /\ \A i \in 1..n : ~Newest(g, i)
        BY <1>1, <3>2, NewestGrown
      <4>3. QED BY <1>1, <1>5, <2>1, <4>1, <4>2 DEF NewestEnds
    <3>3. QED BY <3>1, <3>2
  <2>6. QED BY <2>4, <2>5 DEF g
<1>8. CASE KeptIn(g, n + 1)
  <2> DEFINE Sn(i) == Cardinality(Later(e, i))
  <2>1. FreshIn(g) = FreshIn(e) \cup {n + 1}
    BY <1>1, <1>8, FreshGrown
  <2>2. /\ Cardinality(FreshIn(g)) = c + 1 /\ Cardinality(Later(g, n + 1)) = 0
        /\ \A i \in FreshIn(e) : Cardinality(Later(g, i)) = Sn(i) + 1
    BY <1>1, <1>8, LaterGrown DEF c
  <2>3. \A i \in FreshIn(e) : Sn(i) \in Nat /\ Sn(i) < c
    BY <1>3
  <2>4. \A i \in FreshIn(e) : Sn(i) < HIST_MAX => h[Len(h) - Sn(i)] = e[i]
    BY <1>4
  <2> HIDE DEF Sn
  <2>5. /\ Len(k) = IF c + 1 < HIST_MAX THEN c + 1 ELSE HIST_MAX
        /\ Len(k) \in Nat /\ k[Len(k)] = l
        /\ \A i \in FreshIn(e) : Sn(i) + 1 < HIST_MAX => k[Len(k) - (Sn(i) + 1)] = e[i]
    <3>1. CASE Len(h) = HIST_MAX
      <4>1. k = Append(Tail(h), l)
        BY <1>6, <1>8, <3>1 DEF Added
      <4> DEFINE old == Tail(h)
      <4>2. /\ old \in Seq(Seq(Chars)) /\ Len(old) = HIST_MAX - 1
            /\ \A i \in 1..(HIST_MAX - 1) : old[i] = h[i + 1]
        BY <1>2, <3>1
      <4> HIDE DEF old
      <4> HIDE DEF k
      <4>3. Len(k) = HIST_MAX /\ k[HIST_MAX] = l /\ \A i \in 1..(HIST_MAX - 1) : k[i] = old[i]
        BY <1>2, <4>1, <4>2 DEF old
      <4>4. ASSUME NEW i \in FreshIn(e), Sn(i) + 1 < HIST_MAX PROVE k[Len(k) - (Sn(i) + 1)] = e[i]
        <5> DEFINE d == Sn(i)
        <5>1. d \in Nat /\ d + 1 < HIST_MAX /\ (d < HIST_MAX => h[HIST_MAX - d] = e[i])
          BY <2>3, <2>4, <3>1, <4>4
        <5> HIDE DEF d
        <5>2. HIST_MAX - (d + 1) \in 1..(HIST_MAX - 1) /\ (HIST_MAX - (d + 1)) + 1 = HIST_MAX - d /\ d < HIST_MAX
          BY <1>2, <5>1
        <5>3. k[HIST_MAX - (d + 1)] = e[i]
          BY <4>2, <4>3, <5>1, <5>2
        <5>4. QED BY <4>3, <5>3 DEF d
      <4>5. QED BY <1>2, <1>3, <1>4, <3>1, <4>3, <4>4
    <3>2. CASE Len(h) # HIST_MAX
      <4>1. k = Append(h, l)
        BY <1>6, <1>8, <3>2 DEF Added
      <4>2. Len(k) = Len(h) + 1 /\ k[Len(h) + 1] = l /\ \A i \in 1..Len(h) : k[i] = h[i]
        BY <4>1
      <4> HIDE DEF k
      <4>3. Len(h) = c /\ c < HIST_MAX
        BY <1>2, <1>3, <1>4, <3>2
      <4>4. ASSUME NEW i \in FreshIn(e), Sn(i) + 1 < HIST_MAX PROVE k[Len(k) - (Sn(i) + 1)] = e[i]
        <5> DEFINE d == Sn(i)
        <5>1. d \in Nat /\ d < c /\ d + 1 < HIST_MAX /\ (d < HIST_MAX => h[c - d] = e[i])
          BY <2>3, <2>4, <4>3, <4>4
        <5> HIDE DEF d
        <5>2. (c + 1) - (d + 1) = c - d /\ c - d \in 1..c /\ d < HIST_MAX
          BY <1>2, <1>3, <5>1
        <5>3. k[(c + 1) - (d + 1)] = e[i]
          BY <4>2, <4>3, <5>1, <5>2
        <5>4. QED BY <4>2, <4>3, <5>3 DEF d
      <4>5. QED BY <1>2, <1>3, <4>2, <4>3, <4>4
    <3>3. QED BY <3>1, <3>2
  <2> HIDE DEF k
  <2>6. Recent(g, k)
    <3>1. ASSUME NEW i \in FreshIn(g), Cardinality(Later(g, i)) < HIST_MAX
          PROVE  k[Len(k) - Cardinality(Later(g, i))] = g[i]
      <4>1. CASE i \in FreshIn(e)
        BY <1>1, <1>5, <2>2, <2>5, <3>1, <4>1
      <4>2. CASE i = n + 1
        <5>1. Len(k) - 0 = Len(k)
          BY <2>5
        <5>2. QED BY <1>1, <2>2, <2>5, <4>2, <5>1
      <4>3. QED BY <2>1, <4>1, <4>2
    <3>2. QED BY <2>2, <2>5, <3>1 DEF Recent
  <2>7. NewestEnds(g, k)
    <3>1. l # <<>>
      BY <1>6, <1>8
    <3>2. Newest(g, n + 1) /\ \A i \in 1..n : ~Newest(g, i)
      BY <1>1, <3>1, NewestGrown
    <3>3. k # <<>>
      <4>1. Len(k) > 0
        BY <1>2, <1>3, <2>5
      <4>2. QED BY <4>1
    <3>4. QED BY <1>1, <1>5, <2>5, <3>2, <3>3 DEF NewestEnds
  <2>8. QED BY <2>6, <2>7 DEF g, k
<1>9. QED BY <1>7, <1>8

HistoryInv == entered \in Seq(Seq(Chars)) /\ Recent(entered, hist) /\ NewestEnds(entered, hist)

LEMMA HistoryHolds == Spec => []HistoryInv
<1>1. Init => HistoryInv
  <2> SUFFICES ASSUME Init PROVE HistoryInv
    OBVIOUS
  <2>1. entered = <<>> /\ hist = <<>> /\ Len(<<>>) = 0 /\ HIST_MAX \in Nat \ {0}
    BY ReadLineAssumption DEF Init
  <2>2. FreshIn(<<>>) = {} /\ Cardinality({}) = 0
    BY <2>1, FS_EmptySet DEF FreshIn
  <2>3. Recent(<<>>, <<>>)
    <3>1. \A i : i \notin FreshIn(<<>>)
      BY <2>2
    <3>2. Cardinality(FreshIn(<<>>)) = 0
      BY <2>2
    <3>3. QED BY <2>1, <3>1, <3>2 DEF Recent
  <2>4. NewestEnds(<<>>, <<>>)
    BY <2>1 DEF NewestEnds
  <2>5. <<>> \in Seq(Seq(Chars))
    OBVIOUS
  <2>6. QED BY <2>1, <2>3, <2>4, <2>5 DEF HistoryInv
<1>2. Inv /\ HistoryInv /\ [Next]_vars => HistoryInv'
  <2> SUFFICES ASSUME Inv, HistoryInv, [Next]_vars PROVE HistoryInv'
    OBVIOUS
  <2>1. CASE UNCHANGED <<entered, hist>>
    BY <2>1 DEF HistoryInv
  <2>2. CASE Enter
    <3>1. /\ entered \in Seq(Seq(Chars)) /\ hist \in Seq(Seq(Chars)) /\ buf \in Seq(Chars)
          /\ Recent(entered, hist) /\ NewestEnds(entered, hist)
      BY DEF HistoryInv, Inv, TextInv
    <3>2. entered' = Append(entered, buf) /\ hist' = Added(hist, buf)
      BY <2>2 DEF Enter, HistoryAdd, Added, Last
    <3>3. Recent(entered', hist') /\ NewestEnds(entered', hist')
      BY <3>1, <3>2, HistoryStep
    <3>4. entered' \in Seq(Seq(Chars))
      BY <3>1, <3>2
    <3>5. QED BY <3>3, <3>4 DEF HistoryInv
  <2>3. ASSUME NEW c \in Chars, Insert(c) PROVE UNCHANGED <<entered, hist>>
    BY <2>3 DEF Insert, Edit
  <2>4. CASE Backspace
    BY <2>1, <2>4 DEF Backspace, Edit
  <2>5. CASE Up
    BY <2>1, <2>5 DEF Up, Edit
  <2>6. CASE Down
    BY <2>1, <2>6 DEF Down, Edit
  <2>7. CASE UNCHANGED vars
    BY <2>1, <2>7 DEF vars
  <2>8. QED BY <2>1, <2>2, <2>3, <2>4, <2>5, <2>6, <2>7 DEF Next
<1>3. QED BY <1>1, <1>2, LineHolds, PTL DEF Spec

\* Up and Down walk exactly the last HIST_MAX lines entered, without the empty
\* ones and immediate repetitions (history_add).
THEOREM HistoryRemembers == Spec => []HistoryIsRecent
<1>1. HistoryInv => HistoryIsRecent
  <2> SUFFICES ASSUME HistoryInv PROVE HistoryIsRecent
    OBVIOUS
  <2>1. DOMAIN entered = 1..Len(entered) /\ Recent(entered, hist)
    BY DEF HistoryInv
  <2>2. \A i : Kept(i) <=> KeptIn(entered, i)
    BY DEF Kept, KeptIn
  <2>3. Fresh = FreshIn(entered)
    BY <2>1, <2>2 DEF Fresh, FreshIn
  <2>4. \A i : {j \in Fresh : j > i} = Later(entered, i)
    BY <2>3 DEF Later
  <2>5. QED BY <2>1, <2>3, <2>4 DEF Recent, HistoryIsRecent
<1>2. QED BY <1>1, HistoryHolds, PTL

=============================================================================
