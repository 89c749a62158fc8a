---------------------------- MODULE TerminalProofs ----------------------------
(***************************************************************************)
(* What is proved of the terminal for every screen size.                   *)
(***************************************************************************)
EXTENDS Terminal, TLAPS

\* The states of a terminal.
Screen == [row : Rows, column : Columns, buffer : [Rows -> [Columns -> Chars]]]

\* Every cell of t from the cursor on is blank.
Fresh(t) ==
    \A y \in Rows, x \in Columns :
        (y > t.row \/ (y = t.row /\ x >= t.column)) => t.buffer[y][x] = Blank

\* A terminal of which only the row of the cursor may still be filled after it.
FreshBelow(t) ==
    \A y \in Rows, x \in Columns : y > t.row => t.buffer[y][x] = Blank

LEMMA BlankIsChar == Blank \in Chars /\ BlankScreen \in [Rows -> [Columns -> Chars]]
  BY DEF Chars, BlankScreen

LEMMA ClearFacts == terminal_clear \in Screen /\ Fresh(terminal_clear)
  BY TerminalConstants, BlankIsChar
  DEF terminal_clear, Screen, Rows, Columns, Fresh, BlankScreen

\* A record with a row, a column and a buffer is a screen.
LEMMA ScreenIs ==
    ASSUME NEW r \in Rows, NEW k \in Columns, NEW b \in [Rows -> [Columns -> Chars]],
           NEW s, s = [row |-> r, column |-> k, buffer |-> b]
    PROVE  s \in Screen /\ s.row = r /\ s.column = k /\ s.buffer = b
  BY DEF Screen

\* Moving to the next row, scrolling at the last one, leaves a blank row under
\* the cursor.
LEMMA NextRowFacts ==
    ASSUME NEW t \in Screen, FreshBelow(t)
    PROVE  NextRow(t) \in Screen /\ Fresh(NextRow(t))
  <1>0. /\ t.row \in Rows /\ t.column \in Columns
        /\ t.buffer \in [Rows -> [Columns -> Chars]]
        /\ t = [row |-> t.row, column |-> t.column, buffer |-> t.buffer]
        /\ VGA_WIDTH \in Nat \ {0} /\ VGA_HEIGHT \in Nat \ {0}
        /\ 0 \in Columns /\ VGA_HEIGHT - 1 \in Rows
        /\ \A y \in Rows : y \in Int /\ (y < VGA_HEIGHT - 1 => y + 1 \in Rows)
        /\ \A x \in Columns : x \in Int
    BY TerminalConstants DEF Screen, Rows, Columns
  <1>1. CASE t.row + 1 = VGA_HEIGHT
    <2>1. PICK b : b = [y \in Rows |-> IF y < VGA_HEIGHT - 1 THEN t.buffer[y + 1]
                                       ELSE BlankScreen[y]]
      OBVIOUS
    <2>2. NextRow(t) = [row |-> VGA_HEIGHT - 1, column |-> 0, buffer |-> b]
      BY <1>0, <1>1, <2>1 DEF NextRow, terminal_scroll_up
    <2>3. b \in [Rows -> [Columns -> Chars]]
      BY <1>0, <2>1, BlankIsChar
    <2>4. \A y \in Rows, x \in Columns : y >= VGA_HEIGHT - 1 => b[y][x] = Blank
      BY <1>0, <2>1 DEF BlankScreen
    <2>5. /\ NextRow(t) \in Screen /\ NextRow(t).row = VGA_HEIGHT - 1
          /\ NextRow(t).column = 0 /\ NextRow(t).buffer = b
      BY <1>0, <2>2, <2>3, ScreenIs
    <2>6. PICK s : s = NextRow(t)
      OBVIOUS
    <2>7. Fresh(s)
      <3>1. s.row = VGA_HEIGHT - 1 /\ s.column = 0 /\ s.buffer = b
        BY <2>5, <2>6
      <3>2. ASSUME NEW y \in Rows, NEW x \in Columns,
                   y > s.row \/ (y = s.row /\ x >= s.column)
            PROVE  s.buffer[y][x] = Blank
        <4>1. y >= VGA_HEIGHT - 1
          <5>1. y \in Int /\ VGA_HEIGHT \in Int /\ s.row = VGA_HEIGHT - 1
            BY <1>0, <3>1
          <5> QED BY <3>2, <5>1
        <4> QED BY <2>4, <3>1, <4>1
      <3> QED BY <3>2 DEF Fresh
    <2> QED BY <2>5, <2>6, <2>7
  <1>2. CASE t.row + 1 # VGA_HEIGHT
    <2>1. NextRow(t) = [row |-> t.row + 1, column |-> 0, buffer |-> t.buffer]
      BY <1>0, <1>2 DEF NextRow
    <2>2. t.row + 1 \in Rows
      BY <1>0, <1>2 DEF Rows
    <2>3. /\ NextRow(t) \in Screen /\ NextRow(t).row = t.row + 1
          /\ NextRow(t).column = 0 /\ NextRow(t).buffer = t.buffer
      BY <1>0, <2>1, <2>2, ScreenIs
    <2>4. PICK s : s = NextRow(t)
      OBVIOUS
    <2>5. Fresh(s)
      <3>1. s.row = t.row + 1 /\ s.column = 0 /\ s.buffer = t.buffer
        BY <2>3, <2>4
      <3>2. ASSUME NEW y \in Rows, NEW x \in Columns,
                   y > s.row \/ (y = s.row /\ x >= s.column)
            PROVE  s.buffer[y][x] = Blank
        <4>1. y > t.row
          <5>1. y \in Int /\ t.row \in Int /\ s.row = t.row + 1
            BY <1>0, <3>1
          <5> QED BY <3>2, <5>1
        <4> QED BY <3>1, <4>1 DEF FreshBelow
      <3> QED BY <3>2 DEF Fresh
    <2> QED BY <2>3, <2>4, <2>5
  <1> QED BY <1>1, <1>2

\* terminal_putchar keeps the cursor on the screen and the cells ahead blank.
LEMMA PutcharFacts ==
    ASSUME NEW t \in Screen, FreshBelow(t), NEW c \in Chars \cup {Newline},
           \A x \in Columns : x > t.column => t.buffer[t.row][x] = Blank
    PROVE  /\ terminal_putchar(t, c) \in Screen
           /\ Fresh(terminal_putchar(t, c))
           /\ c # Newline /\ t.column + 1 # VGA_WIDTH =>
                 terminal_putchar(t, c) =
                    [row |-> t.row, column |-> t.column + 1,
                     buffer |-> [t.buffer EXCEPT ![t.row][t.column] = c]]
  <1>0. /\ t.row \in Rows /\ t.column \in Columns
        /\ t.buffer \in [Rows -> [Columns -> Chars]]
        /\ t = [row |-> t.row, column |-> t.column, buffer |-> t.buffer]
        /\ \A y \in Rows : y \in Int
        /\ \A x \in Columns : x \in Int
    BY TerminalConstants DEF Screen, Rows, Columns
  <1>1. CASE c = Newline
    BY <1>1, NextRowFacts DEF terminal_putchar
  <1>2. CASE c # Newline
    <2>1. c \in Chars
      BY <1>2
    <2>2. PICK b : b = [t.buffer EXCEPT ![t.row][t.column] = c]
      OBVIOUS
    <2>3. /\ b \in [Rows -> [Columns -> Chars]]
          /\ \A y \in Rows, x \in Columns :
                y # t.row \/ x # t.column => b[y][x] = t.buffer[y][x]
      BY <1>0, <2>1, <2>2
    <2>4. PICK put : put = [row |-> t.row, column |-> t.column, buffer |-> b]
      OBVIOUS
    <2>5. put = [t EXCEPT !.buffer[t.row][t.column] = c]
      <3>1. put = [t EXCEPT !.buffer = b]
        BY <2>4 DEF Screen
      <3>2. [t EXCEPT !.buffer[t.row][t.column] = c] = [t EXCEPT !.buffer = b]
        BY <2>2 DEF Screen
      <3> QED BY <3>1, <3>2
    <2>6. put \in Screen /\ FreshBelow(put)
      <3>1. put \in Screen /\ put.row = t.row /\ put.buffer = b
        BY <1>0, <2>3, <2>4, ScreenIs
      <3> QED BY <1>0, <2>3, <3>1 DEF FreshBelow
    <2>7. CASE t.column + 1 = VGA_WIDTH
      <3>1. terminal_putchar(t, c) = NextRow(put)
        BY <1>2, <2>5, <2>7 DEF terminal_putchar
      <3> QED BY <2>6, <2>7, <3>1, NextRowFacts
    <2>8. CASE t.column + 1 # VGA_WIDTH
      <3>1. terminal_putchar(t, c) = [row |-> t.row, column |-> t.column + 1, buffer |-> b]
        <4>1. terminal_putchar(t, c) = [put EXCEPT !.column = @ + 1]
          BY <1>2, <2>5, <2>8 DEF terminal_putchar
        <4> QED BY <2>4, <4>1
      <3>2. t.column + 1 \in Columns
        BY <1>0, <2>8, TerminalConstants DEF Columns
      <3>3. \A y \in Rows, x \in Columns :
               (y > t.row \/ (y = t.row /\ x >= t.column + 1)) => b[y][x] = Blank
        BY <1>0, <2>3 DEF FreshBelow
      <3> QED BY <1>0, <2>2, <2>3, <3>1, <3>2, <3>3 DEF Screen, Fresh
    <2> QED BY <2>7, <2>8
  <1> QED BY <1>1, <1>2

\* So does taking back a character; the cursor is never moved below column 0.
LEMMA EraseFacts ==
    ASSUME NEW t \in Screen, Fresh(t)
    PROVE  /\ erase_last(t) \in Screen /\ Fresh(erase_last(t))
           /\ ~(t.column > 0) => erase_last(t) = t
           /\ t.column > 0 =>
                 erase_last(t) = [row |-> t.row, column |-> t.column - 1,
                                  buffer |-> [t.buffer EXCEPT ![t.row][t.column - 1] = Blank]]
  <1>0. /\ t.row \in Rows /\ t.column \in Columns
        /\ t.buffer \in [Rows -> [Columns -> Chars]]
        /\ t = [row |-> t.row, column |-> t.column, buffer |-> t.buffer]
        /\ \A y \in Rows : y \in Int
        /\ \A x \in Columns : x \in Int
        /\ VGA_WIDTH \in Nat
    BY TerminalConstants DEF Screen, Rows, Columns
  <1>1. CASE ~(t.column > 0)
    BY <1>1 DEF erase_last
  <1>2. CASE t.column > 0
    <2>1. PICK back : back = [row |-> t.row, column |-> t.column - 1, buffer |-> t.buffer]
      OBVIOUS
    <2>2. back = [t EXCEPT !.column = @ - 1]
      BY <1>0, <2>1
    <2>3. t.column - 1 \in Columns /\ t.column # VGA_WIDTH /\ t.column - 1 + 1 = t.column
      BY <1>0, <1>2 DEF Columns
    <2>4. back \in Screen
      BY <1>0, <2>1, <2>3 DEF Screen
    <2>5. FreshBelow(back)
      BY <2>1 DEF Fresh, FreshBelow
    <2>6. \A x \in Columns : x > back.column => back.buffer[back.row][x] = Blank
      BY <1>0, <2>1 DEF Fresh
    <2>7. PICK b : b = [t.buffer EXCEPT ![t.row][t.column - 1] = Blank]
      OBVIOUS
    <2>8. terminal_putchar(back, Blank) = [row |-> t.row, column |-> t.column, buffer |-> b]
      <3>1. Blank \in Chars /\ Blank # Newline
        BY BlankIsChar, TerminalConstants
      <3> QED BY <2>1, <2>3, <2>4, <2>5, <2>6, <2>7, <3>1, PutcharFacts
    <2>9. erase_last(t) = [row |-> t.row, column |-> t.column - 1, buffer |-> b]
      BY <1>2, <2>2, <2>8 DEF erase_last
    <2>10. /\ b \in [Rows -> [Columns -> Chars]]
           /\ b[t.row][t.column - 1] = Blank
           /\ \A y \in Rows, x \in Columns :
                 y # t.row \/ x # t.column - 1 => b[y][x] = t.buffer[y][x]
      BY <1>0, <2>3, <2>7, BlankIsChar
    <2>11. \A y \in Rows, x \in Columns :
              (y > t.row \/ (y = t.row /\ x >= t.column - 1)) => b[y][x] = Blank
      BY <1>0, <2>10 DEF Fresh
    <2>12. erase_last(t) \in Screen /\ Fresh(erase_last(t))
      BY <1>0, <2>3, <2>9, <2>10, <2>11 DEF Screen, Fresh
    <2> QED BY <1>2, <2>7, <2>9, <2>12
  <1> QED BY <1>1, <1>2

\* On a screen of any size the cursor stays inside video memory, and no stale
\* character shows after it.
THEOREM TerminalSafe == TerminalSpec => [](TerminalType /\ BlankAhead)
  <1> DEFINE Inv == terminal \in Screen /\ Fresh(terminal)
  <1>1. TerminalInit => Inv
    BY ClearFacts DEF TerminalInit
  <1>2. Inv /\ [TerminalNext]_terminal => Inv'
    <2> SUFFICES ASSUME Inv, [TerminalNext]_terminal PROVE Inv'
      OBVIOUS
    <2>1. ASSUME NEW c \in Chars \cup {Newline}, terminal' = terminal_putchar(terminal, c)
          PROVE  Inv'
      <3>1. /\ FreshBelow(terminal)
            /\ \A x \in Columns : x > terminal.column =>
                  terminal.buffer[terminal.row][x] = Blank
        <4>1. terminal.row \in Rows /\ terminal.column \in Columns
          BY DEF Screen
        <4>2. \A x \in Columns : x \in Int
          BY DEF Columns
        <4> QED BY <4>1, <4>2 DEF Fresh, FreshBelow, Columns
      <3> QED BY <2>1, <3>1, PutcharFacts
    <2>2. CASE terminal' = erase_last(terminal)
      BY <2>2, EraseFacts
    <2>3. CASE terminal' = terminal_clear
      BY <2>3, ClearFacts
    <2>4. CASE UNCHANGED terminal
      BY <2>4 DEF Fresh
    <2> QED BY <2>1, <2>2, <2>3, <2>4 DEF TerminalNext
  <1>3. Inv => TerminalType /\ BlankAhead
    BY DEF Screen, Fresh, TerminalType, BlankAhead
  <1> QED BY <1>1, <1>2, <1>3, PTL DEF TerminalSpec
----------------------------------------------------------------------------
\* The screen as the lines of the teletype.

LEMMA AppendIs ==
    ASSUME NEW n \in Nat, NEW s, s = [i \in 1 .. n |-> s[i]], NEW x
    PROVE  /\ Len(s) = n
           /\ Append(s, x) = [i \in 1 .. n + 1 |-> IF i = n + 1 THEN x ELSE s[i]]
           /\ Len(Append(s, x)) = n + 1
           /\ n = 0 => s = <<>>
           /\ n > 0 => s # <<>>
           /\ n > 0 => SubSeq(s, 1, Len(s) - 1) = [i \in 1 .. n - 1 |-> s[i]]
           /\ Tail(Append(s, x)) = [i \in 1 .. n |-> IF i = n THEN x ELSE s[i + 1]]
  <1> DEFINE T == {s[i] : i \in 1 .. n} \cup {x}
             q == Append(s, x)
  <1>1. s \in Seq(T) /\ x \in T
    OBVIOUS
  <1> HIDE DEF T
  <1>2. Len(s) = n
    BY <1>1
  <1>3. /\ q \in Seq(T) /\ Len(q) = n + 1
        /\ \A k \in 1 .. n : q[k] = s[k]
        /\ q[n + 1] = x
    BY <1>1, <1>2
  <1>4. \A r \in Seq(T) : r = [k \in 1 .. Len(r) |-> r[k]]
    OBVIOUS
  <1> HIDE DEF q
  <1>5. q = [k \in 1 .. n + 1 |-> q[k]]
    BY <1>3, <1>4
  <1>6. \A k \in 1 .. n + 1 : q[k] = IF k = n + 1 THEN x ELSE s[k]
    <2>1. \A k \in 1 .. n + 1 : k = n + 1 \/ k \in 1 .. n
      OBVIOUS
    <2> QED BY <1>3, <2>1
  <1>7. q = [i \in 1 .. n + 1 |-> IF i = n + 1 THEN x ELSE s[i]]
    BY <1>5, <1>6
  <1>8. (n = 0 => s = <<>>) /\ (n > 0 => s # <<>>)
    BY <1>1, <1>2
  <1>9. n > 0 => SubSeq(s, 1, Len(s) - 1) = [i \in 1 .. n - 1 |-> s[i]]
    BY <1>1, <1>2
  <1>10. Tail(q) = [i \in 1 .. n |-> q[i + 1]]
    <2>1. Len(q) - 1 = n /\ q # <<>>
      BY <1>3
    <2>2. /\ Tail(q) \in Seq(T) /\ Len(Tail(q)) = n
          /\ \A i \in 1 .. n : Tail(q)[i] = q[i + 1]
      BY <1>3, <2>1
    <2>3. Tail(q) = [i \in 1 .. n |-> Tail(q)[i]]
      BY <1>4, <2>2
    <2> QED BY <2>2, <2>3
  <1>11. \A i \in 1 .. n : q[i + 1] = IF i = n THEN x ELSE s[i + 1]
    <2> SUFFICES ASSUME NEW i \in 1 .. n PROVE q[i + 1] = IF i = n THEN x ELSE s[i + 1]
      OBVIOUS
    <2>1. i + 1 \in 1 .. n + 1 /\ (i + 1 = n + 1 <=> i = n)
      OBVIOUS
    <2> QED BY <1>6, <2>1
  <1>12. Tail(q) = [i \in 1 .. n |-> IF i = n THEN x ELSE s[i + 1]]
    BY <1>10, <1>11
  <1> QED BY <1>2, <1>3, <1>7, <1>8, <1>9, <1>12 DEF q

LEMMA CellFacts ==
    ASSUME NEW t \in Screen
    PROVE  /\ t.row \in Nat /\ t.column \in Nat /\ t.row < VGA_HEIGHT /\ t.column < VGA_WIDTH
           /\ t.row \in Rows /\ t.column \in Columns
           /\ t.buffer \in [Rows -> [Columns -> Chars]]
           /\ VGA_WIDTH \in Nat /\ VGA_HEIGHT \in Nat /\ VGA_WIDTH > 0 /\ VGA_HEIGHT > 0
           /\ \A x : x \in Columns <=> x \in Nat /\ x < VGA_WIDTH
           /\ \A y : y \in Rows <=> y \in Nat /\ y < VGA_HEIGHT
  BY TerminalConstants DEF Screen, Rows, Columns

\* What the teletype makes of a line that joins those above.
JoinedTo(lines, line) ==
    LET all == Append(lines, line)
    IN  IF Len(all) < VGA_HEIGHT THEN all ELSE Tail(all)

\* Moving to the next row is the end of a line, which scrolls the oldest away
\* where there is no room.
LEMMA NextRowJoins ==
    ASSUME NEW t \in Screen
    PROVE  /\ LinesAbove(NextRow(t)) = JoinedTo(LinesAbove(t), RowText(t, t.row, VGA_WIDTH))
           /\ CurrentLine(NextRow(t)) = <<>>
  <1> PICK r : r = t.row
    OBVIOUS
  <1> DEFINE line == RowText(t, r, VGA_WIDTH)
             all == Append(LinesAbove(t), line)
  <1>1. r \in Nat /\ r < VGA_HEIGHT /\ VGA_HEIGHT \in Nat /\ t.buffer \in [Rows -> [Columns -> Chars]]
    BY CellFacts
  <1>2. /\ Len(all) = r + 1
        /\ all = [i \in 1 .. r + 1 |-> IF i = r + 1 THEN line ELSE LinesAbove(t)[i]]
        /\ Tail(all) = [i \in 1 .. r |-> IF i = r THEN line ELSE LinesAbove(t)[i + 1]]
    <2>1. LinesAbove(t) = [i \in 1 .. r |-> LinesAbove(t)[i]]
      BY DEF LinesAbove
    <2> HIDE DEF line
    <2> QED BY <1>1, <2>1, AppendIs
  <1>3. \A i \in 1 .. r : LinesAbove(t)[i] = RowText(t, i - 1, VGA_WIDTH)
    BY DEF LinesAbove
  <1>4. PICK m, rest : m = Len(all) /\ rest = Tail(all)
    OBVIOUS
  <1>5. m = r + 1
    BY <1>2, <1>4
  <1>6. rest = [i \in 1 .. r |-> IF i = r THEN line ELSE LinesAbove(t)[i + 1]]
    BY <1>2, <1>4
  <1>7. CASE r + 1 = VGA_HEIGHT
    <2>1. PICK b : b = [y \in Rows |-> IF y < VGA_HEIGHT - 1 THEN t.buffer[y + 1] ELSE BlankScreen[y]]
      OBVIOUS
    <2>2. NextRow(t) = [row |-> VGA_HEIGHT - 1, column |-> 0, buffer |-> b]
      BY <1>7, <2>1 DEF NextRow, terminal_scroll_up, Screen
    <2>3. PICK s : s = NextRow(t)
      OBVIOUS
    <2>4. s.row = r /\ s.column = 0 /\ s.buffer = b
      BY <1>1, <1>7, <2>2, <2>3
    <2>5. \A i \in 1 .. r : RowText(s, i - 1, VGA_WIDTH) = RowText(t, i, VGA_WIDTH)
      <3> SUFFICES ASSUME NEW i \in 1 .. r
                   PROVE  RowText(s, i - 1, VGA_WIDTH) = RowText(t, i, VGA_WIDTH)
        OBVIOUS
      <3>1. i - 1 \in Rows /\ i - 1 < VGA_HEIGHT - 1 /\ (i - 1) + 1 = i
        BY <1>1, <1>7, CellFacts
      <3>2. s.buffer[i - 1] = t.buffer[i]
        BY <2>1, <2>4, <3>1
      <3> QED BY <3>2 DEF RowText
    <2>6. \A i \in 1 .. r : RowText(t, i, VGA_WIDTH) =
                               IF i = r THEN line ELSE LinesAbove(t)[i + 1]
      <3> SUFFICES ASSUME NEW i \in 1 .. r, i # r
                   PROVE  RowText(t, i, VGA_WIDTH) = LinesAbove(t)[i + 1]
        OBVIOUS
      <3>1. i + 1 \in 1 .. r /\ (i + 1) - 1 = i
        BY <1>1
      <3> QED BY <1>3, <3>1
    <2>7. LinesAbove(s) = rest
      <3>1. LinesAbove(s) = [i \in 1 .. r |-> RowText(s, i - 1, VGA_WIDTH)]
        BY <2>4 DEF LinesAbove
      <3> HIDE DEF line, all
      <3> QED BY <1>6, <2>5, <2>6, <3>1
    <2>8. ~(m < VGA_HEIGHT)
      <3> HIDE DEF all
      <3> QED BY <1>1, <1>5, <1>7
    <2>9. CurrentLine(s) = <<>>
      BY <2>4 DEF CurrentLine, RowText
    <2> QED BY <1>4, <2>3, <2>7, <2>8, <2>9 DEF JoinedTo
  <1>8. CASE r + 1 # VGA_HEIGHT
    <2>1. NextRow(t) = [row |-> r + 1, column |-> 0, buffer |-> t.buffer]
      BY <1>8 DEF NextRow, Screen
    <2>2. PICK s : s = NextRow(t)
      OBVIOUS
    <2>3. s.row = r + 1 /\ s.column = 0 /\ s.buffer = t.buffer
      BY <2>1, <2>2
    <2>4. \A i \in 1 .. r + 1 : RowText(s, i - 1, VGA_WIDTH) =
                                   IF i = r + 1 THEN line ELSE LinesAbove(t)[i]
      <3> SUFFICES ASSUME NEW i \in 1 .. r + 1
                   PROVE  RowText(s, i - 1, VGA_WIDTH) =
                             IF i = r + 1 THEN line ELSE LinesAbove(t)[i]
        OBVIOUS
      <3>1. RowText(s, i - 1, VGA_WIDTH) = RowText(t, i - 1, VGA_WIDTH)
        BY <2>3 DEF RowText
      <3>2. CASE i = r + 1
        <4>1. i - 1 = r
          BY <1>1, <3>2
        <4> QED BY <3>1, <3>2, <4>1
      <3>3. CASE i # r + 1
        <4>1. i \in 1 .. r
          BY <1>1, <3>3
        <4> QED BY <1>3, <3>1, <3>3, <4>1
      <3> QED BY <3>2, <3>3
    <2>5. LinesAbove(s) = all
      <3>1. LinesAbove(s) = [i \in 1 .. r + 1 |-> RowText(s, i - 1, VGA_WIDTH)]
        BY <2>3 DEF LinesAbove
      <3> HIDE DEF line, all
      <3> QED BY <1>2, <2>4, <3>1
    <2>6. m < VGA_HEIGHT
      <3> HIDE DEF all
      <3> QED BY <1>1, <1>5, <1>8
    <2>7. CurrentLine(s) = <<>>
      BY <2>3 DEF CurrentLine, RowText
    <2> QED BY <1>4, <2>2, <2>5, <2>6, <2>7 DEF JoinedTo
  <1> QED BY <1>7, <1>8

LEMMA CurrentIs ==
    ASSUME NEW t \in Screen
    PROVE  /\ CurrentLine(t) = [i \in 1 .. t.column |-> CurrentLine(t)[i]]
           /\ \A i \in 1 .. t.column : CurrentLine(t)[i] = t.buffer[t.row][i - 1]
           /\ Len(CurrentLine(t)) = t.column
  <1>1. CurrentLine(t) = [i \in 1 .. t.column |-> CurrentLine(t)[i]]
    BY DEF CurrentLine, RowText
  <1>2. \A i \in 1 .. t.column : CurrentLine(t)[i] = t.buffer[t.row][i - 1]
    BY DEF CurrentLine, RowText
  <1>3. t.column \in Nat
    BY CellFacts
  <1>4. Len(CurrentLine(t)) = t.column
    BY <1>1, <1>3, AppendIs
  <1> QED BY <1>1, <1>2, <1>4

\* A newline leaves the row as it is: what is blank after the cursor is the
\* padding of the line.
LEMMA RowPadded ==
    ASSUME NEW t \in Screen, Fresh(t)
    PROVE  RowText(t, t.row, VGA_WIDTH) = TT!Padded(CurrentLine(t))
  <1> PICK k : k = t.column
    OBVIOUS
  <1>1. /\ k \in Nat /\ t.row \in Rows /\ VGA_WIDTH \in Nat
        /\ Len(CurrentLine(t)) = k
        /\ \A i \in 1 .. k : CurrentLine(t)[i] = t.buffer[t.row][i - 1]
    BY CellFacts, CurrentIs
  <1>2. \A i \in 1 .. VGA_WIDTH :
            t.buffer[t.row][i - 1] = IF i <= k THEN CurrentLine(t)[i] ELSE Blank
    <2> SUFFICES ASSUME NEW i \in 1 .. VGA_WIDTH
                 PROVE  t.buffer[t.row][i - 1] = IF i <= k THEN CurrentLine(t)[i] ELSE Blank
      OBVIOUS
    <2>1. CASE i <= k
      <3>1. i \in 1 .. k
        BY <1>1, <2>1
      <3> QED BY <1>1, <2>1, <3>1
    <2>2. CASE ~(i <= k)
      <3>1. i - 1 \in Columns /\ i - 1 >= k
        BY <1>1, <2>2, CellFacts
      <3>2. t.buffer[t.row][i - 1] = Blank
        BY <1>1, <3>1 DEF Fresh
      <3> QED BY <2>2, <3>2
    <2> QED BY <2>1, <2>2
  <1>3. PICK n : n = Len(CurrentLine(t))
    OBVIOUS
  <1>4. n = k
    BY <1>1, <1>3
  <1>5. TT!Padded(CurrentLine(t)) =
            [i \in 1 .. VGA_WIDTH |-> IF i <= n THEN CurrentLine(t)[i] ELSE Blank]
    BY <1>3 DEF TT!Padded
  <1>6. RowText(t, t.row, VGA_WIDTH) = [i \in 1 .. VGA_WIDTH |-> t.buffer[t.row][i - 1]]
    BY DEF RowText
  <1> QED BY <1>2, <1>4, <1>5, <1>6

\* Writing c at the cursor appends it to the current line and changes no other.
LEMMA CellPut ==
    ASSUME NEW t \in Screen, NEW put \in Screen, NEW r, r = t.row, NEW k, k = t.column,
           put.row = r, NEW c, put.buffer[r][k] = c,
           \A y \in Rows : y # r => put.buffer[y] = t.buffer[y],
           \A x \in Columns : x # k => put.buffer[r][x] = t.buffer[r][x]
    PROVE  /\ LinesAbove(put) = LinesAbove(t)
           /\ RowText(put, r, k + 1) = Append(CurrentLine(t), c)
  <1>1. r \in Nat /\ k \in Nat /\ r \in Rows /\ k \in Columns
    BY CellFacts
  <1>2. LinesAbove(put) = LinesAbove(t)
    <2>1. \A i \in 1 .. r : RowText(put, i - 1, VGA_WIDTH) = RowText(t, i - 1, VGA_WIDTH)
      <3> SUFFICES ASSUME NEW i \in 1 .. r
                   PROVE  RowText(put, i - 1, VGA_WIDTH) = RowText(t, i - 1, VGA_WIDTH)
        OBVIOUS
      <3>1. i - 1 \in Rows /\ i - 1 # r
        BY <1>1, CellFacts
      <3>2. put.buffer[i - 1] = t.buffer[i - 1]
        BY <3>1
      <3> QED BY <3>2 DEF RowText
    <2> QED BY <2>1 DEF LinesAbove
  <1>3. Append(CurrentLine(t), c) =
            [i \in 1 .. k + 1 |-> IF i = k + 1 THEN c ELSE CurrentLine(t)[i]]
    <2>1. CurrentLine(t) = [i \in 1 .. k |-> CurrentLine(t)[i]]
      BY CurrentIs
    <2> QED BY <1>1, <2>1, AppendIs
  <1>4. \A i \in 1 .. k + 1 : put.buffer[r][i - 1] = IF i = k + 1 THEN c ELSE CurrentLine(t)[i]
    <2> SUFFICES ASSUME NEW i \in 1 .. k + 1
                 PROVE  put.buffer[r][i - 1] = IF i = k + 1 THEN c ELSE CurrentLine(t)[i]
      OBVIOUS
    <2>1. CASE i = k + 1
      <3>1. i - 1 = k
        BY <1>1, <2>1
      <3> QED BY <2>1, <3>1
    <2>2. CASE i # k + 1
      <3>1. i \in 1 .. k /\ i - 1 \in Columns /\ i - 1 # k
        BY <1>1, <2>2, CellFacts
      <3>2. CurrentLine(t)[i] = t.buffer[r][i - 1]
        BY <3>1, CurrentIs
      <3> QED BY <2>2, <3>1, <3>2
    <2> QED BY <2>1, <2>2
  <1>5. RowText(put, r, k + 1) = [i \in 1 .. k + 1 |-> put.buffer[r][i - 1]]
    BY DEF RowText
  <1>6. RowText(put, r, k + 1) = Append(CurrentLine(t), c)
    <2>1. PICK cells : cells = put.buffer[r]
      OBVIOUS
    <2>2. PICK old : old = CurrentLine(t)
      OBVIOUS
    <2>3. \A i \in 1 .. k + 1 : cells[i - 1] = IF i = k + 1 THEN c ELSE old[i]
      BY <1>4, <2>1, <2>2
    <2>4. [i \in 1 .. k + 1 |-> cells[i - 1]] =
             [i \in 1 .. k + 1 |-> IF i = k + 1 THEN c ELSE old[i]]
      BY <2>3
    <2> QED BY <1>3, <1>5, <2>1, <2>2, <2>4
  <1> QED BY <1>2, <1>6

\* What terminal_putchar does to the lines, as the teletype has it.
LEMMA PutcharLines ==
    ASSUME NEW t \in Screen, NEW c \in Chars, NEW line, line = Append(CurrentLine(t), c)
    PROVE  LET s == terminal_putchar(t, c)
           IN  IF Len(line) < VGA_WIDTH
               THEN CurrentLine(s) = line /\ LinesAbove(s) = LinesAbove(t)
               ELSE LinesAbove(s) = JoinedTo(LinesAbove(t), line) /\ CurrentLine(s) = <<>>
  <1>0. PICK put : put = [row |-> t.row, column |-> t.column,
                          buffer |-> [t.buffer EXCEPT ![t.row][t.column] = c]]
    OBVIOUS
  <1> PICK k, n : k = t.column /\ n = Len(line)
    OBVIOUS
  <1>1. /\ put \in Screen /\ LinesAbove(put) = LinesAbove(t)
        /\ RowText(put, t.row, k + 1) = line
    <2>1. PICK r, b : r = t.row /\ b = [t.buffer EXCEPT ![r][k] = c]
      OBVIOUS
    <2>2. r \in Rows /\ k \in Columns /\ t.buffer \in [Rows -> [Columns -> Chars]]
      BY <2>1, CellFacts
    <2>3. /\ b \in [Rows -> [Columns -> Chars]] /\ b[r][k] = c
          /\ \A y \in Rows : y # r => b[y] = t.buffer[y]
          /\ \A x \in Columns : x # k => b[r][x] = t.buffer[r][x]
      BY <2>1, <2>2
    <2>4. put = [row |-> r, column |-> k, buffer |-> b]
      BY <1>0, <2>1
    <2>5. put \in Screen /\ put.row = r /\ put.buffer = b
      BY <2>2, <2>3, <2>4, ScreenIs
    <2>6. LinesAbove(put) = LinesAbove(t) /\ RowText(put, r, k + 1) = Append(CurrentLine(t), c)
      <3>1. r = t.row
        BY <2>1
      <3> QED BY <2>3, <2>5, <3>1, CellPut
    <2> QED BY <2>1, <2>5, <2>6
  <1>2. c # Newline /\ put = [t EXCEPT !.buffer[t.row][t.column] = c]
    <2>1. c # Newline
      BY TerminalConstants
    <2>2. PICK b : b = [t.buffer EXCEPT ![t.row][t.column] = c]
      OBVIOUS
    <2>3. put = [row |-> t.row, column |-> t.column, buffer |-> b]
      BY <1>0, <2>2
    <2>4. put = [t EXCEPT !.buffer = b]
      BY <2>3 DEF Screen
    <2>5. [t EXCEPT !.buffer[t.row][t.column] = c] = [t EXCEPT !.buffer = b]
      BY <2>2 DEF Screen
    <2> QED BY <2>1, <2>4, <2>5
  <1>3. k \in Nat /\ k < VGA_WIDTH /\ VGA_WIDTH \in Nat
    BY CellFacts
  <1>4. n = k + 1
    <2>1. CurrentLine(t) = [i \in 1 .. k |-> CurrentLine(t)[i]]
      BY CurrentIs
    <2> QED BY <1>3, <2>1, AppendIs
  <1>5. put.row = t.row /\ put.column = k
    BY <1>0
  <1>6. CASE k + 1 = VGA_WIDTH
    <2>1. terminal_putchar(t, c) = NextRow(put)
      BY <1>2, <1>6 DEF terminal_putchar
    <2>2. /\ LinesAbove(NextRow(put)) = JoinedTo(LinesAbove(t), line)
          /\ CurrentLine(NextRow(put)) = <<>>
      BY <1>1, <1>5, <1>6, NextRowJoins
    <2>3. ~(n < VGA_WIDTH)
      BY <1>3, <1>4, <1>6
    <2> QED BY <2>1, <2>2, <2>3
  <1>7. CASE k + 1 # VGA_WIDTH
    <2> PICK s : s = terminal_putchar(t, c)
      OBVIOUS
    <2>1. s = [put EXCEPT !.column = @ + 1]
      BY <1>2, <1>7 DEF terminal_putchar
    <2>2. s.row = t.row /\ s.column = k + 1 /\ s.buffer = put.buffer
      BY <1>1, <1>5, <2>1 DEF Screen
    <2>3. CurrentLine(s) = RowText(put, t.row, k + 1)
      BY <2>2 DEF CurrentLine, RowText
    <2>4. LinesAbove(s) = LinesAbove(put)
      BY <1>5, <2>2 DEF LinesAbove, RowText
    <2>5. n < VGA_WIDTH
      BY <1>3, <1>4, <1>7
    <2> QED BY <1>1, <2>3, <2>4, <2>5
  <1> QED BY <1>6, <1>7

\* Taking back a character shortens the current line.
LEMMA EraseLines ==
    ASSUME NEW t \in Screen, Fresh(t), t.column > 0
    PROVE  /\ LinesAbove(erase_last(t)) = LinesAbove(t)
           /\ CurrentLine(t) # <<>>
           /\ CurrentLine(erase_last(t)) =
                 SubSeq(CurrentLine(t), 1, Len(CurrentLine(t)) - 1)
  <1>1. PICK r, k, b : /\ r = t.row /\ k = t.column
                       /\ b = [t.buffer EXCEPT ![r][k - 1] = Blank]
    OBVIOUS
  <1>2. /\ r \in Nat /\ k \in Nat /\ k > 0 /\ r \in Rows /\ k \in Columns /\ k - 1 \in Columns
        /\ t.buffer \in [Rows -> [Columns -> Chars]]
    BY <1>1, CellFacts
  <1>3. /\ \A y \in Rows : y # r => b[y] = t.buffer[y]
        /\ \A x \in Columns : x # k - 1 => b[r][x] = t.buffer[r][x]
    BY <1>1, <1>2
  <1>4. PICK s : s = erase_last(t)
    OBVIOUS
  <1>5. s.row = r /\ s.column = k - 1 /\ s.buffer = b
    BY <1>1, <1>4, EraseFacts
  <1>6. LinesAbove(s) = LinesAbove(t)
    <2>1. \A i \in 1 .. r : RowText(s, i - 1, VGA_WIDTH) = RowText(t, i - 1, VGA_WIDTH)
      <3> SUFFICES ASSUME NEW i \in 1 .. r
                   PROVE  RowText(s, i - 1, VGA_WIDTH) = RowText(t, i - 1, VGA_WIDTH)
        OBVIOUS
      <3>1. i - 1 \in Rows /\ i - 1 # r
        BY <1>1, <1>2, CellFacts
      <3>2. s.buffer[i - 1] = t.buffer[i - 1]
        BY <1>3, <1>5, <3>1
      <3> QED BY <3>2 DEF RowText
    <2> QED BY <1>1, <1>5, <2>1 DEF LinesAbove
  <1>7. /\ CurrentLine(t) # <<>>
        /\ SubSeq(CurrentLine(t), 1, Len(CurrentLine(t)) - 1) =
              [i \in 1 .. k - 1 |-> CurrentLine(t)[i]]
    <2>1. CurrentLine(t) = [i \in 1 .. k |-> CurrentLine(t)[i]]
      BY <1>1, CurrentIs
    <2> QED BY <1>2, <2>1, AppendIs
  <1>8. \A i \in 1 .. k - 1 : b[r][i - 1] = CurrentLine(t)[i]
    <2> SUFFICES ASSUME NEW i \in 1 .. k - 1 PROVE b[r][i - 1] = CurrentLine(t)[i]
      OBVIOUS
    <2>1. i \in 1 .. k /\ i - 1 \in Columns /\ i - 1 # k - 1
      BY <1>2, CellFacts
    <2>2. CurrentLine(t)[i] = t.buffer[r][i - 1]
      BY <1>1, <2>1, CurrentIs
    <2> QED BY <1>3, <2>1, <2>2
  <1>9. CurrentLine(s) = [i \in 1 .. k - 1 |-> b[r][i - 1]]
    BY <1>5 DEF CurrentLine, RowText
  <1> QED BY <1>4, <1>6, <1>7, <1>8, <1>9

\* The grid with its cursor implements the teletype, on a screen of any size: a
\* newline or a full row ends a line, scrolling gives up only the oldest, a
\* backspace takes back only from the current line.
THEOREM TeletypeImplemented == TerminalSpec => ImplementsTeletype
  <1> DEFINE Inv == terminal \in Screen /\ Fresh(terminal)
  <1>1. TerminalSpec => []Inv
    <2>1. TerminalType /\ BlankAhead => Inv
      BY DEF Screen, Fresh, TerminalType, BlankAhead
    <2> QED BY <2>1, TerminalSafe, PTL
  <1>2. LinesAbove(terminal_clear) = <<>> /\ CurrentLine(terminal_clear) = <<>>
    BY DEF LinesAbove, CurrentLine, RowText, terminal_clear
  <1>3. TerminalInit => TT!TeletypeInit
    BY <1>2 DEF TerminalInit, TT!TeletypeInit
  <1>4. ASSUME Inv, [TerminalNext]_terminal
        PROVE  [TT!TeletypeNext]_TT!tvars
    <2>1. \A line : TT!Joined(line) = JoinedTo(LinesAbove(terminal), line)
      BY DEF TT!Joined, JoinedTo
    <2>2. CASE terminal' = terminal_putchar(terminal, Newline)
      <3>1. terminal' = NextRow(terminal)
        BY <2>2 DEF terminal_putchar
      <3>2. /\ LinesAbove(terminal') = TT!Joined(TT!Padded(CurrentLine(terminal)))
            /\ CurrentLine(terminal') = <<>>
        BY <1>4, <2>1, <3>1, NextRowJoins, RowPadded
      <3> QED BY <3>2 DEF TT!TeletypeNext, TT!EndLine
    <2>3. ASSUME NEW c \in Chars, terminal' = terminal_putchar(terminal, c)
          PROVE  TT!Put(c)
      <3>1. PICK line : line = Append(CurrentLine(terminal), c)
        OBVIOUS
      <3>2. IF Len(line) < VGA_WIDTH
            THEN /\ CurrentLine(terminal') = line
                 /\ LinesAbove(terminal') = LinesAbove(terminal)
            ELSE /\ LinesAbove(terminal') = JoinedTo(LinesAbove(terminal), line)
                 /\ CurrentLine(terminal') = <<>>
        BY <1>4, <2>3, <3>1, PutcharLines
      <3> QED BY <2>1, <3>1, <3>2 DEF TT!Put
    <2>4. CASE terminal' = erase_last(terminal)
      <3>1. CASE terminal.column > 0
        <4>1. TT!TakeBack
          BY <1>4, <2>4, <3>1, EraseLines DEF TT!TakeBack
        <4> QED BY <4>1 DEF TT!TeletypeNext
      <3>2. CASE ~(terminal.column > 0)
        BY <1>4, <2>4, <3>2, EraseFacts DEF TT!tvars
      <3> QED BY <3>1, <3>2
    <2>5. CASE terminal' = terminal_clear
      BY <1>2, <2>5 DEF TT!TeletypeNext, TT!Clear
    <2>6. CASE UNCHANGED terminal
      BY <2>6 DEF TT!tvars
    <2> QED BY <1>4, <2>2, <2>3, <2>4, <2>5, <2>6 DEF TerminalNext, TT!TeletypeNext
  <1> QED BY <1>1, <1>3, <1>4, PTL DEF TerminalSpec, ImplementsTeletype, TT!TeletypeSpec
=============================================================================
