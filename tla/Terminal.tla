------------------------------- MODULE Terminal -------------------------------
(***************************************************************************)
(* The VGA text terminal of MiniCore-OS (kernel.c): a grid of cells in     *)
(* video memory and a cursor.  Colours are left out, so a cell is the      *)
(* character it shows.                                                     *)
(*                                                                         *)
(* The functions are operators on the terminal's state, so that the shell, *)
(* which writes to the terminal in the middle of its handlers, is built    *)
(* from them; the specification calls them one at a time.                  *)
(***************************************************************************)
EXTENDS Integers, Sequences

CONSTANTS
    VGA_WIDTH, VGA_HEIGHT,      \* 80 and 25 in the code
    Glyphs                      \* the characters other than space

Blank == " "
Newline == "\n"
Chars == Glyphs \cup {Blank}

ASSUME TerminalConstants ==
    /\ VGA_WIDTH \in Nat \ {0}
    /\ VGA_HEIGHT \in Nat \ {0}
    /\ Newline \notin Chars

VARIABLE terminal   \* terminal_row, terminal_column and terminal_buffer

Rows == 0 .. VGA_HEIGHT - 1
Columns == 0 .. VGA_WIDTH - 1
BlankScreen == [y \in Rows |-> [x \in Columns |-> Blank]]

----------------------------------------------------------------------------
\* terminal_clear, which terminal_initialize does as well.
terminal_clear == [row |-> 0, column |-> 0, buffer |-> BlankScreen]

\* Mutant of terminal_scroll_up: the bottom line is not cleared.
terminal_scroll_up_no_clear(t) ==
    [t EXCEPT !.buffer = [y \in Rows |->
        IF y < VGA_HEIGHT - 1 THEN t.buffer[y + 1] ELSE t.buffer[y]]]

terminal_scroll_up(t) ==
    [t EXCEPT !.buffer = [y \in Rows |->
        IF y < VGA_HEIGHT - 1 THEN t.buffer[y + 1] ELSE BlankScreen[y]]]

\* Both branches of terminal_putchar end in this.
NextRow(t) ==
    IF t.row + 1 = VGA_HEIGHT
    THEN [terminal_scroll_up(t) EXCEPT !.column = 0, !.row = VGA_HEIGHT - 1]
    ELSE [t EXCEPT !.column = 0, !.row = @ + 1]

terminal_putchar(t, c) ==
    LET put == [t EXCEPT !.buffer[t.row][t.column] = c]
    IN  IF c = Newline THEN NextRow(t)
        ELSE IF t.column + 1 = VGA_WIDTH THEN NextRow(put)
        ELSE [put EXCEPT !.column = @ + 1]

\* Mutant of erase_last: the cursor is not moved back again.
erase_last_forward(t) ==
    IF t.column > 0
    THEN terminal_putchar([t EXCEPT !.column = @ - 1], Blank)
    ELSE t

\* What shell_backspace does to the terminal, whose column it writes itself.
erase_last(t) ==
    IF t.column > 0
    THEN LET put == terminal_putchar([t EXCEPT !.column = @ - 1], Blank)
         IN  [put EXCEPT !.column = @ - 1]
    ELSE t

----------------------------------------------------------------------------
TerminalInit == terminal = terminal_clear

TerminalNext ==
    \/ \E c \in Chars \cup {Newline} : terminal' = terminal_putchar(terminal, c)
    \/ terminal' = erase_last(terminal)
    \/ terminal' = terminal_clear

TerminalSpec == TerminalInit /\ [][TerminalNext]_terminal

----------------------------------------------------------------------------
\* The cursor never leaves the grid, whatever is written at its edges, so that
\* terminal_putentryat never writes outside video memory.
TerminalType ==
    terminal \in [row : Rows, column : Columns, buffer : [Rows -> [Columns -> Chars]]]

\* Every cell from the cursor on is blank: what scrolls in, what is taken back
\* and what a newline leaves behind shows no stale characters.
BlankAhead ==
    \A y \in Rows, x \in Columns :
        (y > terminal.row \/ (y = terminal.row /\ x >= terminal.column)) =>
            terminal.buffer[y][x] = Blank

\* The first n cells of a row of t, as a sequence; the rows above the cursor and
\* what is before it in its own row.
RowText(t, y, n) == [i \in 1 .. n |-> t.buffer[y][i - 1]]
LinesAbove(t) == [i \in 1 .. t.row |-> RowText(t, i - 1, VGA_WIDTH)]
CurrentLine(t) == RowText(t, t.row, t.column)

TT == INSTANCE Teletype WITH
        Width <- VGA_WIDTH, Height <- VGA_HEIGHT, Printable <- Chars, Space <- Blank,
        above <- LinesAbove(terminal), current <- CurrentLine(terminal)

\* The grid with its cursor implements the teletype: no character is lost,
\* moved or doubled where lines wrap and the screen scrolls.
ImplementsTeletype == TT!TeletypeSpec
=============================================================================
