------------------------------- MODULE Teletype -------------------------------
(***************************************************************************)
(* What a text screen promises: characters go to the end of the current    *)
(* line, a line that is ended or full joins those above it, and the oldest *)
(* line is given up when the screen has no room for another.               *)
(***************************************************************************)
EXTENDS Integers, Sequences

CONSTANTS
    Width,      \* characters in a line
    Height,     \* lines on the screen, the current one included
    Printable,  \* the characters, a space among them
    Space

VARIABLES
    above,      \* the full lines above the current one, oldest first
    current     \* the characters of the current line

tvars == <<above, current>>

Padded(line) == [i \in 1 .. Width |-> IF i <= Len(line) THEN line[i] ELSE Space]

\* The lines that stay when line joins those above.
Joined(line) ==
    LET all == Append(above, line)
    IN  IF Len(all) < Height THEN all ELSE Tail(all)

TeletypeInit == above = <<>> /\ current = <<>>

EndLine ==
    /\ above' = Joined(Padded(current))
    /\ current' = <<>>

Put(c) ==
    LET line == Append(current, c)
    IN  IF Len(line) < Width
        THEN current' = line /\ UNCHANGED above
        ELSE above' = Joined(line) /\ current' = <<>>

\* A character of the current line is taken back; none of a line above ever is.
TakeBack ==
    /\ current # <<>>
    /\ current' = SubSeq(current, 1, Len(current) - 1)
    /\ UNCHANGED above

Clear == above' = <<>> /\ current' = <<>>

TeletypeNext == EndLine \/ (\E c \in Printable : Put(c)) \/ TakeBack \/ Clear

TeletypeSpec == TeletypeInit /\ [][TeletypeNext]_tvars
=============================================================================
