--------------------------------- MODULE Shell ---------------------------------
(***************************************************************************)
(* The shell of MiniCore-OS in polling mode (shell.c): shell_run calls     *)
(* keyboard_handler over and over, and each call takes one scan code       *)
(* through the modifier keys, the line editor and, for Enter, the parser   *)
(* and the command, up to the next prompt.  The handler is one action per  *)
(* kind of scan code.                                                      *)
(*                                                                         *)
(* A character is an element of Chars and a command is known by its kind:  *)
(* only clear, echo, halt and unknown commands do something to the shell's *)
(* own state that depends on which they are; all others write some text.   *)
(* What enableints does besides is in ShellInterrupts.                     *)
(*                                                                         *)
(* held and typed are not in the code: the keys that are physically down,  *)
(* which decide what the keyboard can send next, and the line as the user  *)
(* sees it, which influences no step.                                      *)
(***************************************************************************)
EXTENDS Terminal, FiniteSets, FiniteSetsExt

CONSTANTS
    SHELL_BUFFER_SIZE,  \* 256 in the code
    SHELL_MAX_ARGS,     \* 16 in the code
    SHELL_PROMPT,       \* a sequence of characters
    Modifiers,          \* the keys in use that change keyboard_state
    CharKeys,           \* the keys with an entry in the scan code tables
    Ascii, AsciiShift,  \* scancode_ascii and scancode_ascii_shift
    Commands,           \* the kind of command each name stands for
    Outputs             \* texts that commands write

\* PrintScreen and other grey keys send E0 2A when they go down and E0 AA when they
\* come up.  keyboard_handler takes E0 for the release of a key it does not know, and
\* the rest for left shift.
ShiftKeys == {"lshift", "rshift"}
ModifierKeys == ShiftKeys \cup {"lctrl", "grey"}

NUL == "NUL"
Kinds == {"clear", "echo", "halt", "enableints", "other"}

ASSUME ShellConstants ==
    /\ SHELL_BUFFER_SIZE \in Nat \ {0} /\ SHELL_MAX_ARGS \in Nat \ {0}
    /\ SHELL_PROMPT \in Seq(Chars)
    /\ Modifiers \subseteq ModifierKeys
    /\ CharKeys \cap (ModifierKeys \cup {"enter", "backspace"}) = {}
    /\ Ascii \in [CharKeys -> Chars \cup {NUL}]
    /\ AsciiShift \in [CharKeys -> Chars \cup {NUL}]
    /\ \A name \in DOMAIN Commands : Commands[name] \in Kinds
    /\ Outputs \subseteq Seq(Chars \cup {Newline})
    /\ NUL \notin Chars \cup {Newline}

VARIABLES
    input_buffer,   \* shell_state.input_buffer
    buffer_pos,     \* shell_state.buffer_pos
    keyboard_state, \* the flags among SHIFT_PRESSED and CTRL_PRESSED that are set
    halted,         \* cmd_halt has stopped the machine
    held,           \* the modifier keys, and the grey key, that are down
    typed           \* the line as the user typed it

vars == <<terminal, input_buffer, buffer_pos, keyboard_state, halted, held, typed>>

flag(key) == IF key = "lctrl" THEN "CTRL_PRESSED" ELSE "SHIFT_PRESSED"
Slots == 0 .. SHELL_BUFFER_SIZE - 1
EmptyBuffer == [i \in Slots |-> NUL]

\* The terminal t after the first n characters of text, for every n.
terminal_write(t, text) ==
    LET written[n \in 0 .. Len(text)] ==
            IF n = 0 THEN t ELSE terminal_putchar(written[n - 1], text[n])
    IN  written[Len(text)]

Init ==
    /\ terminal = terminal_write(terminal_clear, SHELL_PROMPT)
    /\ input_buffer = EmptyBuffer
    /\ buffer_pos = 0
    /\ keyboard_state = {}
    /\ halted = FALSE
    /\ held = {}
    /\ typed = <<>>

----------------------------------------------------------------------------
\* shell_parse_command

\* Only spaces can be typed: the tab key has no entry in the scan code tables.
IsSpace(c) == c = Blank

\* Mutant of SkipSpaces: only one space is skipped.
SkipSpaces_one(input, i) == IF IsSpace(input[i]) THEN i + 1 ELSE i

\* First position from i on that is no space, and first one that ends a word.
SkipSpaces(input, i) == Min({j \in i .. SHELL_BUFFER_SIZE - 1 : ~IsSpace(input[j])})
WordEnd(input, i) ==
    Min({j \in i .. SHELL_BUFFER_SIZE - 1 : IsSpace(input[j]) \/ input[j] = NUL})

\* A word is cut off by the NUL that replaces the space after it, and the next
\* one, or the end of the line, comes after the spaces that follow.
Word(input, i) == [k \in 1 .. WordEnd(input, i) - i |-> input[i + k - 1]]
NextToken(input, i) ==
    IF input[WordEnd(input, i)] = NUL THEN WordEnd(input, i)
    ELSE SkipSpaces(input, WordEnd(input, i) + 1)

\* argv, as the strings its pointers stand for: token[n] is where the pointer is
\* when n arguments have been found.
shell_parse_command(input, max_args) ==
    LET token[n \in 0 .. max_args - 1] ==
            IF n = 0 THEN SkipSpaces(input, 0) ELSE NextToken(input, token[n - 1])
        argc == Min({n \in 0 .. max_args - 1 : input[token[n]] = NUL \/ n = max_args - 1})
    IN  [k \in 1 .. argc |-> Word(input, token[k - 1])]

\* shell_find_command
Kind(name) == IF name \in DOMAIN Commands THEN Commands[name] ELSE "unknown"

\* The arguments, with a space between any two: the terminal after argv[i] in the
\* code, which counts from 0.
cmd_echo(t, argv) ==
    LET echoed[i \in 0 .. Len(argv) - 1] ==
            IF i = 0 THEN t
            ELSE terminal_write(IF i > 1 THEN terminal_putchar(echoed[i - 1], Blank)
                                ELSE echoed[i - 1],
                                argv[i + 1])
    IN  terminal_putchar(echoed[Len(argv) - 1], Newline)

\* A command that only prints, whatever it prints.
cmd_print(t) == {terminal_write(t, text) : text \in Outputs}

\* What the command line argv may leave on the terminal t.
shell_execute_command(t, argv) ==
    IF argv = <<>> THEN {t}
    ELSE LET kind == Kind(argv[1])
         IN  CASE kind = "clear"   -> {terminal_clear}
               [] kind = "echo"    -> {cmd_echo(t, argv)}
               [] kind = "unknown" -> {terminal_write(t, Append(argv[1], Newline))}
               [] OTHER            -> cmd_print(t)

----------------------------------------------------------------------------
\* keyboard_handler, by kind of scan code.

\* A grey key sends its false shift only while no shift key is down.
CanPress(key) == key \notin held /\ (key = "grey" => held \cap ShiftKeys = {})

ModifierDown(key) ==
    /\ ~halted /\ CanPress(key)
    /\ keyboard_state' = keyboard_state \cup {flag(key)}
    /\ held' = held \cup {key}
    /\ UNCHANGED <<terminal, input_buffer, buffer_pos, halted, typed>>

\* Mutant of ModifierUp: only the left shift key clears the flag.
ModifierUp_left(key) ==
    /\ ~halted /\ key \in held
    /\ keyboard_state' = IF key = "rshift" THEN keyboard_state
                         ELSE keyboard_state \ {flag(key)}
    /\ held' = held \ {key}
    /\ UNCHANGED <<terminal, input_buffer, buffer_pos, halted, typed>>

\* Releases of other keys are ignored.
ModifierUp(key) ==
    /\ ~halted /\ key \in held
    /\ keyboard_state' = keyboard_state \ {flag(key)}
    /\ held' = held \ {key}
    /\ UNCHANGED <<terminal, input_buffer, buffer_pos, halted, typed>>

\* The command line that Enter runs: the NUL is stored before it is parsed.
EnteredArgs ==
    IF buffer_pos = 0 THEN <<>>
    ELSE shell_parse_command([input_buffer EXCEPT ![buffer_pos] = NUL], SHELL_MAX_ARGS)
Halts == EnteredArgs # <<>> /\ Kind(EnteredArgs[1]) = "halt"

shell_clear_buffer == input_buffer' = EmptyBuffer /\ buffer_pos' = 0

\* shell_process_input('\n')
EnterDown ==
    /\ ~halted /\ ~Halts
    /\ \E t \in shell_execute_command(terminal_putchar(terminal, Newline), EnteredArgs) :
          terminal' = terminal_write(t, SHELL_PROMPT)
    /\ shell_clear_buffer
    /\ typed' = <<>>
    /\ UNCHANGED <<keyboard_state, halted, held>>

\* The same for the command halt, from which there is no return.  The buffer,
\* which parsing has cut into words, is never read again.
HaltDown ==
    /\ ~halted /\ Halts
    /\ \E t \in shell_execute_command(terminal_putchar(terminal, Newline), EnteredArgs) :
          terminal' = t
    /\ halted' = TRUE
    /\ UNCHANGED <<input_buffer, buffer_pos, keyboard_state, held, typed>>

\* What shell_backspace does to the line.
EraseChar ==
    /\ buffer_pos > 0
    /\ buffer_pos' = buffer_pos - 1
    /\ input_buffer' = [input_buffer EXCEPT ![buffer_pos - 1] = NUL]

\* shell_backspace
BackspaceDown ==
    /\ ~halted /\ EraseChar
    /\ terminal' = erase_last(terminal)
    /\ typed' = SubSeq(typed, 1, Len(typed) - 1)
    /\ UNCHANGED <<keyboard_state, halted, held>>

scancode_to_ascii(key, shift) == IF shift THEN AsciiShift[key] ELSE Ascii[key]

\* Mutant of HasRoom: no place is kept for the NUL.
HasRoom_full == buffer_pos < SHELL_BUFFER_SIZE

HasRoom == buffer_pos < SHELL_BUFFER_SIZE - 1

\* What shell_process_input does to the line for the character c.
StoreChar(c) ==
    /\ HasRoom /\ c # NUL
    /\ input_buffer' = [input_buffer EXCEPT ![buffer_pos] = c]
    /\ buffer_pos' = buffer_pos + 1

\* shell_process_input of a character; keys without one, and keys pressed when
\* the buffer is full, change nothing.
CharDown(key) ==
    LET c == scancode_to_ascii(key, "SHIFT_PRESSED" \in keyboard_state)
    IN  /\ ~halted /\ StoreChar(c)
        /\ terminal' = terminal_putchar(terminal, c)
        /\ typed' = Append(typed, c)
        /\ UNCHANGED <<keyboard_state, halted, held>>

\* cmd_halt
Halted == halted /\ UNCHANGED vars

Next ==
    \/ \E key \in Modifiers : ModifierDown(key) \/ ModifierUp(key)
    \/ EnterDown \/ HaltDown \/ BackspaceDown
    \/ \E key \in CharKeys : CharDown(key)
    \/ Halted

Spec == Init /\ [][Next]_vars

----------------------------------------------------------------------------
\* buffer_pos always leaves room for the terminating NUL, and the modifier flags
\* are the two there are.
LineType ==
    /\ input_buffer \in [Slots -> Chars \cup {NUL}]
    /\ buffer_pos \in Slots
    /\ keyboard_state \subseteq {"SHIFT_PRESSED", "CTRL_PRESSED"}
    /\ halted \in BOOLEAN
    /\ held \subseteq Modifiers
    /\ typed \in Seq(Chars)

\* In addition the cursor stays on the screen.
TypeOK == TerminalType /\ LineType

\* Where the words of a line start, and the word that starts at i: the longest run
\* without spaces.
WordStarts(text) ==
    {i \in 1 .. Len(text) : text[i] # Blank /\ (i = 1 \/ text[i - 1] = Blank)}
WordAt(text, i) ==
    LET last == Max({j \in i .. Len(text) : \A k \in i .. j : text[k] # Blank})
    IN  SubSeq(text, i, last)

\* The command that Enter would run has as n-th argument the n-th word of the line
\* the user typed, for at most SHELL_MAX_ARGS - 1 of them: nothing is left of what
\* was erased, of an earlier line or of a key the full buffer refused.
ArgsAreWords ==
    LET starts == WordStarts(typed)
        number(i) == Cardinality({j \in starts : j <= i})
    IN  /\ Len(EnteredArgs) = Min({Cardinality(starts), SHELL_MAX_ARGS - 1})
        /\ \A i \in starts : number(i) < SHELL_MAX_ARGS =>
              EnteredArgs[number(i)] = WordAt(typed, i)

\* Before the cursor, the screen shows the prompt and the line the user typed:
\* a character that shell_backspace removes from the buffer goes off the screen
\* too ("Move cursor back and erase character", shell_backspace in shell.c).
EchoShown ==
    LET line == SHELL_PROMPT \o typed
        cursor == terminal.row * VGA_WIDTH + terminal.column
        start == cursor - Len(line)
        cell(n) == terminal.buffer[n \div VGA_WIDTH][n % VGA_WIDTH]
    IN  ~halted /\ start >= 0 =>
            \A i \in 1 .. Len(line) : cell(start + i - 1) = line[i]

\* Shift is on only while a shift key, or a grey key that sends its code, is down: it
\* is never stuck, in whatever order the keys that share the flag go down and up.
NoStuckShift ==
    "SHIFT_PRESSED" \in keyboard_state => held \cap (ShiftKeys \cup {"grey"}) # {}

=============================================================================
