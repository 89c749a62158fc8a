---------------------------- MODULE ShellInterrupts ----------------------------
(***************************************************************************)
(* The shell of MiniCore-OS from the command enableints on.  The main loop *)
(* goes on polling (Shell), and IRQ1 runs the same keyboard_handler at any *)
(* point of it, on the same line buffer.  The handler in the loop is one   *)
(* action per load or store of the shell's state, with main as its program *)
(* counter and registers.  buffer_pos is read once for a key, as optimised *)
(* code does; of the two stores that follow, to the line and to buffer_pos,*)
(* either may come first.  The handler in the interrupt is one action,     *)
(* built from those of Shell: its gate clears the interrupt flag.  (Unless *)
(* it executes enableints itself: Interrupts has that case.)               *)
(*                                                                         *)
(* What the two routines write to the screen is not followed, for nothing  *)
(* the shell does depends on it: terminal and typed stay as they are.  A   *)
(* command reads its arguments in one step.                                *)
(***************************************************************************)
EXTENDS Shell

\* enableints can be typed.
ASSUME EnableintsFits ==
    \A name \in DOMAIN Commands : Commands[name] = "enableints" =>
        name \in Seq(Chars) /\ Len(name) < SHELL_BUFFER_SIZE

VARIABLE main        \* keyboard_handler in the polling loop

intVars == <<vars, main>>
line == <<input_buffer, buffer_pos>>
screen == <<terminal, typed>>

\* at is the next step, key and c what was read and translated, pos the copy of
\* buffer_pos, i the parser's pointer or the loop counter, argc and name the
\* number of arguments and the first of them.
Idle == [at |-> "poll", key |-> "none", c |-> NUL, pos |-> 0, i |-> 0, argc |-> 0, name |-> 0]

\* cmd_enableints has just executed sti, and its line is still in the buffer.
IntInit ==
    /\ terminal = terminal_clear /\ typed = <<>>
    /\ \E name \in DOMAIN Commands :
          /\ Commands[name] = "enableints"
          /\ input_buffer = [i \in Slots |-> IF i < Len(name) THEN name[i + 1] ELSE NUL]
          /\ buffer_pos = Len(name)
    /\ keyboard_state = {} /\ held = {}
    /\ halted = FALSE
    /\ main = [Idle EXCEPT !.at = "clear"]

----------------------------------------------------------------------------
\* The polling loop, step by step.
Goto(from, to) == ~halted /\ main.at = from /\ main' = [main EXCEPT !.at = to]
Quiet == UNCHANGED <<screen, keyboard_state, halted, held>>

\* The loop has taken a scan code from the keyboard.
Take(key, at) ==
    /\ ~halted /\ main = Idle
    /\ main' = [Idle EXCEPT !.at = at, !.key = key]
    /\ UNCHANGED <<line, screen, keyboard_state, halted>>

TakeKey ==
    \/ \E key \in Modifiers :
          CanPress(key) /\ Take(key, "press") /\ held' = held \cup {key}
    \/ \E key \in held : Take(key, "release") /\ held' = held \ {key}
    \/ \E key \in CharKeys : Take(key, "ascii") /\ UNCHANGED held
    \/ Take("backspace", "back") /\ UNCHANGED held
    \/ Take("enter", "nul") /\ UNCHANGED held

\* The flags change by one instruction.
SetFlag ==
    /\ ~halted /\ main.at \in {"press", "release"}
    /\ keyboard_state' = IF main.at = "press" THEN keyboard_state \cup {flag(main.key)}
                         ELSE keyboard_state \ {flag(main.key)}
    /\ main' = Idle
    /\ UNCHANGED <<line, screen, halted, held>>

\* scancode_to_ascii
Translate ==
    LET c == scancode_to_ascii(main.key, "SHIFT_PRESSED" \in keyboard_state)
    IN  /\ ~halted /\ main.at = "ascii"
        /\ main' = IF c = NUL THEN Idle ELSE [main EXCEPT !.at = "room", !.c = c]
        /\ Quiet /\ UNCHANGED line

\* shell_process_input of a character: buffer_pos is read once, ...
LoadPos ==
    /\ ~halted /\ main.at = "room"
    /\ main' = IF HasRoom THEN [main EXCEPT !.at = "store", !.pos = buffer_pos] ELSE Idle
    /\ Quiet /\ UNCHANGED line

\* One of two stores: the other one, at rest, is still to come, or both are done.
Store(first, second, rest) ==
    /\ ~halted
    /\ \/ main.at = first /\ main' = [main EXCEPT !.at = rest]
       \/ main.at = second /\ main' = Idle
    /\ Quiet

\* Mutant of PutChar: buffer_pos is read again for the store.
PutChar_reload ==
    /\ Store("store", "char", "pos")
    /\ input_buffer' = [input_buffer EXCEPT ![buffer_pos] = main.c]
    /\ UNCHANGED buffer_pos

\* ... the character is stored there, ...
PutChar ==
    /\ Store("store", "char", "pos")
    /\ input_buffer' = [input_buffer EXCEPT ![main.pos] = main.c]
    /\ UNCHANGED buffer_pos

\* Mutant of StorePos: buffer_pos is incremented in memory.
StorePos_reload ==
    /\ Store("store", "pos", "char")
    /\ buffer_pos' = buffer_pos + 1
    /\ UNCHANGED input_buffer

\* ... and so is the position after it.
StorePos ==
    /\ Store("store", "pos", "char")
    /\ buffer_pos' = main.pos + 1
    /\ UNCHANGED input_buffer

\* shell_backspace, likewise.
LoadBack ==
    /\ ~halted /\ main.at = "back"
    /\ main' = IF buffer_pos = 0 THEN Idle
               ELSE [main EXCEPT !.at = "remove", !.pos = buffer_pos - 1]
    /\ Quiet /\ UNCHANGED line

StoreBack ==
    /\ Store("remove", "shorten", "erase")
    /\ buffer_pos' = main.pos
    /\ UNCHANGED input_buffer

EraseBack ==
    /\ Store("remove", "erase", "shorten")
    /\ input_buffer' = [input_buffer EXCEPT ![main.pos] = NUL]
    /\ UNCHANGED buffer_pos

\* shell_process_input('\n'): the NUL that ends the line, ...
LoadEnd ==
    /\ ~halted /\ main.at = "nul"
    /\ main' = [main EXCEPT !.at = "end", !.pos = buffer_pos]
    /\ Quiet /\ UNCHANGED line

StoreEnd ==
    /\ Goto("end", "execute")
    /\ input_buffer' = [input_buffer EXCEPT ![main.pos] = NUL]
    /\ Quiet /\ UNCHANGED buffer_pos

\* ... shell_execute_command, which does nothing for an empty line, ...
Execute ==
    /\ ~halted /\ main.at = "execute"
    /\ main' = [Idle EXCEPT !.at = IF buffer_pos = 0 THEN "clear" ELSE "skip"]
    /\ Quiet /\ UNCHANGED line

\* ... shell_parse_command: the character ch at the pointer starts an argument
\* or ends the list, ...
Argument(ch) ==
    IF ch = NUL \/ main.argc = SHELL_MAX_ARGS - 1 THEN [main EXCEPT !.at = "run"]
    ELSE [main EXCEPT !.at = "word", !.argc = @ + 1,
                      !.name = IF main.argc = 0 THEN main.i ELSE @]

\* Mutant of SkipSpace: the pointer stays on the space.
SkipSpace_stays ==
    /\ ~halted /\ main.at = "skip"
    /\ main' = IF IsSpace(input_buffer[main.i]) THEN main ELSE Argument(input_buffer[main.i])
    /\ Quiet /\ UNCHANGED line

\* ... spaces before it are skipped, ...
SkipSpace ==
    /\ ~halted /\ main.at = "skip"
    /\ main' = IF IsSpace(input_buffer[main.i]) THEN [main EXCEPT !.i = @ + 1]
               ELSE Argument(input_buffer[main.i])
    /\ Quiet /\ UNCHANGED line

\* ... and its end is found, a space being replaced by NUL.  A NUL is read again
\* before it ends the list.
ScanWord ==
    LET ch == input_buffer[main.i]
    IN  /\ ~halted /\ main.at = "word"
        /\ main' = IF ch = NUL THEN [main EXCEPT !.at = "again"]
                   ELSE [main EXCEPT !.i = @ + 1, !.at = IF IsSpace(ch) THEN "skip" ELSE "word"]
        /\ input_buffer' = IF IsSpace(ch) THEN [input_buffer EXCEPT ![main.i] = NUL]
                           ELSE input_buffer
        /\ Quiet /\ UNCHANGED buffer_pos

ReadAgain ==
    /\ ~halted /\ main.at = "again"
    /\ main' = Argument(input_buffer[main.i])
    /\ Quiet /\ UNCHANGED line

\* The string at the first argument, as it is now.
CommandName ==
    LET end == Min({j \in main.name .. SHELL_BUFFER_SIZE - 1 : input_buffer[j] = NUL})
    IN  [k \in 1 .. end - main.name |-> input_buffer[main.name + k - 1]]

\* ... the command: halt executes cli and never returns, enableints leaves
\* interrupts on.
RunCommand ==
    LET kind == IF main.argc = 0 THEN "none" ELSE Kind(CommandName)
    IN  /\ ~halted /\ main.at = "run"
        /\ main' = [Idle EXCEPT !.at = "clear"]
        /\ halted' = (kind = "halt")
        /\ UNCHANGED <<line, screen, keyboard_state, held>>

\* ... and shell_clear_buffer: one place after the other, then the position.
ClearPlace ==
    /\ ~halted /\ main.at = "clear"
    /\ \/ /\ main.i \in Slots
          /\ input_buffer' = [input_buffer EXCEPT ![main.i] = NUL]
          /\ main' = [main EXCEPT !.i = @ + 1]
          /\ UNCHANGED buffer_pos
       \/ /\ main.i = SHELL_BUFFER_SIZE
          /\ buffer_pos' = 0
          /\ main' = Idle
          /\ UNCHANGED input_buffer
    /\ Quiet

MainStep ==
    \/ SetFlag \/ Translate \/ LoadPos \/ PutChar \/ StorePos
    \/ LoadBack \/ StoreBack \/ EraseBack
    \/ LoadEnd \/ StoreEnd \/ Execute \/ SkipSpace \/ ScanWord \/ ReadAgain
    \/ RunCommand \/ ClearPlace

----------------------------------------------------------------------------
Enables == EnteredArgs # <<>> /\ Kind(EnteredArgs[1]) = "enableints"

\* IRQ1: keyboard_handler as a whole, between any two steps of the loop.
IrqKey ==
    /\ ~halted
    /\ \/ \E key \in Modifiers : ModifierDown(key) \/ ModifierUp(key)
       \/ /\ \/ \E key \in CharKeys :
                   StoreChar(scancode_to_ascii(key, "SHIFT_PRESSED" \in keyboard_state))
             \/ EraseChar
             \/ ~Halts /\ ~Enables /\ shell_clear_buffer
          /\ UNCHANGED <<screen, keyboard_state, halted, held>>
       \/ /\ Halts /\ halted' = TRUE
          /\ UNCHANGED <<line, screen, keyboard_state, held>>
    /\ UNCHANGED main

IntNext ==
    \/ TakeKey \/ MainStep
    \/ IrqKey
    \/ Halted /\ UNCHANGED main

\* Between interrupts the processor goes on with the loop.
IntSpec == IntInit /\ [][IntNext]_intVars /\ WF_intVars(MainStep)

----------------------------------------------------------------------------
\* Whichever of the two handlers writes buffer_pos last, it leaves room for the
\* NUL that Enter stores; and the parser in the loop never leaves the buffer,
\* although IRQ1 may change, clear or refill the line between any two characters
\* it reads.
IntTypeOK ==
    /\ TypeOK
    /\ main.pos \in Slots /\ main.c \in Chars \cup {NUL}
    /\ main.argc \in 0 .. SHELL_MAX_ARGS - 1 /\ main.name \in Slots
    /\ main.at \in {"skip", "word", "again"} => main.i \in Slots

\* However the two handlers interleave, the last place of the buffer holds NUL:
\* shell_parse_command and the commands, which stop only at a NUL, find one.
BufferEnds == input_buffer[SHELL_BUFFER_SIZE - 1] = NUL

\* The handler in the loop returns: the parser reaches the end of a line that
\* goes on changing under it, unless the machine is halted.
HandlerReturns == main.at # "poll" ~> main.at = "poll" \/ halted
=============================================================================
