------------------------------ MODULE ShellProofs ------------------------------
(***************************************************************************)
(* What is proved of the shell's line editor, alone and interrupted by     *)
(* itself, for every size of the line buffer, every number of arguments    *)
(* and every keyboard table.                                               *)
(***************************************************************************)
EXTENDS ShellInterrupts, TerminalProofs, FiniteSetTheorems, WellFoundedInduction

Flags == {"SHIFT_PRESSED", "CTRL_PRESSED"}
Text == Chars \cup {NUL}

LEMMA BufferFacts ==
    /\ SHELL_BUFFER_SIZE \in Nat /\ SHELL_BUFFER_SIZE >= 1
    /\ 0 \in Slots /\ SHELL_BUFFER_SIZE - 1 \in Slots
    /\ \A i \in Slots : i \in Nat /\ (i # SHELL_BUFFER_SIZE - 1 => i + 1 \in Slots)
    /\ \A i \in Slots : i # 0 => i - 1 \in Slots
    /\ NUL \in Text /\ NUL \notin Chars /\ Blank # NUL
  BY ShellConstants DEF Slots, Text, Chars

LEMMA EmptyFacts ==
    /\ EmptyBuffer \in [Slots -> Text]
    /\ EmptyBuffer[SHELL_BUFFER_SIZE - 1] = NUL
  BY BufferFacts DEF EmptyBuffer, Text

LEMMA AsciiFacts ==
    ASSUME NEW key \in CharKeys, NEW shift
    PROVE  scancode_to_ascii(key, shift) \in Text
  BY ShellConstants DEF scancode_to_ascii, Text

----------------------------------------------------------------------------
\* What the parts of keyboard_handler do to the line, in the loop and in IRQ1.

\* The line is well-formed: there is room for the NUL, and the last place has one.
LineInv ==
    /\ input_buffer \in [Slots -> Text] /\ buffer_pos \in Slots
    /\ BufferEnds

\* One place of the buffer gets x, which is NUL if it is the last.
LEMMA PlaceStored ==
    ASSUME input_buffer \in [Slots -> Text], BufferEnds,
           NEW i \in Slots, NEW x \in Text, i # SHELL_BUFFER_SIZE - 1 \/ x = NUL,
           input_buffer' = [input_buffer EXCEPT ![i] = x]
    PROVE  input_buffer' \in [Slots -> Text] /\ BufferEnds'
  BY BufferFacts DEF BufferEnds

LEMMA StoreCharLine ==
    ASSUME LineInv, NEW c \in Text, StoreChar(c)
    PROVE  LineInv'
  <1>1. buffer_pos \in Slots /\ buffer_pos # SHELL_BUFFER_SIZE - 1
    BY BufferFacts DEF LineInv, StoreChar, HasRoom
  <1>2. buffer_pos' \in Slots
    BY <1>1, BufferFacts DEF StoreChar
  <1>3. input_buffer' \in [Slots -> Text] /\ BufferEnds'
    BY <1>1, PlaceStored DEF LineInv, StoreChar
  <1> QED BY <1>2, <1>3 DEF LineInv

LEMMA EraseCharLine ==
    ASSUME LineInv, EraseChar
    PROVE  LineInv'
  <1>1. buffer_pos \in Slots /\ buffer_pos - 1 \in Slots
    BY BufferFacts DEF LineInv, EraseChar
  <1>2. input_buffer' \in [Slots -> Text] /\ BufferEnds'
    BY <1>1, BufferFacts, PlaceStored DEF LineInv, EraseChar
  <1> QED BY <1>1, <1>2 DEF LineInv, EraseChar

LEMMA ClearLine ==
    ASSUME shell_clear_buffer
    PROVE  LineInv'
  BY EmptyFacts, BufferFacts DEF shell_clear_buffer, LineInv, BufferEnds

LEMMA LineStays ==
    ASSUME LineInv, UNCHANGED <<input_buffer, buffer_pos>>
    PROVE  LineInv'
  BY DEF LineInv, BufferEnds

\* The modifier keys and their flags.
KeysType == keyboard_state \subseteq Flags /\ held \subseteq Modifiers

LEMMA FlagIn == \A key : flag(key) \in Flags
  BY DEF flag, Flags

----------------------------------------------------------------------------
\* The shell in polling mode.

PollInv == LineInv /\ KeysType /\ halted \in BOOLEAN /\ typed \in Seq(Chars) /\ NoStuckShift

\* A key that is released has its flag cleared, and a flag that is left belongs
\* to a key that is still down.
LEMMA ModifierStep ==
    ASSUME KeysType, NoStuckShift, NEW key \in Modifiers, ModifierDown(key) \/ ModifierUp(key)
    PROVE  KeysType' /\ NoStuckShift'
  <1>1. CASE ModifierDown(key)
    BY <1>1, FlagIn, ShellConstants
    DEF KeysType, NoStuckShift, ModifierDown, flag, ModifierKeys, ShiftKeys
  <1>2. CASE ModifierUp(key)
    <2>1. KeysType'
      BY <1>2 DEF KeysType, ModifierUp
    <2>2. NoStuckShift'
      BY <1>2, ShellConstants
      DEF KeysType, NoStuckShift, ModifierUp, flag, ModifierKeys, ShiftKeys
    <2> QED BY <2>1, <2>2
  <1> QED BY <1>1, <1>2

LEMMA PollStep == PollInv /\ [Next]_vars => PollInv'
  <1> SUFFICES ASSUME PollInv, [Next]_vars PROVE PollInv'
    OBVIOUS
  <1> USE DEF PollInv
  <1>a. ASSUME UNCHANGED <<keyboard_state, held>> PROVE KeysType' /\ NoStuckShift'
    BY <1>a DEF KeysType, NoStuckShift
  <1>1. ASSUME NEW key \in Modifiers, ModifierDown(key) \/ ModifierUp(key) PROVE PollInv'
    <2>1. UNCHANGED <<input_buffer, buffer_pos, halted, typed>>
      BY <1>1 DEF ModifierDown, ModifierUp
    <2> QED BY <1>1, <2>1, ModifierStep, LineStays
  <1>2. CASE EnterDown
    BY <1>2, <1>a, ClearLine DEF EnterDown
  <1>3. CASE HaltDown
    BY <1>3, <1>a, LineStays DEF HaltDown
  <1>4. CASE BackspaceDown
    <2>1. typed' \in Seq(Chars)
      <3>1. Len(typed) - 1 \in Int /\ Len(typed) \in Nat
        OBVIOUS
      <3>2. SubSeq(typed, 1, Len(typed) - 1) \in Seq(Chars)
        BY <3>1
      <3> QED BY <1>4, <3>2 DEF BackspaceDown
    <2> QED BY <1>4, <2>1, <1>a, EraseCharLine DEF BackspaceDown
  <1>5. ASSUME NEW key \in CharKeys, CharDown(key) PROVE PollInv'
    <2> DEFINE c == scancode_to_ascii(key, "SHIFT_PRESSED" \in keyboard_state)
    <2>1. c \in Text /\ StoreChar(c)
      BY <1>5, AsciiFacts DEF CharDown
    <2>2. c \in Chars
      BY <2>1 DEF StoreChar, Text
    <2>3. typed' \in Seq(Chars)
      BY <1>5, <2>2 DEF CharDown
    <2>4. LineInv'
      BY <2>1, StoreCharLine
    <2> QED BY <1>5, <2>3, <2>4, <1>a DEF CharDown
  <1>6. CASE UNCHANGED vars
    BY <1>6, <1>a, LineStays DEF vars
  <1> QED BY <1>1, <1>2, <1>3, <1>4, <1>5, <1>6 DEF Next, Halted

LEMMA PollStart == Init => PollInv
  <1> SUFFICES ASSUME Init PROVE PollInv
    OBVIOUS
  <1>1. LineInv
    BY EmptyFacts, BufferFacts DEF Init, LineInv, BufferEnds
  <1>2. halted \in BOOLEAN
    BY DEF Init
  <1>3. typed \in Seq(Chars)
    BY DEF Init
  <1> QED BY <1>1, <1>2, <1>3 DEF Init, PollInv, KeysType, NoStuckShift

\* Whatever is typed, the line stays inside its buffer, with room for the NUL
\* that Enter stores.
THEOREM LineSafe == Spec => [](LineType /\ BufferEnds)
  <1>1. PollInv => LineType /\ BufferEnds
    BY DEF PollInv, LineInv, KeysType, LineType, Text, Flags
  <1> QED BY <1>1, PollStart, PollStep, PTL DEF Spec

\* Shift is never on without a shift key, or a grey key that sends its code, being
\* down, in whatever order the keys go down and up.
THEOREM ShiftReleased == Spec => []NoStuckShift
  <1>1. PollInv => NoStuckShift
    BY DEF PollInv
  <1> QED BY <1>1, PollStart, PollStep, PTL DEF Spec

----------------------------------------------------------------------------
\* The polling loop interrupted by IRQ1.

Steps == {"poll", "press", "release", "ascii", "room", "store", "pos", "char", "back",
          "remove", "erase", "shorten", "nul", "end", "execute", "skip", "word", "again", "run", "clear"}
MainType ==
    [at : Steps, key : CharKeys \cup Modifiers \cup {"none", "backspace", "enter"},
     c : Text, pos : Slots, i : 0 .. SHELL_BUFFER_SIZE, argc : 0 .. SHELL_MAX_ARGS - 1,
     name : Slots]

\* What the handler in the loop relies on in its registers: a position with room
\* for a character has room until it is used, whatever IRQ1 does to buffer_pos, and
\* the parser's pointer is in the buffer.
MainInv ==
    /\ main \in MainType
    /\ main.at = "ascii" => main.key \in CharKeys
    /\ main.at \in {"store", "pos", "char"} => main.pos # SHELL_BUFFER_SIZE - 1
    /\ main.at \in {"skip", "word", "again"} => main.i \in Slots

IntInv ==
    /\ LineInv /\ KeysType /\ MainInv
    /\ halted \in BOOLEAN
    /\ terminal = terminal_clear /\ typed = <<>>

LEMMA IdleFacts ==
    /\ Idle \in MainType /\ Idle.at = "poll" /\ Idle.i = 0
    /\ \A step \in Steps, key \in CharKeys \cup Modifiers \cup {"none", "backspace", "enter"} :
          [Idle EXCEPT !.at = step, !.key = key] \in MainType
    /\ \A step \in Steps : [Idle EXCEPT !.at = step] \in MainType
  <1>1. 0 \in 0 .. SHELL_MAX_ARGS - 1 /\ 0 \in 0 .. SHELL_BUFFER_SIZE /\ 0 \in Slots
    BY ShellConstants, BufferFacts
  <1>2. NUL \in Text /\ "poll" \in Steps
    BY DEF Text, Steps
  <1> QED BY <1>1, <1>2 DEF Idle, MainType

\* Taking a modifier key down or up.
LEMMA ModifierTypes ==
    ASSUME KeysType, NEW key \in Modifiers, ModifierDown(key) \/ ModifierUp(key)
    PROVE  KeysType'
  BY FlagIn DEF KeysType, ModifierDown, ModifierUp

\* The handler in the interrupt does not touch the registers of the loop.
LEMMA IrqStep ==
    ASSUME IntInv, IrqKey
    PROVE  IntInv'
  <1> USE DEF IntInv
  <1>a. MainInv'
    BY DEF IrqKey, MainInv
  <1>1. ASSUME NEW key \in Modifiers, ModifierDown(key) \/ ModifierUp(key) PROVE IntInv'
    <2>1. UNCHANGED <<terminal, input_buffer, buffer_pos, halted, typed>>
      BY <1>1 DEF ModifierDown, ModifierUp
    <2> QED BY <1>1, <1>a, <2>1, ModifierTypes, LineStays
  <1>b. ASSUME UNCHANGED <<screen, keyboard_state, held>>
        PROVE  KeysType' /\ terminal' = terminal_clear /\ typed' = <<>>
    BY <1>b DEF KeysType, screen
  <1>2. ASSUME NEW key \in CharKeys,
               StoreChar(scancode_to_ascii(key, "SHIFT_PRESSED" \in keyboard_state))
        PROVE  LineInv'
    BY <1>2, AsciiFacts, StoreCharLine
  <1>3. CASE /\ \/ \E key \in CharKeys :
                      StoreChar(scancode_to_ascii(key, "SHIFT_PRESSED" \in keyboard_state))
                \/ EraseChar
                \/ ~Halts /\ ~Enables /\ shell_clear_buffer
             /\ UNCHANGED <<screen, keyboard_state, halted, held>>
    <2>1. LineInv'
      BY <1>2, <1>3, EraseCharLine, ClearLine
    <2> QED BY <1>3, <1>a, <1>b, <2>1
  <1>4. CASE /\ Halts /\ halted' = TRUE
             /\ UNCHANGED <<line, screen, keyboard_state, held>>
    <2>1. LineInv'
      BY <1>4, LineStays DEF line
    <2>2. halted' \in BOOLEAN
      BY <1>4
    <2> QED BY <1>4, <1>a, <1>b, <2>1, <2>2
  <1> QED BY <1>1, <1>3, <1>4 DEF IrqKey

\* A step of the loop that leaves the screen and the modifier keys alone.
LEMMA QuietStep ==
    ASSUME IntInv, Quiet, LineInv', MainInv'
    PROVE  IntInv'
  BY DEF IntInv, Quiet, KeysType, screen

LEMMA TakeKeyStep ==
    ASSUME IntInv, TakeKey
    PROVE  IntInv'
  <1> USE DEF IntInv
  <1>1. ASSUME NEW key \in CharKeys \cup Modifiers \cup {"none", "backspace", "enter"},
               NEW step \in {"press", "release", "ascii", "back", "nul"},
               step = "ascii" => key \in CharKeys,
               Take(key, step), held' \subseteq Modifiers
        PROVE  IntInv'
    <2>1. step \in Steps
      BY DEF Steps
    <2>2. main' = [Idle EXCEPT !.at = step, !.key = key] /\ main' \in MainType
      BY <1>1, <2>1, IdleFacts DEF Take
    <2>3. main'.at = step /\ main'.key = key
      BY <2>2 DEF Idle
    <2>4. MainInv'
      BY <1>1, <2>2, <2>3 DEF MainInv
    <2>5. LineInv'
      BY <1>1, LineStays DEF Take, line
    <2>6. KeysType' /\ terminal' = terminal_clear /\ typed' = <<>> /\ halted' = halted
      BY <1>1 DEF KeysType, Take, screen
    <2> QED BY <2>4, <2>5, <2>6
  <1>2. ASSUME NEW key \in Modifiers, Take(key, "press"), held' = held \cup {key}
        PROVE  IntInv'
    BY <1>1, <1>2 DEF KeysType
  <1>3. ASSUME NEW key \in held, Take(key, "release"), held' = held \ {key}
        PROVE  IntInv'
    BY <1>1, <1>3 DEF KeysType
  <1>4. ASSUME NEW key \in CharKeys, Take(key, "ascii"), UNCHANGED held
        PROVE  IntInv'
    BY <1>1, <1>4 DEF KeysType
  <1>5. ASSUME Take("backspace", "back") \/ Take("enter", "nul"), UNCHANGED held
        PROVE  IntInv'
    BY <1>1, <1>5 DEF KeysType
  <1> QED BY <1>2, <1>3, <1>4, <1>5 DEF TakeKey

\* The loop has returned to the keyboard.
LEMMA IdleInv == ASSUME main' = Idle PROVE MainInv'
  BY IdleFacts DEF MainInv

LEMMA GotoIn ==
    ASSUME MainInv, Goto("end", "execute")
    PROVE  MainInv'
  BY DEF MainInv, MainType, Goto, Steps

\* Of two stores the second keeps the registers of the first.
LEMMA StoreIn ==
    ASSUME MainInv, NEW first, NEW second, NEW rest, Store(first, second, rest),
           <<first, second, rest>> \in
               {<<"store", "char", "pos">>, <<"store", "pos", "char">>,
                <<"remove", "shorten", "erase">>, <<"remove", "erase", "shorten">>}
    PROVE  /\ MainInv' /\ main.pos \in Slots /\ main.c \in Text /\ Quiet
           /\ first = "store" => main.pos # SHELL_BUFFER_SIZE - 1
  <1>1. /\ first \in {"store", "remove"} /\ rest \in Steps
        /\ rest \notin {"ascii", "skip", "word", "again"}
        /\ first = "store" => second \in {"pos", "char"}
        /\ rest \in {"store", "pos", "char"} => first = "store"
    BY DEF Steps
  <1>2. main.pos \in Slots /\ main.c \in Text /\ Quiet
    BY DEF MainInv, MainType, Store
  <1>3. first = "store" => main.pos # SHELL_BUFFER_SIZE - 1
    BY <1>1 DEF MainInv, Store
  <1>4. CASE main.at = first /\ main' = [main EXCEPT !.at = rest]
    <2>1. main' \in MainType /\ main'.at = rest /\ main'.pos = main.pos
      BY <1>1, <1>4 DEF MainInv, MainType
    <2> QED BY <1>1, <1>2, <1>3, <2>1 DEF MainInv
  <1>5. CASE main' = Idle
    BY <1>2, <1>3, <1>5, IdleInv
  <1> QED BY <1>4, <1>5 DEF Store

LEMMA EditStep ==
    ASSUME IntInv,
           SetFlag \/ Translate \/ LoadPos \/ PutChar \/ StorePos \/ LoadBack \/ EraseBack
             \/ StoreBack
    PROVE  IntInv'
  <1> USE DEF IntInv
  <1>a. ASSUME UNCHANGED line PROVE LineInv'
    BY <1>a, LineStays DEF line
  <1>1. CASE SetFlag
    <2>1. KeysType'
      BY <1>1, FlagIn DEF SetFlag, KeysType
    <2>2. MainInv' /\ LineInv'
      BY <1>1, <1>a, IdleInv DEF SetFlag
    <2> QED BY <1>1, <2>1, <2>2 DEF SetFlag, screen
  <1>2. CASE Translate
    <2> DEFINE c == scancode_to_ascii(main.key, "SHIFT_PRESSED" \in keyboard_state)
    <2>1. c \in Text
      BY <1>2, AsciiFacts DEF Translate, MainInv
    <2>2. main' = Idle \/ main' = [main EXCEPT !.at = "room", !.c = c]
      BY <1>2 DEF Translate
    <2> HIDE DEF c
    <2>3. MainInv'
      BY <2>1, <2>2, IdleInv DEF MainInv, MainType, Steps
    <2> QED BY <1>2, <1>a, <2>3, QuietStep DEF Translate
  <1>3. CASE LoadPos
    <2>1. HasRoom => buffer_pos \in Slots /\ buffer_pos # SHELL_BUFFER_SIZE - 1
      BY BufferFacts DEF HasRoom, LineInv
    <2>2. main' = Idle \/ (HasRoom /\ main' = [main EXCEPT !.at = "store", !.pos = buffer_pos])
      BY <1>3 DEF LoadPos
    <2>3. MainInv'
      BY <2>1, <2>2, IdleInv DEF MainInv, MainType, Steps
    <2> QED BY <1>3, <1>a, <2>3, QuietStep DEF LoadPos
  <1>4. CASE PutChar
    <2>1. /\ MainInv' /\ Quiet /\ main.pos \in Slots /\ main.c \in Text
          /\ main.pos # SHELL_BUFFER_SIZE - 1
      BY <1>4, StoreIn DEF PutChar
    <2>2. LineInv'
      BY <1>4, <2>1, PlaceStored DEF PutChar, LineInv
    <2> QED BY <2>1, <2>2, QuietStep
  <1>5. CASE StorePos
    <2>1. /\ MainInv' /\ Quiet /\ main.pos \in Slots
          /\ main.pos # SHELL_BUFFER_SIZE - 1
      BY <1>5, StoreIn DEF StorePos
    <2>2. buffer_pos' \in Slots /\ UNCHANGED input_buffer
      BY <1>5, <2>1, BufferFacts DEF StorePos
    <2>3. LineInv'
      BY <2>2 DEF LineInv, BufferEnds
    <2> QED BY <2>1, <2>3, QuietStep
  <1>6. CASE LoadBack
    <2>1. buffer_pos # 0 => buffer_pos - 1 \in Slots
      BY BufferFacts DEF LineInv
    <2>2. \/ main' = Idle
          \/ buffer_pos # 0 /\ main' = [main EXCEPT !.at = "remove", !.pos = buffer_pos - 1]
      BY <1>6 DEF LoadBack
    <2>3. MainInv'
      BY <2>1, <2>2, IdleInv DEF MainInv, MainType, Steps
    <2> QED BY <1>6, <1>a, <2>3, QuietStep DEF LoadBack
  <1>7. CASE EraseBack
    <2>1. MainInv' /\ Quiet /\ main.pos \in Slots
      BY <1>7, StoreIn DEF EraseBack
    <2>2. LineInv'
      BY <1>7, <2>1, PlaceStored, BufferFacts DEF EraseBack, LineInv
    <2> QED BY <2>1, <2>2, QuietStep
  <1>8. CASE StoreBack
    <2>1. MainInv' /\ Quiet /\ main.pos \in Slots
      BY <1>8, StoreIn DEF StoreBack
    <2>2. LineInv'
      BY <1>8, <2>1 DEF StoreBack, LineInv, BufferEnds
    <2> QED BY <2>1, <2>2, QuietStep
  <1> QED BY <1>1, <1>2, <1>3, <1>4, <1>5, <1>6, <1>7, <1>8

\* The parser's pointer moves on only from a place that does not hold NUL, which
\* is never the last one: it stays in the buffer although IRQ1 changes the line.
LEMMA PointerMoves ==
    ASSUME LineInv, NEW i \in Slots, input_buffer[i] # NUL
    PROVE  i + 1 \in Slots /\ i + 1 \in 0 .. SHELL_BUFFER_SIZE
  <1>1. i # SHELL_BUFFER_SIZE - 1
    BY DEF LineInv, BufferEnds
  <1>2. i + 1 \in Slots
    BY <1>1, BufferFacts
  <1> QED BY <1>2, BufferFacts DEF Slots

LEMMA ArgumentIn ==
    ASSUME MainInv, main.at \in {"skip", "again"}, NEW ch, main' = Argument(ch)
    PROVE  MainInv'
  <1>1. main \in MainType /\ main.i \in Slots
    BY DEF MainInv
  <1>2. CASE ch = NUL \/ main.argc = SHELL_MAX_ARGS - 1
    BY <1>1, <1>2 DEF Argument, MainInv, MainType, Steps
  <1>3. CASE ~(ch = NUL \/ main.argc = SHELL_MAX_ARGS - 1)
    <2> DEFINE n == IF main.argc = 0 THEN main.i ELSE main.name
    <2>1. n \in Slots /\ main.argc + 1 \in 0 .. SHELL_MAX_ARGS - 1
      BY <1>1, <1>3, ShellConstants DEF MainType
    <2>2. main' = [main EXCEPT !.at = "word", !.argc = main.argc + 1, !.name = n]
      BY <1>1, <1>3 DEF Argument, MainType
    <2> HIDE DEF n
    <2> QED BY <1>1, <2>1, <2>2 DEF MainInv, MainType, Steps
  <1> QED BY <1>2, <1>3

LEMMA ParseStep ==
    ASSUME IntInv, SkipSpace \/ ScanWord \/ ReadAgain
    PROVE  IntInv'
  <1> USE DEF IntInv
  <1> DEFINE ch == input_buffer[main.i]
  <1>a. ASSUME UNCHANGED line PROVE LineInv'
    BY <1>a, LineStays DEF line
  <1>b. IsSpace(ch) => ch # NUL
    BY BufferFacts DEF IsSpace
  <1>1. CASE SkipSpace
    <2>1. main.i \in Slots /\ main.at = "skip"
      BY <1>1 DEF SkipSpace, MainInv
    <2>2. CASE IsSpace(ch)
      <3>1. main.i + 1 \in Slots /\ main.i + 1 \in 0 .. SHELL_BUFFER_SIZE
        BY <1>b, <2>1, <2>2, PointerMoves
      <3>2. main' = [main EXCEPT !.i = main.i + 1]
        BY <1>1, <2>2 DEF SkipSpace
      <3>3. MainInv'
        BY <2>1, <3>1, <3>2 DEF MainInv, MainType
      <3> QED BY <1>1, <1>a, <3>3, QuietStep DEF SkipSpace
    <2>3. CASE ~IsSpace(ch)
      <3>1. MainInv'
        BY <1>1, <2>1, <2>3, ArgumentIn DEF SkipSpace
      <3> QED BY <1>1, <1>a, <3>1, QuietStep DEF SkipSpace
    <2> QED BY <2>2, <2>3
  <1>2. CASE ScanWord
    <2>1. main.i \in Slots /\ main.at = "word"
      BY <1>2 DEF ScanWord, MainInv
    <2>2. MainInv'
      <3>1. CASE ch = NUL
        <4>1. main' = [main EXCEPT !.at = "again"]
          BY <1>2, <3>1 DEF ScanWord
        <4> QED BY <2>1, <4>1 DEF MainInv, MainType, Steps
      <3>2. CASE ch # NUL
        <4>1. main.i + 1 \in Slots /\ main.i + 1 \in 0 .. SHELL_BUFFER_SIZE
          BY <2>1, <3>2, PointerMoves
        <4>2. PICK step \in {"skip", "word"} : main' = [main EXCEPT !.i = main.i + 1, !.at = step]
          BY <1>2, <3>2 DEF ScanWord
        <4> QED BY <4>1, <4>2 DEF MainInv, MainType, Steps
      <3> QED BY <3>1, <3>2
    <2>3. LineInv'
      <3>1. CASE IsSpace(ch)
        <4>1. input_buffer' = [input_buffer EXCEPT ![main.i] = NUL]
          BY <1>2, <3>1 DEF ScanWord
        <4> QED BY <1>2, <2>1, <4>1, PlaceStored, BufferFacts DEF LineInv, ScanWord
      <3>2. CASE ~IsSpace(ch)
        BY <1>2, <3>2, LineStays DEF ScanWord
      <3> QED BY <3>1, <3>2
    <2> QED BY <1>2, <2>2, <2>3, QuietStep DEF ScanWord
  <1>3. CASE ReadAgain
    <2>1. MainInv'
      BY <1>3, ArgumentIn DEF ReadAgain
    <2> QED BY <1>3, <1>a, <2>1, QuietStep DEF ReadAgain
  <1> QED BY <1>1, <1>2, <1>3

LEMMA EnterStep ==
    ASSUME IntInv, LoadEnd \/ StoreEnd \/ Execute \/ RunCommand \/ ClearPlace
    PROVE  IntInv'
  <1> USE DEF IntInv
  <1>a. ASSUME UNCHANGED line PROVE LineInv'
    BY <1>a, LineStays DEF line
  <1>1. CASE LoadEnd
    <2>1. MainInv'
      BY <1>1 DEF LoadEnd, LineInv, MainInv, MainType, Steps
    <2> QED BY <1>1, <1>a, <2>1, QuietStep DEF LoadEnd
  <1>2. CASE StoreEnd
    <2>1. MainInv' /\ main.pos \in Slots
      BY <1>2, GotoIn DEF StoreEnd, Steps, MainInv, MainType
    <2>2. LineInv'
      BY <1>2, <2>1, PlaceStored, BufferFacts DEF StoreEnd, LineInv
    <2> QED BY <1>2, <2>1, <2>2, QuietStep DEF StoreEnd
  <1>3. CASE Execute
    <2>1. PICK step \in {"clear", "skip"} : main' = [Idle EXCEPT !.at = step]
      BY <1>3 DEF Execute
    <2>2. step \in Steps
      BY DEF Steps
    <2>3. main' \in MainType /\ main'.at = step /\ main'.i = 0
      BY <2>1, <2>2, IdleFacts DEF Idle
    <2>4. MainInv'
      BY <2>3, BufferFacts DEF MainInv
    <2> QED BY <1>3, <1>a, <2>4, QuietStep DEF Execute
  <1>4. CASE RunCommand
    <2>1. main' = [Idle EXCEPT !.at = "clear"] /\ "clear" \in Steps
      BY <1>4 DEF RunCommand, Steps
    <2>2. main' \in MainType /\ main'.at = "clear"
      BY <2>1, IdleFacts DEF Idle
    <2>3. MainInv'
      BY <2>2 DEF MainInv
    <2>4. halted' \in BOOLEAN /\ UNCHANGED <<line, screen, keyboard_state, held>>
      BY <1>4 DEF RunCommand
    <2> QED BY <1>a, <2>3, <2>4 DEF KeysType, screen
  <1>5. CASE ClearPlace
    <2>1. CASE main.i \in Slots /\ input_buffer' = [input_buffer EXCEPT ![main.i] = NUL]
                 /\ main' = [main EXCEPT !.i = @ + 1] /\ UNCHANGED buffer_pos
      <3>1. main.i + 1 \in 0 .. SHELL_BUFFER_SIZE
        BY <2>1, BufferFacts DEF Slots
      <3>2. MainInv'
        BY <1>5, <2>1, <3>1 DEF ClearPlace, MainInv, MainType
      <3>3. LineInv'
        BY <2>1, PlaceStored, BufferFacts DEF LineInv
      <3> QED BY <1>5, <3>2, <3>3, QuietStep DEF ClearPlace
    <2>2. CASE buffer_pos' = 0 /\ main' = Idle /\ UNCHANGED input_buffer
      <3>1. MainInv'
        BY <2>2, IdleInv
      <3>2. LineInv'
        BY <2>2, BufferFacts DEF LineInv, BufferEnds
      <3> QED BY <1>5, <3>1, <3>2, QuietStep DEF ClearPlace
    <2> QED BY <1>5, <2>1, <2>2 DEF ClearPlace
  <1> QED BY <1>1, <1>2, <1>3, <1>4, <1>5

LEMMA IntStart == IntInit => IntInv
  <1> SUFFICES ASSUME IntInit PROVE IntInv
    OBVIOUS
  <1>1. PICK name \in DOMAIN Commands :
            /\ Commands[name] = "enableints"
            /\ input_buffer = [i \in Slots |-> IF i < Len(name) THEN name[i + 1] ELSE NUL]
            /\ buffer_pos = Len(name)
    BY DEF IntInit
  <1>2. name \in Seq(Chars) /\ Len(name) < SHELL_BUFFER_SIZE
    BY <1>1, EnableintsFits
  <1>3. LineInv
    <2>1. buffer_pos \in Slots
      BY <1>1, <1>2, BufferFacts DEF Slots
    <2>2. \A i \in Slots : i < Len(name) => name[i + 1] \in Chars
      BY <1>2 DEF Slots
    <2>3. input_buffer \in [Slots -> Text]
      BY <1>1, <2>2 DEF Text
    <2>4. BufferEnds
      <3>1. Len(name) \in Nat
        BY <1>2
      <3>2. ~(SHELL_BUFFER_SIZE - 1 < Len(name))
        BY <1>2, <3>1, BufferFacts
      <3> QED BY <1>1, <3>2, BufferFacts DEF BufferEnds
    <2> QED BY <2>1, <2>3, <2>4 DEF LineInv
  <1>4. MainInv
    <2>1. main = [Idle EXCEPT !.at = "clear"] /\ "clear" \in Steps
      BY DEF IntInit, Steps
    <2>2. main \in MainType /\ main.at = "clear"
      BY <2>1, IdleFacts DEF Idle
    <2> QED BY <2>2 DEF MainInv
  <1>5. halted \in BOOLEAN
    BY DEF IntInit
  <1> QED BY <1>3, <1>4, <1>5 DEF IntInit, IntInv, KeysType

LEMMA IntStep == IntInv /\ [IntNext]_intVars => IntInv'
  <1> SUFFICES ASSUME IntInv, [IntNext]_intVars PROVE IntInv'
    OBVIOUS
  <1>1. ASSUME UNCHANGED vars, UNCHANGED main PROVE IntInv'
    <2>1. LineInv' /\ KeysType' /\ MainInv'
      BY <1>1, LineStays DEF vars, IntInv, KeysType, MainInv
    <2> QED BY <1>1, <2>1 DEF vars, IntInv
  <1>2. CASE MainStep
    BY <1>2, EditStep, ParseStep, EnterStep DEF MainStep
  <1> QED
    BY <1>1, <1>2, TakeKeyStep, IrqStep DEF IntNext, intVars, Halted

LEMMA IntAlways == IntSpec => []IntInv
  BY IntStart, IntStep, PTL DEF IntSpec

\* However IRQ1 and the loop interleave on the line buffer, positions leave room
\* for the NUL and the parser never leaves the buffer.
THEOREM ParserStaysInside == IntSpec => []IntTypeOK
  <1>1. IntInv => IntTypeOK
    <2> SUFFICES ASSUME IntInv PROVE IntTypeOK
      OBVIOUS
    <2> USE DEF IntInv
    <2>1. TerminalType
      BY ClearFacts DEF TerminalType, Screen
    <2>2. LineType
      <3>1. typed \in Seq(Chars)
        OBVIOUS
      <3> QED BY <3>1 DEF LineType, LineInv, KeysType, Text, Flags
    <2>3. /\ main.pos \in Slots /\ main.c \in Chars \cup {NUL}
          /\ main.argc \in 0 .. SHELL_MAX_ARGS - 1 /\ main.name \in Slots
          /\ main.at \in {"skip", "word", "again"} => main.i \in Slots
      BY DEF MainInv, MainType, Text
    <2> QED BY <2>1, <2>2, <2>3 DEF IntTypeOK, TypeOK
  <1> QED BY <1>1, IntAlways, PTL

\* The last place of the line buffer holds NUL at every step of both handlers.
THEOREM AlwaysTerminated == IntSpec => []BufferEnds
  <1>1. IntInv => BufferEnds
    BY DEF IntInv, LineInv
  <1> QED BY <1>1, IntAlways, PTL


----------------------------------------------------------------------------
\* Induction.  The loops of the shell are recursive functions; what they compute
\* is shown with a set of numbers in the place of the induction hypothesis.

LEMMA LeastNumber ==
    ASSUME NEW T, T \subseteq Nat, T # {}
    PROVE  \E x \in T : \A y \in T : x <= y
  <1>1. PICK x \in T : \A y \in T : ~(<<y, x>> \in OpToRel(<, Nat))
    BY NatLessThanWellFounded, WFMin, Zenon
  <1>2. ASSUME NEW y \in T PROVE x <= y
    <2>1. x \in Nat /\ y \in Nat
      OBVIOUS
    <2>2. ~(y < x)
      BY <1>1, <2>1 DEF OpToRel
    <2> QED BY <2>1, <2>2
  <1> QED BY <1>2

LEMMA UpTo ==
    ASSUME NEW N \in Nat, NEW T, 0 \in T, \A n \in 1 .. N : n - 1 \in T => n \in T
    PROVE  0 .. N \subseteq T
  <1> DEFINE F == {n \in 0 .. N : n \notin T}
  <1>1. CASE F = {}
    BY <1>1
  <1>2. CASE F # {}
    <2>1. F \subseteq Nat
      OBVIOUS
    <2>2. PICK m \in F : \A n \in F : m <= n
      BY <1>2, <2>1, LeastNumber
    <2>3. m \in 1 .. N /\ m - 1 \in 0 .. N
      BY <2>2
    <2>4. m - 1 \in T
      BY <2>2, <2>3
    <2> QED BY <2>2, <2>3, <2>4
  <1> QED BY <1>1, <1>2

\* A loop of N rounds: a state follows from the one before, so there is a function
\* from the rounds to the states.
Body(S, N, G) == G \in [1 .. N -> [S -> S]]
Runs(f, S, s0, N, G) ==
    f \in [0 .. N -> S] /\ f[0] = s0 /\ \A n \in 1 .. N : f[n] = G[n][f[n - 1]]

LEMMA Loop ==
    ASSUME NEW S, NEW s0 \in S, NEW N \in Nat, NEW G, Body(S, N, G)
    PROVE  \E f : Runs(f, S, s0, N, G)
  <1> USE DEF Body, Runs
  <1> DEFINE T == {m \in 0 .. N : \E f : Runs(f, S, s0, m, G)}
  <1>1. 0 \in T
    <2>1. Runs([n \in 0 .. 0 |-> s0], S, s0, 0, G)
      OBVIOUS
    <2> HIDE DEF Runs
    <2> QED BY <2>1
  <1>2. ASSUME NEW m \in 1 .. N, m - 1 \in T PROVE m \in T
    <2>1. PICK f : Runs(f, S, s0, m - 1, G)
      BY <1>2
    <2>2. PICK g : g = [n \in 0 .. m |-> IF n = m THEN G[m][f[m - 1]] ELSE f[n]]
      OBVIOUS
    <2>3. f[m - 1] \in S /\ G[m] \in [S -> S]
      BY <2>1
    <2>4. g \in [0 .. m -> S]
      BY <2>1, <2>2, <2>3
    <2>5. g[0] = s0
      BY <2>1, <2>2
    <2>6. ASSUME NEW n \in 1 .. m PROVE g[n] = G[n][g[n - 1]]
      <3>1. n - 1 \in 0 .. m /\ n \in 0 .. m /\ n - 1 # m
        OBVIOUS
      <3>2. g[n - 1] = f[n - 1]
        BY <2>2, <3>1
      <3>3. CASE n = m
        BY <2>2, <3>1, <3>2, <3>3
      <3>4. CASE n # m
        BY <2>1, <2>2, <3>1, <3>2, <3>4
      <3> QED BY <3>3, <3>4
    <2>7. Runs(g, S, s0, m, G)
      BY <2>4, <2>5, <2>6
    <2> HIDE DEF Runs
    <2> QED BY <2>7
  <1>3. N \in T
    <2> HIDE DEF T
    <2>1. 0 .. N \subseteq T
      BY <1>1, <1>2, UpTo
    <2> QED BY <2>1
  <1> QED BY <1>3

----------------------------------------------------------------------------
\* Writing a text.

\* The terminal after every character of a text.
Writes(w, t, text) ==
    w = [n \in 0 .. Len(text) |-> IF n = 0 THEN t ELSE terminal_putchar(w[n - 1], text[n])]

\* A terminal as the code leaves it between two characters.
Clean(t) == t \in Screen /\ Fresh(t)

LEMMA PutClean ==
    ASSUME NEW t, Clean(t), NEW c \in Chars \cup {Newline}
    PROVE  /\ Clean(terminal_putchar(t, c))
           /\ c # Newline /\ t.column + 1 # VGA_WIDTH =>
                 terminal_putchar(t, c) =
                    [row |-> t.row, column |-> t.column + 1,
                     buffer |-> [t.buffer EXCEPT ![t.row][t.column] = c]]
  <1>1. t \in Screen /\ t.row \in Rows /\ t.column \in Columns
    BY DEF Clean, Screen
  <1>2. \A x \in Columns : x \in Int
    BY DEF Columns
  <1>3. /\ FreshBelow(t)
        /\ \A x \in Columns : x > t.column => t.buffer[t.row][x] = Blank
    BY <1>1, <1>2 DEF Clean, Fresh, FreshBelow, Columns
  <1> QED BY <1>1, <1>3, PutcharFacts DEF Clean

LEMMA WritesExist ==
    ASSUME NEW t, Clean(t), NEW text \in Seq(Chars \cup {Newline})
    PROVE  \E w : /\ Writes(w, t, text) /\ terminal_write(t, text) = w[Len(text)]
                  /\ \A n \in 0 .. Len(text) : Clean(w[n])
  <1> DEFINE S == {s \in Screen : Fresh(s)}
             N == Len(text)
             G == [n \in 1 .. N |-> [s \in S |-> terminal_putchar(s, text[n])]]
             Step(w) == [n \in 0 .. Len(text) |->
                            IF n = 0 THEN t ELSE terminal_putchar(w[n - 1], text[n])]
             v == CHOOSE w : w = Step(w)
  <1>1. t \in S /\ N \in Nat
    BY DEF Clean
  <1>2. G \in [1 .. N -> [S -> S]]
    <2>1. ASSUME NEW n \in 1 .. N, NEW s \in S PROVE terminal_putchar(s, text[n]) \in S
      <3>1. text[n] \in Chars \cup {Newline} /\ Clean(s)
        BY DEF Clean
      <3> QED BY <3>1, PutClean DEF Clean
    <2> QED BY <2>1
  <1>3. PICK f : f \in [0 .. N -> S] /\ f[0] = t /\ \A n \in 1 .. N : f[n] = G[n][f[n - 1]]
    <2>1. Body(S, N, G)
      BY <1>2 DEF Body
    <2> HIDE DEF S, N, G
    <2>2. \E f : Runs(f, S, t, N, G)
      BY <1>1, <2>1, Loop
    <2> QED BY <2>2 DEF Runs
  <1>4. f = Step(f)
    <2>1. ASSUME NEW n \in 0 .. N PROVE f[n] = Step(f)[n]
      <3>1. CASE n = 0
        BY <1>3, <3>1
      <3>2. CASE n # 0
        <4>1. n \in 1 .. N /\ n - 1 \in 0 .. N
          BY <1>1, <3>2
        <4>2. f[n - 1] \in S
          BY <1>3, <4>1
        <4>3. f[n] = terminal_putchar(f[n - 1], text[n])
          BY <1>3, <4>1, <4>2
        <4> QED BY <3>2, <4>3
      <3> QED BY <3>1, <3>2
    <2> QED BY <1>3, <2>1
  <1>5. v = Step(v)
    <2> HIDE DEF Step
    <2> QED BY <1>4
  <1>6. terminal_write(t, text) = v[Len(text)]
    BY DEF terminal_write
  <1> HIDE DEF v
  <1> DEFINE T == {n \in 0 .. N : v[n] \in S}
  <1>7. 0 \in T
    BY <1>1, <1>5
  <1>8. ASSUME NEW n \in 1 .. N, n - 1 \in T PROVE n \in T
    <2>1. n \in 0 .. N /\ n # 0 /\ v[n - 1] \in S
      BY <1>1, <1>8
    <2>2. v[n] = terminal_putchar(v[n - 1], text[n])
      BY <1>5, <2>1
    <2>3. text[n] \in Chars \cup {Newline} /\ Clean(v[n - 1])
      BY <2>1 DEF Clean
    <2>4. Clean(v[n])
      BY <2>2, <2>3, PutClean
    <2> QED BY <2>1, <2>4 DEF Clean
  <1>9. \A n \in 0 .. N : n \in T
    <2> HIDE DEF T, N
    <2> QED BY <1>1, <1>7, <1>8, UpTo
  <1>10. \A n \in 0 .. N : Clean(v[n])
    BY <1>9 DEF Clean
  <1>11. Writes(v, t, text)
    BY <1>5 DEF Writes
  <1> QED BY <1>6, <1>10, <1>11
----------------------------------------------------------------------------
\* The parser.

\* The buffer b holds the line text and NULs after it.
Holds(b, text) ==
    /\ text \in Seq(Chars) /\ Len(text) \in Slots
    /\ b \in [Slots -> Text]
    /\ \A i \in Slots : b[i] = IF i < Len(text) THEN text[i + 1] ELSE NUL

LEMMA MinIs ==
    ASSUME NEW S, S \subseteq Nat, NEW x \in S
    PROVE  /\ Min(S) \in S /\ \A y \in S : Min(S) <= y
           /\ (\A y \in S : x <= y) => Min(S) = x
  <1>1. \E z \in S : \A y \in S : z <= y
    BY LeastNumber
  <1>2. Min(S) \in S /\ \A y \in S : Min(S) <= y
    BY <1>1 DEF Min
  <1>3. ASSUME \A y \in S : x <= y PROVE Min(S) = x
    <2>1. x \in Nat /\ Min(S) \in Nat /\ x <= Min(S) /\ Min(S) <= x
      BY <1>2, <1>3
    <2> QED BY <2>1
  <1> QED BY <1>2, <1>3

LEMMA MaxIs ==
    ASSUME NEW S, S \subseteq Int, NEW x \in S, \A y \in S : y <= x
    PROVE  Max(S) = x
  <1>1. Max(S) \in S /\ \A y \in S : Max(S) >= y
    BY DEF Max
  <1>2. x \in Int /\ Max(S) \in Int /\ x <= Max(S) /\ Max(S) <= x
    BY <1>1
  <1> QED BY <1>2

\* Where the buffer has the characters of the line, and where the NULs begin.
LEMMA HoldsFacts ==
    ASSUME NEW b, NEW text, Holds(b, text)
    PROVE  /\ Len(text) \in Nat /\ Len(text) <= SHELL_BUFFER_SIZE - 1
           /\ SHELL_BUFFER_SIZE \in Nat /\ Slots = 0 .. SHELL_BUFFER_SIZE - 1
           /\ \A i \in 0 .. Len(text) - 1 :
                 i \in Slots /\ b[i] = text[i + 1] /\ b[i] # NUL
           /\ b[Len(text)] = NUL
           /\ Blank # NUL
  <1>1. Len(text) \in Nat /\ Len(text) \in Slots
    BY DEF Holds
  <1>2. SHELL_BUFFER_SIZE \in Nat /\ NUL \notin Chars /\ Blank # NUL
    BY BufferFacts
  <1>3. Len(text) <= SHELL_BUFFER_SIZE - 1
    BY <1>1, <1>2 DEF Slots
  <1>4. ASSUME NEW i \in 0 .. Len(text) - 1
        PROVE  i \in Slots /\ b[i] = text[i + 1] /\ b[i] # NUL
    <2>1. i \in Slots /\ i < Len(text) /\ i + 1 \in 1 .. Len(text)
      BY <1>1, <1>2, <1>3 DEF Slots
    <2>2. b[i] = text[i + 1]
      BY <2>1 DEF Holds
    <2>3. text[i + 1] \in Chars
      BY <2>1 DEF Holds
    <2> QED BY <1>2, <2>1, <2>2, <2>3
  <1>5. b[Len(text)] = NUL
    BY <1>1 DEF Holds
  <1> QED BY <1>1, <1>2, <1>3, <1>4, <1>5 DEF Slots

EndsSpaces(text, i, s) ==
    /\ s \in i .. Len(text)
    /\ s < Len(text) => text[s + 1] # Blank
    /\ \A j \in i .. s - 1 : text[j + 1] = Blank

LEMMA SkipFacts ==
    ASSUME NEW b, NEW text, Holds(b, text), NEW i \in 0 .. Len(text), NEW s, s = SkipSpaces(b, i)
    PROVE  EndsSpaces(text, i, s)
  <1> DEFINE S == {j \in i .. SHELL_BUFFER_SIZE - 1 : ~IsSpace(b[j])}
  <1>0. /\ Len(text) \in Nat /\ Len(text) <= SHELL_BUFFER_SIZE - 1
        /\ SHELL_BUFFER_SIZE \in Nat /\ Blank # NUL /\ b[Len(text)] = NUL
        /\ \A j \in 0 .. Len(text) - 1 : b[j] = text[j + 1]
    BY HoldsFacts
  <1>1. Len(text) \in S /\ S \subseteq Nat
    BY <1>0 DEF IsSpace
  <1>2. s \in S /\ \A j \in S : s <= j
    <2>1. Min(S) \in S /\ \A j \in S : Min(S) <= j
      <3> HIDE DEF S
      <3> QED BY <1>1, MinIs
    <2> QED BY <2>1 DEF SkipSpaces
  <1>3. s \in i .. Len(text)
    BY <1>0, <1>1, <1>2
  <1>4. ASSUME s < Len(text) PROVE text[s + 1] # Blank
    <2>1. s \in 0 .. Len(text) - 1
      BY <1>0, <1>3, <1>4
    <2> QED BY <1>0, <1>2, <2>1 DEF IsSpace
  <1>5. ASSUME NEW j \in i .. s - 1 PROVE text[j + 1] = Blank
    <2>1. j \in 0 .. Len(text) - 1 /\ j \in i .. SHELL_BUFFER_SIZE - 1 /\ ~(s <= j)
      BY <1>0, <1>3
    <2>2. j \notin S
      BY <1>2, <2>1
    <2> QED BY <1>0, <2>1, <2>2 DEF IsSpace
  <1> QED BY <1>3, <1>4, <1>5 DEF EndsSpaces

EndsWord(text, i, e) ==
    /\ e \in i .. Len(text)
    /\ e < Len(text) => text[e + 1] = Blank
    /\ \A j \in i .. e - 1 : text[j + 1] # Blank

LEMMA EndFacts ==
    ASSUME NEW b, NEW text, Holds(b, text), NEW i \in 0 .. Len(text), NEW e, e = WordEnd(b, i)
    PROVE  EndsWord(text, i, e)
  <1> DEFINE S == {j \in i .. SHELL_BUFFER_SIZE - 1 : IsSpace(b[j]) \/ b[j] = NUL}
  <1>0. /\ Len(text) \in Nat /\ Len(text) <= SHELL_BUFFER_SIZE - 1
        /\ SHELL_BUFFER_SIZE \in Nat /\ b[Len(text)] = NUL
        /\ \A j \in 0 .. Len(text) - 1 : b[j] = text[j + 1] /\ b[j] # NUL
    BY HoldsFacts
  <1>1. Len(text) \in S /\ S \subseteq Nat
    BY <1>0
  <1>2. e \in S /\ \A j \in S : e <= j
    <2>1. Min(S) \in S /\ \A j \in S : Min(S) <= j
      <3> HIDE DEF S
      <3> QED BY <1>1, MinIs
    <2> QED BY <2>1 DEF WordEnd
  <1>3. e \in i .. Len(text)
    BY <1>0, <1>1, <1>2
  <1>4. ASSUME e < Len(text) PROVE text[e + 1] = Blank
    <2>1. e \in 0 .. Len(text) - 1
      BY <1>0, <1>3, <1>4
    <2> QED BY <1>0, <1>2, <2>1 DEF IsSpace
  <1>5. ASSUME NEW j \in i .. e - 1 PROVE text[j + 1] # Blank
    <2>1. j \in 0 .. Len(text) - 1 /\ j \in i .. SHELL_BUFFER_SIZE - 1 /\ ~(e <= j)
      BY <1>0, <1>3
    <2>2. j \notin S
      BY <1>2, <2>1
    <2> QED BY <1>0, <2>1, <2>2 DEF IsSpace
  <1> QED BY <1>3, <1>4, <1>5 DEF EndsWord

\* The number of words that start in the first p characters.
Started(text, p) == Cardinality({j \in WordStarts(text) : j <= p})

LEMMA CountFacts ==
    ASSUME NEW text \in Seq(Chars), NEW p \in 0 .. Len(text), NEW q \in p .. Len(text)
    PROVE  /\ Started(text, p) \in Nat /\ Started(text, p) <= Started(text, q)
           /\ Started(text, 0) = 0
           /\ Started(text, Len(text)) = Cardinality(WordStarts(text))
           /\ (\A j \in p + 1 .. q : j \notin WordStarts(text)) =>
                 Started(text, q) = Started(text, p)
           /\ p < Len(text) /\ p + 1 \in WordStarts(text) =>
                 Started(text, p + 1) = Started(text, p) + 1
  <1> DEFINE W == WordStarts(text)
             U(n) == {j \in W : j <= n}
  <1>0. Len(text) \in Nat /\ \A j \in W : j \in 1 .. Len(text)
    BY DEF WordStarts
  <1>1. \A n : IsFiniteSet(U(n))
    <2>1. IsFiniteSet(1 .. Len(text))
      BY <1>0, FS_Interval
    <2>2. \A n : U(n) \in SUBSET (1 .. Len(text))
      BY <1>0
    <2> QED BY <2>1, <2>2, FS_Subset
  <1>2. Started(text, p) \in Nat
    BY <1>1, FS_CardinalityType DEF Started
  <1>3. Started(text, p) <= Started(text, q)
    <2>1. U(p) \in SUBSET U(q)
      BY <1>0
    <2>2. Cardinality(U(p)) <= Cardinality(U(q))
      BY <1>1, <2>1, FS_Subset
    <2> QED BY <2>2 DEF Started
  <1>4. Started(text, 0) = 0
    <2>1. U(0) = {}
      BY <1>0
    <2> QED BY <2>1, FS_EmptySet DEF Started
  <1>5. Started(text, Len(text)) = Cardinality(W)
    <2>1. U(Len(text)) = W
      BY <1>0
    <2> QED BY <2>1 DEF Started
  <1>6. ASSUME \A j \in p + 1 .. q : j \notin W PROVE Started(text, q) = Started(text, p)
    <2>1. U(q) = U(p)
      BY <1>0, <1>6
    <2> QED BY <2>1 DEF Started
  <1>7. ASSUME p < Len(text), p + 1 \in W PROVE Started(text, p + 1) = Started(text, p) + 1
    <2>1. U(p + 1) = U(p) \cup {p + 1} /\ p + 1 \notin U(p)
      BY <1>0, <1>7
    <2>2. Cardinality(U(p) \cup {p + 1}) = Cardinality(U(p)) + 1
      BY <1>1, <2>1, FS_AddElement
    <2> QED BY <2>1, <2>2 DEF Started
  <1> QED BY <1>2, <1>3, <1>4, <1>5, <1>6, <1>7

\* Two words that are the n-th are the same.
LEMMA CountOnce ==
    ASSUME NEW text \in Seq(Chars), NEW i \in WordStarts(text), NEW k \in WordStarts(text),
           Started(text, i) = Started(text, k)
    PROVE  i = k
  <1>0. Len(text) \in Nat /\ i \in 1 .. Len(text) /\ k \in 1 .. Len(text)
    BY DEF WordStarts
  <1>1. ASSUME NEW x \in WordStarts(text), NEW y \in WordStarts(text), x < y
        PROVE  Started(text, x) # Started(text, y)
    <2>1. /\ x \in 1 .. Len(text) /\ y \in 1 .. Len(text)
          /\ y - 1 \in 0 .. Len(text) /\ x \in 0 .. Len(text) /\ y - 1 \in x .. Len(text)
          /\ y - 1 < Len(text) /\ y - 1 + 1 = y
      BY <1>0, <1>1 DEF WordStarts
    <2>2. Started(text, x) \in Nat /\ Started(text, x) <= Started(text, y - 1)
      BY <2>1, CountFacts
    <2>3. Len(text) \in y - 1 .. Len(text)
      BY <1>0, <2>1
    <2>4. Started(text, y - 1) \in Nat /\ Started(text, y) = Started(text, y - 1) + 1
      BY <2>1, <2>3, CountFacts
    <2> QED BY <2>2, <2>4
  <1>2. CASE i < k
    BY <1>1, <1>2
  <1>3. CASE k < i
    BY <1>1, <1>3
  <1> QED BY <1>0, <1>2, <1>3

\* The pointer p is at the end of the line or at the start of a word; n arguments
\* have been found, and no word has been passed over.
AtToken(text, p, n) ==
    /\ p \in 0 .. Len(text)
    /\ p < Len(text) => p + 1 \in WordStarts(text) /\ Started(text, p) = n
    /\ Started(text, p) <= n

LEMMA FirstToken ==
    ASSUME NEW b, NEW text, Holds(b, text)
    PROVE  AtToken(text, SkipSpaces(b, 0), 0)
  <1>0. text \in Seq(Chars) /\ Len(text) \in Nat
    BY DEF Holds
  <1>1. PICK s : s = SkipSpaces(b, 0)
    OBVIOUS
  <1>2. /\ s \in 0 .. Len(text)
        /\ s < Len(text) => text[s + 1] # Blank
        /\ \A j \in 0 .. s - 1 : text[j + 1] = Blank
    <2>1. EndsSpaces(text, 0, s)
      BY <1>0, <1>1, SkipFacts
    <2> QED BY <2>1 DEF EndsSpaces
  <1>3. \A j \in 1 .. s : text[j] = Blank
    <2>1. \A j \in 1 .. s : j - 1 \in 0 .. s - 1 /\ j - 1 + 1 = j
      BY <1>0, <1>2
    <2> QED BY <1>2, <2>1
  <1>4. Started(text, s) = 0
    <2>1. \A j \in 0 + 1 .. s : j \notin WordStarts(text)
      BY <1>3 DEF WordStarts
    <2> QED BY <1>0, <1>2, <2>1, CountFacts
  <1>5. ASSUME s < Len(text) PROVE s + 1 \in WordStarts(text)
    <2>1. s + 1 \in 1 .. Len(text) /\ (s + 1 = 1 \/ s \in 1 .. s) /\ s + 1 - 1 = s
      BY <1>0, <1>2, <1>5
    <2> QED BY <1>2, <1>3, <1>5, <2>1 DEF WordStarts
  <1> QED BY <1>1, <1>2, <1>4, <1>5 DEF AtToken

LEMMA FollowingToken ==
    ASSUME NEW b, NEW text, Holds(b, text), NEW n \in Nat, NEW p, AtToken(text, p, n)
    PROVE  AtToken(text, NextToken(b, p), n + 1)
  <1>0. text \in Seq(Chars) /\ Len(text) \in Nat /\ p \in 0 .. Len(text)
    BY DEF Holds, AtToken
  <1>1. PICK e : e = WordEnd(b, p)
    OBVIOUS
  <1>2. /\ e \in p .. Len(text)
        /\ e < Len(text) => text[e + 1] = Blank
        /\ \A j \in p .. e - 1 : text[j + 1] # Blank
    <2>1. EndsWord(text, p, e)
      BY <1>0, <1>1, EndFacts
    <2> QED BY <2>1 DEF EndsWord
  <1>3. /\ b[Len(text)] = NUL
        /\ e < Len(text) => b[e] # NUL
    BY <1>0, <1>2, HoldsFacts
  <1>4. CASE p = Len(text)
    <2>1. e = Len(text)
      BY <1>0, <1>2, <1>4
    <2>2. NextToken(b, p) = Len(text)
      BY <1>1, <1>3, <2>1 DEF NextToken
    <2>3. Started(text, Len(text)) <= n /\ Started(text, Len(text)) \in Nat
      BY <1>0, <1>4, CountFacts DEF AtToken
    <2> QED BY <1>0, <2>2, <2>3 DEF AtToken
  <1>5. CASE p < Len(text)
    <2>1. p + 1 \in WordStarts(text) /\ Started(text, p) = n
      BY <1>5 DEF AtToken
    <2>2. Started(text, p + 1) = n + 1
      <3>1. Len(text) \in p .. Len(text)
        BY <1>0
      <3> QED BY <1>0, <1>5, <2>1, <3>1, CountFacts
    <2>3. text[p + 1] # Blank
      BY <2>1 DEF WordStarts
    <2>4. e # p
      BY <1>2, <1>5, <2>3
    <2>5. \A j \in p + 2 .. e : j \notin WordStarts(text)
      <3>1. \A j \in p + 2 .. e : j # 1 /\ j - 2 \in p .. e - 1 /\ j - 2 + 1 = j - 1
        BY <1>0, <1>2
      <3>2. \A j \in p + 2 .. e : j # 1 /\ text[j - 1] # Blank
        BY <1>2, <3>1
      <3> QED BY <3>2 DEF WordStarts
    <2>6. ASSUME NEW q \in e .. Len(text), \A j \in e + 1 .. q : j \notin WordStarts(text)
          PROVE  Started(text, q) = n + 1
      <3>1. p + 1 \in 0 .. Len(text) /\ q \in p + 1 .. Len(text)
        BY <1>0, <1>2, <1>5, <2>4
      <3>2. \A j \in (p + 1) + 1 .. q : j \in p + 2 .. e \/ j \in e + 1 .. q
        BY <1>0, <1>2
      <3>3. \A j \in (p + 1) + 1 .. q : j \notin WordStarts(text)
        BY <2>5, <2>6, <3>2
      <3> QED BY <1>0, <2>2, <3>1, <3>3, CountFacts
    <2>7. CASE e = Len(text)
      <3>1. NextToken(b, p) = Len(text)
        BY <1>1, <1>3, <2>7 DEF NextToken
      <3>2. Len(text) \in e .. Len(text) /\ \A j \in e + 1 .. Len(text) : FALSE
        BY <1>0, <2>7
      <3>3. Started(text, Len(text)) = n + 1
        BY <2>6, <3>2
      <3> QED BY <1>0, <3>1, <3>3 DEF AtToken
    <2>8. CASE e # Len(text)
      <3>1. e < Len(text) /\ e + 1 \in 0 .. Len(text)
        BY <1>0, <1>2, <2>8
      <3>2. PICK s : s = SkipSpaces(b, e + 1)
        OBVIOUS
      <3>3. NextToken(b, p) = s
        BY <1>1, <1>3, <3>1, <3>2 DEF NextToken
      <3>4. /\ s \in e + 1 .. Len(text)
            /\ s < Len(text) => text[s + 1] # Blank
            /\ \A j \in e + 1 .. s - 1 : text[j + 1] = Blank
        <4>1. EndsSpaces(text, e + 1, s)
          BY <3>1, <3>2, SkipFacts
        <4> QED BY <4>1 DEF EndsSpaces
      <3>5. \A j \in e + 1 .. s : text[j] = Blank
        <4>1. \A j \in e + 1 .. s : j = e + 1 \/ (j - 1 \in e + 1 .. s - 1 /\ j - 1 + 1 = j)
          BY <1>0, <1>2, <3>4
        <4> QED BY <1>2, <3>1, <3>4, <4>1
      <3>6. Started(text, s) = n + 1
        <4>1. \A j \in e + 1 .. s : j \notin WordStarts(text)
          BY <3>5 DEF WordStarts
        <4>2. s \in e .. Len(text)
          BY <1>0, <1>2, <3>4
        <4> QED BY <2>6, <4>1, <4>2
      <3>7. ASSUME s < Len(text) PROVE s + 1 \in WordStarts(text)
        <4>1. s + 1 \in 1 .. Len(text) /\ s \in e + 1 .. s /\ s + 1 - 1 = s
          BY <1>0, <1>2, <3>4, <3>7
        <4> QED BY <3>4, <3>5, <3>7, <4>1 DEF WordStarts
      <3>8. s \in 0 .. Len(text)
        BY <1>0, <1>2, <3>4
      <3> QED BY <3>3, <3>6, <3>7, <3>8 DEF AtToken
    <2> QED BY <2>7, <2>8
  <1> QED BY <1>0, <1>4, <1>5

\* token is the pointer in every round of the parser's loop over the line text in
\* b, and argv what the loop finds.
ParsedBy(token, b, text, max_args, argv) ==
    /\ \A n \in 0 .. max_args - 1 : AtToken(text, token[n], n)
    /\ argv = [k \in 1 .. Min({n \in 0 .. max_args - 1 : b[token[n]] = NUL \/ n = max_args - 1}) |->
                  Word(b, token[k - 1])]

LEMMA TokensExist ==
    ASSUME NEW b, NEW text, Holds(b, text), NEW max_args \in Nat \ {0}
    PROVE  \E token : ParsedBy(token, b, text, max_args, shell_parse_command(b, max_args))
  <1> DEFINE S == 0 .. Len(text)
             N == max_args - 1
             G == [n \in 1 .. N |-> [p \in S |-> NextToken(b, p)]]
             Step(f) == [n \in 0 .. max_args - 1 |->
                            IF n = 0 THEN SkipSpaces(b, 0) ELSE NextToken(b, f[n - 1])]
             v == CHOOSE f : f = Step(f)
  <1>0. text \in Seq(Chars) /\ Len(text) \in Nat /\ N \in Nat
    BY DEF Holds
  <1>1. SkipSpaces(b, 0) \in S
    BY FirstToken DEF AtToken
  <1>2. Body(S, N, G)
    <2>1. ASSUME NEW p \in S PROVE NextToken(b, p) \in S
      <3>1. PICK e : e = WordEnd(b, p)
        OBVIOUS
      <3>2. e \in p .. Len(text)
        <4>1. EndsWord(text, p, e)
          BY <1>0, <3>1, EndFacts
        <4> QED BY <4>1 DEF EndsWord
      <3>3. CASE b[e] = NUL
        BY <1>0, <3>1, <3>2, <3>3 DEF NextToken
      <3>4. CASE b[e] # NUL
        <4>1. e + 1 \in 0 .. Len(text)
          <5>1. e # Len(text)
            BY <3>4, HoldsFacts
          <5> QED BY <1>0, <3>2, <5>1
        <4>2. PICK s : s = SkipSpaces(b, e + 1)
          OBVIOUS
        <4>3. s \in e + 1 .. Len(text)
          <5>1. EndsSpaces(text, e + 1, s)
            BY <4>1, <4>2, SkipFacts
          <5> QED BY <5>1 DEF EndsSpaces
        <4>4. s \in 0 .. Len(text)
          BY <1>0, <3>2, <4>3
        <4> QED BY <3>1, <3>4, <4>2, <4>4 DEF NextToken
      <3> QED BY <3>3, <3>4
    <2> QED BY <2>1 DEF Body
  <1>3. PICK f : /\ f \in [0 .. N -> S] /\ f[0] = SkipSpaces(b, 0)
                 /\ \A n \in 1 .. N : f[n] = G[n][f[n - 1]]
    <2> HIDE DEF S, N, G
    <2>2. \E f : Runs(f, S, SkipSpaces(b, 0), N, G)
      BY <1>0, <1>1, <1>2, Loop
    <2> QED BY <2>2 DEF Runs
  <1>4. f = Step(f)
    <2>1. ASSUME NEW n \in 0 .. N PROVE f[n] = Step(f)[n]
      <3>1. CASE n = 0
        BY <1>3, <3>1
      <3>2. CASE n # 0
        <4>1. n \in 1 .. N /\ n - 1 \in 0 .. N
          BY <1>0, <3>2
        <4>2. f[n - 1] \in S
          BY <1>3, <4>1
        <4>3. f[n] = NextToken(b, f[n - 1])
          BY <1>3, <4>1, <4>2
        <4> QED BY <3>2, <4>3
      <3> QED BY <3>1, <3>2
    <2> QED BY <1>3, <2>1
  <1>5. v = Step(v)
    <2> HIDE DEF Step
    <2> QED BY <1>4
  <1>6. shell_parse_command(b, max_args) =
            [k \in 1 .. Min({n \in 0 .. max_args - 1 : b[v[n]] = NUL \/ n = max_args - 1}) |->
                Word(b, v[k - 1])]
    BY DEF shell_parse_command
  <1> HIDE DEF v
  <1> DEFINE T == {n \in 0 .. N : AtToken(text, v[n], n)}
  <1>7. 0 \in T
    <2>1. v[0] = SkipSpaces(b, 0) /\ 0 \in 0 .. N
      BY <1>0, <1>5
    <2> QED BY <2>1, FirstToken
  <1>8. ASSUME NEW n \in 1 .. N, n - 1 \in T PROVE n \in T
    <2>1. n \in 0 .. N /\ n # 0 /\ n - 1 \in Nat /\ n - 1 + 1 = n
      BY <1>0, <1>8
    <2>2. v[n] = NextToken(b, v[n - 1])
      BY <1>5, <2>1
    <2>3. AtToken(text, v[n - 1], n - 1)
      BY <1>8
    <2>4. AtToken(text, v[n], n - 1 + 1)
      BY <2>1, <2>2, <2>3, FollowingToken
    <2> QED BY <2>1, <2>4
  <1>9. \A n \in 0 .. N : n \in T
    <2> HIDE DEF T, N
    <2> QED BY <1>0, <1>7, <1>8, UpTo
  <1>10. \A n \in 0 .. max_args - 1 : AtToken(text, v[n], n)
    BY <1>9
  <1>11. ParsedBy(v, b, text, max_args, shell_parse_command(b, max_args))
    BY <1>6, <1>10 DEF ParsedBy
  <1> QED BY <1>11

\* A word of the buffer is a word of the line.
LEMMA WordIs ==
    ASSUME NEW b, NEW text, Holds(b, text), NEW i \in WordStarts(text)
    PROVE  Word(b, i - 1) = WordAt(text, i) /\ Word(b, i - 1) \in Seq(Chars)
  <1>0. text \in Seq(Chars) /\ Len(text) \in Nat /\ i \in 1 .. Len(text) /\ text[i] # Blank
    BY DEF Holds, WordStarts
  <1>1. PICK e : e = WordEnd(b, i - 1)
    OBVIOUS
  <1>2. /\ e \in i - 1 .. Len(text)
        /\ e < Len(text) => text[e + 1] = Blank
        /\ \A j \in i - 1 .. e - 1 : text[j + 1] # Blank
    <2>1. i - 1 \in 0 .. Len(text)
      BY <1>0
    <2>2. EndsWord(text, i - 1, e)
      BY <1>1, <2>1, EndFacts
    <2> QED BY <2>2 DEF EndsWord
  <1>3. e \in i .. Len(text) /\ \A j \in i .. e : text[j] # Blank
    <2>1. e # i - 1
      <3>1. i - 1 < Len(text) /\ i - 1 + 1 = i
        BY <1>0
      <3> QED BY <1>0, <1>2, <3>1
    <2>2. \A j \in i .. e : j - 1 \in i - 1 .. e - 1 /\ j - 1 + 1 = j
      BY <1>0, <1>2
    <2>3. \A j \in i .. e : text[j] # Blank
      BY <1>2, <2>2
    <2> QED BY <1>0, <1>2, <2>1, <2>3
  <1>4. Max({j \in i .. Len(text) : \A k \in i .. j : text[k] # Blank}) = e
    <2> DEFINE S == {j \in i .. Len(text) : \A k \in i .. j : text[k] # Blank}
    <2>1. e \in S /\ S \subseteq Int
      BY <1>0, <1>3
    <2>2. ASSUME NEW j \in S PROVE j <= e
      <3>1. j \in i .. Len(text) /\ \A k \in i .. j : text[k] # Blank
        OBVIOUS
      <3>2. ASSUME e < j PROVE FALSE
        <4>1. e < Len(text) /\ e + 1 \in i .. j
          BY <1>0, <1>3, <3>1, <3>2
        <4> QED BY <1>2, <3>1, <4>1
      <3> QED BY <1>0, <1>3, <3>1, <3>2
    <2> HIDE DEF S
    <2>3. Max(S) = e
      BY <2>1, <2>2, MaxIs
    <2> QED BY <2>3 DEF S
  <1>5. WordAt(text, i) = SubSeq(text, i, e)
    BY <1>4 DEF WordAt
  <1>6. SubSeq(text, i, e) = [k \in 1 .. e - i + 1 |-> text[i + k - 1]]
    BY <1>0, <1>3
  <1>7. Word(b, i - 1) = [k \in 1 .. e - (i - 1) |-> b[(i - 1) + k - 1]]
    BY <1>1 DEF Word
  <1>8. ASSUME NEW k \in 1 .. e - i + 1
        PROVE  b[(i - 1) + k - 1] = text[i + k - 1] /\ text[i + k - 1] \in Chars
    <2>1. /\ (i - 1) + k - 1 \in 0 .. Len(text) - 1 /\ (i - 1) + k - 1 + 1 = i + k - 1
          /\ i + k - 1 \in 1 .. Len(text)
      BY <1>0, <1>3
    <2>2. b[(i - 1) + k - 1] = text[i + k - 1]
      BY <2>1, HoldsFacts
    <2> QED BY <1>0, <2>1, <2>2
  <1>9. e - (i - 1) = e - i + 1 /\ e - i + 1 \in Nat
    BY <1>0, <1>3
  <1>10. Word(b, i - 1) = [k \in 1 .. e - i + 1 |-> text[i + k - 1]]
    <2>1. PICK m : m = e - i + 1
      OBVIOUS
    <2>2. Word(b, i - 1) = [k \in 1 .. m |-> b[(i - 1) + k - 1]]
      BY <1>7, <1>9, <2>1
    <2>3. \A k \in 1 .. m : b[(i - 1) + k - 1] = text[i + k - 1]
      BY <1>8, <2>1
    <2>4. Word(b, i - 1) = [k \in 1 .. m |-> text[i + k - 1]]
      BY <2>2, <2>3
    <2> QED BY <2>1, <2>4
  <1>11. Word(b, i - 1) \in Seq(Chars)
    BY <1>8, <1>9, <1>10
  <1> QED BY <1>5, <1>6, <1>10, <1>11

\* The arguments are the first words of the line.
FirstWords(argv, text, max_args) ==
    /\ argv \in Seq(Seq(Chars))
    /\ Len(argv) = Min({Cardinality(WordStarts(text)), max_args - 1})
    /\ \A i \in WordStarts(text) :
          Started(text, i) < max_args => argv[Started(text, i)] = WordAt(text, i)

LEMMA Parsed ==
    ASSUME NEW b, NEW text, Holds(b, text), NEW max_args \in Nat \ {0},
           NEW argv, argv = shell_parse_command(b, max_args)
    PROVE  FirstWords(argv, text, max_args)
  <1> DEFINE words == Cardinality(WordStarts(text))
  <1>0. text \in Seq(Chars) /\ Len(text) \in Nat /\ max_args - 1 \in Nat
    BY DEF Holds
  <1>1. PICK token :
            /\ \A n \in 0 .. max_args - 1 : AtToken(text, token[n], n)
            /\ argv = [k \in 1 .. Min({n \in 0 .. max_args - 1 :
                                          b[token[n]] = NUL \/ n = max_args - 1}) |->
                          Word(b, token[k - 1])]
    <2>1. \E token : ParsedBy(token, b, text, max_args, argv)
      BY TokensExist
    <2> QED BY <2>1 DEF ParsedBy
  <1> DEFINE S == {n \in 0 .. max_args - 1 : b[token[n]] = NUL \/ n = max_args - 1}
  <1>2. PICK a : a = Min(S)
    OBVIOUS
  <1>3. a \in S /\ \A n \in S : a <= n
    <2>1. max_args - 1 \in S /\ S \subseteq Nat
      BY <1>0
    <2> HIDE DEF S
    <2> QED BY <1>2, <2>1, MinIs
  <1>4. a \in 0 .. max_args - 1 /\ (b[token[a]] = NUL \/ a = max_args - 1)
    BY <1>3
  <1>5. argv = [k \in 1 .. a |-> Word(b, token[k - 1])]
    BY <1>1, <1>2
  \* The k-th argument comes from the k-th word.
  <1>6. ASSUME NEW k \in 1 .. a
        PROVE  /\ token[k - 1] + 1 \in WordStarts(text) /\ Started(text, token[k - 1] + 1) = k
               /\ argv[k] = WordAt(text, token[k - 1] + 1) /\ argv[k] \in Seq(Chars)
               /\ k <= words
    <2>1. k - 1 \in 0 .. max_args - 1 /\ k - 1 # max_args - 1 /\ ~(a <= k - 1)
      BY <1>0, <1>4
    <2>2. PICK p : p = token[k - 1]
      OBVIOUS
    <2>3. AtToken(text, p, k - 1) /\ b[p] # NUL
      BY <1>1, <1>3, <2>1, <2>2
    <2>4. p < Len(text) /\ p \in 0 .. Len(text)
      <3>1. p # Len(text)
        BY <2>3, HoldsFacts
      <3> QED BY <1>0, <2>3, <3>1 DEF AtToken
    <2>5. p + 1 \in WordStarts(text) /\ Started(text, p) = k - 1
      BY <2>3, <2>4 DEF AtToken
    <2>6. Started(text, p + 1) = k
      <3>1. Len(text) \in p .. Len(text)
        BY <1>0, <2>4
      <3>2. Started(text, p + 1) = Started(text, p) + 1
        BY <1>0, <2>4, <2>5, <3>1, CountFacts
      <3> QED BY <2>5, <3>2
    <2>7. argv[k] = WordAt(text, p + 1) /\ argv[k] \in Seq(Chars)
      <3>1. argv[k] = Word(b, p)
        BY <1>5, <2>2
      <3>2. PICK i : i = p + 1
        OBVIOUS
      <3>3. Word(b, i - 1) = WordAt(text, i) /\ Word(b, i - 1) \in Seq(Chars)
        BY <2>5, <3>2, WordIs
      <3>4. i - 1 = p
        BY <2>4, <3>2
      <3>5. Word(b, p) = WordAt(text, i) /\ Word(b, p) \in Seq(Chars)
        BY <3>3, <3>4
      <3> QED BY <3>1, <3>2, <3>5
    <2>8. k <= words
      <3>1. p + 1 \in 0 .. Len(text) /\ Len(text) \in p + 1 .. Len(text)
        BY <1>0, <2>4
      <3> QED BY <1>0, <2>6, <3>1, CountFacts
    <2> QED BY <2>2, <2>5, <2>6, <2>7, <2>8
  <1>7. argv \in Seq(Seq(Chars)) /\ Len(argv) = a
    <2>1. a \in Nat
      BY <1>4
    <2>2. \A k \in 1 .. a : argv[k] \in Seq(Chars)
      BY <1>6
    <2>3. argv \in [1 .. a -> Seq(Chars)]
      BY <1>5, <2>2
    <2> QED BY <2>1, <2>3
  <1>8. words \in Nat
    BY <1>0, CountFacts
  <1>9. a <= words
    BY <1>4, <1>6, <1>8
  <1>10. a = words \/ a = max_args - 1
    <2>1. CASE b[token[a]] = NUL
      <3>1. PICK p : p = token[a]
        OBVIOUS
      <3>2. AtToken(text, p, a) /\ b[p] = NUL
        BY <1>1, <1>4, <2>1, <3>1
      <3>3. p = Len(text)
        <4>1. p \in 0 .. Len(text)
          BY <3>2 DEF AtToken
        <4>2. p \notin 0 .. Len(text) - 1
          BY <3>2, HoldsFacts
        <4> QED BY <1>0, <4>1, <4>2
      <3>4. words <= a
        BY <1>0, <3>2, <3>3, CountFacts DEF AtToken
      <3> QED BY <1>4, <1>8, <1>9, <3>4
    <2> QED BY <1>4, <2>1
  <1>11. Len(argv) = Min({words, max_args - 1})
    <2> HIDE DEF words
    <2>1. PICK R : R = {words, max_args - 1}
      OBVIOUS
    <2>2. a \in R /\ R \subseteq Nat /\ \A y \in R : a <= y
      BY <1>0, <1>4, <1>8, <1>9, <1>10, <2>1
    <2>3. Min(R) = a
      BY <2>2, MinIs
    <2> QED BY <1>7, <2>1, <2>3
  <1>12. ASSUME NEW i \in WordStarts(text), Started(text, i) < max_args
         PROVE  argv[Started(text, i)] = WordAt(text, i)
    <2>1. PICK k : k = Started(text, i)
      OBVIOUS
    <2>2. i \in 1 .. Len(text)
      BY DEF WordStarts
    <2>3. k \in Nat /\ k <= words
      <3>1. i \in 0 .. Len(text) /\ Len(text) \in i .. Len(text)
        BY <1>0, <2>2
      <3> QED BY <1>0, <2>1, <3>1, CountFacts
    <2>4. k # 0
      <3>1. i - 1 \in 0 .. Len(text) /\ Len(text) \in i - 1 .. Len(text) /\ i - 1 < Len(text)
            /\ i - 1 + 1 = i
        BY <1>0, <2>2
      <3>2. Started(text, i - 1) \in Nat /\ k = Started(text, i - 1) + 1
        BY <1>0, <2>1, <3>1, CountFacts
      <3> QED BY <3>2
    <2>5. k \in 1 .. a
      BY <1>0, <1>4, <1>8, <1>10, <1>12, <2>1, <2>3, <2>4
    <2>6. token[k - 1] + 1 \in WordStarts(text) /\ Started(text, token[k - 1] + 1) = k
      BY <1>6, <2>5
    <2>7. token[k - 1] + 1 = i
      BY <1>0, <2>1, <2>6, CountOnce
    <2> QED BY <1>6, <2>1, <2>5, <2>7
  <1> QED BY <1>7, <1>11, <1>12 DEF FirstWords

----------------------------------------------------------------------------
\* What Enter runs.

\* The buffer holds the line the user sees.
LineHeld == Holds(input_buffer, typed) /\ Len(typed) = buffer_pos

LEMMA Entered ==
    ASSUME LineHeld
    PROVE  EnteredArgs \in Seq(Seq(Chars)) /\ ArgsAreWords
  <1>0. /\ Holds(input_buffer, typed) /\ typed \in Seq(Chars) /\ Len(typed) \in Nat
        /\ Len(typed) = buffer_pos /\ buffer_pos \in Slots
        /\ SHELL_MAX_ARGS \in Nat \ {0}
    BY ShellConstants DEF LineHeld, Holds
  <1>1. FirstWords(EnteredArgs, typed, SHELL_MAX_ARGS)
    <2>1. CASE buffer_pos = 0
      <3>1. WordStarts(typed) = {} /\ EnteredArgs = <<>>
        BY <1>0, <2>1 DEF WordStarts, EnteredArgs
      <3>2. Cardinality(WordStarts(typed)) = 0
        BY <3>1, FS_EmptySet
      <3>3. PICK R : R = {Cardinality(WordStarts(typed)), SHELL_MAX_ARGS - 1}
        OBVIOUS
      <3>4. 0 \in R /\ R \subseteq Nat /\ \A y \in R : 0 <= y
        BY <1>0, <3>2, <3>3
      <3>5. Min(R) = 0
        BY <3>4, MinIs
      <3>6. EnteredArgs \in Seq(Seq(Chars)) /\ Len(EnteredArgs) = 0
        BY <3>1
      <3> QED BY <3>1, <3>3, <3>5, <3>6 DEF FirstWords
    <2>2. CASE buffer_pos # 0
      <3>1. input_buffer[buffer_pos] = NUL /\ input_buffer \in [Slots -> Text]
        BY <1>0, HoldsFacts DEF Holds
      <3>2. [input_buffer EXCEPT ![buffer_pos] = NUL] = input_buffer
        BY <1>0, <3>1
      <3>3. EnteredArgs = shell_parse_command(input_buffer, SHELL_MAX_ARGS)
        BY <2>2, <3>2 DEF EnteredArgs
      <3>4. PICK argv : argv = shell_parse_command(input_buffer, SHELL_MAX_ARGS)
        OBVIOUS
      <3> QED BY <1>0, <3>3, <3>4, Parsed
    <2> QED BY <2>1, <2>2
  <1> QED BY <1>1 DEF FirstWords, ArgsAreWords, Started

LEMMA CharHeld ==
    ASSUME LineHeld, NEW c \in Chars, StoreChar(c), typed' = Append(typed, c)
    PROVE  LineHeld'
  <1>0. /\ typed \in Seq(Chars) /\ Len(typed) \in Nat /\ Len(typed) = buffer_pos
        /\ buffer_pos \in Slots /\ input_buffer \in [Slots -> Text]
        /\ buffer_pos # SHELL_BUFFER_SIZE - 1 /\ buffer_pos + 1 \in Slots
        /\ c \in Text
    BY BufferFacts DEF LineHeld, Holds, StoreChar, HasRoom, Text
  <1>1. /\ typed' \in Seq(Chars) /\ Len(typed') = buffer_pos + 1
        /\ typed'[buffer_pos + 1] = c
        /\ \A i \in 1 .. buffer_pos : typed'[i] = typed[i]
    BY <1>0
  <1>2. /\ buffer_pos' = buffer_pos + 1
        /\ input_buffer' = [input_buffer EXCEPT ![buffer_pos] = c]
    BY DEF StoreChar
  <1>3. ASSUME NEW i \in Slots
        PROVE  input_buffer'[i] = IF i < Len(typed') THEN typed'[i + 1] ELSE NUL
    <2>0. i \in Nat
      BY BufferFacts
    <2>1. CASE i = buffer_pos
      BY <1>0, <1>1, <1>2, <2>1
    <2>2. CASE i < buffer_pos
      <3>1. i + 1 \in 1 .. buffer_pos /\ i < Len(typed') /\ i # buffer_pos
        BY <1>0, <1>1, <2>0, <2>2
      <3>2. input_buffer'[i] = typed[i + 1]
        BY <1>0, <1>2, <2>2, <3>1 DEF LineHeld, Holds
      <3> QED BY <1>1, <3>1, <3>2
    <2>3. CASE i > buffer_pos
      <3>1. ~(i < Len(typed')) /\ ~(i < Len(typed)) /\ i # buffer_pos
        BY <1>0, <1>1, <2>0, <2>3
      <3> QED BY <1>0, <1>2, <3>1 DEF LineHeld, Holds
    <2> QED BY <1>0, <2>0, <2>1, <2>2, <2>3
  <1>4. input_buffer' \in [Slots -> Text]
    BY <1>0, <1>2
  <1> QED BY <1>0, <1>1, <1>2, <1>3, <1>4 DEF LineHeld, Holds

LEMMA EraseHeld ==
    ASSUME LineHeld, EraseChar, typed' = SubSeq(typed, 1, Len(typed) - 1)
    PROVE  LineHeld'
  <1>0. /\ typed \in Seq(Chars) /\ Len(typed) \in Nat /\ Len(typed) = buffer_pos
        /\ buffer_pos \in Slots /\ input_buffer \in [Slots -> Text]
        /\ buffer_pos > 0 /\ buffer_pos - 1 \in Slots
        /\ NUL \in Text
    BY BufferFacts DEF LineHeld, Holds, EraseChar, Text
  <1>1. /\ typed' \in Seq(Chars) /\ Len(typed') = buffer_pos - 1
        /\ \A i \in 1 .. buffer_pos - 1 : typed'[i] = typed[i]
    BY <1>0
  <1>2. /\ buffer_pos' = buffer_pos - 1
        /\ input_buffer' = [input_buffer EXCEPT ![buffer_pos - 1] = NUL]
    BY DEF EraseChar
  <1>3. ASSUME NEW i \in Slots
        PROVE  input_buffer'[i] = IF i < Len(typed') THEN typed'[i + 1] ELSE NUL
    <2>0. i \in Nat
      BY BufferFacts
    <2>1. CASE i = buffer_pos - 1
      BY <1>0, <1>1, <1>2, <2>1
    <2>2. CASE i < buffer_pos - 1
      <3>1. i + 1 \in 1 .. buffer_pos - 1 /\ i < Len(typed') /\ i # buffer_pos - 1 /\ i < Len(typed)
        BY <1>0, <1>1, <2>0, <2>2
      <3>2. input_buffer'[i] = typed[i + 1]
        BY <1>0, <1>2, <3>1 DEF LineHeld, Holds
      <3> QED BY <1>1, <3>1, <3>2
    <2>3. CASE i > buffer_pos - 1
      <3>1. ~(i < Len(typed')) /\ ~(i < Len(typed)) /\ i # buffer_pos - 1
        BY <1>0, <1>1, <2>0, <2>3
      <3> QED BY <1>0, <1>2, <3>1 DEF LineHeld, Holds
    <2> QED BY <1>0, <2>0, <2>1, <2>2, <2>3
  <1>4. input_buffer' \in [Slots -> Text]
    BY <1>0, <1>2
  <1> QED BY <1>0, <1>1, <1>2, <1>3, <1>4 DEF LineHeld, Holds

LEMMA EmptyHeld == Holds(EmptyBuffer, <<>>)
  <1>1. <<>> \in Seq(Chars) /\ Len(<<>>) = 0
    OBVIOUS
  <1>2. ASSUME NEW i \in Slots PROVE ~(i < 0) /\ EmptyBuffer[i] = NUL
    BY BufferFacts DEF EmptyBuffer
  <1> QED BY <1>1, <1>2, EmptyFacts, BufferFacts DEF Holds

LEMMA HeldStep == LineHeld /\ [Next]_vars => LineHeld'
  <1> SUFFICES ASSUME LineHeld, [Next]_vars PROVE LineHeld'
    OBVIOUS
  <1>1. ASSUME UNCHANGED <<input_buffer, buffer_pos, typed>> PROVE LineHeld'
    BY <1>1 DEF LineHeld
  <1>2. ASSUME NEW key \in Modifiers, ModifierDown(key) \/ ModifierUp(key) PROVE LineHeld'
    BY <1>1, <1>2 DEF ModifierDown, ModifierUp
  <1>3. CASE EnterDown
    <2>1. input_buffer' = EmptyBuffer /\ buffer_pos' = 0 /\ typed' = <<>>
      BY <1>3 DEF EnterDown, shell_clear_buffer
    <2> QED BY <2>1, EmptyHeld DEF LineHeld
  <1>4. CASE BackspaceDown
    BY <1>4, EraseHeld DEF BackspaceDown
  <1>5. ASSUME NEW key \in CharKeys, CharDown(key) PROVE LineHeld'
    <2>1. PICK c : c = scancode_to_ascii(key, "SHIFT_PRESSED" \in keyboard_state)
      OBVIOUS
    <2>2. c \in Text /\ StoreChar(c) /\ typed' = Append(typed, c)
      BY <1>5, <2>1, AsciiFacts DEF CharDown
    <2>3. c \in Chars
      BY <2>2 DEF StoreChar, Text
    <2> QED BY <2>2, <2>3, CharHeld
  <1>6. CASE HaltDown \/ UNCHANGED vars
    BY <1>1, <1>6 DEF HaltDown, vars
  <1> QED BY <1>2, <1>3, <1>4, <1>5, <1>6 DEF Next, Halted

LEMMA HeldStart == Init => LineHeld
  BY EmptyHeld DEF Init, LineHeld

\* Whatever was typed, erased or refused before, the arguments of the command that
\* Enter would run are the words of the line the user sees, in their order.
THEOREM ArgsRight == Spec => []ArgsAreWords
  <1>1. LineHeld => ArgsAreWords
    BY Entered
  <1> QED BY <1>1, HeldStart, HeldStep, PTL DEF Spec

----------------------------------------------------------------------------
\* The screen.

LEMMA WriteClean ==
    ASSUME NEW t, Clean(t), NEW text \in Seq(Chars \cup {Newline})
    PROVE  Clean(terminal_write(t, text))
  <1>1. PICK w : /\ terminal_write(t, text) = w[Len(text)]
                 /\ \A n \in 0 .. Len(text) : Clean(w[n])
    BY WritesExist
  <1>2. Len(text) \in 0 .. Len(text)
    OBVIOUS
  <1> QED BY <1>1, <1>2

\* A sequence of characters is a text.
LEMMA CharsText ==
    ASSUME NEW text \in Seq(Chars)
    PROVE  text \in Seq(Chars \cup {Newline})
  OBVIOUS

\* The loop of cmd_echo.
LEMMA EchoClean ==
    ASSUME NEW t, Clean(t), NEW argv \in Seq(Seq(Chars)), argv # <<>>
    PROVE  Clean(cmd_echo(t, argv))
  <1> DEFINE S == {s \in Screen : Fresh(s)}
             N == Len(argv) - 1
             spaced(i, s) == IF i > 1 THEN terminal_putchar(s, Blank) ELSE s
             G == [i \in 1 .. N |-> [s \in S |-> terminal_write(spaced(i, s), argv[i + 1])]]
             Step(f) == [i \in 0 .. Len(argv) - 1 |->
                            IF i = 0 THEN t
                            ELSE terminal_write(IF i > 1 THEN terminal_putchar(f[i - 1], Blank)
                                                ELSE f[i - 1],
                                                argv[i + 1])]
             v == CHOOSE f : f = Step(f)
  <1>1. t \in S /\ N \in Nat /\ Len(argv) - 1 = N
    BY DEF Clean
  <1>2. ASSUME NEW i \in 1 .. N, NEW s \in S
        PROVE  terminal_write(spaced(i, s), argv[i + 1]) \in S
    <2>1. i + 1 \in 1 .. Len(argv)
      BY <1>1
    <2>2. argv[i + 1] \in Seq(Chars)
      BY <2>1
    <2>3. argv[i + 1] \in Seq(Chars \cup {Newline})
      BY <2>2, CharsText
    <2>4. Clean(s) /\ Blank \in Chars \cup {Newline}
      BY BlankIsChar DEF Clean
    <2>5. Clean(spaced(i, s))
      BY <2>4, PutClean
    <2> HIDE DEF spaced
    <2>6. Clean(terminal_write(spaced(i, s), argv[i + 1]))
      BY <2>3, <2>5, WriteClean
    <2> QED BY <2>6 DEF Clean
  <1>3. PICK f : f \in [0 .. N -> S] /\ f[0] = t /\ \A i \in 1 .. N : f[i] = G[i][f[i - 1]]
    <2>1. Body(S, N, G)
      <3> HIDE DEF S, N, spaced
      <3> QED BY <1>2 DEF Body
    <2> HIDE DEF S, N, G
    <2>2. \E f : Runs(f, S, t, N, G)
      BY <1>1, <2>1, Loop
    <2> QED BY <2>2 DEF Runs
  <1>4. f = Step(f)
    <2>1. ASSUME NEW i \in 0 .. N PROVE f[i] = Step(f)[i]
      <3>1. CASE i = 0
        BY <1>3, <3>1
      <3>2. CASE i # 0
        <4>1. i \in 1 .. N /\ i - 1 \in 0 .. N
          BY <1>1, <3>2
        <4>2. f[i - 1] \in S
          BY <1>3, <4>1
        <4>3. f[i] = terminal_write(spaced(i, f[i - 1]), argv[i + 1])
          <5> HIDE DEF S, spaced
          <5> QED BY <1>3, <4>1, <4>2
        <4> QED BY <3>2, <4>3
      <3> QED BY <3>1, <3>2
    <2>2. f = [i \in 0 .. N |-> f[i]]
      BY <1>3
    <2>3. Step(f) = [i \in 0 .. N |-> Step(f)[i]]
      OBVIOUS
    <2> HIDE DEF Step, N
    <2> QED BY <2>1, <2>2, <2>3
  <1>5. v = Step(v)
    <2> HIDE DEF Step
    <2> QED BY <1>4
  <1>6. cmd_echo(t, argv) = terminal_putchar(v[Len(argv) - 1], Newline)
    BY DEF cmd_echo
  <1> HIDE DEF v
  <1> DEFINE T == {i \in 0 .. N : v[i] \in S}
  <1>7. 0 \in T
    BY <1>1, <1>5
  <1>8. ASSUME NEW i \in 1 .. N, i - 1 \in T PROVE i \in T
    <2>1. i \in 0 .. N /\ i # 0 /\ v[i - 1] \in S
      BY <1>1, <1>8
    <2>2. v[i] = terminal_write(spaced(i, v[i - 1]), argv[i + 1])
      BY <1>5, <2>1
    <2> HIDE DEF S, spaced
    <2> QED BY <1>2, <2>1, <2>2
  <1>9. N \in T
    <2> HIDE DEF T, N
    <2>1. 0 .. N \subseteq T
      BY <1>1, <1>7, <1>8, UpTo
    <2> QED BY <1>1, <2>1
  <1>10. Clean(v[N]) /\ Newline \in Chars \cup {Newline}
    BY <1>9 DEF Clean
  <1> QED BY <1>6, <1>10, PutClean

LEMMA ExecuteClean ==
    ASSUME NEW t, Clean(t), NEW argv \in Seq(Seq(Chars)), NEW s \in shell_execute_command(t, argv)
    PROVE  Clean(s)
  <1>1. CASE argv = <<>>
    BY <1>1 DEF shell_execute_command
  <1>2. CASE argv # <<>>
    <2>1. argv[1] \in Seq(Chars)
      BY <1>2
    <2>2. Append(argv[1], Newline) \in Seq(Chars \cup {Newline})
      <3>1. argv[1] \in Seq(Chars \cup {Newline})
        BY <2>1, CharsText
      <3> QED BY <3>1
    <2>3. \/ s = terminal_clear \/ s = cmd_echo(t, argv)
          \/ s = terminal_write(t, Append(argv[1], Newline)) \/ s \in cmd_print(t)
      BY <1>2 DEF shell_execute_command
    <2>4. ASSUME s \in cmd_print(t) PROVE Clean(s)
      BY <2>4, WriteClean, ShellConstants DEF cmd_print
    <2>5. Clean(terminal_clear)
      BY ClearFacts DEF Clean
    <2> QED BY <1>2, <2>2, <2>3, <2>4, <2>5, EchoClean, WriteClean
  <1> QED BY <1>1, <1>2

\* The screen stays clean, given the line.
LEMMA CleanStep ==
    ASSUME Clean(terminal), LineHeld, [Next]_vars
    PROVE  Clean(terminal)'
  <1>0. Newline \in Chars \cup {Newline} /\ SHELL_PROMPT \in Seq(Chars \cup {Newline})
    BY ShellConstants, CharsText
  <1>1. ASSUME UNCHANGED terminal PROVE Clean(terminal)'
    BY <1>1 DEF Clean
  <1>2. ASSUME NEW key \in Modifiers, ModifierDown(key) \/ ModifierUp(key) PROVE Clean(terminal)'
    BY <1>1, <1>2 DEF ModifierDown, ModifierUp
  <1>a. ASSUME NEW t \in shell_execute_command(terminal_putchar(terminal, Newline), EnteredArgs)
        PROVE  Clean(t)
    <2>1. Clean(terminal_putchar(terminal, Newline))
      BY <1>0, PutClean
    <2>2. EnteredArgs \in Seq(Seq(Chars))
      BY Entered
    <2> QED BY <1>a, <2>1, <2>2, ExecuteClean
  <1>3. CASE EnterDown
    <2>1. PICK t \in shell_execute_command(terminal_putchar(terminal, Newline), EnteredArgs) :
              terminal' = terminal_write(t, SHELL_PROMPT)
      BY <1>3 DEF EnterDown
    <2>2. Clean(terminal_write(t, SHELL_PROMPT))
      BY <1>0, <1>a, WriteClean
    <2>3. Clean(terminal')
      BY <2>1, <2>2
    <2> QED BY <2>3 DEF Clean, Fresh
  <1>4. CASE HaltDown
    <2>1. Clean(terminal')
      BY <1>4, <1>a DEF HaltDown
    <2> QED BY <2>1 DEF Clean, Fresh
  <1>5. CASE BackspaceDown
    <2>1. Clean(erase_last(terminal))
      BY EraseFacts DEF Clean
    <2>2. terminal' = erase_last(terminal)
      BY <1>5 DEF BackspaceDown
    <2>3. Clean(terminal')
      BY <2>1, <2>2
    <2> QED BY <2>3 DEF Clean, Fresh
  <1>6. ASSUME NEW key \in CharKeys, CharDown(key) PROVE Clean(terminal)'
    <2>1. PICK c : c = scancode_to_ascii(key, "SHIFT_PRESSED" \in keyboard_state)
      OBVIOUS
    <2>2. c \in Text /\ c # NUL /\ terminal' = terminal_putchar(terminal, c)
      BY <1>6, <2>1, AsciiFacts DEF CharDown, StoreChar
    <2>3. c \in Chars \cup {Newline}
      BY <2>2 DEF Text
    <2>4. Clean(terminal')
      BY <2>2, <2>3, PutClean
    <2> QED BY <2>4 DEF Clean, Fresh
  <1>7. CASE UNCHANGED vars
    BY <1>1, <1>7 DEF vars
  <1> QED BY <1>2, <1>3, <1>4, <1>5, <1>6, <1>7 DEF Next, Halted

LEMMA CleanStart == Init => Clean(terminal)
  <1> SUFFICES ASSUME Init PROVE Clean(terminal)
    OBVIOUS
  <1>1. SHELL_PROMPT \in Seq(Chars \cup {Newline}) /\ Clean(terminal_clear)
    BY ShellConstants, CharsText, ClearFacts DEF Clean
  <1> QED BY <1>1, WriteClean DEF Init

LEMMA ScreenAlways == Spec => [](Clean(terminal) /\ LineHeld)
  <1>1. Clean(terminal) /\ LineHeld /\ [Next]_vars => (Clean(terminal) /\ LineHeld)'
    BY CleanStep, HeldStep
  <1> QED BY <1>1, CleanStart, HeldStart, PTL DEF Spec

\* Whatever is typed and whatever the commands print, the cursor stays on the
\* screen and the line in its buffer.
THEOREM ShellSafe == Spec => []TypeOK
  <1>1. Clean(terminal) => TerminalType
    BY DEF Clean, TerminalType, Screen
  <1>2. LineType /\ BufferEnds /\ TerminalType => TypeOK
    BY DEF TypeOK
  <1> QED BY <1>1, <1>2, ScreenAlways, LineSafe, PTL

----------------------------------------------------------------------------
\* The line on the screen, at its distance from the cursor.

LEMMA TimesMonotone ==
    ASSUME NEW W \in Nat, NEW a \in Int, NEW b \in Int, a < b
    PROVE  a * W + W <= b * W
  <1>1. b - a - 1 \in Nat
    OBVIOUS
  <1>2. (b - a - 1) * W >= 0
    BY <1>1
  <1>3. (b - a - 1) * W = b * W - a * W - W
    OBVIOUS
  <1>4. a * W \in Int /\ b * W \in Int
    OBVIOUS
  <1> QED BY <1>2, <1>3, <1>4

\* A cell is known by its place in the order of the screen.
LEMMA CellOnce ==
    ASSUME NEW W \in Nat, NEW y1 \in Int, NEW y2 \in Int, NEW x1 \in 0 .. W - 1,
           NEW x2 \in 0 .. W - 1, y1 * W + x1 = y2 * W + x2
    PROVE  y1 = y2 /\ x1 = x2
  <1>1. y1 * W \in Int /\ y2 * W \in Int
    OBVIOUS
  <1>2. ~(y1 < y2)
    <2> SUFFICES ASSUME y1 < y2 PROVE FALSE
      OBVIOUS
    <2>1. y1 * W + W <= y2 * W
      BY TimesMonotone
    <2> QED BY <1>1, <2>1
  <1>3. ~(y2 < y1)
    <2> SUFFICES ASSUME y2 < y1 PROVE FALSE
      OBVIOUS
    <2>1. y2 * W + W <= y1 * W
      BY TimesMonotone
    <2> QED BY <1>1, <2>1
  <1>4. y1 = y2
    BY <1>2, <1>3
  <1>5. y1 * W = y2 * W
    BY <1>4
  <1> QED BY <1>1, <1>4, <1>5

LEMMA Place ==
    ASSUME NEW W \in Nat, W > 0, NEW H \in Nat, NEW n \in Nat, n < H * W
    PROVE  /\ n \div W \in 0 .. H - 1 /\ n % W \in 0 .. W - 1
           /\ (n \div W) * W + (n % W) = n
  <1>1. PICK q, r : q = n \div W /\ r = n % W
    OBVIOUS
  <1>2. r \in 0 .. W - 1 /\ q \in Int
    BY <1>1
  <1>3. n = W * q + r
    BY <1>1
  <1>4. q * W \in Int /\ W * q = q * W /\ H * W \in Int
    BY <1>2
  <1>5. ~(q < 0)
    <2> SUFFICES ASSUME q < 0 PROVE FALSE
      OBVIOUS
    <2>1. q * W + W <= 0 * W
      BY <1>2, TimesMonotone
    <2> QED BY <1>2, <1>3, <1>4, <2>1
  <1>6. ~(H <= q)
    <2> SUFFICES ASSUME H <= q PROVE FALSE
      OBVIOUS
    <2>1. CASE H = q
      BY <1>2, <1>3, <1>4, <2>1
    <2>2. CASE H < q
      <3>1. H * W + W <= q * W
        BY <1>2, <2>2, TimesMonotone
      <3> QED BY <1>2, <1>3, <1>4, <3>1
    <2> QED BY <1>2, <2>1, <2>2
  <1>7. q \in 0 .. H - 1
    BY <1>2, <1>5, <1>6
  <1>8. q * W + r = n
    BY <1>2, <1>3, <1>4
  <1>9. n \div W \in 0 .. H - 1
    BY <1>1, <1>7
  <1>10. n % W \in 0 .. W - 1
    BY <1>1, <1>2
  <1>11. (n \div W) * W + (n % W) = n
    <2>1. n \div W = q /\ n % W = r
      BY <1>1
    <2> QED BY <1>8, <2>1, Zenon
  <1> QED BY <1>9, <1>10, <1>11

\* How many cells the cell in row y and column x is before the cursor.
Before(t, y, x) == (t.row * VGA_WIDTH + t.column) - (y * VGA_WIDTH + x)

\* The n cells before the cursor, as far as they are on the screen, show the first
\* n characters of text.
Shown(t, text, n) ==
    \A y \in Rows, x \in Columns :
        Before(t, y, x) \in 1 .. n => t.buffer[y][x] = text[n + 1 - Before(t, y, x)]

\* A terminal by its parts; the buffer of t with c at the cursor; a buffer that is
\* scrolled up.
Grid(r, k, b) == [row |-> r, column |-> k, buffer |-> b]
PutBuffer(t, c) == [t.buffer EXCEPT ![t.row][t.column] = c]
UpBuffer(b) == [y \in Rows |-> IF y < VGA_HEIGHT - 1 THEN b[y + 1] ELSE BlankScreen[y]]

LEMMA BufferSet ==
    ASSUME NEW t \in Screen, NEW b
    PROVE  Grid(t.row, t.column, b) = [t EXCEPT !.buffer = b]
  BY DEF Screen, Grid

LEMMA NextRowIs ==
    ASSUME NEW r, NEW k, NEW b
    PROVE  /\ r + 1 = VGA_HEIGHT =>
                 NextRow(Grid(r, k, b)) = Grid(VGA_HEIGHT - 1, 0, UpBuffer(b))
           /\ r + 1 # VGA_HEIGHT => NextRow(Grid(r, k, b)) = Grid(r + 1, 0, b)
  <1>0. PICK put, up : put = Grid(r, k, b) /\ up = UpBuffer(b)
    OBVIOUS
  <1>1. terminal_scroll_up(put) = Grid(r, k, up)
    BY <1>0 DEF terminal_scroll_up, Grid, UpBuffer
  <1>2. put.row = r
    BY <1>0 DEF Grid
  <1>3. ASSUME r + 1 = VGA_HEIGHT
        PROVE  NextRow(put) = Grid(VGA_HEIGHT - 1, 0, up)
    <2>1. PICK scrolled, bottom :
              scrolled = terminal_scroll_up(put) /\ bottom = VGA_HEIGHT - 1
      OBVIOUS
    <2>2. NextRow(put) = [scrolled EXCEPT !.column = 0, !.row = bottom]
      BY <1>2, <1>3, <2>1 DEF NextRow
    <2>3. scrolled = Grid(r, k, up)
      BY <1>1, <2>1
    <2>4. NextRow(put) = Grid(bottom, 0, up)
      BY <2>2, <2>3 DEF Grid
    <2> QED BY <2>1, <2>4
  <1>4. ASSUME r + 1 # VGA_HEIGHT PROVE NextRow(put) = Grid(r + 1, 0, b)
    <2>1. NextRow(put) = [put EXCEPT !.column = 0, !.row = @ + 1]
      BY <1>2, <1>4 DEF NextRow
    <2> QED BY <1>0, <2>1 DEF Grid
  <1> QED BY <1>0, <1>3, <1>4

\* A character goes to the cell at the cursor, which makes the buffer b; at the end
\* of a row the cursor goes to the next one, or everything goes up by a row.
Moved(s, t, b) ==
    \/ s.row = t.row /\ s.column = t.column + 1 /\ s.buffer = b
    \/ t.column + 1 = VGA_WIDTH /\ s.row = t.row + 1 /\ s.column = 0 /\ s.buffer = b
    \/ /\ t.column + 1 = VGA_WIDTH /\ s.row = t.row /\ s.column = 0
       /\ \A y \in Rows : y < t.row => s.buffer[y] = b[y + 1]

LEMMA PutPlaces ==
    ASSUME NEW t \in Screen, NEW c \in Chars
    PROVE  Moved(terminal_putchar(t, c), t, PutBuffer(t, c))
  <1>0. /\ c # Newline /\ t.row \in Nat /\ t.column \in Nat /\ VGA_HEIGHT \in Nat
        /\ \A y \in Rows : y \in Nat
    BY TerminalConstants, CellFacts
  <1>1. PICK b, put, s : /\ b = PutBuffer(t, c) /\ put = Grid(t.row, t.column, b)
                         /\ s = terminal_putchar(t, c)
    OBVIOUS
  <1>2. put = [t EXCEPT !.buffer[t.row][t.column] = c]
    <2>1. put = [t EXCEPT !.buffer = b]
      BY <1>1, BufferSet
    <2>2. [t EXCEPT !.buffer[t.row][t.column] = c] = [t EXCEPT !.buffer = PutBuffer(t, c)]
      BY DEF Screen, PutBuffer
    <2> QED BY <1>1, <2>1, <2>2
  <1>3. CASE t.column + 1 # VGA_WIDTH
    <2>1. s = [put EXCEPT !.column = @ + 1]
      BY <1>0, <1>1, <1>2, <1>3 DEF terminal_putchar
    <2>2. put = Grid(t.row, t.column, b)
      BY <1>1
    <2>3. s = Grid(t.row, t.column + 1, b)
      BY <2>1, <2>2 DEF Grid
    <2>4. Moved(s, t, b)
      BY <2>3 DEF Grid, Moved
    <2> QED BY <1>1, <2>4
  <1>4. CASE t.column + 1 = VGA_WIDTH
    <2>1. s = NextRow(put)
      BY <1>0, <1>1, <1>2, <1>4 DEF terminal_putchar
    <2>2. CASE t.row + 1 # VGA_HEIGHT
      <3>1. s = Grid(t.row + 1, 0, b)
        BY <1>1, <2>1, <2>2, NextRowIs
      <3>2. Moved(s, t, b)
        BY <1>4, <3>1 DEF Grid, Moved
      <3> QED BY <1>1, <3>2
    <2>3. CASE t.row + 1 = VGA_HEIGHT
      <3>1. s = Grid(VGA_HEIGHT - 1, 0, UpBuffer(b))
        BY <1>1, <2>1, <2>3, NextRowIs
      <3>2. VGA_HEIGHT - 1 = t.row
        BY <1>0, <2>3
      <3>3. \A y \in Rows : y < t.row => UpBuffer(b)[y] = b[y + 1]
        BY <3>2 DEF UpBuffer
      <3>4. Moved(s, t, b)
        BY <1>4, <3>1, <3>2, <3>3 DEF Grid, Moved
      <3> QED BY <1>1, <3>4
    <2> QED BY <2>2, <2>3
  <1> QED BY <1>3, <1>4

LEMMA BeforeFacts ==
    ASSUME NEW t \in Screen, NEW y \in Rows, NEW x \in Columns
    PROVE  /\ Before(t, y, x) \in Int
           /\ Before(t, y, x) = 0 => y = t.row /\ x = t.column
           /\ t.row * VGA_WIDTH \in Int /\ y * VGA_WIDTH \in Int /\ x \in Int
           /\ (y + 1) * VGA_WIDTH = y * VGA_WIDTH + VGA_WIDTH
           /\ (t.row + 1) * VGA_WIDTH = t.row * VGA_WIDTH + VGA_WIDTH
  <1>0. /\ VGA_WIDTH \in Nat /\ t.row \in Nat /\ t.column \in 0 .. VGA_WIDTH - 1
        /\ y \in Nat /\ x \in 0 .. VGA_WIDTH - 1
    BY CellFacts DEF Columns
  <1>1. t.row * VGA_WIDTH \in Int /\ y * VGA_WIDTH \in Int
    BY <1>0
  <1>2. Before(t, y, x) \in Int
    BY <1>0, <1>1 DEF Before
  <1>3. ASSUME Before(t, y, x) = 0 PROVE y = t.row /\ x = t.column
    <2>1. y * VGA_WIDTH + x = t.row * VGA_WIDTH + t.column
      BY <1>0, <1>1, <1>3 DEF Before
    <2>2. PICK r, k : r = t.row /\ k = t.column
      OBVIOUS
    <2>3. /\ r \in Int /\ y \in Int /\ k \in 0 .. VGA_WIDTH - 1
          /\ y * VGA_WIDTH + x = r * VGA_WIDTH + k
      BY <1>0, <2>1, <2>2
    <2>4. y = r /\ x = k
      BY <1>0, <2>3, CellOnce
    <2> QED BY <2>2, <2>4
  <1> QED BY <1>0, <1>1, <1>2, <1>3

LEMMA PutShown ==
    ASSUME NEW t, Clean(t), NEW c \in Chars, NEW text, NEW n \in Nat,
           Shown(t, text, n), text[n + 1] = c, NEW s, s = terminal_putchar(t, c)
    PROVE  Shown(s, text, n + 1)
  <1> SUFFICES ASSUME NEW y \in Rows, NEW x \in Columns, Before(s, y, x) \in 1 .. n + 1
               PROVE  s.buffer[y][x] = text[n + 1 + 1 - Before(s, y, x)]
    BY DEF Shown
  <1>0. /\ t \in Screen /\ s \in Screen
        /\ t.row \in Nat /\ t.column \in Nat /\ VGA_WIDTH \in Nat /\ t.row \in Rows
        /\ t.column \in Columns /\ t.buffer \in [Rows -> [Columns -> Chars]]
        /\ s.row \in Nat /\ s.column \in Nat
        /\ y \in Nat /\ x \in Nat /\ x < VGA_WIDTH
    BY PutClean, CellFacts DEF Clean
  <1>1. PICK b : b = PutBuffer(t, c)
    OBVIOUS
  <1>2. /\ b[t.row][t.column] = c
        /\ \A yy \in Rows, xx \in Columns :
              yy # t.row \/ xx # t.column => b[yy][xx] = t.buffer[yy][xx]
    BY <1>0, <1>1 DEF PutBuffer
  \* A cell of b is shown at one more than its distance before.
  <1>3. ASSUME NEW yy \in Rows, Before(t, yy, x) = Before(s, y, x) - 1
        PROVE  b[yy][x] = text[n + 1 + 1 - Before(s, y, x)]
    <2>1. PICK k : k = Before(s, y, x)
      OBVIOUS
    <2>2. k \in 1 .. n + 1 /\ Before(t, yy, x) = k - 1
      BY <1>3, <2>1
    <2>3. CASE k = 1
      <3>1. yy = t.row /\ x = t.column
        BY <1>0, <2>2, <2>3, BeforeFacts
      <3>2. n + 1 + 1 - k = n + 1
        BY <2>3
      <3> QED BY <1>2, <2>1, <3>1, <3>2
    <2>4. CASE k # 1
      <3>1. k - 1 \in 1 .. n /\ n + 1 - (k - 1) = n + 1 + 1 - k
        BY <2>2, <2>4
      <3>2. t.buffer[yy][x] = text[n + 1 - (k - 1)]
        BY <2>2, <3>1 DEF Shown
      <3>3. yy # t.row \/ x # t.column
        <4>1. Before(t, t.row, t.column) = 0
          <5>1. t.row * VGA_WIDTH \in Int
            BY <1>0
          <5> QED BY <1>0, <5>1 DEF Before
        <4> QED BY <2>2, <3>1, <4>1
      <3> QED BY <1>2, <2>1, <3>1, <3>2, <3>3
    <2> QED BY <2>3, <2>4
  <1>4. /\ t.row * VGA_WIDTH \in Int /\ y * VGA_WIDTH \in Int
        /\ (y + 1) * VGA_WIDTH = y * VGA_WIDTH + VGA_WIDTH
        /\ (t.row + 1) * VGA_WIDTH = t.row * VGA_WIDTH + VGA_WIDTH
    BY <1>0, BeforeFacts
  <1>5. CASE s.row = t.row /\ s.column = t.column + 1 /\ s.buffer = b
    <2>1. Before(t, y, x) = Before(s, y, x) - 1
      BY <1>0, <1>4, <1>5 DEF Before
    <2> QED BY <1>3, <1>5, <2>1
  <1>6. CASE /\ t.column + 1 = VGA_WIDTH
             /\ s.row = t.row + 1 /\ s.column = 0 /\ s.buffer = b
    <2>1. Before(t, y, x) = Before(s, y, x) - 1
      BY <1>0, <1>4, <1>6 DEF Before
    <2> QED BY <1>3, <1>6, <2>1
  <1>7. CASE /\ t.column + 1 = VGA_WIDTH
             /\ s.row = t.row /\ s.column = 0
             /\ \A yy \in Rows : yy < t.row => s.buffer[yy] = b[yy + 1]
    <2>1. y < t.row
      <3>1. CASE t.row < y
        <4>1. t.row * VGA_WIDTH + VGA_WIDTH <= y * VGA_WIDTH
          BY <1>0, <3>1, TimesMonotone
        <4>2. Before(s, y, x) <= 0
          BY <1>0, <1>4, <1>7, <4>1 DEF Before
        <4> QED BY <4>2
      <3>2. CASE t.row = y
        <4>1. Before(s, y, x) <= 0
          BY <1>0, <1>4, <1>7, <3>2 DEF Before
        <4> QED BY <4>1
      <3> QED BY <1>0, <3>1, <3>2
    <2>2. y + 1 \in Rows
      BY <1>0, <2>1, CellFacts
    <2>3. Before(t, y + 1, x) = Before(s, y, x) - 1
      BY <1>0, <1>4, <1>7 DEF Before
    <2>4. s.buffer[y][x] = b[y + 1][x]
      BY <1>7, <2>1
    <2> QED BY <1>3, <2>2, <2>3, <2>4
  <1>8. Moved(s, t, b)
    BY <1>0, <1>1, PutPlaces
  <1> QED BY <1>5, <1>6, <1>7, <1>8 DEF Moved

LEMMA EraseShown ==
    ASSUME NEW t, Clean(t), t.column > 0, NEW text, NEW n \in Nat \ {0}, Shown(t, text, n),
           NEW s, s = erase_last(t)
    PROVE  Shown(s, text, n - 1)
  <1> SUFFICES ASSUME NEW y \in Rows, NEW x \in Columns, Before(s, y, x) \in 1 .. n - 1
               PROVE  s.buffer[y][x] = text[n - 1 + 1 - Before(s, y, x)]
    BY DEF Shown
  <1>0. /\ t \in Screen
        /\ t.row \in Nat /\ t.column \in Nat /\ VGA_WIDTH \in Nat /\ t.row \in Rows
        /\ t.column \in Columns /\ t.buffer \in [Rows -> [Columns -> Chars]]
        /\ t.column - 1 \in Columns
        /\ y \in Nat /\ x \in Nat
    BY CellFacts DEF Clean
  <1>1. PICK b : b = [t.buffer EXCEPT ![t.row][t.column - 1] = Blank]
    OBVIOUS
  <1>2. s.row = t.row /\ s.column = t.column - 1 /\ s.buffer = b
    <2>1. s = Grid(t.row, t.column - 1, b)
      BY <1>0, <1>1, EraseFacts DEF Clean, Grid
    <2> QED BY <2>1 DEF Grid
  <1>3. t.row * VGA_WIDTH \in Int /\ y * VGA_WIDTH \in Int
    BY <1>0
  <1>4. PICK k : k = Before(t, y, x)
    OBVIOUS
  <1>5. Before(s, y, x) = k - 1 /\ k \in Int
    BY <1>0, <1>2, <1>3, <1>4 DEF Before
  <1>6. k \in 2 .. n /\ k \in 1 .. n /\ n - 1 + 1 - (k - 1) = n + 1 - k
    BY <1>5
  <1>7. y # t.row \/ x # t.column - 1
    <2>1. Before(t, t.row, t.column - 1) = 1
      BY <1>0, <1>3 DEF Before
    <2> QED BY <1>4, <1>6, <2>1
  <1>8. b[y][x] = t.buffer[y][x]
    BY <1>0, <1>1, <1>7
  <1>9. t.buffer[y][x] = text[n + 1 - k]
    BY <1>4, <1>6 DEF Shown
  <1> QED BY <1>2, <1>5, <1>6, <1>8, <1>9

\* A text that was just written is before the cursor.
LEMMA WriteShown ==
    ASSUME NEW t, Clean(t), NEW text \in Seq(Chars)
    PROVE  Shown(terminal_write(t, text), text, Len(text))
  <1>0. Len(text) \in Nat /\ text \in Seq(Chars \cup {Newline})
    BY CharsText
  <1>1. PICK w : /\ Writes(w, t, text) /\ terminal_write(t, text) = w[Len(text)]
                 /\ \A n \in 0 .. Len(text) : Clean(w[n])
    BY <1>0, WritesExist
  <1> DEFINE N == Len(text)
             T == {n \in 0 .. N : Shown(w[n], text, n)}
  <1>2. 0 \in T
    BY <1>0 DEF Shown
  <1>3. ASSUME NEW n \in 1 .. N, n - 1 \in T PROVE n \in T
    <2>1. n - 1 \in Nat /\ n - 1 + 1 = n /\ n \in 0 .. N /\ n - 1 \in 0 .. N /\ n # 0
      BY <1>0
    <2>2. w[n] = terminal_putchar(w[n - 1], text[n])
      BY <1>1, <2>1 DEF Writes
    <2>3. text[n] \in Chars /\ Clean(w[n - 1]) /\ Shown(w[n - 1], text, n - 1)
      BY <1>1, <1>3, <2>1
    <2>4. Shown(w[n], text, n - 1 + 1)
      <3>1. text[n - 1 + 1] = text[n]
        BY <2>1
      <3> QED BY <2>1, <2>2, <2>3, <3>1, PutShown
    <2> QED BY <2>1, <2>4
  <1>4. N \in T
    <2> HIDE DEF T, N
    <2>1. N \in Nat
      BY <1>0 DEF N
    <2>2. 0 .. N \subseteq T
      BY <1>2, <1>3, <2>1, UpTo
    <2> QED BY <2>1, <2>2
  <1> QED BY <1>1, <1>4

LEMMA ShownSame ==
    ASSUME NEW t \in Screen, NEW text, NEW other, NEW n \in Nat, Shown(t, text, n),
           \A i \in 1 .. n : other[i] = text[i]
    PROVE  Shown(t, other, n)
  <1> SUFFICES ASSUME NEW y \in Rows, NEW x \in Columns, Before(t, y, x) \in 1 .. n
               PROVE  t.buffer[y][x] = other[n + 1 - Before(t, y, x)]
    BY DEF Shown
  <1>1. PICK k : k = Before(t, y, x)
    OBVIOUS
  <1>2. k \in 1 .. n /\ n + 1 - k \in 1 .. n
    BY <1>1
  <1>3. t.buffer[y][x] = text[n + 1 - k]
    BY <1>1, <1>2 DEF Shown
  <1> QED BY <1>1, <1>2, <1>3

\* What the user sees: the prompt and the line.
Line == SHELL_PROMPT \o typed
EchoInv == ~halted => Shown(terminal, Line, Len(Line))

\* now is the prompt, of length P, and a text of length L.
Prompted(now, text, P, L) ==
    /\ Len(now) = P + L
    /\ \A i \in 1 .. P : now[i] = SHELL_PROMPT[i]
    /\ \A i \in P + 1 .. P + L : now[i] = text[i - P]

LEMMA LineIs ==
    ASSUME NEW text \in Seq(Chars)
    PROVE  Prompted(SHELL_PROMPT \o text, text, Len(SHELL_PROMPT), Len(text))
  BY ShellConstants DEF Prompted

LEMMA EchoStep ==
    ASSUME EchoInv, Clean(terminal), LineHeld, [Next]_vars,
           BackspaceDown => terminal.column > 0
    PROVE  EchoInv'
  <1>0. /\ typed \in Seq(Chars) /\ SHELL_PROMPT \in Seq(Chars) /\ Len(typed) \in Nat
        /\ terminal \in Screen /\ Len(typed) = buffer_pos
    BY ShellConstants DEF LineHeld, Holds, Clean
  <1> PICK P, L : P = Len(SHELL_PROMPT) /\ L = Len(typed)
    OBVIOUS
  <1>1. P \in Nat /\ L \in Nat /\ Len(Line) = P + L
    <2>1. P \in Nat /\ L \in Nat
      BY <1>0
    <2>2. Prompted(Line, typed, P, L)
      BY <1>0, LineIs DEF Line
    <2> QED BY <2>1, <2>2 DEF Prompted
  <1>2. ASSUME UNCHANGED <<terminal, typed>>, halted' = halted PROVE EchoInv'
    BY <1>2 DEF EchoInv, Line, Shown, Before
  <1>3. ASSUME NEW t, NEW now, NEW n, t = terminal', now = Line', n = Len(now),
               Shown(t, now, n)
        PROVE  EchoInv'
    BY <1>3 DEF EchoInv, Shown, Before
  <1>4. CASE EnterDown
    <2>1. PICK t \in shell_execute_command(terminal_putchar(terminal, Newline), EnteredArgs) :
              terminal' = terminal_write(t, SHELL_PROMPT)
      BY <1>4 DEF EnterDown
    <2>2. Clean(t)
      <3>1. Newline \in Chars \cup {Newline}
        OBVIOUS
      <3>2. Clean(terminal_putchar(terminal, Newline))
        BY <3>1, PutClean
      <3>3. EnteredArgs \in Seq(Seq(Chars))
        BY Entered
      <3> QED BY <2>1, <3>2, <3>3, ExecuteClean
    <2>3. Shown(terminal_write(t, SHELL_PROMPT), SHELL_PROMPT, Len(SHELL_PROMPT))
      BY <1>0, <2>2, WriteShown
    <2>4. Line' = SHELL_PROMPT
      <3>1. typed' = <<>>
        BY <1>4 DEF EnterDown
      <3> QED BY <1>0, <3>1 DEF Line
    <2>5. PICK s, now, n : s = terminal' /\ now = Line' /\ n = Len(now)
      OBVIOUS
    <2>6. Shown(s, now, n)
      BY <2>1, <2>3, <2>4, <2>5
    <2> QED BY <1>3, <2>5, <2>6
  <1>5. CASE HaltDown
    BY <1>5 DEF HaltDown, EchoInv
  <1>6. CASE BackspaceDown
    <2>1. /\ ~halted /\ terminal' = erase_last(terminal) /\ buffer_pos > 0 /\ terminal.column > 0
          /\ typed' = SubSeq(typed, 1, L - 1)
      BY <1>6 DEF BackspaceDown, EraseChar
    <2>2. PICK new, now, n, s :
              new = typed' /\ now = Line' /\ n = Len(now) /\ s = terminal'
      OBVIOUS
    <2>3. L > 0 /\ P + L \in Nat \ {0} /\ P + L - 1 \in Nat
      BY <1>0, <1>1, <2>1
    <2>4. new \in Seq(Chars) /\ Len(new) = L - 1 /\ \A i \in 1 .. L - 1 : new[i] = typed[i]
      <3>1. L - 1 \in Nat /\ L - 1 <= Len(typed) /\ new = SubSeq(typed, 1, L - 1)
        BY <1>0, <2>1, <2>2, <2>3
      <3> QED BY <1>0, <3>1
    <2>5. Shown(s, Line, P + L - 1) /\ s \in Screen
      <3>1. Shown(terminal, Line, P + L)
        BY <1>1, <2>1 DEF EchoInv
      <3>2. Shown(s, Line, P + L - 1)
        BY <2>1, <2>2, <2>3, <3>1, EraseShown
      <3>3. s \in Screen
        BY <2>1, <2>2, EraseFacts DEF Clean
      <3> QED BY <3>2, <3>3
    <2>6. now = SHELL_PROMPT \o new /\ Line = SHELL_PROMPT \o typed
      BY <2>2 DEF Line
    <2>7. /\ n = P + L - 1
          /\ \A i \in 1 .. P + L - 1 : now[i] = Line[i]
      <3>1. /\ Len(now) = P + (L - 1)
            /\ \A i \in 1 .. P : now[i] = SHELL_PROMPT[i]
            /\ \A i \in P + 1 .. P + (L - 1) : now[i] = new[i - P]
        <4>1. PICK M : M = L - 1
          OBVIOUS
        <4>2. /\ new \in Seq(Chars) /\ now = SHELL_PROMPT \o new
              /\ P = Len(SHELL_PROMPT) /\ M = Len(new)
          BY <2>4, <2>6, <4>1
        <4>3. Prompted(now, new, P, M)
          BY <4>2, LineIs
        <4> QED BY <4>1, <4>3 DEF Prompted
      <3>2. /\ \A i \in 1 .. P : Line[i] = SHELL_PROMPT[i]
            /\ \A i \in P + 1 .. P + L : Line[i] = typed[i - P]
        <4>1. Prompted(Line, typed, P, L)
          BY <1>0, <2>6, LineIs
        <4> QED BY <4>1 DEF Prompted
      <3>3. ASSUME NEW i \in 1 .. P + L - 1 PROVE now[i] = Line[i]
        <4>1. CASE i <= P
          BY <1>1, <3>1, <3>2, <4>1
        <4>2. CASE i > P
          <5>1. i \in P + 1 .. P + (L - 1) /\ i \in P + 1 .. P + L /\ i - P \in 1 .. L - 1
            BY <1>1, <2>3, <4>2
          <5> QED BY <2>4, <3>1, <3>2, <5>1
        <4> QED BY <1>1, <4>1, <4>2
      <3>4. P + (L - 1) = P + L - 1
        BY <1>1
      <3> QED BY <2>2, <3>1, <3>3, <3>4
    <2>8. Shown(s, now, n)
      BY <2>3, <2>5, <2>7, ShownSame
    <2> QED BY <1>3, <2>2, <2>8
  <1>7. ASSUME NEW key \in CharKeys, CharDown(key) PROVE EchoInv'
    <2>0. PICK c : c = scancode_to_ascii(key, "SHIFT_PRESSED" \in keyboard_state)
      OBVIOUS
    <2>1. /\ ~halted /\ terminal' = terminal_putchar(terminal, c) /\ c \in Text /\ c # NUL
          /\ typed' = Append(typed, c)
      BY <1>7, <2>0, AsciiFacts DEF CharDown, StoreChar
    <2>2. PICK new, now, n, s :
              new = typed' /\ now = Line' /\ n = Len(now) /\ s = terminal'
      OBVIOUS
    <2>3. c \in Chars
      BY <2>1 DEF Text
    <2>4. /\ new \in Seq(Chars) /\ Len(new) = L + 1 /\ new[L + 1] = c
          /\ \A i \in 1 .. L : new[i] = typed[i]
      BY <1>0, <2>1, <2>2, <2>3
    <2>5. now = SHELL_PROMPT \o new /\ Line = SHELL_PROMPT \o typed
      BY <2>2 DEF Line
    <2>6. /\ n = P + L + 1 /\ now[P + L + 1] = c
          /\ \A i \in 1 .. P + L : now[i] = Line[i]
      <3>1. /\ Len(now) = P + (L + 1)
            /\ \A i \in 1 .. P : now[i] = SHELL_PROMPT[i]
            /\ \A i \in P + 1 .. P + (L + 1) : now[i] = new[i - P]
        <4>1. PICK M : M = L + 1
          OBVIOUS
        <4>2. /\ new \in Seq(Chars) /\ now = SHELL_PROMPT \o new
              /\ P = Len(SHELL_PROMPT) /\ M = Len(new)
          BY <2>4, <2>5, <4>1
        <4>3. Prompted(now, new, P, M)
          BY <4>2, LineIs
        <4> QED BY <4>1, <4>3 DEF Prompted
      <3>2. /\ \A i \in 1 .. P : Line[i] = SHELL_PROMPT[i]
            /\ \A i \in P + 1 .. P + L : Line[i] = typed[i - P]
        <4>1. Prompted(Line, typed, P, L)
          BY <1>0, <2>5, LineIs
        <4> QED BY <4>1 DEF Prompted
      <3>3. ASSUME NEW i \in 1 .. P + L PROVE now[i] = Line[i]
        <4>1. CASE i <= P
          BY <1>1, <3>1, <3>2, <4>1
        <4>2. CASE i > P
          <5>1. i \in P + 1 .. P + (L + 1) /\ i \in P + 1 .. P + L /\ i - P \in 1 .. L
            BY <1>1, <4>2
          <5> QED BY <2>4, <3>1, <3>2, <5>1
        <4> QED BY <1>1, <4>1, <4>2
      <3>4. P + (L + 1) = P + L + 1 /\ P + L + 1 \in P + 1 .. P + (L + 1) /\ P + L + 1 - P = L + 1
        BY <1>1
      <3>5. now[P + L + 1] = new[L + 1]
        BY <3>1, <3>4
      <3> QED BY <2>2, <2>4, <3>1, <3>3, <3>4, <3>5
    <2>7. Shown(terminal, now, P + L)
      <3>1. Shown(terminal, Line, P + L) /\ P + L \in Nat
        BY <1>1, <2>1 DEF EchoInv
      <3> QED BY <1>0, <2>6, <3>1, ShownSame
    <2>8. Shown(s, now, P + L + 1)
      <3>1. P + L \in Nat
        BY <1>1
      <3> QED BY <2>1, <2>2, <2>3, <2>6, <2>7, <3>1, PutShown
    <2>9. Shown(s, now, n)
      BY <2>6, <2>8
    <2> QED BY <1>3, <2>2, <2>9
  <1>8. ASSUME NEW key \in Modifiers, ModifierDown(key) \/ ModifierUp(key) PROVE EchoInv'
    BY <1>2, <1>8 DEF ModifierDown, ModifierUp
  <1>9. CASE UNCHANGED vars
    BY <1>2, <1>9 DEF vars
  <1> QED BY <1>4, <1>5, <1>6, <1>7, <1>8, <1>9 DEF Next, Halted

LEMMA EchoStart == Init => EchoInv
  <1> SUFFICES ASSUME Init PROVE EchoInv
    OBVIOUS
  <1>1. terminal = terminal_write(terminal_clear, SHELL_PROMPT) /\ typed = <<>>
    BY DEF Init
  <1>2. SHELL_PROMPT \in Seq(Chars) /\ Clean(terminal_clear)
    BY ShellConstants, ClearFacts DEF Clean
  <1>3. Line = SHELL_PROMPT
    BY <1>1, <1>2 DEF Line
  <1> QED BY <1>1, <1>2, <1>3, WriteShown DEF EchoInv

\* The cells of EchoShown are those of Shown.
LEMMA EchoCells ==
    ASSUME EchoInv, Clean(terminal), LineHeld
    PROVE  EchoShown
  <1>0. typed \in Seq(Chars) /\ terminal \in Screen
    BY DEF LineHeld, Holds, Clean
  <1> PICK L, r, k : L = Len(Line) /\ r = terminal.row /\ k = terminal.column
    OBVIOUS
  <1>1. /\ L \in Nat /\ r \in Nat /\ k \in Nat /\ r < VGA_HEIGHT /\ k < VGA_WIDTH
        /\ VGA_WIDTH \in Nat /\ VGA_WIDTH > 0 /\ VGA_HEIGHT \in Nat
    <2>1. Len(Line) \in Nat
      BY <1>0, ShellConstants DEF Line
    <2> QED BY <1>0, <2>1, CellFacts
  <1>2. PICK cursor : cursor = r * VGA_WIDTH + k
    OBVIOUS
  <1>3. cursor \in Nat /\ cursor < VGA_HEIGHT * VGA_WIDTH /\ VGA_HEIGHT * VGA_WIDTH \in Int
    <2>1. r * VGA_WIDTH + VGA_WIDTH <= VGA_HEIGHT * VGA_WIDTH
      <3>1. PICK a, b, W : a = r /\ b = VGA_HEIGHT /\ W = VGA_WIDTH
        OBVIOUS
      <3>2. a \in Int /\ b \in Int /\ W \in Nat /\ a < b
        BY <1>1, <3>1
      <3>3. a * W + W <= b * W
        BY <3>2, TimesMonotone
      <3> QED BY <3>1, <3>3
    <2>2. r * VGA_WIDTH \in Nat /\ VGA_HEIGHT * VGA_WIDTH \in Int
      BY <1>1
    <2>3. PICK m, all : m = r * VGA_WIDTH /\ all = VGA_HEIGHT * VGA_WIDTH
      OBVIOUS
    <2>4. m \in Nat /\ all \in Int /\ m + VGA_WIDTH <= all /\ cursor = m + k
      BY <1>2, <2>1, <2>2, <2>3
    <2>5. cursor \in Nat /\ cursor < all
      BY <1>1, <2>4
    <2> QED BY <2>3, <2>4, <2>5
  <1>4. ASSUME ~halted, cursor - L >= 0, NEW i \in 1 .. L, NEW n, n = cursor - L + i - 1
        PROVE  terminal.buffer[n \div VGA_WIDTH][n % VGA_WIDTH] = Line[i]
    <2>1. n \in Nat /\ n < VGA_HEIGHT * VGA_WIDTH
      BY <1>1, <1>3, <1>4
    <2>2. PICK y, x : y = n \div VGA_WIDTH /\ x = n % VGA_WIDTH
      OBVIOUS
    <2>3. y \in Rows /\ x \in Columns /\ y * VGA_WIDTH + x = n
      BY <1>1, <2>1, <2>2, Place DEF Rows, Columns
    <2>4. Before(terminal, y, x) = L + 1 - i
      <3>1. Before(terminal, y, x) = cursor - n
        BY <1>2, <2>3 DEF Before
      <3> QED BY <1>1, <1>3, <1>4, <3>1
    <2>5. L + 1 - i \in 1 .. L /\ L + 1 - (L + 1 - i) = i
      BY <1>1
    <2>6. terminal.buffer[y][x] = Line[L + 1 - (L + 1 - i)]
      BY <1>4, <2>3, <2>4, <2>5 DEF EchoInv, Shown
    <2> QED BY <2>2, <2>5, <2>6
  <1>5. ~halted /\ cursor - L >= 0 =>
            \A i \in 1 .. L : LET n == cursor - L + i - 1
                              IN  terminal.buffer[n \div VGA_WIDTH][n % VGA_WIDTH] = Line[i]
    BY <1>4
  <1> QED BY <1>2, <1>5 DEF EchoShown, Line

\* No character is taken back while the cursor is in column 0, where shell_backspace
\* shortens the line and leaves the screen as it is.
NoEraseAtEdge == [][BackspaceDown => terminal.column > 0]_vars

\* As long as that does not happen the screen shows the prompt and the line the user
\* typed, however long the line, wherever it wraps and whatever the screen has
\* scrolled: shell_process_input and shell_backspace keep buffer and screen together.
THEOREM EchoTrue == Spec /\ NoEraseAtEdge => []EchoShown
  <1>1. EchoInv /\ Clean(terminal) /\ LineHeld /\ [Next]_vars
            /\ [BackspaceDown => terminal.column > 0]_vars => EchoInv'
    <2> SUFFICES ASSUME EchoInv, Clean(terminal), LineHeld, [Next]_vars,
                        [BackspaceDown => terminal.column > 0]_vars
                 PROVE  EchoInv'
      OBVIOUS
    <2>1. CASE BackspaceDown => terminal.column > 0
      BY <2>1, EchoStep
    <2>2. CASE UNCHANGED vars
      BY <2>2 DEF vars, EchoInv, Line, Shown, Before
    <2> QED BY <2>1, <2>2
  <1>2. EchoInv /\ Clean(terminal) /\ LineHeld => EchoShown
    BY EchoCells
  <1> QED BY <1>1, <1>2, EchoStart, ScreenAlways, PTL DEF Spec, NoEraseAtEdge
=============================================================================
