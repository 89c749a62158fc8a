\* After enableints, with IRQ1 at any point of the polling loop.
SPECIFICATION IntSpec
CONSTANTS
    VGA_WIDTH = 8
    VGA_HEIGHT = 2
    Glyphs = {"a", "A", ">"}
    SHELL_BUFFER_SIZE = 4
    SHELL_MAX_ARGS = 2
    SHELL_PROMPT <- MCPrompt
    Modifiers = {"lshift", "lctrl"}
    CharKeys = {"a", "space", "esc"}
    Ascii <- MCAscii
    AsciiShift <- MCAsciiShift
    Commands <- MCCommands
    Outputs <- MCOutputs
INVARIANTS
    IntTypeOK
    BufferEnds
PROPERTY HandlerReturns
