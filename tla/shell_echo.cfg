\* The same screen: characters are taken back where the line has wrapped.
SPECIFICATION Spec
CONSTANTS
    VGA_WIDTH = 4
    VGA_HEIGHT = 2
    Glyphs = {"a", "A", ">"}
    SHELL_BUFFER_SIZE = 6
    SHELL_MAX_ARGS = 3
    SHELL_PROMPT <- MCPrompt
    Modifiers = {"lshift", "rshift", "grey"}
    CharKeys = {"a", "space", "esc"}
    Ascii <- MCAscii
    AsciiShift <- MCAsciiShift
    Commands <- MCCommands
    Outputs <- MCOutputs
INVARIANT EchoShown
