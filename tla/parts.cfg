\* Interrupt numbers: 32 and 33 have handlers, 5 has none, 256 lies behind the table;
\* 5 and 256 also make irq_ack address the slave PIC.  A screen small enough to wrap
\* and scroll after a few characters.  Any code calls any function of fs.c.
SPECIFICATION PartsSpec
CONSTANTS
    IntNos = {5, 32, 33, 256}
    MaxKeys = 3
    VGA_WIDTH = 3
    VGA_HEIGHT = 3
    Glyphs = {"a", "b"}
    FS_MAX_FILES = 4
    FS_MAX_FILENAME = 3
    FS_MAX_FILESIZE = 3
    Byte = {1, 2}
    Names <- MCNames
    Contents <- MCContents
    DemoFiles <- MCDemoFiles
INVARIANTS
    TypeOK
    NestsAfterSti
    NoStuckService
    MainInterruptible
    NoKeyLost
    ReadyForInterrupts
    BlankAhead
    FsTypeOK
    DemoLoaded
PROPERTIES
    KeyRead
    ImplementsTeletype
    ReadOnly
    ImplementsFileStore
