\* memtest entered again while it runs.
SPECIFICATION TestSpec
CONSTANTS
    KERNEL_HEAP_START = 4
    KERNEL_HEAP_SIZE = 64
    HDR = 4
    ALIGN = 2
    MIN_SPLIT = 8
    PTR = 1
    SIZE_MOD = 100
    Sizes = {6, 12}
    CallocArgs = {}
    AlignedArgs = {}
    ReallocSizes = {}
    MaxAllocs = 4
    TestSizes <- MCTestSizes
INVARIANT MergesListed
CHECK_DEADLOCK FALSE
