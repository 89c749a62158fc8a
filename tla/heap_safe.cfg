\* All of mm.c, krealloc included; no request is so large that rounding it wraps.
SPECIFICATION HistorySpec
CONSTANTS
    KERNEL_HEAP_START = 4
    KERNEL_HEAP_SIZE = 48
    HDR = 4
    ALIGN = 2
    MIN_SPLIT = 8
    PTR = 1
    SIZE_MOD = 100
    Sizes = {1, 13}
    CallocArgs <- MCCallocArgs
    AlignedArgs <- MCAlignedArgs
    ReallocSizes = {1, 9}
    MaxAllocs = 4
INVARIANTS
    Tiled
    AllFreedRestores
    WalkFindsLowest
    IntegrityHolds
    Coalesced
    PayloadsAligned
    StatsAgree
PROPERTIES
    ImplementsAllocator
    MergeReturns
