\* A request that rounding takes past the largest size_t.
SPECIFICATION HistorySpec
CONSTANTS
    KERNEL_HEAP_START = 4
    KERNEL_HEAP_SIZE = 48
    HDR = 4
    ALIGN = 2
    MIN_SPLIT = 8
    PTR = 1
    SIZE_MOD = 100
    Sizes = {1, 13, 99}
    CallocArgs <- MCCallocArgs
    AlignedArgs <- MCAlignedArgs
    ReallocSizes = {1, 9}
    MaxAllocs = 4
INVARIANT RequestFits
