SPECIFICATION IdleSpec
CONSTANTS
    MAX_TASKS = 3
    TIME_SLICE = 2
    WARMUP_TICKS = 1
    UINT_MOD = 6
    SleepArgs = {1, 2}
    Workers = {"task_counter"}
INVARIANT SliceBounded
