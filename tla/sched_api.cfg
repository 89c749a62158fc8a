\* Any code calls any scheduler function, and the timer interrupts task_create.
SPECIFICATION IntSpec
CONSTANTS
    MAX_TASKS = 3
    TIME_SLICE = 1
    WARMUP_TICKS = 1
    UINT_MOD = 3
    SleepArgs = {1}
    Workers = {}
INVARIANTS
    TypeOK
    RunningIsCurrent
    
    EndsAgreeUnlessRaced
