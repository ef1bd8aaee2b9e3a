SPECIFICATION Spec
CONSTANTS
    ncpu = 2
    NR_TASKS = 4
    TIME_QUANT = 1
    TICK_MOD = 2
    SPILL_WORDS = 1
    SleepArgs = {1}
    Forkers = {0, 2}
    Sleepers = {2, 3}
    Killers = {3}
    MemoryMayFail = TRUE
INVARIANTS TableSound
CHECK_DEADLOCK FALSE
