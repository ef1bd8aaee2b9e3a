SPECIFICATION FairSpec
CONSTANTS
    ncpu = 2
    NR_TASKS = 5
    TIME_QUANT = 2
    TICK_MOD = 4
    SPILL_WORDS = 2
    SleepArgs = {0, 2}
    Forkers = {0}
    Sleepers = {2, 3, 4}
    Killers = {}
    MemoryMayFail = FALSE
INVARIANTS ListsSound OneCpuPerTask
PROPERTIES IdleLast SleepersWake
