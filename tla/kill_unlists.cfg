SPECIFICATION Spec
CONSTANTS
    ncpu = 1
    NR_TASKS = 3
    TIME_QUANT = 1
    TICK_MOD = 2
    SPILL_WORDS = 1
    SleepArgs = {1}
    Forkers = {0}
    Sleepers = {}
    Killers = {1, 2}
    MemoryMayFail = FALSE
INVARIANTS KillUnlists
CHECK_DEADLOCK FALSE
