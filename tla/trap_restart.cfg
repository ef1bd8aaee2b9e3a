SPECIFICATION TrapSpec
CONSTANTS
    Task = {t1, t2}
    CODE_LENGTH = 5
    SysCalls = {1, 3, 4}
INVARIANTS RestartsAtTrapPoint
