SPECIFICATION Spec
CONSTANTS
    CPUs = {c1, c2}
    File = {f1}
    FS_FD_MAX = 1
    LENGTH = 1
    MAXPOS = 1
    MAXREF = 2
    Flags <- MCFlags
    BadArgs = TRUE
    ExtraFds <- MCExtraFds
    Task = {t1, t2}
    CODE_LENGTH = 5
    SysCalls = {1, 3, 4}
CHECK_DEADLOCK FALSE
CONSTRAINT FilesBound
INVARIANTS CallsInOrder
           FilesShared
           BootstrapRight
           ConsoleRight
           LibraryRight
           VolumeRight
           InterruptsRight
PROPERTIES MemorySound
           KernelWaitsEnd
