SPECIFICATION Spec
CONSTANTS
    Procs = {"a", "b"}
    NOBODY = "nobody"
    NSLOTS = 2
    MAXASK = 2
    POLL = FALSE
    Codes <- SendCodes
    Texts <- SendTexts
    BUF = 4
    Copies = {1, 2}
    MAXSIGS = 2
    NLOOPS = 6
    SemProcs = {"a", "b"}
    BIGCOUNT = 5
    INITVAL = 1
    MAXIDS = 2
    MAXCRASH = 2
    MAXT = 4
CHECK_DEADLOCK FALSE
INVARIANTS OneAnswer
           NeverCutOff
           OneDaemon
           TurnsTaken
           SemaphRight
           GetsMessage
           PrintingSafe
           ServersRight
           TerminalsRight
PROPERTIES CallsSafe
           WaitsEnd
