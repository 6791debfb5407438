CONSTANTS
    Timer = {t1, t2}
    Idle = {i1}
    Timeouts = {1, 2}
    Coarse = {2}
    Repeats <- MCRepeats
    MaxLag = 2
    MaxOps = 3
    Careless = FALSE
    NoEvent = none
    Task = {r1, r2}
    Limited = {r1, r2}
    Addr = {a1}
    MaxChan = 4
    MaxAttempt = 4
    RetryCounts = {0, 1}
    Wrap = 4
    NoTask = none
    NoTimer = none
    WND_RCV = 3
    RcvWnd = 3
    SndWnd = 2
    MaxSegs = 3
    MaxAcks = 1
    MaxFaults = 1
    User = {u1, u2}
    LoopThread = loop
    Nobody = nobody
    Careful = TRUE
    MaxWrites = 2
SPECIFICATION NetworkSpec
INVARIANTS NetworkTypesOK SafeDelete TimersSound RequestsSound OnePlace WholeOnceInOrder NoneForgotten PacketsSound
PROPERTIES TimersRun CallbackComes AllArrive 
CHECK_DEADLOCK FALSE
