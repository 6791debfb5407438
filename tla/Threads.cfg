CONSTANTS
    Elem = {e1, e2}
    Nil = nil
    QUEUE_INIT_SIZE = 2
    InitSizes = {1, 3}
    MaxCells = 4
    Pre = Pre
    Posters = {p1, p2}
    Settled = FALSE
    PreMayFail = TRUE
    FdsMayFail = TRUE
    Sender = {s1, s2}
    Lengths = {0, 1, 4}
    Fragment = 3
    Short = 1
    Radix = 2
    Digits2 = 1
    Digits8 = 3
    MaskLen = 2
    MaxPings = 1
    MaxRead = 4
    NoSender = none
    Borrower = {b1, b2, b3}
    Object = {o1, o2, o3}
    MaxNum = 2
    Waits = TRUE
    NoObject = none
    Committer = {c1, c2}
    Worker = {w1, w2}
    Task = {k1, k2}
    MinThreads = 1
    MaxThreads = 2
    NoTask = none
    NoWorker = none
SPECIFICATION ThreadsSpec
INVARIANTS ThreadsTypesOK FunctorForEveryEvent FramesSound LendsOnce
PROPERTIES FifoSpec WaitMeansDone CallsReturn
CHECK_DEADLOCK FALSE
