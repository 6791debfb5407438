CONSTANTS
    w1 = w1
    w2 = w2
    Writers = {w1, w2}
    MsgLen = 2
    MaxWriteBuf = 3
    Room = 2
    MaxConn = 2
    LateWriters = TRUE
SPECIFICATION Spec
INVARIANT CloseReported
CHECK_DEADLOCK FALSE
