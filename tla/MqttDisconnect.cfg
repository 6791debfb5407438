CONSTANTS
    User = {u1, u2}
    LoopThread = loop
    Nobody = nobody
    Careful = FALSE
    MaxWrites = 2
SPECIFICATION UnresolvedSpec
PROPERTY DisconnectIsFinal
CHECK_DEADLOCK FALSE
