CONSTANTS
    NumSubs = 2
    MaxChan = 2
    InCap = 1
    Frames = {"text", "ping", "pong", "close"}
    LateFrames = FALSE
SPECIFICATION Spec
INVARIANTS TypeOK LostOnlyWithConnection EndReported PingBudget TimerOwner RequestOrder OldConnectionsEnd
PROPERTY CallbackOrder
