CONSTANTS
    NumSubs = 1
    MaxChan = 1
    InCap = 1
    Frames = {"text"}
    LateFrames = FALSE
SPECIFICATION Spec
INVARIANT HandshakeFirst
