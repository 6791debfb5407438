CONSTANTS
    NumSubs = 1
    MaxChan = 2
    InCap = 1
    Frames = {"text"}
    LateFrames = FALSE
SPECIFICATION Spec
INVARIANT NoDanglingContext
