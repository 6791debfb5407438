CONSTANTS
    NumSubs = 1
    MaxChan = 1
    InCap = 2
    Frames = {"pong"}
    LateFrames = FALSE
SPECIFICATION LiveSpec
PROPERTIES DeadConnectionsEnd 
