SPECIFICATION Spec
CONSTANTS
    NBlocks = 2
    MaxCmds = 5
    MaxMems = 3
    Depth <- MCDepth
    Asks <- MCAsks
INVARIANTS
    QueuesAgree
    BlocksHoldWrites
PROPERTY OkMeansDone
CHECK_DEADLOCK FALSE
