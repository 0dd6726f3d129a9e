SPECIFICATION Spec
CONSTANTS
    MaxPid = 3
    Wait = 1
    Kinds <- Plain
    TickInSwitch = TRUE
INVARIANT StackLive
CHECK_DEADLOCK FALSE
