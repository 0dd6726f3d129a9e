SPECIFICATION Spec
CONSTANTS
    MaxPid = 3
    Wait = 1
    Kinds <- Isolated
    TickInSwitch = FALSE
INVARIANT TrampolineAfterPatch
CHECK_DEADLOCK FALSE
