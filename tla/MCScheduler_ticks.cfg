SPECIFICATION Spec
CONSTANTS
    MaxPid = 3
    Wait = 1
    Kinds <- Both
    TickInSwitch = TRUE
INVARIANTS
    IsrNeverSpins
    QueueLive
PROPERTIES
    ZombieForGood
CHECK_DEADLOCK FALSE
