SPECIFICATION KernelSpec
CONSTANTS
    MaxPid <- Tasks
    Commands <- AllCommands
    Audittest <- FiveCalls
    Expected <- Wanted
    MaxWaits = 2
    LogCap = 6
    Bytes = 2
INVARIANTS
    QueueExact
    NeverHalts
    CallOwnsStack
    AuditTells
    BytesAllowed
PROPERTIES
    CallsReturn
CHECK_DEADLOCK FALSE
