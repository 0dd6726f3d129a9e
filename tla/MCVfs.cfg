SPECIFICATION Spec
CONSTANTS
    kshell = kshell
    worker = worker
    Tasks <- MCTasks
    Shells <- MCShells
    Flags <- MCFlags
    Users <- MCUsers
    StartAs <- MCStart
    Paths = {"/tmp/f"}
    Byte <- Bits
    Chunks <- MCChunks
    BufLens <- MCLens
    MaxFd = 2
    MaxSize = 3
PROPERTIES
    OwnerForGood
    FdForGood
    
    
