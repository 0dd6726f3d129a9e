SPECIFICATION Spec
CONSTANTS
    PAGE_SIZE = 2
    MAX_REGIONS = 3
    OneMiB = 2
    KernelEnd = 4
    HEAP_FRAMES = 2
    StackFrames <- MCSizes
    MemMaps <- MCGoodMaps
INVARIANTS
    OneHome
    Scrubbed
    GuardSilent
    FramesUsable
PROPERTIES
    FreeCountConserved
