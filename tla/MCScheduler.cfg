SPECIFICATION FairSpec
CONSTANTS
    MaxPid = 3
    Wait = 1
    Kinds <- Plain
    TickInSwitch = FALSE

    
    
PROPERTIES
    TakesTurns
    
