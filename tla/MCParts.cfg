SPECIFICATION Spec
CONSTANTS
    Chars <- MCChars
    Tokens <- MCTokens
    Env <- MCEnv
    Letters <- MCLetters
    Typed <- MCTyped
    Dictionary <- MCDictionary
    Remote <- MCRemote
    Files <- MCFiles
    Clients <- MCClients
    Providers <- MCProviders
    Configs <- MCConfigs
    Requests <- MCRequests
    Learnable <- MCLearnable
    Screen <- MCScreen
    Shapes <- MCShapes
    Spots <- MCSpots
    Zones <- MCZones
    Handled <- MCHandled
    Scancode <- MCScancode
    Daemons <- MCDaemons
    Reports <- MCReports
    Pids <- MCPids
    Caps <- MCCaps
    Chosen <- MCChosen
    Profiles <- MCProfiles
    ProcLabels <- MCProcLabels
    Labelled <- MCLabelled
    MaxChars = 3
    MaxTokens = 5
    HistMax = 2
    MaxLine = 3
    MaxEntry = 1
    Limit = 2
    Desks = 2
    MaxWid = 3
    Size = 4
    Timeout = 1
    MaxRestarts = 1
    EventCap = 1
    MaxEntries = 2
INVARIANTS
    
    
    
    DesktopSound
    Confined
PROPERTIES
    DraftComesBack
    KeysInOrder
    EveryCallAnswered
    DeadIsIsolated
CHECK_DEADLOCK FALSE
