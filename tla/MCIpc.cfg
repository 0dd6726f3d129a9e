SPECIFICATION Spec
CONSTANTS
    wa = wa
    wb = wb
    wc = wc
    Tasks <- Three
    UidOf <- MCUid
    Senders <- MCSend
    Receivers <- MCRecv
    Grants <- MCGrants
    Byte <- Bits
    Messages <- MCMessages
    BufLens <- MCLens
    RING_SIZE = 4
    WORD = 8
    MaxId = 1
    First = 1
INVARIANTS
    NoOpenBus
    
    SlotsApart
PROPERTY IsFifo
