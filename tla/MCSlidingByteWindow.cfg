SPECIFICATION FairSpec
CONSTANTS
    Byte <- MCBytes
    Chunks <- MCChunks
    MaxWindow = 3
    MaxFed = 6
INVARIANTS
    TypeOK
    BlockWithinWindow
    WindowsAreStrides
    NothingLostAtTheEnd
PROPERTIES
    ImplementsStrideWindows
    ReduceReturns
