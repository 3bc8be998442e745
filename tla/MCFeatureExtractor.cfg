SPECIFICATION FairSpec
CONSTANTS
    Byte = {0, 1, 2}
    Readable = {1}
    MinLength = 2
    WordByte = {1, 2}
    Patterns <- MCPatterns
    ByteRange = 3
    Files <- MCFiles
    MaxSize = 7
    BufSize = 3
    WindowSize = 4
    WindowStep = 2
    HalfByte = 2
    NumBins = 2
    EntropyBin <- MCEntropyBin
    NumFirstBytes = 4
    NULL = NULL
    Zero = Zero
    NaN = NaN
INVARIANTS
    TypeOK
    VectorIsOfTheFile
    ConsumersInStep
PROPERTIES
    ImplementsHeldVector
    RunsEnd
