SPECIFICATION Spec
CONSTANTS
    text = text
    TEXT = TEXT
    textNul = textNul
    dll = dll
    DLL = DLL
    ordinal0 = ordinal0
    ordinal1 = ordinal1
    long = long
    cut = cut
    EMPTY = EMPTY
    NONE = NONE
    NULL = NULL
    Zero = Zero
    RawNames <- MCRawNames
    Lower <- MCLower
    Trimmed <- MCTrimmed
    Cut <- MCCut
    OrdinalName <- MCOrdinalName
    Characteristics <- MCCharacteristics
    MachineTypes <- MCMachineTypes
    NumDirectoryNames = 2
    VectorDim = 4
    Files <- MCFiles
INVARIANTS
    EntrypointIsAddressOfEntryPoint
