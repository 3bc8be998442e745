SPECIFICATION Spec
CONSTANTS
    i1 = i1
    i2 = i2
    v1 = v1
    v2 = v2
    Inodes = {i1, i2}
    Versions = {v1, v2}
    MaxSize = 2
    Buffer <- MCBuffer
    Dim = 1
    MaxNumFeatures = 1
    SizeRange = 8
    MaxChanges = 2
    ABSENT = ABSENT
    DIR = DIR
    DENIED = DENIED
    PRIVATE = PRIVATE
    UNRESOLVED = UNRESOLVED
    NULL = NULL
SYMMETRY Symmetry
INVARIANTS
    TypeOK
    OneVersion
    ErrorsAreTrue
PROPERTIES
    ImplementsExtractionCall
