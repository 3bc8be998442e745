SPECIFICATION Spec
CONSTANTS
    Bufs = {b1, b2}
    NULL = NULL
    MaxSize = 5
    MaxBlock = 3
    SizeRange = 8
INVARIANTS
    TypeOK
    BlocksAreTheBuffer
    NoWrapAround
PROPERTIES
    EndMeansAllRead
    NeverRestarts
