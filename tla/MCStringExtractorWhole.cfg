SPECIFICATION StringsSpec
CONSTANTS
    r = r
    q = q
    x = x
    Byte = {r, q, x}
    Readable = {r, q}
    MinLength = 2
    WordByte = {r}
    Patterns <- MCPatterns
    ByteRange = 5
    BlockSizes = {4}
    MaxContent = 5
INVARIANTS
    ConsistentWithWholeFile
