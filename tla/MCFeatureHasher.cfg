SPECIFICATION Spec
CONSTANTS
    Strings = {"a", "b"}
    Seeds = {0, 1}
    Hash <- MCHash
    MinInt <- MCMinInt
    Weights = {0, 1}
    MaxSize = 3
    MaxItems = 3
    MaxSamples = 2
    Garbage <- MCGarbage
INVARIANTS
    TypeOK
    ValuesHaveRoom
    OutputIsTheHash
PROPERTIES
    WritesOnlyItsRows
