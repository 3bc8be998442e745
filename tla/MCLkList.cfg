SPECIFICATION ListSpec
CONSTANTS
    n1 = n1
    n2 = n2
    n3 = n3
    n4 = n4
    a = a
    b = b
    Nodes = {n1, n2, n3, n4}
    Data = {a, b}
    Null = Null
    MaxLeaked = 1
INVARIANTS
    ListTypeOK
    OneSequence
PROPERTIES
    LosesHeadAndLast
    ImplementsNodeSequence
CHECK_DEADLOCK FALSE
