SPECIFICATION Spec
CONSTANTS
    NULL = NULL
    Files <- MCFiles
INVARIANTS
    TypeOK
    SigningTimeIsTheFirst
    ChainsOfAllSignatures
