CONSTANTS
    MAX_RUNE = 12
    MAX_LATIN1 = 5
    MAX_ASCII = 4
    MAX_16 = 9
    LINEAR_MAX = 1
    CAPITALS <- MCCapitals
    CASE_SHIFT = 2
    DERIVED <- MCDerived
    Files <- MCFiles
SPECIFICATION Spec
INVARIANTS
    TablesExact
    CaseExact
    FoldExact
CHECK_DEADLOCK FALSE
