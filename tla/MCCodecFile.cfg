CONSTANTS
    Noted <- MCNoted
    Texts <- MCTexts
    PRELUDE <- MCPrelude
    Packages <- MCPackages
    INVALID_NAMES = {"quote"}
    Scalars <- MCScalars
    Snake <- MCSnake
    Keys = {"k"}
    LONGEST = 1
    DEPTH = 3
SPECIFICATION Spec
INVARIANTS
    PlanIsGreatest
    ReadsBack
    SourceIsRead
CHECK_DEADLOCK FALSE
