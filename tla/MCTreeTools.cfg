CONSTANTS
    Names <- MCNames
    Position <- MCPosition
    Below <- MCBelow
    StartsWith <- MCStartsWith
    PathOf <- MCPathOf
    CORE <- MCCore
    FIXTURES <- MCFixtures
    Go <- MCGo
    Snake <- MCSnake
    PRIVATE = {"_hidden", "_Own"}
    Unset = Unset
    NotRun = NotRun
    Graphs <- MCGraphs
    Drafts <- MCDrafts
    Lines <- MCLines
SPECIFICATION Spec
INVARIANTS
    GreenMeansLayered
    GreenIsTrue
    StandsAlone
