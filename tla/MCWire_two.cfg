\* Two messages of sizes whose low byte is 0, 1, 2 or 3, of which the last two are negative.
SPECIFICATION FairWireSpec
CONSTANTS
    Levels <- MCLevels
    Plus = "+"
    Star = "*"
    StartsWith <- MCStartsWith
    Patterns <- MCPatterns
    Topics <- MCTopics
    Half = 2
    Sizes = {1, 3, 4, 6}
    Buffer = 7
    MaxSent = 2
PROPERTIES
    AllRead
INVARIANTS
    MatchRight
    CutRight
CHECK_DEADLOCK FALSE
