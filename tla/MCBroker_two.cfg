\* Two clients, with three connections, requests and datagrams in any order.
SPECIFICATION FairSpec
CONSTANTS
    Levels <- MCLevels
    Plus = "+"
    Star = "*"
    StartsWith <- MCStartsWith
    Patterns <- MCPatterns
    Topics <- MCTopics
    Ids = {"c1", "c2"}
    NoId = NoId
    Wanted <- MCWanted
    Sent <- MCSent
    MaxConnects = 3
    MaxRequests = 2
    MaxDatagrams = 1
PROPERTIES
    Refinement
    Served
INVARIANTS
    TableAgrees
    NeverWaits
CHECK_DEADLOCK FALSE
