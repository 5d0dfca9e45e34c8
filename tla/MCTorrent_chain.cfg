\* A seed of two files, a rank that has one and wants the other, a rank that wants both.
SPECIFICATION FairSpec
CONSTANTS
    N = 3
    Files = {"a", "b"}
    NoFile = NoFile
    Segs <- MCSegs
    Own <- ChainOwn
    Wish <- ChainWish
    MaxDownloaders = 1
    MaxFiles = 2
PROPERTIES
    Refinement
    Completion
INVARIANTS
    ReplyProtocol
    HonestAnswer
    PrefixHeld
    InsertBeforePublish
    ShutdownOrder
    GrantAccounting
    NextInBounds
