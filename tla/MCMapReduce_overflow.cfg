\* One reducer more.
SPECIFICATION Spec
CONSTANTS
    FileIds = {1, 3}
    Words = {"ab", "ac", "za"}
    LetterOf <- MCLetterOf
    Rank <- MCRank
    Contents <- MCContents
    Size <- MCSize
    CharA = 1
    CharZ = 2
    CharMin = 0
    CharMax = 4
    Mappers = {"m1", "m2"}
    Reducers = {"r1", "r2", "r3", "r4"}
    NoFile = NoFile
    NoLetter = NoLetter
    NotWritten = NotWritten
INVARIANTS
    OneOwner
    WildOnlyDrained
