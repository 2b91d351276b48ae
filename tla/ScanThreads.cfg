SPECIFICATION FairSpec
CONSTANTS
    a1 = a1
    a2 = a2
    a3 = a3
    b1 = b1
    b2 = b2
    NULL = NULL
    ThreadCount = 2
    ShowProgress = TRUE
    Entries = {a1, a2, a3, b1}
    Faulty = {b1}
    Device <- OneDevice
    Size <- MCSize
    First <- MCFirst
    Last <- MCLast
    Digest <- MCDigest
    CloneId <- MCCloneId
INVARIANTS
    TypeOK
    NoSilentLoss
    EachOnce
    ListShape
    MatchHeld
    FoundExact
    ProgressExact
    ListedWithRep
    CompleteAtJoin
PROPERTIES
    Termination
