SPECIFICATION Spec
CONSTANTS
    a1 = a1
    a2 = a2
    a3 = a3
    b1 = b1
    b2 = b2
    NULL = NULL
    ThreadCount = 2
    ShowProgress = TRUE
    Entries = {a1, a2, a3}
    Faulty = {}
    Device <- OneDevice
    Size <- MCSize
    First <- MCFirst
    Last <- MCLast
    Digest <- MCDigest
    CloneId <- MCCloneId
INVARIANTS
    EverythingEvaluated
