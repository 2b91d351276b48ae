SPECIFICATION HeapSpec
CONSTANTS
    e1 = e1
    e2 = e2
    e3 = e3
    e4 = e4
    e5 = e5
    e6 = e6
    e7 = e7
    NULL = NULL
    Entries <- MCEntries
    Device <- MCDevice
    Size <- MCSize
    First <- MCFirst
    Last <- MCLast
    Digest <- MCDigest
    Faulty = {e1, e3, e5}
    Threads = 2
    Unreadable = {e7}
INVARIANTS
    Inv
    OneFilePerContent
    PointersLive
    NothingLeaks
PROPERTIES
    ImplementsFirstSeen
