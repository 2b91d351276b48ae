SPECIFICATION Spec
CONSTANTS
    a = a
    b = b
    c = c
    d = d
    h = h
    k = k
    ia = ia
    ib = ib
    ic = ic
    id = id
    ih = ih
    n1 = n1
    n2 = n2
    n3 = n3
    p1 = p1
    p2 = p2
    NONE = NONE
    Inodes <- MCInodes
    Inode0 <- MCInode0
    Clone0 <- MCClone0
    MaxStage = 2
    Files = {a, b}
    Roots = {a, b}
    Twice = {b}
    Compressed = {}
    Immutable = {}
    ReadOnly = {}
    Options <- PlainOnly
    Failing = {}
    Instances = {p1, p2}
    MaxRuns = 2
    MayCrash = FALSE
INVARIANTS
    OwnMetadata
