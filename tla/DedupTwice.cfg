SPECIFICATION Spec
CONSTANTS
    a = a
    b = b
    c = c
    d = d
    h = h
    k = k
    ia = ia
    ib = ib
    ic = ic
    id = id
    ih = ih
    n1 = n1
    n2 = n2
    n3 = n3
    p1 = p1
    p2 = p2
    NONE = NONE
    Inodes <- MCInodes
    Inode0 <- MCInode0
    Clone0 <- MCClone0
    MaxStage = 2
    Files = {a, b}
    Roots = {a, b}
    Twice = {a}
    Compressed = {}
    Immutable = {}
    ReadOnly = {}
    Options <- SymlinkOnly
    Failing = {}
    Instances = {p1}
    MaxRuns = 1
    MayCrash = FALSE
INVARIANTS
    ContentSurvives
