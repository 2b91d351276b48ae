SPECIFICATION Spec
CONSTANTS
    a = a
    b = b
    c = c
    d = d
    h = h
    k = k
    ia = ia
    ib = ib
    ic = ic
    id = id
    ih = ih
    n1 = n1
    n2 = n2
    n3 = n3
    p1 = p1
    p2 = p2
    NONE = NONE
    Inodes <- MCInodes
    Inode0 <- MCInode0
    Clone0 <- MCClone0
    MaxStage = 2
    Files = {a, b, h, k}
    Roots = {a, b, h}
    Twice = {}
    Compressed = {}
    Immutable = {}
    ReadOnly = {ib}
    Options <- PlainOnly
    Failing = {"clonefile", "copyfile", "rename", "unlink staging", "tmp_name"}
    Instances = {p1, p2}
    MaxRuns = 1
    MayCrash = TRUE
INVARIANTS
    TypeOK
    ContentIntact
    OwnMetadata
    ProtectedUntouched
