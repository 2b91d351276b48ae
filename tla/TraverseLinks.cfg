SPECIFICATION Spec
CONSTANTS
    top = top
    fa = fa
    staged = staged
    link = link
    mnt = mnt
    mfile = mfile
    back = back
    bfile = bfile
    sub = sub
    sfile = sfile
    zero = zero
    locked = locked
    lfile = lfile
    deep = deep
    dfile = dfile
    gone = gone
    dangling = dangling
    NONE = NONE
    Nodes <- MCNodes
    Stems <- MCNodes
    Path <- MCPath
    Kind <- MCKind
    Dev <- MCDev
    Target <- LinksLeave
    CloneDevs = {1, 3}
    Empty = {zero}
    Unreadable = {locked}
    Gone = {gone}
    Cwd = top
    StagedArgs = {staged}
    Lines <- PlainLine
    CpuCount = 6
    ShortHalf = 8
    ByteValues = 4
INVARIANTS
    AllEvaluated
