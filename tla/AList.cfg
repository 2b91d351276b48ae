SPECIFICATION FairSpec
CONSTANTS
    x = x
    y = y
    NULL = NULL
    JUNK = JUNK
    Values <- MCValues
    Initial <- MCInitial
    MaxSize = 4
INVARIANTS
    TypeOK
PROPERTIES
    ImplementsItemList
    CallsEnd
