SPECIFICATION FairSpec
CONSTANTS
    MaxMsg = 3
    MaxTime = 3
    Limits <- MCLimits
    DefaultLimit = 1
    MaxLimit = 2
INVARIANTS
    Inv
    PagesDescend
PROPERTIES
    PagingEnds
CHECK_DEADLOCK FALSE
