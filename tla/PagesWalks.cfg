\* A walk over the rows of either of two owners, with any of the queries, while a
\* write changes them. Items 2 and 3 are of one recipient; 4 does not pass the filter.
SPECIFICATION FairWalkSpec
CONSTANTS
    Owners <- TwoOwners
    Items <- FourItems
    Wanted <- ThreeItems
    Limit = 2
    MaxWrites = 1
\* A walk ends
CHECK_DEADLOCK FALSE
INVARIANTS
    DoneIsComplete
    NothingTwice
PROPERTIES
    WalkEnds
