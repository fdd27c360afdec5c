\* Three requests at a time on either registry, two updates, one failing call.
SPECIFICATION FairSpec
CONSTANTS
    r1 = r1
    r2 = r2
    r3 = r3
    v1 = v1
    v2 = v2
    Requests <- ThreeRequests
    Values <- TwoValues
    MaxUpdates = 2
    MaxFaults = 1
INVARIANTS
    AnswersAreReal
PROPERTIES
    UpdateSticks
    StaleAnswersEnd
