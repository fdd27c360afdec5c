\* Two connections of a user, a channel of one, two subscriptions, two notifications.
SPECIFICATION FairSpec
CONSTANTS
    c1 = c1
    c2 = c2
    Connections <- TwoConnections
    Capacity = 1
    MaxSubs = 2
    MaxPublished = 2
INVARIANTS
    NoSendOnClosed
    NothingLost
    EventsAreReal
PROPERTIES
    Arrives
    Departs
\* A behaviour ends when the bounds are reached
CHECK_DEADLOCK FALSE
