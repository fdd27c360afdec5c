\* Two handlers over one list: every interleaving of three requests over any tables with one failing statement.
SPECIFICATION FairSpec
CONSTANTS
    n1 = n1
    n2 = n2
    r1 = r1
    r2 = r2
    c1 = c1
    c2 = c2
    c3 = c3
    Names <- OneName
    Recipients <- TwoRecipients
    Clients <- TwoClients
    PoolSize = 2
    MaxCalls = 3
    MaxFaults = 1
\* A behaviour ends when its requests are answered, or waits for ever on a lost transaction
CHECK_DEADLOCK FALSE
INVARIANTS
    NoOrphans
    CountIsTrue
PROPERTIES
    AllOrNothing
    ListsHold
    Answered
