\* Two handlers over one list, three requests with one failing call. Of three recipients a
\* filter and a batch take two.
SPECIFICATION Spec
CONSTANTS
    n1 = n1
    r1 = r1
    r2 = r2
    r3 = r3
    c1 = c1
    c2 = c2
    Names <- OneName
    Recipients <- ThreeRecipients
    Clients <- TwoClients
    BatchMax = 2
    InMax = 2
    MaxCalls = 3
    MaxFaults = 1
SYMMETRY Symmetry
\* A behaviour ends when its requests are answered
CHECK_DEADLOCK FALSE
INVARIANTS
    TypeOK
PROPERTIES
    ListsHold
    SuccessIsTrue
