\* Two goroutines, two retries, queries of up to two pages, three tokens.
SPECIFICATION FairSpec
CONSTANTS
    c1 = c1
    c2 = c2
    c3 = c3
    Callers <- TwoCallers
    NumRetries = 2
    Pages = 2
    MaxTokens = 3
INVARIANTS
    OneUsableToken
    TwiceOnlyBlurred
PROPERTIES
    CallsReturn
