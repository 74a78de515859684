SPECIFICATION FairSpec
CONSTANTS
    n1 = n1
    n2 = n2
    Null = Null
    Node = {n1, n2}
    NodeHeight <- OneBehind
    HeadersMax = 2
    LookAhead = 2
    CacheSize = 2
    RequestLimit = 2
    Faults = {"lose", "slow", "disconnect", "push", "fail"}
    MaxFaults = 1
PROPERTIES
    ChainSynced
