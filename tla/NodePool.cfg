SPECIFICATION FairSpec
CONSTANTS
    a1 = a1
    a2 = a2
    a3 = a3
    guest = guest
    Null = Null
    Address = {a1, a2}
    Guest = {guest}
    Seeds <- TwoSeeds
    Conn = {1, 2, 3}
    MaxClients = 2
    MinClients = 1
    ErrorLimit = 0
    TimeoutLimit = 0
    PoolErrors = 1
    StallLimit = 1
    Faults = {"down", "drop", "error", "timeout", "stall", "guest", "configure"}
    MaxFaults = 1
INVARIANTS
    SpotsGivenBack
PROPERTIES
    PoolFilled
    ShutdownComplete
    AddressesKept
CHECK_DEADLOCK FALSE
