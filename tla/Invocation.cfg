SPECIFICATION FairSpec
CONSTANTS
    main = main
    wit = wit
    lib = lib
    dyn = dyn
    alice = alice
    bob = bob
    multi = multi
    Null = Null
    Unread = Unread
    MaxStackSize = 6
    MaxInvocationStack = 3
    MaxArraySize = 3
    GasAmount = 7
    IntMax = 99
    MaxFreeOps = 4
    Costs <- Prices
    Values <- Integer
    Script = {main, wit, lib, dyn}
    Deployed = {lib, dyn}
    DynamicInvoke = {dyn}
    Address <- Party
    Contract <- Party
    Signers = {1, 2, 3}
    M = 2
    Hashes <- MultiHashes
    Multi = multi
    Entry = main
    Witness = wit
    Notices <- Notified
    Plans <- AllPlans
    PageLengths = {0, 1, 2}
    DefaultLength = 500
INVARIANTS
    CountCovers
    HaltsPaid
    EventsFiled
    RelayedVerifies
PROPERTIES
    ReturnsAsAsked
    Terminates
CHECK_DEADLOCK FALSE
