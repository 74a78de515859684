SPECIFICATION FairSpec
CONSTANTS
    alice = alice
    bob = bob
    neo = neo
    gas = gas
    Null = Null
    Chain <- FourBlocks
    Account = {alice, bob}
    Asset = {neo, gas}
    Share = neo
    ListSize = 2
    MaxFaults = 3
INVARIANTS
    StateMatchesChain
    HistoryComplete
    AnswersAgree
PROPERTY ChainPersisted
CHECK_DEADLOCK FALSE
