SPECIFICATION FairSpec
CONSTANTS
    own = own
    watched = watched
    other = other
    joint = joint
    token = token
    Joint = joint
    Imports <- Edits
    neo = neo
    gas = gas
    Null = Null
    Own = own
    Watched = watched
    Other = other
    Share = neo
    Gas = gas
    BlockLimit = 1
    Interval = 2
    Generation <- Gains
    D = 2
    Genesis <- TwoNeoAndGas
    Strangers <- PayAndSweep
    Amounts = {1}
    Fees = {1}
    Lonely = TRUE
    MaxInBlock = 1
    Budgets <- AllSmall
INVARIANTS
    RowsFollow
    SpendsOnce
    NothingCreated
    OffersUnconfirmed
PROPERTIES
    SyncFindsAll
    WalletSyncs

CHECK_DEADLOCK FALSE
