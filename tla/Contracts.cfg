SPECIFICATION ContractsSpec
CONSTANTS
    A = A
    B = B
    C = C
    plainKey = plainKey
    namesA = namesA
    Null = Null
    Script = Script
    Hash <- MCHash
    Suffix <- MCSuffix
    Key <- MCKey
    Value = {"plain", "storing", "x", "y"}
    Mentions <- MCMentions
    Replica <- MCReplica
    Rank <- MCRank
    Stores <- MCStores
    Dead <- NeverDead
    Plans <- MCPlans
    MaxBlocks = 1
    MaxDepth = 2
    MaxPublished = 1
CHECK_DEADLOCK FALSE
INVARIANTS
    StorageHasOwner
    TokensListed
    ListsAllButPopped
PROPERTIES
    MigrationMovesRows
    OnlyOwnersWrite
