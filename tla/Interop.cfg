SPECIFICATION Spec
CONSTANTS
    Null = Null
    alice = alice
    bob = bob
    aliceKey = aliceKey
    badKey = badKey
    neo = neo
    txA = txA
    txB = txB
    txC = txC
    txD = txD
    Blocks <- MCBlocks
    Transactions <- MCTransactions
    Deployed <- MCDeployed
    Balance <- MCBalance
    Witnesses = {alice}
    AccountOf <- MCAccountOf
    SecondsPerBlock = 15
    MaxItemSize = 12
    MaxArraySize = 3
    Plans <- MCPlans
CHECK_DEADLOCK FALSE
INVARIANTS
    SerializedSame
    ListedInOrder
    NodesAgree
