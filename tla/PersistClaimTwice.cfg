SPECIFICATION Spec
CONSTANTS
    alice = alice
    bob = bob
    neo = neo
    gas = gas
    Null = Null
    Chain <- FourBlocks
    Account = {alice, bob}
    Asset = {neo, gas}
    Share = neo
    ListSize = 2
    MaxFaults = 2
INVARIANT ClaimedOnce

CHECK_DEADLOCK FALSE
