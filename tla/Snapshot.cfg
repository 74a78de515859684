SPECIFICATION Spec
CONSTANTS
    account = account
    storage = storage
    contract = contract
    empty = empty
    v1 = v1
    Null = Null
    Key = {account, storage, contract}
    Value = {empty, v1}
    Replica <- Copied
    Dead <- EmptyAccount
    Rank <- Columns
INVARIANTS
    CachesTrack
    OnlyUncopiedRaise
    NoDeadStored
    FindAgreesWithTryGet
PROPERTY Transactional
