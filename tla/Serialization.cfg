CONSTANTS
    Consignment <- MCConsignment
    CutAllowed  <- MCCutAllowed
    TypoAllowed <- MCTypoAllowed
    Stored      <- MCStored
    CurveP = 23
    CurveA = 1
    CurveB = 1
SPECIFICATION Spec
INVARIANTS
    RoundTrip
    DamageShows
    MembersInAnyOrder
    PointsAdd
CHECK_DEADLOCK FALSE
