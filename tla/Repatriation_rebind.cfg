SPECIFICATION FairSpec
CONSTANTS
    optimism = optimism
    arbitrum = arbitrum
    Bases = {optimism, arbitrum}
    NoBase = NoBase
    MaxAuths = 1
    MaxDays = 2
    MaxFunded = 0
    MaxAmount = 2
    MaxAbsorbed = 3
    MaxDust = 0
    MaxShort = 1
CHECK_DEADLOCK FALSE
INVARIANTS
    TypeOK
    OneOutcome
    NothingLostInTransit
PROPERTIES
    CancelResolves
    OrdersAreDecidedOnce
    DecisionsAreHeard
