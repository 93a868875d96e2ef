SPECIFICATION Spec
CONSTANTS
    optimism = optimism
    arbitrum = arbitrum
    Bases = {optimism}
    NoBase = NoBase
    MaxAuths = 2
    MaxDays = 3
    MaxFunded = 1
    MaxAmount = 1
    MaxAbsorbed = 2
    MaxDust = 1
    MaxShort = 0
CHECK_DEADLOCK FALSE
INVARIANTS
    OfferedIsThere
    BooksLag
    DrawIsCharged
