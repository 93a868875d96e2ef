SPECIFICATION Spec
CONSTANTS
    alice = alice
    bob = bob
    bot = bot
    attestor = attestor
    Accounts = {alice, bob}
    Publications <- Two
    Proposers = {bot}
    NoProposer = NoProposer
    Attestors = {attestor}
    NoAttestor = NoAttestor
    HasSecondary = TRUE
    Delays = {1}
    ClearanceAges = {1}
    OracleAges = {1}
    Ahead = 0
    MaxProposals = 2
    MaxRequests = 0
    MaxTime = 2
    MaxEpochs = 0
    MaxRemovals = 1
    MaxAdditions = 0
    MaxDelistings = 2
    Flaggings = {{}}
SYMMETRY AnyAccount
CHECK_DEADLOCK FALSE
INVARIANTS
    TypeOK
    ReservedIsNamed
PROPERTIES
    VoidStaysVoid
