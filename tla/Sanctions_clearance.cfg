SPECIFICATION Spec
CONSTANTS
    alice = alice
    bob = bob
    bot = bot
    attestor = attestor
    Accounts = {alice}
    Publications <- One
    Proposers = {bot}
    NoProposer = NoProposer
    Attestors = {attestor}
    NoAttestor = NoAttestor
    HasSecondary = FALSE
    Delays = {1}
    ClearanceAges = {0}
    OracleAges = {1}
    Ahead = 1
    MaxProposals = 1
    MaxRequests = 2
    MaxTime = 3
    MaxEpochs = 2
    MaxRemovals = 0
    MaxAdditions = 0
    MaxDelistings = 1
    Flaggings = {{}, {alice}}
CHECK_DEADLOCK FALSE
PROPERTIES
    ExecutedOnEvidence
