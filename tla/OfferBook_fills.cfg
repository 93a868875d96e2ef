SPECIFICATION Spec
CONSTANTS
    ann = ann
    bob = bob
    dai = dai
    weth = weth
    Users = {ann, bob}
    NoUser = NoUser
    Assets = {dai, weth}
    NoAsset = NoAsset
    MaxLoans = 3
    MaxOffers = 4
    MaxIntents = 0
    MaxAmount = 0
    IntentOwner <- MCNoIntent
    IntentLend <- MCNoIntent
    IntentColl <- MCNoIntent
    Pairs <- MCPairs
    Terms <- MCFillTerms
    Endowment <- MCFillEndowment
CHECK_DEADLOCK FALSE
INVARIANTS
    LienIsRemainder
    FillsWithinEscrow
    LoanSecured
    EscrowReturnable
