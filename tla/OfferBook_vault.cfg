SPECIFICATION Spec
CONSTANTS
    ann = ann
    bob = bob
    dai = dai
    weth = weth
    Users = {ann, bob}
    NoUser = NoUser
    Assets = {dai, weth}
    NoAsset = NoAsset
    MaxLoans = 2
    MaxOffers = 3
    MaxIntents = 1
    MaxAmount = 2
    IntentOwner <- MCIntentOwner
    IntentLend <- MCIntentLend
    IntentColl <- MCIntentColl
    Pairs <- MCPairs
    Terms <- MCTerms
    Endowment <- MCEndowment
CHECK_DEADLOCK FALSE
INVARIANTS
    TypeOK
    LedgerBalanced
    VaultsSolvent
    DepositoryPromised
    EscrowReturnable
