SPECIFICATION Spec
CONSTANTS
    dai = dai
    vpfi = vpfi
    weth = weth
    Lender = lender
    Borrower = borrower
    Diamond = diamond
    Outside = outside
    Users = {lender, borrower, diamond, outside}
    NoUser = NoUser
    Assets = {vpfi, weth}
    NoAsset = NoAsset
    MaxLoans = 1
    MaxOffers = 0
    MaxIntents = 0
    IntentOwner <- MCNoIntent
    IntentLend <- MCNoIntent
    Principal = vpfi
    Collateral = weth
    Vpfi = vpfi
    Withheld <- MCNothingWithheld
    Deposits <- MCVpfiDeposits
    Lent = 2
    Pledged = 2
    Supply = 12
    MaxInterest = 1
    MaxFee = 1
    MaxProceeds = 3
    MaxPledged = 3
    MaxHeld = 1
    BackstopOn = FALSE
CHECK_DEADLOCK FALSE
INVARIANTS
    LedgerBalanced
    VaultsHoldWhatIsOwed
    NothingReverts
