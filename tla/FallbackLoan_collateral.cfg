SPECIFICATION Spec
CONSTANTS
    dai = dai
    vpfi = vpfi
    weth = weth
    Lender = lender
    Borrower = borrower
    Diamond = diamond
    Outside = outside
    Users = {lender, borrower, diamond, outside}
    NoUser = NoUser
    Assets = {dai, vpfi}
    NoAsset = NoAsset
    MaxLoans = 1
    MaxOffers = 0
    MaxIntents = 0
    IntentOwner <- MCNoIntent
    IntentLend <- MCNoIntent
    Principal = dai
    Collateral = vpfi
    Vpfi = vpfi
    Withheld <- MCNothingWithheld
    Deposits <- MCDeposits
    Lent = 2
    Pledged = 2
    Supply = 12
    MaxInterest = 1
    MaxFee = 1
    MaxProceeds = 3
    MaxPledged = 3
    MaxHeld = 1
    BackstopOn = TRUE
CHECK_DEADLOCK FALSE
INVARIANTS
    PledgeUnderLien
    VaultsHoldWhatIsOwed
    NothingReverts
