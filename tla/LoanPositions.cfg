SPECIFICATION Spec
CONSTANTS
    vpfi = vpfi
    weth = weth
    ana = ana
    ben = ben
    Parties = {ana, ben}
    Outside = outside
    Users = {ana, ben, outside}
    NoUser = NoUser
    Assets = {vpfi, weth}
    NoAsset = NoAsset
    MaxLoans = 1
    MaxOffers = 0
    MaxIntents = 0
    IntentOwner <- MCNoIntent
    IntentLend <- MCNoIntent
    Vpfi = vpfi
    Markets <- MCMarkets
    Withheld <- MCWithheld
    Deposits <- MCDeposits
    Lent = 2
    Pledged = 2
    Supply = 5
    MaxInterest = 1
    MaxPledged = 2
    MaxHeld = 1
    Listable = {ana}
VIEW WithoutWallets
CHECK_DEADLOCK FALSE
INVARIANTS
    TypeOK
    VaultsFollowPositions
    ReservedIsOwed
PROPERTIES
    NothingNewWhileBarred
