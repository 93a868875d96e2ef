---------------------------- MODULE LoanPositions ----------------------------
(***************************************************************************)
(* The two positions of a loan are ERC-721 tokens that change hands while  *)
(* what belongs to them sits in the vault of whoever held them when it was *)
(* put there.  This module follows one open ERC-20 loan through transfers  *)
(* of its positions (facets/VaipakamNFTFacet.sol), the consolidation that  *)
(* moves a side's holdings to the vault of its present holder              *)
(* (libraries/LibConsolidation.sol, facets/ConsolidationFacet.sol), the    *)
(* servicing calls that consolidate first and pay the holder or, when the  *)
(* holder is barred, park what it is due (AddCollateralFacet.sol,          *)
(* PartialWithdrawalFacet.sol, RepayFacet.sol, RepayPeriodicFacet.sol,     *)
(* ForcedSaleFacet.sol, libraries/LibCloseoutFreeze.sol), repayment, and   *)
(* the two claims (ClaimFacet.sol), with a sanctions list that changes and *)
(* may be out of reach at any moment.                                      *)
(*                                                                         *)
(* A state S has the vaults S.v, the loan S.n and the sanctions registry   *)
(* S.f.  The stored parties are the ledger's lender and borrower.  Outside *)
(* is everybody else: it pays what the protocol is paid, and has what a    *)
(* token keeps of a transfer.  A party's wallet holds what the last call   *)
(* paid it: whatever it had before, it may have spent.  Prices and time    *)
(* decide amounts and whether a call may be made, and are left free.       *)
(*                                                                         *)
(* Left out: the ends of a loan other than repayment (FallbackLoan has     *)
(* them, with positions that do not move), consolidation's exclusion of    *)
(* loans with a fallback pending, a prepay listing or an intent, rentals   *)
(* and NFT collateral, what is owed to past sellers of a position, the     *)
(* yield-fee discount, rewards, and protected accounts.                    *)
(***************************************************************************)
EXTENDS Vault

CONSTANTS Parties,       \* those who may hold a position
          Outside,
          Vpfi,          \* s.vpfiToken
          Markets,       \* <<principal asset, collateral asset>> of a loan
          Withheld,      \* what a token may keep of one transfer, at most
          Deposits,      \* what each vault holds for its owner at the start
          Lent, Pledged, \* principal and collateral at the start
          Supply,        \* what Outside can pay of each asset in one call
          MaxInterest,   \* bound on interest, and on each part of a sale
          MaxPledged,    \* bound on the collateral, topped up
          MaxHeld,       \* nothing is parked or held once this much is
          Listable       \* those the list may name

INSTANCE SanctionsLock WITH Wallets <- Parties, Nobody <- NoUser

VARIABLES vaults, loan, lock

vars == <<vaults, loan, lock>>

ASSUME LoanPositionsAssumption ==
    /\ Users = Parties \cup {Outside} /\ Outside \notin Parties
    /\ Markets \subseteq {m \in Assets \X Assets : m[1] # m[2]}
    /\ Withheld \in [Assets -> Nat] /\ Deposits \in [Keys -> Nat]
    /\ {Lent, Pledged, Supply, MaxInterest, MaxPledged, MaxHeld} \subseteq Nat
    /\ Listable \subseteq Parties
    /\ MaxLoans = 1

(* LibVaipakam.ClaimInfo.                                                  *)
Claim == [amount : Nat, written : BOOLEAN, claimed : BOOLEAN]

NoClaim == [amount |-> 0, written |-> FALSE, claimed |-> FALSE]

Pays(x) == [amount |-> x, written |-> TRUE, claimed |-> FALSE]

(* LibVaipakam.Loan, the tables keyed by its id, and who holds its tokens. *)
Loan == [status : {"Active", "Repaid", "Settled"},
         principalAsset : Assets, collateralAsset : Assets,
         principal : Nat, collateral : Nat,
         held : Nat,                              \* heldForLender
         surplus : Claim,                         \* borrowerSurplusClaims
         lenderClaim : Claim, borrowerClaim : Claim,
         holder : [Sides -> Parties \cup {NoUser}]]

TypeOK == vaults \in Vaults /\ loan \in Loan /\ lock \in Locks

Purses == [k \in Keys |-> IF k[1] = Outside THEN Supply ELSE 0]

Now == [v |-> [vaults EXCEPT !.wallet = Purses], n |-> loan, f |-> lock]

(* A call that reverts leaves no trace.                                    *)
Becomes(S) == Ok(S.v) /\ vaults' = S.v /\ loan' = S.n /\ lock' = S.f

Init ==
    \E m \in Markets : \E p, q \in Parties :
        LET L == SetBorrower(SetLender(EmptyLedger, 1, p), 1, q)
        IN  /\ p # q
            /\ vaults = [ledger |-> CreateCollateralLien(L, 1, m[2], Pledged),
                         tracked |-> [Deposits EXCEPT ![<<q, m[2]>>] = @ + Pledged],
                         depository |-> Deposits,
                         wallet |-> Purses]
            /\ loan = [status |-> "Active", principalAsset |-> m[1], collateralAsset |-> m[2],
                       principal |-> Lent, collateral |-> Pledged, held |-> 0,
                       surplus |-> NoClaim, lenderClaim |-> NoClaim, borrowerClaim |-> NoClaim,
                       holder |-> [side \in Sides |-> IF side = "lender" THEN p ELSE q]]
            /\ lock = Unlocked

-----------------------------------------------------------------------------
(* Parties and money.                                                      *)

Lender(S)   == S.v.ledger.lender[1]
Borrower(S) == S.v.ledger.borrower[1]

Stored(S, side) == IF side = "lender" THEN Lender(S) ELSE Borrower(S)

(* What may arrive of x (LibDelivery.pushMeasured).                        *)
Delivered(a, x) == Excess(x, Withheld[a])..x

Pay(V, u, a, x) == [V EXCEPT !.wallet[<<Outside, a>>] = @ - x, !.wallet[<<u, a>>] = @ + x]

(* vaultWithdrawERC20 into another vault: x leave, y are credited.         *)
MoveERC20(V, from, to, a, x, y) ==
    VaultDepositERC20From(VaultWithdrawERC20(V, from, a, Outside, x), Outside, to, a, y)

LowerLien(V, x) == On(V, DecrementCollateralLien(V.ledger, 1, x))

Reserve(V, lane, u, a, x) == On(V, Encumber(V.ledger, lane, 1, u, a, x))

(* The conditionals `if (amount == 0) return` around a set of outcomes.    *)
Unless(none, S, Outcomes) == IF none THEN {S} ELSE Outcomes

-----------------------------------------------------------------------------
(* Consolidation.                                                          *)

(* Mutant: the loan keeps the collateral that was sent, not what arrived.  *)
MoveCollateralAsSent(S, from, to) ==
    LET a == S.n.collateralAsset
        x == S.n.collateral
    IN  {[S EXCEPT !.v = LowerLien(MoveERC20(@, from, to, a, x, y), x - y)] : y \in Delivered(a, x)}

(* _moveBorrowerCollateral: the pledge shrinks to what arrived.            *)
MoveCollateral(S, from, to) ==
    LET a == S.n.collateralAsset
        x == S.n.collateral
    IN  {[S EXCEPT !.v = LowerLien(MoveERC20(@, from, to, a, x, y), x - y),
                   !.n.collateral = y] : y \in Delivered(a, x)}

(* _moveBorrowerHeld, of what a periodic sale left over.                   *)
MoveSurplus(S, from, to) ==
    LET a == S.n.principalAsset
        x == S.n.surplus.amount
        Capped(V, y) == On(V, CapBorrowerHeldReservation(V.ledger, 1, to, y))
    IN  Unless(S.n.surplus.claimed \/ x = 0, S,
               {[S EXCEPT !.v = Capped(MoveERC20(@, from, to, a, x, y), y),
                          !.n.surplus.amount = y] : y \in Delivered(a, x)})

(* Mutant: what is reserved stays what was sent.                           *)
MoveHeldUncapped(S, from, to) ==
    LET a == S.n.principalAsset
        x == S.n.held
    IN  {[S EXCEPT !.v = MoveERC20(@, from, to, a, x, y), !.n.held = y] : y \in Delivered(a, x)}

(* _moveLenderHeld, of what was parked for the lender side.                *)
MoveHeld(S, from, to) ==
    LET a == S.n.principalAsset
        x == S.n.held
        Capped(V, y) == On(V, CapLenderHeldReservations(V.ledger, 1, to, a, y))
    IN  {[S EXCEPT !.v = Capped(MoveERC20(@, from, to, a, x, y), y),
                   !.n.held = y] : y \in Delivered(a, x)}

(* isExcludedLive, of a loan of this module: VPFI that is held and not     *)
(* reserved would be free in the holder's vault.                           *)
Excluded(S, side) ==
    /\ side = "lender" /\ S.n.held # 0 /\ S.n.principalAsset = Vpfi
    /\ ReservedOf(S.v.ledger, "lenderProceeds", 1, Vpfi)
          + ReservedOf(S.v.ledger, "heldForLender", 1, Vpfi) < S.n.held

(* The rows of the ledger go first, so that the withdraw guard lets the    *)
(* tokens follow, and the loan's party last.                               *)
Relocated(S, side) ==
    LET p == Stored(S, side)
        u == S.n.holder[side]
        Rekeyed == [S EXCEPT !.v = On(@, RekeyLienToHolder(@.ledger, 1, u, side = "lender"))]
    IN  IF side = "lender"
        THEN {[T EXCEPT !.v = On(@, SetLender(@.ledger, 1, u))] : T \in MoveHeld(Rekeyed, p, u)}
        ELSE {[T EXCEPT !.v = On(@, SetBorrower(@.ledger, 1, u))] :
                 T \in UNION {MoveSurplus(U, p, u) : U \in MoveCollateral(Rekeyed, p, u)}}

(* consolidateToHolder: a closed loan is left as it is, and a close-out    *)
(* goes on without it when the side is excluded or its holder is listed.   *)
Consolidated(S, side) ==
    LET u == S.n.holder[side]
    IN  Unless(\/ S.n.status # "Active" \/ Excluded(S, side)
               \/ IsSanctioned(S.f, u) \/ u = Stored(S, side),
               S, Relocated(S, side))

(* eagerConsolidateBothSides.                                              *)
BothConsolidated(S) == UNION {Consolidated(T, "lender") : T \in Consolidated(S, "borrower")}

-----------------------------------------------------------------------------
(* Paying the present holder of a position, or parking for it.             *)

(* _parkActiveLenderShare, of y the stored lender's vault received.        *)
Parked(S, y) ==
    LET a == S.n.principalAsset
        V == VaultDepositERC20From(S.v, Outside, Lender(S), a, y)
    IN  [v |-> Reserve(V, "heldForLender", Lender(S), a, y),
         n |-> [S.n EXCEPT !.held = @ + y],
         f |-> RecordFrozenClaimant(S.f, "lender", S.n.holder["lender"])]

(* freezeOrPayActiveLenderFromPayer (arrivals = {x}: a payer's transfer    *)
(* must arrive in full) and ...Resident (whatever arrives).                *)
FreezeOrPayLender(S, x, arrivals) ==
    LET u == S.n.holder["lender"]
        T == [S EXCEPT !.f = Screened(@, u)]
    IN  IF MustFreeze(S.f, u)
        THEN {Parked(T, y) : y \in arrivals}
        ELSE {[T EXCEPT !.v = Pay(@, u, S.n.principalAsset, x)]}

(* holdBorrowerExtra, of y the stored borrower's vault received.           *)
HoldBorrowerExtra(S, y) ==
    LET a == S.n.principalAsset
        V == VaultDepositERC20From(S.v, Outside, Borrower(S), a, y)
    IN  IF y = 0 THEN S
        ELSE [v |-> Reserve(Guarded(V, ~ S.n.surplus.claimed), "borrowerProceeds", Borrower(S), a, y),
              n |-> [S.n EXCEPT !.surplus.amount = @ + y],
              f |-> RecordFrozenClaimant(S.f, "borrower", S.n.holder["borrower"])]

(* payOrHoldBorrowerExtra: a payment that is refused is held too.          *)
PayOrHoldExtra(S, x) ==
    LET u == S.n.holder["borrower"]
        T == [S EXCEPT !.f = Screened(@, u)]
        Held == {HoldBorrowerExtra(T, y) : y \in Delivered(S.n.principalAsset, x)}
    IN  CASE x = 0                            -> {S}
          [] x > 0 /\ MustFreeze(S.f, u)      -> Held
          [] x > 0 /\ ~ MustFreeze(S.f, u)    -> Held \cup {[T EXCEPT !.v = Pay(@, u, S.n.principalAsset, x)]}

-----------------------------------------------------------------------------
(* Positions.                                                              *)

(* transferFrom, by the holder.                                            *)
TransferFrom(side, to) ==
    LET from == loan.holder[side]
    IN  /\ from \notin {NoUser, to}
        /\ MayMove(lock, from, to)
        /\ Becomes([Now EXCEPT !.n.holder[side] = to, !.f = Moved(@, from, to)])

(* consolidateCollateralToHolder, consolidatePrincipalToHolder.            *)
ConsolidateToHolder(side) ==
    /\ loan.status = "Active"
    /\ ~ Excluded(Now, side) /\ ~ IsSanctioned(lock, loan.holder[side])
    /\ \E S \in Consolidated(Now, side) : Becomes(S)

-----------------------------------------------------------------------------
(* Servicing an open loan.                                                 *)

(* addCollateral, by the holder; the liquidity check aside.                *)
AddCollateral(x) ==
    /\ loan.status = "Active"
    /\ loan.collateral + x <= MaxPledged
    /\ ~ IsSanctioned(lock, loan.holder["borrower"])
    /\ \E S \in Consolidated(Now, "borrower") :
          LET a == S.n.collateralAsset
              V == VaultDepositERC20From(S.v, Outside, Borrower(S), a, x)
          IN  Becomes([S EXCEPT !.v = On(V, IncrementCollateralLien(V.ledger, 1, a, x)),
                                !.n.collateral = @ + x])

(* partialWithdrawCollateral, by the holder: a loan with no collateral at  *)
(* all has no acceptable health factor.                                    *)
PartialWithdrawCollateral(x) ==
    LET u == loan.holder["borrower"]
    IN  /\ loan.status = "Active"
        /\ ~ IsSanctioned(lock, u)
        /\ \E S \in Consolidated(Now, "borrower") :
              /\ x < S.n.collateral
              /\ Becomes([S EXCEPT !.v = VaultWithdrawERC20(LowerLien(@, x), Borrower(S),
                                                            S.n.collateralAsset, u, x),
                                   !.n.collateral = @ - x])

(* Mutant: nothing compares the payment with the principal.                *)
RepayPartialUnguarded(x, i) ==
    /\ loan.status = "Active" /\ loan.held < MaxHeld
    /\ \E S \in BothConsolidated(Now) : \E T \in FreezeOrPayLender(S, x + i, {x + i}) :
          Becomes([T EXCEPT !.n.principal = @ - x])

(* repayPartial, of x of the principal and the lender's share i of what    *)
(* interest has accrued.                                                   *)
RepayPartial(x, i) ==
    /\ loan.status = "Active" /\ loan.held < MaxHeld
    /\ x < loan.principal
    /\ \E S \in BothConsolidated(Now) : \E T \in FreezeOrPayLender(S, x + i, {x + i}) :
          Becomes([T EXCEPT !.n.principal = @ - x])

(* settlePeriodicInterest of an overdue period: q of the collateral are    *)
(* sold, i go to the lender and e are left over.  What the treasury and    *)
(* the keeper get is Outside's.                                            *)
SettlePeriodicInterest(q, i, e) ==
    /\ loan.status = "Active" /\ loan.held + loan.surplus.amount < MaxHeld
    /\ \E S \in BothConsolidated(Now) :
          LET a == S.n.collateralAsset
              Sold == [S EXCEPT !.v = VaultWithdrawERC20(LowerLien(@, q), Borrower(S), a, Outside, q),
                                !.n.collateral = @ - q]
          IN  /\ q <= S.n.collateral
              /\ \E T \in FreezeOrPayLender(Sold, i, Delivered(S.n.principalAsset, i)) :
                    \E U \in PayOrHoldExtra(T, e) : Becomes(U)

-----------------------------------------------------------------------------
(* The end of the loan.                                                    *)

(* repayLoan, with the lender's share i of the interest.  The terminal     *)
(* transition records both holders (terminalizeFromAny).                   *)
RepayLoan(i) ==
    /\ loan.status = "Active"
    /\ \E S \in BothConsolidated(Now) :
          LET a   == S.n.principalAsset
              due == S.n.principal + i
              V   == VaultDepositERC20From(S.v, Outside, Lender(S), a, due)
          IN  Becomes([v |-> IF a = Vpfi THEN Reserve(V, "lenderProceeds", Lender(S), a, due) ELSE V,
                       n |-> [S.n EXCEPT !.lenderClaim = Pays(due),
                                         !.borrowerClaim = Pays(S.n.collateral),
                                         !.status = "Repaid"],
                       f |-> RecordBoth(S.f, S.n.holder)])

LaneOpen(claim) == ~ claim.claimed /\ claim.amount > 0

BorrowerSideOpen(n) == LaneOpen(n.borrowerClaim) \/ LaneOpen(n.surplus)

LenderSideOpen(n) == n.lenderClaim.written \/ n.held > 0

Settled(n, last) == [n EXCEPT !.status = IF last THEN "Settled" ELSE @]

PayOut(V, u, to, a, x) == IF x > 0 THEN VaultWithdrawERC20(V, u, a, to, x) ELSE V

(* claimAsLender, by the holder, whose position is burned.                 *)
ClaimAsLender ==
    LET u == loan.holder["lender"]
        p == Lender(Now)
        F == RecordBoth(lock, loan.holder)
        L == ReleaseReserved(ReleaseReserved(vaults.ledger, "lenderProceeds", 1, p),
                             "heldForLender", 1, p)
        a == loan.principalAsset
    IN  /\ loan.status = "Repaid" /\ ~ loan.lenderClaim.claimed /\ LenderSideOpen(loan)
        /\ u # NoUser /\ ~ IsSanctioned(lock, u)
        /\ MayRelease(F, "lender")
        /\ Becomes([v |-> PayOut(PayOut(On(Now.v, L), p, u, a, loan.lenderClaim.amount),
                                 p, u, a, loan.held),
                    n |-> Settled([loan EXCEPT !.lenderClaim.claimed = TRUE,
                                               !.holder["lender"] = NoUser],
                                  ~ BorrowerSideOpen(loan)),
                    f |-> Released(F, "lender")])

(* claimAsBorrower, by the holder, whose position is burned.               *)
ClaimAsBorrower ==
    LET u == loan.holder["borrower"]
        q == Borrower(Now)
        F == RecordBoth(lock, loan.holder)
        L == ReleaseReserved(ReleaseCollateralLien(vaults.ledger, 1), "borrowerProceeds", 1, q)
        Lane(claim) == IF LaneOpen(claim) THEN claim.amount ELSE 0
    IN  /\ loan.status = "Repaid" /\ BorrowerSideOpen(loan)
        /\ u # NoUser /\ ~ IsSanctioned(lock, u)
        /\ MayRelease(F, "borrower")
        /\ Becomes([v |-> PayOut(PayOut(On(Now.v, L), q, u, loan.collateralAsset,
                                        Lane(loan.borrowerClaim)),
                                 q, u, loan.principalAsset, Lane(loan.surplus)),
                    n |-> Settled([loan EXCEPT !.borrowerClaim.claimed = TRUE,
                                               !.surplus.claimed = LaneOpen(loan.surplus),
                                               !.holder["borrower"] = NoUser],
                                  loan.lenderClaim.claimed \/ ~ LenderSideOpen(loan)),
                    f |-> Released(F, "borrower")])

-----------------------------------------------------------------------------
(* What a user does with the own vault, and the registry.                  *)

Withdraw(u, a, x) ==
    /\ ~ IsSanctioned(lock, u)
    /\ Becomes([Now EXCEPT !.v = WithdrawFromVault(@, u, a, u, x)])

(* withdrawVPFIFromVault, of whatever VPFI is free.                        *)
WithdrawVPFI(u, x) ==
    /\ ~ IsSanctioned(lock, u)
    /\ Becomes([Now EXCEPT !.v = Spend(VaultWithdrawERC20(@, u, Vpfi, u, x), u, Vpfi, x)])

(* refreshSanctionsFlag, by anybody.                                       *)
RefreshSanctionsFlag(w) == lock.up /\ Becomes([Now EXCEPT !.f = Screened(@, w)])

(* The list's publisher, and its being reachable.                          *)
SetListed(w, on) == Becomes([Now EXCEPT !.f.listed = IF on THEN @ \cup {w} ELSE @ \ {w}])

SetReachable(on) == Becomes([Now EXCEPT !.f.up = on])

PositionNext ==
    \E side \in Sides : ConsolidateToHolder(side) \/ \E to \in Parties : TransferFrom(side, to)

ServicingNext ==
    \/ \E x \in 1..MaxPledged : AddCollateral(x) \/ PartialWithdrawCollateral(x)
    \/ \E x \in 1..Lent, i \in 0..MaxInterest : RepayPartial(x, i)
    \/ \E q \in 1..MaxPledged, i \in 1..MaxInterest, e \in 0..MaxInterest : SettlePeriodicInterest(q, i, e)

ClosingNext ==
    \/ \E i \in 0..MaxInterest : RepayLoan(i)
    \/ ClaimAsLender
    \/ ClaimAsBorrower

WithdrawNext ==
    \E u \in Parties, x \in 1..Lent : WithdrawVPFI(u, x) \/ \E a \in Assets : Withdraw(u, a, x)

(* Bound: once both claims are made the list no longer matters.            *)
ListNext ==
    /\ loan.status # "Settled"
    /\ \/ \E w \in Listable : RefreshSanctionsFlag(w) \/ \E on \in BOOLEAN : SetListed(w, on)
       \/ \E on \in BOOLEAN : SetReachable(on)

Next == PositionNext \/ ServicingNext \/ ClosingNext \/ WithdrawNext \/ ListNext

Spec == Init /\ [][Next]_vars

-----------------------------------------------------------------------------
(* What the loan owes out of the vault of u in the asset a, to whoever     *)
(* holds the positions.                                                    *)
LenderClaimOwed(u, a) ==
    IF u = Lender(Now) /\ a = loan.principalAsset /\ loan.status = "Repaid"
          /\ ~ loan.lenderClaim.claimed
    THEN loan.lenderClaim.amount ELSE 0

HeldOwed(u, a) ==
    IF u = Lender(Now) /\ a = loan.principalAsset /\ ~ loan.lenderClaim.claimed
    THEN loan.held ELSE 0

PledgeOwed(u, a) ==
    IF u = Borrower(Now) /\ a = loan.collateralAsset /\ ~ loan.borrowerClaim.claimed
    THEN loan.collateral ELSE 0

SurplusOwed(u, a) ==
    IF u = Borrower(Now) /\ a = loan.principalAsset /\ LaneOpen(loan.surplus)
    THEN loan.surplus.amount ELSE 0

(* Wherever the positions have gone and whatever the tokens kept on the    *)
(* way, the vault of each stored party holds what the loan will pay out of *)
(* it beside what its owner deposited, and no other vault holds anything   *)
(* of the loan's (LibConsolidation's moves and ClaimFacet's payouts).      *)
VaultsFollowPositions ==
    \A u \in Parties, a \in Assets :
        vaults.tracked[<<u, a>>] = vaults.depository[<<u, a>>]
            + LenderClaimOwed(u, a) + HeldOwed(u, a) + PledgeOwed(u, a) + SurplusOwed(u, a)

(* The former holder of a position can take none of it out of the own      *)
(* vault, and nobody is kept from the own deposits: all that the loan owes *)
(* is reserved, in the vault it is in, and nothing more.  A claim that is  *)
(* not VPFI needs no reservation: only a recorded deposit is withdrawable. *)
ReservedIsOwed ==
    \A u \in Parties, a \in Assets :
        vaults.ledger.encumbered[<<u, a>>]
            = HeldOwed(u, a) + PledgeOwed(u, a) + SurplusOwed(u, a)
                + (IF a = Vpfi THEN LenderClaimOwed(u, a) ELSE 0)

(* A wallet that is listed, and was confirmed to be while the list could   *)
(* be read, gets nothing from the protocol while the list is out of reach  *)
(* either: no servicing payment, no claim of its own or of a position it   *)
(* sold or bought, only its own deposits.  The one exception is that a     *)
(* borrower may take back part of the own pledge (the screen of            *)
(* PartialWithdrawalFacet.sol fails open).                                 *)
NothingNewWhileBarred ==
    [][(\E x \in 1..MaxPledged : PartialWithdrawCollateral(x))
         \/ \A w \in lock.confirmed \cap lock.listed : \A a \in Assets :
               vaults'.wallet[<<w, a>>] + vaults'.depository[<<w, a>>]
                   <= vaults.depository[<<w, a>>]]_vars

=============================================================================
