----------------------------- MODULE FallbackLoan -----------------------------
(***************************************************************************)
(* The life of one ERC-20 loan from its opening to its settlement: how its *)
(* collateral, its proceeds and the two claims on them move between the    *)
(* vaults of its parties (facets/AddCollateralFacet.sol, RepayFacet.sol,   *)
(* DefaultedFacet.sol, RiskFacet.sol, ForcedSaleFacet.sol,                 *)
(* FallbackCustodyFacet.sol, RiskMatchLiquidationFacet.sol and             *)
(* ClaimFacet.sol).                                                        *)
(*                                                                         *)
(* A state S has the vaults S.v and the loan S.n.  What a call may do to   *)
(* it depends on prices, on what a swap yields and on what a token         *)
(* delivers of what is sent, so a handler is an operator from a state to   *)
(* the set of states it may leave; one whose ledger is not ok is a call    *)
(* that reverts.  The Diamond holds tokens only inside a call.  Outside    *)
(* stands for everybody else: treasury, keepers, venues, counterparties,   *)
(* the parties' own wallets, and what a token keeps of a transfer.         *)
(*                                                                         *)
(* Prices decide the outcome of nearly every call and are not modelled:    *)
(* each choice they make is free.  Time, access control, sanctions and     *)
(* the movement of positions to new owners are left out, and so are the    *)
(* other ways a loan may end (preclose, refinance, swap to repay, prepay   *)
(* sale, discounted liquidation).                                          *)
(***************************************************************************)
EXTENDS Vault

CONSTANTS Lender, Borrower, Diamond, Outside,
          Principal,     \* loan.principalAsset
          Collateral,    \* loan.collateralAsset
          Vpfi,          \* s.vpfiToken
          Withheld,      \* what a token may keep of one transfer, at most
          Lent, Pledged, \* the principal and the collateral at the start
          Deposits,      \* what each vault holds for its owner at the start
          Supply,        \* what Outside holds of each asset
          MaxInterest,   \* bound on what is due on top of the principal
          MaxFee,        \* bound on each bonus, fee or share of the treasury
          MaxProceeds,   \* bound on what a swap yields
          MaxPledged,    \* bound on the collateral, topped up
          MaxHeld,       \* no periodic settlement once this much is held
          BackstopOn     \* whether the protocol's backstop absorbs loans

ASSUME FallbackLoanAssumption ==
    /\ {Lender, Borrower, Diamond, Outside} \subseteq Users
    /\ Lender # Borrower /\ Diamond \notin {Lender, Borrower}
    /\ Outside \notin {Lender, Borrower, Diamond}
    /\ {Principal, Collateral, Vpfi} \subseteq Assets /\ Principal # Collateral
    /\ Withheld \in [Assets -> Nat]
    /\ {Lent, Pledged, Supply, MaxInterest, MaxFee, MaxProceeds, MaxPledged,
        MaxHeld} \subseteq Nat
    /\ Deposits \in [Keys -> Nat]
    /\ BackstopOn \in BOOLEAN
    /\ MaxLoans = 1

VARIABLES vaults, loan

vars == <<vaults, loan>>

Now == [v |-> vaults, n |-> loan]

(* LibVaipakam.ClaimInfo and FallbackSnapshot.                             *)
Claim == [asset : Assets \cup {NoAsset}, amount : Nat, claimed : BOOLEAN]

Snapshot == [lender : Nat, treasury : Nat, borrower : Nat, lenderDue : Nat, treasuryDue : Nat,
             active : BOOLEAN, retried : BOOLEAN]

Statuses == {"Active", "Repaid", "Defaulted", "FallbackPending", "InternalMatched", "Settled"}

(* LibVaipakam.Loan and the tables keyed by its id.                        *)
Loan == [status : Statuses, principal : Nat, collateral : Nat,
         custody : Nat,                 \* fallbackVaultCustody
         snap : Snapshot,               \* fallbackSnapshot
         lenderClaim : Claim, borrowerClaim : Claim,
         surplus : Claim,               \* borrowerSurplusClaims
         held : Nat,                    \* heldForLender
         optIn : BOOLEAN]               \* lenderBackstopOptIn

NoClaim    == [asset |-> NoAsset, amount |-> 0, claimed |-> FALSE]
NoSnapshot == [lender |-> 0, treasury |-> 0, borrower |-> 0, lenderDue |-> 0, treasuryDue |-> 0,
               active |-> FALSE, retried |-> FALSE]

Pays(a, x)      == [asset |-> a, amount |-> x, claimed |-> FALSE]
PaysIfAny(a, x) == [asset |-> a, amount |-> x, claimed |-> x = 0]

Closed == {"Repaid", "Defaulted", "InternalMatched"}

-----------------------------------------------------------------------------
(* Tokens.                                                                 *)

(* What may arrive of x (LibDelivery.pushMeasured), and every <<sent,      *)
(* arrived>> of which at least x and at most z are sent.                   *)
Delivered(a, x) == Excess(x, Withheld[a])..x

Deliveries(a, x, z) == {s \in (x..z) \X (0..z) : s[2] \in Delivered(a, s[1])}

Transfer(V, p, q, a, x) ==
    Guarded([V EXCEPT !.wallet[<<p, a>>] = @ - x, !.wallet[<<q, a>>] = @ + x],
            x <= V.wallet[<<p, a>>])

(* pullToDiamond: x leave the borrower's vault, y arrive.                  *)
PullToDiamond(V, a, x, y) ==
    Transfer(VaultWithdrawERC20(V, Borrower, a, Diamond, x), Diamond, Outside, a, x - y)

(* depositLocked: x leave the Diamond, y are credited to the vault of u.   *)
DepositLocked(V, u, a, x, y) ==
    VaultDepositERC20From(Transfer(V, Diamond, Outside, a, x - y), Diamond, u, a, y)

(* depositLockedFromVault: x leave the borrower's vault, the vault of u is *)
(* credited with y.                                                        *)
DepositFromVault(V, u, a, x, y) ==
    VaultDepositERC20From(VaultWithdrawERC20(V, Borrower, a, Outside, x), Outside, u, a, y)

(* LibSwap: the Diamond gives x of the collateral for y of the principal.  *)
Swapped(V, x, y) ==
    Transfer(Transfer(V, Diamond, Outside, Collateral, x), Outside, Diamond, Principal, y)

-----------------------------------------------------------------------------
(* The loan's rows in the ledger.                                          *)

LienRow(V) == V.ledger.loanCollateralLien[1]

LienAmount(V) == IF LienRow(V).live THEN LienRow(V).amount ELSE 0

ReleaseLien(V)  == On(V, ReleaseCollateralLien(V.ledger, 1))
LowerLien(V, x) == On(V, DecrementCollateralLien(V.ledger, 1, x))
RaiseLien(V, x) == On(V, IncrementCollateralLien(V.ledger, 1, Collateral, x))

Reserve(V, lane, u, a, x) == On(V, Encumber(V.ledger, lane, 1, u, a, x))

(* Proceeds are reserved when they are VPFI: a user may withdraw free VPFI *)
(* from the own vault at will.                                             *)
ReserveVpfi(V, lane, u, a, x) == IF a = Vpfi THEN Reserve(V, lane, u, a, x) ELSE V

Release(V, lane, u) == On(V, ReleaseReserved(V.ledger, lane, 1, u))

(* fallbackTopUp: what was pledged while the fallback was pending.         *)
TopUp(S) == IF S.n.status = "FallbackPending" THEN Excess(LienAmount(S.v), S.n.custody) ELSE 0

(* internalMatchableCollateral.                                            *)
MatchableCollateral(n) == IF n.status = "FallbackPending" THEN n.custody ELSE n.collateral

-----------------------------------------------------------------------------
(* LibCloseoutFreeze: which side still has something to claim.             *)

LenderSideOpen(n) ==
    n.lenderClaim.asset # NoAsset \/ n.lenderClaim.amount > 0 \/ n.held > 0

LaneOpen(claim) == ~ claim.claimed /\ claim.amount > 0

BorrowerSideOpen(n) == LaneOpen(n.borrowerClaim) \/ LaneOpen(n.surplus)

(* What a call may be worth: amounts on top of the principal.              *)
Debts(n) == n.principal..(n.principal + MaxInterest)

-----------------------------------------------------------------------------
(* Entering the fallback.                                                  *)

(* computeFallbackEntitlements: the lender's slice is rounded up.          *)
Slices(x) ==
    {s \in [lender : AtMost(1, x)..x, treasury : 0..x, borrower : 0..x] :
        s.lender + s.treasury + s.borrower = x}

Snapshots(n) ==
    {[lender |-> s.lender, treasury |-> s.treasury, borrower |-> s.borrower,
      lenderDue |-> d, treasuryDue |-> t, active |-> TRUE, retried |-> FALSE] :
        s \in Slices(n.collateral), d \in Debts(n), t \in 0..MaxFee}

SnapshotTotal(n) == n.snap.lender + n.snap.treasury + n.snap.borrower

RequireSnapshotMatchesRow(S) ==
    [S EXCEPT !.v = Guarded(@, SnapshotTotal(S.n) = S.n.custody)]

(* _custodyIntoVault.                                                      *)
CustodyIntoVault(S, x, y) ==
    [S EXCEPT !.v = RaiseLien(DepositLocked(@, Borrower, Collateral, x, y), y),
              !.n.custody = @ + y]

(* enterFallback: all the collateral is in the Diamond.                    *)
EnterFallback(S) ==
    LET Credited(y)   == [CustodyIntoVault(S, S.n.collateral, y) EXCEPT !.n.collateral = y]
        Sliced(T, s)  == RequireSnapshotMatchesRow(
                             [T EXCEPT !.n.snap = s,
                                       !.n.lenderClaim = Pays(Collateral, s.lender),
                                       !.n.borrowerClaim = PaysIfAny(Collateral, s.borrower),
                                       !.n.status = "FallbackPending"])
    IN  UNION {{Sliced(T, s) : s \in Snapshots(T.n)} :
                  T \in {Credited(y) : y \in Delivered(Collateral, S.n.collateral)}}

-----------------------------------------------------------------------------
(* The forced sale.                                                        *)

(* _open: q of the collateral leave the pledge, r of them arrive.          *)
OpenSale(S, q, r) ==
    [S EXCEPT !.v = PullToDiamond(LowerLien(@, q), Collateral, q, r)]

(* How much is sold, at least one unit of what there is, follows from      *)
(* prices.                                                                 *)
Openings(n) == Deliveries(Collateral, AtMost(1, n.collateral), n.collateral)

(* _split of what a sale for the debt d yields: what the lender is owed of *)
(* it after the keeper's bonus, and what is left after the handling fee.   *)
Splits(d, got) ==
    {[lender |-> AtMost(got - b, d), extra |-> Excess(Excess(got - b, d), f)] :
        b \in 0..AtMost(MaxFee, AtMost(got, d)), f \in 0..MaxFee}

(* Mutant: what is held replaces what was held before.                     *)
HoldBorrowerExtraLast(S, x, y) ==
    LET V == DepositLocked(S.v, Borrower, Principal, x, y)
    IN  IF y = 0 THEN [S EXCEPT !.v = V]
        ELSE [S EXCEPT !.v = Reserve(V, "borrowerProceeds", Borrower, Principal, y),
                       !.n.surplus = Pays(Principal, y)]

(* holdBorrowerExtra, of x the Diamond has.                                *)
HoldBorrowerExtra(S, x, y) ==
    LET V == DepositLocked(S.v, Borrower, Principal, x, y)
    IN  IF y = 0 THEN [S EXCEPT !.v = V]
        ELSE [S EXCEPT !.v = Reserve(Guarded(V, ~ S.n.surplus.claimed),
                                     "borrowerProceeds", Borrower, Principal, y),
                       !.n.surplus = [asset |-> Principal, amount |-> @.amount + y,
                                      claimed |-> FALSE]]

HeldExtra(S, x) == {HoldBorrowerExtra(S, x, y) : y \in Delivered(Principal, x)}

(* Mutant: the lender's proceeds are not reserved.                         *)
LenderBookedUnreserved(S, x) ==
    {[S EXCEPT !.v = DepositLocked(@, Lender, Principal, x, y),
               !.n.lenderClaim = Pays(Principal, y)] : y \in Delivered(Principal, x)}

(* x of what the Diamond has become the lender's claim.                    *)
LenderBooked(S, x) ==
    {[S EXCEPT !.v = ReserveVpfi(DepositLocked(@, Lender, Principal, x, y),
                                 "lenderProceeds", Lender, Principal, y),
               !.n.lenderClaim = Pays(Principal, y)] : y \in Delivered(Principal, x)}

(* _bookTerminal: the treasury takes its share t of the interest, and what *)
(* the split gave to nobody.                                               *)
BookTerminal(S, got, p) ==
    LET Taxed(t) == [S EXCEPT !.v = Transfer(@, Diamond, Outside, Principal,
                                             got - p.lender - p.extra + t)]
        Booked   == UNION {LenderBooked(Taxed(t), p.lender - t) :
                              t \in 0..AtMost(MaxFee, Excess(p.lender, S.n.principal))}
    IN  UNION {HeldExtra(T, p.extra) : T \in Booked}

(* Mutant: the claim is computed before the sale is taken off the pledge.  *)
RecordUnsoldWhole(S, q, r) ==
    [S EXCEPT !.n.borrowerClaim = PaysIfAny(Collateral, S.n.collateral),
              !.n.collateral = @ - q + r,
              !.n.status = "Defaulted"]

(* _recordUnsold: q were to be sold, r of them arrived.                    *)
RecordUnsold(S, q, r) ==
    LET unsold == S.n.collateral - q
    IN  [S EXCEPT !.n.borrowerClaim = PaysIfAny(Collateral, unsold),
                  !.n.collateral = unsold + r,
                  !.n.status = "Defaulted"]

SaleSettled(S, q, r) ==
    LET Yielded(got) == [S EXCEPT !.v = Swapped(@, r, got)]
        Settled(d, got) == UNION {BookTerminal(Yielded(got), got, p) : p \in Splits(d, got)}
    IN  {RecordUnsold(T, q, r) :
            T \in UNION {Settled(d, got) : d \in Debts(S.n), got \in 0..MaxProceeds}}

(* _gatherForFallback: the rest of the collateral follows.                 *)
GatherForFallback(S, q, r) ==
    LET rest == S.n.collateral - q
    IN  {[S EXCEPT !.v = PullToDiamond(ReleaseLien(@), Collateral, rest, y),
                   !.n.collateral = r + y] : y \in Delivered(Collateral, rest)}

SaleFailed(S, q, r) == UNION {EnterFallback(T) : T \in GatherForFallback(S, q, r)}

(* sellToNeed, and what a liquidation or a default makes of its outcome.   *)
Sale(S) ==
    LET Opened(s) == OpenSale(S, s[1], s[2])
    IN  UNION {SaleSettled(Opened(s), s[1], s[2]) \cup SaleFailed(Opened(s), s[1], s[2]) :
                  s \in Openings(S.n)}

-----------------------------------------------------------------------------
(* Internal matching: the collateral of this loan pays another lender, and *)
(* the collateral of another loan pays this one.  The other loan is        *)
(* Outside.  Every leg must be delivered in full.                          *)

Matches(n) ==
    {m \in [paid : 1..n.principal, fee : 0..MaxFee, taken : 1..MatchableCollateral(n)] :
        m.fee < m.paid}

(* _consumeLeg, _settleLeg, _clearMatched.                                 *)
Legs(S, m) ==
    LET pending == S.n.status = "FallbackPending"
        U == IF pending THEN RequireSnapshotMatchesRow(S).v ELSE S.v
        V == LowerLien(Guarded(U, pending => m.taken <= S.n.custody), m.taken)
    IN  [S EXCEPT !.v = VaultDepositERC20From(
                            VaultWithdrawERC20(V, Borrower, Collateral, Outside, m.taken),
                            Outside, Lender, Principal, m.paid - m.fee),
                  !.n.custody = IF pending THEN @ - m.taken ELSE @,
                  !.n.principal = @ - m.paid,
                  !.n.collateral = @ - m.taken]

LenderMatched(S, x) ==
    [S EXCEPT !.v = ReserveVpfi(@, "lenderProceeds", Lender, Principal, x),
              !.n.lenderClaim = Pays(Principal, x)]

(* Mutant: the reservation is taken in the vault of the other party.       *)
LenderHoldsElsewhere(S, x) ==
    [S EXCEPT !.v = ReserveVpfi(@, "lenderProceeds", Borrower, Principal, x), !.n.held = @ + x]

LenderHolds(S, x) ==
    [S EXCEPT !.v = ReserveVpfi(@, "lenderProceeds", Lender, Principal, x), !.n.held = @ + x]

(* Mutant: the lien is lifted as soon as there is nothing left to match.   *)
MatchedInFullOnCustody(S, x) ==
    LET T == LenderMatched(S, x)
        M == [T EXCEPT !.n.status = "InternalMatched", !.n.snap.active = FALSE, !.n.custody = 0]
    IN  IF MatchableCollateral(S.n) > 0
        THEN [M EXCEPT !.n.borrowerClaim = Pays(Collateral, S.n.collateral)]
        ELSE [M EXCEPT !.v = ReleaseLien(@), !.n.borrowerClaim = NoClaim]

(* The loan is paid off: what is left of the collateral is the borrower's. *)
(* A pending loan with none left loses its claim, an active one has none.  *)
MatchedInFull(S, x) ==
    LET T == LenderMatched(S, x)
        M == [T EXCEPT !.n.status = "InternalMatched", !.n.snap.active = FALSE, !.n.custody = 0]
    IN  IF S.n.collateral > 0
        THEN [M EXCEPT !.n.borrowerClaim = Pays(Collateral, S.n.collateral)]
        ELSE [M EXCEPT !.v = ReleaseLien(@), !.n.borrowerClaim = NoClaim]

(* Nothing in custody and a top-up: the rest of the debt is written off.   *)
MatchedOut(S, topUp) ==
    [S EXCEPT !.n.status = "InternalMatched", !.n.snap.active = FALSE, !.n.principal = 0,
              !.n.borrowerClaim = Pays(Collateral, topUp), !.n.lenderClaim.amount = 0]

(* Mutant: the lender's slice is rounded down, at the lender's cost.       *)
RescaledDown(s, new, old) ==
    LET lender   == (s.lender * new) \div old
        treasury == (s.treasury * new) \div old
    IN  [s EXCEPT !.lender = lender, !.treasury = treasury, !.borrower = new - lender - treasury,
                  !.lenderDue = (@ * new) \div old, !.treasuryDue = (@ * new) \div old]

(* The snapshot of a custody that was `old` is cut down to what it is now. *)
Rescaled(s, new, old) ==
    LET lender   == (s.lender * new + old - 1) \div old
        treasury == (s.treasury * new) \div old
    IN  [s EXCEPT !.lender = lender, !.treasury = treasury, !.borrower = new - lender - treasury,
                  !.lenderDue = (@ * new) \div old, !.treasuryDue = (@ * new) \div old]

ClaimsOfSnapshot(S, s) ==
    [S EXCEPT !.n.snap = s, !.n.lenderClaim.amount = s.lender,
              !.n.borrowerClaim.amount = s.borrower, !.n.borrowerClaim.claimed = (s.borrower = 0)]

(* _settleFallbackOrTransitionPostMatch.                                   *)
Match(S, m) ==
    LET T == Legs(S, m)
        x == m.paid - m.fee
        pending == S.n.status = "FallbackPending"
        topUp == TopUp(T)
    IN  CASE T.n.principal = 0 -> MatchedInFull(T, x)
          [] T.n.principal # 0 /\ ~ pending -> LenderHolds(T, x)
          [] T.n.principal # 0 /\ pending /\ T.n.custody = 0 /\ topUp > 0 ->
                MatchedOut(LenderHolds(T, x), topUp)
          [] OTHER -> ClaimsOfSnapshot(LenderHolds(T, x),
                                       Rescaled(T.n.snap, T.n.custody, S.n.custody))

InternalMatches(S) == {Match(S, m) : m \in Matches(S.n)}

(* attemptInternalMatchAutoDispatch: there may be a loan to match with.    *)
AutoDispatch(S) == {S} \cup InternalMatches(S)

-----------------------------------------------------------------------------
(* What becomes of the collateral in custody.                              *)

(* Mutant: the borrower's slice bears all of a shortfall.                  *)
AbsorbShortfallByBorrower(S, x) ==
    ClaimsOfSnapshot([S EXCEPT !.n.collateral = Excess(@, x)],
                     [S.n.snap EXCEPT !.borrower = @ - x])

(* _absorbCustodyShortfall: the borrower's slice gives way first, then the *)
(* treasury's.                                                             *)
AbsorbShortfall(S, x) ==
    LET s == S.n.snap
        b == AtMost(x, s.borrower)
        t == AtMost(x - b, s.treasury)
        T == [S EXCEPT !.n.collateral = Excess(@, x)]
    IN  ClaimsOfSnapshot(T, [s EXCEPT !.borrower = @ - b, !.treasury = @ - t,
                                      !.lender = @ - (x - b - t)])

RequireVaultHeld(S) == RequireSnapshotMatchesRow(S)

(* _moveOut, for a retry: all of it, of which p arrive.                    *)
PulledForRetry(S, p) ==
    LET T == RequireVaultHeld(S)
    IN  [T EXCEPT !.v = PullToDiamond(LowerLien(@, S.n.custody), Collateral, S.n.custody, p),
                  !.n.custody = 0]

(* _distributeRetryProceeds: the lender is paid first, then the treasury.  *)
(* y arrive of the lender's part and z of the borrower's.                  *)
Distributed(S, lender, treasury, borrower, y, z) ==
    LET V == DepositLocked(Transfer(S.v, Diamond, Outside, Principal, treasury),
                           Lender, Principal, lender, y)
    IN  [S EXCEPT !.v = ReserveVpfi(DepositLocked(V, Borrower, Principal, borrower, z),
                                    "borrowerProceeds", Borrower, Principal, z),
                  !.n.lenderClaim = Pays(Principal, y),
                  !.n.borrowerClaim = PaysIfAny(Principal, z)]

DistributeRetryProceeds(S, got) ==
    LET lender   == AtMost(got, S.n.snap.lenderDue)
        treasury == AtMost(got - lender, S.n.snap.treasuryDue)
        borrower == got - lender - treasury
    IN  {Distributed(S, lender, treasury, borrower, y, z) :
            y \in Delivered(Principal, lender), z \in Delivered(Principal, borrower)}

(* retryFallbackSwap, when the swap is done and when it is not; what it    *)
(* yields is distributed by the caller.                                    *)
RetrySucceeded(S) ==
    LET Pulled == {<<p, PulledForRetry(S, p)>> : p \in Delivered(Collateral, S.n.custody)}
    IN  IF S.n.custody = 0 THEN {}
        ELSE UNION {DistributeRetryProceeds([q[2] EXCEPT !.v = Swapped(@, q[1], got)], got) :
                       q \in Pulled, got \in 0..MaxProceeds}

RetryFailed(S) ==
    LET held == S.n.custody
        Restored(p, r) ==
            LET T == CustodyIntoVault(PulledForRetry(S, p), p, r)
            IN  RequireSnapshotMatchesRow(IF r < held THEN AbsorbShortfall(T, held - r) ELSE T)
    IN  IF held = 0 THEN {RequireVaultHeld(S)}
        ELSE UNION {{Restored(p, r) : r \in Delivered(Collateral, p)} :
                       p \in Delivered(Collateral, held)}

Tried(S) == [S EXCEPT !.n.snap.retried = TRUE]

(* disposeFallbackCustody: the treasury's slice leaves, the lender's goes  *)
(* to the vault of u, the borrower's stays under the lien.  y is what      *)
(* arrives of the lender's.                                                *)
Disposed(S, u, y) ==
    LET s == S.n.snap
        T == RequireVaultHeld(S)
        V == VaultWithdrawERC20(LowerLien(T.v, s.treasury), Borrower, Collateral, Outside, s.treasury)
    IN  IF S.n.custody = 0 THEN T
        ELSE [T EXCEPT !.v = DepositFromVault(LowerLien(V, s.lender), u, Collateral, s.lender, y),
                       !.n.custody = 0]

(* The lender takes the slice.                                             *)
DisposedToLender(S) ==
    {[Disposed(S, Lender, y) EXCEPT !.n.lenderClaim.amount = y] :
        y \in Delivered(Collateral, S.n.snap.lender)}

Inactive(S) == [S EXCEPT !.n.snap.active = FALSE]

(* Mutant: the borrower's claim stays the slice of the snapshot.           *)
FallbackDefaultedSliceOnly(S) ==
    IF S.n.status = "FallbackPending" THEN [S EXCEPT !.n.status = "Defaulted"] ELSE S

(* A loan whose fallback is resolved defaults, and the borrower's claim    *)
(* becomes all that is still under the lien.                               *)
FallbackDefaulted(S) ==
    LET T == IF S.n.status = "FallbackPending" THEN [S EXCEPT !.n.status = "Defaulted"] ELSE S
        c == T.n.borrowerClaim
    IN  IF /\ T.n.status = "Defaulted" /\ LienAmount(T.v) > 0
           /\ c.amount = 0 \/ c.asset = Collateral
        THEN [T EXCEPT !.n.borrowerClaim = Pays(Collateral, LienAmount(T.v))]
        ELSE T

-----------------------------------------------------------------------------
(* The claims.                                                             *)

SettledIf(S, p) == IF p THEN [S EXCEPT !.n.status = "Settled"] ELSE S

(* A withdraw to the outside that is skipped when there is nothing.        *)
PaidOut(V, u, a, x) == IF x > 0 THEN VaultWithdrawERC20(V, u, a, Outside, x) ELSE V

(* The lender's reservations are lifted, then the claim and what was held  *)
(* are paid.                                                               *)
LenderCollects(S) ==
    LET c == S.n.lenderClaim
        V == Release(Release(S.v, "lenderProceeds", Lender), "heldForLender", Lender)
    IN  [S EXCEPT !.v = PaidOut(PaidOut(V, Lender, c.asset, c.amount), Lender, Principal, S.n.held),
                  !.n.lenderClaim.claimed = TRUE]

(* Mutants: the borrower's surplus does not keep the loan from settling; a *)
(* borrower who never had anything to claim does.                          *)
LenderPaidSurplusForgotten(S) ==
    LET T == LenderCollects(S) IN SettledIf(T, ~ LaneOpen(T.n.borrowerClaim))

LenderPaidBorrowerAwaited(S) ==
    LET T == LenderCollects(S) IN SettledIf(T, T.n.borrowerClaim.claimed)

LenderPaid(S) == LET T == LenderCollects(S) IN SettledIf(T, ~ BorrowerSideOpen(T.n))

(* _resolveFallbackIfActive.                                               *)
FallbackResolved(S) ==
    LET Retried(T)  == IF T.n.snap.retried THEN {}
                       ELSE RetrySucceeded(Tried(T))
                              \cup UNION {DisposedToLender(R) : R \in RetryFailed(Tried(T))}
        Resolved(T) == IF ~ T.n.snap.active THEN {T}
                       ELSE {Inactive(R) : R \in DisposedToLender(T) \cup Retried(T)}
    IN  IF ~ S.n.snap.active THEN {S}
        ELSE UNION {Resolved(T) : T \in AutoDispatch(S)}

(* claimAsLender, wherever it is let in.                                   *)
LenderClaims(S) ==
    LET Ready == IF S.n.status = "FallbackPending"
                 THEN {FallbackDefaulted(T) : T \in FallbackResolved(S)}
                 ELSE {S}
    IN  {LenderPaid(T) : T \in {R \in Ready : LenderSideOpen(R.n)}}

LenderMayClaim(n) ==
    /\ n.status \in Closed \cup {"FallbackPending"}
    /\ ~ n.lenderClaim.claimed

(* Mutant: the claim is paid while its lien still binds the vault.         *)
BorrowerClaimsUnderLien(S) ==
    LET c == S.n.borrowerClaim
        s == S.n.surplus
        V == PaidOut(Release(S.v, "borrowerProceeds", Borrower), Borrower, c.asset,
                     IF LaneOpen(c) THEN c.amount ELSE 0)
        W == PaidOut(ReleaseLien(V), Borrower, s.asset, IF LaneOpen(s) THEN s.amount ELSE 0)
        T == [S EXCEPT !.v = W, !.n.borrowerClaim.claimed = TRUE,
                       !.n.surplus.claimed = @ \/ LaneOpen(s)]
    IN  SettledIf(T, S.n.lenderClaim.claimed \/ ~ LenderSideOpen(S.n))

(* claimAsBorrower, wherever it is let in: the claim, what is under the    *)
(* lien in another asset than the claim's, and the surplus.                *)
BorrowerClaims(S) ==
    LET c == S.n.borrowerClaim
        r == LienRow(S.v)
        V == Release(ReleaseLien(S.v), "borrowerProceeds", Borrower)
        W == IF LaneOpen(c) THEN PaidOut(V, Borrower, c.asset, c.amount) ELSE V
        X == IF r.live /\ r.asset # c.asset THEN PaidOut(W, Borrower, r.asset, r.amount) ELSE W
        Y == IF LaneOpen(S.n.surplus) THEN PaidOut(X, Borrower, S.n.surplus.asset, S.n.surplus.amount)
                                      ELSE X
        T == [S EXCEPT !.v = Y, !.n.borrowerClaim.claimed = TRUE,
                       !.n.surplus.claimed = @ \/ LaneOpen(S.n.surplus)]
    IN  SettledIf(T, S.n.lenderClaim.claimed \/ ~ LenderSideOpen(S.n))

BorrowerMayClaim(n) == n.status \in Closed /\ BorrowerSideOpen(n)

(* _absorbLenderSlice: the backstop takes the slice and pays what is due   *)
(* to the lender.                                                          *)
Absorbed(S) ==
    LET B == Inactive(Disposed(S, Outside, S.n.snap.lender))
        V == Release(Release(B.v, "lenderProceeds", Lender), "heldForLender", Lender)
        T == FallbackDefaulted([B EXCEPT !.v = PaidOut(V, Lender, Principal, S.n.held),
                                         !.n.lenderClaim.claimed = TRUE, !.n.optIn = FALSE])
    IN  SettledIf(T, ~ BorrowerSideOpen(T.n))

(* _claimViaBackstopImpl.                                                  *)
BackstopClaims(S) ==
    LET Unpaid(T)  == T.n.snap.lender = 0 \/ T.n.snap.lenderDue = 0
        Taken(T)   == IF Unpaid(T) THEN {T}
                      ELSE IF T.n.snap.retried THEN {Absorbed(T)} ELSE {}
        Retried(T) == IF T.n.snap.retried THEN {}
                      ELSE {[Inactive(R) EXCEPT !.n.status = "Defaulted"] : R \in RetrySucceeded(Tried(T))}
                             \cup UNION {Taken(R) : R \in RetryFailed(Tried(T))}
    IN  UNION {IF ~ T.n.snap.active THEN {T} ELSE Taken(T) \cup Retried(T) : T \in AutoDispatch(S)}

-----------------------------------------------------------------------------
(* The calls.                                                              *)

(* The loan has just been opened over the collateral in the borrower's     *)
(* vault.                                                                  *)
Init ==
    LET L == SetBorrower(SetLender(EmptyLedger, 1, Lender), 1, Borrower)
    IN  /\ vaults = [ledger |-> CreateCollateralLien(L, 1, Collateral, Pledged),
                     tracked |-> [Deposits EXCEPT ![<<Borrower, Collateral>>] = @ + Pledged],
                     depository |-> Deposits,
                     wallet |-> [k \in Keys |-> IF k[1] = Outside THEN Supply ELSE 0]]
        /\ loan = [status |-> "Active", principal |-> Lent, collateral |-> Pledged, custody |-> 0,
                   snap |-> NoSnapshot, lenderClaim |-> NoClaim, borrowerClaim |-> NoClaim,
                   surplus |-> NoClaim, held |-> 0, optIn |-> FALSE]

(* A call that reverts leaves no trace.                                    *)
Becomes(S) == Ok(S.v) /\ vaults' = S.v /\ loan' = S.n

(* LibDefaultRoute.erc20Route decides by prices and liquidity.  An         *)
(* unpriced loan is gathered unsold.                                       *)
UnpricedFallback(S) == SaleFailed(S, 0, 0)

InKind(S) ==
    LET Moved(y) == ReserveVpfi(DepositFromVault(ReleaseLien(S.v), Lender, Collateral,
                                                 S.n.collateral, y),
                                "lenderProceeds", Lender, Collateral, y)
    IN  {[S EXCEPT !.v = Moved(y), !.n.collateral = y, !.n.status = "Defaulted",
                   !.n.lenderClaim = Pays(Collateral, y)] : y \in Delivered(Collateral, S.n.collateral)}

(* triggerDefault.                                                         *)
TriggerDefault ==
    /\ loan.status = "Active"
    /\ \E S \in InternalMatches(Now) \cup UnpricedFallback(Now) \cup Sale(Now) \cup InKind(Now) :
          Becomes(S)

(* triggerLiquidation.                                                     *)
TriggerLiquidation ==
    /\ loan.status = "Active"
    /\ \E S \in InternalMatches(Now) \cup Sale(Now) : Becomes(S)

(* triggerInternalMatchLiquidation.                                        *)
TriggerInternalMatchLiquidation ==
    /\ loan.status \in {"Active", "FallbackPending"}
    /\ \E S \in InternalMatches(Now) : Becomes(S)

(* _bookPeriodic: the lender's share is paid out, or parked while its      *)
(* holder is barred; the borrower's is paid out, or held when the payment  *)
(* fails.                                                                  *)
BookPeriodic(S, got, p) ==
    LET Paid   == [S EXCEPT !.v = Transfer(@, Diamond, Outside, Principal, got - p.extra)]
        Parked == {[S EXCEPT !.v = Reserve(DepositLocked(Transfer(@, Diamond, Outside, Principal,
                                                                  got - p.lender - p.extra),
                                                         Lender, Principal, p.lender, y),
                                           "heldForLender", Lender, Principal, y),
                             !.n.held = @ + y] : y \in Delivered(Principal, p.lender)}
        PaidExtra(T) == [T EXCEPT !.v = Transfer(@, Diamond, Outside, Principal, p.extra)]
    IN  UNION {HeldExtra(T, p.extra) \cup {PaidExtra(T)} : T \in {Paid} \cup Parked}

PeriodicSold(S, q, r, got) ==
    [OpenSale(S, q, r) EXCEPT !.v = Swapped(@, r, got), !.n.collateral = @ - q]

PeriodicSale(S, q, r) ==
    LET Booked(d, got) == UNION {BookPeriodic(PeriodicSold(S, q, r, got), got, p) : p \in Splits(d, got)}
    IN  UNION {Booked(d, got) : d \in 1..MaxInterest, got \in 0..MaxProceeds}

(* settlePeriodicInterest, when interest is overdue: the sale must succeed.*)
SettlePeriodicInterest ==
    /\ loan.status = "Active"
    /\ loan.held + loan.surplus.amount < MaxHeld
    /\ \E s \in Openings(loan) : \E S \in PeriodicSale(Now, s[1], s[2]) : Becomes(S)

(* repayLoan, of the principal and a share x of the interest; a fallback   *)
(* that was pending is forgotten.                                          *)
RepayLoan(x) ==
    LET due == loan.principal + x
        S == [Now EXCEPT !.v = ReserveVpfi(VaultDepositERC20From(@, Outside, Lender, Principal, due),
                                           "lenderProceeds", Lender, Principal, due),
                         !.n.lenderClaim = Pays(Principal, due),
                         !.n.borrowerClaim = Pays(Collateral, loan.collateral),
                         !.n.status = "Repaid"]
    IN  /\ loan.status \in {"Active", "FallbackPending"}
        /\ Becomes(IF loan.status = "Active" THEN S
                   ELSE [RequireVaultHeld(Now) EXCEPT
                            !.v = Guarded(S.v, Ok(@)),
                            !.n = [S.n EXCEPT !.snap = NoSnapshot, !.custody = 0, !.optIn = FALSE]])

(* Mutant: what is added is not put under the lien.                        *)
ToppedUnliened(S, x) ==
    [S EXCEPT !.v = VaultDepositERC20From(@, Outside, Borrower, Collateral, x),
              !.n.collateral = @ + x]

Topped(S, x) ==
    [S EXCEPT !.v = RaiseLien(VaultDepositERC20From(@, Outside, Borrower, Collateral, x), x),
              !.n.collateral = @ + x]

(* Mutant: the custody row survives the cure.                              *)
CuredCustodyKept(S) ==
    [RequireVaultHeld(S) EXCEPT !.n.status = "Active", !.n.snap = NoSnapshot,
                                !.n.lenderClaim = NoClaim, !.n.borrowerClaim = NoClaim,
                                !.n.optIn = FALSE]

(* _cureFallback: the custody is the pledge again.                         *)
Cured(S) ==
    [RequireVaultHeld(S) EXCEPT !.n.status = "Active", !.n.snap = NoSnapshot, !.n.custody = 0,
                                !.n.lenderClaim = NoClaim, !.n.borrowerClaim = NoClaim,
                                !.n.optIn = FALSE]

(* addCollateral; a pending loan it makes healthy is cured.                *)
AddCollateral(x) ==
    LET S == Topped(Now, x)
    IN  /\ loan.status \in {"Active", "FallbackPending"}
        /\ x > 0 /\ loan.collateral + x <= MaxPledged
        /\ \/ Becomes(S)
           \/ loan.status = "FallbackPending" /\ Becomes(Cured(S))

ClaimAsLender ==
    /\ LenderMayClaim(loan)
    /\ \E S \in LenderClaims(Now) : Becomes(S)

ClaimAsBorrower ==
    /\ BorrowerMayClaim(loan)
    /\ Becomes(BorrowerClaims(Now))

(* The position whose owner may call this is burned with the claim.        *)
SetLenderBackstopOptIn(b) ==
    /\ loan.optIn # b /\ ~ loan.lenderClaim.claimed
    /\ b => loan.status = "FallbackPending" /\ loan.snap.active /\ TopUp(Now) = 0
    /\ Becomes([Now EXCEPT !.n.optIn = b])

ClaimAsLenderViaBackstop ==
    /\ BackstopOn /\ Principal # Vpfi
    /\ loan.status = "FallbackPending" /\ loan.snap.active /\ loan.optIn
    /\ TopUp(Now) = 0
    /\ \E S \in BackstopClaims(Now) : Becomes(S)

(* withdrawFromVault, of what a party deposited.                           *)
Withdraw(u, a, x) == Becomes([Now EXCEPT !.v = WithdrawFromVault(@, u, a, Outside, x)])

(* withdrawVPFIFromVault, of whatever VPFI is free.                        *)
WithdrawVPFI(u, x) ==
    Becomes([Now EXCEPT !.v = Spend(VaultWithdrawERC20(@, u, Vpfi, Outside, x), u, Vpfi, x)])

Next ==
    \/ TriggerDefault
    \/ TriggerLiquidation
    \/ TriggerInternalMatchLiquidation
    \/ SettlePeriodicInterest
    \/ \E x \in 0..MaxInterest : RepayLoan(x)
    \/ \E x \in 1..MaxPledged : AddCollateral(x)
    \/ ClaimAsLender
    \/ ClaimAsBorrower
    \/ \E b \in BOOLEAN : SetLenderBackstopOptIn(b)
    \/ ClaimAsLenderViaBackstop
    \/ \E u \in {Lender, Borrower}, a \in Assets, x \in 1..Supply : Withdraw(u, a, x)
    \/ \E u \in {Lender, Borrower}, x \in 1..Supply : WithdrawVPFI(u, x)

Spec == Init /\ [][Next]_vars

(* Both parties come for what they are owed: neither may claim for ever    *)
(* without doing so.  (NothingReverts is why a party who may claim can.)   *)
LenderComes   == <>[](LenderMayClaim(loan) /\ LenderSideOpen(loan)) => []<><<ClaimAsLender>>_vars
BorrowerComes == <>[]BorrowerMayClaim(loan) => []<><<ClaimAsBorrower>>_vars

FairSpec == Spec /\ LenderComes /\ BorrowerComes

-----------------------------------------------------------------------------
TypeOK == vaults \in Vaults /\ loan \in Loan

(* The aggregates are the sums of the loan's lien and reservations on      *)
(* every path a loan can take to its end.                                  *)
LedgerBalanced == Balanced(vaults.ledger)

(* What each vault owes out of the loan: the pledge or what the open claims*)
(* will pay, whatever the ledger says about it.                            *)
OwedToLender(n, a) ==
    IF n.lenderClaim.claimed THEN 0
    ELSE (IF n.status \in Closed /\ n.lenderClaim.asset = a THEN n.lenderClaim.amount ELSE 0)
           + (IF a = Principal THEN n.held ELSE 0)

OwedToBorrower(S, a) ==
    LET n == S.n
        c == n.borrowerClaim
        claim   == IF n.status \in Closed /\ LaneOpen(c) /\ c.asset = a THEN c.amount ELSE 0
        pledge  == IF a # Collateral THEN 0
                   ELSE IF n.status \in {"Active", "FallbackPending"} THEN n.collateral
                   ELSE IF BorrowerSideOpen(n) /\ c.asset # a THEN LienAmount(S.v) ELSE 0
        surplus == IF LaneOpen(n.surplus) /\ n.surplus.asset = a THEN n.surplus.amount ELSE 0
    IN  claim + pledge + surplus

(* Nothing is stranded and nothing is short: at every moment each vault    *)
(* holds what its owner has deposited plus exactly what the loan's claims  *)
(* will pay out of it, and the Diamond holds nothing.                      *)
VaultsHoldWhatIsOwed ==
    \A a \in Assets :
        /\ vaults.tracked[<<Lender, a>>] = vaults.depository[<<Lender, a>>] + OwedToLender(loan, a)
        /\ vaults.tracked[<<Borrower, a>>] =
              vaults.depository[<<Borrower, a>>] + OwedToBorrower(Now, a)
        /\ vaults.wallet[<<Diamond, a>>] = 0

(* The slices of a pending fallback are the collateral in custody, which   *)
(* is part of the pledge; no other loan has anything in custody.  A call   *)
(* on a loan that broke this would revert for ever (isLegacy).             *)
CustodyIsSnapshot ==
    IF loan.status = "FallbackPending"
    THEN loan.snap.active /\ SnapshotTotal(loan) = loan.custody /\ loan.custody <= loan.collateral
    ELSE ~ loan.snap.active /\ loan.custody = 0

(* While a loan is open its pledge is under the lien, to the last unit.    *)
PledgeUnderLien ==
    loan.status \in {"Active", "FallbackPending"} => LienAmount(vaults) = loan.collateral

(* Whatever the parties withdrew from their vaults in between, no claim    *)
(* and no liquidation can be made to revert by the bookkeeping.            *)
NothingReverts ==
    /\ LenderMayClaim(loan) => \A S \in LenderClaims(Now) : Ok(S.v)
    /\ BorrowerMayClaim(loan) => Ok(BorrowerClaims(Now).v)
    /\ loan.status = "Active" => \A S \in Sale(Now) \cup InKind(Now) : Ok(S.v)

(* What a borrower adds while the fallback is pending stays under the lien *)
(* until it is returned: no resolution takes it.                           *)
TopUpKept ==
    [][loan.status = "FallbackPending" => LienAmount(vaults') >= TopUp(Now)]_vars

(* The custody may shrink while the fallback is pending, but the lender's  *)
(* part of it never does: rounding and shortfalls are at the cost of       *)
(* others.                                                                 *)
LenderShareKept ==
    [][loan.status = "FallbackPending" /\ loan'.status = "FallbackPending"
          => loan'.snap.lender * loan.custody >= loan.snap.lender * loan'.custody]_vars

(* Once a loan is closed, two parties who come for what they are owed      *)
(* settle it.                                                              *)
ClosedIsSettled == loan.status \in Closed ~> loan.status = "Settled"

-----------------------------------------------------------------------------
(* LoanSettlement's view of the loan.                                      *)

Phase == CASE loan.status = "Active"          -> "running"
           [] loan.status = "FallbackPending" -> "pending"
           [] loan.status \in Closed          -> "closed"
           [] loan.status = "Settled"         -> "settled"

HasClosed == loan.status \in Closed \cup {"Settled"}

Collected ==
    {s \in {"lender", "borrower"} :
        /\ HasClosed
        /\ s = "lender" => loan.lenderClaim.claimed \/ ~ LenderSideOpen(loan)
        /\ s = "borrower" => ~ BorrowerSideOpen(loan)}

ToPay ==
    [s \in {"lender", "borrower"} |-> [a \in Assets |->
        IF ~ HasClosed THEN 0
        ELSE IF s = "lender" THEN OwedToLender(loan, a) ELSE OwedToBorrower(Now, a)]]

Settlement == INSTANCE LoanSettlement WITH phase <- Phase, collected <- Collected, owed <- ToPay

(* Whatever path a loan takes, it closes once, what a side is owed depends *)
(* neither on who claims first nor on what the parties do to their vaults  *)
(* meanwhile, and it is settled exactly when both sides have been paid.    *)
SettlesOnce == Settlement!Spec

=============================================================================
