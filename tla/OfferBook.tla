------------------------------ MODULE OfferBook ------------------------------
(***************************************************************************)
(* The offer book: how lenders and borrowers escrow assets in their vaults *)
(* under an offer or a standing intent, and how an escrow turns into a     *)
(* loan, all at once or fill by fill.  The escrow of an offer is a         *)
(* principal lien on the creator's vault, the collateral of a loan a       *)
(* collateral lien on the borrower's.                                      *)
(*                                                                         *)
(* Loans are ERC-20 against ERC-20.  A call is one step.  Left out: every  *)
(* gate that only refuses a call (risk, KYC, sanctions, pauses, expiry and *)
(* cooldowns, all-or-none fills, terms other than amounts), the initiation *)
(* fee (taken out of the principal after it has left the lender's vault),  *)
(* and offers that are vehicles for a sale, an offset or a refinance.      *)
(***************************************************************************)
EXTENDS Vault

CONSTANTS Pairs,       \* <<lending asset, collateral asset>> that can be offered
          Terms,       \* the terms a user may ask for
          MaxAmount,   \* bound on a single deposit, withdrawal or fill
          IntentColl,  \* the collateral asset of an intent slot
          Endowment    \* what each wallet holds at the start

ASSUME OfferBookAssumption ==
    /\ Pairs \subseteq {p \in Assets \X Assets : p[1] # p[2]}
    /\ Terms \subseteq [amount : Nat, amountMax : Nat, collateral : Nat, collateralMax : Nat]
    /\ MaxAmount \in Nat
    /\ IntentColl \in [Intents -> Assets]
    /\ Endowment \in [Keys -> Nat]

VARIABLES vaults, offers, loans

vars == <<vaults, offers, loans>>

(* LibVaipakam.Offer.  An offer that was never created and one that was    *)
(* deleted differ in their id being used.                                  *)
Offer == [status : {"none", "open", "accepted", "cancelled"},
          type : {"Lender", "Borrower"},
          creator : Users \cup {NoUser},
          lend : Assets \cup {NoAsset}, coll : Assets \cup {NoAsset},
          amount : Nat, amountMax : Nat, collateral : Nat, collateralMax : Nat,
          amountFilled : Nat, collateralFilled : Nat]

NoOffer(status) == [status |-> status, type |-> "Lender", creator |-> NoUser,
                    lend |-> NoAsset, coll |-> NoAsset, amount |-> 0, amountMax |-> 0,
                    collateral |-> 0, collateralMax |-> 0,
                    amountFilled |-> 0, collateralFilled |-> 0]

(* What of LibVaipakam.Loan the book decides.                              *)
Loan == [status : {"None", "Active"},
         lend : Assets \cup {NoAsset}, coll : Assets \cup {NoAsset},
         principal : Nat, collateral : Nat]

NoLoan == [status |-> "None", lend |-> NoAsset, coll |-> NoAsset, principal |-> 0, collateral |-> 0]

NextOffer(o) == offers[o].status = "none" /\ \A p \in Offers : p < o => offers[p].status # "none"
NextLoan(l)  == loans[l].status = "None" /\ \A j \in Loans : j < l => loans[j].status # "None"

Init ==
    /\ vaults = [ledger |-> EmptyLedger, tracked |-> [k \in Keys |-> 0],
                 depository |-> [k \in Keys |-> 0], wallet |-> Endowment]
    /\ offers = [o \in Offers |-> NoOffer("none")]
    /\ loans = [l \in Loans |-> NoLoan]

(* A call that reverts leaves no trace.                                    *)
Commit(V) == Ok(V) /\ vaults' = V

-----------------------------------------------------------------------------
(* Offers.                                                                 *)

(* LibOfferShape.assertAmount and assertCollateral.                        *)
WellFormed(type, t) ==
    /\ t.amount > 0 /\ t.amountMax >= t.amount
    /\ t.collateral > 0 /\ t.collateralMax >= t.collateral
    /\ type = "Lender" => t.collateralMax = t.collateral

NewOffer(type, u, p, t) ==
    [status |-> "open", type |-> type, creator |-> u, lend |-> p[1], coll |-> p[2],
     amount |-> t.amount, amountMax |-> t.amountMax,
     collateral |-> t.collateral, collateralMax |-> t.collateralMax,
     amountFilled |-> 0, collateralFilled |-> 0]

(* The asset an offer escrows, how much the creator put in for it          *)
(* (_creatorPullAmount), and how much of that the fills have not taken.    *)
EscrowAsset(f) == IF f.type = "Lender" THEN f.lend ELSE f.coll
Escrowed(f)    == IF f.type = "Lender" THEN f.amountMax ELSE f.collateralMax
Unfilled(f)    == IF f.type = "Lender" THEN f.amountMax - f.amountFilled
                                       ELSE f.collateralMax - f.collateralFilled

(* _createOfferFinish: the lien on what was pulled.                        *)
LienOffer(V, o, f) ==
    On(V, CreateOfferPrincipalLien(V.ledger, o, f.creator, EscrowAsset(f), Escrowed(f)))

(* createOffer.                                                            *)
CreateOffer(u, type, p, t, o) ==
    LET f == NewOffer(type, u, p, t)
    IN  /\ NextOffer(o)
        /\ WellFormed(type, t)
        /\ Commit(LienOffer(VaultDepositERC20(vaults, u, EscrowAsset(f), Escrowed(f)), o, f))
        /\ offers' = [offers EXCEPT ![o] = f]
        /\ UNCHANGED loans

(* _settleAmountDelta and _settleCollateralDelta: a smaller escrow is      *)
(* unliened before it is refunded, a larger one is pulled before it is     *)
(* liened.                                                                 *)
SettleEscrow(V, o, f, g) ==
    LET u    == f.creator
        less == Escrowed(f) - Escrowed(g)
        more == Escrowed(g) - Escrowed(f)
    IN  CASE less > 0 -> Refund(On(V, DecrementOfferPrincipalLien(V.ledger, o, less)),
                                u, EscrowAsset(f), less)
          [] more > 0 -> LET W == VaultDepositERC20(V, u, EscrowAsset(f), more)
                         IN  On(W, IncrementOfferPrincipalLien(W.ledger, o, more))
          [] OTHER    -> V

(* modifyOffer, setOfferAmount, setOfferCollateral.                        *)
ModifyOffer(o, t) ==
    LET f == offers[o]
        g == [f EXCEPT !.amount = t.amount, !.amountMax = t.amountMax,
                       !.collateral = t.collateral, !.collateralMax = t.collateralMax]
    IN  /\ f.status = "open"
        /\ g # f
        /\ WellFormed(f.type, t)
        /\ t.amountMax >= f.amountFilled
        /\ f.type = "Borrower" => t.collateralMax >= f.collateralFilled
        /\ Commit(SettleEscrow(vaults, o, f, g))
        /\ offers' = [offers EXCEPT ![o] = g]
        /\ UNCHANGED loans

(* Mutant: a cancelled offer returns what its fills have taken too.        *)
CancelledVaultsWhole(V, o, f) ==
    Refund(On(V, ReleaseOfferPrincipalLien(V.ledger, o)), f.creator, EscrowAsset(f), Escrowed(f))

CancelledVaults(V, o, f) ==
    Refund(On(V, ReleaseOfferPrincipalLien(V.ledger, o)), f.creator, EscrowAsset(f), Unfilled(f))

(* cancelOffer: an offer that was partly filled is kept, as accepted.      *)
CancelOffer(o) ==
    LET f == offers[o]
    IN  /\ f.status = "open"
        /\ Commit(CancelledVaults(vaults, o, f))
        /\ offers' = [offers EXCEPT ![o] = IF f.amountFilled > 0 THEN [f EXCEPT !.status = "accepted"]
                                           ELSE NoOffer("cancelled")]
        /\ UNCHANGED loans

-----------------------------------------------------------------------------
(* Loans.                                                                  *)

(* LoanFacet.initiateLoan.                                                 *)
InitiateLoan(V, l, lender, borrower, a, x) ==
    On(V, CreateCollateralLien(SetBorrower(SetLender(V.ledger, l, lender), l, borrower), l, a, x))

NewLoan(f, principal, collateral) ==
    [status |-> "Active", lend |-> f.lend, coll |-> f.coll,
     principal |-> principal, collateral |-> collateral]

(* The principal of a direct accept: a lender offer lends all of it, a     *)
(* borrower offer takes what it asked for at least.                        *)
EffectivePrincipal(f) == IF f.type = "Lender" THEN f.amountMax ELSE f.amount

(* acceptOffer outside a match.  A lender offer's escrow goes to the       *)
(* acceptor, who brings the collateral; a borrower offer's acceptor brings *)
(* the principal, and the escrow becomes the collateral.                   *)
AcceptedVaults(V, o, f, u, l) ==
    LET x == EffectivePrincipal(f)
    IN  IF f.type = "Lender"
        THEN LET V1 == On(V, ReleaseOfferPrincipalLien(V.ledger, o))
                 V2 == VaultWithdrawERC20(V1, f.creator, f.lend, u, x)
                 V3 == VaultDepositERC20(V2, u, f.coll, f.collateral)
             IN  InitiateLoan(V3, l, f.creator, u, f.coll, f.collateral)
        ELSE LET V1 == VaultDepositERC20(V, u, f.lend, x)
                 V2 == VaultWithdrawERC20(V1, u, f.lend, f.creator, x)
                 V3 == On(V2, ReleaseOfferPrincipalLien(V2.ledger, o))
                 V4 == InitiateLoan(V3, l, u, f.creator, f.coll, f.collateral)
             IN  Refund(V4, f.creator, f.coll, f.collateralMax - f.collateral)

AcceptOffer(u, o, l) ==
    LET f == offers[o]
    IN  /\ f.status = "open" /\ f.amountFilled = 0 /\ f.creator # u
        /\ NextLoan(l)
        /\ Commit(AcceptedVaults(vaults, o, f, u, l))
        /\ offers' = [offers EXCEPT ![o].status = "accepted"]
        /\ loans' = [loans EXCEPT ![l] = NewLoan(f, EffectivePrincipal(f), f.collateral)]

(* Mutant: nobody looks whether the vault has that much free.              *)
MaterializedVaultsUnchecked(V, o, f) ==
    LienOffer(Spend(V, f.creator, EscrowAsset(f), Escrowed(f)), o, f)

(* Mutant: the depository is not told that its free balance is spent.      *)
MaterializedVaultsUnspent(V, o, f) ==
    LienOffer(Guarded(V, Free(V, f.creator, EscrowAsset(f)) >= Escrowed(f)), o, f)

(* createSignedOfferVault: the creator's free vault balance is the escrow. *)
MaterializedVaults(V, o, f) ==
    LET u == f.creator
        a == EscrowAsset(f)
    IN  LienOffer(Spend(Guarded(V, Free(V, u, a) >= Escrowed(f)), u, a, Escrowed(f)), o, f)

(* acceptSignedOffer against the signer's vault.                           *)
AcceptSignedOffer(signer, u, type, p, t, o, l) ==
    LET f == NewOffer(type, signer, p, t)
    IN  /\ NextOffer(o) /\ NextLoan(l)
        /\ signer # u
        /\ WellFormed(type, t)
        /\ Commit(AcceptedVaults(MaterializedVaults(vaults, o, f), o, f, u, l))
        /\ offers' = [offers EXCEPT ![o] = [f EXCEPT !.status = "accepted"]]
        /\ loans' = [loans EXCEPT ![l] = NewLoan(f, EffectivePrincipal(f), f.collateral)]

-----------------------------------------------------------------------------
(* Matching.                                                               *)

AtLeast(x, y) == IF x > y THEN x ELSE y

(* LibOfferMatch._previewMatchCore: the amount and the collateral two      *)
(* offers agree on, and whether they agree.                                *)
MatchLow(f, g)    == AtLeast(f.amount, g.amount)
MatchHigh(f, g)   == AtMost(f.amountMax - f.amountFilled, g.amountMax - g.amountFilled)
MatchAmount(f, g) == (MatchLow(f, g) + MatchHigh(f, g)) \div 2

(* The lender's collateral, pro rata.                                      *)
LenderAsk(f, m) == (f.collateral * m) \div f.amountMax

Ranged(g) == g.collateralMax > g.collateral

ReqCollateral(f, g, floor) ==
    AtLeast(LenderAsk(f, MatchAmount(f, g)), IF Ranged(g) THEN g.collateral ELSE floor)

(* The most collateral a borrower's offer brings to this fill: what its    *)
(* earlier fills have taken counts only when it states a range.            *)
Ceiling(g) == IF Ranged(g) THEN g.collateralMax - g.collateralFilled ELSE g.collateral

Matchable(f, g, floor) ==
    /\ f.status = "open" /\ f.type = "Lender"
    /\ g.status = "open" /\ g.type = "Borrower"
    /\ f.creator # g.creator
    /\ f.lend = g.lend /\ f.coll = g.coll
    /\ g.amountMax > g.amountFilled
    /\ MatchLow(f, g) <= MatchHigh(f, g)
    /\ ReqCollateral(f, g, floor) <= Ceiling(g)

Fill(f, m, x) == [f EXCEPT !.amountFilled = @ + m, !.collateralFilled = @ + x]

(* An offer closes when what is left of it is less than its smallest fill. *)
Spent(f) == f.amountMax - f.amountFilled < f.amount

Close(f) == IF Spent(f) THEN [f EXCEPT !.status = "accepted"] ELSE f

(* Mutant: a borrower's fill records the principal only.                   *)
FilledBorrowerPrincipalOnly(g, m, x) == Close(Fill(g, m, 0))

(* The lender's collateralFilled is not written.                           *)
FilledLender(f, m)      == Close(Fill(f, m, 0))
FilledBorrower(g, m, x) == Close(Fill(g, m, x))

(* What is done to the escrow of a filled offer once the fill is booked.   *)
SettleFilled(V, o, f) == IF Spent(f) THEN CancelledVaults(V, o, f) ELSE V

(* Mutant: the loan is opened on what the borrower offered, not on what    *)
(* the fill agreed on.                                                     *)
MatchedVaultsWhole(V, lo, bo, f, g, m, x, l) ==
    LET V1 == On(V, DecrementOfferPrincipalLien(V.ledger, lo, m))
        V2 == VaultWithdrawERC20(V1, f.creator, f.lend, g.creator, m)
        V3 == InitiateLoan(V2, l, f.creator, g.creator, g.coll, g.collateral)
        V4 == On(V3, DecrementOfferPrincipalLien(V3.ledger, bo, x))
        V5 == SettleFilled(V4, lo, Fill(f, m, 0))
    IN  SettleFilled(V5, bo, Fill(g, m, x))

(* LibOfferMatchExecute.executeMatch: the lender's lien gives up the       *)
(* principal before it leaves; the loan's lien on the collateral is taken  *)
(* before the borrower's offer gives it up.                                *)
MatchedVaults(V, lo, bo, f, g, m, x, l) ==
    LET V1 == On(V, DecrementOfferPrincipalLien(V.ledger, lo, m))
        V2 == VaultWithdrawERC20(V1, f.creator, f.lend, g.creator, m)
        V3 == InitiateLoan(V2, l, f.creator, g.creator, g.coll, x)
        V4 == On(V3, DecrementOfferPrincipalLien(V3.ledger, bo, x))
        V5 == SettleFilled(V4, lo, Fill(f, m, 0))
    IN  SettleFilled(V5, bo, Fill(g, m, x))

(* executeMatch of offers f and g, numbered lo and bo, from the vaults V.  *)
ExecuteMatch(V, lo, bo, f, g, floor, l) ==
    LET m == MatchAmount(f, g)
        x == ReqCollateral(f, g, floor)
    IN  /\ Matchable(f, g, floor)
        /\ NextLoan(l)
        /\ Commit(MatchedVaults(V, lo, bo, f, g, m, x, l))
        /\ offers' = [offers EXCEPT ![lo] = FilledLender(f, m), ![bo] = FilledBorrower(g, m, x)]
        /\ loans' = [loans EXCEPT ![l] = NewLoan(g, m, x)]

MatchOffers(lo, bo, l) == ExecuteMatch(vaults, lo, bo, offers[lo], offers[bo], 0, l)

(* The offer of one amount against one collateral that a signed order or   *)
(* an intent is turned into for a fill.                                    *)
Slice(type, u, p, m, x) ==
    NewOffer(type, u, p, [amount |-> m, amountMax |-> m, collateral |-> x, collateralMax |-> x])

(* matchSignedOffer, of an order that is filled at once.                   *)
MatchSignedOffer(signer, type, o, other, m, x, l) ==
    LET g == offers[other]
        f == Slice(type, signer, <<g.lend, g.coll>>, m, x)
    IN  /\ NextOffer(o)
        /\ g.status = "open" /\ g.type # type
        /\ m > 0 /\ x > 0
        /\ IF type = "Lender"
           THEN ExecuteMatch(MaterializedVaults(vaults, o, f), o, other, f, g, 0, l)
           ELSE ExecuteMatch(MaterializedVaults(vaults, o, f), other, o, g, f, x, l)

-----------------------------------------------------------------------------
(* Standing lender intents.                                                *)

(* fundLenderIntent.                                                       *)
FundLenderIntent(i, x) ==
    LET V == VaultDepositERC20(vaults, IntentOwner[i], IntentLend[i], x)
    IN  /\ x > 0
        /\ Commit(On(V, LienIntentCapital(V.ledger, i, x)))
        /\ UNCHANGED <<offers, loans>>

(* Mutant: the capital is withdrawn before its lien is lifted.             *)
IntentWithdrawnVaultsFirst(V, i, x) ==
    LET W == VaultWithdrawERC20(V, IntentOwner[i], IntentLend[i], IntentOwner[i], x)
    IN  On(W, UnlienIntentCapital(W.ledger, i, x))

IntentWithdrawnVaults(V, i, x) ==
    VaultWithdrawERC20(On(V, UnlienIntentCapital(V.ledger, i, x)),
                       IntentOwner[i], IntentLend[i], IntentOwner[i], x)

(* withdrawLenderIntentCapital.                                            *)
WithdrawLenderIntentCapital(i, x) ==
    /\ x > 0
    /\ Commit(IntentWithdrawnVaults(vaults, i, x))
    /\ UNCHANGED <<offers, loans>>

(* matchIntent: the capital is unliened, and the fill is materialized from *)
(* the vault like a signed order.  x is the collateral the intent's limits *)
(* ask for.                                                                *)
MatchIntent(i, o, bo, m, x, l) ==
    LET f == Slice("Lender", IntentOwner[i], <<IntentLend[i], IntentColl[i]>>, m, x)
        V == On(vaults, UnlienIntentCapital(vaults.ledger, i, m))
    IN  /\ NextOffer(o)
        /\ offers[bo].status = "open"
        /\ m > 0 /\ x > 0
        /\ ExecuteMatch(MaterializedVaults(V, o, f), o, bo, f, offers[bo], 0, l)

-----------------------------------------------------------------------------
(* The reserve a borrower keeps for the extensions of a loan.              *)

(* fundExtendReserve.  The holder of the borrower's position is the        *)
(* borrower: positions are not traded in this book.                        *)
FundExtendReserve(l, x) ==
    LET u == vaults.ledger.borrower[l]
        a == loans[l].lend
        V == VaultDepositERC20(vaults, u, a, x)
    IN  /\ x > 0
        /\ loans[l].status = "Active"
        /\ Commit(On(V, LienExtendReserve(V.ledger, l, u, a, x)))
        /\ UNCHANGED <<offers, loans>>

ReserveWithdrawnVaults(V, l, u, a, x) ==
    VaultWithdrawERC20(On(V, UnlienExtendReserve(V.ledger, l, u, a, x)), u, a, u, x)

(* withdrawExtendReserve, by whoever has put the money in: for a loan that *)
(* was never opened there is none.                                         *)
WithdrawExtendReserve(u, l, x) ==
    /\ x > 0
    /\ loans[l].status # "None"
    /\ Commit(ReserveWithdrawnVaults(vaults, l, u, loans[l].lend, x))
    /\ UNCHANGED <<offers, loans>>

-----------------------------------------------------------------------------
(* The depository.                                                         *)

Deposit(u, a, x) ==
    /\ x > 0
    /\ Commit(DepositToVault(vaults, u, a, x))
    /\ UNCHANGED <<offers, loans>>

Withdraw(u, a, x) ==
    /\ x > 0
    /\ Commit(WithdrawFromVault(vaults, u, a, u, x))
    /\ UNCHANGED <<offers, loans>>

Amounts == 1..MaxAmount

Next ==
    \/ \E u \in Users, a \in Assets, x \in Amounts : Deposit(u, a, x) \/ Withdraw(u, a, x)
    \/ \E u \in Users, type \in {"Lender", "Borrower"}, p \in Pairs, t \in Terms, o \in Offers :
          CreateOffer(u, type, p, t, o)
    \/ \E o \in Offers, t \in Terms : ModifyOffer(o, t)
    \/ \E o \in Offers : CancelOffer(o)
    \/ \E u \in Users, o \in Offers, l \in Loans : AcceptOffer(u, o, l)
    \/ \E signer, u \in Users, type \in {"Lender", "Borrower"}, p \in Pairs, t \in Terms,
          o \in Offers, l \in Loans : AcceptSignedOffer(signer, u, type, p, t, o, l)
    \/ \E lo, bo \in Offers, l \in Loans : MatchOffers(lo, bo, l)
    \/ \E signer \in Users, type \in {"Lender", "Borrower"}, o, other \in Offers,
          m, x \in Amounts, l \in Loans : MatchSignedOffer(signer, type, o, other, m, x, l)
    \/ \E i \in Intents, x \in Amounts : FundLenderIntent(i, x) \/ WithdrawLenderIntentCapital(i, x)
    \/ \E l \in Loans, x \in Amounts : FundExtendReserve(l, x)
    \/ \E u \in Users, l \in Loans, x \in Amounts : WithdrawExtendReserve(u, l, x)
    \/ \E i \in Intents, o, bo \in Offers, m, x \in Amounts, l \in Loans :
          MatchIntent(i, o, bo, m, x, l)

Spec == Init /\ [][Next]_vars

-----------------------------------------------------------------------------
TypeOK ==
    /\ vaults \in Vaults
    /\ offers \in [Offers -> Offer]
    /\ loans \in [Loans -> Loan]

(* Each aggregate the withdraw guard trusts is the sum of the escrows and  *)
(* liens that are still open (LibEncumbrance keeps both by hand).          *)
LedgerBalanced == Balanced(vaults.ledger)

(* A vault always holds everything that is owed out of it, and nobody has  *)
(* spent tokens they did not have.                                         *)
VaultsSolvent == Solvent(vaults) /\ \A k \in Keys : vaults.wallet[k] >= 0

(* What the depository shows a user as withdrawable is never money another *)
(* escrow or lien of the vault needs.                                      *)
DepositoryPromised == Promised(vaults)

(* However an offer is filled and modified, the lien on its creator's      *)
(* vault is the part the fills have not taken, and only while it is open.  *)
HoldsRemainder(V, f, o) ==
    LET r == V.ledger.offerPrincipalLien[o]
    IN  /\ r.live <=> f.status = "open"
        /\ r.live => /\ r.user = f.creator /\ r.asset = EscrowAsset(f)
                     /\ r.amount = Unfilled(f)

LienIsRemainder == \A o \in Offers : HoldsRemainder(vaults, offers[o], o)

(* The fills of an offer never take more of its escrow than was put in.    *)
WithinEscrow(f) == f.amountFilled <= f.amountMax /\ f.collateralFilled <= f.collateralMax

FillsWithinEscrow == \A o \in Offers : WithinEscrow(offers[o])

(* A loan that was opened holds its collateral under a lien of its own, in *)
(* the vault of its borrower, whichever route opened it.                   *)
Secured(V, n, l) ==
    LET r == V.ledger.loanCollateralLien[l]
    IN  IF n.status = "Active"
        THEN r = [user |-> V.ledger.borrower[l], asset |-> n.coll, amount |-> n.collateral,
                  live |-> TRUE]
        ELSE ~ r.live

LoanSecured == \A l \in Loans : Secured(vaults, loans[l], l)

(* Every open offer can be cancelled, the capital of every intent taken    *)
(* back and every extension reserve withdrawn: no such call can be made to *)
(* revert by what others did.                                              *)
EscrowReturnable ==
    /\ \A o \in Offers : offers[o].status = "open" => Ok(CancelledVaults(vaults, o, offers[o]))
    /\ \A i \in Intents : LET x == vaults.ledger.intentCapital[i]
                          IN  x > 0 => Ok(IntentWithdrawnVaults(vaults, i, x))
    /\ \A l \in Loans, u \in Users, a \in Assets :
          Ok(ReserveWithdrawnVaults(vaults, l, u, a, vaults.ledger.setAside["extendReserve"][l][<<u, a>>]))

(* LibDepositoryLedger's header: the record is debited by a withdraw, and  *)
(* by "the owner spending free vault balance through another route".  So a *)
(* step that leaves a user's free balance alone leaves the record alone.   *)
DepositoryFallsWithFree ==
    [][\A u \in Users, a \in Assets :
          vaults'.depository[<<u, a>>] < vaults.depository[<<u, a>>]
              => Free(vaults', u, a) < Free(vaults, u, a)]_vars

=============================================================================
