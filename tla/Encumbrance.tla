----------------------------- MODULE Encumbrance -----------------------------
(***************************************************************************)
(* The encumbrance ledger (libraries/LibEncumbrance.sol): per vault owner  *)
(* and asset, how much of what the vault holds is spoken for.  The ledger  *)
(* keeps one aggregate, `encumbered`, and the rows it is meant to be the   *)
(* sum of: a collateral lien per loan, a principal lien per offer, the     *)
(* reserved lender and borrower proceeds of a loan, the interest a loan    *)
(* has paid to a seller of it, the reserve for a loan's extensions, and    *)
(* the capital of a standing lender intent.  No code ever recomputes the   *)
(* sum: every function of the library moves a row and the aggregate        *)
(* together, and the vault's withdraw guard trusts the aggregate.          *)
(*                                                                         *)
(* A ledger is a value L and an operation is an operator from a ledger to  *)
(* the ledger it leaves, so a handler of another module is a composition   *)
(* of them.  L.ok turns FALSE where the code reverts, and stays FALSE: a   *)
(* handler takes effect only with a ledger that is still ok.  An element   *)
(* of Assets stands for the key (token, tokenId).                          *)
(***************************************************************************)
EXTENDS LedgerSums

CONSTANTS Users,        \* vault owners
          NoUser,       \* address(0)
          Assets,       \* (token, tokenId) keys
          NoAsset,      \* address(0), as an asset
          MaxLoans,     \* loans are numbered 1..MaxLoans
          MaxOffers,    \* offers are numbered 1..MaxOffers
          MaxIntents,   \* slots (owner, lending asset, collateral asset)
          IntentOwner,  \* the owner of a slot
          IntentLend    \* the lending asset of a slot

ASSUME EncumbranceAssumption ==
    /\ NoUser \notin Users
    /\ NoAsset \notin Assets
    /\ MaxLoans \in Nat /\ MaxOffers \in Nat /\ MaxIntents \in Nat
    /\ IntentOwner \in [1..MaxIntents -> Users]
    /\ IntentLend \in [1..MaxIntents -> Assets]

Loans   == 1..MaxLoans
Offers  == 1..MaxOffers
Intents == 1..MaxIntents
Keys    == Users \X Assets

(* LibVaipakam.Encumbrance.  `live` is `user != 0 && !released`.           *)
Lien == [user : Users \cup {NoUser}, asset : Assets \cup {NoAsset},
         amount : Nat, live : BOOLEAN]

(* The three reservations a loan may have: lenderProceedsEncumbered,       *)
(* heldForLenderEncumbered and borrowerProceedsEncumbered, each with its   *)
(* <...>EncumberedAsset.                                                   *)
Lanes == {"lenderProceeds", "heldForLender", "borrowerProceeds"}

(* What is set aside for a loan in the own vault of some user:             *)
(* sellerInterestHeld[loan][seller][asset] and extendReserve[loan][holder].*)
(* The second has no asset in its key: it is the loan's principal asset,   *)
(* which is written when the loan is opened and never again.               *)
Asides == {"sellerInterestHeld", "extendReserve"}

Reservation == [asset : Assets \cup {NoAsset}, amount : Nat]

NoLien        == [user |-> NoUser, asset |-> NoAsset, amount |-> 0, live |-> FALSE]
NoReservation == [asset |-> NoAsset, amount |-> 0]

(* The ledger.  lender and borrower are the stored parties of a loan       *)
(* (loan.lender, loan.borrower): the vaults its reservations are keyed to. *)
Ledger ==
    [encumbered         : [Keys -> Int],
     loanCollateralLien : [Loans -> Lien],
     offerPrincipalLien : [Offers -> Lien],
     reserved           : [Lanes -> [Loans -> Reservation]],
     setAside           : [Asides -> [Loans -> [Keys -> Nat]]],
     intentCapital      : [Intents -> Nat],
     lender             : [Loans -> Users \cup {NoUser}],
     borrower           : [Loans -> Users \cup {NoUser}],
     ok                 : BOOLEAN]

EmptyLedger ==
    [encumbered         |-> [k \in Keys |-> 0],
     loanCollateralLien |-> [l \in Loans |-> NoLien],
     offerPrincipalLien |-> [o \in Offers |-> NoLien],
     reserved           |-> [e \in Lanes |-> [l \in Loans |-> NoReservation]],
     setAside           |-> [p \in Asides |-> [l \in Loans |-> [k \in Keys |-> 0]]],
     intentCapital      |-> [i \in Intents |-> 0],
     lender             |-> [l \in Loans |-> NoUser],
     borrower           |-> [l \in Loans |-> NoUser],
     ok                 |-> TRUE]

-----------------------------------------------------------------------------
(* What the rows of a loan, an offer or an intent say is owed out of the   *)
(* key k, and the sum over all rows.                                       *)

At(k, u, a, x) == IF k = <<u, a>> THEN x ELSE 0

LienTerm(r, k) == IF r.live THEN At(k, r.user, r.asset, r.amount) ELSE 0

(* The party whose vault a reservation sits in.                            *)
Party(L, e, l) == IF e = "borrowerProceeds" THEN L.borrower[l] ELSE L.lender[l]

ReservedTerm(L, e, l, k) ==
    LET r == L.reserved[e][l] IN At(k, Party(L, e, l), r.asset, r.amount)

LoanTerm(L, l, k) ==
    LienTerm(L.loanCollateralLien[l], k)
      + ReservedTerm(L, "lenderProceeds", l, k)
      + ReservedTerm(L, "heldForLender", l, k)
      + ReservedTerm(L, "borrowerProceeds", l, k)
      + L.setAside["sellerInterestHeld"][l][k]
      + L.setAside["extendReserve"][l][k]

OfferTerm(L, o, k) == LienTerm(L.offerPrincipalLien[o], k)

IntentTerm(L, i, k) == At(k, IntentOwner[i], IntentLend[i], L.intentCapital[i])

LoansOwe(L, k)   == Total([l \in Loans |-> LoanTerm(L, l, k)], MaxLoans)
OffersOwe(L, k)  == Total([o \in Offers |-> OfferTerm(L, o, k)], MaxOffers)
IntentsOwe(L, k) == Total([i \in Intents |-> IntentTerm(L, i, k)], MaxIntents)

Owed(L, k) == LoansOwe(L, k) + OffersOwe(L, k) + IntentsOwe(L, k)

(* The ledger is balanced: each aggregate is the sum of its live rows.     *)
Balanced(L) == \A k \in Keys : L.encumbered[k] = Owed(L, k)

-----------------------------------------------------------------------------
(* The aggregate.                                                          *)

Require(L, p) == [L EXCEPT !.ok = @ /\ p]

Raise(L, u, a, x) == [L EXCEPT !.encumbered[<<u, a>>] = @ + x]

(* _decrementAggregate: reverts when it would underflow.                   *)
Lower(L, u, a, x) ==
    Require(Raise(L, u, a, -x), <<u, a>> \in Keys /\ x <= L.encumbered[<<u, a>>])

(* freeBalance: what of the raw holding nothing is owed out of.  The code  *)
(* also takes off what a protected account's payout queue has earmarked    *)
(* (pendingPayoutEarmark) and what is parked, within one call, to pay off  *)
(* a refinanced loan (LibRefinanceNetting.parkedOf): neither the queue nor *)
(* a refinance is modelled, and both are zero without them.                *)
FreeBalance(L, u, a, raw) == Excess(raw, L.encumbered[<<u, a>>])

-----------------------------------------------------------------------------
(* Collateral liens, one per loan.                                         *)

SetLien(L, l, r) == [L EXCEPT !.loanCollateralLien[l] = r]

(* recreateCollateralLien writes the row whatever the row was before.      *)
RecreateCollateralLien(L, l, a, x) ==
    Raise(SetLien(L, l, [user |-> L.borrower[l], asset |-> a, amount |-> x, live |-> TRUE]),
          L.borrower[l], a, x)

CreateCollateralLien(L, l, a, x) ==
    Require(RecreateCollateralLien(L, l, a, x), ~ L.loanCollateralLien[l].live)

DecrementCollateralLien(L, l, x) ==
    LET r == L.loanCollateralLien[l]
    IN  IF r.live
        THEN Require(Lower(SetLien(L, l, [r EXCEPT !.amount = Excess(@, x)]), r.user, r.asset, x),
                     x <= r.amount)
        ELSE L

ReleaseCollateralLien(L, l) ==
    LET r == L.loanCollateralLien[l]
    IN  IF r.live
        THEN Lower(SetLien(L, l, [r EXCEPT !.live = FALSE, !.amount = 0]), r.user, r.asset, r.amount)
        ELSE L

(* A released or absent row is re-created on the loan's borrower.          *)
IncrementCollateralLien(L, l, a, x) ==
    LET r == L.loanCollateralLien[l]
    IN  CASE x = 0            -> L
          [] x # 0 /\ r.live  -> Raise(SetLien(L, l, [r EXCEPT !.amount = @ + x]), r.user, r.asset, x)
          [] x # 0 /\ ~r.live -> RecreateCollateralLien(L, l, a, x)

(* rekeyCollateralLienOnRefinance: the lien of the loan being paid off     *)
(* becomes, unchanged, the lien of the loan that replaces it.  The caller  *)
(* reverts when the old lien is gone or the keys differ.                   *)
RekeyCollateralLienOnRefinance(L, old, new, a, x) ==
    LET r == L.loanCollateralLien[old]
    IN  Require(SetLien(SetLien(L, new, r), old, [r EXCEPT !.live = FALSE, !.amount = 0]),
                r.live /\ r.user = L.borrower[new] /\ r.asset = a /\ r.amount = x)

-----------------------------------------------------------------------------
(* Reservations of a loan's proceeds.  The code has a function for every   *)
(* lane; they differ in the storage they write.  A reservation holds one   *)
(* asset at a time, and forgets it when it is emptied.                     *)

SetReserved(L, e, l, r) == [L EXCEPT !.reserved[e][l] = r]

(* encumberLenderProceeds, encumberActiveHeld, encumberBorrowerProceeds.   *)
Encumber(L, e, l, u, a, x) ==
    LET r == L.reserved[e][l]
    IN  IF x = 0 THEN L
        ELSE Require(Raise(SetReserved(L, e, l, [asset |-> a, amount |-> r.amount + x]), u, a, x),
                     r.amount = 0 \/ r.asset = a)

(* Takes x, at most what is reserved, out of the reservation.              *)
TakeReserved(L, e, l, u, x) ==
    LET r == L.reserved[e][l]
    IN  IF x = 0 THEN L
        ELSE Lower(SetReserved(L, e, l, IF x = r.amount THEN NoReservation
                                        ELSE [r EXCEPT !.amount = Excess(@, x)]),
                   u, r.asset, x)

AtMost(x, y) == IF x < y THEN x ELSE y

(* What lane e of loan l reserves of asset a.                              *)
ReservedOf(L, e, l, a) ==
    IF L.reserved[e][l].asset = a THEN L.reserved[e][l].amount ELSE 0

(* releaseLenderProceeds, releaseActiveHeld, releaseBorrowerProceeds.      *)
ReleaseReserved(L, e, l, u) == TakeReserved(L, e, l, u, L.reserved[e][l].amount)

(* reduceLenderProceeds.                                                   *)
ReduceLenderProceeds(L, l, u, a, x) ==
    TakeReserved(L, "lenderProceeds", l, u, AtMost(x, ReservedOf(L, "lenderProceeds", l, a)))

(* releaseActiveHeldPart.                                                  *)
ReleaseActiveHeldPart(L, l, u, x) ==
    TakeReserved(L, "heldForLender", l, u, AtMost(x, L.reserved["heldForLender"][l].amount))

(* capLenderHeldReservations: the excess of both lenders' reservations     *)
(* over what is held is taken from the active-held one first.              *)
CapLenderHeldReservations(L, l, u, a, held) ==
    LET active == ReservedOf(L, "heldForLender", l, a)
        excess == Excess(active + ReservedOf(L, "lenderProceeds", l, a), held)
        first  == AtMost(excess, active)
    IN  TakeReserved(TakeReserved(L, "heldForLender", l, u, first),
                     "lenderProceeds", l, u, excess - first)

(* capBorrowerHeldReservation.                                             *)
CapBorrowerHeldReservation(L, l, u, held) ==
    TakeReserved(L, "borrowerProceeds", l, u, Excess(L.reserved["borrowerProceeds"][l].amount, held))

-----------------------------------------------------------------------------
(* What is set aside for a loan in a user's own vault.                     *)

SetAside(L, p, l, u, a, x) == [L EXCEPT !.setAside[p][l][<<u, a>>] = x]

PutAside(L, p, l, u, a, x) ==
    IF x = 0 THEN L
    ELSE Raise(SetAside(L, p, l, u, a, L.setAside[p][l][<<u, a>>] + x), u, a, x)

TakeBack(L, p, l, u, a, x) ==
    LET held == L.setAside[p][l][<<u, a>>]
    IN  IF x = 0 THEN L
        ELSE Require(Lower(SetAside(L, p, l, u, a, Excess(held, x)), u, a, x), x <= held)

EncumberSellerInterest(L, l, u, a, x) == PutAside(L, "sellerInterestHeld", l, u, a, x)

(* All of it, whatever it is.                                              *)
ReleaseSellerInterest(L, l, u, a) ==
    TakeBack(L, "sellerInterestHeld", l, u, a, L.setAside["sellerInterestHeld"][l][<<u, a>>])

LienExtendReserve(L, l, u, a, x) == PutAside(L, "extendReserve", l, u, a, x)

UnlienExtendReserve(L, l, u, a, x) == TakeBack(L, "extendReserve", l, u, a, x)

-----------------------------------------------------------------------------
(* Moving a loan's reservations to the vault of a new party.  The rows do  *)
(* not name a vault, so the aggregate must be moved while loan.lender or   *)
(* loan.borrower still names the old one.                                  *)

(* migrateActiveHeld, migrateBorrowerHeld, and the lender-proceeds branch  *)
(* of rekeyLienToHolder.                                                   *)
MigrateReserved(L, e, l, u) ==
    LET r == L.reserved[e][l]
    IN  IF r.amount = 0 \/ u = Party(L, e, l) THEN L
        ELSE Raise(Lower(L, Party(L, e, l), r.asset, r.amount), u, r.asset, r.amount)

RekeyLienToHolder(L, l, u, lenderSide) ==
    IF lenderSide
    THEN MigrateReserved(MigrateReserved(L, "heldForLender", l, u), "lenderProceeds", l, u)
    ELSE LET M == MigrateReserved(L, "borrowerProceeds", l, u)
             r == M.loanCollateralLien[l]
         IN  IF ~ r.live \/ r.user = u THEN M
             ELSE Raise(Lower(SetLien(M, l, [r EXCEPT !.user = u]), r.user, r.asset, r.amount),
                        u, r.asset, r.amount)

SetLender(L, l, u)   == [L EXCEPT !.lender[l] = u]
SetBorrower(L, l, u) == [L EXCEPT !.borrower[l] = u]

-----------------------------------------------------------------------------
(* Principal liens, one per offer.                                         *)

SetOfferLien(L, o, r) == [L EXCEPT !.offerPrincipalLien[o] = r]

CreateOfferPrincipalLien(L, o, u, a, x) ==
    Require(Raise(SetOfferLien(L, o, [user |-> u, asset |-> a, amount |-> x, live |-> TRUE]), u, a, x),
            ~ L.offerPrincipalLien[o].live)

(* Mutant: the row may give up more than it has.                           *)
DecrementOfferPrincipalLienUnchecked(L, o, x) ==
    LET r == L.offerPrincipalLien[o]
    IN  IF r.live
        THEN Lower(SetOfferLien(L, o, [r EXCEPT !.amount = Excess(@, x)]), r.user, r.asset, x)
        ELSE L

DecrementOfferPrincipalLien(L, o, x) ==
    LET r == L.offerPrincipalLien[o]
    IN  IF r.live
        THEN Require(Lower(SetOfferLien(L, o, [r EXCEPT !.amount = Excess(@, x)]), r.user, r.asset, x),
                     x <= r.amount)
        ELSE L

(* Mutant: the row grows and the aggregate does not.                       *)
IncrementOfferPrincipalLienRowOnly(L, o, x) ==
    LET r == L.offerPrincipalLien[o]
    IN  IF r.live THEN SetOfferLien(L, o, [r EXCEPT !.amount = @ + x]) ELSE L

IncrementOfferPrincipalLien(L, o, x) ==
    LET r == L.offerPrincipalLien[o]
    IN  IF r.live THEN Raise(SetOfferLien(L, o, [r EXCEPT !.amount = @ + x]), r.user, r.asset, x)
                  ELSE L

(* Mutant: the row is cleared before its amount is read.                   *)
ReleaseOfferPrincipalLienCleared(L, o) ==
    LET r == L.offerPrincipalLien[o]
    IN  IF r.live THEN Lower(SetOfferLien(L, o, [r EXCEPT !.live = FALSE]), r.user, r.asset, 0)
                  ELSE L

(* The row keeps its amount: only `released` says it is spent.             *)
ReleaseOfferPrincipalLien(L, o) ==
    LET r == L.offerPrincipalLien[o]
    IN  IF r.live THEN Lower(SetOfferLien(L, o, [r EXCEPT !.live = FALSE]), r.user, r.asset, r.amount)
                  ELSE L

-----------------------------------------------------------------------------
(* Capital of standing lender intents.                                     *)

SetIntent(L, i, x) == [L EXCEPT !.intentCapital[i] = x]

LienIntentCapital(L, i, x) ==
    Raise(SetIntent(L, i, L.intentCapital[i] + x), IntentOwner[i], IntentLend[i], x)

UnlienIntentCapital(L, i, x) ==
    Require(Lower(SetIntent(L, i, Excess(L.intentCapital[i], x)), IntentOwner[i], IntentLend[i], x),
            x <= L.intentCapital[i])

=============================================================================
