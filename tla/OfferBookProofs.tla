--------------------------- MODULE OfferBookProofs ---------------------------
(***************************************************************************)
(* The offer book keeps its books, for any number of users, assets, offers,*)
(* loans and intents and whatever terms they choose: the aggregate of the  *)
(* ledger is the sum of its rows, the lien of an offer is what its fills   *)
(* have not taken, and a loan's collateral has a lien of its own.          *)
(*                                                                         *)
(* The three are proved together.  A fill subtracts from a lien what it    *)
(* adds to amountFilled, and only the lien refuses a fill of more than is  *)
(* left of a borrower's collateral, so "the lien is the remainder" and     *)
(* "no fill takes more than was put in" need one another.                  *)
(*                                                                         *)
(* From them follows what the money is for: no vault has more reserved or  *)
(* promised than it holds, and what is left of an open offer can be paid   *)
(* back.                                                                   *)
(***************************************************************************)
EXTENDS OfferBook, VaultProofs

USE OfferBookAssumption

OfferLien(V, o) == V.ledger.offerPrincipalLien[o]
LoanLien(V, l)  == V.ledger.loanCollateralLien[l]

Leads(V, W) == Sane(W) /\ (Ok(W) => Ok(V))

SameLoans(V, W) ==
    /\ W.ledger.loanCollateralLien = V.ledger.loanCollateralLien
    /\ W.ledger.reserved = V.ledger.reserved
    /\ SameParties(V.ledger, W.ledger)

SameOffers(V, W) == W.ledger.offerPrincipalLien = V.ledger.offerPrincipalLien

OtherOffers(V, W, o) == \A j \in Offers : j # o => OfferLien(W, j) = OfferLien(V, j)

(* An offer that can be acted on: the fields an open offer always has.     *)
Kept(f) ==
    /\ f \in Offer
    /\ WithinEscrow(f)
    /\ f.type = "Lender" => f.collateralFilled = 0
    /\ f.status = "open" => /\ f.creator \in Users /\ f.lend \in Assets /\ f.coll \in Assets
                            /\ f.amount > 0 /\ f.amount <= f.amountMax

Quiet(V) == \A e \in Lanes, l \in Loans : V.ledger.reserved[e][l].amount = 0

(* A loan that was opened has a borrower with a vault, and a principal.    *)
Opened(V, n, l) == n.status = "Active" => V.ledger.borrower[l] \in Users /\ n.lend \in Assets

(* The inductive invariant, of the vaults V, the offers of and the loans ln. *)
BookInv(V, of, ln) ==
    /\ Sane(V)
    /\ of \in [Offers -> Offer] /\ ln \in [Loans -> Loan]
    /\ \A o \in Offers : Kept(of[o]) /\ HoldsRemainder(V, of[o], o)
    /\ \A l \in Loans : Secured(V, ln[l], l) /\ Opened(V, ln[l], l)
    /\ Quiet(V)

Inv == BookInv(vaults, offers, loans) /\ Ok(vaults)

-----------------------------------------------------------------------------
LEMMA FollowsLeads ==
    ASSUME NEW V, NEW W, Follows(V, W)
    PROVE  Leads(V, W) /\ SameLoans(V, W) /\ SameOffers(V, W)
BY DEF Follows, Leads, SameLoans, SameOffers, SameRows

LEMMA OpenOffer ==
    ASSUME NEW f, Kept(f), f.status = "open"
    PROVE  /\ f.creator \in Users /\ EscrowAsset(f) \in Assets /\ Escrowed(f) \in Nat
           /\ Unfilled(f) \in Nat
BY DEF Kept, EscrowAsset, Escrowed, Unfilled, WithinEscrow, Offer

LEMMA LienOfferEffect ==
    ASSUME NEW V, Sane(V), NEW o \in Offers, NEW f,
           f.creator \in Users, EscrowAsset(f) \in Assets, Escrowed(f) \in Nat
    PROVE  LET W == LienOffer(V, o, f)
           IN  /\ Leads(V, W) /\ SameLoans(V, W) /\ OtherOffers(V, W, o)
               /\ OfferLien(W, o) = [user |-> f.creator, asset |-> EscrowAsset(f),
                                     amount |-> Escrowed(f), live |-> TRUE]
<1> DEFINE L == CreateOfferPrincipalLien(V.ledger, o, f.creator, EscrowAsset(f), Escrowed(f))
<1>1. /\ Grows(V.ledger, L)
      /\ L.loanCollateralLien = V.ledger.loanCollateralLien
      /\ L.reserved = V.ledger.reserved
      /\ L.offerPrincipalLien[o] = [user |-> f.creator, asset |-> EscrowAsset(f),
                                    amount |-> Escrowed(f), live |-> TRUE]
      /\ \A j \in Offers : j # o => L.offerPrincipalLien[j] = V.ledger.offerPrincipalLien[j]
  BY CreateOfferPrincipalLienSound DEF Sane
<1> HIDE DEF L
<1>2. Sane(On(V, L)) /\ On(V, L).ledger = L
  BY <1>1, OnSane DEF Grows
<1>3. LienOffer(V, o, f) = On(V, L)
  BY DEF LienOffer, L
<1> QED BY <1>1, <1>2, <1>3 DEF Leads, SameLoans, OtherOffers, OfferLien, Grows, Ok

LEMMA CancelledVaultsEffect ==
    ASSUME NEW V, Sane(V), NEW o \in Offers, NEW f,
           f.creator \in Users, EscrowAsset(f) \in Assets, Unfilled(f) \in Int
    PROVE  LET W == CancelledVaults(V, o, f)
           IN  /\ Leads(V, W) /\ SameLoans(V, W) /\ OtherOffers(V, W, o)
               /\ ~ OfferLien(W, o).live
<1> DEFINE L == ReleaseOfferPrincipalLien(V.ledger, o)
           R == On(V, L)
           W == Refund(R, f.creator, EscrowAsset(f), Unfilled(f))
<1>1. /\ Grows(V.ledger, L)
      /\ L.loanCollateralLien = V.ledger.loanCollateralLien
      /\ L.reserved = V.ledger.reserved
      /\ ~ L.offerPrincipalLien[o].live
      /\ \A j \in Offers : j # o => L.offerPrincipalLien[j] = V.ledger.offerPrincipalLien[j]
  BY ReleaseOfferPrincipalLienSound DEF Sane
<1> HIDE DEF L
<1>2. Sane(R) /\ R.ledger = L
  BY <1>1, OnSane DEF Grows
<1> HIDE DEF R
<1>3. Follows(R, W)
  BY <1>2, RefundFollows
<1>4. CancelledVaults(V, o, f) = W
  BY DEF CancelledVaults, W, R, L
<1> HIDE DEF W
<1> QED BY <1>1, <1>2, <1>3, <1>4
        DEF Follows, SameRows, Leads, SameLoans, OtherOffers, OfferLien, Grows, Ok, SameParties

LEMMA MaterializedVaultsEffect ==
    ASSUME NEW V, Sane(V), NEW o \in Offers, NEW f,
           f.creator \in Users, EscrowAsset(f) \in Assets, Escrowed(f) \in Nat
    PROVE  LET W == MaterializedVaults(V, o, f)
           IN  /\ Leads(V, W) /\ SameLoans(V, W) /\ OtherOffers(V, W, o)
               /\ OfferLien(W, o) = [user |-> f.creator, asset |-> EscrowAsset(f),
                                     amount |-> Escrowed(f), live |-> TRUE]
<1> DEFINE u == f.creator
           a == EscrowAsset(f)
           p == Free(V, u, a) >= Escrowed(f)
           V1 == Guarded(V, p)
           V2 == Spend(V1, u, a, Escrowed(f))
           W == LienOffer(V2, o, f)
<1>1. Follows(V, V1)
  <2>1. p \in BOOLEAN
    OBVIOUS
  <2> HIDE DEF p
  <2> QED BY <2>1, GuardedFollows
<1> HIDE DEF V1
<1>2. Follows(V1, V2)
  BY <1>1, DepositoryFollows DEF Follows
<1> HIDE DEF V2
<1>3. /\ Leads(V2, W) /\ SameLoans(V2, W) /\ OtherOffers(V2, W, o)
      /\ OfferLien(W, o) = [user |-> f.creator, asset |-> EscrowAsset(f),
                            amount |-> Escrowed(f), live |-> TRUE]
  BY <1>2, LienOfferEffect DEF Follows
<1>4. MaterializedVaults(V, o, f) = W
  BY DEF MaterializedVaults, W, V2, V1, p
<1> HIDE DEF W
<1>5. Leads(V, V2) /\ SameLoans(V, V2) /\ SameOffers(V, V2)
  BY <1>1, <1>2, FollowsTwice, FollowsLeads
<1> QED BY <1>3, <1>4, <1>5 DEF Leads, SameLoans, SameOffers, OtherOffers, OfferLien, SameParties

(* A modified offer's lien changes by as much as its escrow does.          *)
LEMMA SettleEscrowEffect ==
    ASSUME NEW V, Sane(V), NEW o \in Offers, NEW f, NEW g, Kept(f), f.status = "open",
           Escrowed(g) \in Nat, OfferLien(V, o).live
    PROVE  LET W == SettleEscrow(V, o, f, g)
           IN  /\ Leads(V, W) /\ SameLoans(V, W) /\ OtherOffers(V, W, o)
               /\ OfferLien(W, o).user = OfferLien(V, o).user
               /\ OfferLien(W, o).asset = OfferLien(V, o).asset
               /\ OfferLien(W, o).live
               /\ Ok(W) => OfferLien(W, o).amount = OfferLien(V, o).amount + Escrowed(g) - Escrowed(f)
<1> DEFINE u == f.creator
           a == EscrowAsset(f)
           r == OfferLien(V, o)
           less == Escrowed(f) - Escrowed(g)
           more == Escrowed(g) - Escrowed(f)
           W == SettleEscrow(V, o, f, g)
<1>0. u \in Users /\ a \in Assets /\ Escrowed(f) \in Nat /\ less \in Int /\ more \in Int
  BY OpenOffer
<1>1. r \in Lien /\ r.amount \in Nat
  BY DEF OfferLien, Sane, Vaults, Ledger, Lien
<1>2. CASE less > 0
  <2> DEFINE L == DecrementOfferPrincipalLien(V.ledger, o, less)
             R == On(V, L)
  <2>1. less \in Nat
    BY <1>0, <1>2
  <2>2. W = Refund(R, u, a, less)
    <3>1. Escrowed(f) - Escrowed(g) > 0 /\ ~ (Escrowed(g) - Escrowed(f) > 0)
      BY <1>0, <1>2
    <3> HIDE DEF L, R
    <3>2. SettleEscrow(V, o, f, g) =
            Refund(On(V, DecrementOfferPrincipalLien(V.ledger, o, less)), u, a, less)
      BY ONLY <3>1 DEF SettleEscrow, u, a, less
    <3> QED BY <3>2 DEF R, L
  <2> HIDE DEF u, a, less
  <2>3. /\ Grows(V.ledger, L)
        /\ L.loanCollateralLien = V.ledger.loanCollateralLien
        /\ L.reserved = V.ledger.reserved
        /\ L.offerPrincipalLien[o] = [r EXCEPT !.amount = Excess(@, less)]
        /\ L.ok => less <= r.amount
        /\ \A j \in Offers : j # o => L.offerPrincipalLien[j] = V.ledger.offerPrincipalLien[j]
    BY <2>1, DecrementOfferPrincipalLienSound DEF Sane, OfferLien
  <2> HIDE DEF L
  <2>4. Sane(R) /\ R.ledger = L
    BY <2>3, OnSane DEF Grows
  <2> HIDE DEF R, W
  <2>5. Follows(R, W)
    BY <1>0, <2>2, <2>4, RefundFollows
  <2>6. L.ok => L.offerPrincipalLien[o].amount = r.amount - less
    BY <1>1, <2>1, <2>3 DEF Excess, Lien
  <2>7. /\ L.offerPrincipalLien[o].user = r.user /\ L.offerPrincipalLien[o].asset = r.asset
        /\ L.offerPrincipalLien[o].live
    BY <1>1, <2>3 DEF Lien
  <2>8. /\ Leads(V, W) /\ SameLoans(V, W) /\ OtherOffers(V, W, o)
        /\ OfferLien(W, o) = L.offerPrincipalLien[o] /\ (Ok(W) => L.ok)
    BY <2>3, <2>4, <2>5
       DEF Follows, SameRows, Leads, SameLoans, OtherOffers, OfferLien, Grows, Ok, SameParties
  <2>9. r.amount - less = r.amount + Escrowed(g) - Escrowed(f)
    BY <1>0, <1>1 DEF less
  <2> QED BY <2>6, <2>7, <2>8, <2>9 DEF W
<1>3. CASE more > 0
  <2> DEFINE R == VaultDepositERC20From(V, u, u, a, more)
             L == IncrementOfferPrincipalLien(R.ledger, o, more)
  <2>1. more \in Nat /\ ~ less > 0
    BY <1>0, <1>3
  <2>2. W = On(R, L)
    <3>1. Escrowed(g) - Escrowed(f) > 0 /\ ~ (Escrowed(f) - Escrowed(g) > 0)
      BY <1>3, <2>1
    <3> HIDE DEF R, L
    <3>2. SettleEscrow(V, o, f, g) =
            LET D == VaultDepositERC20(V, u, a, more)
            IN  On(D, IncrementOfferPrincipalLien(D.ledger, o, more))
      BY ONLY <3>1 DEF SettleEscrow, u, a, more
    <3> QED BY <3>2 DEF R, L, VaultDepositERC20
  <2> HIDE DEF u, a, more, less, W
  <2>3. Follows(V, R)
    BY <1>0, VaultDepositFollows
  <2> HIDE DEF R
  <2>4. /\ Grows(R.ledger, L)
        /\ L.loanCollateralLien = R.ledger.loanCollateralLien
        /\ L.reserved = R.ledger.reserved
        /\ L.offerPrincipalLien[o] = [r EXCEPT !.amount = @ + more]
        /\ \A j \in Offers : j # o => L.offerPrincipalLien[j] = R.ledger.offerPrincipalLien[j]
    <3>1. R.ledger.offerPrincipalLien[o] = r /\ Sound(R.ledger)
      BY <2>3 DEF Follows, SameRows, OfferLien, Sane
    <3> QED BY <2>1, <3>1, IncrementOfferPrincipalLienSound
  <2> HIDE DEF L
  <2>5. Sane(W) /\ W.ledger = L
    BY <2>2, <2>3, <2>4, OnSane DEF Grows, Follows
  <2>7. /\ L.offerPrincipalLien[o].user = r.user /\ L.offerPrincipalLien[o].asset = r.asset
        /\ L.offerPrincipalLien[o].live /\ L.offerPrincipalLien[o].amount = r.amount + more
    BY <1>1, <2>4 DEF Lien
  <2>8. /\ Leads(V, W) /\ SameLoans(V, W) /\ OtherOffers(V, W, o)
        /\ OfferLien(W, o) = L.offerPrincipalLien[o]
    BY <2>3, <2>4, <2>5
       DEF Follows, SameRows, Leads, SameLoans, OtherOffers, OfferLien, Grows, Ok, SameParties
  <2>9. r.amount + more = r.amount + Escrowed(g) - Escrowed(f)
    BY <1>0, <1>1 DEF more
  <2> QED BY <2>7, <2>8, <2>9 DEF W
<1>4. CASE ~ less > 0 /\ ~ more > 0
  <2>1. W = V
    BY <1>4 DEF SettleEscrow
  <2>2. r.amount = r.amount + Escrowed(g) - Escrowed(f)
    BY <1>0, <1>1, <1>4
  <2> QED BY <2>1, <2>2 DEF Leads, SameLoans, SameParties, OtherOffers
<1> QED BY <1>2, <1>3, <1>4

-----------------------------------------------------------------------------
(* W opens loan l against collateral x of asset a from borrower u.         *)
OpensLoan(V, W, l, u, a, x) ==
    /\ W.ledger.reserved = V.ledger.reserved
    /\ W.ledger.borrower[l] = u
    /\ LoanLien(W, l) = [user |-> u, asset |-> a, amount |-> x, live |-> TRUE]
    /\ \A j \in Loans : j # l => /\ LoanLien(W, j) = LoanLien(V, j)
                                 /\ W.ledger.borrower[j] = V.ledger.borrower[j]

LEMMA InitiateLoanEffect ==
    ASSUME NEW V, Sane(V), Quiet(V), NEW l \in Loans, NEW u \in Users, NEW v \in Users,
           NEW a \in Assets, NEW x \in Nat
    PROVE  LET W == InitiateLoan(V, l, u, v, a, x)
           IN  Leads(V, W) /\ SameOffers(V, W) /\ OpensLoan(V, W, l, v, a, x)
<1> DEFINE M == SetBorrower(SetLender(V.ledger, l, u), l, v)
           L == CreateCollateralLien(M, l, a, x)
<1>1. /\ Sound(M) /\ M.ok = V.ledger.ok /\ M.borrower[l] = v
      /\ \A j \in Loans : j # l => M.borrower[j] = V.ledger.borrower[j]
      /\ M.loanCollateralLien = V.ledger.loanCollateralLien
      /\ M.offerPrincipalLien = V.ledger.offerPrincipalLien
      /\ M.reserved = V.ledger.reserved
  BY SetPartiesSound DEF Sane, Quiet
<1> HIDE DEF M
<1>2. /\ Grows(M, L)
      /\ L.offerPrincipalLien = M.offerPrincipalLien /\ L.reserved = M.reserved
      /\ L.loanCollateralLien[l] = [user |-> M.borrower[l], asset |-> a, amount |-> x, live |-> TRUE]
      /\ \A j \in Loans : j # l => L.loanCollateralLien[j] = M.loanCollateralLien[j]
  BY <1>1, CreateCollateralLienSound
<1> HIDE DEF L
<1>3. Sane(On(V, L)) /\ On(V, L).ledger = L
  BY <1>2, OnSane DEF Grows
<1>4. InitiateLoan(V, l, u, v, a, x) = On(V, L)
  BY DEF InitiateLoan, L, M
<1> QED BY <1>1, <1>2, <1>3, <1>4
        DEF Leads, SameOffers, OpensLoan, LoanLien, Grows, SameParties, Ok

(* V keeps the accounts of loans and of the other offers of what follows.  *)
LEMMA QuietStays ==
    ASSUME NEW V, NEW W, Quiet(V), W.ledger.reserved = V.ledger.reserved
    PROVE  Quiet(W)
BY DEF Quiet

LEMMA AcceptedVaultsEffect ==
    ASSUME NEW V, Sane(V), Quiet(V), NEW o \in Offers, NEW f, Kept(f), f.status = "open",
           NEW u \in Users, NEW l \in Loans
    PROVE  LET W == AcceptedVaults(V, o, f, u, l)
           IN  /\ Leads(V, W) /\ OtherOffers(V, W, o) /\ ~ OfferLien(W, o).live
               /\ \E v \in Users : OpensLoan(V, W, l, v, f.coll, f.collateral)
<1> DEFINE x == EffectivePrincipal(f)
           W == AcceptedVaults(V, o, f, u, l)
<1>0. /\ f.creator \in Users /\ f.lend \in Assets /\ f.coll \in Assets
      /\ f.collateral \in Nat /\ x \in Int
      /\ f.collateral \in Int /\ f.collateralMax - f.collateral \in Int
  BY DEF Kept, Offer, EffectivePrincipal
<1> HIDE DEF x
<1>1. ASSUME NEW X, Sane(X)
      PROVE  LET Y == On(X, ReleaseOfferPrincipalLien(X.ledger, o))
             IN  /\ Leads(X, Y) /\ SameLoans(X, Y) /\ OtherOffers(X, Y, o)
                 /\ ~ OfferLien(Y, o).live
  <2> DEFINE L == ReleaseOfferPrincipalLien(X.ledger, o)
  <2>1. /\ Grows(X.ledger, L)
        /\ L.loanCollateralLien = X.ledger.loanCollateralLien
        /\ L.reserved = X.ledger.reserved
        /\ ~ L.offerPrincipalLien[o].live
        /\ \A j \in Offers : j # o => L.offerPrincipalLien[j] = X.ledger.offerPrincipalLien[j]
    BY <1>1, ReleaseOfferPrincipalLienSound DEF Sane
  <2> HIDE DEF L
  <2>2. Sane(On(X, L)) /\ On(X, L).ledger = L
    BY <1>1, <2>1, OnSane DEF Grows
  <2>3. /\ Leads(X, On(X, L)) /\ SameLoans(X, On(X, L)) /\ OtherOffers(X, On(X, L), o)
        /\ ~ OfferLien(On(X, L), o).live
    BY <2>1, <2>2 DEF Leads, SameLoans, OtherOffers, OfferLien, Grows, Ok, SameParties
  <2> QED BY <2>3 DEF L
<1>2. CASE f.type = "Lender"
  <2> DEFINE V1 == On(V, ReleaseOfferPrincipalLien(V.ledger, o))
             V2 == VaultWithdrawERC20(V1, f.creator, f.lend, u, x)
             V3 == VaultDepositERC20From(V2, u, u, f.coll, f.collateral)
             V4 == InitiateLoan(V3, l, f.creator, u, f.coll, f.collateral)
  <2>1. W = V4
    BY <1>2 DEF AcceptedVaults, VaultDepositERC20, x
  <2>2. /\ Leads(V, V1) /\ SameLoans(V, V1) /\ OtherOffers(V, V1, o) /\ ~ OfferLien(V1, o).live
    BY <1>1
  <2> HIDE DEF V1
  <2>3. Follows(V1, V2)
    BY <1>0, <2>2, VaultWithdrawFollows DEF Leads
  <2> HIDE DEF V2
  <2>4. Follows(V2, V3)
    BY <1>0, <2>3, VaultDepositFollows DEF Follows
  <2> HIDE DEF V3
  <2>5. Leads(V1, V3) /\ SameLoans(V1, V3) /\ SameOffers(V1, V3)
    BY <2>3, <2>4, FollowsTwice, FollowsLeads
  <2>6. Sane(V3) /\ Quiet(V3)
    BY <2>2, <2>5, QuietStays DEF Leads, SameLoans
  <2>7. Leads(V3, V4) /\ SameOffers(V3, V4) /\ OpensLoan(V3, V4, l, u, f.coll, f.collateral)
    BY <1>0, <2>6, InitiateLoanEffect
  <2> HIDE DEF V4
  <2>8. /\ Leads(V, V4) /\ OtherOffers(V, V4, o) /\ ~ OfferLien(V4, o).live
        /\ OpensLoan(V, V4, l, u, f.coll, f.collateral)
    BY <2>2, <2>5, <2>7 DEF Leads, SameLoans, SameOffers, OtherOffers, OfferLien, OpensLoan,
                            LoanLien, SameParties
  <2> QED BY <2>1, <2>8 DEF W
<1>3. CASE f.type # "Lender"
  <2> DEFINE V1 == VaultDepositERC20From(V, u, u, f.lend, x)
             V2 == VaultWithdrawERC20(V1, u, f.lend, f.creator, x)
             V3 == On(V2, ReleaseOfferPrincipalLien(V2.ledger, o))
             V4 == InitiateLoan(V3, l, u, f.creator, f.coll, f.collateral)
             V5 == Refund(V4, f.creator, f.coll, f.collateralMax - f.collateral)
  <2>1. W = V5
    BY <1>3 DEF AcceptedVaults, VaultDepositERC20, x
  <2>2. Follows(V, V1)
    BY <1>0, VaultDepositFollows
  <2> HIDE DEF V1
  <2>3. Follows(V1, V2)
    BY <1>0, <2>2, VaultWithdrawFollows DEF Follows
  <2> HIDE DEF V2
  <2>4. Leads(V, V2) /\ SameLoans(V, V2) /\ SameOffers(V, V2)
    BY <2>2, <2>3, FollowsTwice, FollowsLeads
  <2>5. /\ Leads(V2, V3) /\ SameLoans(V2, V3) /\ OtherOffers(V2, V3, o) /\ ~ OfferLien(V3, o).live
    BY <1>1, <2>4 DEF Leads
  <2> HIDE DEF V3
  <2>6. Sane(V3) /\ Quiet(V3)
    BY <2>4, <2>5, QuietStays DEF Leads, SameLoans
  <2>7. Leads(V3, V4) /\ SameOffers(V3, V4) /\ OpensLoan(V3, V4, l, f.creator, f.coll, f.collateral)
    BY <1>0, <2>6, InitiateLoanEffect
  <2> HIDE DEF V4
  <2>8. Follows(V4, V5)
    BY <1>0, <2>7, RefundFollows DEF Leads
  <2>9. Leads(V4, V5) /\ SameLoans(V4, V5) /\ SameOffers(V4, V5)
    BY <2>8, FollowsLeads
  <2> HIDE DEF V5
  <2>10. /\ Leads(V, V5) /\ OtherOffers(V, V5, o) /\ ~ OfferLien(V5, o).live
         /\ OpensLoan(V, V5, l, f.creator, f.coll, f.collateral)
    BY <2>4, <2>5, <2>7, <2>9 DEF Leads, SameLoans, SameOffers, OtherOffers, OfferLien, OpensLoan,
                                  LoanLien, SameParties
  <2> QED BY <1>0, <2>1, <2>10 DEF W
<1> QED BY <1>2, <1>3

(* A fill of x out of an offer's lien.                                     *)
LEMMA DrawEffect ==
    ASSUME NEW V, Sane(V), NEW o \in Offers, NEW x \in Nat, OfferLien(V, o).live
    PROVE  LET W == On(V, DecrementOfferPrincipalLien(V.ledger, o, x))
           IN  /\ Leads(V, W) /\ SameLoans(V, W) /\ OtherOffers(V, W, o)
               /\ OfferLien(W, o).live
               /\ OfferLien(W, o).user = OfferLien(V, o).user
               /\ OfferLien(W, o).asset = OfferLien(V, o).asset
               /\ Ok(W) => /\ x <= OfferLien(V, o).amount
                           /\ OfferLien(W, o).amount = OfferLien(V, o).amount - x
<1> DEFINE r == OfferLien(V, o)
           L == DecrementOfferPrincipalLien(V.ledger, o, x)
           W == On(V, L)
<1>1. r \in Lien /\ r.amount \in Nat
  BY DEF OfferLien, Sane, Vaults, Ledger, Lien
<1>2. /\ Grows(V.ledger, L)
      /\ L.loanCollateralLien = V.ledger.loanCollateralLien
      /\ L.reserved = V.ledger.reserved
      /\ L.offerPrincipalLien[o] = [r EXCEPT !.amount = Excess(@, x)]
      /\ L.ok => x <= r.amount
      /\ \A j \in Offers : j # o => L.offerPrincipalLien[j] = V.ledger.offerPrincipalLien[j]
  BY DecrementOfferPrincipalLienSound DEF Sane, OfferLien
<1> HIDE DEF L
<1>3. Sane(W) /\ W.ledger = L
  BY <1>2, OnSane DEF Grows
<1> HIDE DEF W
<1>4. L.ok => L.offerPrincipalLien[o].amount = r.amount - x
  BY <1>1, <1>2 DEF Excess, Lien
<1>5. /\ L.offerPrincipalLien[o].user = r.user /\ L.offerPrincipalLien[o].asset = r.asset
      /\ L.offerPrincipalLien[o].live
  BY <1>1, <1>2 DEF Lien
<1> HIDE DEF r
<1>6. /\ Leads(V, W) /\ SameLoans(V, W) /\ OtherOffers(V, W, o)
      /\ OfferLien(W, o) = L.offerPrincipalLien[o] /\ Ok(W) = L.ok
  BY <1>2, <1>3 DEF Leads, SameLoans, OtherOffers, OfferLien, Grows, Ok, SameParties
<1> QED BY <1>2, <1>4, <1>5, <1>6 DEF W, L, r

LEMMA SettleFilledEffect ==
    ASSUME NEW V, Sane(V), NEW o \in Offers, NEW f,
           f.creator \in Users, EscrowAsset(f) \in Assets, Unfilled(f) \in Int
    PROVE  LET W == SettleFilled(V, o, f)
           IN  /\ Leads(V, W) /\ SameLoans(V, W) /\ OtherOffers(V, W, o)
               /\ IF Spent(f) THEN ~ OfferLien(W, o).live ELSE OfferLien(W, o) = OfferLien(V, o)
<1>1. CASE Spent(f)
  BY <1>1, CancelledVaultsEffect DEF SettleFilled
<1>2. CASE ~ Spent(f)
  BY <1>2 DEF SettleFilled, Leads, SameLoans, OtherOffers, SameParties
<1> QED BY <1>1, <1>2

(* A match draws m from the lender's escrow and x from the borrower's,     *)
(* and opens a loan against the x.                                         *)
LEMMA MatchedVaultsEffect ==
    ASSUME NEW V, Sane(V), Quiet(V), NEW lo \in Offers, NEW bo \in Offers, lo # bo,
           NEW f, NEW g, Kept(f), Kept(g), f.status = "open", g.status = "open",
           f.type = "Lender", g.type = "Borrower",
           OfferLien(V, lo).live, OfferLien(V, bo).live,
           NEW m \in Nat, NEW x \in Nat, NEW l \in Loans
    PROVE  LET W == MatchedVaults(V, lo, bo, f, g, m, x, l)
           IN  /\ Leads(V, W)
               /\ \A j \in Offers : j # lo /\ j # bo => OfferLien(W, j) = OfferLien(V, j)
               /\ OpensLoan(V, W, l, g.creator, g.coll, x)
               /\ IF Spent(Fill(f, m, 0)) THEN ~ OfferLien(W, lo).live
                  ELSE /\ OfferLien(W, lo).live
                       /\ OfferLien(W, lo).user = OfferLien(V, lo).user
                       /\ OfferLien(W, lo).asset = OfferLien(V, lo).asset
                       /\ Ok(W) => OfferLien(W, lo).amount = OfferLien(V, lo).amount - m
               /\ IF Spent(Fill(g, m, x)) THEN ~ OfferLien(W, bo).live
                  ELSE /\ OfferLien(W, bo).live
                       /\ OfferLien(W, bo).user = OfferLien(V, bo).user
                       /\ OfferLien(W, bo).asset = OfferLien(V, bo).asset
                       /\ Ok(W) => OfferLien(W, bo).amount = OfferLien(V, bo).amount - x
               /\ Ok(W) => x <= OfferLien(V, bo).amount
<1> DEFINE V1 == On(V, DecrementOfferPrincipalLien(V.ledger, lo, m))
           V2 == VaultWithdrawERC20(V1, f.creator, f.lend, g.creator, m)
           V3 == InitiateLoan(V2, l, f.creator, g.creator, g.coll, x)
           V4 == On(V3, DecrementOfferPrincipalLien(V3.ledger, bo, x))
           F == Fill(f, m, 0)
           G == Fill(g, m, x)
           V5 == SettleFilled(V4, lo, F)
           W == SettleFilled(V5, bo, G)
<1>1. MatchedVaults(V, lo, bo, f, g, m, x, l) = W
  BY DEF MatchedVaults
<1>2. /\ f.creator \in Users /\ f.lend \in Assets /\ f.coll \in Assets
      /\ g.creator \in Users /\ g.lend \in Assets /\ g.coll \in Assets
      /\ m \in Int
  BY DEF Kept
<1>3. /\ F.creator \in Users /\ EscrowAsset(F) \in Assets /\ Unfilled(F) \in Int
      /\ G.creator \in Users /\ EscrowAsset(G) \in Assets /\ Unfilled(G) \in Int
  <2>1. /\ f \in Offer /\ g \in Offer
    BY DEF Kept
  <2>2. /\ F.creator = f.creator /\ F.type = "Lender" /\ F.lend = f.lend
        /\ F.amountMax \in Nat /\ F.amountFilled \in Nat
    BY <2>1 DEF Fill, Offer
  <2>3. /\ G.creator = g.creator /\ G.type = "Borrower" /\ G.coll = g.coll
        /\ G.collateralMax \in Nat /\ G.collateralFilled \in Nat
    BY <2>1 DEF Fill, Offer
  <2> HIDE DEF F, G
  <2> QED BY <1>2, <2>2, <2>3 DEF EscrowAsset, Unfilled
<1> HIDE DEF F, G
<1>4. /\ Leads(V, V1) /\ SameLoans(V, V1) /\ OtherOffers(V, V1, lo)
      /\ OfferLien(V1, lo).live
      /\ OfferLien(V1, lo).user = OfferLien(V, lo).user
      /\ OfferLien(V1, lo).asset = OfferLien(V, lo).asset
      /\ Ok(V1) => OfferLien(V1, lo).amount = OfferLien(V, lo).amount - m
  BY DrawEffect
<1> HIDE DEF V1
<1>5. Follows(V1, V2)
  BY <1>2, <1>4, VaultWithdrawFollows DEF Leads
<1>6. Leads(V1, V2) /\ SameLoans(V1, V2) /\ SameOffers(V1, V2)
  BY <1>5, FollowsLeads
<1> HIDE DEF V2
<1>7. Sane(V2) /\ Quiet(V2)
  BY <1>4, <1>6, QuietStays DEF Leads, SameLoans
<1>8. Leads(V2, V3) /\ SameOffers(V2, V3) /\ OpensLoan(V2, V3, l, g.creator, g.coll, x)
  BY <1>2, <1>7, InitiateLoanEffect
<1> HIDE DEF V3
<1>9. OfferLien(V3, bo) = OfferLien(V, bo) /\ Sane(V3)
  BY <1>4, <1>6, <1>8 DEF SameOffers, OtherOffers, OfferLien, Leads
<1>10. /\ Leads(V3, V4) /\ SameLoans(V3, V4) /\ OtherOffers(V3, V4, bo)
       /\ OfferLien(V4, bo).live
       /\ OfferLien(V4, bo).user = OfferLien(V3, bo).user
       /\ OfferLien(V4, bo).asset = OfferLien(V3, bo).asset
       /\ Ok(V4) => /\ x <= OfferLien(V3, bo).amount
                    /\ OfferLien(V4, bo).amount = OfferLien(V3, bo).amount - x
  BY <1>9, DrawEffect
<1> HIDE DEF V4
<1>11. /\ Leads(V4, V5) /\ SameLoans(V4, V5) /\ OtherOffers(V4, V5, lo)
       /\ IF Spent(F) THEN ~ OfferLien(V5, lo).live ELSE OfferLien(V5, lo) = OfferLien(V4, lo)
  BY <1>3, <1>10, SettleFilledEffect DEF Leads
<1> HIDE DEF V5
<1>12. /\ Leads(V5, W) /\ SameLoans(V5, W) /\ OtherOffers(V5, W, bo)
       /\ IF Spent(G) THEN ~ OfferLien(W, bo).live ELSE OfferLien(W, bo) = OfferLien(V5, bo)
  BY <1>3, <1>11, SettleFilledEffect DEF Leads
<1> HIDE DEF W
<1>13. Leads(V, W) /\ (Ok(W) => Ok(V4)) /\ (Ok(W) => Ok(V1))
  BY <1>4, <1>6, <1>8, <1>10, <1>11, <1>12 DEF Leads
<1>14. \A j \in Offers : j # lo /\ j # bo => OfferLien(W, j) = OfferLien(V, j)
  BY <1>4, <1>6, <1>8, <1>10, <1>11, <1>12 DEF OtherOffers, SameOffers, OfferLien
<1>15. OpensLoan(V, W, l, g.creator, g.coll, x)
  BY <1>4, <1>6, <1>8, <1>10, <1>11, <1>12 DEF SameLoans, OpensLoan, LoanLien, SameParties
<1>16. /\ OfferLien(W, lo) = OfferLien(V5, lo)
       /\ OfferLien(V4, lo) = OfferLien(V1, lo)
       /\ OfferLien(V5, bo) = OfferLien(V4, bo)
  BY <1>6, <1>8, <1>10, <1>11, <1>12 DEF OtherOffers, SameOffers, OfferLien
<1>17. IF Spent(F) THEN ~ OfferLien(W, lo).live
       ELSE /\ OfferLien(W, lo).live
            /\ OfferLien(W, lo).user = OfferLien(V, lo).user
            /\ OfferLien(W, lo).asset = OfferLien(V, lo).asset
            /\ Ok(W) => OfferLien(W, lo).amount = OfferLien(V, lo).amount - m
  BY <1>4, <1>11, <1>13, <1>16
<1>18. IF Spent(G) THEN ~ OfferLien(W, bo).live
       ELSE /\ OfferLien(W, bo).live
            /\ OfferLien(W, bo).user = OfferLien(V, bo).user
            /\ OfferLien(W, bo).asset = OfferLien(V, bo).asset
            /\ Ok(W) => OfferLien(W, bo).amount = OfferLien(V, bo).amount - x
  BY <1>9, <1>10, <1>12, <1>13, <1>16
<1>19. Ok(W) => x <= OfferLien(V, bo).amount
  BY <1>9, <1>10, <1>13
<1> QED BY <1>1, <1>13, <1>14, <1>15, <1>17, <1>18, <1>19 DEF F, G

-----------------------------------------------------------------------------
(* The amounts two offers agree on.                                        *)
LEMMA MatchTerms ==
    ASSUME NEW f, NEW g, Kept(f), Kept(g), NEW c \in Nat, Matchable(f, g, c)
    PROVE  /\ MatchAmount(f, g) \in Nat
           /\ MatchAmount(f, g) <= f.amountMax - f.amountFilled
           /\ MatchAmount(f, g) <= g.amountMax - g.amountFilled
           /\ ReqCollateral(f, g, c) \in Nat
<1> DEFINE lo == MatchLow(f, g)
           hi == MatchHigh(f, g)
           m == MatchAmount(f, g)
<1>1. /\ f.amount \in Nat /\ f.amountMax \in Nat /\ f.amountFilled \in Nat /\ f.collateral \in Nat
      /\ g.amount \in Nat /\ g.amountMax \in Nat /\ g.amountFilled \in Nat /\ g.collateral \in Nat
      /\ f.amountFilled <= f.amountMax /\ g.amountFilled <= g.amountMax
      /\ f.amountMax > 0
  BY DEF Kept, Offer, WithinEscrow, Matchable
<1>2. /\ lo \in Nat /\ hi \in Nat
      /\ hi <= f.amountMax - f.amountFilled /\ hi <= g.amountMax - g.amountFilled
  BY <1>1 DEF MatchLow, MatchHigh, AtLeast, AtMost
<1>3. lo <= hi
  BY DEF Matchable
<1>4. m = (lo + hi) \div 2
  BY DEF MatchAmount
<1> HIDE DEF lo, hi, m
<1>5. m \in Nat /\ m <= hi
  BY <1>2, <1>3, <1>4
<1>6. LenderAsk(f, m) \in Nat
  <2>1. f.collateral * m \in Nat
    BY <1>1, <1>5
  <2>2. \A p, d \in Nat : d > 0 => p \div d \in Nat
    OBVIOUS
  <2> QED BY <1>1, <2>1, <2>2 DEF LenderAsk
<1>7. ReqCollateral(f, g, c) \in Nat
  BY <1>1, <1>6 DEF ReqCollateral, AtLeast, m
<1> QED BY <1>1, <1>2, <1>5, <1>7 DEF m
-----------------------------------------------------------------------------
(* What a step owes the invariant: an offer or a loan it changes is right  *)
(* again, and the others keep their liens.                                 *)
LEMMA BookStep ==
    ASSUME NEW V, NEW W, NEW of, NEW ln, BookInv(V, of, ln), Sane(W),
           W.ledger.reserved = V.ledger.reserved,
           NEW nf \in [Offers -> Offer], NEW nl \in [Loans -> Loan],
           \A o \in Offers : \/ nf[o] = of[o] /\ OfferLien(W, o) = OfferLien(V, o)
                             \/ Kept(nf[o]) /\ HoldsRemainder(W, nf[o], o),
           \A l \in Loans : \/ /\ nl[l] = ln[l] /\ LoanLien(W, l) = LoanLien(V, l)
                               /\ W.ledger.borrower[l] = V.ledger.borrower[l]
                            \/ Secured(W, nl[l], l) /\ Opened(W, nl[l], l)
    PROVE  BookInv(W, nf, nl)
<1>1. \A o \in Offers : Kept(nf[o]) /\ HoldsRemainder(W, nf[o], o)
  BY DEF BookInv, HoldsRemainder, OfferLien
<1>2. \A l \in Loans : Secured(W, nl[l], l) /\ Opened(W, nl[l], l)
  BY DEF BookInv, Secured, Opened, LoanLien
<1>3. Quiet(W)
  BY QuietStays DEF BookInv
<1> QED BY <1>1, <1>2, <1>3 DEF BookInv

(* A step that touches one offer and no loan.                              *)
LEMMA OneOffer ==
    ASSUME NEW V, NEW W, NEW of, NEW ln, BookInv(V, of, ln), Sane(W),
           SameLoans(V, W), NEW o \in Offers, OtherOffers(V, W, o),
           NEW n, Kept(n), HoldsRemainder(W, n, o)
    PROVE  BookInv(W, [of EXCEPT ![o] = n], ln)
<1> DEFINE nf == [of EXCEPT ![o] = n]
<1>1. nf \in [Offers -> Offer] /\ ln \in [Loans -> Loan]
  BY DEF BookInv, Kept
<1>2. \A j \in Offers : \/ nf[j] = of[j] /\ OfferLien(W, j) = OfferLien(V, j)
                        \/ Kept(nf[j]) /\ HoldsRemainder(W, nf[j], j)
  BY DEF BookInv, OtherOffers
<1> HIDE DEF nf
<1>3. \A l \in Loans : /\ LoanLien(W, l) = LoanLien(V, l)
                       /\ W.ledger.borrower[l] = V.ledger.borrower[l]
  BY DEF SameLoans, SameParties, LoanLien
<1>4. BookInv(W, nf, ln)
  BY <1>1, <1>2, <1>3, BookStep DEF SameLoans
<1> QED BY <1>4 DEF nf

LEMMA NewOfferKept ==
    ASSUME NEW type \in {"Lender", "Borrower"}, NEW u \in Users,
           NEW p \in Assets \X Assets,
           NEW t \in [amount : Nat, amountMax : Nat, collateral : Nat, collateralMax : Nat],
           WellFormed(type, t)
    PROVE  LET f == NewOffer(type, u, p, t)
           IN  /\ Kept(f) /\ f.status = "open" /\ f.creator = u
               /\ EscrowAsset(f) \in Assets /\ Escrowed(f) \in Nat
               /\ Unfilled(f) = Escrowed(f)
<1> DEFINE f == NewOffer(type, u, p, t)
<1>1. p[1] \in Assets /\ p[2] \in Assets
  OBVIOUS
<1>2. f \in Offer
  BY <1>1 DEF NewOffer, Offer
<1>3. /\ f.status = "open" /\ f.creator = u /\ f.type = type
      /\ f.lend = p[1] /\ f.coll = p[2]
      /\ f.amount = t.amount /\ f.amountMax = t.amountMax
      /\ f.collateralMax = t.collateralMax
      /\ f.amountFilled = 0 /\ f.collateralFilled = 0
  BY DEF NewOffer
<1> HIDE DEF f
<1>4. Kept(f)
  BY <1>1, <1>2, <1>3 DEF Kept, WithinEscrow, WellFormed
<1>5. Unfilled(f) = Escrowed(f)
  BY <1>3 DEF Unfilled, Escrowed
<1> QED BY <1>1, <1>3, <1>4, <1>5, OpenOffer DEF f

(* An offer whose lien was just made.                                      *)
LEMMA FreshLien ==
    ASSUME NEW W, NEW f, NEW o, f.status = "open", Unfilled(f) = Escrowed(f),
           OfferLien(W, o) = [user |-> f.creator, asset |-> EscrowAsset(f),
                              amount |-> Escrowed(f), live |-> TRUE]
    PROVE  HoldsRemainder(W, f, o)
BY DEF HoldsRemainder, OfferLien

LEMMA MaterializedInv ==
    ASSUME NEW V, NEW of, NEW ln, BookInv(V, of, ln), NEW o \in Offers,
           NEW f, Kept(f), f.status = "open", Unfilled(f) = Escrowed(f)
    PROVE  LET W == MaterializedVaults(V, o, f)
           IN  BookInv(W, [of EXCEPT ![o] = f], ln) /\ Leads(V, W)
<1> DEFINE W == MaterializedVaults(V, o, f)
<1>1. /\ Leads(V, W) /\ SameLoans(V, W) /\ OtherOffers(V, W, o)
      /\ OfferLien(W, o) = [user |-> f.creator, asset |-> EscrowAsset(f),
                            amount |-> Escrowed(f), live |-> TRUE]
  BY OpenOffer, MaterializedVaultsEffect DEF BookInv
<1> HIDE DEF W
<1>2. HoldsRemainder(W, f, o)
  BY <1>1, FreshLien
<1>3. BookInv(W, [of EXCEPT ![o] = f], ln)
  BY <1>1, <1>2, OneOffer DEF Leads
<1> QED BY <1>1, <1>3 DEF W

(* A step that opens loan l and otherwise touches the offers lo and bo,    *)
(* which may be one and the same.                                          *)
LEMMA OpensLoanInv ==
    ASSUME NEW V, NEW W, NEW of, NEW ln, BookInv(V, of, ln), Sane(W),
           NEW nf \in [Offers -> Offer],
           \A o \in Offers : \/ nf[o] = of[o] /\ OfferLien(W, o) = OfferLien(V, o)
                             \/ Kept(nf[o]) /\ HoldsRemainder(W, nf[o], o),
           NEW l \in Loans, NEW n \in Loan, n.status = "Active", n.lend \in Assets,
           NEW u \in Users, OpensLoan(V, W, l, u, n.coll, n.collateral)
    PROVE  BookInv(W, nf, [ln EXCEPT ![l] = n])
<1> DEFINE nl == [ln EXCEPT ![l] = n]
<1>1. nl \in [Loans -> Loan]
  BY DEF BookInv
<1>2. Secured(W, n, l) /\ Opened(W, n, l)
  BY DEF OpensLoan, Secured, Opened, LoanLien
<1>3. \A j \in Loans : \/ /\ nl[j] = ln[j] /\ LoanLien(W, j) = LoanLien(V, j)
                          /\ W.ledger.borrower[j] = V.ledger.borrower[j]
                       \/ Secured(W, nl[j], j) /\ Opened(W, nl[j], j)
  BY <1>2 DEF OpensLoan, BookInv
<1> HIDE DEF nl
<1>4. BookInv(W, nf, nl)
  BY <1>1, <1>3, BookStep DEF OpensLoan
<1> QED BY <1>4 DEF nl

LEMMA AcceptedInv ==
    ASSUME NEW V, NEW of, NEW ln, BookInv(V, of, ln), NEW o \in Offers,
           NEW f, f = of[o], f.status = "open",
           NEW u \in Users, NEW l \in Loans
    PROVE  LET W == AcceptedVaults(V, o, f, u, l)
           IN  /\ Leads(V, W)
               /\ BookInv(W, [of EXCEPT ![o] = [f EXCEPT !.status = "accepted"]],
                          [ln EXCEPT ![l] = NewLoan(f, EffectivePrincipal(f), f.collateral)])
<1> DEFINE W == AcceptedVaults(V, o, f, u, l)
           g == [f EXCEPT !.status = "accepted"]
           n == NewLoan(f, EffectivePrincipal(f), f.collateral)
           nf == [of EXCEPT ![o] = g]
<1>1. Kept(f) /\ f \in Offer
  BY DEF BookInv, Kept
<1>2. PICK v \in Users : /\ Leads(V, W) /\ OtherOffers(V, W, o) /\ ~ OfferLien(W, o).live
                         /\ OpensLoan(V, W, l, v, f.coll, f.collateral)
  BY <1>1, AcceptedVaultsEffect DEF BookInv
<1> HIDE DEF W
<1>3. Kept(g) /\ g.status = "accepted"
  BY <1>1 DEF Kept, Offer, WithinEscrow
<1>4. /\ n \in Loan /\ n.status = "Active" /\ n.lend \in Assets
      /\ n.coll = f.coll /\ n.collateral = f.collateral
  BY <1>1 DEF NewLoan, Loan, EffectivePrincipal, Offer, Kept
<1>5. HoldsRemainder(W, g, o)
  BY <1>2, <1>3 DEF HoldsRemainder, OfferLien
<1> HIDE DEF g, n
<1>6. nf \in [Offers -> Offer]
  BY <1>3 DEF BookInv, Kept
<1>7. \A j \in Offers : \/ nf[j] = of[j] /\ OfferLien(W, j) = OfferLien(V, j)
                        \/ Kept(nf[j]) /\ HoldsRemainder(W, nf[j], j)
  BY <1>2, <1>3, <1>5 DEF BookInv, OtherOffers
<1> HIDE DEF nf
<1>8. BookInv(W, nf, [ln EXCEPT ![l] = n])
  BY <1>2, <1>4, <1>6, <1>7, OpensLoanInv DEF Leads
<1> QED BY <1>2, <1>8 DEF W, nf, g, n

(* A filled offer: what it keeps, given what its lien keeps.               *)
LEMMA FilledKept ==
    ASSUME NEW V, NEW W, NEW o \in Offers, NEW f, Kept(f), f.status = "open",
           HoldsRemainder(V, f, o), Sane(V),
           NEW m \in Nat, NEW x \in Nat, NEW y \in Nat,
           m <= f.amountMax - f.amountFilled, x <= f.collateralMax - f.collateralFilled,
           f.type = "Lender" => x = 0 /\ y = m,
           f.type = "Borrower" => y = x,
           LET F == Fill(f, m, x)
           IN  IF Spent(F) THEN ~ OfferLien(W, o).live
               ELSE /\ OfferLien(W, o).live
                    /\ OfferLien(W, o).user = OfferLien(V, o).user
                    /\ OfferLien(W, o).asset = OfferLien(V, o).asset
                    /\ OfferLien(W, o).amount = OfferLien(V, o).amount - y
    PROVE  LET F == Close(Fill(f, m, x))
           IN  Kept(F) /\ HoldsRemainder(W, F, o)
<1> DEFINE F == Fill(f, m, x)
           G == Close(F)
<1>1. f \in Offer /\ f.type \in {"Lender", "Borrower"} /\ f.amountMax \in Nat /\ f.amountFilled \in Nat
      /\ f.collateralMax \in Nat /\ f.collateralFilled \in Nat
  BY DEF Kept, Offer
<1>2. /\ F \in Offer
      /\ F.type = f.type /\ F.creator = f.creator /\ F.lend = f.lend /\ F.coll = f.coll
      /\ F.status = "open" /\ F.amount = f.amount /\ F.amountMax = f.amountMax
      /\ F.collateralMax = f.collateralMax
      /\ F.amountFilled = f.amountFilled + m /\ F.collateralFilled = f.collateralFilled + x
  <2> DEFINE p == f.amountFilled + m
             q == f.collateralFilled + x
  <2>1. p \in Nat /\ q \in Nat
    BY <1>1
  <2>2. F = [f EXCEPT !.amountFilled = p, !.collateralFilled = q]
    BY DEF Fill
  <2> HIDE DEF p, q, F
  <2>3. F \in Offer
    BY <1>1, <2>1, <2>2 DEF Offer
  <2>4. F.amountFilled = p /\ F.collateralFilled = q
    BY <1>1, <2>2 DEF Offer
  <2>5. /\ F.type = f.type /\ F.creator = f.creator /\ F.lend = f.lend /\ F.coll = f.coll
        /\ F.status = "open" /\ F.amount = f.amount /\ F.amountMax = f.amountMax
        /\ F.collateralMax = f.collateralMax
    BY <1>1, <2>2 DEF Offer
  <2> QED BY <2>3, <2>4, <2>5 DEF p, q
<1> HIDE DEF F
<1>3. Kept(F)
  BY <1>1, <1>2 DEF Kept, WithinEscrow
<1>4. CASE Spent(F)
  <2>1. G = [F EXCEPT !.status = "accepted"]
    BY <1>4 DEF Close
  <2>2. Kept(G) /\ G.status = "accepted"
    BY <1>3, <2>1 DEF Kept, Offer, WithinEscrow
  <2>3. HoldsRemainder(W, G, o)
    BY <1>4, <2>2 DEF HoldsRemainder, OfferLien, F
  <2> QED BY <2>2, <2>3 DEF F, G
<1>5. CASE ~ Spent(F)
  <2>1. G = F
    BY <1>5 DEF Close
  <2>2. /\ OfferLien(W, o).live
        /\ OfferLien(W, o).user = OfferLien(V, o).user
        /\ OfferLien(W, o).asset = OfferLien(V, o).asset
        /\ OfferLien(W, o).amount = OfferLien(V, o).amount - y
    BY <1>5 DEF F
  <2>3. /\ OfferLien(V, o).user = f.creator /\ OfferLien(V, o).asset = EscrowAsset(f)
        /\ OfferLien(V, o).amount = Unfilled(f)
    BY DEF HoldsRemainder, OfferLien
  <2>4. Unfilled(F) = Unfilled(f) - y /\ EscrowAsset(F) = EscrowAsset(f)
    <3>1. CASE f.type = "Lender"
      BY <1>1, <1>2, <3>1 DEF Unfilled, EscrowAsset
    <3>2. CASE f.type = "Borrower"
      BY <1>1, <1>2, <3>2 DEF Unfilled, EscrowAsset
    <3> QED BY <1>1, <3>1, <3>2
  <2>5. HoldsRemainder(W, F, o)
    BY <1>2, <2>2, <2>3, <2>4 DEF HoldsRemainder, OfferLien
  <2> QED BY <1>3, <2>1, <2>5 DEF F, G
<1> QED BY <1>4, <1>5

(* A match of two offers of the book of.                                   *)
LEMMA MatchInv ==
    ASSUME NEW V, NEW of, NEW ln, BookInv(V, of, ln),
           NEW lo \in Offers, NEW bo \in Offers, NEW f, NEW g, f = of[lo], g = of[bo],
           NEW c \in Nat, Matchable(f, g, c), NEW l \in Loans,
           LET m == MatchAmount(f, g)
               x == ReqCollateral(f, g, c)
           IN  Ok(MatchedVaults(V, lo, bo, f, g, m, x, l))
    PROVE  LET m == MatchAmount(f, g)
               x == ReqCollateral(f, g, c)
           IN  BookInv(MatchedVaults(V, lo, bo, f, g, m, x, l),
                       [of EXCEPT ![lo] = FilledLender(f, m), ![bo] = FilledBorrower(g, m, x)],
                       [ln EXCEPT ![l] = NewLoan(g, m, x)])
<1> DEFINE m == MatchAmount(f, g)
           x == ReqCollateral(f, g, c)
           W == MatchedVaults(V, lo, bo, f, g, m, x, l)
           F == FilledLender(f, m)
           G == FilledBorrower(g, m, x)
           nf == [of EXCEPT ![lo] = F, ![bo] = G]
           n == NewLoan(g, m, x)
<1>1. /\ Kept(f) /\ Kept(g) /\ HoldsRemainder(V, f, lo) /\ HoldsRemainder(V, g, bo)
      /\ Sane(V) /\ Quiet(V)
  BY DEF BookInv
<1>2. /\ f.status = "open" /\ g.status = "open" /\ f.type = "Lender" /\ g.type = "Borrower"
      /\ lo # bo
  BY DEF Matchable
<1>3. /\ m \in Nat /\ x \in Nat
      /\ m <= f.amountMax - f.amountFilled /\ m <= g.amountMax - g.amountFilled
  BY <1>1, MatchTerms
<1> HIDE DEF m, x
<1>4. /\ OfferLien(V, lo).live /\ OfferLien(V, bo).live
      /\ OfferLien(V, bo).amount = g.collateralMax - g.collateralFilled
  BY <1>1, <1>2 DEF HoldsRemainder, OfferLien, Unfilled
<1>5. Ok(W)
  BY DEF m, x
<1>6. /\ Leads(V, W)
      /\ \A j \in Offers : j # lo /\ j # bo => OfferLien(W, j) = OfferLien(V, j)
      /\ OpensLoan(V, W, l, g.creator, g.coll, x)
      /\ IF Spent(Fill(f, m, 0)) THEN ~ OfferLien(W, lo).live
         ELSE /\ OfferLien(W, lo).live
              /\ OfferLien(W, lo).user = OfferLien(V, lo).user
              /\ OfferLien(W, lo).asset = OfferLien(V, lo).asset
              /\ OfferLien(W, lo).amount = OfferLien(V, lo).amount - m
      /\ IF Spent(Fill(g, m, x)) THEN ~ OfferLien(W, bo).live
         ELSE /\ OfferLien(W, bo).live
              /\ OfferLien(W, bo).user = OfferLien(V, bo).user
              /\ OfferLien(W, bo).asset = OfferLien(V, bo).asset
              /\ OfferLien(W, bo).amount = OfferLien(V, bo).amount - x
      /\ x <= OfferLien(V, bo).amount
  BY <1>1, <1>2, <1>3, <1>4, <1>5, MatchedVaultsEffect
<1> HIDE DEF W
<1>7. Kept(F) /\ HoldsRemainder(W, F, lo)
  <2>1. 0 <= f.collateralMax - f.collateralFilled
    BY <1>1 DEF Kept, Offer, WithinEscrow
  <2>2. LET H == Close(Fill(f, m, 0)) IN Kept(H) /\ HoldsRemainder(W, H, lo)
    BY <1>1, <1>2, <1>3, <1>6, <2>1, FilledKept
  <2> QED BY <2>2 DEF FilledLender
<1>8. Kept(G) /\ HoldsRemainder(W, G, bo)
  <2>1. x <= g.collateralMax - g.collateralFilled
    BY <1>4, <1>6
  <2>2. LET H == Close(Fill(g, m, x)) IN Kept(H) /\ HoldsRemainder(W, H, bo)
    BY <1>1, <1>2, <1>3, <1>6, <2>1, FilledKept
  <2> QED BY <2>2 DEF FilledBorrower
<1>9. /\ n \in Loan /\ n.status = "Active" /\ n.lend \in Assets
      /\ n.coll = g.coll /\ n.collateral = x /\ g.creator \in Users
  BY <1>1, <1>2, <1>3 DEF NewLoan, Loan, Kept, Offer
<1> HIDE DEF F, G, n
<1>10. nf \in [Offers -> Offer]
  BY <1>7, <1>8 DEF BookInv, Kept
<1>11. \A j \in Offers : \/ nf[j] = of[j] /\ OfferLien(W, j) = OfferLien(V, j)
                         \/ Kept(nf[j]) /\ HoldsRemainder(W, nf[j], j)
  BY <1>2, <1>6, <1>7, <1>8 DEF BookInv
<1> HIDE DEF nf
<1>12. BookInv(W, nf, [ln EXCEPT ![l] = n])
  BY <1>6, <1>9, <1>10, <1>11, OpensLoanInv DEF Leads
<1> QED BY <1>12 DEF nf, n, F, G, W, m, x

-----------------------------------------------------------------------------
(* The inductive invariant, action by action.                              *)

LEMMA InitInv == ASSUME Init PROVE Inv
<1>1. vaults \in Vaults /\ Ok(vaults)
  <2>1. /\ vaults.ledger = EmptyLedger /\ vaults.tracked = [k \in Keys |-> 0]
        /\ vaults.depository = [k \in Keys |-> 0] /\ vaults.wallet = Endowment
    BY DEF Init
  <2>2. /\ vaults.tracked \in [Keys -> Int] /\ vaults.depository \in [Keys -> Nat]
        /\ vaults.wallet \in [Keys -> Int]
    BY <2>1 DEF OfferBookAssumption
  <2>3. vaults.ledger \in Ledger /\ vaults.ledger.ok
    BY <2>1, EmptyBalanced DEF EmptyLedger
  <2>4. vaults = [ledger |-> vaults.ledger, tracked |-> vaults.tracked,
                  depository |-> vaults.depository, wallet |-> vaults.wallet]
    BY <2>1 DEF Init
  <2> QED BY <2>2, <2>3, <2>4 DEF Vaults, Ok
<1>2. Sane(vaults)
  BY <1>1, EmptyBalanced DEF Init, Sane, Sound
<1>3. offers \in [Offers -> Offer] /\ loans \in [Loans -> Loan]
  BY DEF Init, NoOffer, Offer, NoLoan, Loan
<1>4. \A o \in Offers : Kept(offers[o]) /\ HoldsRemainder(vaults, offers[o], o)
  BY <1>3 DEF Init, NoOffer, Kept, WithinEscrow, HoldsRemainder, EmptyLedger, NoLien
<1>5. \A l \in Loans : Secured(vaults, loans[l], l) /\ Opened(vaults, loans[l], l)
  BY DEF Init, NoLoan, Secured, Opened, EmptyLedger, NoLien
<1>6. Quiet(vaults)
  BY DEF Init, Quiet, EmptyLedger, NoReservation
<1> QED BY <1>1, <1>2, <1>3, <1>4, <1>5, <1>6 DEF Inv, BookInv

LEMMA CreateOfferInv ==
    ASSUME Inv, NEW u \in Users, NEW type \in {"Lender", "Borrower"}, NEW p \in Pairs,
           NEW t \in Terms, NEW o \in Offers, CreateOffer(u, type, p, t, o)
    PROVE  Inv'
<1> DEFINE f == NewOffer(type, u, p, t)
           D == VaultDepositERC20From(vaults, u, u, EscrowAsset(f), Escrowed(f))
           W == LienOffer(D, o, f)
<1>1. /\ p \in Assets \X Assets
      /\ t \in [amount : Nat, amountMax : Nat, collateral : Nat, collateralMax : Nat]
      /\ WellFormed(type, t)
  BY DEF OfferBookAssumption, CreateOffer
<1>2. /\ Kept(f) /\ f.status = "open" /\ f.creator = u
      /\ EscrowAsset(f) \in Assets /\ Escrowed(f) \in Nat /\ Unfilled(f) = Escrowed(f)
  BY <1>1, NewOfferKept
<1>3. Ok(W) /\ vaults' = W /\ offers' = [offers EXCEPT ![o] = f] /\ loans' = loans
  BY DEF CreateOffer, Commit, VaultDepositERC20
<1> HIDE DEF f
<1>4. Follows(vaults, D)
  <2>1. Escrowed(f) \in Int
    BY <1>2
  <2> QED BY <1>2, <2>1, VaultDepositFollows DEF Inv, BookInv
<1> HIDE DEF D
<1>5. Leads(vaults, D) /\ SameLoans(vaults, D) /\ SameOffers(vaults, D)
  BY <1>4, FollowsLeads
<1>6. /\ Leads(D, W) /\ SameLoans(D, W) /\ OtherOffers(D, W, o)
      /\ OfferLien(W, o) = [user |-> f.creator, asset |-> EscrowAsset(f),
                            amount |-> Escrowed(f), live |-> TRUE]
  BY <1>2, <1>5, LienOfferEffect DEF Leads
<1> HIDE DEF W
<1>7. HoldsRemainder(W, f, o)
  BY <1>2, <1>6, FreshLien
<1>8. Sane(W) /\ SameLoans(vaults, W) /\ OtherOffers(vaults, W, o)
  BY <1>5, <1>6 DEF Leads, SameLoans, SameParties, SameOffers, OtherOffers, OfferLien
<1>9. BookInv(W, [offers EXCEPT ![o] = f], loans)
  BY <1>2, <1>7, <1>8, OneOffer DEF Inv
<1> QED BY <1>3, <1>9 DEF Inv

LEMMA ModifyOfferInv ==
    ASSUME Inv, NEW o \in Offers, NEW t \in Terms, ModifyOffer(o, t)
    PROVE  Inv'
<1> DEFINE f == offers[o]
           g == [f EXCEPT !.amount = t.amount, !.amountMax = t.amountMax,
                          !.collateral = t.collateral, !.collateralMax = t.collateralMax]
           W == SettleEscrow(vaults, o, f, g)
<1>1. /\ f.status = "open" /\ WellFormed(f.type, t) /\ t.amountMax >= f.amountFilled
      /\ f.type = "Borrower" => t.collateralMax >= f.collateralFilled
      /\ Ok(W) /\ vaults' = W /\ offers' = [offers EXCEPT ![o] = g] /\ loans' = loans
  BY DEF ModifyOffer, Commit
<1>2. /\ Kept(f) /\ HoldsRemainder(vaults, f, o) /\ Sane(vaults) /\ f \in Offer
  BY DEF Inv, BookInv
<1>3. /\ t \in [amount : Nat, amountMax : Nat, collateral : Nat, collateralMax : Nat]
      /\ t.amount \in Nat /\ t.amountMax \in Nat /\ t.collateral \in Nat /\ t.collateralMax \in Nat
  BY DEF OfferBookAssumption
<1> HIDE DEF f
<1>4. g \in Offer
  BY <1>2, <1>3 DEF Offer
<1>5. /\ g.type = f.type /\ g.creator = f.creator /\ g.lend = f.lend /\ g.coll = f.coll
      /\ g.status = "open" /\ g.amountFilled = f.amountFilled
      /\ g.collateralFilled = f.collateralFilled
      /\ g.amount = t.amount /\ g.amountMax = t.amountMax
      /\ g.collateral = t.collateral /\ g.collateralMax = t.collateralMax
  BY <1>1, <1>2 DEF Offer
<1> HIDE DEF g
<1>6. Kept(g)
  <2>1. f.type \in {"Lender", "Borrower"} /\ f.collateralFilled \in Nat
    BY <1>2 DEF Offer
  <2>2. /\ f.type = "Lender" => f.collateralFilled = 0
        /\ f.creator \in Users /\ f.lend \in Assets /\ f.coll \in Assets
    BY <1>1, <1>2 DEF Kept
  <2>3. t.amount > 0 /\ t.amountMax >= t.amount
    BY <1>1 DEF WellFormed
  <2>4. WithinEscrow(g)
    BY <1>1, <1>3, <1>5, <2>1, <2>2 DEF WithinEscrow
  <2> QED BY <1>3, <1>4, <1>5, <2>2, <2>3, <2>4 DEF Kept
<1>7. Escrowed(g) \in Nat
  BY <1>3, <1>5 DEF Escrowed
<1>8. /\ OfferLien(vaults, o).live /\ OfferLien(vaults, o).user = f.creator
      /\ OfferLien(vaults, o).asset = EscrowAsset(f) /\ OfferLien(vaults, o).amount = Unfilled(f)
  BY <1>1, <1>2 DEF HoldsRemainder, OfferLien
<1>9. /\ Leads(vaults, W) /\ SameLoans(vaults, W) /\ OtherOffers(vaults, W, o)
      /\ OfferLien(W, o).user = OfferLien(vaults, o).user
      /\ OfferLien(W, o).asset = OfferLien(vaults, o).asset
      /\ OfferLien(W, o).live
      /\ OfferLien(W, o).amount = OfferLien(vaults, o).amount + Escrowed(g) - Escrowed(f)
  BY <1>1, <1>2, <1>7, <1>8, SettleEscrowEffect
<1> HIDE DEF W
<1>10. EscrowAsset(g) = EscrowAsset(f) /\ Unfilled(g) = Unfilled(f) + Escrowed(g) - Escrowed(f)
  <2>1. /\ f.type \in {"Lender", "Borrower"} /\ f.amountMax \in Nat /\ f.amountFilled \in Nat
        /\ f.collateralMax \in Nat /\ f.collateralFilled \in Nat
    BY <1>2 DEF Offer
  <2> QED BY <1>3, <1>5, <2>1 DEF EscrowAsset, Unfilled, Escrowed
<1>11. HoldsRemainder(W, g, o)
  BY <1>5, <1>8, <1>9, <1>10 DEF HoldsRemainder, OfferLien
<1>12. BookInv(W, [offers EXCEPT ![o] = g], loans)
  BY <1>6, <1>9, <1>11, OneOffer DEF Inv, Leads
<1> QED BY <1>1, <1>12 DEF Inv

LEMMA CancelOfferInv ==
    ASSUME Inv, NEW o \in Offers, CancelOffer(o)
    PROVE  Inv'
<1> DEFINE f == offers[o]
           n == IF f.amountFilled > 0 THEN [f EXCEPT !.status = "accepted"]
                                      ELSE NoOffer("cancelled")
           W == CancelledVaults(vaults, o, f)
<1>1. /\ f.status = "open"
      /\ Ok(W) /\ vaults' = W /\ offers' = [offers EXCEPT ![o] = n] /\ loans' = loans
  BY DEF CancelOffer, Commit
<1>2. Kept(f) /\ f \in Offer /\ Sane(vaults)
  BY DEF Inv, BookInv, Kept
<1> HIDE DEF f
<1>3. f.creator \in Users /\ EscrowAsset(f) \in Assets /\ Unfilled(f) \in Int
  BY <1>1, <1>2, OpenOffer
<1>4. /\ Leads(vaults, W) /\ SameLoans(vaults, W) /\ OtherOffers(vaults, W, o)
      /\ ~ OfferLien(W, o).live
  BY <1>2, <1>3, CancelledVaultsEffect
<1> HIDE DEF W
<1>5. Kept(n) /\ n.status # "open"
  <2>1. CASE f.amountFilled > 0
    <3>1. n = [f EXCEPT !.status = "accepted"]
      BY <2>1
    <3> QED BY <1>2, <3>1 DEF Kept, Offer, WithinEscrow
  <2>2. CASE ~ f.amountFilled > 0
    <3>1. n = NoOffer("cancelled")
      BY <2>2
    <3> QED BY <3>1 DEF NoOffer, Kept, Offer, WithinEscrow
  <2> QED BY <2>1, <2>2
<1> HIDE DEF n
<1>6. HoldsRemainder(W, n, o)
  BY <1>4, <1>5 DEF HoldsRemainder, OfferLien
<1>7. BookInv(W, [offers EXCEPT ![o] = n], loans)
  BY <1>4, <1>5, <1>6, OneOffer DEF Inv, Leads
<1> QED BY <1>1, <1>7 DEF Inv

LEMMA AcceptOfferInv ==
    ASSUME Inv, NEW u \in Users, NEW o \in Offers, NEW l \in Loans, AcceptOffer(u, o, l)
    PROVE  Inv'
<1> DEFINE f == offers[o]
           W == AcceptedVaults(vaults, o, f, u, l)
           n == NewLoan(f, EffectivePrincipal(f), f.collateral)
<1>1. /\ f.status = "open" /\ Ok(W) /\ vaults' = W /\ loans' = [loans EXCEPT ![l] = n]
      /\ offers' = [offers EXCEPT ![o].status = "accepted"]
  BY DEF AcceptOffer, Commit
<1>2. offers' = [offers EXCEPT ![o] = [f EXCEPT !.status = "accepted"]]
  BY <1>1
<1>3. BookInv(W, [offers EXCEPT ![o] = [f EXCEPT !.status = "accepted"]], [loans EXCEPT ![l] = n])
  BY <1>1, AcceptedInv DEF Inv
<1> QED BY <1>1, <1>2, <1>3 DEF Inv

LEMMA AcceptSignedOfferInv ==
    ASSUME Inv, NEW s \in Users, NEW u \in Users, NEW type \in {"Lender", "Borrower"},
           NEW p \in Pairs, NEW t \in Terms, NEW o \in Offers, NEW l \in Loans,
           AcceptSignedOffer(s, u, type, p, t, o, l)
    PROVE  Inv'
<1> DEFINE f == NewOffer(type, s, p, t)
           M == MaterializedVaults(vaults, o, f)
           W == AcceptedVaults(M, o, f, u, l)
           g == [f EXCEPT !.status = "accepted"]
           n == NewLoan(f, EffectivePrincipal(f), f.collateral)
           of == [offers EXCEPT ![o] = f]
<1>1. /\ p \in Assets \X Assets
      /\ t \in [amount : Nat, amountMax : Nat, collateral : Nat, collateralMax : Nat]
      /\ WellFormed(type, t)
  BY DEF OfferBookAssumption, AcceptSignedOffer
<1>2. Kept(f) /\ f.status = "open" /\ Unfilled(f) = Escrowed(f)
  BY <1>1, NewOfferKept
<1>3. /\ Ok(W) /\ vaults' = W /\ offers' = [offers EXCEPT ![o] = g]
      /\ loans' = [loans EXCEPT ![l] = n]
  BY DEF AcceptSignedOffer, Commit
<1> HIDE DEF f
<1>4. BookInv(M, of, loans) /\ Leads(vaults, M)
  BY <1>2, MaterializedInv DEF Inv
<1> HIDE DEF M
<1>5. of[o] = f
  BY DEF Inv, BookInv
<1>6. [of EXCEPT ![o] = g] = [offers EXCEPT ![o] = g]
  BY DEF Inv, BookInv
<1> HIDE DEF of
<1>7. BookInv(W, [of EXCEPT ![o] = g], [loans EXCEPT ![l] = n])
  BY <1>2, <1>4, <1>5, AcceptedInv
<1> QED BY <1>3, <1>6, <1>7 DEF Inv

(* executeMatch, from a book that may hold an offer made for the match.    *)
LEMMA ExecuteMatchInv ==
    ASSUME NEW V, NEW of, BookInv(V, of, loans), NEW lo \in Offers, NEW bo \in Offers,
           NEW f, NEW g, f = of[lo], g = of[bo], NEW c \in Nat, NEW l \in Loans,
           \A h, k : [of EXCEPT ![lo] = h, ![bo] = k] = [offers EXCEPT ![lo] = h, ![bo] = k],
           ExecuteMatch(V, lo, bo, f, g, c, l)
    PROVE  Inv'
<1> DEFINE m == MatchAmount(f, g)
           x == ReqCollateral(f, g, c)
           W == MatchedVaults(V, lo, bo, f, g, m, x, l)
<1>1. /\ Matchable(f, g, c) /\ Ok(W) /\ vaults' = W
      /\ offers' = [offers EXCEPT ![lo] = FilledLender(f, m), ![bo] = FilledBorrower(g, m, x)]
      /\ loans' = [loans EXCEPT ![l] = NewLoan(g, m, x)]
  BY DEF ExecuteMatch, Commit
<1>2. BookInv(W, [of EXCEPT ![lo] = FilledLender(f, m), ![bo] = FilledBorrower(g, m, x)],
              [loans EXCEPT ![l] = NewLoan(g, m, x)])
  BY <1>1, MatchInv
<1> HIDE DEF m, x, W
<1>3. offers' = [of EXCEPT ![lo] = FilledLender(f, m), ![bo] = FilledBorrower(g, m, x)]
  BY <1>1
<1> QED BY <1>1, <1>2, <1>3 DEF Inv

LEMMA MatchOffersInv ==
    ASSUME Inv, NEW lo \in Offers, NEW bo \in Offers, NEW l \in Loans, MatchOffers(lo, bo, l)
    PROVE  Inv'
<1>1. ExecuteMatch(vaults, lo, bo, offers[lo], offers[bo], 0, l)
  BY DEF MatchOffers
<1> QED BY <1>1, ExecuteMatchInv DEF Inv

(* A slice is an offer like any other.                                     *)
LEMMA SliceKept ==
    ASSUME NEW type \in {"Lender", "Borrower"}, NEW u \in Users, NEW a \in Assets, NEW b \in Assets,
           NEW m \in Amounts, NEW x \in Amounts
    PROVE  LET f == Slice(type, u, <<a, b>>, m, x)
           IN  Kept(f) /\ f.status = "open" /\ Unfilled(f) = Escrowed(f)
<1> DEFINE t == [amount |-> m, amountMax |-> m, collateral |-> x, collateralMax |-> x]
           p == <<a, b>>
<1>1. m \in Nat /\ x \in Nat /\ m > 0 /\ x > 0
  BY DEF Amounts, OfferBookAssumption
<1>2. /\ t \in [amount : Nat, amountMax : Nat, collateral : Nat, collateralMax : Nat]
      /\ WellFormed(type, t) /\ p \in Assets \X Assets
  BY <1>1 DEF WellFormed
<1>3. Slice(type, u, p, m, x) = NewOffer(type, u, p, t)
  BY DEF Slice
<1> HIDE DEF t, p
<1>4. LET f == NewOffer(type, u, p, t)
      IN  Kept(f) /\ f.status = "open" /\ Unfilled(f) = Escrowed(f)
  BY <1>2, NewOfferKept
<1> QED BY <1>3, <1>4 DEF p

LEMMA MatchSignedOfferInv ==
    ASSUME Inv, NEW s \in Users, NEW type \in {"Lender", "Borrower"}, NEW o \in Offers,
           NEW other \in Offers, NEW m \in Amounts, NEW x \in Amounts, NEW l \in Loans,
           MatchSignedOffer(s, type, o, other, m, x, l)
    PROVE  Inv'
<1> DEFINE g == offers[other]
           f == Slice(type, s, <<g.lend, g.coll>>, m, x)
           M == MaterializedVaults(vaults, o, f)
           of == [offers EXCEPT ![o] = f]
<1>1. /\ offers[o].status = "none" /\ g.status = "open"
      /\ IF type = "Lender" THEN ExecuteMatch(M, o, other, f, g, 0, l)
                            ELSE ExecuteMatch(M, other, o, g, f, x, l)
  BY DEF MatchSignedOffer, NextOffer
<1>2. g.lend \in Assets /\ g.coll \in Assets
  BY <1>1 DEF Inv, BookInv, Kept
<1>3. Kept(f) /\ f.status = "open" /\ Unfilled(f) = Escrowed(f)
  BY <1>2, SliceKept
<1> HIDE DEF f
<1>4. BookInv(M, of, loans)
  BY <1>3, MaterializedInv DEF Inv
<1>5. of[o] = f /\ of[other] = g
  BY <1>1 DEF Inv, BookInv
<1>6. \A h, k : /\ [of EXCEPT ![o] = h, ![other] = k] = [offers EXCEPT ![o] = h, ![other] = k]
                /\ [of EXCEPT ![other] = h, ![o] = k] = [offers EXCEPT ![other] = h, ![o] = k]
  BY DEF Inv, BookInv
<1>7. x \in Nat
  BY DEF Amounts
<1> HIDE DEF g, M, of
<1>8. CASE type = "Lender"
  BY <1>1, <1>4, <1>5, <1>6, <1>8, ExecuteMatchInv
<1>9. CASE type # "Lender"
  BY <1>1, <1>4, <1>5, <1>6, <1>7, <1>9, ExecuteMatchInv
<1> QED BY <1>8, <1>9

(* A step that touches neither an offer nor a loan.                        *)
LEMMA Untouched ==
    ASSUME NEW V, NEW of, NEW ln, BookInv(V, of, ln), NEW W, Sane(W), SameLoans(V, W), SameOffers(V, W)
    PROVE  BookInv(W, of, ln)
<1>1. of \in [Offers -> Offer] /\ ln \in [Loans -> Loan]
  BY DEF BookInv
<1>2. \A j \in Offers : OfferLien(W, j) = OfferLien(V, j)
  BY DEF SameOffers, OfferLien
<1>3. \A l \in Loans : /\ LoanLien(W, l) = LoanLien(V, l)
                       /\ W.ledger.borrower[l] = V.ledger.borrower[l]
  BY DEF SameLoans, SameParties, LoanLien
<1> QED BY <1>1, <1>2, <1>3, BookStep DEF SameLoans

LEMMA UnlienIntentEffect ==
    ASSUME NEW V, Sane(V), NEW i \in Intents, NEW x \in Nat
    PROVE  LET W == On(V, UnlienIntentCapital(V.ledger, i, x))
           IN  Leads(V, W) /\ SameLoans(V, W) /\ SameOffers(V, W)
<1> DEFINE L == UnlienIntentCapital(V.ledger, i, x)
<1>1. /\ Grows(V.ledger, L)
      /\ L.loanCollateralLien = V.ledger.loanCollateralLien
      /\ L.offerPrincipalLien = V.ledger.offerPrincipalLien
      /\ L.reserved = V.ledger.reserved
  BY UnlienIntentCapitalSound DEF Sane
<1> HIDE DEF L
<1>2. Sane(On(V, L)) /\ On(V, L).ledger = L
  BY <1>1, OnSane DEF Grows
<1>3. Leads(V, On(V, L)) /\ SameLoans(V, On(V, L)) /\ SameOffers(V, On(V, L))
  BY <1>1, <1>2 DEF Leads, SameLoans, SameOffers, Grows, Ok, SameParties
<1> QED BY <1>3 DEF L

LEMMA MatchIntentInv ==
    ASSUME Inv, NEW i \in Intents, NEW o \in Offers, NEW bo \in Offers,
           NEW m \in Amounts, NEW x \in Amounts, NEW l \in Loans,
           MatchIntent(i, o, bo, m, x, l)
    PROVE  Inv'
<1> DEFINE f == Slice("Lender", IntentOwner[i], <<IntentLend[i], IntentColl[i]>>, m, x)
           V == On(vaults, UnlienIntentCapital(vaults.ledger, i, m))
           g == offers[bo]
           M == MaterializedVaults(V, o, f)
           of == [offers EXCEPT ![o] = f]
<1>1. /\ offers[o].status = "none" /\ g.status = "open"
      /\ ExecuteMatch(M, o, bo, f, g, 0, l)
  BY DEF MatchIntent, NextOffer
<1>2. IntentOwner[i] \in Users /\ IntentLend[i] \in Assets /\ IntentColl[i] \in Assets
  BY EncumbranceAssumption, OfferBookAssumption DEF Intents
<1>3. Kept(f) /\ f.status = "open" /\ Unfilled(f) = Escrowed(f)
  BY <1>2, SliceKept
<1> HIDE DEF f
<1>4. m \in Nat
  BY DEF Amounts
<1>5. Leads(vaults, V) /\ SameLoans(vaults, V) /\ SameOffers(vaults, V)
  BY <1>4, UnlienIntentEffect DEF Inv, BookInv
<1> HIDE DEF V
<1>6. BookInv(V, offers, loans)
  BY <1>5, Untouched DEF Inv, Leads
<1>7. BookInv(M, of, loans)
  BY <1>3, <1>6, MaterializedInv
<1>8. of[o] = f /\ of[bo] = g
  BY <1>1 DEF Inv, BookInv
<1>9. \A h, k : [of EXCEPT ![o] = h, ![bo] = k] = [offers EXCEPT ![o] = h, ![bo] = k]
  BY DEF Inv, BookInv
<1> HIDE DEF g, M, of
<1> QED BY <1>1, <1>7, <1>8, <1>9, ExecuteMatchInv

LEMMA FundLenderIntentInv ==
    ASSUME Inv, NEW i \in Intents, NEW x \in Amounts, FundLenderIntent(i, x)
    PROVE  Inv'
<1> DEFINE V == VaultDepositERC20From(vaults, IntentOwner[i], IntentOwner[i], IntentLend[i], x)
           L == LienIntentCapital(V.ledger, i, x)
           W == On(V, L)
<1>1. Ok(W) /\ vaults' = W /\ offers' = offers /\ loans' = loans
  BY DEF FundLenderIntent, Commit, VaultDepositERC20
<1>2. IntentOwner[i] \in Users /\ IntentLend[i] \in Assets /\ x \in Nat /\ x \in Int
  BY EncumbranceAssumption DEF Intents, Amounts
<1>3. Follows(vaults, V)
  BY <1>2, VaultDepositFollows DEF Inv, BookInv
<1> HIDE DEF V
<1>4. Leads(vaults, V) /\ SameLoans(vaults, V) /\ SameOffers(vaults, V)
  BY <1>3, FollowsLeads
<1>5. /\ Grows(V.ledger, L)
      /\ L.loanCollateralLien = V.ledger.loanCollateralLien
      /\ L.offerPrincipalLien = V.ledger.offerPrincipalLien
      /\ L.reserved = V.ledger.reserved
  BY <1>2, <1>4, LienIntentCapitalSound DEF Leads, Sane
<1> HIDE DEF L
<1>6. Sane(W) /\ W.ledger = L
  BY <1>4, <1>5, OnSane DEF Grows, Leads
<1> HIDE DEF W
<1>7. SameLoans(vaults, W) /\ SameOffers(vaults, W)
  BY <1>4, <1>5, <1>6 DEF SameLoans, SameOffers, Grows, SameParties
<1>8. BookInv(W, offers, loans)
  BY <1>6, <1>7, Untouched DEF Inv
<1> QED BY <1>1, <1>8 DEF Inv

LEMMA WithdrawLenderIntentCapitalInv ==
    ASSUME Inv, NEW i \in Intents, NEW x \in Amounts, WithdrawLenderIntentCapital(i, x)
    PROVE  Inv'
<1> DEFINE u == IntentOwner[i]
           V == On(vaults, UnlienIntentCapital(vaults.ledger, i, x))
           W == VaultWithdrawERC20(V, u, IntentLend[i], u, x)
<1>1. Ok(W) /\ vaults' = W /\ offers' = offers /\ loans' = loans
  BY DEF WithdrawLenderIntentCapital, IntentWithdrawnVaults, Commit
<1>2. u \in Users /\ IntentLend[i] \in Assets /\ x \in Nat /\ x \in Int
  BY EncumbranceAssumption DEF Intents, Amounts
<1> HIDE DEF u
<1>3. Leads(vaults, V) /\ SameLoans(vaults, V) /\ SameOffers(vaults, V)
  BY <1>2, UnlienIntentEffect DEF Inv, BookInv
<1> HIDE DEF V
<1>4. Follows(V, W)
  BY <1>2, <1>3, VaultWithdrawFollows DEF Leads
<1> HIDE DEF W
<1>5. Leads(V, W) /\ SameLoans(V, W) /\ SameOffers(V, W)
  BY <1>4, FollowsLeads
<1>6. BookInv(W, offers, loans)
  BY <1>3, <1>5, Untouched DEF Inv, Leads
<1> QED BY <1>1, <1>6 DEF Inv

(* A loan the reserve of which is touched was opened.                      *)
LEMMA OpenedLoan ==
    ASSUME NEW V, NEW of, NEW ln, BookInv(V, of, ln), NEW l \in Loans, ln[l].status # "None"
    PROVE  V.ledger.borrower[l] \in Users /\ ln[l].lend \in Assets
<1>1. ln[l].status = "Active"
  BY DEF BookInv, Loan
<1> QED BY <1>1 DEF BookInv, Opened

LEMMA ExtendReserveEffect ==
    ASSUME NEW V, Sane(V), NEW l \in Loans, NEW u \in Users, NEW a \in Assets, NEW x \in Nat,
           NEW L \in {LienExtendReserve(V.ledger, l, u, a, x), UnlienExtendReserve(V.ledger, l, u, a, x)}
    PROVE  Leads(V, On(V, L)) /\ SameLoans(V, On(V, L)) /\ SameOffers(V, On(V, L))
<1>1. Grows(V.ledger, L) /\ SameButAside(V.ledger, L)
  BY ExtendReserveSound DEF Sane
<1>2. Sane(On(V, L)) /\ On(V, L).ledger = L
  BY <1>1, OnSane DEF Grows
<1> QED BY <1>1, <1>2 DEF Leads, SameLoans, SameOffers, SameButAside, Grows, Ok

LEMMA FundExtendReserveInv ==
    ASSUME Inv, NEW l \in Loans, NEW x \in Amounts, FundExtendReserve(l, x)
    PROVE  Inv'
<1> DEFINE u == vaults.ledger.borrower[l]
           a == loans[l].lend
           V == VaultDepositERC20From(vaults, u, u, a, x)
           L == LienExtendReserve(V.ledger, l, u, a, x)
           W == On(V, L)
<1>1. /\ loans[l].status # "None"
      /\ Ok(W) /\ vaults' = W /\ offers' = offers /\ loans' = loans
  BY DEF FundExtendReserve, Commit, VaultDepositERC20
<1>2. u \in Users /\ a \in Assets /\ x \in Nat /\ x \in Int
  BY <1>1, OpenedLoan DEF Inv, Amounts
<1> HIDE DEF u, a
<1>3. Follows(vaults, V)
  BY <1>2, VaultDepositFollows DEF Inv, BookInv
<1> HIDE DEF V
<1>4. Leads(vaults, V) /\ SameLoans(vaults, V) /\ SameOffers(vaults, V)
  BY <1>3, FollowsLeads
<1>5. Leads(V, W) /\ SameLoans(V, W) /\ SameOffers(V, W)
  BY <1>2, <1>4, ExtendReserveEffect DEF Leads
<1> HIDE DEF W
<1>6. BookInv(W, offers, loans)
  BY <1>4, <1>5, Untouched DEF Inv, Leads
<1> QED BY <1>1, <1>6 DEF Inv

LEMMA WithdrawExtendReserveInv ==
    ASSUME Inv, NEW u \in Users, NEW l \in Loans, NEW x \in Amounts, WithdrawExtendReserve(u, l, x)
    PROVE  Inv'
<1> DEFINE a == loans[l].lend
           V == On(vaults, UnlienExtendReserve(vaults.ledger, l, u, a, x))
           W == VaultWithdrawERC20(V, u, a, u, x)
<1>1. /\ loans[l].status # "None"
      /\ Ok(W) /\ vaults' = W /\ offers' = offers /\ loans' = loans
  BY DEF WithdrawExtendReserve, ReserveWithdrawnVaults, Commit
<1>2. a \in Assets /\ x \in Nat /\ x \in Int
  BY <1>1, OpenedLoan DEF Inv, Amounts
<1> HIDE DEF a
<1>3. Leads(vaults, V) /\ SameLoans(vaults, V) /\ SameOffers(vaults, V)
  BY <1>2, ExtendReserveEffect DEF Inv, BookInv
<1> HIDE DEF V
<1>4. Follows(V, W)
  BY <1>2, <1>3, VaultWithdrawFollows DEF Leads
<1> HIDE DEF W
<1>5. Leads(V, W) /\ SameLoans(V, W) /\ SameOffers(V, W)
  BY <1>4, FollowsLeads
<1>6. BookInv(W, offers, loans)
  BY <1>3, <1>5, Untouched DEF Inv, Leads
<1> QED BY <1>1, <1>6 DEF Inv

LEMMA DepositoryInv ==
    ASSUME Inv, NEW u \in Users, NEW a \in Assets, NEW x \in Amounts,
           Deposit(u, a, x) \/ Withdraw(u, a, x)
    PROVE  Inv'
<1>1. x \in Nat
  BY DEF Amounts
<1>2. PICK W : Follows(vaults, W) /\ Ok(W) /\ vaults' = W /\ offers' = offers /\ loans' = loans
  <2>1. Sane(vaults)
    BY DEF Inv, BookInv
  <2>2. CASE Deposit(u, a, x)
    BY <1>1, <2>1, <2>2, DepositToVaultFollows DEF Deposit, Commit
  <2>3. CASE Withdraw(u, a, x)
    BY <1>1, <2>1, <2>3, WithdrawFromVaultFollows DEF Withdraw, Commit
  <2> QED BY <2>2, <2>3
<1>3. Leads(vaults, W) /\ SameLoans(vaults, W) /\ SameOffers(vaults, W)
  BY <1>2, FollowsLeads
<1>4. BookInv(W, offers, loans)
  BY <1>3, Untouched DEF Inv, Leads
<1> QED BY <1>2, <1>4 DEF Inv

-----------------------------------------------------------------------------
LEMMA NextInv ==
    ASSUME Inv, [Next]_vars
    PROVE  Inv'
<1>1. CASE UNCHANGED vars
  BY <1>1 DEF vars, Inv
<1>2. ASSUME NEW u \in Users, NEW a \in Assets, NEW x \in Amounts, Deposit(u, a, x) \/ Withdraw(u, a, x)
      PROVE  Inv'
  BY <1>2, DepositoryInv
<1>3. ASSUME NEW u \in Users, NEW type \in {"Lender", "Borrower"}, NEW p \in Pairs, NEW t \in Terms,
             NEW o \in Offers, CreateOffer(u, type, p, t, o)
      PROVE  Inv'
  BY <1>3, CreateOfferInv
<1>4. ASSUME NEW o \in Offers, NEW t \in Terms, ModifyOffer(o, t)
      PROVE  Inv'
  BY <1>4, ModifyOfferInv
<1>5. ASSUME NEW o \in Offers, CancelOffer(o)
      PROVE  Inv'
  BY <1>5, CancelOfferInv
<1>6. ASSUME NEW u \in Users, NEW o \in Offers, NEW l \in Loans, AcceptOffer(u, o, l)
      PROVE  Inv'
  BY <1>6, AcceptOfferInv
<1>7. ASSUME NEW s \in Users, NEW u \in Users, NEW type \in {"Lender", "Borrower"}, NEW p \in Pairs,
             NEW t \in Terms, NEW o \in Offers, NEW l \in Loans,
             AcceptSignedOffer(s, u, type, p, t, o, l)
      PROVE  Inv'
  BY <1>7, AcceptSignedOfferInv
<1>8. ASSUME NEW lo \in Offers, NEW bo \in Offers, NEW l \in Loans, MatchOffers(lo, bo, l)
      PROVE  Inv'
  BY <1>8, MatchOffersInv
<1>9. ASSUME NEW s \in Users, NEW type \in {"Lender", "Borrower"}, NEW o \in Offers,
             NEW other \in Offers, NEW m \in Amounts, NEW x \in Amounts, NEW l \in Loans,
             MatchSignedOffer(s, type, o, other, m, x, l)
      PROVE  Inv'
  BY <1>9, MatchSignedOfferInv
<1>10. ASSUME NEW i \in Intents, NEW x \in Amounts,
              FundLenderIntent(i, x) \/ WithdrawLenderIntentCapital(i, x)
       PROVE  Inv'
  BY <1>10, FundLenderIntentInv, WithdrawLenderIntentCapitalInv
<1>11. ASSUME NEW i \in Intents, NEW o \in Offers, NEW bo \in Offers, NEW m \in Amounts,
              NEW x \in Amounts, NEW l \in Loans, MatchIntent(i, o, bo, m, x, l)
       PROVE  Inv'
  BY <1>11, MatchIntentInv
<1>12. ASSUME NEW l \in Loans, NEW x \in Amounts, FundExtendReserve(l, x)
       PROVE  Inv'
  BY <1>12, FundExtendReserveInv
<1>13. ASSUME NEW u \in Users, NEW l \in Loans, NEW x \in Amounts, WithdrawExtendReserve(u, l, x)
       PROVE  Inv'
  BY <1>13, WithdrawExtendReserveInv
<1> QED BY <1>1, <1>2, <1>3, <1>4, <1>5, <1>6, <1>7, <1>8, <1>9, <1>10, <1>11, <1>12, <1>13 DEF Next

(* Whatever happens to the book, the inductive invariant holds.            *)
THEOREM BookInvariant == Spec => []Inv
<1>1. Init => Inv
  BY InitInv
<1>2. Inv /\ [Next]_vars => Inv'
  BY NextInv
<1> QED BY <1>1, <1>2, PTL DEF Spec

(* The state of the book is well typed: in particular no amount an offer,  *)
(* a lien or a loan records is ever negative.                              *)
THEOREM TypeCorrect == Spec => []TypeOK
<1>1. Inv => TypeOK
  BY DEF Inv, BookInv, TypeOK, Sane
<1> QED BY <1>1, BookInvariant, PTL

(* The aggregate the withdraw guard trusts is at all times the sum of the  *)
(* escrows and liens that are open, which no code adds up.                 *)
THEOREM LedgerStaysBalanced == Spec => []LedgerBalanced
<1>1. Inv => LedgerBalanced
  BY DEF Inv, BookInv, Sane, Sound, Ok, LedgerBalanced
<1> QED BY <1>1, BookInvariant, PTL

(* An open offer's lien is what its fills have not taken of the escrow,    *)
(* through every fill, modification and cancellation.                      *)
THEOREM LienStaysRemainder == Spec => []LienIsRemainder
<1>1. Inv => LienIsRemainder
  BY DEF Inv, BookInv, LienIsRemainder
<1> QED BY <1>1, BookInvariant, PTL

(* The fills of an offer never take more of its escrow than was put in,    *)
(* although a borrower's offer without a range of collateral is never      *)
(* charged its earlier fills when it is matched.                           *)
THEOREM FillsStayWithinEscrow == Spec => []FillsWithinEscrow
<1>1. Inv => FillsWithinEscrow
  BY DEF Inv, BookInv, Kept, FillsWithinEscrow
<1> QED BY <1>1, BookInvariant, PTL

(* A loan of the book holds its collateral in full under its own lien, on  *)
(* the vault of its borrower, whichever of the routes opened it.           *)
THEOREM LoansStaySecured == Spec => []LoanSecured
<1>1. Inv => LoanSecured
  BY DEF Inv, BookInv, LoanSecured
<1> QED BY <1>1, BookInvariant, PTL

-----------------------------------------------------------------------------
(* The money of the vaults.  Each handler moves escrow between the ledger, *)
(* the vault and its owner in several calls; between them a vault may be   *)
(* short, and only the whole handler leaves every slack where it was.      *)

(* The lien of an open offer, as the handlers that lift it need it.        *)
Backs(V, o, f) ==
    /\ OfferLien(V, o).live
    /\ OfferLien(V, o).user = f.creator /\ OfferLien(V, o).asset = EscrowAsset(f)
    /\ OfferLien(V, o).amount = Unfilled(f)

LEMMA OpenBacked ==
    ASSUME NEW V, NEW o, NEW f, HoldsRemainder(V, f, o), f.status = "open"
    PROVE  Backs(V, o, f)
BY DEF HoldsRemainder, Backs, OfferLien

LEMMA SaneLedger ==
    ASSUME NEW V, Sane(V)
    PROVE  V \in Vaults /\ V.ledger \in Ledger /\ Sound(V.ledger)
BY DEF Sane, Vaults

LEMMA LienOfferGains ==
    ASSUME NEW V, Sane(V), NEW o \in Offers, NEW f,
           f.creator \in Users, EscrowAsset(f) \in Assets, Escrowed(f) \in Nat
    PROVE  Gains(V, LienOffer(V, o, f), f.creator, EscrowAsset(f), - Escrowed(f))
<1> DEFINE u == f.creator
           a == EscrowAsset(f)
           x == Escrowed(f)
           L == CreateOfferPrincipalLien(V.ledger, o, u, a, x)
<1>1. LienOffer(V, o, f) = On(V, L)
  BY DEF LienOffer
<1>2. u \in Users /\ a \in Assets /\ x \in Nat /\ x \in Int
  OBVIOUS
<1> HIDE DEF u, a, x
<1>3. V \in Vaults /\ V.ledger \in Ledger /\ Sound(V.ledger)
  BY SaneLedger
<1>4. Adds(V.ledger, L, u, a, x)
  BY <1>2, <1>3, CreateOfferPrincipalLienAdds
<1>5. L \in Ledger
  BY <1>2, <1>3, CreateOfferPrincipalLienSound DEF Grows, Sound
<1> HIDE DEF L
<1>6. Gains(V, On(V, L), u, a, -x)
  BY <1>2, <1>3, <1>4, <1>5, OnLoses
<1> QED BY <1>1, <1>6 DEF u, a, x

LEMMA ReleaseGains ==
    ASSUME NEW V, Sane(V), NEW o \in Offers, NEW f, Backs(V, o, f), Unfilled(f) \in Nat
    PROVE  Gains(V, On(V, ReleaseOfferPrincipalLien(V.ledger, o)), f.creator, EscrowAsset(f),
                 Unfilled(f))
<1> DEFINE L == ReleaseOfferPrincipalLien(V.ledger, o)
           x == Unfilled(f)
<1>1. V \in Vaults /\ V.ledger \in Ledger /\ Sound(V.ledger) /\ x \in Int
  BY SaneLedger
<1>2. Adds(V.ledger, L, f.creator, EscrowAsset(f), -x)
  BY <1>1, ReleaseOfferPrincipalLienAdds DEF Backs, OfferLien
<1>3. L \in Ledger
  BY <1>1, ReleaseOfferPrincipalLienSound DEF Grows, Sound
<1> HIDE DEF L, x
<1>4. Gains(V, On(V, L), f.creator, EscrowAsset(f), x)
  BY <1>1, <1>2, <1>3, OnGains
<1> QED BY <1>4 DEF L, x

LEMMA DrawGains ==
    ASSUME NEW V, Sane(V), NEW o \in Offers, NEW x \in Nat, OfferLien(V, o).live
    PROVE  Gains(V, On(V, DecrementOfferPrincipalLien(V.ledger, o, x)), OfferLien(V, o).user,
                 OfferLien(V, o).asset, x)
<1> DEFINE L == DecrementOfferPrincipalLien(V.ledger, o, x)
<1>1. V \in Vaults /\ V.ledger \in Ledger /\ Sound(V.ledger) /\ x \in Int
  BY SaneLedger
<1>2. Adds(V.ledger, L, OfferLien(V, o).user, OfferLien(V, o).asset, -x)
  BY <1>1, DecrementOfferPrincipalLienAdds DEF OfferLien
<1>3. L \in Ledger
  BY <1>1, DecrementOfferPrincipalLienSound DEF Grows, Sound
<1> HIDE DEF L
<1>4. Gains(V, On(V, L), OfferLien(V, o).user, OfferLien(V, o).asset, x)
  BY <1>1, <1>2, <1>3, OnGains
<1> QED BY <1>4 DEF L

LEMMA CancelledVaultsLevel ==
    ASSUME NEW V, Sane(V), NEW o \in Offers, NEW f, Backs(V, o, f), Unfilled(f) \in Nat,
           f.creator \in Users, EscrowAsset(f) \in Assets
    PROVE  Level(V, CancelledVaults(V, o, f))
<1> DEFINE L == ReleaseOfferPrincipalLien(V.ledger, o)
           R == On(V, L)
           x == Unfilled(f)
           W == Refund(R, f.creator, EscrowAsset(f), x)
<1>1. CancelledVaults(V, o, f) = W
  BY DEF CancelledVaults
<1>2. Gains(V, R, f.creator, EscrowAsset(f), x)
  BY ReleaseGains
<1>3. V \in Vaults /\ V.ledger \in Ledger /\ Sound(V.ledger)
  BY SaneLedger
<1>4. Sound(L)
  BY <1>3, ReleaseOfferPrincipalLienSound DEF Grows
<1> HIDE DEF L
<1>5. Sane(R)
  BY <1>4, OnSane
<1>6. x \in Nat /\ x \in Int /\ -x \in Int /\ x + (-x) = 0
  OBVIOUS
<1> HIDE DEF R, x
<1>7. Gains(R, W, f.creator, EscrowAsset(f), -x)
  BY <1>5, <1>6, RefundGains
<1> HIDE DEF W
<1>8. Level(V, W)
  BY <1>2, <1>3, <1>6, <1>7, GainsBack
<1> QED BY <1>1, <1>8

(* The one handler that is not level: a creator whose depository record    *)
(* covers the escrow gives it up, the others only what is free.            *)
LEMMA MaterializedVaultsAfloat ==
    ASSUME NEW V, Sane(V), Afloat(V), NEW o \in Offers, NEW f,
           f.creator \in Users, EscrowAsset(f) \in Assets, Escrowed(f) \in Nat,
           Ok(MaterializedVaults(V, o, f))
    PROVE  Afloat(MaterializedVaults(V, o, f))
<1> DEFINE u == f.creator
           a == EscrowAsset(f)
           x == Escrowed(f)
           p == Free(V, u, a) >= x
           V1 == Guarded(V, p)
           V2 == Spend(V1, u, a, x)
           W == LienOffer(V2, o, f)
           d == V.depository[<<u, a>>]
           y == d - Excess(d, x)
<1>1. MaterializedVaults(V, o, f) = W
  BY DEF MaterializedVaults
<1>2. u \in Users /\ a \in Assets /\ x \in Nat /\ p \in BOOLEAN /\ <<u, a>> \in Keys
  BY DEF Keys
<1>3. V \in Vaults /\ d \in Nat
  BY <1>2 DEF Sane, Vaults
<1>4. V1.depository = V.depository
  BY <1>3 DEF Guarded, On, Vaults
<1>5. p => x <= V.tracked[<<u, a>>] - V.ledger.encumbered[<<u, a>>]
             \/ x = 0
  <2>1. V.tracked[<<u, a>>] \in Int /\ V.ledger.encumbered[<<u, a>>] \in Int
    BY <1>2, <1>3, SlackIsInt
  <2> QED BY <1>2, <2>1 DEF Free, FreeBalance, Excess
<1> HIDE DEF p
<1>6. Follows(V, V1) /\ Level(V, V1) /\ (Ok(V1) => p)
  BY <1>2, <1>3, GuardedFollows, GuardedLevel
<1> HIDE DEF V1
<1>7. Follows(V1, V2) /\ Gains(V1, V2, u, a, y)
  <2>1. Sane(V1) /\ V1 \in Vaults
    BY <1>6 DEF Follows, Sane
  <2>2. Follows(V1, V2)
    BY <1>2, <2>1, DepositoryFollows
  <2>3. Gains(V1, V2, u, a, V1.depository[<<u, a>>] - Excess(V1.depository[<<u, a>>], x))
    BY <1>2, <2>1, SpendGains
  <2> QED BY <1>4, <2>2, <2>3
<1> HIDE DEF V2
<1>8. Leads(V2, W) /\ Gains(V2, W, u, a, -x)
  BY <1>7, LienOfferEffect, LienOfferGains DEF Follows
<1>9. p
  BY <1>1, <1>6, <1>7, <1>8 DEF Follows, Leads
<1>10. y \in Int /\ -x \in Int /\ y + (-x) \in Int
  BY <1>2, <1>3 DEF Excess
<1> HIDE DEF W, y, u, a, x
<1>11. Gains(V, W, u, a, y + (-x))
  BY <1>3, <1>6, <1>7, <1>8, <1>10, LevelThenGains, GainsTwice
<1>12. \A k \in Keys : Slack(V, k) \in Int /\ Slack(V, k) >= 0
  BY <1>3, SlackIsInt DEF Afloat
<1>13. Slack(V, <<u, a>>) + (y + (-x)) >= 0
  <2>1. /\ V.tracked[<<u, a>>] \in Int /\ V.ledger.encumbered[<<u, a>>] \in Int
        /\ Slack(V, <<u, a>>) = V.tracked[<<u, a>>] - V.ledger.encumbered[<<u, a>>] - d
        /\ Slack(V, <<u, a>>) >= 0 /\ Slack(V, <<u, a>>) \in Int
    BY <1>2, <1>3, <1>12, SlackIsInt DEF Slack
  <2>2. CASE x <= d
    <3>1. y = x
      BY <1>2, <1>3, <2>2 DEF y, Excess
    <3> QED BY <1>2, <2>1, <3>1
  <2>3. CASE ~ (x <= d)
    <3>1. y = d /\ x # 0
      BY <1>2, <1>3, <2>3 DEF y, Excess
    <3>2. x <= V.tracked[<<u, a>>] - V.ledger.encumbered[<<u, a>>]
      BY <1>5, <1>9, <3>1
    <3> HIDE DEF d
    <3> QED BY <1>2, <1>3, <2>1, <3>1, <3>2
  <2> QED BY <2>2, <2>3
<1>14. Afloat(W)
  <2>1. ASSUME NEW k \in Keys PROVE Slack(W, k) >= 0
    <3>1. Slack(W, k) = Slack(V, k) + At(k, u, a, y + (-x))
      BY <1>11 DEF Gains
    <3> QED BY <1>10, <1>12, <1>13, <3>1 DEF At
  <2> QED BY <1>11, <2>1 DEF Afloat, Gains
<1> QED BY <1>1, <1>14

LEMMA SettleEscrowLevel ==
    ASSUME NEW V, Sane(V), NEW o \in Offers, NEW f, NEW g, Kept(f), f.status = "open",
           Escrowed(g) \in Nat, Backs(V, o, f), Ok(SettleEscrow(V, o, f, g))
    PROVE  Level(V, SettleEscrow(V, o, f, g))
<1> DEFINE u == f.creator
           a == EscrowAsset(f)
           less == Escrowed(f) - Escrowed(g)
           more == Escrowed(g) - Escrowed(f)
           W == SettleEscrow(V, o, f, g)
<1>0. u \in Users /\ a \in Assets /\ Escrowed(f) \in Nat /\ less \in Int /\ more \in Int
  BY OpenOffer
<1>1. V \in Vaults /\ V.ledger \in Ledger /\ Sound(V.ledger)
  BY SaneLedger
<1>2. OfferLien(V, o).live /\ OfferLien(V, o).user = u /\ OfferLien(V, o).asset = a
  BY DEF Backs
<1>3. CASE less > 0
  <2> DEFINE L == DecrementOfferPrincipalLien(V.ledger, o, less)
             R == On(V, L)
             X == Refund(R, u, a, less)
  <2>1. W = X
    <3>1. Escrowed(f) - Escrowed(g) > 0 /\ ~ (Escrowed(g) - Escrowed(f) > 0)
      BY <1>0, <1>3
    <3>2. SettleEscrow(V, o, f, g) =
            Refund(On(V, DecrementOfferPrincipalLien(V.ledger, o, less)), u, a, less)
      BY ONLY <3>1 DEF SettleEscrow, u, a, less
    <3> QED BY <3>2
  <2>2. less \in Nat /\ -less \in Int /\ less + (-less) = 0
    BY <1>0, <1>3
  <2> HIDE DEF less, u, a, W
  <2>3. Gains(V, R, u, a, less)
    BY <1>2, <2>2, DrawGains
  <2>4. Sane(R)
    <3>1. Sound(L)
      BY <1>1, <2>2, DecrementOfferPrincipalLienSound DEF Grows
    <3> HIDE DEF L
    <3> QED BY <3>1, OnSane
  <2> HIDE DEF R
  <2>5. Gains(R, X, u, a, -less)
    BY <1>0, <2>2, <2>4, RefundGains
  <2> HIDE DEF X
  <2>6. Level(V, X)
    BY <1>0, <1>1, <2>2, <2>3, <2>5, GainsBack
  <2> QED BY <2>1, <2>6 DEF W
<1>4. CASE more > 0
  <2> DEFINE R == VaultDepositERC20From(V, u, u, a, more)
             L == IncrementOfferPrincipalLien(R.ledger, o, more)
             X == On(R, L)
  <2>1. W = X
    <3>1. Escrowed(g) - Escrowed(f) > 0 /\ ~ (Escrowed(f) - Escrowed(g) > 0)
      BY <1>0, <1>4
    <3>2. SettleEscrow(V, o, f, g) =
            LET D == VaultDepositERC20(V, u, a, more)
            IN  On(D, IncrementOfferPrincipalLien(D.ledger, o, more))
      BY ONLY <3>1 DEF SettleEscrow, u, a, more
    <3> QED BY <3>2 DEF VaultDepositERC20
  <2>2. more \in Nat /\ more \in Int /\ -more \in Int /\ more + (-more) = 0 /\ Ok(W)
    BY <1>0, <1>4
  <2> HIDE DEF more, u, a, W
  <2>3. Follows(V, R)
    BY <1>0, <2>2, VaultDepositFollows
  <2>4. /\ R.ledger.offerPrincipalLien[o] = OfferLien(V, o)
        /\ Sane(R) /\ R \in Vaults /\ R.ledger \in Ledger /\ Sound(R.ledger)
    <3> HIDE DEF R
    <3> QED BY <2>3, SaneLedger DEF Follows, SameRows, OfferLien
  <2>5. Ok(R)
    <3> HIDE DEF R
    <3>1. Sound(L) /\ (L.ok => R.ledger.ok)
      BY <2>2, <2>4, IncrementOfferPrincipalLienSound DEF Grows
    <3> HIDE DEF L
    <3>2. X.ledger = L
      BY <2>4, <3>1, OnSane
    <3> QED BY <2>1, <2>2, <3>1, <3>2 DEF Ok
  <2>6. Gains(V, R, u, a, more)
    BY <1>0, <2>2, <2>5, VaultDepositGains
  <2> HIDE DEF R
  <2>7. Adds(R.ledger, L, u, a, more)
    BY <1>2, <2>2, <2>4, IncrementOfferPrincipalLienAdds
  <2>8. L \in Ledger
    BY <2>2, <2>4, IncrementOfferPrincipalLienSound DEF Grows, Sound
  <2> HIDE DEF L
  <2>9. Gains(R, X, u, a, -more)
    BY <1>0, <2>2, <2>4, <2>7, <2>8, OnLoses
  <2> HIDE DEF X
  <2>10. Level(V, X)
    BY <1>0, <1>1, <2>2, <2>6, <2>9, GainsBack
  <2> QED BY <2>1, <2>10 DEF W
<1>5. CASE ~ less > 0 /\ ~ more > 0
  <2>1. W = V
    BY <1>5 DEF SettleEscrow
  <2> QED BY <2>1 DEF Level
<1> QED BY <1>3, <1>4, <1>5

LEMMA InitiateLoanGains ==
    ASSUME NEW V, Sane(V), Quiet(V), NEW l \in Loans, NEW u \in Users, NEW v \in Users,
           NEW a \in Assets, NEW x \in Nat
    PROVE  Gains(V, InitiateLoan(V, l, u, v, a, x), v, a, -x)
<1> DEFINE N == SetLender(V.ledger, l, u)
           M == SetBorrower(N, l, v)
           L == CreateCollateralLien(M, l, a, x)
<1>1. V \in Vaults /\ V.ledger \in Ledger /\ Sound(V.ledger)
  BY SaneLedger
<1>2. Sound(M) /\ M \in Ledger
  BY <1>1, SetPartiesSound DEF Quiet, Sound
<1>3. N \in Ledger /\ N.encumbered = V.ledger.encumbered
  BY <1>1, SetLenderEffect
<1> HIDE DEF N
<1>4. M.encumbered = V.ledger.encumbered /\ M.borrower[l] = v
  BY <1>3, SetBorrowerEffect
<1>5. InitiateLoan(V, l, u, v, a, x) = On(V, L)
  BY DEF InitiateLoan, N
<1> HIDE DEF M
<1>6. Adds(M, L, v, a, x)
  BY <1>2, <1>4, CreateCollateralLienAdds
<1>7. L \in Ledger
  BY <1>2, CreateCollateralLienSound DEF Grows, Sound
<1> HIDE DEF L
<1>8. Adds(V.ledger, L, v, a, x)
  BY <1>4, <1>6 DEF Adds
<1>9. Gains(V, On(V, L), v, a, -x)
  BY <1>1, <1>7, <1>8, OnLoses
<1> QED BY <1>5, <1>9

LEMMA SettleFilledLevel ==
    ASSUME NEW V, Sane(V), NEW o \in Offers, NEW f, Backs(V, o, f), Unfilled(f) \in Nat,
           f.creator \in Users, EscrowAsset(f) \in Assets
    PROVE  Level(V, SettleFilled(V, o, f))
<1>1. CASE Spent(f)
  BY <1>1, CancelledVaultsLevel DEF SettleFilled
<1>2. CASE ~ Spent(f)
  BY <1>2 DEF SettleFilled, Level
<1> QED BY <1>1, <1>2

(* A match: the lender's escrow leaves as principal, and of the borrower's *)
(* as much changes from the offer's lien to the loan's.                    *)
LEMMA MatchedVaultsLevel ==
    ASSUME NEW V, Sane(V), Quiet(V), NEW lo \in Offers, NEW bo \in Offers, lo # bo,
           NEW f, NEW g, Kept(f), Kept(g), f.status = "open", g.status = "open",
           f.type = "Lender", g.type = "Borrower", Backs(V, lo, f), Backs(V, bo, g),
           NEW m \in Nat, NEW x \in Nat, NEW l \in Loans,
           Ok(MatchedVaults(V, lo, bo, f, g, m, x, l))
    PROVE  Level(V, MatchedVaults(V, lo, bo, f, g, m, x, l))
<1> DEFINE V1 == On(V, DecrementOfferPrincipalLien(V.ledger, lo, m))
           V2 == VaultWithdrawERC20(V1, f.creator, f.lend, g.creator, m)
           V3 == InitiateLoan(V2, l, f.creator, g.creator, g.coll, x)
           V4 == On(V3, DecrementOfferPrincipalLien(V3.ledger, bo, x))
           F == Fill(f, m, 0)
           G == Fill(g, m, x)
           V5 == SettleFilled(V4, lo, F)
           W == SettleFilled(V5, bo, G)
<1>1. MatchedVaults(V, lo, bo, f, g, m, x, l) = W /\ Ok(W)
  BY DEF MatchedVaults
<1>2. /\ f.creator \in Users /\ f.lend \in Assets /\ f.coll \in Assets
      /\ g.creator \in Users /\ g.lend \in Assets /\ g.coll \in Assets
      /\ m \in Int /\ x \in Int /\ -m \in Int /\ -x \in Int /\ m + (-m) = 0 /\ (-x) + x = 0
  BY DEF Kept
<1>3. f \in Offer /\ g \in Offer /\ EscrowAsset(f) = f.lend /\ EscrowAsset(g) = g.coll
  BY DEF Kept, EscrowAsset
<1>4. /\ F.creator = f.creator /\ EscrowAsset(F) = EscrowAsset(f) /\ Unfilled(F) = Unfilled(f) - m
      /\ Unfilled(f) \in Int
  <2>1. /\ F.creator = f.creator /\ F.type = f.type /\ F.lend = f.lend
        /\ F.amountMax = f.amountMax /\ F.amountFilled = f.amountFilled + m
        /\ f.amountMax \in Nat /\ f.amountFilled \in Nat
    BY <1>3 DEF Fill, Offer
  <2> HIDE DEF F
  <2> QED BY <2>1 DEF EscrowAsset, Unfilled
<1>5. /\ G.creator = g.creator /\ EscrowAsset(G) = EscrowAsset(g) /\ Unfilled(G) = Unfilled(g) - x
      /\ Unfilled(g) \in Int
  <2>1. /\ G.creator = g.creator /\ G.type = g.type /\ G.coll = g.coll
        /\ G.collateralMax = g.collateralMax /\ G.collateralFilled = g.collateralFilled + x
        /\ g.collateralMax \in Nat /\ g.collateralFilled \in Nat
    BY <1>3 DEF Fill, Offer
  <2> HIDE DEF G
  <2> QED BY <2>1 DEF EscrowAsset, Unfilled
<1> HIDE DEF F, G
<1>6. /\ Leads(V, V1) /\ SameLoans(V, V1) /\ OtherOffers(V, V1, lo)
      /\ OfferLien(V1, lo).live
      /\ OfferLien(V1, lo).user = OfferLien(V, lo).user
      /\ OfferLien(V1, lo).asset = OfferLien(V, lo).asset
      /\ Ok(V1) => /\ m <= OfferLien(V, lo).amount
                   /\ OfferLien(V1, lo).amount = OfferLien(V, lo).amount - m
  BY DrawEffect DEF Backs
<1>7. Gains(V, V1, f.creator, f.lend, m)
  BY <1>3, DrawGains DEF Backs
<1> HIDE DEF V1
<1>8. Follows(V1, V2)
  BY <1>2, <1>6, VaultWithdrawFollows DEF Leads
<1>9. Gains(V1, V2, f.creator, f.lend, -m)
  BY <1>2, <1>6, VaultWithdrawGains DEF Leads
<1>10. Leads(V1, V2) /\ SameLoans(V1, V2) /\ SameOffers(V1, V2)
  BY <1>8, FollowsLeads
<1> HIDE DEF V2
<1>11. Sane(V2) /\ Quiet(V2) /\ V2 \in Vaults /\ V \in Vaults
  BY <1>6, <1>10, QuietStays DEF Leads, SameLoans, Sane
<1>12. Level(V, V2)
  BY <1>2, <1>7, <1>9, <1>11, GainsBack
<1>13. Leads(V2, V3) /\ SameOffers(V2, V3)
  BY <1>2, <1>11, InitiateLoanEffect
<1>14. Gains(V2, V3, g.creator, g.coll, -x)
  BY <1>2, <1>11, InitiateLoanGains
<1> HIDE DEF V3
<1>15. OfferLien(V3, bo) = OfferLien(V, bo) /\ Sane(V3)
  BY <1>6, <1>10, <1>13 DEF SameOffers, OtherOffers, OfferLien, Leads
<1>16. /\ Leads(V3, V4) /\ OtherOffers(V3, V4, bo)
       /\ OfferLien(V4, bo).live
       /\ OfferLien(V4, bo).user = OfferLien(V3, bo).user
       /\ OfferLien(V4, bo).asset = OfferLien(V3, bo).asset
       /\ Ok(V4) => /\ x <= OfferLien(V3, bo).amount
                    /\ OfferLien(V4, bo).amount = OfferLien(V3, bo).amount - x
  BY <1>15, DrawEffect DEF Backs
<1>17. Gains(V3, V4, g.creator, g.coll, x)
  BY <1>3, <1>15, DrawGains DEF Backs
<1> HIDE DEF V4
<1>18. Level(V2, V4)
  BY <1>2, <1>11, <1>14, <1>17, GainsBack
<1>19. Leads(V4, V5) /\ OtherOffers(V4, V5, lo)
  BY <1>2, <1>3, <1>4, <1>16, SettleFilledEffect DEF Leads
<1>20. Leads(V5, W)
  BY <1>2, <1>3, <1>5, <1>19, SettleFilledEffect DEF Leads
<1>21. Ok(V4) /\ Ok(V1)
  BY <1>1, <1>10, <1>13, <1>16, <1>19, <1>20 DEF Leads
<1>22. Backs(V4, lo, F) /\ Unfilled(F) \in Nat
  <2>1. OfferLien(V4, lo) = OfferLien(V1, lo)
    BY <1>10, <1>13, <1>16 DEF OtherOffers, SameOffers, OfferLien
  <2>2. OfferLien(V1, lo).amount = Unfilled(F) /\ Unfilled(F) \in Nat
    BY <1>2, <1>4, <1>6, <1>21 DEF Backs
  <2> QED BY <1>4, <1>6, <2>1, <2>2 DEF Backs
<1>23. Level(V4, V5)
  BY <1>2, <1>3, <1>4, <1>16, <1>22, SettleFilledLevel DEF Leads
<1> HIDE DEF V5
<1>24. Backs(V5, bo, G) /\ Unfilled(G) \in Nat
  <2>1. OfferLien(V5, bo) = OfferLien(V4, bo)
    BY <1>19 DEF OtherOffers
  <2>2. OfferLien(V4, bo).amount = Unfilled(G) /\ Unfilled(G) \in Nat
    BY <1>2, <1>5, <1>15, <1>16, <1>21 DEF Backs
  <2> QED BY <1>5, <1>15, <1>16, <2>1, <2>2 DEF Backs
<1>25. Level(V5, W)
  BY <1>2, <1>3, <1>5, <1>19, <1>24, SettleFilledLevel DEF Leads
<1> HIDE DEF W
<1>26. Level(V, W)
  BY <1>12, <1>18, <1>23, <1>25, LevelTwice
<1> QED BY <1>1, <1>26

(* What a direct accept relies on: an offer no fill has touched has all of *)
(* its escrow, and a borrower never asks for more collateral than that.    *)
Whole(f) == /\ f.amountFilled = 0 => f.collateralFilled = 0
            /\ f.collateral <= f.collateralMax

(* A direct accept: one side's escrow leaves as principal and the other    *)
(* side's deposit becomes collateral, or the reverse.                      *)
LEMMA AcceptedVaultsLevel ==
    ASSUME NEW V, Sane(V), Quiet(V), NEW o \in Offers, NEW f, Kept(f), f.status = "open",
           Backs(V, o, f), Whole(f), f.amountFilled = 0,
           NEW u \in Users, NEW l \in Loans, Ok(AcceptedVaults(V, o, f, u, l))
    PROVE  Level(V, AcceptedVaults(V, o, f, u, l))
<1> DEFINE x == EffectivePrincipal(f)
           c == f.collateral
           W == AcceptedVaults(V, o, f, u, l)
<1>0. /\ f.creator \in Users /\ f.lend \in Assets /\ f.coll \in Assets /\ f \in Offer
      /\ c \in Nat /\ x \in Nat /\ f.collateralMax \in Nat /\ f.collateralMax - c \in Nat
      /\ V \in Vaults
  BY DEF Kept, Offer, EffectivePrincipal, Whole, Sane
<1>1. /\ x \in Int /\ -x \in Int /\ x + (-x) = 0 /\ c \in Int /\ -c \in Int /\ c + (-c) = 0
  BY <1>0
<1>2. Unfilled(f) = IF f.type = "Lender" THEN x ELSE f.collateralMax
  BY <1>0 DEF Unfilled, Whole, EffectivePrincipal, Offer
<1> HIDE DEF x, c
<1>3. ASSUME NEW X, Sane(X), Backs(X, o, f)
      PROVE  LET Y == On(X, ReleaseOfferPrincipalLien(X.ledger, o))
             IN  /\ Leads(X, Y) /\ SameLoans(X, Y)
                 /\ Gains(X, Y, f.creator, EscrowAsset(f), Unfilled(f))
  <2> DEFINE L == ReleaseOfferPrincipalLien(X.ledger, o)
  <2>1. /\ Grows(X.ledger, L)
        /\ L.loanCollateralLien = X.ledger.loanCollateralLien
        /\ L.reserved = X.ledger.reserved
    BY <1>3, ReleaseOfferPrincipalLienSound DEF Sane
  <2>2. Gains(X, On(X, L), f.creator, EscrowAsset(f), Unfilled(f))
    <3>1. Unfilled(f) \in Nat
      BY <1>0, <1>2
    <3> QED BY <1>3, <3>1, ReleaseGains
  <2> HIDE DEF L
  <2>3. Sane(On(X, L)) /\ On(X, L).ledger = L
    BY <1>3, <2>1, OnSane DEF Grows
  <2>4. /\ Leads(X, On(X, L)) /\ SameLoans(X, On(X, L))
    BY <2>1, <2>3 DEF Leads, SameLoans, Grows, Ok, SameParties
  <2> QED BY <2>2, <2>4 DEF L
<1>4. CASE f.type = "Lender"
  <2> DEFINE V1 == On(V, ReleaseOfferPrincipalLien(V.ledger, o))
             V2 == VaultWithdrawERC20(V1, f.creator, f.lend, u, x)
             V3 == VaultDepositERC20From(V2, u, u, f.coll, c)
             V4 == InitiateLoan(V3, l, f.creator, u, f.coll, c)
  <2>1. W = V4
    BY <1>4 DEF AcceptedVaults, VaultDepositERC20, x, c
  <2>2. /\ Leads(V, V1) /\ SameLoans(V, V1) /\ Gains(V, V1, f.creator, f.lend, x)
    BY <1>2, <1>3, <1>4 DEF EscrowAsset
  <2> HIDE DEF V1
  <2>3. Follows(V1, V2) /\ Gains(V1, V2, f.creator, f.lend, -x)
    BY <1>0, <1>1, <2>2, VaultWithdrawFollows, VaultWithdrawGains DEF Leads
  <2> HIDE DEF V2
  <2>4. Level(V, V2)
    BY <1>0, <1>1, <2>2, <2>3, GainsBack
  <2>5. Follows(V2, V3)
    BY <1>0, <1>1, <2>3, VaultDepositFollows DEF Follows
  <2>6. Leads(V1, V3) /\ SameLoans(V1, V3)
    BY <2>3, <2>5, FollowsTwice, FollowsLeads
  <2>7. Sane(V3) /\ Quiet(V3) /\ V2 \in Vaults
    BY <2>2, <2>3, <2>6, QuietStays DEF Leads, SameLoans, Follows, Sane
  <2>8. Leads(V3, V4)
    <3> HIDE DEF V3
    <3> QED BY <1>0, <2>7, InitiateLoanEffect
  <2>9. Gains(V3, V4, u, f.coll, -c)
    <3> HIDE DEF V3
    <3> QED BY <1>0, <2>7, InitiateLoanGains
  <2> HIDE DEF V4
  <2>10. Ok(V3)
    BY <2>1, <2>8 DEF Leads
  <2>11. Gains(V2, V3, u, f.coll, c)
    BY <1>0, <2>3, <2>10, VaultDepositGains DEF Follows
  <2> HIDE DEF V3
  <2>12. Level(V2, V4)
    BY <1>1, <2>7, <2>9, <2>11, GainsBack
  <2> QED BY <2>1, <2>4, <2>12, LevelTwice DEF W
<1>5. CASE f.type # "Lender"
  <2> DEFINE V1 == VaultDepositERC20From(V, u, u, f.lend, x)
             V2 == VaultWithdrawERC20(V1, u, f.lend, f.creator, x)
             V3 == On(V2, ReleaseOfferPrincipalLien(V2.ledger, o))
             V4 == InitiateLoan(V3, l, u, f.creator, f.coll, c)
             y == f.collateralMax - c
             V5 == Refund(V4, f.creator, f.coll, y)
             k == f.collateralMax
  <2>1. W = V5
    BY <1>5 DEF AcceptedVaults, VaultDepositERC20, x, c
  <2>2. Follows(V, V1)
    BY <1>0, <1>1, VaultDepositFollows
  <2>3. Follows(V1, V2) /\ Gains(V1, V2, u, f.lend, -x)
    <3> HIDE DEF V1
    <3> QED BY <1>0, <1>1, <2>2, VaultWithdrawFollows, VaultWithdrawGains DEF Follows
  <2> HIDE DEF V2
  <2>4. Leads(V, V2) /\ SameLoans(V, V2) /\ SameOffers(V, V2)
    <3> HIDE DEF V1
    <3> QED BY <2>2, <2>3, FollowsTwice, FollowsLeads
  <2>5. Sane(V2) /\ Backs(V2, o, f) /\ V2 \in Vaults
    BY <2>4 DEF Leads, SameOffers, Backs, OfferLien, Sane
  <2>6. /\ Leads(V2, V3) /\ SameLoans(V2, V3) /\ Gains(V2, V3, f.creator, f.coll, k)
    BY <1>2, <1>3, <1>5, <2>5 DEF EscrowAsset
  <2> HIDE DEF V3
  <2>7. Sane(V3) /\ Quiet(V3)
    BY <2>4, <2>6, QuietStays DEF Leads, SameLoans
  <2>8. Leads(V3, V4)
    BY <1>0, <2>7, InitiateLoanEffect
  <2>9. Gains(V3, V4, f.creator, f.coll, -c)
    BY <1>0, <2>7, InitiateLoanGains
  <2> HIDE DEF V4
  <2>10. y \in Nat /\ y \in Int /\ -y \in Int /\ k \in Int /\ k + (-c) \in Int /\ (k + (-c)) + (-y) = 0
    BY <1>0
  <2> HIDE DEF y, k
  <2>11. Follows(V4, V5) /\ Gains(V4, V5, f.creator, f.coll, -y)
    BY <1>0, <2>8, <2>10, RefundFollows, RefundGains DEF Leads
  <2> HIDE DEF V5
  <2>12. Level(V2, V5)
    <3>1. Gains(V2, V4, f.creator, f.coll, k + (-c))
      BY <1>1, <2>5, <2>6, <2>9, <2>10, GainsTwice
    <3> QED BY <2>5, <2>10, <2>11, <3>1, GainsBack
  <2>13. Ok(V1)
    BY <2>1, <2>3, <2>6, <2>8, <2>11 DEF Leads, Follows
  <2>14. Gains(V, V1, u, f.lend, x)
    BY <1>0, <2>13, VaultDepositGains
  <2> HIDE DEF V1
  <2>15. Level(V, V2)
    BY <1>0, <1>1, <2>3, <2>14, GainsBack
  <2> QED BY <2>1, <2>12, <2>15, LevelTwice DEF W
<1> QED BY <1>4, <1>5

-----------------------------------------------------------------------------
(* Every call keeps the vaults afloat.                                     *)

FundsOf(V, of) == Afloat(V) /\ \A o \in Offers : Whole(of[o])

Funds == FundsOf(vaults, offers)

LEMMA NewOfferWhole ==
    ASSUME NEW type, NEW u, NEW p, NEW t, WellFormed(type, t)
    PROVE  Whole(NewOffer(type, u, p, t)) /\ NewOffer(type, u, p, t).amountFilled = 0
BY DEF NewOffer, Whole, WellFormed

LEMMA OneOfferFunds ==
    ASSUME NEW V, NEW W, NEW of, FundsOf(V, of), Afloat(W), NEW o, NEW n, Whole(n),
           of \in [Offers -> Offer]
    PROVE  FundsOf(W, [of EXCEPT ![o] = n])
BY DEF FundsOf

LEMMA CreateOfferFunds ==
    ASSUME Inv, Funds, NEW u \in Users, NEW type \in {"Lender", "Borrower"}, NEW p \in Pairs,
           NEW t \in Terms, NEW o \in Offers, CreateOffer(u, type, p, t, o)
    PROVE  Funds'
<1> DEFINE f == NewOffer(type, u, p, t)
           x == Escrowed(f)
           D == VaultDepositERC20From(vaults, u, u, EscrowAsset(f), x)
           W == LienOffer(D, o, f)
<1>1. /\ p \in Assets \X Assets
      /\ t \in [amount : Nat, amountMax : Nat, collateral : Nat, collateralMax : Nat]
      /\ WellFormed(type, t)
  BY DEF CreateOffer, OfferBookAssumption
<1>2. /\ Kept(f) /\ f.status = "open" /\ f.creator = u /\ Whole(f)
  BY <1>1, NewOfferKept, NewOfferWhole DEF NewOffer
<1>3. Ok(W) /\ vaults' = W /\ offers' = [offers EXCEPT ![o] = f]
  BY DEF CreateOffer, Commit, VaultDepositERC20
<1> HIDE DEF f
<1>4. EscrowAsset(f) \in Assets /\ x \in Nat /\ x \in Int /\ -x \in Int /\ x + (-x) = 0
  BY <1>2, OpenOffer
<1>5. Sane(vaults) /\ vaults \in Vaults /\ offers \in [Offers -> Offer]
  BY DEF Inv, BookInv, Sane
<1>6. Follows(vaults, D)
  BY <1>4, <1>5, VaultDepositFollows
<1>7. Leads(D, W) /\ Gains(D, W, u, EscrowAsset(f), -x)
  <2> HIDE DEF D
  <2> QED BY <1>2, <1>4, <1>6, LienOfferEffect, LienOfferGains DEF Follows
<1> HIDE DEF W
<1>8. Gains(vaults, D, u, EscrowAsset(f), x)
  BY <1>3, <1>4, <1>5, <1>7, VaultDepositGains DEF Leads
<1> HIDE DEF D, x
<1>9. Afloat(W)
  BY <1>4, <1>5, <1>7, <1>8, GainsBack, LevelStaysAfloat DEF Funds, FundsOf
<1> QED BY <1>2, <1>3, <1>5, <1>9, OneOfferFunds DEF Funds

LEMMA ModifyOfferFunds ==
    ASSUME Inv, Funds, NEW o \in Offers, NEW t \in Terms, ModifyOffer(o, t)
    PROVE  Funds'
<1> DEFINE f == offers[o]
           g == [f EXCEPT !.amount = t.amount, !.amountMax = t.amountMax,
                          !.collateral = t.collateral, !.collateralMax = t.collateralMax]
           W == SettleEscrow(vaults, o, f, g)
<1>1. /\ f.status = "open" /\ WellFormed(f.type, t)
      /\ Ok(W) /\ vaults' = W /\ offers' = [offers EXCEPT ![o] = g]
  BY DEF ModifyOffer, Commit
<1>2. /\ Kept(f) /\ HoldsRemainder(vaults, f, o) /\ Sane(vaults) /\ f \in Offer /\ Whole(f)
      /\ offers \in [Offers -> Offer]
  BY DEF Inv, BookInv, Funds, FundsOf
<1>3. t.amountMax \in Nat /\ t.collateral \in Nat /\ t.collateralMax \in Nat
  BY DEF OfferBookAssumption
<1> HIDE DEF f
<1>4. /\ g.type = f.type /\ g.amountFilled = f.amountFilled
      /\ g.collateralFilled = f.collateralFilled /\ g.amountMax = t.amountMax
      /\ g.collateral = t.collateral /\ g.collateralMax = t.collateralMax
  BY <1>2 DEF Offer
<1> HIDE DEF g
<1>5. Whole(g)
  BY <1>1, <1>2, <1>4 DEF Whole, WellFormed
<1>6. Escrowed(g) \in Nat
  BY <1>3, <1>4 DEF Escrowed
<1>7. Backs(vaults, o, f)
  BY <1>1, <1>2, OpenBacked
<1>8. Level(vaults, W)
  BY <1>1, <1>2, <1>6, <1>7, SettleEscrowLevel
<1> HIDE DEF W
<1>9. Afloat(W)
  BY <1>8, LevelStaysAfloat DEF Funds, FundsOf
<1> QED BY <1>1, <1>2, <1>5, <1>9, OneOfferFunds DEF Funds

LEMMA CancelOfferFunds ==
    ASSUME Inv, Funds, NEW o \in Offers, CancelOffer(o)
    PROVE  Funds'
<1> DEFINE f == offers[o]
           W == CancelledVaults(vaults, o, f)
           n == IF f.amountFilled > 0 THEN [f EXCEPT !.status = "accepted"] ELSE NoOffer("cancelled")
<1>1. f.status = "open" /\ vaults' = W /\ offers' = [offers EXCEPT ![o] = n]
  BY DEF CancelOffer, Commit
<1>2. /\ Kept(f) /\ HoldsRemainder(vaults, f, o) /\ Sane(vaults) /\ f \in Offer /\ Whole(f)
      /\ offers \in [Offers -> Offer]
  BY DEF Inv, BookInv, Funds, FundsOf
<1> HIDE DEF f
<1>3. Whole(n)
  BY <1>2 DEF Whole, NoOffer, Offer
<1>4. Level(vaults, W)
  BY <1>1, <1>2, OpenBacked, OpenOffer, CancelledVaultsLevel
<1> HIDE DEF W, n
<1>5. Afloat(W)
  BY <1>4, LevelStaysAfloat DEF Funds, FundsOf
<1> QED BY <1>1, <1>2, <1>3, <1>5, OneOfferFunds DEF Funds

(* An accept, from a book that may hold an offer made for it.              *)
LEMMA AcceptedFunds ==
    ASSUME NEW V, NEW of, NEW ln, BookInv(V, of, ln), FundsOf(V, of), NEW o \in Offers,
           NEW f, f = of[o], f.status = "open", f.amountFilled = 0,
           NEW u \in Users, NEW l \in Loans, Ok(AcceptedVaults(V, o, f, u, l))
    PROVE  FundsOf(AcceptedVaults(V, o, f, u, l), [of EXCEPT ![o] = [f EXCEPT !.status = "accepted"]])
<1> DEFINE W == AcceptedVaults(V, o, f, u, l)
           n == [f EXCEPT !.status = "accepted"]
<1>1. /\ Kept(f) /\ HoldsRemainder(V, f, o) /\ Sane(V) /\ Quiet(V) /\ f \in Offer /\ Whole(f)
      /\ of \in [Offers -> Offer]
  BY DEF BookInv, FundsOf
<1>2. Whole(n)
  BY <1>1 DEF Whole, Offer
<1>3. Level(V, W)
  BY <1>1, OpenBacked, AcceptedVaultsLevel
<1> HIDE DEF W, n
<1>4. Afloat(W)
  BY <1>3, LevelStaysAfloat DEF FundsOf
<1>5. FundsOf(W, [of EXCEPT ![o] = n])
  BY <1>1, <1>2, <1>4, OneOfferFunds
<1> QED BY <1>5 DEF W, n

LEMMA AcceptOfferFunds ==
    ASSUME Inv, Funds, NEW u \in Users, NEW o \in Offers, NEW l \in Loans, AcceptOffer(u, o, l)
    PROVE  Funds'
<1> DEFINE f == offers[o]
           W == AcceptedVaults(vaults, o, f, u, l)
<1>1. /\ f.status = "open" /\ f.amountFilled = 0 /\ Ok(W) /\ vaults' = W
      /\ offers' = [offers EXCEPT ![o].status = "accepted"]
  BY DEF AcceptOffer, Commit
<1>2. offers' = [offers EXCEPT ![o] = [f EXCEPT !.status = "accepted"]]
  BY <1>1
<1>3. FundsOf(W, [offers EXCEPT ![o] = [f EXCEPT !.status = "accepted"]])
  BY <1>1, AcceptedFunds DEF Inv, Funds
<1> QED BY <1>1, <1>2, <1>3 DEF Funds

(* An offer made from what is free in its creator's vault.                 *)
LEMMA MaterializedFunds ==
    ASSUME NEW V, NEW of, NEW ln, BookInv(V, of, ln), FundsOf(V, of), NEW o \in Offers,
           NEW f, Kept(f), f.status = "open", Whole(f), Ok(MaterializedVaults(V, o, f))
    PROVE  FundsOf(MaterializedVaults(V, o, f), [of EXCEPT ![o] = f])
<1> DEFINE W == MaterializedVaults(V, o, f)
<1>1. Sane(V) /\ Afloat(V) /\ of \in [Offers -> Offer]
  BY DEF BookInv, FundsOf
<1>2. f.creator \in Users /\ EscrowAsset(f) \in Assets /\ Escrowed(f) \in Nat
  BY OpenOffer
<1>3. Afloat(W)
  BY <1>1, <1>2, MaterializedVaultsAfloat
<1> HIDE DEF W
<1>4. FundsOf(W, [of EXCEPT ![o] = f])
  BY <1>1, <1>3, OneOfferFunds
<1> QED BY <1>4 DEF W

LEMMA AcceptSignedOfferFunds ==
    ASSUME Inv, Funds, NEW s \in Users, NEW u \in Users, NEW type \in {"Lender", "Borrower"},
           NEW p \in Pairs, NEW t \in Terms, NEW o \in Offers, NEW l \in Loans,
           AcceptSignedOffer(s, u, type, p, t, o, l)
    PROVE  Funds'
<1> DEFINE f == NewOffer(type, s, p, t)
           M == MaterializedVaults(vaults, o, f)
           W == AcceptedVaults(M, o, f, u, l)
           g == [f EXCEPT !.status = "accepted"]
           of == [offers EXCEPT ![o] = f]
<1>1. /\ p \in Assets \X Assets
      /\ t \in [amount : Nat, amountMax : Nat, collateral : Nat, collateralMax : Nat]
      /\ WellFormed(type, t)
  BY DEF OfferBookAssumption, AcceptSignedOffer
<1>2. /\ Kept(f) /\ f.status = "open" /\ Unfilled(f) = Escrowed(f) /\ Whole(f) /\ f.amountFilled = 0
  BY <1>1, NewOfferKept, NewOfferWhole
<1>3. /\ Ok(W) /\ vaults' = W /\ offers' = [offers EXCEPT ![o] = g]
  BY DEF AcceptSignedOffer, Commit
<1> HIDE DEF f
<1>4. BookInv(M, of, loans) /\ Leads(vaults, M)
  BY <1>2, MaterializedInv DEF Inv
<1>5. of[o] = f
  BY DEF Inv, BookInv
<1>6. [of EXCEPT ![o] = g] = [offers EXCEPT ![o] = g]
  BY DEF Inv, BookInv
<1>7. Ok(M)
  <2> HIDE DEF M, of
  <2>1. Leads(M, W)
    BY <1>2, <1>4, <1>5, AcceptedInv
  <2> QED BY <1>3, <2>1 DEF Leads
<1>8. FundsOf(M, of)
  BY <1>2, <1>7, MaterializedFunds DEF Inv, Funds
<1> HIDE DEF M, of
<1>9. FundsOf(W, [of EXCEPT ![o] = g])
  BY <1>2, <1>3, <1>4, <1>5, <1>8, AcceptedFunds
<1> QED BY <1>3, <1>6, <1>9 DEF Funds

(* A fill is of at least what both sides ask for, so never of nothing.     *)
LEMMA FillWhole ==
    ASSUME NEW f, Kept(f), f.status = "open", Whole(f), NEW m \in Nat, m > 0, NEW x \in Nat
    PROVE  Whole(Close(Fill(f, m, x)))
<1> DEFINE F == Fill(f, m, x)
<1>1. f \in Offer /\ f.amountFilled \in Nat
  BY DEF Kept, Offer
<1>2. /\ F.amountFilled = f.amountFilled + m /\ F.collateral = f.collateral
      /\ F.collateralMax = f.collateralMax
  BY <1>1 DEF Fill, Offer
<1>3. F.amountFilled # 0
  BY <1>1, <1>2
<1>4. /\ Close(F).amountFilled = F.amountFilled /\ Close(F).collateral = F.collateral
      /\ Close(F).collateralMax = F.collateralMax
  BY <1>1 DEF Close, Fill, Offer
<1> HIDE DEF F
<1>5. Whole(Close(F))
  BY <1>2, <1>3, <1>4 DEF Whole
<1> QED BY <1>5 DEF F

(* executeMatch, from a book that may hold an offer made for the match.    *)
LEMMA ExecuteMatchFunds ==
    ASSUME NEW V, NEW of, BookInv(V, of, loans), FundsOf(V, of), NEW lo \in Offers, NEW bo \in Offers,
           NEW f, NEW g, f = of[lo], g = of[bo], NEW c \in Nat, NEW l \in Loans,
           \A h, k : [of EXCEPT ![lo] = h, ![bo] = k] = [offers EXCEPT ![lo] = h, ![bo] = k],
           ExecuteMatch(V, lo, bo, f, g, c, l)
    PROVE  Funds'
<1> DEFINE m == MatchAmount(f, g)
           x == ReqCollateral(f, g, c)
           W == MatchedVaults(V, lo, bo, f, g, m, x, l)
           F == FilledLender(f, m)
           G == FilledBorrower(g, m, x)
<1>1. /\ Matchable(f, g, c) /\ Ok(W) /\ vaults' = W
      /\ offers' = [offers EXCEPT ![lo] = F, ![bo] = G]
  BY DEF ExecuteMatch, Commit
<1>2. /\ Kept(f) /\ Kept(g) /\ HoldsRemainder(V, f, lo) /\ HoldsRemainder(V, g, bo)
      /\ Sane(V) /\ Quiet(V) /\ Whole(f) /\ Whole(g) /\ of \in [Offers -> Offer]
  BY DEF BookInv, FundsOf
<1>3. /\ f.status = "open" /\ g.status = "open" /\ f.type = "Lender" /\ g.type = "Borrower"
  BY <1>1 DEF Matchable
<1>4. m \in Nat /\ x \in Nat
  BY <1>1, <1>2, MatchTerms
<1>5. m > 0
  <2>1. /\ f.amount \in Nat /\ f.amountMax \in Nat /\ f.amountFilled \in Nat /\ f.amount > 0
        /\ g.amount \in Nat /\ g.amountMax \in Nat /\ g.amountFilled \in Nat
        /\ f.amountMax - f.amountFilled \in Int /\ g.amountMax - g.amountFilled \in Int
    BY <1>2, <1>3 DEF Kept, Offer
  <2>2. MatchLow(f, g) \in Int /\ MatchLow(f, g) > 0 /\ MatchHigh(f, g) \in Int
    BY <2>1 DEF MatchLow, MatchHigh, AtLeast, AtMost
  <2>3. MatchLow(f, g) <= MatchHigh(f, g)
    BY <1>1 DEF Matchable
  <2>4. m = (MatchLow(f, g) + MatchHigh(f, g)) \div 2
    BY DEF MatchAmount
  <2> HIDE DEF m
  <2> QED BY ONLY <2>2, <2>3, <2>4
<1>6. lo # bo
  BY <1>3
<1>7. Backs(V, lo, f) /\ Backs(V, bo, g)
  BY <1>2, <1>3, OpenBacked
<1> HIDE DEF m, x
<1>8. Level(V, W)
  BY <1>1, <1>2, <1>3, <1>4, <1>6, <1>7, MatchedVaultsLevel
<1> HIDE DEF W
<1>9. Afloat(W)
  BY <1>8, LevelStaysAfloat DEF FundsOf
<1>10. Whole(F) /\ Whole(G)
  BY <1>2, <1>3, <1>4, <1>5, FillWhole DEF FilledLender, FilledBorrower
<1> HIDE DEF F, G
<1>11. offers' = [of EXCEPT ![lo] = F, ![bo] = G]
  BY <1>1
<1>12. \A o \in Offers : Whole(offers'[o])
  BY <1>2, <1>10, <1>11 DEF FundsOf
<1> QED BY <1>1, <1>9, <1>12 DEF Funds, FundsOf

LEMMA ExecuteMatchRan ==
    ASSUME NEW V, NEW of, NEW ln, BookInv(V, of, ln), NEW lo \in Offers, NEW bo \in Offers,
           NEW f, NEW g, f = of[lo], g = of[bo], NEW c \in Nat, NEW l \in Loans,
           ExecuteMatch(V, lo, bo, f, g, c, l)
    PROVE  Ok(V)
<1> DEFINE m == MatchAmount(f, g)
           x == ReqCollateral(f, g, c)
           W == MatchedVaults(V, lo, bo, f, g, m, x, l)
<1>1. Matchable(f, g, c) /\ Ok(W)
  BY DEF ExecuteMatch, Commit
<1>2. /\ Kept(f) /\ Kept(g) /\ HoldsRemainder(V, f, lo) /\ HoldsRemainder(V, g, bo)
      /\ Sane(V) /\ Quiet(V)
  BY DEF BookInv
<1>3. /\ f.status = "open" /\ g.status = "open" /\ f.type = "Lender" /\ g.type = "Borrower" /\ lo # bo
  BY <1>1 DEF Matchable
<1>4. m \in Nat /\ x \in Nat
  BY <1>1, <1>2, MatchTerms
<1>5. OfferLien(V, lo).live /\ OfferLien(V, bo).live
  BY <1>2, <1>3 DEF HoldsRemainder, OfferLien
<1> HIDE DEF m, x
<1>6. Leads(V, W)
  BY <1>2, <1>3, <1>4, <1>5, MatchedVaultsEffect
<1> QED BY <1>1, <1>6 DEF Leads

LEMMA MatchOffersFunds ==
    ASSUME Inv, Funds, NEW lo \in Offers, NEW bo \in Offers, NEW l \in Loans, MatchOffers(lo, bo, l)
    PROVE  Funds'
<1>1. ExecuteMatch(vaults, lo, bo, offers[lo], offers[bo], 0, l)
  BY DEF MatchOffers
<1> QED BY <1>1, ExecuteMatchFunds DEF Inv, Funds

LEMMA SliceWhole ==
    ASSUME NEW type, NEW u, NEW p, NEW m \in Amounts, NEW x \in Amounts
    PROVE  Whole(Slice(type, u, p, m, x))
BY DEF Slice, NewOffer, Whole, Amounts

LEMMA MatchSignedOfferFunds ==
    ASSUME Inv, Funds, NEW s \in Users, NEW type \in {"Lender", "Borrower"}, NEW o \in Offers,
           NEW other \in Offers, NEW m \in Amounts, NEW x \in Amounts, NEW l \in Loans,
           MatchSignedOffer(s, type, o, other, m, x, l)
    PROVE  Funds'
<1> DEFINE g == offers[other]
           f == Slice(type, s, <<g.lend, g.coll>>, m, x)
           M == MaterializedVaults(vaults, o, f)
           of == [offers EXCEPT ![o] = f]
<1>1. /\ offers[o].status = "none" /\ g.status = "open"
      /\ IF type = "Lender" THEN ExecuteMatch(M, o, other, f, g, 0, l)
                            ELSE ExecuteMatch(M, other, o, g, f, x, l)
  BY DEF MatchSignedOffer, NextOffer
<1>2. g.lend \in Assets /\ g.coll \in Assets
  BY <1>1 DEF Inv, BookInv, Kept
<1>3. Kept(f) /\ f.status = "open" /\ Unfilled(f) = Escrowed(f) /\ Whole(f)
  BY <1>2, SliceKept, SliceWhole
<1> HIDE DEF f
<1>4. BookInv(M, of, loans)
  BY <1>3, MaterializedInv DEF Inv
<1>5. of[o] = f /\ of[other] = g
  BY <1>1 DEF Inv, BookInv
<1>6. \A h, k : /\ [of EXCEPT ![o] = h, ![other] = k] = [offers EXCEPT ![o] = h, ![other] = k]
                /\ [of EXCEPT ![other] = h, ![o] = k] = [offers EXCEPT ![other] = h, ![o] = k]
  BY DEF Inv, BookInv
<1>7. x \in Nat
  BY DEF Amounts
<1>8. Ok(M)
  <2> HIDE DEF g, M, of
  <2>1. CASE type = "Lender"
    BY <1>1, <1>4, <1>5, <2>1, ExecuteMatchRan
  <2>2. CASE type # "Lender"
    BY <1>1, <1>4, <1>5, <1>7, <2>2, ExecuteMatchRan
  <2> QED BY <2>1, <2>2
<1>9. FundsOf(M, of)
  BY <1>3, <1>8, MaterializedFunds DEF Inv, Funds
<1> HIDE DEF g, M, of
<1>10. CASE type = "Lender"
  BY <1>1, <1>4, <1>5, <1>6, <1>9, <1>10, ExecuteMatchFunds
<1>11. CASE type # "Lender"
  BY <1>1, <1>4, <1>5, <1>6, <1>7, <1>9, <1>11, ExecuteMatchFunds
<1> QED BY <1>10, <1>11

LEMMA UnlienIntentGains ==
    ASSUME NEW V, Sane(V), NEW i \in Intents, NEW x \in Nat
    PROVE  Gains(V, On(V, UnlienIntentCapital(V.ledger, i, x)), IntentOwner[i], IntentLend[i], x)
<1> DEFINE L == UnlienIntentCapital(V.ledger, i, x)
<1>1. V \in Vaults /\ V.ledger \in Ledger /\ Sound(V.ledger) /\ x \in Int
  BY SaneLedger
<1>2. Adds(V.ledger, L, IntentOwner[i], IntentLend[i], -x)
  BY <1>1, UnlienIntentCapitalAdds
<1>3. L \in Ledger
  BY <1>1, UnlienIntentCapitalSound DEF Grows, Sound
<1> HIDE DEF L
<1>4. Gains(V, On(V, L), IntentOwner[i], IntentLend[i], x)
  BY <1>1, <1>2, <1>3, OnGains
<1> QED BY <1>4 DEF L

LEMMA MatchIntentFunds ==
    ASSUME Inv, Funds, NEW i \in Intents, NEW o \in Offers, NEW bo \in Offers,
           NEW m \in Amounts, NEW x \in Amounts, NEW l \in Loans,
           MatchIntent(i, o, bo, m, x, l)
    PROVE  Funds'
<1> DEFINE f == Slice("Lender", IntentOwner[i], <<IntentLend[i], IntentColl[i]>>, m, x)
           V == On(vaults, UnlienIntentCapital(vaults.ledger, i, m))
           g == offers[bo]
           M == MaterializedVaults(V, o, f)
           of == [offers EXCEPT ![o] = f]
<1>1. /\ offers[o].status = "none" /\ g.status = "open"
      /\ ExecuteMatch(M, o, bo, f, g, 0, l)
  BY DEF MatchIntent, NextOffer
<1>2. IntentOwner[i] \in Users /\ IntentLend[i] \in Assets /\ IntentColl[i] \in Assets
  BY EncumbranceAssumption, OfferBookAssumption DEF Intents
<1>3. Kept(f) /\ f.status = "open" /\ Unfilled(f) = Escrowed(f) /\ Whole(f)
  BY <1>2, SliceKept, SliceWhole
<1> HIDE DEF f
<1>4. m \in Nat
  BY DEF Amounts
<1>5. Sane(vaults) /\ vaults \in Vaults
  BY DEF Inv, BookInv, Sane
<1>6. Leads(vaults, V) /\ SameLoans(vaults, V) /\ SameOffers(vaults, V)
  BY <1>4, <1>5, UnlienIntentEffect
<1>7. Gains(vaults, V, IntentOwner[i], IntentLend[i], m)
  BY <1>4, <1>5, UnlienIntentGains
<1> HIDE DEF V
<1>8. BookInv(V, offers, loans)
  BY <1>6, Untouched DEF Inv, Leads
<1>9. FundsOf(V, offers)
  BY <1>4, <1>5, <1>7, GainsStaysAfloat DEF Funds, FundsOf
<1>10. BookInv(M, of, loans)
  BY <1>3, <1>8, MaterializedInv
<1>11. of[o] = f /\ of[bo] = g
  BY <1>1 DEF Inv, BookInv
<1>12. \A h, k : [of EXCEPT ![o] = h, ![bo] = k] = [offers EXCEPT ![o] = h, ![bo] = k]
  BY DEF Inv, BookInv
<1>13. Ok(M)
  <2> HIDE DEF g, M, of
  <2> QED BY <1>1, <1>10, <1>11, ExecuteMatchRan
<1>14. FundsOf(M, of)
  BY <1>3, <1>8, <1>9, <1>13, MaterializedFunds
<1> HIDE DEF g, M, of
<1> QED BY <1>1, <1>10, <1>11, <1>12, <1>14, ExecuteMatchFunds

LEMMA FundLenderIntentFunds ==
    ASSUME Inv, Funds, NEW i \in Intents, NEW x \in Amounts, FundLenderIntent(i, x)
    PROVE  Funds'
<1> DEFINE u == IntentOwner[i]
           a == IntentLend[i]
           V == VaultDepositERC20From(vaults, u, u, a, x)
           L == LienIntentCapital(V.ledger, i, x)
           W == On(V, L)
<1>1. Ok(W) /\ vaults' = W /\ offers' = offers
  BY DEF FundLenderIntent, Commit, VaultDepositERC20
<1>2. u \in Users /\ a \in Assets /\ x \in Nat /\ x \in Int /\ -x \in Int /\ x + (-x) = 0
  BY EncumbranceAssumption DEF Intents, Amounts
<1>3. Sane(vaults) /\ vaults \in Vaults
  BY DEF Inv, BookInv, Sane
<1>4. Follows(vaults, V)
  BY <1>2, <1>3, VaultDepositFollows
<1>5. V \in Vaults /\ V.ledger \in Ledger /\ Sound(V.ledger) /\ Sane(V)
  <2> HIDE DEF V
  <2> QED BY <1>4, SaneLedger DEF Follows
<1>6. Grows(V.ledger, L) /\ Adds(V.ledger, L, u, a, x)
  <2> HIDE DEF V
  <2> QED BY <1>2, <1>5, LienIntentCapitalSound, LienIntentCapitalAdds
<1>7. L \in Ledger /\ Sound(L) /\ (L.ok => V.ledger.ok)
  <2> HIDE DEF V, L
  <2> QED BY <1>6 DEF Grows, Sound
<1>8. Gains(V, W, u, a, -x) /\ W.ledger = L
  <2> HIDE DEF V, L, u, a
  <2> QED BY <1>2, <1>5, <1>6, <1>7, OnLoses, OnSane
<1>9. Ok(V)
  <2> HIDE DEF V, L, W
  <2> QED BY <1>1, <1>7, <1>8 DEF Ok
<1>10. Gains(vaults, V, u, a, x)
  BY <1>2, <1>3, <1>9, VaultDepositGains
<1> HIDE DEF V, L, W, u, a
<1>11. Level(vaults, W)
  BY <1>2, <1>3, <1>8, <1>10, GainsBack
<1> QED BY <1>1, <1>11, LevelStaysAfloat DEF Funds, FundsOf

LEMMA WithdrawLenderIntentCapitalFunds ==
    ASSUME Inv, Funds, NEW i \in Intents, NEW x \in Amounts, WithdrawLenderIntentCapital(i, x)
    PROVE  Funds'
<1> DEFINE u == IntentOwner[i]
           a == IntentLend[i]
           V == On(vaults, UnlienIntentCapital(vaults.ledger, i, x))
           W == VaultWithdrawERC20(V, u, a, u, x)
<1>1. vaults' = W /\ offers' = offers
  BY DEF WithdrawLenderIntentCapital, IntentWithdrawnVaults, Commit
<1>2. u \in Users /\ a \in Assets /\ x \in Nat /\ x \in Int /\ -x \in Int /\ x + (-x) = 0
  BY EncumbranceAssumption DEF Intents, Amounts
<1>3. Sane(vaults) /\ vaults \in Vaults
  BY DEF Inv, BookInv, Sane
<1>4. Leads(vaults, V) /\ Gains(vaults, V, u, a, x)
  BY <1>2, <1>3, UnlienIntentEffect, UnlienIntentGains
<1> HIDE DEF V, u, a
<1>5. Gains(V, W, u, a, -x)
  BY <1>2, <1>4, VaultWithdrawGains DEF Leads
<1> HIDE DEF W
<1>6. Level(vaults, W)
  BY <1>2, <1>3, <1>4, <1>5, GainsBack
<1> QED BY <1>1, <1>6, LevelStaysAfloat DEF Funds, FundsOf

LEMMA ExtendReserveGains ==
    ASSUME NEW V, Sane(V), NEW l \in Loans, NEW u \in Users, NEW a \in Assets, NEW x \in Nat
    PROVE  /\ Gains(V, On(V, LienExtendReserve(V.ledger, l, u, a, x)), u, a, -x)
           /\ Gains(V, On(V, UnlienExtendReserve(V.ledger, l, u, a, x)), u, a, x)
<1> DEFINE L == LienExtendReserve(V.ledger, l, u, a, x)
           M == UnlienExtendReserve(V.ledger, l, u, a, x)
<1>1. V \in Vaults /\ V.ledger \in Ledger /\ Sound(V.ledger) /\ x \in Int
  BY SaneLedger
<1>2. Adds(V.ledger, L, u, a, x) /\ Adds(V.ledger, M, u, a, -x)
  BY <1>1, ExtendReserveAdds
<1>3. L \in Ledger /\ M \in Ledger
  BY <1>1, ExtendReserveSound DEF Grows, Sound
<1> HIDE DEF L, M
<1>4. Gains(V, On(V, L), u, a, -x)
  BY <1>1, <1>2, <1>3, OnLoses
<1>5. Gains(V, On(V, M), u, a, x)
  BY <1>1, <1>2, <1>3, OnGains
<1> QED BY <1>4, <1>5 DEF L, M

LEMMA FundExtendReserveFunds ==
    ASSUME Inv, Funds, NEW l \in Loans, NEW x \in Amounts, FundExtendReserve(l, x)
    PROVE  Funds'
<1> DEFINE u == vaults.ledger.borrower[l]
           a == loans[l].lend
           V == VaultDepositERC20From(vaults, u, u, a, x)
           W == On(V, LienExtendReserve(V.ledger, l, u, a, x))
<1>1. loans[l].status # "None" /\ Ok(W) /\ vaults' = W /\ offers' = offers
  BY DEF FundExtendReserve, Commit, VaultDepositERC20
<1>2. u \in Users /\ a \in Assets /\ x \in Nat /\ x \in Int /\ -x \in Int /\ x + (-x) = 0
  <2>1. u \in Users /\ a \in Assets
    BY <1>1, OpenedLoan DEF Inv
  <2> QED BY <2>1 DEF Amounts
<1>3. Sane(vaults) /\ vaults \in Vaults
  BY DEF Inv, BookInv, Sane
<1> HIDE DEF u, a
<1>4. Follows(vaults, V)
  BY <1>2, <1>3, VaultDepositFollows
<1>5. Sane(V)
  BY <1>4 DEF Follows
<1>6. Gains(V, W, u, a, -x) /\ (Ok(W) => Ok(V))
  <2> HIDE DEF V
  <2> QED BY <1>2, <1>5, ExtendReserveEffect, ExtendReserveGains DEF Leads
<1>7. Gains(vaults, V, u, a, x)
  <2>1. Ok(V)
    BY <1>1, <1>6
  <2> QED BY <1>2, <1>3, <2>1, VaultDepositGains
<1> HIDE DEF V, W
<1>8. Level(vaults, W)
  BY <1>2, <1>3, <1>6, <1>7, GainsBack
<1> QED BY <1>1, <1>8, LevelStaysAfloat DEF Funds, FundsOf

LEMMA WithdrawExtendReserveFunds ==
    ASSUME Inv, Funds, NEW u \in Users, NEW l \in Loans, NEW x \in Amounts,
           WithdrawExtendReserve(u, l, x)
    PROVE  Funds'
<1> DEFINE a == loans[l].lend
           V == On(vaults, UnlienExtendReserve(vaults.ledger, l, u, a, x))
           W == VaultWithdrawERC20(V, u, a, u, x)
<1>1. loans[l].status # "None" /\ vaults' = W /\ offers' = offers
  BY DEF WithdrawExtendReserve, ReserveWithdrawnVaults, Commit
<1>2. a \in Assets /\ x \in Nat /\ x \in Int /\ -x \in Int /\ x + (-x) = 0
  <2>1. a \in Assets
    BY <1>1, OpenedLoan DEF Inv
  <2> QED BY <2>1 DEF Amounts
<1>3. Sane(vaults) /\ vaults \in Vaults
  BY DEF Inv, BookInv, Sane
<1> HIDE DEF a
<1>4. Leads(vaults, V) /\ Gains(vaults, V, u, a, x)
  BY <1>2, <1>3, ExtendReserveEffect, ExtendReserveGains
<1> HIDE DEF V
<1>5. Gains(V, W, u, a, -x)
  BY <1>2, <1>4, VaultWithdrawGains DEF Leads
<1> HIDE DEF W
<1>6. Level(vaults, W)
  BY <1>2, <1>3, <1>4, <1>5, GainsBack
<1> QED BY <1>1, <1>6, LevelStaysAfloat DEF Funds, FundsOf

LEMMA DepositoryFunds ==
    ASSUME Inv, Funds, NEW u \in Users, NEW a \in Assets, NEW x \in Amounts,
           Deposit(u, a, x) \/ Withdraw(u, a, x)
    PROVE  Funds'
<1>1. x \in Nat /\ Sane(vaults)
  BY DEF Amounts, Inv, BookInv
<1>2. CASE Deposit(u, a, x)
  <2> DEFINE W == DepositToVault(vaults, u, a, x)
  <2>1. Ok(W) /\ vaults' = W /\ offers' = offers
    BY <1>2 DEF Deposit, Commit
  <2>2. Level(vaults, W)
    BY <1>1, <2>1, DepositToVaultLevel
  <2> HIDE DEF W
  <2> QED BY <2>1, <2>2, LevelStaysAfloat DEF Funds, FundsOf
<1>3. CASE Withdraw(u, a, x)
  <2> DEFINE W == WithdrawFromVault(vaults, u, a, u, x)
  <2>1. Ok(W) /\ vaults' = W /\ offers' = offers
    BY <1>3 DEF Withdraw, Commit
  <2>2. Level(vaults, W)
    BY <1>1, <2>1, WithdrawFromVaultLevel
  <2> HIDE DEF W
  <2> QED BY <2>1, <2>2, LevelStaysAfloat DEF Funds, FundsOf
<1> QED BY <1>2, <1>3

LEMMA InitFunds == ASSUME Init PROVE Funds
<1>1. \A k \in Keys : Slack(vaults, k) = 0 /\ vaults.wallet[k] \in Nat
  BY OfferBookAssumption DEF Init, Slack, EmptyLedger
<1>2. \A o \in Offers : Whole(offers[o])
  BY DEF Init, NoOffer, Whole
<1> QED BY <1>1, <1>2 DEF Funds, FundsOf, Afloat, Funded

LEMMA NextFunds ==
    ASSUME Inv, Funds, [Next]_vars
    PROVE  Funds'
<1>1. CASE UNCHANGED vars
  BY <1>1 DEF vars, Funds
<1>2. ASSUME NEW u \in Users, NEW a \in Assets, NEW x \in Amounts, Deposit(u, a, x) \/ Withdraw(u, a, x)
      PROVE  Funds'
  BY <1>2, DepositoryFunds
<1>3. ASSUME NEW u \in Users, NEW type \in {"Lender", "Borrower"}, NEW p \in Pairs, NEW t \in Terms,
             NEW o \in Offers, CreateOffer(u, type, p, t, o)
      PROVE  Funds'
  BY <1>3, CreateOfferFunds
<1>4. ASSUME NEW o \in Offers, NEW t \in Terms, ModifyOffer(o, t)
      PROVE  Funds'
  BY <1>4, ModifyOfferFunds
<1>5. ASSUME NEW o \in Offers, CancelOffer(o)
      PROVE  Funds'
  BY <1>5, CancelOfferFunds
<1>6. ASSUME NEW u \in Users, NEW o \in Offers, NEW l \in Loans, AcceptOffer(u, o, l)
      PROVE  Funds'
  BY <1>6, AcceptOfferFunds
<1>7. ASSUME NEW s \in Users, NEW u \in Users, NEW type \in {"Lender", "Borrower"}, NEW p \in Pairs,
             NEW t \in Terms, NEW o \in Offers, NEW l \in Loans,
             AcceptSignedOffer(s, u, type, p, t, o, l)
      PROVE  Funds'
  BY <1>7, AcceptSignedOfferFunds
<1>8. ASSUME NEW lo \in Offers, NEW bo \in Offers, NEW l \in Loans, MatchOffers(lo, bo, l)
      PROVE  Funds'
  BY <1>8, MatchOffersFunds
<1>9. ASSUME NEW s \in Users, NEW type \in {"Lender", "Borrower"}, NEW o \in Offers,
             NEW other \in Offers, NEW m \in Amounts, NEW x \in Amounts, NEW l \in Loans,
             MatchSignedOffer(s, type, o, other, m, x, l)
      PROVE  Funds'
  BY <1>9, MatchSignedOfferFunds
<1>10. ASSUME NEW i \in Intents, NEW x \in Amounts,
              FundLenderIntent(i, x) \/ WithdrawLenderIntentCapital(i, x)
       PROVE  Funds'
  BY <1>10, FundLenderIntentFunds, WithdrawLenderIntentCapitalFunds
<1>11. ASSUME NEW i \in Intents, NEW o \in Offers, NEW bo \in Offers, NEW m \in Amounts,
              NEW x \in Amounts, NEW l \in Loans, MatchIntent(i, o, bo, m, x, l)
       PROVE  Funds'
  BY <1>11, MatchIntentFunds
<1>12. ASSUME NEW l \in Loans, NEW x \in Amounts, FundExtendReserve(l, x)
       PROVE  Funds'
  BY <1>12, FundExtendReserveFunds
<1>13. ASSUME NEW u \in Users, NEW l \in Loans, NEW x \in Amounts, WithdrawExtendReserve(u, l, x)
       PROVE  Funds'
  BY <1>13, WithdrawExtendReserveFunds
<1> QED BY <1>1, <1>2, <1>3, <1>4, <1>5, <1>6, <1>7, <1>8, <1>9, <1>10, <1>11, <1>12, <1>13 DEF Next

LEMMA FundsStay == Spec => [](Inv /\ Funds)
<1>1. Init => Inv /\ Funds
  BY InitInv, InitFunds
<1>2. Inv /\ Funds /\ [Next]_vars => Inv' /\ Funds'
  BY NextInv, NextFunds
<1> QED BY <1>1, <1>2, PTL DEF Spec

(* What is owed out of a vault is in it, and nobody spends tokens they do  *)
(* not have, although no withdraw asks what its caller has still to lien.  *)
THEOREM VaultsStaySolvent == Spec => []VaultsSolvent
<1>1. Inv /\ Funds => VaultsSolvent
  <2> SUFFICES ASSUME Inv, Funds PROVE VaultsSolvent
    OBVIOUS
  <2>1. Sane(vaults) /\ Ok(vaults) /\ Afloat(vaults)
    BY DEF Inv, BookInv, Funds, FundsOf
  <2>2. Solvent(vaults)
    BY <2>1, AfloatIsSolvent
  <2> QED BY <2>1, <2>2 DEF VaultsSolvent, Afloat, Funded
<1> QED BY <1>1, FundsStay, PTL

(* What the depository promises a user stays free in the user's vault,     *)
(* although the protocol's own withdraws do not look at the promise.       *)
THEOREM DepositoryStaysPromised == Spec => []DepositoryPromised
<1>1. Inv /\ Funds => DepositoryPromised
  <2> SUFFICES ASSUME Inv, Funds PROVE DepositoryPromised
    OBVIOUS
  <2>1. Sane(vaults) /\ Ok(vaults) /\ Afloat(vaults)
    BY DEF Inv, BookInv, Funds, FundsOf
  <2> QED BY <2>1, AfloatIsSolvent DEF DepositoryPromised
<1> QED BY <1>1, FundsStay, PTL

(* What backs an escrow can be lifted and taken out at any time.           *)
LEMMA CancelGoesThrough ==
    ASSUME NEW V, Sane(V), Ok(V), Afloat(V), NEW o \in Offers, NEW f, Kept(f), f.status = "open",
           HoldsRemainder(V, f, o)
    PROVE  Ok(CancelledVaults(V, o, f))
<1> DEFINE L == ReleaseOfferPrincipalLien(V.ledger, o)
           R == On(V, L)
           u == f.creator
           a == EscrowAsset(f)
           x == Unfilled(f)
<1>1. u \in Users /\ a \in Assets /\ x \in Nat /\ x \in Int
  BY OpenOffer
<1>2. Backs(V, o, f)
  BY OpenBacked
<1>3. V \in Vaults /\ V.ledger \in Ledger /\ Sound(V.ledger)
  BY SaneLedger
<1>4. L.ok
  BY <1>1, <1>2, <1>3, ReleaseOfferPrincipalLienGoesThrough DEF Backs, OfferLien, Ok
<1>5. Sound(L)
  BY <1>3, ReleaseOfferPrincipalLienSound DEF Grows
<1>6. Gains(V, R, u, a, x)
  BY <1>1, <1>2, ReleaseGains
<1> HIDE DEF L
<1>7. Sane(R) /\ Ok(R)
  BY <1>4, <1>5, OnSane DEF Ok
<1>8. CancelledVaults(V, o, f) = Refund(R, u, a, x)
  BY DEF CancelledVaults, L
<1> HIDE DEF R, u, a, x
<1>9. Afloat(R)
  BY <1>1, <1>3, <1>6, GainsStaysAfloat
<1>10. x <= R.tracked[<<u, a>>] - R.ledger.encumbered[<<u, a>>]
  <2>1. <<u, a>> \in Keys /\ R \in Vaults
    BY <1>1, <1>7 DEF Keys, Sane
  <2>2. Slack(R, <<u, a>>) = Slack(V, <<u, a>>) + x
    BY <1>6, <2>1 DEF Gains, At
  <2>3. Slack(V, <<u, a>>) >= 0 /\ Slack(V, <<u, a>>) \in Int
    BY <1>3, <2>1, SlackIsInt DEF Afloat
  <2>4. /\ R.tracked[<<u, a>>] \in Int /\ R.depository[<<u, a>>] \in Nat
        /\ R.ledger.encumbered[<<u, a>>] \in Int
    BY <2>1, SlackIsInt
  <2> QED BY <1>1, <2>2, <2>3, <2>4 DEF Slack
<1> QED BY <1>1, <1>7, <1>8, <1>9, <1>10, VaultWithdrawOk DEF Refund

LEMMA WithdrawIntentGoesThrough ==
    ASSUME NEW V, Sane(V), Ok(V), Afloat(V), NEW i \in Intents, NEW x \in Nat,
           x <= V.ledger.intentCapital[i]
    PROVE  Ok(IntentWithdrawnVaults(V, i, x))
<1> DEFINE L == UnlienIntentCapital(V.ledger, i, x)
           R == On(V, L)
           u == IntentOwner[i]
           a == IntentLend[i]
<1>1. u \in Users /\ a \in Assets /\ x \in Int
  BY EncumbranceAssumption DEF Intents
<1>3. V \in Vaults /\ V.ledger \in Ledger /\ Sound(V.ledger)
  BY SaneLedger
<1>4. L.ok
  BY <1>3, UnlienIntentCapitalGoesThrough DEF Ok
<1>5. Sound(L)
  BY <1>3, UnlienIntentCapitalSound DEF Grows
<1>6. Gains(V, R, u, a, x)
  BY UnlienIntentGains
<1> HIDE DEF L
<1>7. Sane(R) /\ Ok(R)
  BY <1>4, <1>5, OnSane DEF Ok
<1>8. IntentWithdrawnVaults(V, i, x) = VaultWithdrawERC20(R, u, a, u, x)
  BY DEF IntentWithdrawnVaults, L
<1> HIDE DEF R, u, a
<1>9. Afloat(R)
  BY <1>3, <1>6, GainsStaysAfloat
<1>10. x <= R.tracked[<<u, a>>] - R.ledger.encumbered[<<u, a>>]
  <2>1. <<u, a>> \in Keys /\ R \in Vaults
    BY <1>1, <1>7 DEF Keys, Sane
  <2>2. Slack(R, <<u, a>>) = Slack(V, <<u, a>>) + x
    BY <1>6, <2>1 DEF Gains, At
  <2>3. Slack(V, <<u, a>>) >= 0 /\ Slack(V, <<u, a>>) \in Int
    BY <1>3, <2>1, SlackIsInt DEF Afloat
  <2>4. /\ R.tracked[<<u, a>>] \in Int /\ R.depository[<<u, a>>] \in Nat
        /\ R.ledger.encumbered[<<u, a>>] \in Int
    BY <2>1, SlackIsInt
  <2> QED BY <1>1, <2>2, <2>3, <2>4 DEF Slack
<1> QED BY <1>1, <1>7, <1>8, <1>9, <1>10, VaultWithdrawOk

LEMMA WithdrawReserveGoesThrough ==
    ASSUME NEW V, Sane(V), Ok(V), Afloat(V), NEW l \in Loans, NEW u \in Users, NEW a \in Assets,
           NEW x \in Nat, x <= V.ledger.setAside["extendReserve"][l][<<u, a>>]
    PROVE  Ok(ReserveWithdrawnVaults(V, l, u, a, x))
<1> DEFINE L == UnlienExtendReserve(V.ledger, l, u, a, x)
           R == On(V, L)
<1>1. x \in Int
  OBVIOUS
<1>3. V \in Vaults /\ V.ledger \in Ledger /\ Sound(V.ledger)
  BY SaneLedger
<1>4. L.ok
  BY <1>3, UnlienExtendReserveGoesThrough DEF Ok
<1>5. Sound(L)
  BY <1>3, ExtendReserveSound DEF Grows
<1>6. Gains(V, R, u, a, x)
  BY ExtendReserveGains
<1>8. ReserveWithdrawnVaults(V, l, u, a, x) = VaultWithdrawERC20(R, u, a, u, x)
  BY DEF ReserveWithdrawnVaults
<1> HIDE DEF L
<1>7. Sane(R) /\ Ok(R)
  BY <1>4, <1>5, OnSane DEF Ok
<1> HIDE DEF R
<1>9. Afloat(R)
  BY <1>3, <1>6, GainsStaysAfloat
<1>10. x <= R.tracked[<<u, a>>] - R.ledger.encumbered[<<u, a>>]
  <2>1. <<u, a>> \in Keys /\ R \in Vaults
    BY <1>7 DEF Keys, Sane
  <2>2. Slack(R, <<u, a>>) = Slack(V, <<u, a>>) + x
    BY <1>6, <2>1 DEF Gains, At
  <2>3. Slack(V, <<u, a>>) >= 0 /\ Slack(V, <<u, a>>) \in Int
    BY <1>3, <2>1, SlackIsInt DEF Afloat
  <2>4. /\ R.tracked[<<u, a>>] \in Int /\ R.depository[<<u, a>>] \in Nat
        /\ R.ledger.encumbered[<<u, a>>] \in Int
    BY <2>1, SlackIsInt
  <2> QED BY <1>1, <2>2, <2>3, <2>4 DEF Slack
<1> QED BY <1>1, <1>7, <1>8, <1>9, <1>10, VaultWithdrawOk

(* Nobody can make the cancellation of an open offer, the return of an     *)
(* intent's capital or the withdrawal of an extension reserve revert: the  *)
(* row is never more than the aggregate, and the vault never short of what *)
(* the row held back.                                                      *)
THEOREM EscrowStaysReturnable == Spec => []EscrowReturnable
<1>1. Inv /\ Funds => EscrowReturnable
  <2> SUFFICES ASSUME Inv, Funds PROVE EscrowReturnable
    OBVIOUS
  <2>1. Sane(vaults) /\ Ok(vaults) /\ Afloat(vaults) /\ vaults.ledger \in Ledger
    BY SaneLedger DEF Inv, BookInv, Funds, FundsOf
  <2>2. ASSUME NEW o \in Offers, offers[o].status = "open"
        PROVE  Ok(CancelledVaults(vaults, o, offers[o]))
    <3>1. Kept(offers[o]) /\ HoldsRemainder(vaults, offers[o], o)
      BY DEF Inv, BookInv
    <3> QED BY <2>1, <2>2, <3>1, CancelGoesThrough
  <2>3. ASSUME NEW i \in Intents
        PROVE  Ok(IntentWithdrawnVaults(vaults, i, vaults.ledger.intentCapital[i]))
    <3>1. vaults.ledger.intentCapital[i] \in Nat
      BY <2>1 DEF Ledger
    <3> QED BY <2>1, <3>1, WithdrawIntentGoesThrough
  <2>4. ASSUME NEW l \in Loans, NEW u \in Users, NEW a \in Assets
        PROVE  Ok(ReserveWithdrawnVaults(vaults, l, u, a, vaults.ledger.setAside["extendReserve"][l][<<u, a>>]))
    <3>1. vaults.ledger.setAside["extendReserve"][l][<<u, a>>] \in Nat
      BY <2>1, HeldIsNat DEF Asides
    <3> QED BY <2>1, <3>1, WithdrawReserveGoesThrough
  <2> QED BY <2>2, <2>3, <2>4 DEF EscrowReturnable
<1> QED BY <1>1, FundsStay, PTL

=============================================================================
