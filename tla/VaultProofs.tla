----------------------------- MODULE VaultProofs -----------------------------
(***************************************************************************)
(* The operations of the encumbrance ledger keep it balanced: whatever     *)
(* the number of users, assets, loans, offers and intents, the aggregate   *)
(* the withdraw guard trusts stays the sum of the rows nobody ever adds    *)
(* up.  An operation the code would revert leaves a ledger that is not ok, *)
(* of which nothing is claimed.  RekeyLienToHolder, which also moves the   *)
(* reservations, is not among them: LoanPositionsProofs has it.            *)
(*                                                                         *)
(* What moving tokens in and out of vaults does to the ledger: nothing,    *)
(* but for the calls it makes revert; and to the slack of the vaults, what *)
(* they hold beyond what is reserved of them or promised to their owners.  *)
(***************************************************************************)
EXTENDS Vault, LedgerSumsProofs

USE EncumbranceAssumption

(* A ledger of the right shape whose books balance unless it reverted.     *)
Sound(L) == L \in Ledger /\ (L.ok => Balanced(L))

SameParties(L, M) == M.lender = L.lender /\ M.borrower = L.borrower

-----------------------------------------------------------------------------
(* Each row contributes a natural number to each key.                      *)
LEMMA TermsAreNat ==
    ASSUME NEW L \in Ledger, NEW k \in Keys
    PROVE  /\ \A l \in Loans : /\ LienTerm(L.loanCollateralLien[l], k) \in Nat
                               /\ \A e \in Lanes : ReservedTerm(L, e, l, k) \in Nat
                               /\ \A p \in Asides : L.setAside[p][l][k] \in Nat
                               /\ LoanTerm(L, l, k) \in Nat
           /\ \A o \in Offers : OfferTerm(L, o, k) \in Nat
           /\ \A i \in Intents : IntentTerm(L, i, k) \in Nat
<1>1. \A r \in Lien : LienTerm(r, k) \in Nat
  BY DEF LienTerm, At, Lien
<1>2. \A l \in Loans, e \in Lanes : ReservedTerm(L, e, l, k) \in Nat
  BY DEF ReservedTerm, At, Ledger, Reservation
<1>3. \A l \in Loans : LienTerm(L.loanCollateralLien[l], k) \in Nat
  BY <1>1 DEF Ledger
<1>7. \A l \in Loans, p \in Asides : L.setAside[p][l][k] \in Nat
  BY DEF Ledger
<1>4. ASSUME NEW l \in Loans PROVE LoanTerm(L, l, k) \in Nat
  <2>1. /\ ReservedTerm(L, "lenderProceeds", l, k) \in Nat
        /\ ReservedTerm(L, "heldForLender", l, k) \in Nat
        /\ ReservedTerm(L, "borrowerProceeds", l, k) \in Nat
    BY <1>2 DEF Lanes
  <2>2. L.setAside["sellerInterestHeld"][l][k] \in Nat /\ L.setAside["extendReserve"][l][k] \in Nat
    BY <1>7 DEF Asides
  <2>3. LienTerm(L.loanCollateralLien[l], k) \in Nat
    BY <1>3
  <2> QED BY ONLY <2>1, <2>2, <2>3 DEF LoanTerm
<1>5. \A o \in Offers : OfferTerm(L, o, k) \in Nat
  BY <1>1 DEF Ledger, OfferTerm
<1>6. \A i \in Intents : IntentTerm(L, i, k) \in Nat
  BY DEF Ledger, IntentTerm, At, Intents
<1> QED BY <1>2, <1>3, <1>4, <1>5, <1>6, <1>7

LEMMA TotalsAreNat ==
    ASSUME NEW L \in Ledger, NEW k \in Keys
    PROVE  LoansOwe(L, k) \in Nat /\ OffersOwe(L, k) \in Nat /\ IntentsOwe(L, k) \in Nat
<1>1. LoansOwe(L, k) \in Nat
  BY TermsAreNat, TotalBounds DEF Loans, LoansOwe
<1>2. OffersOwe(L, k) \in Nat
  BY TermsAreNat, TotalBounds DEF Offers, OffersOwe
<1>3. IntentsOwe(L, k) \in Nat
  BY TermsAreNat, TotalBounds DEF Intents, IntentsOwe
<1> QED BY <1>1, <1>2, <1>3

(* If one loan's rows and the aggregate change by the same amount at every *)
(* key, and nothing else changes, the books still balance.                 *)
LEMMA LoanStep ==
    ASSUME NEW L \in Ledger, NEW M \in Ledger, NEW l \in Loans, Balanced(L),
           M.offerPrincipalLien = L.offerPrincipalLien,
           M.intentCapital = L.intentCapital,
           \A j \in Loans, k \in Keys : j # l => LoanTerm(M, j, k) = LoanTerm(L, j, k),
           \A k \in Keys : M.encumbered[k] = L.encumbered[k] - LoanTerm(L, l, k) + LoanTerm(M, l, k)
    PROVE  Balanced(M)
<1> SUFFICES ASSUME NEW k \in Keys PROVE M.encumbered[k] = Owed(M, k)
  BY DEF Balanced
<1> DEFINE fL == [j \in Loans |-> LoanTerm(L, j, k)]
           fM == [j \in Loans |-> LoanTerm(M, j, k)]
<1>1. \A j \in 1..MaxLoans : fL[j] \in Int /\ fM[j] \in Int
  BY TermsAreNat DEF Loans
<1>2. \A j \in 1..MaxLoans : j # l => fM[j] = fL[j]
  BY DEF Loans
<1>3. fL[l] = LoanTerm(L, l, k) /\ fM[l] = LoanTerm(M, l, k) /\ l \in 1..MaxLoans
  BY DEF Loans
<1>4. /\ Total(fL, MaxLoans) \in Int
      /\ Total(fM, MaxLoans) = Total(fL, MaxLoans) - LoanTerm(L, l, k) + LoanTerm(M, l, k)
  <2> HIDE DEF fL, fM
  <2>1. MaxLoans \in Nat
    OBVIOUS
  <2>2. Total(fL, MaxLoans) \in Int /\ Total(fM, MaxLoans) = Total(fL, MaxLoans) - fL[l] + fM[l]
    BY ONLY <2>1, <1>1, <1>2, <1>3, TotalUpdate
  <2> QED BY <1>3, <2>2
<1>5. OffersOwe(M, k) = OffersOwe(L, k) /\ IntentsOwe(M, k) = IntentsOwe(L, k)
  BY DEF OfferTerm, IntentTerm, OffersOwe, IntentsOwe
<1>6. OffersOwe(L, k) \in Int /\ IntentsOwe(L, k) \in Int
  BY TotalsAreNat
<1>7. L.encumbered[k] = LoansOwe(L, k) + OffersOwe(L, k) + IntentsOwe(L, k)
  BY DEF Balanced, Owed
<1>8. LoansOwe(L, k) = Total(fL, MaxLoans) /\ LoansOwe(M, k) = Total(fM, MaxLoans)
  BY DEF LoansOwe
<1>9. Owed(M, k) = LoansOwe(M, k) + OffersOwe(L, k) + IntentsOwe(L, k)
  BY <1>5 DEF Owed
<1>10. LoanTerm(L, l, k) \in Int /\ LoanTerm(M, l, k) \in Int
  BY TermsAreNat
<1> HIDE DEF fL, fM
<1> QED BY <1>4, <1>6, <1>7, <1>8, <1>9, <1>10

(* The same for one offer's lien and for one intent's capital.             *)
LEMMA OfferStep ==
    ASSUME NEW L \in Ledger, NEW M \in Ledger, NEW o \in Offers, Balanced(L),
           \A j \in Offers : j # o => M.offerPrincipalLien[j] = L.offerPrincipalLien[j],
           M.loanCollateralLien = L.loanCollateralLien, M.reserved = L.reserved,
           M.lender = L.lender, M.borrower = L.borrower, M.intentCapital = L.intentCapital,
           M.setAside = L.setAside,
           \A k \in Keys : M.encumbered[k] =
               L.encumbered[k] - LienTerm(L.offerPrincipalLien[o], k)
                               + LienTerm(M.offerPrincipalLien[o], k)
    PROVE  Balanced(M)
<1> SUFFICES ASSUME NEW k \in Keys PROVE M.encumbered[k] = Owed(M, k)
  BY DEF Balanced
<1> DEFINE fL == [j \in Offers |-> OfferTerm(L, j, k)]
           fM == [j \in Offers |-> OfferTerm(M, j, k)]
<1>1. \A j \in 1..MaxOffers : fL[j] \in Int /\ fM[j] \in Int
  BY TermsAreNat DEF Offers
<1>2. \A j \in 1..MaxOffers : j # o => fM[j] = fL[j]
  BY DEF Offers, OfferTerm, Ledger
<1>3. /\ fL[o] = LienTerm(L.offerPrincipalLien[o], k) /\ fM[o] = LienTerm(M.offerPrincipalLien[o], k)
      /\ o \in 1..MaxOffers
  BY DEF Offers, OfferTerm, Ledger
<1>4. MaxOffers \in Nat
  OBVIOUS
<1>5. /\ Total(fL, MaxOffers) \in Int
      /\ Total(fM, MaxOffers) = Total(fL, MaxOffers) - fL[o] + fM[o]
  <2> HIDE DEF fL, fM
  <2> QED BY ONLY <1>1, <1>2, <1>3, <1>4, TotalUpdate
<1>6. LoansOwe(L, k) \in Int /\ IntentsOwe(L, k) \in Int
  BY TotalsAreNat
<1>7. L.encumbered[k] = LoansOwe(L, k) + OffersOwe(L, k) + IntentsOwe(L, k)
  BY DEF Balanced, Owed
<1>8. /\ OffersOwe(L, k) = Total(fL, MaxOffers) /\ OffersOwe(M, k) = Total(fM, MaxOffers)
      /\ LoansOwe(M, k) = LoansOwe(L, k) /\ IntentsOwe(M, k) = IntentsOwe(L, k)
  BY DEF LoansOwe, OffersOwe, IntentsOwe, LoanTerm, ReservedTerm, Party, OfferTerm, IntentTerm
<1>10. Owed(M, k) = LoansOwe(M, k) + OffersOwe(M, k) + IntentsOwe(M, k)
  BY DEF Owed
<1>9. fL[o] \in Int /\ fM[o] \in Int
  BY <1>1, <1>3
<1> HIDE DEF fL, fM
<1> QED BY <1>3, <1>5, <1>6, <1>7, <1>8, <1>9, <1>10

LEMMA IntentStep ==
    ASSUME NEW L \in Ledger, NEW M \in Ledger, NEW i \in Intents, Balanced(L),
           \A j \in Intents : j # i => M.intentCapital[j] = L.intentCapital[j],
           M.loanCollateralLien = L.loanCollateralLien, M.reserved = L.reserved,
           M.setAside = L.setAside,
           M.lender = L.lender, M.borrower = L.borrower,
           M.offerPrincipalLien = L.offerPrincipalLien,
           \A k \in Keys : M.encumbered[k] =
               L.encumbered[k] - IntentTerm(L, i, k) + IntentTerm(M, i, k)
    PROVE  Balanced(M)
<1> SUFFICES ASSUME NEW k \in Keys PROVE M.encumbered[k] = Owed(M, k)
  BY DEF Balanced
<1> DEFINE fL == [j \in Intents |-> IntentTerm(L, j, k)]
           fM == [j \in Intents |-> IntentTerm(M, j, k)]
<1>1. \A j \in 1..MaxIntents : fL[j] \in Int /\ fM[j] \in Int
  BY TermsAreNat DEF Intents
<1>2. \A j \in 1..MaxIntents : j # i => fM[j] = fL[j]
  BY DEF Intents, IntentTerm
<1>3. /\ fL[i] = IntentTerm(L, i, k) /\ fM[i] = IntentTerm(M, i, k)
      /\ i \in 1..MaxIntents
  BY DEF Intents, IntentTerm
<1>4. MaxIntents \in Nat
  OBVIOUS
<1>5. /\ Total(fL, MaxIntents) \in Int
      /\ Total(fM, MaxIntents) = Total(fL, MaxIntents) - fL[i] + fM[i]
  <2> HIDE DEF fL, fM
  <2> QED BY ONLY <1>1, <1>2, <1>3, <1>4, TotalUpdate
<1>6. LoansOwe(L, k) \in Int /\ OffersOwe(L, k) \in Int
  BY TotalsAreNat
<1>7. L.encumbered[k] = LoansOwe(L, k) + OffersOwe(L, k) + IntentsOwe(L, k)
  BY DEF Balanced, Owed
<1>8. /\ IntentsOwe(L, k) = Total(fL, MaxIntents) /\ IntentsOwe(M, k) = Total(fM, MaxIntents)
      /\ LoansOwe(M, k) = LoansOwe(L, k) /\ OffersOwe(M, k) = OffersOwe(L, k)
  BY DEF LoansOwe, OffersOwe, IntentsOwe, LoanTerm, ReservedTerm, Party, OfferTerm, IntentTerm
<1>10. Owed(M, k) = LoansOwe(M, k) + OffersOwe(M, k) + IntentsOwe(M, k)
  BY DEF Owed
<1>9. fL[i] \in Int /\ fM[i] \in Int
  BY <1>1, <1>3
<1> HIDE DEF fL, fM
<1> QED BY <1>3, <1>5, <1>6, <1>7, <1>8, <1>9, <1>10

(* A step that changes one loan's lien, or one of its reservations.        *)
LEMMA LienStep ==
    ASSUME NEW L \in Ledger, NEW M \in Ledger, NEW l \in Loans, Balanced(L),
           \A j \in Loans : j # l => M.loanCollateralLien[j] = L.loanCollateralLien[j],
           M.reserved = L.reserved, M.lender = L.lender, M.borrower = L.borrower,
           M.offerPrincipalLien = L.offerPrincipalLien, M.intentCapital = L.intentCapital,
           M.setAside = L.setAside,
           \A k \in Keys : M.encumbered[k] =
               L.encumbered[k] - LienTerm(L.loanCollateralLien[l], k)
                               + LienTerm(M.loanCollateralLien[l], k)
    PROVE  Balanced(M)
<1>2. \A j \in Loans, k \in Keys, e \in Lanes : ReservedTerm(M, e, j, k) = ReservedTerm(L, e, j, k)
  BY DEF ReservedTerm, Party
<1>3. \A j \in Loans, k \in Keys : j # l => LoanTerm(M, j, k) = LoanTerm(L, j, k)
  BY <1>2 DEF LoanTerm, Lanes
<1>4. ASSUME NEW k \in Keys
      PROVE M.encumbered[k] = L.encumbered[k] - LoanTerm(L, l, k) + LoanTerm(M, l, k)
  <2>1. L.encumbered[k] \in Int
    BY DEF Ledger
  <2>2. \A e \in Lanes : ReservedTerm(L, e, l, k) \in Int
    BY TermsAreNat
  <2>3. LienTerm(L.loanCollateralLien[l], k) \in Int /\ LienTerm(M.loanCollateralLien[l], k) \in Int
    BY TermsAreNat
  <2>4. L.setAside["sellerInterestHeld"][l][k] \in Int /\ L.setAside["extendReserve"][l][k] \in Int
    BY TermsAreNat DEF Asides
  <2>5. /\ ReservedTerm(L, "lenderProceeds", l, k) \in Int
        /\ ReservedTerm(L, "heldForLender", l, k) \in Int
        /\ ReservedTerm(L, "borrowerProceeds", l, k) \in Int
        /\ ReservedTerm(M, "lenderProceeds", l, k) = ReservedTerm(L, "lenderProceeds", l, k)
        /\ ReservedTerm(M, "heldForLender", l, k) = ReservedTerm(L, "heldForLender", l, k)
        /\ ReservedTerm(M, "borrowerProceeds", l, k) = ReservedTerm(L, "borrowerProceeds", l, k)
    BY <1>2, <2>2 DEF Lanes
  <2>6. M.setAside = L.setAside /\ M.encumbered[k] = L.encumbered[k] - LienTerm(L.loanCollateralLien[l], k)
                                                                   + LienTerm(M.loanCollateralLien[l], k)
    OBVIOUS
  <2> QED BY ONLY <2>1, <2>3, <2>4, <2>5, <2>6 DEF LoanTerm
<1> QED BY <1>3, <1>4, LoanStep

LEMMA ReservedStep ==
    ASSUME NEW L \in Ledger, NEW M \in Ledger, NEW l \in Loans, NEW e \in Lanes, Balanced(L),
           \A d \in Lanes, j \in Loans : d # e \/ j # l => M.reserved[d][j] = L.reserved[d][j],
           M.loanCollateralLien = L.loanCollateralLien,
           M.lender = L.lender, M.borrower = L.borrower,
           M.offerPrincipalLien = L.offerPrincipalLien, M.intentCapital = L.intentCapital,
           M.setAside = L.setAside,
           \A k \in Keys : M.encumbered[k] =
               L.encumbered[k] - ReservedTerm(L, e, l, k) + ReservedTerm(M, e, l, k)
    PROVE  Balanced(M)
<1>3. \A j \in Loans, d \in Lanes, k \in Keys : j # l \/ d # e =>
          ReservedTerm(M, d, j, k) = ReservedTerm(L, d, j, k)
  BY DEF ReservedTerm, Party
<1>4. \A j \in Loans, k \in Keys : j # l => LoanTerm(M, j, k) = LoanTerm(L, j, k)
  BY <1>3 DEF LoanTerm, Lanes
<1>5. ASSUME NEW k \in Keys
      PROVE M.encumbered[k] = L.encumbered[k] - LoanTerm(L, l, k) + LoanTerm(M, l, k)
  <2>1. /\ \A d \in Lanes : ReservedTerm(L, d, l, k) \in Int
        /\ \A d \in Lanes : ReservedTerm(M, d, l, k) \in Int
        /\ LienTerm(L.loanCollateralLien[l], k) \in Int
    BY TermsAreNat
  <2>0. L.encumbered[k] \in Int
    BY DEF Ledger
  <2>7. /\ L.setAside["sellerInterestHeld"][l][k] \in Int /\ L.setAside["extendReserve"][l][k] \in Int
        /\ M.setAside = L.setAside
    BY TermsAreNat DEF Asides
  <2>8. LienTerm(M.loanCollateralLien[l], k) = LienTerm(L.loanCollateralLien[l], k)
    OBVIOUS
  <2>2. \A d \in Lanes : d # e => ReservedTerm(M, d, l, k) = ReservedTerm(L, d, l, k)
    BY <1>3
  <2>3. M.encumbered[k] = L.encumbered[k] - ReservedTerm(L, e, l, k) + ReservedTerm(M, e, l, k)
    OBVIOUS
  <2>4. CASE e = "lenderProceeds"
    BY ONLY <2>0, <2>1, <2>2, <2>3, <2>4, <2>7, <2>8 DEF LoanTerm, Lanes
  <2>5. CASE e = "heldForLender"
    BY ONLY <2>0, <2>1, <2>2, <2>3, <2>5, <2>7, <2>8 DEF LoanTerm, Lanes
  <2>6. CASE e = "borrowerProceeds"
    BY ONLY <2>0, <2>1, <2>2, <2>3, <2>6, <2>7, <2>8 DEF LoanTerm, Lanes
  <2> QED BY <2>4, <2>5, <2>6 DEF Lanes
<1> QED BY <1>4, <1>5, LoanStep

(* A step that changes what is set aside for one loan in one vault.        *)
LEMMA SetAsideStep ==
    ASSUME NEW L \in Ledger, NEW M \in Ledger, NEW l \in Loans, NEW p \in Asides, Balanced(L),
           \A q \in Asides, j \in Loans : q # p \/ j # l => M.setAside[q][j] = L.setAside[q][j],
           M.loanCollateralLien = L.loanCollateralLien, M.reserved = L.reserved,
           M.lender = L.lender, M.borrower = L.borrower,
           M.offerPrincipalLien = L.offerPrincipalLien, M.intentCapital = L.intentCapital,
           \A k \in Keys : M.encumbered[k] =
               L.encumbered[k] - L.setAside[p][l][k] + M.setAside[p][l][k]
    PROVE  Balanced(M)
<1>1. \A j \in Loans, e \in Lanes, k \in Keys : ReservedTerm(M, e, j, k) = ReservedTerm(L, e, j, k)
  BY DEF ReservedTerm, Party
<1>2. \A j \in Loans, k \in Keys : j # l => LoanTerm(M, j, k) = LoanTerm(L, j, k)
  BY <1>1 DEF LoanTerm, Lanes, Asides
<1>3. ASSUME NEW k \in Keys
      PROVE M.encumbered[k] = L.encumbered[k] - LoanTerm(L, l, k) + LoanTerm(M, l, k)
  <2>1. /\ \A e \in Lanes : ReservedTerm(L, e, l, k) \in Int
        /\ LienTerm(L.loanCollateralLien[l], k) \in Int
        /\ \A q \in Asides : L.setAside[q][l][k] \in Int /\ M.setAside[q][l][k] \in Int
    BY TermsAreNat
  <2>2. L.encumbered[k] \in Int
    BY DEF Ledger
  <2>3. \A e \in Lanes : ReservedTerm(M, e, l, k) = ReservedTerm(L, e, l, k)
    BY <1>1
  <2>4. \A q \in Asides : q # p => M.setAside[q][l][k] = L.setAside[q][l][k]
    OBVIOUS
  <2>5. M.encumbered[k] = L.encumbered[k] - L.setAside[p][l][k] + M.setAside[p][l][k]
    OBVIOUS
  <2>6. LienTerm(M.loanCollateralLien[l], k) = LienTerm(L.loanCollateralLien[l], k)
    OBVIOUS
  <2>7. CASE p = "sellerInterestHeld"
    BY ONLY <2>1, <2>2, <2>3, <2>4, <2>5, <2>6, <2>7 DEF LoanTerm, Lanes, Asides
  <2>8. CASE p = "extendReserve"
    BY ONLY <2>1, <2>2, <2>3, <2>4, <2>5, <2>6, <2>8 DEF LoanTerm, Lanes, Asides
  <2> QED BY <2>7, <2>8 DEF Asides
<1> QED BY <1>2, <1>3, LoanStep

-----------------------------------------------------------------------------
(* The aggregate's own operations.                                         *)

(* L and M agree but for the aggregate and ok. *)
SameRows(L, M) ==
    /\ M.loanCollateralLien = L.loanCollateralLien
    /\ M.offerPrincipalLien = L.offerPrincipalLien
    /\ M.reserved = L.reserved
    /\ M.intentCapital = L.intentCapital
    /\ M.setAside = L.setAside
    /\ SameParties(L, M)

LEMMA RaiseEffect ==
    ASSUME NEW L \in Ledger, NEW u, NEW a, NEW x \in Int
    PROVE  /\ Raise(L, u, a, x) \in Ledger
           /\ SameRows(L, Raise(L, u, a, x))
           /\ Raise(L, u, a, x).ok = L.ok
           /\ \A k \in Keys : Raise(L, u, a, x).encumbered[k] = L.encumbered[k] + At(k, u, a, x)
<1> DEFINE M == Raise(L, u, a, x)
<1>1. M = [L EXCEPT !.encumbered = [L.encumbered EXCEPT ![<<u, a>>] = @ + x]]
  BY DEF Raise, Ledger
<1>2. [L.encumbered EXCEPT ![<<u, a>>] = @ + x] \in [Keys -> Int]
  <2>1. L.encumbered \in [Keys -> Int]
    BY DEF Ledger
  <2>2. CASE <<u, a>> \in Keys
    BY <2>1, <2>2
  <2>3. CASE <<u, a>> \notin Keys
    BY <2>1, <2>3
  <2> QED BY <2>2, <2>3
<1>3. M.encumbered = [L.encumbered EXCEPT ![<<u, a>>] = @ + x]
  BY <1>1 DEF Ledger
<1>4. M \in Ledger
  BY <1>1, <1>2 DEF Ledger
<1>5. SameRows(L, M) /\ M.ok = L.ok
  BY <1>1 DEF SameRows, SameParties, Ledger
<1>6. \A k \in Keys : M.encumbered[k] = L.encumbered[k] + At(k, u, a, x)
  <2> TAKE k \in Keys
  <2>1. L.encumbered \in [Keys -> Int]
    BY DEF Ledger
  <2>2. CASE k = <<u, a>>
    BY <1>3, <2>1, <2>2 DEF At
  <2>3. CASE k # <<u, a>>
    BY <1>3, <2>1, <2>3 DEF At
  <2> QED BY <2>2, <2>3
<1> QED BY <1>4, <1>5, <1>6

LEMMA RequireEffect ==
    ASSUME NEW L \in Ledger, NEW p \in BOOLEAN
    PROVE  /\ Require(L, p) \in Ledger
           /\ SameRows(L, Require(L, p))
           /\ Require(L, p).encumbered = L.encumbered
           /\ Require(L, p).ok = (L.ok /\ p)
BY DEF Require, Ledger, SameRows, SameParties

LEMMA LowerEffect ==
    ASSUME NEW L \in Ledger, NEW u, NEW a, NEW x \in Int
    PROVE  /\ Lower(L, u, a, x) \in Ledger
           /\ SameRows(L, Lower(L, u, a, x))
           /\ Lower(L, u, a, x).ok \in BOOLEAN
           /\ Lower(L, u, a, x).ok => L.ok
           /\ Lower(L, u, a, x).ok => <<u, a>> \in Keys /\ x <= L.encumbered[<<u, a>>]
           /\ \A k \in Keys : Lower(L, u, a, x).encumbered[k] = L.encumbered[k] - At(k, u, a, x)
<1>1. -x \in Int /\ \A k \in Keys : At(k, u, a, -x) = - At(k, u, a, x) /\ At(k, u, a, x) \in Int
  BY DEF At
<1>2. /\ Raise(L, u, a, -x) \in Ledger
      /\ SameRows(L, Raise(L, u, a, -x))
      /\ Raise(L, u, a, -x).ok = L.ok
      /\ \A k \in Keys : Raise(L, u, a, -x).encumbered[k] = L.encumbered[k] + At(k, u, a, -x)
  BY <1>1, RaiseEffect
<1>3. (<<u, a>> \in Keys /\ x <= L.encumbered[<<u, a>>]) \in BOOLEAN
  OBVIOUS
<1>4. /\ Lower(L, u, a, x) \in Ledger
      /\ SameRows(Raise(L, u, a, -x), Lower(L, u, a, x))
      /\ Lower(L, u, a, x).encumbered = Raise(L, u, a, -x).encumbered
      /\ Lower(L, u, a, x).ok = (Raise(L, u, a, -x).ok /\ (<<u, a>> \in Keys /\ x <= L.encumbered[<<u, a>>]))
  BY ONLY <1>2, <1>3, RequireEffect DEF Lower
<1>5. L.ok \in BOOLEAN /\ \A k \in Keys : L.encumbered[k] \in Int
  BY DEF Ledger
<1> QED BY <1>1, <1>2, <1>4, <1>5 DEF SameRows, SameParties


LEMMA LowerRows ==
    ASSUME NEW L \in Ledger, NEW u, NEW a, NEW x \in Nat
    PROVE  /\ Lower(L, u, a, x) \in Ledger
           /\ SameRows(L, Lower(L, u, a, x))
           /\ Lower(L, u, a, x).ok => L.ok
<1>1. x \in Int
  OBVIOUS
<1>2. Lower(L, u, a, x) \in Ledger /\ SameRows(L, Lower(L, u, a, x))
  BY <1>1, LowerEffect
<1>3. Lower(L, u, a, x).ok => L.ok
  BY <1>1, LowerEffect
<1> QED BY <1>2, <1>3

(* Requiring more of a ledger keeps it sound.                              *)
LEMMA RequireSound ==
    ASSUME NEW L, Sound(L), NEW p \in BOOLEAN
    PROVE  /\ Sound(Require(L, p))
           /\ SameParties(L, Require(L, p))
           /\ Require(L, p).ok = (L.ok /\ p)
<1>1. L \in Ledger
  BY DEF Sound
<1>2. /\ Require(L, p) \in Ledger /\ SameRows(L, Require(L, p))
      /\ Require(L, p).encumbered = L.encumbered
      /\ Require(L, p).ok = (L.ok /\ p)
  BY <1>1, RequireEffect
<1>3. Balanced(L) => Balanced(Require(L, p))
  BY <1>2 DEF Balanced, Owed, LoansOwe, OffersOwe, IntentsOwe, LoanTerm, OfferTerm, IntentTerm,
              ReservedTerm, Party, SameRows, SameParties
<1> QED BY <1>2, <1>3 DEF Sound, SameRows

-----------------------------------------------------------------------------
(* A row is written, and the aggregate raised or lowered by the amount by  *)
(* which what the row says is owed has grown or shrunk.  First collateral  *)
(* liens.                                                                  *)

LEMMA SetLienEffect ==
    ASSUME NEW L \in Ledger, NEW l \in Loans, NEW r \in Lien
    PROVE  /\ SetLien(L, l, r) \in Ledger
           /\ SetLien(L, l, r).loanCollateralLien[l] = r
           /\ \A j \in Loans : j # l => SetLien(L, l, r).loanCollateralLien[j] = L.loanCollateralLien[j]
           /\ SetLien(L, l, r).offerPrincipalLien = L.offerPrincipalLien
           /\ SetLien(L, l, r).reserved = L.reserved
           /\ SetLien(L, l, r).intentCapital = L.intentCapital
           /\ SetLien(L, l, r).setAside = L.setAside
           /\ SameParties(L, SetLien(L, l, r))
           /\ SetLien(L, l, r).ok = L.ok
           /\ SetLien(L, l, r).encumbered = L.encumbered
BY DEF SetLien, Ledger, SameParties

LEMMA LienUp ==
    ASSUME NEW L, Sound(L), NEW l \in Loans, NEW r \in Lien, NEW u, NEW a, NEW x \in Nat,
           \A k \in Keys : LienTerm(r, k) = LienTerm(L.loanCollateralLien[l], k) + At(k, u, a, x)
    PROVE  /\ Sound(Raise(SetLien(L, l, r), u, a, x))
           /\ SameParties(L, Raise(SetLien(L, l, r), u, a, x))
           /\ Raise(SetLien(L, l, r), u, a, x).ok => L.ok
           /\ Raise(SetLien(L, l, r), u, a, x).loanCollateralLien[l] = r
           /\ \A j \in Loans : j # l => Raise(SetLien(L, l, r), u, a, x).loanCollateralLien[j] = L.loanCollateralLien[j]
           /\ Raise(SetLien(L, l, r), u, a, x).offerPrincipalLien = L.offerPrincipalLien
           /\ Raise(SetLien(L, l, r), u, a, x).reserved = L.reserved
           /\ Raise(SetLien(L, l, r), u, a, x).intentCapital = L.intentCapital
           /\ Raise(SetLien(L, l, r), u, a, x).setAside = L.setAside
<1> DEFINE S == SetLien(L, l, r)
           M == Raise(S, u, a, x)
<1>0. L \in Ledger
  BY DEF Sound
<1>1. /\ S \in Ledger
      /\ S.loanCollateralLien[l] = r
      /\ \A j \in Loans : j # l => S.loanCollateralLien[j] = L.loanCollateralLien[j]
      /\ S.offerPrincipalLien = L.offerPrincipalLien /\ S.reserved = L.reserved /\ S.intentCapital = L.intentCapital
      /\ S.setAside = L.setAside
      /\ SameParties(L, S) /\ S.ok = L.ok /\ S.encumbered = L.encumbered
  BY <1>0, SetLienEffect
<1>2. /\ M \in Ledger /\ SameRows(S, M) /\ (M.ok => S.ok)
      /\ \A k \in Keys : M.encumbered[k] = S.encumbered[k] + At(k, u, a, x)
  <2>1. S \in Ledger /\ x \in Int
    BY <1>1
  <2> HIDE DEF S
  <2>2. M \in Ledger /\ SameRows(S, M)
    BY ONLY <2>1, RaiseEffect DEF M
  <2>3. M.ok => S.ok
    BY ONLY <2>1, RaiseEffect DEF M
  <2>4. \A k \in Keys : M.encumbered[k] = S.encumbered[k] + At(k, u, a, x)
    BY ONLY <2>1, RaiseEffect DEF M
  <2> QED BY <2>2, <2>3, <2>4
<1> HIDE DEF S, M
<1>3. /\ SameParties(L, M)
      /\ M.loanCollateralLien[l] = r
      /\ \A j \in Loans : j # l => M.loanCollateralLien[j] = L.loanCollateralLien[j]
      /\ M.offerPrincipalLien = L.offerPrincipalLien /\ M.reserved = L.reserved /\ M.intentCapital = L.intentCapital
      /\ M.setAside = L.setAside
  BY <1>1, <1>2 DEF SameRows, SameParties
<1>4. ASSUME NEW k \in Keys
      PROVE M.encumbered[k] = L.encumbered[k] - LienTerm(L.loanCollateralLien[l], k) + LienTerm(r, k)
  <2>1. M.encumbered[k] = L.encumbered[k] + At(k, u, a, x)
    BY <1>1, <1>2
  <2>2. L.encumbered[k] \in Int /\ At(k, u, a, x) \in Int
    BY <1>0 DEF Ledger, At
  <2>4. LienTerm(L.loanCollateralLien[l], k) \in Int
    BY <1>0, TermsAreNat DEF OfferTerm
  <2>3. LienTerm(r, k) = LienTerm(L.loanCollateralLien[l], k) + At(k, u, a, x)
    OBVIOUS
  <2> QED BY <2>1, <2>2, <2>3, <2>4
<1>5. Balanced(L) => Balanced(M)
  BY <1>0, <1>2, <1>3, <1>4, LienStep DEF SameParties
<1>6. Sound(M) /\ (M.ok => L.ok)
  BY <1>1, <1>2, <1>5 DEF Sound
<1> QED BY <1>3, <1>6 DEF M, S

LEMMA LienDown ==
    ASSUME NEW L, Sound(L), NEW l \in Loans, NEW r \in Lien, NEW u, NEW a, NEW x \in Nat,
           \A k \in Keys : LienTerm(r, k) = LienTerm(L.loanCollateralLien[l], k) - At(k, u, a, x)
    PROVE  /\ Sound(Lower(SetLien(L, l, r), u, a, x))
           /\ SameParties(L, Lower(SetLien(L, l, r), u, a, x))
           /\ Lower(SetLien(L, l, r), u, a, x).ok => L.ok
           /\ Lower(SetLien(L, l, r), u, a, x).loanCollateralLien[l] = r
           /\ \A j \in Loans : j # l => Lower(SetLien(L, l, r), u, a, x).loanCollateralLien[j] = L.loanCollateralLien[j]
           /\ Lower(SetLien(L, l, r), u, a, x).offerPrincipalLien = L.offerPrincipalLien
           /\ Lower(SetLien(L, l, r), u, a, x).reserved = L.reserved
           /\ Lower(SetLien(L, l, r), u, a, x).intentCapital = L.intentCapital
           /\ Lower(SetLien(L, l, r), u, a, x).setAside = L.setAside
<1> DEFINE S == SetLien(L, l, r)
           M == Lower(S, u, a, x)
<1>0. L \in Ledger
  BY DEF Sound
<1>1. /\ S \in Ledger
      /\ S.loanCollateralLien[l] = r
      /\ \A j \in Loans : j # l => S.loanCollateralLien[j] = L.loanCollateralLien[j]
      /\ S.offerPrincipalLien = L.offerPrincipalLien /\ S.reserved = L.reserved /\ S.intentCapital = L.intentCapital
      /\ S.setAside = L.setAside
      /\ SameParties(L, S) /\ S.ok = L.ok /\ S.encumbered = L.encumbered
  BY <1>0, SetLienEffect
<1>2. /\ M \in Ledger /\ SameRows(S, M) /\ (M.ok => S.ok)
      /\ \A k \in Keys : M.encumbered[k] = S.encumbered[k] - At(k, u, a, x)
  <2>1. S \in Ledger /\ x \in Int
    BY <1>1
  <2> HIDE DEF S
  <2>2. M \in Ledger /\ SameRows(S, M)
    BY ONLY <2>1, LowerEffect DEF M
  <2>3. M.ok => S.ok
    BY ONLY <2>1, LowerEffect DEF M
  <2>4. \A k \in Keys : M.encumbered[k] = S.encumbered[k] - At(k, u, a, x)
    BY ONLY <2>1, LowerEffect DEF M
  <2> QED BY <2>2, <2>3, <2>4
<1> HIDE DEF S, M
<1>3. /\ SameParties(L, M)
      /\ M.loanCollateralLien[l] = r
      /\ \A j \in Loans : j # l => M.loanCollateralLien[j] = L.loanCollateralLien[j]
      /\ M.offerPrincipalLien = L.offerPrincipalLien /\ M.reserved = L.reserved /\ M.intentCapital = L.intentCapital
      /\ M.setAside = L.setAside
  BY <1>1, <1>2 DEF SameRows, SameParties
<1>4. ASSUME NEW k \in Keys
      PROVE M.encumbered[k] = L.encumbered[k] - LienTerm(L.loanCollateralLien[l], k) + LienTerm(r, k)
  <2>1. M.encumbered[k] = L.encumbered[k] - At(k, u, a, x)
    BY <1>1, <1>2
  <2>2. L.encumbered[k] \in Int /\ At(k, u, a, x) \in Int
    BY <1>0 DEF Ledger, At
  <2>4. LienTerm(L.loanCollateralLien[l], k) \in Int
    BY <1>0, TermsAreNat DEF OfferTerm
  <2>3. LienTerm(r, k) = LienTerm(L.loanCollateralLien[l], k) - At(k, u, a, x)
    OBVIOUS
  <2> QED BY <2>1, <2>2, <2>3, <2>4
<1>5. Balanced(L) => Balanced(M)
  BY <1>0, <1>2, <1>3, <1>4, LienStep DEF SameParties
<1>6. Sound(M) /\ (M.ok => L.ok)
  BY <1>1, <1>2, <1>5 DEF Sound
<1> QED BY <1>3, <1>6 DEF M, S

(* Reservations.                                                           *)

LEMMA SetReservedEffect ==
    ASSUME NEW L \in Ledger, NEW e \in Lanes, NEW l \in Loans, NEW r \in Reservation
    PROVE  /\ SetReserved(L, e, l, r) \in Ledger
           /\ SetReserved(L, e, l, r).reserved[e][l] = r
           /\ \A d \in Lanes, j \in Loans : d # e \/ j # l => SetReserved(L, e, l, r).reserved[d][j] = L.reserved[d][j]
           /\ SetReserved(L, e, l, r).loanCollateralLien = L.loanCollateralLien
           /\ SetReserved(L, e, l, r).offerPrincipalLien = L.offerPrincipalLien
           /\ SetReserved(L, e, l, r).intentCapital = L.intentCapital
           /\ SetReserved(L, e, l, r).setAside = L.setAside
           /\ SameParties(L, SetReserved(L, e, l, r))
           /\ SetReserved(L, e, l, r).ok = L.ok
           /\ SetReserved(L, e, l, r).encumbered = L.encumbered
BY DEF SetReserved, Ledger, SameParties

LEMMA ReservedUp ==
    ASSUME NEW L, Sound(L), NEW e \in Lanes, NEW l \in Loans, NEW r \in Reservation, NEW u, NEW a, NEW x \in Nat,
           \A k \in Keys : At(k, Party(L, e, l), r.asset, r.amount) = ReservedTerm(L, e, l, k) + At(k, u, a, x)
    PROVE  /\ Sound(Raise(SetReserved(L, e, l, r), u, a, x))
           /\ SameParties(L, Raise(SetReserved(L, e, l, r), u, a, x))
           /\ Raise(SetReserved(L, e, l, r), u, a, x).ok => L.ok
           /\ Raise(SetReserved(L, e, l, r), u, a, x).reserved[e][l] = r
           /\ \A d \in Lanes, j \in Loans : d # e \/ j # l => Raise(SetReserved(L, e, l, r), u, a, x).reserved[d][j] = L.reserved[d][j]
           /\ Raise(SetReserved(L, e, l, r), u, a, x).loanCollateralLien = L.loanCollateralLien
           /\ Raise(SetReserved(L, e, l, r), u, a, x).offerPrincipalLien = L.offerPrincipalLien
           /\ Raise(SetReserved(L, e, l, r), u, a, x).intentCapital = L.intentCapital
           /\ Raise(SetReserved(L, e, l, r), u, a, x).setAside = L.setAside
<1> DEFINE S == SetReserved(L, e, l, r)
           M == Raise(S, u, a, x)
<1>0. L \in Ledger
  BY DEF Sound
<1>1. /\ S \in Ledger
      /\ S.reserved[e][l] = r
      /\ \A d \in Lanes, j \in Loans : d # e \/ j # l => S.reserved[d][j] = L.reserved[d][j]
      /\ S.loanCollateralLien = L.loanCollateralLien /\ S.offerPrincipalLien = L.offerPrincipalLien /\ S.intentCapital = L.intentCapital
      /\ S.setAside = L.setAside
      /\ SameParties(L, S) /\ S.ok = L.ok /\ S.encumbered = L.encumbered
  BY <1>0, SetReservedEffect
<1>2. /\ M \in Ledger /\ SameRows(S, M) /\ (M.ok => S.ok)
      /\ \A k \in Keys : M.encumbered[k] = S.encumbered[k] + At(k, u, a, x)
  <2>1. S \in Ledger /\ x \in Int
    BY <1>1
  <2> HIDE DEF S
  <2>2. M \in Ledger /\ SameRows(S, M)
    BY ONLY <2>1, RaiseEffect DEF M
  <2>3. M.ok => S.ok
    BY ONLY <2>1, RaiseEffect DEF M
  <2>4. \A k \in Keys : M.encumbered[k] = S.encumbered[k] + At(k, u, a, x)
    BY ONLY <2>1, RaiseEffect DEF M
  <2> QED BY <2>2, <2>3, <2>4
<1> HIDE DEF S, M
<1>3. /\ SameParties(L, M)
      /\ M.reserved[e][l] = r
      /\ \A d \in Lanes, j \in Loans : d # e \/ j # l => M.reserved[d][j] = L.reserved[d][j]
      /\ M.loanCollateralLien = L.loanCollateralLien /\ M.offerPrincipalLien = L.offerPrincipalLien /\ M.intentCapital = L.intentCapital
      /\ M.setAside = L.setAside
  BY <1>1, <1>2 DEF SameRows, SameParties
<1>4. ASSUME NEW k \in Keys
      PROVE M.encumbered[k] = L.encumbered[k] - ReservedTerm(L, e, l, k) + At(k, Party(L, e, l), r.asset, r.amount)
  <2>1. M.encumbered[k] = L.encumbered[k] + At(k, u, a, x)
    BY <1>1, <1>2
  <2>2. L.encumbered[k] \in Int /\ At(k, u, a, x) \in Int
    BY <1>0 DEF Ledger, At
  <2>4. ReservedTerm(L, e, l, k) \in Int
    BY <1>0, TermsAreNat DEF OfferTerm
  <2>3. At(k, Party(L, e, l), r.asset, r.amount) = ReservedTerm(L, e, l, k) + At(k, u, a, x)
    OBVIOUS
  <2> QED BY <2>1, <2>2, <2>3, <2>4
<1>5. Balanced(L) => Balanced(M)
  BY <1>0, <1>2, <1>3, <1>4, ReservedStep DEF ReservedTerm, Party, SameParties
<1>6. Sound(M) /\ (M.ok => L.ok)
  BY <1>1, <1>2, <1>5 DEF Sound
<1> QED BY <1>3, <1>6 DEF M, S

LEMMA ReservedDown ==
    ASSUME NEW L, Sound(L), NEW e \in Lanes, NEW l \in Loans, NEW r \in Reservation, NEW u, NEW a, NEW x \in Nat,
           \A k \in Keys : At(k, Party(L, e, l), r.asset, r.amount) = ReservedTerm(L, e, l, k) - At(k, u, a, x)
    PROVE  /\ Sound(Lower(SetReserved(L, e, l, r), u, a, x))
           /\ SameParties(L, Lower(SetReserved(L, e, l, r), u, a, x))
           /\ Lower(SetReserved(L, e, l, r), u, a, x).ok => L.ok
           /\ Lower(SetReserved(L, e, l, r), u, a, x).reserved[e][l] = r
           /\ \A d \in Lanes, j \in Loans : d # e \/ j # l => Lower(SetReserved(L, e, l, r), u, a, x).reserved[d][j] = L.reserved[d][j]
           /\ Lower(SetReserved(L, e, l, r), u, a, x).loanCollateralLien = L.loanCollateralLien
           /\ Lower(SetReserved(L, e, l, r), u, a, x).offerPrincipalLien = L.offerPrincipalLien
           /\ Lower(SetReserved(L, e, l, r), u, a, x).intentCapital = L.intentCapital
           /\ Lower(SetReserved(L, e, l, r), u, a, x).setAside = L.setAside
<1> DEFINE S == SetReserved(L, e, l, r)
           M == Lower(S, u, a, x)
<1>0. L \in Ledger
  BY DEF Sound
<1>1. /\ S \in Ledger
      /\ S.reserved[e][l] = r
      /\ \A d \in Lanes, j \in Loans : d # e \/ j # l => S.reserved[d][j] = L.reserved[d][j]
      /\ S.loanCollateralLien = L.loanCollateralLien /\ S.offerPrincipalLien = L.offerPrincipalLien /\ S.intentCapital = L.intentCapital
      /\ S.setAside = L.setAside
      /\ SameParties(L, S) /\ S.ok = L.ok /\ S.encumbered = L.encumbered
  BY <1>0, SetReservedEffect
<1>2. /\ M \in Ledger /\ SameRows(S, M) /\ (M.ok => S.ok)
      /\ \A k \in Keys : M.encumbered[k] = S.encumbered[k] - At(k, u, a, x)
  <2>1. S \in Ledger /\ x \in Int
    BY <1>1
  <2> HIDE DEF S
  <2>2. M \in Ledger /\ SameRows(S, M)
    BY ONLY <2>1, LowerEffect DEF M
  <2>3. M.ok => S.ok
    BY ONLY <2>1, LowerEffect DEF M
  <2>4. \A k \in Keys : M.encumbered[k] = S.encumbered[k] - At(k, u, a, x)
    BY ONLY <2>1, LowerEffect DEF M
  <2> QED BY <2>2, <2>3, <2>4
<1> HIDE DEF S, M
<1>3. /\ SameParties(L, M)
      /\ M.reserved[e][l] = r
      /\ \A d \in Lanes, j \in Loans : d # e \/ j # l => M.reserved[d][j] = L.reserved[d][j]
      /\ M.loanCollateralLien = L.loanCollateralLien /\ M.offerPrincipalLien = L.offerPrincipalLien /\ M.intentCapital = L.intentCapital
      /\ M.setAside = L.setAside
  BY <1>1, <1>2 DEF SameRows, SameParties
<1>4. ASSUME NEW k \in Keys
      PROVE M.encumbered[k] = L.encumbered[k] - ReservedTerm(L, e, l, k) + At(k, Party(L, e, l), r.asset, r.amount)
  <2>1. M.encumbered[k] = L.encumbered[k] - At(k, u, a, x)
    BY <1>1, <1>2
  <2>2. L.encumbered[k] \in Int /\ At(k, u, a, x) \in Int
    BY <1>0 DEF Ledger, At
  <2>4. ReservedTerm(L, e, l, k) \in Int
    BY <1>0, TermsAreNat DEF OfferTerm
  <2>3. At(k, Party(L, e, l), r.asset, r.amount) = ReservedTerm(L, e, l, k) - At(k, u, a, x)
    OBVIOUS
  <2> QED BY <2>1, <2>2, <2>3, <2>4
<1>5. Balanced(L) => Balanced(M)
  BY <1>0, <1>2, <1>3, <1>4, ReservedStep DEF ReservedTerm, Party, SameParties
<1>6. Sound(M) /\ (M.ok => L.ok)
  BY <1>1, <1>2, <1>5 DEF Sound
<1> QED BY <1>3, <1>6 DEF M, S

(* Offer liens.                                                            *)

LEMMA SetOfferLienEffect ==
    ASSUME NEW L \in Ledger, NEW o \in Offers, NEW r \in Lien
    PROVE  /\ SetOfferLien(L, o, r) \in Ledger
           /\ SetOfferLien(L, o, r).offerPrincipalLien[o] = r
           /\ \A j \in Offers : j # o => SetOfferLien(L, o, r).offerPrincipalLien[j] = L.offerPrincipalLien[j]
           /\ SetOfferLien(L, o, r).loanCollateralLien = L.loanCollateralLien
           /\ SetOfferLien(L, o, r).reserved = L.reserved
           /\ SetOfferLien(L, o, r).intentCapital = L.intentCapital
           /\ SetOfferLien(L, o, r).setAside = L.setAside
           /\ SameParties(L, SetOfferLien(L, o, r))
           /\ SetOfferLien(L, o, r).ok = L.ok
           /\ SetOfferLien(L, o, r).encumbered = L.encumbered
BY DEF SetOfferLien, Ledger, SameParties

LEMMA OfferLienUp ==
    ASSUME NEW L, Sound(L), NEW o \in Offers, NEW r \in Lien, NEW u, NEW a, NEW x \in Nat,
           \A k \in Keys : LienTerm(r, k) = LienTerm(L.offerPrincipalLien[o], k) + At(k, u, a, x)
    PROVE  /\ Sound(Raise(SetOfferLien(L, o, r), u, a, x))
           /\ SameParties(L, Raise(SetOfferLien(L, o, r), u, a, x))
           /\ Raise(SetOfferLien(L, o, r), u, a, x).ok => L.ok
           /\ Raise(SetOfferLien(L, o, r), u, a, x).offerPrincipalLien[o] = r
           /\ \A j \in Offers : j # o => Raise(SetOfferLien(L, o, r), u, a, x).offerPrincipalLien[j] = L.offerPrincipalLien[j]
           /\ Raise(SetOfferLien(L, o, r), u, a, x).loanCollateralLien = L.loanCollateralLien
           /\ Raise(SetOfferLien(L, o, r), u, a, x).reserved = L.reserved
           /\ Raise(SetOfferLien(L, o, r), u, a, x).intentCapital = L.intentCapital
           /\ Raise(SetOfferLien(L, o, r), u, a, x).setAside = L.setAside
<1> DEFINE S == SetOfferLien(L, o, r)
           M == Raise(S, u, a, x)
<1>0. L \in Ledger
  BY DEF Sound
<1>1. /\ S \in Ledger
      /\ S.offerPrincipalLien[o] = r
      /\ \A j \in Offers : j # o => S.offerPrincipalLien[j] = L.offerPrincipalLien[j]
      /\ S.loanCollateralLien = L.loanCollateralLien /\ S.reserved = L.reserved /\ S.intentCapital = L.intentCapital
      /\ S.setAside = L.setAside
      /\ SameParties(L, S) /\ S.ok = L.ok /\ S.encumbered = L.encumbered
  BY <1>0, SetOfferLienEffect
<1>2. /\ M \in Ledger /\ SameRows(S, M) /\ (M.ok => S.ok)
      /\ \A k \in Keys : M.encumbered[k] = S.encumbered[k] + At(k, u, a, x)
  <2>1. S \in Ledger /\ x \in Int
    BY <1>1
  <2> HIDE DEF S
  <2>2. M \in Ledger /\ SameRows(S, M)
    BY ONLY <2>1, RaiseEffect DEF M
  <2>3. M.ok => S.ok
    BY ONLY <2>1, RaiseEffect DEF M
  <2>4. \A k \in Keys : M.encumbered[k] = S.encumbered[k] + At(k, u, a, x)
    BY ONLY <2>1, RaiseEffect DEF M
  <2> QED BY <2>2, <2>3, <2>4
<1> HIDE DEF S, M
<1>3. /\ SameParties(L, M)
      /\ M.offerPrincipalLien[o] = r
      /\ \A j \in Offers : j # o => M.offerPrincipalLien[j] = L.offerPrincipalLien[j]
      /\ M.loanCollateralLien = L.loanCollateralLien /\ M.reserved = L.reserved /\ M.intentCapital = L.intentCapital
      /\ M.setAside = L.setAside
  BY <1>1, <1>2 DEF SameRows, SameParties
<1>4. ASSUME NEW k \in Keys
      PROVE M.encumbered[k] = L.encumbered[k] - LienTerm(L.offerPrincipalLien[o], k) + LienTerm(r, k)
  <2>1. M.encumbered[k] = L.encumbered[k] + At(k, u, a, x)
    BY <1>1, <1>2
  <2>2. L.encumbered[k] \in Int /\ At(k, u, a, x) \in Int
    BY <1>0 DEF Ledger, At
  <2>4. LienTerm(L.offerPrincipalLien[o], k) \in Int
    BY <1>0, TermsAreNat DEF OfferTerm
  <2>3. LienTerm(r, k) = LienTerm(L.offerPrincipalLien[o], k) + At(k, u, a, x)
    OBVIOUS
  <2> QED BY <2>1, <2>2, <2>3, <2>4
<1>5. Balanced(L) => Balanced(M)
  BY <1>0, <1>2, <1>3, <1>4, OfferStep DEF SameParties
<1>6. Sound(M) /\ (M.ok => L.ok)
  BY <1>1, <1>2, <1>5 DEF Sound
<1> QED BY <1>3, <1>6 DEF M, S

LEMMA OfferLienDown ==
    ASSUME NEW L, Sound(L), NEW o \in Offers, NEW r \in Lien, NEW u, NEW a, NEW x \in Nat,
           \A k \in Keys : LienTerm(r, k) = LienTerm(L.offerPrincipalLien[o], k) - At(k, u, a, x)
    PROVE  /\ Sound(Lower(SetOfferLien(L, o, r), u, a, x))
           /\ SameParties(L, Lower(SetOfferLien(L, o, r), u, a, x))
           /\ Lower(SetOfferLien(L, o, r), u, a, x).ok => L.ok
           /\ Lower(SetOfferLien(L, o, r), u, a, x).offerPrincipalLien[o] = r
           /\ \A j \in Offers : j # o => Lower(SetOfferLien(L, o, r), u, a, x).offerPrincipalLien[j] = L.offerPrincipalLien[j]
           /\ Lower(SetOfferLien(L, o, r), u, a, x).loanCollateralLien = L.loanCollateralLien
           /\ Lower(SetOfferLien(L, o, r), u, a, x).reserved = L.reserved
           /\ Lower(SetOfferLien(L, o, r), u, a, x).intentCapital = L.intentCapital
           /\ Lower(SetOfferLien(L, o, r), u, a, x).setAside = L.setAside
<1> DEFINE S == SetOfferLien(L, o, r)
           M == Lower(S, u, a, x)
<1>0. L \in Ledger
  BY DEF Sound
<1>1. /\ S \in Ledger
      /\ S.offerPrincipalLien[o] = r
      /\ \A j \in Offers : j # o => S.offerPrincipalLien[j] = L.offerPrincipalLien[j]
      /\ S.loanCollateralLien = L.loanCollateralLien /\ S.reserved = L.reserved /\ S.intentCapital = L.intentCapital
      /\ S.setAside = L.setAside
      /\ SameParties(L, S) /\ S.ok = L.ok /\ S.encumbered = L.encumbered
  BY <1>0, SetOfferLienEffect
<1>2. /\ M \in Ledger /\ SameRows(S, M) /\ (M.ok => S.ok)
      /\ \A k \in Keys : M.encumbered[k] = S.encumbered[k] - At(k, u, a, x)
  <2>1. S \in Ledger /\ x \in Int
    BY <1>1
  <2> HIDE DEF S
  <2>2. M \in Ledger /\ SameRows(S, M)
    BY ONLY <2>1, LowerEffect DEF M
  <2>3. M.ok => S.ok
    BY ONLY <2>1, LowerEffect DEF M
  <2>4. \A k \in Keys : M.encumbered[k] = S.encumbered[k] - At(k, u, a, x)
    BY ONLY <2>1, LowerEffect DEF M
  <2> QED BY <2>2, <2>3, <2>4
<1> HIDE DEF S, M
<1>3. /\ SameParties(L, M)
      /\ M.offerPrincipalLien[o] = r
      /\ \A j \in Offers : j # o => M.offerPrincipalLien[j] = L.offerPrincipalLien[j]
      /\ M.loanCollateralLien = L.loanCollateralLien /\ M.reserved = L.reserved /\ M.intentCapital = L.intentCapital
      /\ M.setAside = L.setAside
  BY <1>1, <1>2 DEF SameRows, SameParties
<1>4. ASSUME NEW k \in Keys
      PROVE M.encumbered[k] = L.encumbered[k] - LienTerm(L.offerPrincipalLien[o], k) + LienTerm(r, k)
  <2>1. M.encumbered[k] = L.encumbered[k] - At(k, u, a, x)
    BY <1>1, <1>2
  <2>2. L.encumbered[k] \in Int /\ At(k, u, a, x) \in Int
    BY <1>0 DEF Ledger, At
  <2>4. LienTerm(L.offerPrincipalLien[o], k) \in Int
    BY <1>0, TermsAreNat DEF OfferTerm
  <2>3. LienTerm(r, k) = LienTerm(L.offerPrincipalLien[o], k) - At(k, u, a, x)
    OBVIOUS
  <2> QED BY <2>1, <2>2, <2>3, <2>4
<1>5. Balanced(L) => Balanced(M)
  BY <1>0, <1>2, <1>3, <1>4, OfferStep DEF SameParties
<1>6. Sound(M) /\ (M.ok => L.ok)
  BY <1>1, <1>2, <1>5 DEF Sound
<1> QED BY <1>3, <1>6 DEF M, S

-----------------------------------------------------------------------------
(* The operations.  `Grows` is what every one of them promises: the books  *)
(* still balance, the parties are untouched, and an operation on a ledger  *)
(* that already reverted does not revive it.                               *)

Grows(L, M) == Sound(M) /\ SameParties(L, M) /\ (M.ok => L.ok)

LEMMA RequireOf ==
    ASSUME NEW M \in Ledger, NEW p \in BOOLEAN, p => Sound(M)
    PROVE  Sound(Require(M, p)) /\ (Require(M, p).ok => M.ok /\ p) /\ SameRows(M, Require(M, p))
<1>1. Require(M, p) \in Ledger /\ SameRows(M, Require(M, p)) /\ Require(M, p).ok = (M.ok /\ p)
  BY RequireEffect
<1>2. CASE p
  BY <1>1, <1>2, RequireSound
<1>3. CASE ~p
  BY <1>1, <1>3 DEF Sound
<1> QED BY <1>1, <1>2, <1>3

LEMMA RecreateSound ==
    ASSUME NEW L, Sound(L), NEW l \in Loans, NEW a \in Assets, NEW x \in Nat
    PROVE  LET M == RecreateCollateralLien(L, l, a, x)
           IN  /\ M \in Ledger /\ SameParties(L, M) /\ (M.ok => L.ok)
               /\ ~ L.loanCollateralLien[l].live => Sound(M)
               /\ M.offerPrincipalLien = L.offerPrincipalLien
               /\ M.reserved = L.reserved
               /\ M.intentCapital = L.intentCapital
               /\ M.setAside = L.setAside
               /\ M.loanCollateralLien[l] = [user |-> L.borrower[l], asset |-> a, amount |-> x,
                                             live |-> TRUE]
               /\ \A j \in Loans : j # l => M.loanCollateralLien[j] = L.loanCollateralLien[j]
<1> DEFINE r == [user |-> L.borrower[l], asset |-> a, amount |-> x, live |-> TRUE]
           S == SetLien(L, l, r)
           M == RecreateCollateralLien(L, l, a, x)
<1>0. L \in Ledger
  BY DEF Sound
<1>1. r \in Lien
  BY <1>0 DEF Lien, Ledger
<1>2. M = Raise(S, L.borrower[l], a, x)
  BY DEF RecreateCollateralLien
<1>3. \A k \in Keys : LienTerm(r, k) = At(k, L.borrower[l], a, x)
  BY DEF LienTerm
<1>4. /\ S \in Ledger /\ S.loanCollateralLien[l] = r
      /\ \A j \in Loans : j # l => S.loanCollateralLien[j] = L.loanCollateralLien[j]
      /\ S.offerPrincipalLien = L.offerPrincipalLien /\ S.reserved = L.reserved
      /\ S.intentCapital = L.intentCapital /\ S.setAside = L.setAside /\ SameParties(L, S) /\ S.ok = L.ok
  <2> HIDE DEF r
  <2> QED BY <1>0, <1>1, SetLienEffect
<1>5. M \in Ledger /\ SameRows(S, M) /\ M.ok = S.ok
  <2> HIDE DEF S
  <2> QED BY <1>2, <1>4, RaiseEffect
<1>6. ASSUME ~ L.loanCollateralLien[l].live PROVE Sound(M)
  <2>1. \A k \in Keys : LienTerm(L.loanCollateralLien[l], k) = 0
    BY <1>6 DEF LienTerm
  <2>2. \A k \in Keys : At(k, L.borrower[l], a, x) \in Int
    BY DEF At
  <2>3. \A k \in Keys : LienTerm(r, k) = LienTerm(L.loanCollateralLien[l], k)
                                           + At(k, L.borrower[l], a, x)
    <3> HIDE DEF r
    <3> QED BY <1>3, <2>1, <2>2
  <2> HIDE DEF r, M
  <2> QED BY <1>1, <1>2, <2>3, LienUp DEF S
<1> HIDE DEF S
<1> QED BY <1>4, <1>5, <1>6 DEF SameRows, SameParties

LEMMA CreateCollateralLienSound ==
    ASSUME NEW L, Sound(L), NEW l \in Loans, NEW a \in Assets, NEW x \in Nat
    PROVE  LET M == CreateCollateralLien(L, l, a, x)
           IN  /\ Grows(L, M)
               /\ M.ok => ~ L.loanCollateralLien[l].live
               /\ M.offerPrincipalLien = L.offerPrincipalLien
               /\ M.reserved = L.reserved
               /\ M.intentCapital = L.intentCapital
               /\ M.setAside = L.setAside
               /\ M.loanCollateralLien[l] = [user |-> L.borrower[l], asset |-> a, amount |-> x,
                                             live |-> TRUE]
               /\ \A j \in Loans : j # l => M.loanCollateralLien[j] = L.loanCollateralLien[j]
<1> DEFINE R == RecreateCollateralLien(L, l, a, x)
           p == ~ L.loanCollateralLien[l].live
           M == Require(R, p)
<1>1. /\ R \in Ledger /\ SameParties(L, R) /\ (R.ok => L.ok) /\ (p => Sound(R))
      /\ R.offerPrincipalLien = L.offerPrincipalLien /\ R.reserved = L.reserved
      /\ R.intentCapital = L.intentCapital
      /\ R.setAside = L.setAside
      /\ R.loanCollateralLien[l] = [user |-> L.borrower[l], asset |-> a, amount |-> x, live |-> TRUE]
      /\ \A j \in Loans : j # l => R.loanCollateralLien[j] = L.loanCollateralLien[j]
  BY RecreateSound
<1>2. p \in BOOLEAN
  BY DEF Sound, Ledger, Lien
<1> HIDE DEF R, p
<1>3. Sound(M) /\ (M.ok => R.ok /\ p) /\ SameRows(R, M)
  BY <1>1, <1>2, RequireOf
<1>4. CreateCollateralLien(L, l, a, x) = M
  BY DEF CreateCollateralLien, R, p
<1> HIDE DEF M
<1>5. /\ M.loanCollateralLien = R.loanCollateralLien /\ M.offerPrincipalLien = R.offerPrincipalLien
      /\ M.reserved = R.reserved /\ M.intentCapital = R.intentCapital /\ M.setAside = R.setAside /\ SameParties(R, M)
  BY <1>3 DEF SameRows
<1>6. Grows(L, M)
  BY <1>1, <1>3, <1>5 DEF Grows, SameParties
<1> QED BY <1>1, <1>3, <1>4, <1>5, <1>6 DEF p

LEMMA ReleaseCollateralLienSound ==
    ASSUME NEW L, Sound(L), NEW l \in Loans
    PROVE  LET M == ReleaseCollateralLien(L, l)
           IN  /\ Grows(L, M)
               /\ M.offerPrincipalLien = L.offerPrincipalLien
               /\ M.reserved = L.reserved
               /\ M.intentCapital = L.intentCapital
               /\ M.setAside = L.setAside
               /\ ~ M.loanCollateralLien[l].live
               /\ \A j \in Loans : j # l => M.loanCollateralLien[j] = L.loanCollateralLien[j]
<1> DEFINE r == L.loanCollateralLien[l]
           n == [r EXCEPT !.live = FALSE, !.amount = 0]
           M == Lower(SetLien(L, l, n), r.user, r.asset, r.amount)
<1>0. r \in Lien
  BY DEF Sound, Ledger
<1>1. CASE ~ r.live
  <2>1. ReleaseCollateralLien(L, l) = L
    BY <1>1 DEF ReleaseCollateralLien
  <2> QED BY <1>1, <2>1 DEF Grows, SameParties
<1>2. CASE r.live
  <2>1. ReleaseCollateralLien(L, l) = M
    BY <1>2 DEF ReleaseCollateralLien
  <2>2. n \in Lien /\ n.live = FALSE /\ r.amount \in Nat
    BY <1>0 DEF Lien
  <2>3. \A k \in Keys : At(k, r.user, r.asset, r.amount) \in Int
    BY <2>2 DEF At
  <2>4. \A k \in Keys : LienTerm(n, k) = LienTerm(L.loanCollateralLien[l], k)
                                           - At(k, r.user, r.asset, r.amount)
    BY <1>2, <2>2, <2>3 DEF LienTerm
  <2> HIDE DEF n, r
  <2>5. /\ Sound(M) /\ SameParties(L, M) /\ (M.ok => L.ok)
        /\ M.loanCollateralLien[l] = n
        /\ \A j \in Loans : j # l => M.loanCollateralLien[j] = L.loanCollateralLien[j]
        /\ M.offerPrincipalLien = L.offerPrincipalLien /\ M.reserved = L.reserved
        /\ M.intentCapital = L.intentCapital
        /\ M.setAside = L.setAside
    BY <2>2, <2>4, LienDown
  <2> QED BY <2>1, <2>2, <2>5 DEF Grows
<1> QED BY <1>1, <1>2

LEMMA DecrementCollateralLienSound ==
    ASSUME NEW L, Sound(L), NEW l \in Loans, NEW x \in Nat
    PROVE  LET M == DecrementCollateralLien(L, l, x)
           IN  /\ Grows(L, M)
               /\ M.offerPrincipalLien = L.offerPrincipalLien
               /\ M.reserved = L.reserved
               /\ M.intentCapital = L.intentCapital
               /\ M.setAside = L.setAside
               /\ M.loanCollateralLien[l] =
                    IF L.loanCollateralLien[l].live
                    THEN [L.loanCollateralLien[l] EXCEPT !.amount = Excess(@, x)]
                    ELSE L.loanCollateralLien[l]
               /\ M.ok /\ L.loanCollateralLien[l].live => x <= L.loanCollateralLien[l].amount
               /\ \A j \in Loans : j # l => M.loanCollateralLien[j] = L.loanCollateralLien[j]
<1> DEFINE r == L.loanCollateralLien[l]
           n == [r EXCEPT !.amount = Excess(@, x)]
           S == SetLien(L, l, n)
           D == Lower(S, r.user, r.asset, x)
           p == x <= r.amount
           M == Require(D, p)
<1>0. r \in Lien /\ L \in Ledger
  BY DEF Sound, Ledger
<1>1. CASE ~ r.live
  <2>1. DecrementCollateralLien(L, l, x) = L
    BY <1>1 DEF DecrementCollateralLien
  <2> QED BY <1>1, <2>1 DEF Grows, SameParties
<1>2. CASE r.live
  <2>1. DecrementCollateralLien(L, l, x) = M
    BY <1>2 DEF DecrementCollateralLien
  <2>2. n \in Lien /\ p \in BOOLEAN
    BY <1>0 DEF Lien, Excess
  <2>3. ASSUME p PROVE Sound(D)
    <3>1. n.amount = r.amount - x /\ n.live /\ n.user = r.user /\ n.asset = r.asset
      BY <1>0, <1>2, <2>3 DEF Lien, Excess
    <3>2. r.amount \in Int
      BY <1>0 DEF Lien
    <3>3. \A k \in Keys : LienTerm(n, k) = LienTerm(r, k) - At(k, r.user, r.asset, x)
      <4> HIDE DEF n, r
      <4> QED BY <1>2, <3>1, <3>2 DEF LienTerm, At
    <3> HIDE DEF n
    <3> QED BY <2>2, <3>3, LienDown
  <2> HIDE DEF n, r
  <2>4. /\ S \in Ledger /\ S.loanCollateralLien[l] = n /\ SameParties(L, S) /\ S.ok = L.ok
        /\ \A j \in Loans : j # l => S.loanCollateralLien[j] = L.loanCollateralLien[j]
        /\ S.offerPrincipalLien = L.offerPrincipalLien /\ S.reserved = L.reserved
        /\ S.intentCapital = L.intentCapital
        /\ S.setAside = L.setAside
    BY <1>0, <2>2, SetLienEffect
  <2> HIDE DEF S
  <2>5. D \in Ledger /\ SameRows(S, D) /\ (D.ok => S.ok)
    BY <2>4, LowerRows DEF D
  <2> HIDE DEF D, p
  <2>6. Sound(M) /\ (M.ok => D.ok /\ p) /\ SameRows(D, M)
    BY <2>2, <2>3, <2>5, RequireOf
  <2> HIDE DEF M
  <2>7. /\ Grows(L, M) /\ M.loanCollateralLien[l] = n /\ (M.ok => p)
        /\ \A j \in Loans : j # l => M.loanCollateralLien[j] = L.loanCollateralLien[j]
        /\ M.offerPrincipalLien = L.offerPrincipalLien /\ M.reserved = L.reserved
        /\ M.intentCapital = L.intentCapital
        /\ M.setAside = L.setAside
    BY <2>4, <2>5, <2>6 DEF Grows, SameRows, SameParties
  <2> QED BY <1>2, <2>1, <2>7 DEF n, r, p
<1> QED BY <1>1, <1>2

LEMMA IncrementCollateralLienSound ==
    ASSUME NEW L, Sound(L), NEW l \in Loans, NEW a \in Assets, NEW x \in Nat
    PROVE  LET M == IncrementCollateralLien(L, l, a, x)
               r == L.loanCollateralLien[l]
           IN  /\ Grows(L, M)
               /\ M.offerPrincipalLien = L.offerPrincipalLien
               /\ M.reserved = L.reserved
               /\ M.intentCapital = L.intentCapital
               /\ M.setAside = L.setAside
               /\ M.loanCollateralLien[l] =
                    IF x = 0 THEN r
                    ELSE IF r.live THEN [r EXCEPT !.amount = @ + x]
                    ELSE [user |-> L.borrower[l], asset |-> a, amount |-> x, live |-> TRUE]
<1> DEFINE r == L.loanCollateralLien[l]
           n == [r EXCEPT !.amount = @ + x]
           R == RecreateCollateralLien(L, l, a, x)
           U == Raise(SetLien(L, l, n), r.user, r.asset, x)
<1>0. r \in Lien /\ L \in Ledger
  BY DEF Sound, Ledger
<1>1. CASE x = 0
  <2>1. IncrementCollateralLien(L, l, a, x) = L
    BY <1>1 DEF IncrementCollateralLien
  <2> QED BY <1>1, <2>1 DEF Grows, SameParties
<1>2. CASE x # 0 /\ ~ r.live
  <2>1. IncrementCollateralLien(L, l, a, x) = R
    BY <1>2 DEF IncrementCollateralLien
  <2>2. /\ R \in Ledger /\ SameParties(L, R) /\ (R.ok => L.ok) /\ Sound(R)
        /\ R.offerPrincipalLien = L.offerPrincipalLien /\ R.reserved = L.reserved
        /\ R.intentCapital = L.intentCapital
        /\ R.setAside = L.setAside
        /\ R.loanCollateralLien[l] = [user |-> L.borrower[l], asset |-> a, amount |-> x, live |-> TRUE]
    BY <1>2, RecreateSound
  <2> HIDE DEF R, r
  <2> QED BY <1>2, <2>1, <2>2 DEF Grows, r
<1>3. CASE x # 0 /\ r.live
  <2>1. IncrementCollateralLien(L, l, a, x) = U
    BY <1>3 DEF IncrementCollateralLien
  <2>2. n \in Lien /\ n.amount = r.amount + x /\ n.live /\ n.user = r.user /\ n.asset = r.asset
    BY <1>0, <1>3 DEF Lien
  <2>3. r.amount \in Int
    BY <1>0 DEF Lien
  <2>4. \A k \in Keys : LienTerm(n, k) = LienTerm(r, k) + At(k, r.user, r.asset, x)
    <3> HIDE DEF n, r
    <3> QED BY <1>3, <2>2, <2>3 DEF LienTerm, At
  <2>5. /\ Sound(U) /\ SameParties(L, U) /\ (U.ok => L.ok)
        /\ U.loanCollateralLien[l] = n
        /\ U.offerPrincipalLien = L.offerPrincipalLien /\ U.reserved = L.reserved
        /\ U.intentCapital = L.intentCapital
        /\ U.setAside = L.setAside
    <3> HIDE DEF n
    <3> QED BY <2>2, <2>4, LienUp
  <2> HIDE DEF U, n
  <2>6. Grows(L, U)
    BY <2>5 DEF Grows
  <2> QED BY <1>3, <2>1, <2>5, <2>6 DEF n
<1> QED BY <1>1, <1>2, <1>3

(* Reservations.                                                           *)

LEMMA EncumberSound ==
    ASSUME NEW L, Sound(L), NEW e \in Lanes, NEW l \in Loans, NEW u, u = Party(L, e, l),
           NEW a \in Assets, NEW x \in Nat
    PROVE  LET M == Encumber(L, e, l, u, a, x)
               r == L.reserved[e][l]
           IN  /\ Grows(L, M)
               /\ M.offerPrincipalLien = L.offerPrincipalLien
               /\ M.loanCollateralLien = L.loanCollateralLien
               /\ M.intentCapital = L.intentCapital
               /\ M.setAside = L.setAside
               /\ M.reserved[e][l] = IF x = 0 THEN r ELSE [asset |-> a, amount |-> r.amount + x]
               /\ \A d \in Lanes : d # e => M.reserved[d][l] = L.reserved[d][l]
<1> DEFINE r == L.reserved[e][l]
           n == [asset |-> a, amount |-> r.amount + x]
           S == SetReserved(L, e, l, n)
           U == Raise(S, u, a, x)
           p == r.amount = 0 \/ r.asset = a
           M == Require(U, p)
<1>0. r \in Reservation /\ L \in Ledger
  BY DEF Sound, Ledger
<1>1. CASE x = 0
  <2>1. Encumber(L, e, l, u, a, x) = L
    BY <1>1 DEF Encumber
  <2> QED BY <1>1, <2>1 DEF Grows, SameParties
<1>2. CASE x # 0
  <2>1. Encumber(L, e, l, u, a, x) = M
    BY <1>2 DEF Encumber
  <2>2. n \in Reservation /\ n.asset = a /\ n.amount = r.amount + x /\ r.amount \in Int /\ p \in BOOLEAN
    BY <1>0 DEF Reservation
  <2>3. ASSUME p PROVE Sound(U)
    <3>1. \A k \in Keys : At(k, u, n.asset, n.amount) = At(k, u, r.asset, r.amount) + At(k, u, a, x)
      <4> HIDE DEF n, r
      <4> QED BY <2>2, <2>3 DEF At, p
    <3>2. \A k \in Keys : ReservedTerm(L, e, l, k) = At(k, u, r.asset, r.amount)
      BY DEF ReservedTerm
    <3>3. \A k \in Keys : At(k, Party(L, e, l), n.asset, n.amount) = ReservedTerm(L, e, l, k) + At(k, u, a, x)
      <4> HIDE DEF n, r
      <4> QED BY <3>1, <3>2
    <3> HIDE DEF n
    <3> QED BY <2>2, <3>3, ReservedUp
  <2> HIDE DEF n, p
  <2>4. /\ S \in Ledger /\ S.reserved[e][l] = n /\ SameParties(L, S) /\ S.ok = L.ok
        /\ \A d \in Lanes : d # e => S.reserved[d][l] = L.reserved[d][l]
        /\ S.offerPrincipalLien = L.offerPrincipalLien
        /\ S.loanCollateralLien = L.loanCollateralLien
        /\ S.intentCapital = L.intentCapital
        /\ S.setAside = L.setAside
    BY <1>0, <2>2, SetReservedEffect
  <2> HIDE DEF S
  <2>5. U \in Ledger /\ SameRows(S, U) /\ U.ok = S.ok
    <3>1. S \in Ledger /\ x \in Int
      BY <2>4
    <3> QED BY ONLY <3>1, RaiseEffect DEF U
  <2> HIDE DEF U
  <2>6. Sound(M) /\ (M.ok => U.ok /\ p) /\ SameRows(U, M)
    BY <2>2, <2>3, <2>5, RequireOf
  <2> HIDE DEF M
  <2>7. /\ Grows(L, M) /\ M.reserved[e][l] = n
        /\ \A d \in Lanes : d # e => M.reserved[d][l] = L.reserved[d][l]
        /\ M.offerPrincipalLien = L.offerPrincipalLien
        /\ M.loanCollateralLien = L.loanCollateralLien
        /\ M.intentCapital = L.intentCapital
        /\ M.setAside = L.setAside
    BY <2>4, <2>5, <2>6 DEF Grows, SameRows, SameParties
  <2> QED BY <1>2, <2>1, <2>7 DEF n
<1> QED BY <1>1, <1>2

LEMMA ReleaseReservedSound ==
    ASSUME NEW L, Sound(L), NEW e \in Lanes, NEW l \in Loans, NEW u, u = Party(L, e, l)
    PROVE  LET M == ReleaseReserved(L, e, l, u)
           IN  /\ Grows(L, M)
               /\ M.offerPrincipalLien = L.offerPrincipalLien
               /\ M.loanCollateralLien = L.loanCollateralLien
               /\ M.intentCapital = L.intentCapital
               /\ M.setAside = L.setAside
               /\ M.reserved[e][l].amount = 0
               /\ \A d \in Lanes : d # e => M.reserved[d][l] = L.reserved[d][l]
<1> DEFINE r == L.reserved[e][l]
           U == Lower(SetReserved(L, e, l, NoReservation), u, r.asset, r.amount)
<1>0. r \in Reservation /\ L \in Ledger /\ r.amount \in Nat
  BY DEF Sound, Ledger, Reservation
<1>1. CASE r.amount = 0
  <2>1. ReleaseReserved(L, e, l, u) = L
    BY <1>1 DEF ReleaseReserved, TakeReserved
  <2> QED BY <1>1, <2>1 DEF Grows, SameParties
<1>2. CASE r.amount # 0
  <2>1. ReleaseReserved(L, e, l, u) = U
    BY <1>2 DEF ReleaseReserved, TakeReserved
  <2>2. NoReservation \in Reservation /\ NoReservation.amount = 0
    BY DEF Reservation, NoReservation
  <2>3. \A k \in Keys : At(k, u, r.asset, r.amount) \in Int /\ At(k, u, NoReservation.asset, NoReservation.amount) = 0
    BY <1>0, <2>2 DEF At
  <2>4. \A k \in Keys : ReservedTerm(L, e, l, k) = At(k, u, r.asset, r.amount)
    BY DEF ReservedTerm
  <2>5. \A k \in Keys : At(k, Party(L, e, l), NoReservation.asset, NoReservation.amount)
                          = ReservedTerm(L, e, l, k) - At(k, u, r.asset, r.amount)
    BY <2>3, <2>4
  <2>6. /\ Sound(U) /\ SameParties(L, U) /\ (U.ok => L.ok)
        /\ U.reserved[e][l] = NoReservation
        /\ \A d \in Lanes, j \in Loans : d # e \/ j # l => U.reserved[d][j] = L.reserved[d][j]
        /\ U.loanCollateralLien = L.loanCollateralLien
        /\ U.offerPrincipalLien = L.offerPrincipalLien /\ U.intentCapital = L.intentCapital
        /\ U.setAside = L.setAside
    <3> HIDE DEF r
    <3> QED BY <1>0, <2>2, <2>5, ReservedDown
  <2> HIDE DEF U
  <2> QED BY <2>1, <2>2, <2>6 DEF Grows
<1> QED BY <1>1, <1>2

(* Part of a reservation is taken: by whichever function, for each of them *)
(* takes what is reserved at most.                                         *)
LEMMA TakeReservedSound ==
    ASSUME NEW L, Sound(L), NEW e \in Lanes, NEW l \in Loans, NEW u, u = Party(L, e, l),
           NEW x \in Nat, x <= L.reserved[e][l].amount
    PROVE  /\ Grows(L, TakeReserved(L, e, l, u, x))
           /\ \A d \in Lanes : d # e => TakeReserved(L, e, l, u, x).reserved[d][l] = L.reserved[d][l]
<1> DEFINE r == L.reserved[e][l]
           n == IF x = r.amount THEN NoReservation ELSE [r EXCEPT !.amount = Excess(@, x)]
           U == Lower(SetReserved(L, e, l, n), u, r.asset, x)
<1>0. r \in Reservation /\ L \in Ledger /\ r.amount \in Nat
  BY DEF Sound, Ledger, Reservation
<1>1. CASE x = 0
  BY <1>1 DEF TakeReserved, Grows, SameParties
<1>2. CASE x # 0
  <2>1. TakeReserved(L, e, l, u, x) = U
    BY <1>2 DEF TakeReserved
  <2>2. Excess(r.amount, x) = r.amount - x
    BY <1>0 DEF Excess
  <2>3. n \in Reservation /\ n.amount = r.amount - x /\ (x # r.amount => n.asset = r.asset)
    <3>1. r.amount - x \in Nat
      BY <1>0
    <3>2. n = IF x = r.amount THEN NoReservation ELSE [r EXCEPT !.amount = r.amount - x]
      BY <2>2
    <3> HIDE DEF r, n
    <3> QED BY <1>0, <3>1, <3>2 DEF Reservation, NoReservation
  <2>4. \A k \in Keys : At(k, u, n.asset, n.amount) = At(k, u, r.asset, r.amount) - At(k, u, r.asset, x)
    <3> HIDE DEF r, n
    <3> QED BY <1>0, <2>3 DEF At
  <2>5. \A k \in Keys : At(k, Party(L, e, l), n.asset, n.amount)
                          = ReservedTerm(L, e, l, k) - At(k, u, r.asset, x)
    <3> HIDE DEF n
    <3> QED BY <2>4 DEF ReservedTerm
  <2>6. /\ Sound(U) /\ SameParties(L, U) /\ (U.ok => L.ok)
        /\ \A d \in Lanes : d # e => U.reserved[d][l] = L.reserved[d][l]
    <3> HIDE DEF r, n
    <3> QED BY <1>0, <2>3, <2>5, ReservedDown
  <2> HIDE DEF U
  <2> QED BY <2>1, <2>6 DEF Grows
<1> QED BY <1>1, <1>2

(* reduceLenderProceeds and releaseActiveHeldPart.                         *)
LEMMA PartsOfReservationsSound ==
    ASSUME NEW L, Sound(L), NEW l \in Loans, NEW u, u = L.lender[l], NEW a, NEW x \in Nat
    PROVE  /\ Grows(L, ReduceLenderProceeds(L, l, u, a, x))
           /\ Grows(L, ReleaseActiveHeldPart(L, l, u, x))
<1>0. \A e \in Lanes : L.reserved[e][l].amount \in Nat
  BY DEF Sound, Ledger, Reservation
<1>1. \A e \in {"lenderProceeds", "heldForLender"} : e \in Lanes /\ u = Party(L, e, l)
  BY DEF Lanes, Party
<1>2. Grows(L, ReduceLenderProceeds(L, l, u, a, x))
  <2> DEFINE y == AtMost(x, ReservedOf(L, "lenderProceeds", l, a))
  <2>1. y \in Nat /\ y <= L.reserved["lenderProceeds"][l].amount
    BY <1>0, <1>1 DEF AtMost, ReservedOf
  <2> HIDE DEF y
  <2>2. Grows(L, TakeReserved(L, "lenderProceeds", l, u, y))
    BY <1>1, <2>1, TakeReservedSound
  <2> QED BY <2>2 DEF ReduceLenderProceeds, y
<1>3. Grows(L, ReleaseActiveHeldPart(L, l, u, x))
  <2> DEFINE y == AtMost(x, L.reserved["heldForLender"][l].amount)
  <2>1. y \in Nat /\ y <= L.reserved["heldForLender"][l].amount
    BY <1>0, <1>1 DEF AtMost
  <2> HIDE DEF y
  <2>2. Grows(L, TakeReserved(L, "heldForLender", l, u, y))
    BY <1>1, <2>1, TakeReservedSound
  <2> QED BY <2>2 DEF ReleaseActiveHeldPart, y
<1> QED BY <1>2, <1>3

(* capLenderHeldReservations and capBorrowerHeldReservation: what exceeds  *)
(* what is held is taken, of the lender's two reservations one by one.     *)
LEMMA CapsSound ==
    ASSUME NEW L, Sound(L), NEW l \in Loans, NEW a, NEW held \in Nat
    PROVE  /\ Grows(L, CapLenderHeldReservations(L, l, L.lender[l], a, held))
           /\ Grows(L, CapBorrowerHeldReservation(L, l, L.borrower[l], held))
<1>0. \A e \in Lanes : L.reserved[e][l].amount \in Nat
  BY DEF Sound, Ledger, Reservation
<1>1. Grows(L, CapLenderHeldReservations(L, l, L.lender[l], a, held))
  <2> DEFINE u      == L.lender[l]
             active == ReservedOf(L, "heldForLender", l, a)
             waits  == ReservedOf(L, "lenderProceeds", l, a)
             excess == Excess(active + waits, held)
             first  == AtMost(excess, active)
             rest   == excess - first
             M      == TakeReserved(L, "heldForLender", l, u, first)
  <2>1. /\ active \in Nat /\ active <= L.reserved["heldForLender"][l].amount
        /\ waits \in Nat /\ waits <= L.reserved["lenderProceeds"][l].amount
    BY <1>0 DEF ReservedOf, Lanes
  <2> HIDE DEF active, waits
  <2>2. first \in Nat /\ first <= active /\ rest \in Nat /\ rest <= waits
    BY <2>1 DEF AtMost, Excess
  <2> HIDE DEF first, rest
  <2>3. /\ u = Party(L, "heldForLender", l) /\ u = Party(L, "lenderProceeds", l)
        /\ "heldForLender" \in Lanes /\ "lenderProceeds" \in Lanes
    BY DEF Party, Lanes
  <2>4. first <= L.reserved["heldForLender"][l].amount /\ rest <= L.reserved["lenderProceeds"][l].amount
    BY <1>0, <2>1, <2>2, <2>3
  <2> HIDE DEF u
  <2>5. Grows(L, M) /\ M.reserved["lenderProceeds"][l] = L.reserved["lenderProceeds"][l]
    BY <2>2, <2>3, <2>4, TakeReservedSound
  <2> HIDE DEF M
  <2>6. u = Party(M, "lenderProceeds", l)
    BY <2>3, <2>5 DEF Grows, SameParties, Party
  <2>7. Grows(M, TakeReserved(M, "lenderProceeds", l, u, rest))
    BY <2>2, <2>3, <2>4, <2>5, <2>6, TakeReservedSound DEF Grows
  <2>8. Grows(L, TakeReserved(M, "lenderProceeds", l, u, rest))
    BY <2>5, <2>7 DEF Grows, SameParties
  <2> QED BY <2>8 DEF CapLenderHeldReservations, M, u, active, waits, first, rest
<1>2. Grows(L, CapBorrowerHeldReservation(L, l, L.borrower[l], held))
  <2> DEFINE x == Excess(L.reserved["borrowerProceeds"][l].amount, held)
  <2>1. "borrowerProceeds" \in Lanes /\ L.borrower[l] = Party(L, "borrowerProceeds", l)
    BY DEF Lanes, Party
  <2>2. x \in Nat /\ x <= L.reserved["borrowerProceeds"][l].amount
    BY <1>0, <2>1 DEF Excess
  <2> HIDE DEF x
  <2>3. Grows(L, TakeReserved(L, "borrowerProceeds", l, L.borrower[l], x))
    BY <2>1, <2>2, TakeReservedSound
  <2> QED BY <2>3 DEF CapBorrowerHeldReservation, x
<1> QED BY <1>1, <1>2

(* A lien moved from one loan to another leaves each sum as it is, provided *)
(* the loan it moves to has none yet: the row would be written over.        *)
LEMMA RekeyOnRefinanceSound ==
    ASSUME NEW L, Sound(L), NEW old \in Loans, NEW new \in Loans, old # new,
           ~ L.loanCollateralLien[new].live, NEW a, NEW x
    PROVE  Grows(L, RekeyCollateralLienOnRefinance(L, old, new, a, x))
<1> DEFINE r == L.loanCollateralLien[old]
           d == [r EXCEPT !.live = FALSE, !.amount = 0]
           D == SetLien(L, old, d)
           I == [D EXCEPT !.encumbered = [k \in Keys |-> L.encumbered[k] - LienTerm(r, k)]]
           N == SetLien(L, new, r)
           S == SetLien(N, old, d)
           p == r.live /\ r.user = L.borrower[new] /\ r.asset = a /\ r.amount = x
<1>0. L \in Ledger /\ r \in Lien
  BY DEF Sound, Ledger
<1>1. d \in Lien /\ ~ d.live /\ r.live \in BOOLEAN
  <2> HIDE DEF r
  <2> QED BY <1>0 DEF Lien
<1> HIDE DEF d
<1>2. \A k \in Keys : /\ LienTerm(r, k) \in Int /\ LienTerm(d, k) = 0
                      /\ LienTerm(L.loanCollateralLien[new], k) = 0 /\ L.encumbered[k] \in Int
  <2>1. \A k \in Keys : LienTerm(r, k) \in Int
    BY <1>0, TermsAreNat
  <2>2. \A k \in Keys : LienTerm(d, k) = 0 /\ LienTerm(L.loanCollateralLien[new], k) = 0
    BY <1>1 DEF LienTerm
  <2>3. \A k \in Keys : L.encumbered[k] \in Int
    BY <1>0 DEF Ledger
  <2> QED BY <2>1, <2>2, <2>3
<1>3. /\ D \in Ledger /\ D.loanCollateralLien[old] = d /\ D.encumbered = L.encumbered
      /\ \A j \in Loans : j # old => D.loanCollateralLien[j] = L.loanCollateralLien[j]
      /\ D.offerPrincipalLien = L.offerPrincipalLien /\ D.reserved = L.reserved
      /\ D.intentCapital = L.intentCapital /\ D.setAside = L.setAside /\ SameParties(L, D)
  <2> HIDE DEF r
  <2> QED BY <1>0, <1>1, SetLienEffect
<1>4. /\ N \in Ledger /\ N.loanCollateralLien[new] = r /\ N.encumbered = L.encumbered
      /\ \A j \in Loans : j # new => N.loanCollateralLien[j] = L.loanCollateralLien[j]
      /\ N.offerPrincipalLien = L.offerPrincipalLien /\ N.reserved = L.reserved
      /\ N.intentCapital = L.intentCapital /\ N.setAside = L.setAside /\ SameParties(L, N) /\ N.ok = L.ok
  <2> HIDE DEF r
  <2> QED BY <1>0, SetLienEffect
<1>5. /\ S \in Ledger /\ S.loanCollateralLien[old] = d /\ S.encumbered = N.encumbered
      /\ \A j \in Loans : j # old => S.loanCollateralLien[j] = N.loanCollateralLien[j]
      /\ S.offerPrincipalLien = N.offerPrincipalLien /\ S.reserved = N.reserved
      /\ S.intentCapital = N.intentCapital /\ S.setAside = N.setAside /\ SameParties(N, S) /\ S.ok = N.ok
  <2> HIDE DEF N
  <2> QED BY <1>1, <1>4, SetLienEffect
<1>6. /\ I \in Ledger /\ I.loanCollateralLien = D.loanCollateralLien
      /\ I.encumbered = [k \in Keys |-> L.encumbered[k] - LienTerm(r, k)]
      /\ I.offerPrincipalLien = D.offerPrincipalLien /\ I.reserved = D.reserved
      /\ I.intentCapital = D.intentCapital /\ I.setAside = D.setAside /\ SameParties(D, I)
  <2>1. [k \in Keys |-> L.encumbered[k] - LienTerm(r, k)] \in [Keys -> Int]
    BY <1>2
  <2> HIDE DEF D, r
  <2> QED BY <1>3, <2>1 DEF Ledger, SameParties
<1> HIDE DEF D, I, N, S, p
<1>7. ASSUME Balanced(L) PROVE Balanced(S)
  <2>1. Balanced(I)
    <3>1. \A k \in Keys : I.encumbered[k] = L.encumbered[k] - LienTerm(L.loanCollateralLien[old], k)
                                              + LienTerm(I.loanCollateralLien[old], k)
      BY <1>2, <1>3, <1>6
    <3> QED BY <1>0, <1>3, <1>6, <1>7, <3>1, LienStep DEF SameParties
  <2>2. \A k \in Keys : S.encumbered[k] = I.encumbered[k] - LienTerm(I.loanCollateralLien[new], k)
                                            + LienTerm(S.loanCollateralLien[new], k)
    BY <1>2, <1>3, <1>4, <1>5, <1>6
  <2>3. \A j \in Loans : j # new => S.loanCollateralLien[j] = I.loanCollateralLien[j]
    BY <1>3, <1>4, <1>5, <1>6
  <2> QED BY <1>3, <1>4, <1>5, <1>6, <2>1, <2>2, <2>3, LienStep DEF SameParties
<1>8. Sound(S) /\ SameParties(L, S) /\ (S.ok => L.ok)
  BY <1>4, <1>5, <1>7 DEF Sound, SameParties
<1>9. RekeyCollateralLienOnRefinance(L, old, new, a, x) = Require(S, p)
  BY DEF RekeyCollateralLienOnRefinance, S, N, d, p
<1>10. p \in BOOLEAN
  BY <1>1 DEF p
<1>11. Sound(Require(S, p)) /\ SameParties(S, Require(S, p)) /\ (Require(S, p).ok => S.ok)
  BY <1>8, <1>10, RequireSound, RequireOf
<1> QED BY <1>8, <1>9, <1>11 DEF Grows, SameParties

(* Offer liens.                                                            *)

LEMMA CreateOfferPrincipalLienSound ==
    ASSUME NEW L, Sound(L), NEW o \in Offers, NEW u \in Users, NEW a \in Assets, NEW x \in Nat
    PROVE  LET M == CreateOfferPrincipalLien(L, o, u, a, x)
           IN  /\ Grows(L, M)
               /\ M.loanCollateralLien = L.loanCollateralLien
               /\ M.reserved = L.reserved
               /\ M.intentCapital = L.intentCapital
               /\ M.setAside = L.setAside
               /\ M.offerPrincipalLien[o] = [user |-> u, asset |-> a, amount |-> x, live |-> TRUE]
               /\ \A j \in Offers : j # o => M.offerPrincipalLien[j] = L.offerPrincipalLien[j]
<1> DEFINE r == L.offerPrincipalLien[o]
           n == [user |-> u, asset |-> a, amount |-> x, live |-> TRUE]
           S == SetOfferLien(L, o, n)
           R == Raise(S, u, a, x)
           p == ~ r.live
           M == Require(R, p)
<1>0. L \in Ledger /\ p \in BOOLEAN
  BY DEF Sound, Ledger, Lien
<1>1. n \in Lien
  BY DEF Lien
<1>2. ASSUME p PROVE Sound(R)
  <2>1. \A k \in Keys : LienTerm(r, k) = 0 /\ LienTerm(n, k) = At(k, u, a, x)
                            /\ At(k, u, a, x) \in Int
    BY <1>2 DEF LienTerm, At
  <2>2. \A k \in Keys : LienTerm(n, k) = LienTerm(r, k) + At(k, u, a, x)
    <3> HIDE DEF n, r, p
    <3> QED BY <2>1
  <2> HIDE DEF n
  <2> QED BY <1>1, <2>2, OfferLienUp
<1> HIDE DEF n
<1>3. /\ S \in Ledger /\ S.offerPrincipalLien[o] = n /\ SameParties(L, S) /\ S.ok = L.ok
      /\ \A j \in Offers : j # o => S.offerPrincipalLien[j] = L.offerPrincipalLien[j]
      /\ S.loanCollateralLien = L.loanCollateralLien /\ S.reserved = L.reserved
      /\ S.intentCapital = L.intentCapital
      /\ S.setAside = L.setAside
  BY <1>0, <1>1, SetOfferLienEffect
<1> HIDE DEF S
<1>4. R \in Ledger /\ SameRows(S, R) /\ R.ok = S.ok
  BY <1>3, RaiseEffect
<1> HIDE DEF R, p
<1>5. Sound(M) /\ (M.ok => R.ok /\ p) /\ SameRows(R, M)
  BY <1>0, <1>2, <1>4, RequireOf
<1>6. CreateOfferPrincipalLien(L, o, u, a, x) = M
  BY DEF CreateOfferPrincipalLien, R, S, n, p
<1> HIDE DEF M
<1>7. /\ Grows(L, M) /\ M.offerPrincipalLien[o] = n
      /\ \A j \in Offers : j # o => M.offerPrincipalLien[j] = L.offerPrincipalLien[j]
      /\ M.loanCollateralLien = L.loanCollateralLien /\ M.reserved = L.reserved
      /\ M.intentCapital = L.intentCapital
      /\ M.setAside = L.setAside
  BY <1>3, <1>4, <1>5 DEF Grows, SameRows, SameParties
<1> QED BY <1>6, <1>7 DEF n

LEMMA DecrementOfferPrincipalLienSound ==
    ASSUME NEW L, Sound(L), NEW o \in Offers, NEW x \in Nat
    PROVE  LET M == DecrementOfferPrincipalLien(L, o, x)
           IN  /\ Grows(L, M)
               /\ M.loanCollateralLien = L.loanCollateralLien
               /\ M.reserved = L.reserved
               /\ M.intentCapital = L.intentCapital
               /\ M.setAside = L.setAside
               /\ M.offerPrincipalLien[o] =
                    IF L.offerPrincipalLien[o].live
                    THEN [L.offerPrincipalLien[o] EXCEPT !.amount = Excess(@, x)]
                    ELSE L.offerPrincipalLien[o]
               /\ M.ok /\ L.offerPrincipalLien[o].live => x <= L.offerPrincipalLien[o].amount
               /\ \A j \in Offers : j # o => M.offerPrincipalLien[j] = L.offerPrincipalLien[j]
<1> DEFINE r == L.offerPrincipalLien[o]
           n == [r EXCEPT !.amount = Excess(@, x)]
           S == SetOfferLien(L, o, n)
           D == Lower(S, r.user, r.asset, x)
           p == x <= r.amount
           M == Require(D, p)
<1>0. r \in Lien /\ L \in Ledger
  BY DEF Sound, Ledger
<1>1. CASE ~ r.live
  <2>1. DecrementOfferPrincipalLien(L, o, x) = L
    BY <1>1 DEF DecrementOfferPrincipalLien
  <2> QED BY <1>1, <2>1 DEF Grows, SameParties
<1>2. CASE r.live
  <2>1. DecrementOfferPrincipalLien(L, o, x) = M
    BY <1>2 DEF DecrementOfferPrincipalLien
  <2>2. n \in Lien /\ p \in BOOLEAN
    BY <1>0 DEF Lien, Excess
  <2>3. ASSUME p PROVE Sound(D)
    <3>1. n.amount = r.amount - x /\ n.live /\ n.user = r.user /\ n.asset = r.asset
      BY <1>0, <1>2, <2>3 DEF Lien, Excess
    <3>2. r.amount \in Int
      BY <1>0 DEF Lien
    <3>3. \A k \in Keys : LienTerm(n, k) = LienTerm(r, k) - At(k, r.user, r.asset, x)
      <4> HIDE DEF n, r
      <4> QED BY <1>2, <3>1, <3>2 DEF LienTerm, At
    <3> HIDE DEF n
    <3> QED BY <2>2, <3>3, OfferLienDown
  <2> HIDE DEF n, r
  <2>4. /\ S \in Ledger /\ S.offerPrincipalLien[o] = n /\ SameParties(L, S) /\ S.ok = L.ok
        /\ \A j \in Offers : j # o => S.offerPrincipalLien[j] = L.offerPrincipalLien[j]
        /\ S.loanCollateralLien = L.loanCollateralLien /\ S.reserved = L.reserved
        /\ S.intentCapital = L.intentCapital
        /\ S.setAside = L.setAside
    BY <1>0, <2>2, SetOfferLienEffect
  <2> HIDE DEF S
  <2>5. D \in Ledger /\ SameRows(S, D) /\ (D.ok => S.ok)
    BY <2>4, LowerRows DEF D
  <2> HIDE DEF D, p
  <2>6. Sound(M) /\ (M.ok => D.ok /\ p) /\ SameRows(D, M)
    BY <2>2, <2>3, <2>5, RequireOf
  <2> HIDE DEF M
  <2>7. /\ Grows(L, M) /\ M.offerPrincipalLien[o] = n /\ (M.ok => p)
        /\ \A j \in Offers : j # o => M.offerPrincipalLien[j] = L.offerPrincipalLien[j]
        /\ M.loanCollateralLien = L.loanCollateralLien /\ M.reserved = L.reserved
        /\ M.intentCapital = L.intentCapital
        /\ M.setAside = L.setAside
    BY <2>4, <2>5, <2>6 DEF Grows, SameRows, SameParties
  <2> QED BY <1>2, <2>1, <2>7 DEF n, r, p
<1> QED BY <1>1, <1>2

LEMMA IncrementOfferPrincipalLienSound ==
    ASSUME NEW L, Sound(L), NEW o \in Offers, NEW x \in Nat
    PROVE  LET M == IncrementOfferPrincipalLien(L, o, x)
           IN  /\ Grows(L, M)
               /\ M.loanCollateralLien = L.loanCollateralLien
               /\ M.reserved = L.reserved
               /\ M.intentCapital = L.intentCapital
               /\ M.setAside = L.setAside
               /\ M.offerPrincipalLien[o] =
                    IF L.offerPrincipalLien[o].live
                    THEN [L.offerPrincipalLien[o] EXCEPT !.amount = @ + x]
                    ELSE L.offerPrincipalLien[o]
               /\ \A j \in Offers : j # o => M.offerPrincipalLien[j] = L.offerPrincipalLien[j]
<1> DEFINE r == L.offerPrincipalLien[o]
           n == [r EXCEPT !.amount = @ + x]
           M == Raise(SetOfferLien(L, o, n), r.user, r.asset, x)
<1>0. r \in Lien
  BY DEF Sound, Ledger
<1>1. CASE ~ r.live
  <2>1. IncrementOfferPrincipalLien(L, o, x) = L
    BY <1>1 DEF IncrementOfferPrincipalLien
  <2> QED BY <1>1, <2>1 DEF Grows, SameParties
<1>2. CASE r.live
  <2>1. IncrementOfferPrincipalLien(L, o, x) = M
    BY <1>2 DEF IncrementOfferPrincipalLien
  <2>2. /\ n \in Lien /\ n.amount = r.amount + x /\ n.live /\ n.user = r.user /\ n.asset = r.asset
        /\ r.amount \in Nat
    BY <1>0, <1>2 DEF Lien
  <2>4. \A k \in Keys : LienTerm(n, k) = LienTerm(r, k) + At(k, r.user, r.asset, x)
    <3> HIDE DEF n, r
    <3> QED BY <1>2, <2>2 DEF LienTerm, At
  <2> HIDE DEF n
  <2>5. /\ Sound(M) /\ SameParties(L, M) /\ (M.ok => L.ok)
        /\ M.offerPrincipalLien[o] = n
        /\ \A j \in Offers : j # o => M.offerPrincipalLien[j] = L.offerPrincipalLien[j]
        /\ M.loanCollateralLien = L.loanCollateralLien /\ M.reserved = L.reserved
        /\ M.intentCapital = L.intentCapital
        /\ M.setAside = L.setAside
    BY <2>2, <2>4, OfferLienUp
  <2> QED BY <1>2, <2>1, <2>5 DEF Grows, n
<1> QED BY <1>1, <1>2

LEMMA ReleaseOfferPrincipalLienSound ==
    ASSUME NEW L, Sound(L), NEW o \in Offers
    PROVE  LET M == ReleaseOfferPrincipalLien(L, o)
           IN  /\ Grows(L, M)
               /\ M.loanCollateralLien = L.loanCollateralLien
               /\ M.reserved = L.reserved
               /\ M.intentCapital = L.intentCapital
               /\ M.setAside = L.setAside
               /\ ~ M.offerPrincipalLien[o].live
               /\ \A j \in Offers : j # o => M.offerPrincipalLien[j] = L.offerPrincipalLien[j]
<1> DEFINE r == L.offerPrincipalLien[o]
           n == [r EXCEPT !.live = FALSE]
           M == Lower(SetOfferLien(L, o, n), r.user, r.asset, r.amount)
<1>0. r \in Lien
  BY DEF Sound, Ledger
<1>1. CASE ~ r.live
  <2>1. ReleaseOfferPrincipalLien(L, o) = L
    BY <1>1 DEF ReleaseOfferPrincipalLien
  <2> QED BY <1>1, <2>1 DEF Grows, SameParties
<1>2. CASE r.live
  <2>1. ReleaseOfferPrincipalLien(L, o) = M
    BY <1>2 DEF ReleaseOfferPrincipalLien
  <2>2. n \in Lien /\ n.live = FALSE /\ r.amount \in Nat
    BY <1>0 DEF Lien
  <2>3. \A k \in Keys : At(k, r.user, r.asset, r.amount) \in Int
    BY <2>2 DEF At
  <2>4. \A k \in Keys : LienTerm(n, k) = LienTerm(L.offerPrincipalLien[o], k)
                                           - At(k, r.user, r.asset, r.amount)
    BY <1>2, <2>2, <2>3 DEF LienTerm
  <2> HIDE DEF n, r
  <2>5. /\ Sound(M) /\ SameParties(L, M) /\ (M.ok => L.ok)
        /\ M.offerPrincipalLien[o] = n
        /\ \A j \in Offers : j # o => M.offerPrincipalLien[j] = L.offerPrincipalLien[j]
        /\ M.loanCollateralLien = L.loanCollateralLien /\ M.reserved = L.reserved
        /\ M.intentCapital = L.intentCapital
        /\ M.setAside = L.setAside
    BY <2>2, <2>4, OfferLienDown
  <2> QED BY <2>1, <2>2, <2>5 DEF Grows
<1> QED BY <1>1, <1>2
-----------------------------------------------------------------------------
(* Naming the parties of a loan that has no reservation.                   *)

LEMMA SetLenderEffect ==
    ASSUME NEW L \in Ledger, NEW l \in Loans, NEW u \in Users
    PROVE  LET M == SetLender(L, l, u)
           IN  /\ M \in Ledger /\ M.ok = L.ok /\ M.borrower = L.borrower
               /\ M.lender[l] = u /\ \A j \in Loans : j # l => M.lender[j] = L.lender[j]
               /\ M.loanCollateralLien = L.loanCollateralLien
               /\ M.offerPrincipalLien = L.offerPrincipalLien
               /\ M.reserved = L.reserved /\ M.intentCapital = L.intentCapital
               /\ M.setAside = L.setAside
               /\ M.encumbered = L.encumbered
BY DEF SetLender, Ledger

LEMMA SetBorrowerEffect ==
    ASSUME NEW L \in Ledger, NEW l \in Loans, NEW u \in Users
    PROVE  LET M == SetBorrower(L, l, u)
           IN  /\ M \in Ledger /\ M.ok = L.ok /\ M.lender = L.lender
               /\ M.borrower[l] = u /\ \A j \in Loans : j # l => M.borrower[j] = L.borrower[j]
               /\ M.loanCollateralLien = L.loanCollateralLien
               /\ M.offerPrincipalLien = L.offerPrincipalLien
               /\ M.reserved = L.reserved /\ M.intentCapital = L.intentCapital
               /\ M.setAside = L.setAside
               /\ M.encumbered = L.encumbered
BY DEF SetBorrower, Ledger

(* A change of parties that no reservation is keyed by moves no term.      *)
LEMMA PartiesStep ==
    ASSUME NEW L \in Ledger, NEW M \in Ledger, NEW l \in Loans, Balanced(L),
           \A e \in Lanes : L.reserved[e][l].amount = 0,
           \A j \in Loans : j # l => M.lender[j] = L.lender[j] /\ M.borrower[j] = L.borrower[j],
           M.loanCollateralLien = L.loanCollateralLien, M.reserved = L.reserved,
           M.offerPrincipalLien = L.offerPrincipalLien, M.intentCapital = L.intentCapital,
           M.setAside = L.setAside,
           M.encumbered = L.encumbered
    PROVE  Balanced(M)
<1>1. \A j \in Loans, e \in Lanes, k \in Keys : j # l => ReservedTerm(M, e, j, k) = ReservedTerm(L, e, j, k)
  BY DEF ReservedTerm, Party
<1>2. \A e \in Lanes, k \in Keys : ReservedTerm(M, e, l, k) = 0 /\ ReservedTerm(L, e, l, k) = 0
  BY DEF ReservedTerm, At
<1>3. \A j \in Loans, k \in Keys : j # l => LoanTerm(M, j, k) = LoanTerm(L, j, k)
  BY <1>1 DEF LoanTerm, Lanes
<1>4. \A k \in Keys : LoanTerm(M, l, k) = LoanTerm(L, l, k)
  BY <1>2 DEF LoanTerm, Lanes
<1>5. \A k \in Keys : LoanTerm(L, l, k) \in Int
  BY TermsAreNat
<1>7. \A k \in Keys : L.encumbered[k] \in Int
  BY DEF Ledger
<1>6. \A k \in Keys : M.encumbered[k] = L.encumbered[k] - LoanTerm(L, l, k) + LoanTerm(M, l, k)
  BY <1>4, <1>5, <1>7
<1> QED BY <1>3, <1>6, LoanStep

LEMMA SetPartiesSound ==
    ASSUME NEW L, Sound(L), NEW l \in Loans, NEW u \in Users, NEW v \in Users,
           \A e \in Lanes : L.reserved[e][l].amount = 0
    PROVE  LET M == SetBorrower(SetLender(L, l, u), l, v)
           IN  /\ Sound(M) /\ M.ok = L.ok
               /\ M.lender[l] = u /\ M.borrower[l] = v
               /\ \A j \in Loans : j # l => M.lender[j] = L.lender[j] /\ M.borrower[j] = L.borrower[j]
               /\ M.loanCollateralLien = L.loanCollateralLien
               /\ M.offerPrincipalLien = L.offerPrincipalLien
               /\ M.reserved = L.reserved /\ M.intentCapital = L.intentCapital
               /\ M.setAside = L.setAside
<1> DEFINE N == SetLender(L, l, u)
           M == SetBorrower(N, l, v)
<1>0. L \in Ledger
  BY DEF Sound
<1>1. /\ N \in Ledger /\ N.ok = L.ok /\ N.borrower = L.borrower
      /\ N.lender[l] = u /\ \A j \in Loans : j # l => N.lender[j] = L.lender[j]
      /\ N.loanCollateralLien = L.loanCollateralLien
      /\ N.offerPrincipalLien = L.offerPrincipalLien
      /\ N.reserved = L.reserved /\ N.intentCapital = L.intentCapital
      /\ N.setAside = L.setAside
      /\ N.encumbered = L.encumbered
  BY <1>0, SetLenderEffect
<1> HIDE DEF N
<1>2. /\ M \in Ledger /\ M.ok = N.ok /\ M.lender = N.lender
      /\ M.borrower[l] = v /\ \A j \in Loans : j # l => M.borrower[j] = N.borrower[j]
      /\ M.loanCollateralLien = N.loanCollateralLien
      /\ M.offerPrincipalLien = N.offerPrincipalLien
      /\ M.reserved = N.reserved /\ M.intentCapital = N.intentCapital
      /\ M.setAside = N.setAside
      /\ M.encumbered = N.encumbered
  BY <1>1, SetBorrowerEffect
<1> HIDE DEF M
<1>3. Balanced(L) => Balanced(M)
  BY <1>0, <1>1, <1>2, PartiesStep
<1> QED BY <1>1, <1>2, <1>3 DEF Sound, M, N

-----------------------------------------------------------------------------
(* Intent capital.                                                         *)

LEMMA SetIntentEffect ==
    ASSUME NEW L \in Ledger, NEW i \in Intents, NEW x \in Nat
    PROVE  /\ SetIntent(L, i, x) \in Ledger
           /\ SetIntent(L, i, x).intentCapital[i] = x
           /\ \A j \in Intents : j # i => SetIntent(L, i, x).intentCapital[j] = L.intentCapital[j]
           /\ SetIntent(L, i, x).loanCollateralLien = L.loanCollateralLien
           /\ SetIntent(L, i, x).offerPrincipalLien = L.offerPrincipalLien
           /\ SetIntent(L, i, x).reserved = L.reserved
           /\ SetIntent(L, i, x).setAside = L.setAside
           /\ SameParties(L, SetIntent(L, i, x))
           /\ SetIntent(L, i, x).ok = L.ok
           /\ SetIntent(L, i, x).encumbered = L.encumbered
BY DEF SetIntent, Ledger, SameParties

LEMMA LienIntentCapitalSound ==
    ASSUME NEW L, Sound(L), NEW i \in Intents, NEW x \in Nat
    PROVE  LET M == LienIntentCapital(L, i, x)
           IN  /\ Grows(L, M)
               /\ M.loanCollateralLien = L.loanCollateralLien
               /\ M.offerPrincipalLien = L.offerPrincipalLien
               /\ M.reserved = L.reserved
<1> DEFINE u == IntentOwner[i]
           a == IntentLend[i]
           n == L.intentCapital[i] + x
           S == SetIntent(L, i, n)
           M == Raise(S, u, a, x)
<1>0. L \in Ledger
  BY DEF Sound
<1>1. /\ S \in Ledger /\ S.ok = L.ok /\ SameParties(L, S) /\ S.encumbered = L.encumbered
      /\ S.loanCollateralLien = L.loanCollateralLien
      /\ S.offerPrincipalLien = L.offerPrincipalLien /\ S.reserved = L.reserved
      /\ S.setAside = L.setAside /\ S.intentCapital[i] = n
      /\ \A j \in Intents : j # i => S.intentCapital[j] = L.intentCapital[j]
  <2>1. n \in Nat
    BY <1>0 DEF Ledger
  <2> HIDE DEF n
  <2> QED BY <1>0, <2>1, SetIntentEffect
<1> HIDE DEF S
<1>2. /\ M \in Ledger /\ SameRows(S, M) /\ M.ok = S.ok
      /\ \A k \in Keys : M.encumbered[k] = S.encumbered[k] + At(k, u, a, x)
  BY <1>1, RaiseEffect
<1> HIDE DEF M
<1>3. \A k \in Keys : /\ IntentTerm(M, i, k) = IntentTerm(L, i, k) + At(k, u, a, x)
                      /\ IntentTerm(L, i, k) \in Int /\ At(k, u, a, x) \in Int
  <2>1. L.intentCapital[i] \in Nat
    BY <1>0 DEF Ledger
  <2>2. M.intentCapital[i] = L.intentCapital[i] + x
    BY <1>1, <1>2 DEF SameRows
  <2> QED BY <2>1, <2>2 DEF IntentTerm, At
<1>4. \A k \in Keys : L.encumbered[k] \in Int
  BY <1>0 DEF Ledger
<1>5. \A k \in Keys : M.encumbered[k] = L.encumbered[k] - IntentTerm(L, i, k) + IntentTerm(M, i, k)
  BY <1>1, <1>2, <1>3, <1>4
<1>6. Balanced(L) => Balanced(M)
  BY <1>0, <1>1, <1>2, <1>5, IntentStep DEF SameRows, SameParties
<1>7. LienIntentCapital(L, i, x) = M
  BY DEF LienIntentCapital, M, S
<1> QED BY <1>1, <1>2, <1>6, <1>7 DEF Grows, Sound, SameRows, SameParties

LEMMA UnlienIntentCapitalSound ==
    ASSUME NEW L, Sound(L), NEW i \in Intents, NEW x \in Nat
    PROVE  LET M == UnlienIntentCapital(L, i, x)
           IN  /\ Grows(L, M)
               /\ M.loanCollateralLien = L.loanCollateralLien
               /\ M.offerPrincipalLien = L.offerPrincipalLien
               /\ M.reserved = L.reserved
<1> DEFINE u == IntentOwner[i]
           a == IntentLend[i]
           n == Excess(L.intentCapital[i], x)
           S == SetIntent(L, i, n)
           D == Lower(S, u, a, x)
           p == x <= L.intentCapital[i]
           M == Require(D, p)
<1>0. L \in Ledger /\ L.intentCapital[i] \in Nat /\ p \in BOOLEAN
  BY DEF Sound, Ledger
<1>1. /\ S \in Ledger /\ S.ok = L.ok /\ SameParties(L, S) /\ S.encumbered = L.encumbered
      /\ S.loanCollateralLien = L.loanCollateralLien
      /\ S.offerPrincipalLien = L.offerPrincipalLien /\ S.reserved = L.reserved
      /\ S.setAside = L.setAside /\ S.intentCapital[i] = n
      /\ \A j \in Intents : j # i => S.intentCapital[j] = L.intentCapital[j]
  <2>1. n \in Nat
    <3>1. L.intentCapital[i] \in Nat
      BY <1>0 DEF Ledger
    <3> QED BY <3>1 DEF Excess
  <2> HIDE DEF n
  <2> QED BY <1>0, <2>1, SetIntentEffect
<1> HIDE DEF S
<1>2. /\ D \in Ledger /\ SameRows(S, D) /\ (D.ok => S.ok)
      /\ \A k \in Keys : D.encumbered[k] = S.encumbered[k] - At(k, u, a, x)
  <2>1. S \in Ledger /\ x \in Int
    BY <1>1
  <2> HIDE DEF u, a
  <2> QED BY ONLY <2>1, LowerEffect
<1> HIDE DEF D
<1>3. ASSUME p PROVE Sound(D)
  <2>1. \A k \in Keys : /\ IntentTerm(D, i, k) = IntentTerm(L, i, k) - At(k, u, a, x)
                        /\ IntentTerm(L, i, k) \in Int /\ At(k, u, a, x) \in Int
    <3>1. L.intentCapital[i] \in Nat
      BY <1>0 DEF Ledger
    <3>2. D.intentCapital[i] = L.intentCapital[i] - x
      <4>1. D.intentCapital[i] = Excess(L.intentCapital[i], x)
        BY <1>1, <1>2 DEF SameRows
      <4> QED BY <1>3, <3>1, <4>1 DEF Excess
    <3> QED BY <3>1, <3>2 DEF IntentTerm, At
  <2>2. \A k \in Keys : L.encumbered[k] \in Int
    BY <1>0 DEF Ledger
  <2>3. \A k \in Keys : D.encumbered[k] = L.encumbered[k] - IntentTerm(L, i, k) + IntentTerm(D, i, k)
    BY <1>1, <1>2, <2>1, <2>2
  <2>4. Balanced(L) => Balanced(D)
    BY <1>0, <1>1, <1>2, <2>3, IntentStep DEF SameRows, SameParties
  <2> QED BY <1>1, <1>2, <2>4 DEF Sound
<1> HIDE DEF p
<1>4. Sound(M) /\ (M.ok => D.ok /\ p) /\ SameRows(D, M)
  BY <1>0, <1>2, <1>3, RequireOf
<1>5. UnlienIntentCapital(L, i, x) = M
  BY DEF UnlienIntentCapital, M, D, S, p
<1> HIDE DEF M
<1> QED BY <1>1, <1>2, <1>4, <1>5 DEF Grows, SameRows, SameParties

-----------------------------------------------------------------------------
(* What is set aside for a loan.                                           *)

(* S is L with x written into what u has set aside of a for loan l.        *)
AsideSet(L, S, p, l, u, a, x) ==
    /\ S \in Ledger /\ S.ok = L.ok /\ SameParties(L, S)
    /\ S.setAside[p][l][<<u, a>>] = x
    /\ \A k \in Keys : k # <<u, a>> => S.setAside[p][l][k] = L.setAside[p][l][k]
    /\ \A q \in Asides, j \in Loans : q # p \/ j # l => S.setAside[q][j] = L.setAside[q][j]
    /\ S.loanCollateralLien = L.loanCollateralLien
    /\ S.offerPrincipalLien = L.offerPrincipalLien
    /\ S.reserved = L.reserved
    /\ S.intentCapital = L.intentCapital
    /\ S.encumbered = L.encumbered

LEMMA SetAsideEffect ==
    ASSUME NEW L \in Ledger, NEW p \in Asides, NEW l \in Loans, NEW u \in Users, NEW a \in Assets,
           NEW x \in Nat
    PROVE  AsideSet(L, SetAside(L, p, l, u, a, x), p, l, u, a, x)
<1> DEFINE row  == [L.setAside[p][l] EXCEPT ![<<u, a>>] = x]
           rows == [L.setAside[p] EXCEPT ![l] = row]
           all  == [L.setAside EXCEPT ![p] = rows]
           S    == SetAside(L, p, l, u, a, x)
<1>1. /\ L.setAside \in [Asides -> [Loans -> [Keys -> Nat]]]
      /\ L.setAside[p] \in [Loans -> [Keys -> Nat]] /\ L.setAside[p][l] \in [Keys -> Nat]
      /\ <<u, a>> \in Keys
  <2>1. L.setAside \in [Asides -> [Loans -> [Keys -> Nat]]]
    BY DEF Ledger
  <2>2. L.setAside[p] \in [Loans -> [Keys -> Nat]]
    BY <2>1
  <2>3. L.setAside[p][l] \in [Keys -> Nat]
    BY <2>2
  <2>4. <<u, a>> \in Keys
    BY DEF Keys
  <2> QED BY <2>1, <2>2, <2>3, <2>4
<1>2. row \in [Keys -> Nat] /\ row[<<u, a>>] = x /\ \A k \in Keys : k # <<u, a>> => row[k] = L.setAside[p][l][k]
  BY <1>1
<1> HIDE DEF row
<1>3. rows \in [Loans -> [Keys -> Nat]] /\ rows[l] = row /\ \A j \in Loans : j # l => rows[j] = L.setAside[p][j]
  BY <1>1, <1>2
<1> HIDE DEF rows
<1>4. /\ all \in [Asides -> [Loans -> [Keys -> Nat]]] /\ all[p] = rows
      /\ \A q \in Asides : q # p => all[q] = L.setAside[q]
  BY <1>1, <1>3
<1> HIDE DEF all
<1>5. S = [L EXCEPT !.setAside = all]
  BY DEF SetAside, Ledger, row, rows, all
<1> HIDE DEF S
<1>6. /\ S \in Ledger /\ S.setAside = all /\ S.ok = L.ok /\ SameParties(L, S)
      /\ S.loanCollateralLien = L.loanCollateralLien
      /\ S.offerPrincipalLien = L.offerPrincipalLien
      /\ S.reserved = L.reserved
      /\ S.intentCapital = L.intentCapital
      /\ S.encumbered = L.encumbered
  BY <1>4, <1>5 DEF Ledger, SameParties
<1>7. S.setAside[p][l] = row
  BY <1>3, <1>4, <1>6
<1>8. \A q \in Asides, j \in Loans : q # p \/ j # l => S.setAside[q][j] = L.setAside[q][j]
  BY <1>3, <1>4, <1>6
<1> QED BY <1>2, <1>6, <1>7, <1>8 DEF S, AsideSet

(* L and M agree but for what is set aside, the aggregate and ok.          *)
SameButAside(L, M) ==
    /\ M.loanCollateralLien = L.loanCollateralLien
    /\ M.offerPrincipalLien = L.offerPrincipalLien
    /\ M.reserved = L.reserved
    /\ M.intentCapital = L.intentCapital
    /\ SameParties(L, M)

LEMMA PutAsideSound ==
    ASSUME NEW L, Sound(L), NEW p \in Asides, NEW l \in Loans, NEW u \in Users, NEW a \in Assets,
           NEW x \in Nat
    PROVE  LET M == PutAside(L, p, l, u, a, x)
           IN  Grows(L, M) /\ SameButAside(L, M)
<1> DEFINE n == L.setAside[p][l][<<u, a>>] + x
           S == SetAside(L, p, l, u, a, n)
           M == Raise(S, u, a, x)
<1>0. L \in Ledger /\ <<u, a>> \in Keys
  BY DEF Sound, Keys
<1>1. CASE x = 0
  BY <1>1 DEF PutAside, Grows, SameButAside, SameParties
<1>2. CASE x # 0
  <2>1. n \in Nat /\ L.setAside[p][l][<<u, a>>] \in Nat
    BY <1>0, TermsAreNat
  <2>2. PutAside(L, p, l, u, a, x) = M
    BY <1>2 DEF PutAside
  <2>3. /\ S \in Ledger /\ S.ok = L.ok /\ SameParties(L, S) /\ S.encumbered = L.encumbered
        /\ S.setAside[p][l][<<u, a>>] = n
        /\ \A k \in Keys : k # <<u, a>> => S.setAside[p][l][k] = L.setAside[p][l][k]
        /\ \A q \in Asides, j \in Loans : q # p \/ j # l => S.setAside[q][j] = L.setAside[q][j]
        /\ S.loanCollateralLien = L.loanCollateralLien
        /\ S.offerPrincipalLien = L.offerPrincipalLien
        /\ S.reserved = L.reserved /\ S.intentCapital = L.intentCapital
    <3> HIDE DEF n
    <3>2. AsideSet(L, S, p, l, u, a, n)
      BY <1>0, <2>1, SetAsideEffect
    <3> QED BY <3>2 DEF AsideSet
  <2> HIDE DEF S
  <2>4. /\ M \in Ledger /\ SameRows(S, M) /\ M.ok = S.ok
        /\ \A k \in Keys : M.encumbered[k] = S.encumbered[k] + At(k, u, a, x)
    BY <2>3, RaiseEffect
  <2> HIDE DEF M
  <2>5. ASSUME NEW k \in Keys
        PROVE  M.encumbered[k] = L.encumbered[k] - L.setAside[p][l][k] + M.setAside[p][l][k]
    <3>1. L.encumbered[k] \in Int /\ L.setAside[p][l][k] \in Int
      BY <1>0, TermsAreNat DEF Ledger
    <3>2. M.encumbered[k] = L.encumbered[k] + At(k, u, a, x)
      BY <2>3, <2>4
    <3>3. M.setAside = S.setAside
      BY <2>4 DEF SameRows
    <3>4. CASE k = <<u, a>>
      <4>1. M.setAside[p][l][k] = L.setAside[p][l][k] + x
        BY <2>3, <3>3, <3>4
      <4>2. At(k, u, a, x) = x
        BY <3>4 DEF At
      <4> QED BY <3>1, <3>2, <4>1, <4>2
    <3>5. CASE k # <<u, a>>
      <4>1. M.setAside[p][l][k] = L.setAside[p][l][k]
        BY <2>3, <3>3, <3>5
      <4>2. At(k, u, a, x) = 0
        BY <3>5 DEF At
      <4> QED BY <3>1, <3>2, <4>1, <4>2
    <3> QED BY <3>4, <3>5
  <2>6. Balanced(L) => Balanced(M)
    BY <1>0, <2>3, <2>4, <2>5, SetAsideStep DEF SameRows, SameParties
  <2> QED BY <1>0, <2>2, <2>3, <2>4, <2>6 DEF Grows, Sound, SameRows, SameParties, SameButAside
<1> QED BY <1>1, <1>2

LEMMA TakeBackSound ==
    ASSUME NEW L, Sound(L), NEW p \in Asides, NEW l \in Loans, NEW u \in Users, NEW a \in Assets,
           NEW x \in Nat
    PROVE  LET M == TakeBack(L, p, l, u, a, x)
           IN  Grows(L, M) /\ SameButAside(L, M)
<1> DEFINE held == L.setAside[p][l][<<u, a>>]
           n == Excess(held, x)
           S == SetAside(L, p, l, u, a, n)
           D == Lower(S, u, a, x)
           fits == x <= held
           M == Require(D, fits)
<1>0. L \in Ledger /\ <<u, a>> \in Keys
  BY DEF Sound, Keys
<1>1. CASE x = 0
  BY <1>1 DEF TakeBack, Grows, SameButAside, SameParties
<1>2. CASE x # 0
  <2>1. held \in Nat
    BY <1>0, TermsAreNat
  <2>2. TakeBack(L, p, l, u, a, x) = M
    BY <1>2 DEF TakeBack
  <2> HIDE DEF held
  <2>3. /\ S \in Ledger /\ S.ok = L.ok /\ SameParties(L, S) /\ S.encumbered = L.encumbered
        /\ S.setAside[p][l][<<u, a>>] = n
        /\ \A k \in Keys : k # <<u, a>> => S.setAside[p][l][k] = L.setAside[p][l][k]
        /\ \A q \in Asides, j \in Loans : q # p \/ j # l => S.setAside[q][j] = L.setAside[q][j]
        /\ S.loanCollateralLien = L.loanCollateralLien
        /\ S.offerPrincipalLien = L.offerPrincipalLien
        /\ S.reserved = L.reserved /\ S.intentCapital = L.intentCapital
    <3>1. n \in Nat
      BY <2>1 DEF Excess
    <3> HIDE DEF n
    <3>2. AsideSet(L, S, p, l, u, a, n)
      BY <1>0, <3>1, SetAsideEffect
    <3> QED BY <3>2 DEF AsideSet
  <2> HIDE DEF S
  <2>4. /\ D \in Ledger /\ SameRows(S, D) /\ (D.ok => S.ok)
        /\ \A k \in Keys : D.encumbered[k] = S.encumbered[k] - At(k, u, a, x)
    <3>1. S \in Ledger /\ x \in Int
      BY <2>3
    <3> QED BY ONLY <3>1, LowerEffect
  <2> HIDE DEF D
  <2>5. ASSUME fits PROVE Sound(D)
    <3>1. ASSUME NEW k \in Keys
          PROVE  D.encumbered[k] = L.encumbered[k] - L.setAside[p][l][k] + D.setAside[p][l][k]
      <4>1. L.encumbered[k] \in Int /\ L.setAside[p][l][k] \in Int
        BY <1>0, TermsAreNat DEF Ledger
      <4>2. D.encumbered[k] = L.encumbered[k] - At(k, u, a, x)
        BY <2>3, <2>4
      <4>3. D.setAside = S.setAside
        BY <2>4 DEF SameRows
      <4>4. CASE k = <<u, a>>
        <5>1. n = held - x
          BY <2>1, <2>5 DEF Excess
        <5>2. D.setAside[p][l][k] = L.setAside[p][l][k] - x
          BY <2>3, <4>3, <4>4, <5>1 DEF held
        <5>3. At(k, u, a, x) = x
          BY <4>4 DEF At
        <5> QED BY <4>1, <4>2, <5>2, <5>3
      <4>5. CASE k # <<u, a>>
        <5>1. D.setAside[p][l][k] = L.setAside[p][l][k]
          BY <2>3, <4>3, <4>5
        <5>2. At(k, u, a, x) = 0
          BY <4>5 DEF At
        <5> QED BY <4>1, <4>2, <5>1, <5>2
      <4> QED BY <4>4, <4>5
    <3>2. Balanced(L) => Balanced(D)
      BY <1>0, <2>3, <2>4, <3>1, SetAsideStep DEF SameRows, SameParties
    <3> QED BY <2>3, <2>4, <3>2 DEF Sound
  <2>6. fits \in BOOLEAN
    BY <2>1
  <2> HIDE DEF fits
  <2>7. Sound(M) /\ (M.ok => D.ok /\ fits) /\ SameRows(D, M)
    BY <2>4, <2>5, <2>6, RequireOf
  <2> HIDE DEF M
  <2> QED BY <2>2, <2>3, <2>4, <2>7 DEF Grows, SameRows, SameParties, SameButAside
<1> QED BY <1>1, <1>2

(* The four functions of the library.                                      *)
LEMMA SellerInterestSound ==
    ASSUME NEW L, Sound(L), NEW l \in Loans, NEW u \in Users, NEW a \in Assets, NEW x \in Nat
    PROVE  /\ Grows(L, EncumberSellerInterest(L, l, u, a, x))
           /\ SameButAside(L, EncumberSellerInterest(L, l, u, a, x))
           /\ Grows(L, ReleaseSellerInterest(L, l, u, a))
           /\ SameButAside(L, ReleaseSellerInterest(L, l, u, a))
<1>1. "sellerInterestHeld" \in Asides /\ L \in Ledger /\ <<u, a>> \in Keys
  BY DEF Asides, Sound, Keys
<1>2. L.setAside["sellerInterestHeld"][l][<<u, a>>] \in Nat
  BY <1>1, TermsAreNat
<1> QED BY <1>1, <1>2, PutAsideSound, TakeBackSound DEF EncumberSellerInterest, ReleaseSellerInterest

LEMMA ExtendReserveSound ==
    ASSUME NEW L, Sound(L), NEW l \in Loans, NEW u \in Users, NEW a \in Assets, NEW x \in Nat
    PROVE  /\ Grows(L, LienExtendReserve(L, l, u, a, x))
           /\ SameButAside(L, LienExtendReserve(L, l, u, a, x))
           /\ Grows(L, UnlienExtendReserve(L, l, u, a, x))
           /\ SameButAside(L, UnlienExtendReserve(L, l, u, a, x))
BY PutAsideSound, TakeBackSound DEF LienExtendReserve, UnlienExtendReserve, Asides

-----------------------------------------------------------------------------
(* How much each operation adds to the aggregate of a key (u, a).  Where a *)
(* row is absent the operation does nothing, so the row is assumed live.   *)

Adds(L, M, u, a, x) == \A k \in Keys : M.encumbered[k] = L.encumbered[k] + At(k, u, a, x)

LEMMA RaiseAdds ==
    ASSUME NEW L \in Ledger, NEW S \in Ledger, S.encumbered = L.encumbered,
           NEW u, NEW a, NEW x \in Int
    PROVE  /\ Raise(S, u, a, x) \in Ledger
           /\ Adds(L, Raise(S, u, a, x), u, a, x)
<1>1. /\ Raise(S, u, a, x) \in Ledger
      /\ \A k \in Keys : Raise(S, u, a, x).encumbered[k] = S.encumbered[k] + At(k, u, a, x)
  BY RaiseEffect
<1> QED BY <1>1 DEF Adds

LEMMA LowerAdds ==
    ASSUME NEW L \in Ledger, NEW S \in Ledger, S.encumbered = L.encumbered,
           NEW u, NEW a, NEW x \in Nat
    PROVE  /\ Lower(S, u, a, x) \in Ledger
           /\ Adds(L, Lower(S, u, a, x), u, a, -x)
<1>0. S \in Ledger /\ x \in Int
  OBVIOUS
<1>1. /\ Lower(S, u, a, x) \in Ledger
      /\ \A k \in Keys : Lower(S, u, a, x).encumbered[k] = S.encumbered[k] - At(k, u, a, x)
  BY ONLY <1>0, LowerEffect, ZenonT(60)
<1>2. \A k \in Keys : At(k, u, a, -x) = - At(k, u, a, x) /\ At(k, u, a, x) \in Int
  BY DEF At
<1>3. \A k \in Keys : L.encumbered[k] \in Int
  BY DEF Ledger
<1> QED BY <1>1, <1>2, <1>3 DEF Adds

LEMMA RequireAdds ==
    ASSUME NEW L, NEW M \in Ledger, NEW p \in BOOLEAN, NEW u, NEW a, NEW x, Adds(L, M, u, a, x)
    PROVE  Adds(L, Require(M, p), u, a, x)
BY RequireEffect DEF Adds

LEMMA CreateCollateralLienAdds ==
    ASSUME NEW L \in Ledger, NEW l \in Loans, NEW a \in Assets, NEW x \in Nat
    PROVE  Adds(L, CreateCollateralLien(L, l, a, x), L.borrower[l], a, x)
<1> DEFINE r == [user |-> L.borrower[l], asset |-> a, amount |-> x, live |-> TRUE]
           S == SetLien(L, l, r)
           p == ~ L.loanCollateralLien[l].live
<1>1. r \in Lien /\ p \in BOOLEAN
  BY DEF Lien, Ledger
<1>2. CreateCollateralLien(L, l, a, x) = Require(Raise(S, L.borrower[l], a, x), p)
  BY DEF CreateCollateralLien, RecreateCollateralLien
<1> HIDE DEF r, p
<1>3. S \in Ledger /\ S.encumbered = L.encumbered
  BY <1>1, SetLienEffect
<1> HIDE DEF S
<1> QED BY <1>1, <1>2, <1>3, RaiseAdds, RequireAdds

LEMMA CreateOfferPrincipalLienAdds ==
    ASSUME NEW L \in Ledger, NEW o \in Offers, NEW u \in Users, NEW a \in Assets, NEW x \in Nat
    PROVE  Adds(L, CreateOfferPrincipalLien(L, o, u, a, x), u, a, x)
<1> DEFINE r == [user |-> u, asset |-> a, amount |-> x, live |-> TRUE]
           S == SetOfferLien(L, o, r)
           p == ~ L.offerPrincipalLien[o].live
<1>1. r \in Lien /\ p \in BOOLEAN
  BY DEF Lien, Ledger
<1>2. CreateOfferPrincipalLien(L, o, u, a, x) = Require(Raise(S, u, a, x), p)
  BY DEF CreateOfferPrincipalLien
<1> HIDE DEF r, p
<1>3. S \in Ledger /\ S.encumbered = L.encumbered
  BY <1>1, SetOfferLienEffect
<1> HIDE DEF S
<1> QED BY <1>1, <1>2, <1>3, RaiseAdds, RequireAdds

LEMMA DecrementOfferPrincipalLienAdds ==
    ASSUME NEW L \in Ledger, NEW o \in Offers, NEW x \in Nat, L.offerPrincipalLien[o].live
    PROVE  Adds(L, DecrementOfferPrincipalLien(L, o, x), L.offerPrincipalLien[o].user,
                L.offerPrincipalLien[o].asset, -x)
<1> DEFINE r == L.offerPrincipalLien[o]
           n == [r EXCEPT !.amount = Excess(@, x)]
           S == SetOfferLien(L, o, n)
           p == x <= r.amount
<1>1. n \in Lien /\ p \in BOOLEAN
  <2>1. r \in Lien
    BY DEF Ledger
  <2> QED BY <2>1 DEF Lien, Excess
<1>2. DecrementOfferPrincipalLien(L, o, x) = Require(Lower(S, r.user, r.asset, x), p)
  BY DEF DecrementOfferPrincipalLien
<1> HIDE DEF n, p
<1>3. S \in Ledger /\ S.encumbered = L.encumbered
  BY <1>1, SetOfferLienEffect
<1> HIDE DEF S
<1> QED BY <1>1, <1>2, <1>3, LowerAdds, RequireAdds

LEMMA IncrementOfferPrincipalLienAdds ==
    ASSUME NEW L \in Ledger, NEW o \in Offers, NEW x \in Nat, L.offerPrincipalLien[o].live
    PROVE  Adds(L, IncrementOfferPrincipalLien(L, o, x), L.offerPrincipalLien[o].user,
                L.offerPrincipalLien[o].asset, x)
<1> DEFINE r == L.offerPrincipalLien[o]
           n == [r EXCEPT !.amount = @ + x]
           S == SetOfferLien(L, o, n)
<1>1. n \in Lien
  <2>1. r \in Lien
    BY DEF Ledger
  <2>2. r.amount + x \in Nat
    BY <2>1 DEF Lien
  <2> HIDE DEF r
  <2> QED BY <2>1, <2>2 DEF Lien
<1>2. IncrementOfferPrincipalLien(L, o, x) = Raise(S, r.user, r.asset, x)
  BY DEF IncrementOfferPrincipalLien
<1> HIDE DEF n
<1>3. S \in Ledger /\ S.encumbered = L.encumbered
  BY <1>1, SetOfferLienEffect
<1> HIDE DEF S
<1> QED BY <1>2, <1>3, RaiseAdds

LEMMA ReleaseOfferPrincipalLienAdds ==
    ASSUME NEW L \in Ledger, NEW o \in Offers, L.offerPrincipalLien[o].live
    PROVE  Adds(L, ReleaseOfferPrincipalLien(L, o), L.offerPrincipalLien[o].user,
                L.offerPrincipalLien[o].asset, - L.offerPrincipalLien[o].amount)
<1> DEFINE r == L.offerPrincipalLien[o]
           n == [r EXCEPT !.live = FALSE]
           S == SetOfferLien(L, o, n)
<1>1. n \in Lien /\ r.amount \in Nat
  <2>1. r \in Lien
    BY DEF Ledger
  <2> QED BY <2>1 DEF Lien
<1>2. ReleaseOfferPrincipalLien(L, o) = Lower(S, r.user, r.asset, r.amount)
  BY DEF ReleaseOfferPrincipalLien
<1> HIDE DEF n
<1>3. S \in Ledger /\ S.encumbered = L.encumbered
  BY <1>1, SetOfferLienEffect
<1> HIDE DEF S
<1> QED BY <1>1, <1>2, <1>3, LowerAdds

LEMMA LienIntentCapitalAdds ==
    ASSUME NEW L \in Ledger, NEW i \in Intents, NEW x \in Nat
    PROVE  Adds(L, LienIntentCapital(L, i, x), IntentOwner[i], IntentLend[i], x)
<1> DEFINE n == L.intentCapital[i] + x
           S == SetIntent(L, i, n)
<1>1. n \in Nat
  BY DEF Ledger
<1>2. LienIntentCapital(L, i, x) = Raise(S, IntentOwner[i], IntentLend[i], x)
  BY DEF LienIntentCapital
<1> HIDE DEF n
<1>3. S \in Ledger /\ S.encumbered = L.encumbered
  BY <1>1, SetIntentEffect
<1> HIDE DEF S
<1> QED BY <1>2, <1>3, RaiseAdds

LEMMA UnlienIntentCapitalAdds ==
    ASSUME NEW L \in Ledger, NEW i \in Intents, NEW x \in Nat
    PROVE  Adds(L, UnlienIntentCapital(L, i, x), IntentOwner[i], IntentLend[i], -x)
<1> DEFINE n == Excess(L.intentCapital[i], x)
           S == SetIntent(L, i, n)
           p == x <= L.intentCapital[i]
<1>1. n \in Nat /\ p \in BOOLEAN
  BY DEF Ledger, Excess
<1>2. UnlienIntentCapital(L, i, x) = Require(Lower(S, IntentOwner[i], IntentLend[i], x), p)
  BY DEF UnlienIntentCapital
<1> HIDE DEF n, p
<1>3. S \in Ledger /\ S.encumbered = L.encumbered
  BY <1>1, SetIntentEffect
<1> HIDE DEF S
<1> QED BY <1>1, <1>2, <1>3, LowerAdds, RequireAdds

LEMMA HeldIsNat ==
    ASSUME NEW L \in Ledger, NEW p \in Asides, NEW l \in Loans, NEW u \in Users, NEW a \in Assets
    PROVE  L.setAside[p][l][<<u, a>>] \in Nat
<1>1. L.setAside \in [Asides -> [Loans -> [Keys -> Nat]]] /\ <<u, a>> \in Keys
  BY DEF Ledger, Keys
<1>2. L.setAside[p] \in [Loans -> [Keys -> Nat]]
  BY <1>1
<1> QED BY <1>1, <1>2

LEMMA ExtendReserveAdds ==
    ASSUME NEW L \in Ledger, NEW l \in Loans, NEW u \in Users, NEW a \in Assets, NEW x \in Nat
    PROVE  /\ Adds(L, LienExtendReserve(L, l, u, a, x), u, a, x)
           /\ Adds(L, UnlienExtendReserve(L, l, u, a, x), u, a, -x)
<1> DEFINE held == L.setAside["extendReserve"][l][<<u, a>>]
           more == SetAside(L, "extendReserve", l, u, a, held + x)
           less == SetAside(L, "extendReserve", l, u, a, Excess(held, x))
           p == x <= held
<1>0. "extendReserve" \in Asides
  BY DEF Asides
<1>1. held \in Nat
  BY <1>0, HeldIsNat
<1>2. CASE x = 0
  <2>1. LienExtendReserve(L, l, u, a, x) = L /\ UnlienExtendReserve(L, l, u, a, x) = L
    BY <1>2 DEF LienExtendReserve, UnlienExtendReserve, PutAside, TakeBack
  <2>2. x = 0 /\ -x = 0
    <3>1. -x \in Int /\ -x <= 0 /\ -x >= 0
      BY <1>2
    <3>2. \A y \in Int : y <= 0 /\ y >= 0 => y = 0
      OBVIOUS
    <3> QED BY <1>2, <3>1, <3>2, Zenon
  <2>3. \A k \in Keys : L.encumbered[k] \in Int
    BY DEF Ledger
  <2>4. Adds(L, L, u, a, 0)
    <3>1. \A k \in Keys : At(k, u, a, 0) = 0
      BY DEF At
    <3> QED BY <2>3, <3>1 DEF Adds
  <2> HIDE DEF held, more, less, p
  <2> QED BY <2>1, <2>2, <2>4
<1>3. CASE x # 0
  <2>1. /\ LienExtendReserve(L, l, u, a, x) = Raise(more, u, a, x)
        /\ UnlienExtendReserve(L, l, u, a, x) = Require(Lower(less, u, a, x), p)
    BY <1>3 DEF LienExtendReserve, UnlienExtendReserve, PutAside, TakeBack
  <2>2. held + x \in Nat /\ Excess(held, x) \in Nat /\ p \in BOOLEAN
    BY <1>1 DEF Excess
  <2>3. more \in Ledger /\ more.encumbered = L.encumbered
    <3> HIDE DEF held
    <3>1. AsideSet(L, more, "extendReserve", l, u, a, held + x)
      BY <1>0, <2>2, SetAsideEffect
    <3> QED BY <3>1 DEF AsideSet
  <2>4. less \in Ledger /\ less.encumbered = L.encumbered
    <3> HIDE DEF held
    <3>1. AsideSet(L, less, "extendReserve", l, u, a, Excess(held, x))
      BY <1>0, <2>2, SetAsideEffect
    <3> QED BY <3>1 DEF AsideSet
  <2> HIDE DEF held, more, less, p
  <2>5. Adds(L, Raise(more, u, a, x), u, a, x)
    BY <2>3, RaiseAdds
  <2>6. Lower(less, u, a, x) \in Ledger /\ Adds(L, Lower(less, u, a, x), u, a, -x)
    BY <2>4, LowerAdds
  <2>7. Adds(L, Require(Lower(less, u, a, x), p), u, a, -x)
    BY <2>2, <2>6, RequireAdds
  <2> QED BY <2>1, <2>5, <2>7
<1> QED BY <1>2, <1>3

(* An aggregate that balances is never below one of its rows.              *)
LEMMA RowsWithinAggregate ==
    ASSUME NEW L \in Ledger, Balanced(L), NEW k \in Keys
    PROVE  /\ L.encumbered[k] \in Nat
           /\ \A l \in Loans : LoanTerm(L, l, k) <= L.encumbered[k]
           /\ \A o \in Offers : OfferTerm(L, o, k) <= L.encumbered[k]
           /\ \A i \in Intents : IntentTerm(L, i, k) <= L.encumbered[k]
<1>1. L.encumbered[k] = LoansOwe(L, k) + OffersOwe(L, k) + IntentsOwe(L, k)
  BY DEF Balanced, Owed
<1>2. LoansOwe(L, k) \in Nat /\ OffersOwe(L, k) \in Nat /\ IntentsOwe(L, k) \in Nat
  BY TotalsAreNat
<1>3. /\ \A l \in Loans : LoanTerm(L, l, k) \in Nat
      /\ \A o \in Offers : OfferTerm(L, o, k) \in Nat
      /\ \A i \in Intents : IntentTerm(L, i, k) \in Nat
  BY TermsAreNat
<1>4. \A l \in Loans : LoanTerm(L, l, k) <= LoansOwe(L, k)
  <2> DEFINE h == [l \in Loans |-> LoanTerm(L, l, k)]
  <2>1. h \in [1..MaxLoans -> Nat]
    BY <1>3 DEF Loans
  <2> QED BY <2>1, TotalBounds DEF LoansOwe, Loans
<1>5. \A o \in Offers : OfferTerm(L, o, k) <= OffersOwe(L, k)
  <2> DEFINE h == [o \in Offers |-> OfferTerm(L, o, k)]
  <2>1. h \in [1..MaxOffers -> Nat]
    BY <1>3 DEF Offers
  <2> QED BY <2>1, TotalBounds DEF OffersOwe, Offers
<1>6. \A i \in Intents : IntentTerm(L, i, k) <= IntentsOwe(L, k)
  <2> DEFINE h == [i \in Intents |-> IntentTerm(L, i, k)]
  <2>1. h \in [1..MaxIntents -> Nat]
    BY <1>3 DEF Intents
  <2> QED BY <2>1, TotalBounds DEF IntentsOwe, Intents
<1> QED BY <1>1, <1>2, <1>3, <1>4, <1>5, <1>6

(* So a lien can always be lifted: no operation on other rows makes the    *)
(* release of a live one, or of the capital of an intent, underflow.       *)
LEMMA LowerGoesThrough ==
    ASSUME NEW L \in Ledger, NEW u, NEW a, NEW x \in Int, <<u, a>> \in Keys,
           x <= L.encumbered[<<u, a>>], L.ok
    PROVE  Lower(L, u, a, x).ok
<1> DEFINE R == Raise(L, u, a, -x)
           p == <<u, a>> \in Keys /\ x <= L.encumbered[<<u, a>>]
<1>1. -x \in Int /\ p \in BOOLEAN /\ p
  OBVIOUS
<1>2. R \in Ledger /\ R.ok
  BY <1>1, RaiseEffect
<1> HIDE DEF R, p
<1>3. Require(R, p).ok
  BY <1>1, <1>2, RequireEffect
<1> QED BY <1>3 DEF Lower, R, p

LEMMA ReleaseOfferPrincipalLienGoesThrough ==
    ASSUME NEW L, Sound(L), L.ok, NEW o \in Offers,
           L.offerPrincipalLien[o].live => /\ L.offerPrincipalLien[o].user \in Users
                                           /\ L.offerPrincipalLien[o].asset \in Assets
    PROVE  ReleaseOfferPrincipalLien(L, o).ok
<1> DEFINE r == L.offerPrincipalLien[o]
           n == [r EXCEPT !.live = FALSE]
           S == SetOfferLien(L, o, n)
           k == <<r.user, r.asset>>
<1>1. CASE ~ r.live
  BY <1>1 DEF ReleaseOfferPrincipalLien
<1>2. CASE r.live
  <2>1. L \in Ledger /\ Balanced(L) /\ r \in Lien
    BY DEF Sound, Ledger
  <2>2. n \in Lien /\ r.amount \in Int /\ k \in Keys
    <3>1. n \in Lien /\ r.amount \in Nat
      BY <2>1 DEF Lien
    <3>2. k \in Keys
      BY <1>2 DEF Keys
    <3> QED BY <3>1, <3>2
  <2>3. r.amount <= L.encumbered[k]
    <3>1. OfferTerm(L, o, k) = r.amount
      BY <1>2 DEF OfferTerm, LienTerm, At
    <3> HIDE DEF k, r
    <3> QED BY <2>1, <2>2, <3>1, RowsWithinAggregate
  <2>4. ReleaseOfferPrincipalLien(L, o) = Lower(S, r.user, r.asset, r.amount)
    BY <1>2 DEF ReleaseOfferPrincipalLien
  <2> HIDE DEF n
  <2>5. S \in Ledger /\ S.ok /\ S.encumbered = L.encumbered
    BY <2>1, <2>2, SetOfferLienEffect
  <2> HIDE DEF S, r
  <2> QED BY <2>2, <2>3, <2>4, <2>5, LowerGoesThrough
<1> QED BY <1>1, <1>2

LEMMA UnlienIntentCapitalGoesThrough ==
    ASSUME NEW L, Sound(L), L.ok, NEW i \in Intents, NEW x \in Nat, x <= L.intentCapital[i]
    PROVE  UnlienIntentCapital(L, i, x).ok
<1> DEFINE u == IntentOwner[i]
           a == IntentLend[i]
           n == Excess(L.intentCapital[i], x)
           S == SetIntent(L, i, n)
           D == Lower(S, u, a, x)
           p == x <= L.intentCapital[i]
           k == <<u, a>>
<1>1. L \in Ledger /\ Balanced(L) /\ L.intentCapital[i] \in Nat /\ p \in BOOLEAN /\ p
  BY DEF Sound, Ledger
<1>2. n \in Nat /\ x \in Int /\ k \in Keys
  <2>1. n \in Nat /\ x \in Int
    BY <1>1 DEF Excess
  <2>2. k \in Keys
    BY DEF Keys, Intents
  <2> QED BY <2>1, <2>2
<1>3. x <= L.encumbered[k]
  <2>1. IntentTerm(L, i, k) = L.intentCapital[i]
    <3>1. k = <<IntentOwner[i], IntentLend[i]>>
      OBVIOUS
    <3> HIDE DEF k
    <3> QED BY <3>1 DEF IntentTerm, At
  <2>2. IntentTerm(L, i, k) <= L.encumbered[k] /\ L.encumbered[k] \in Nat
    <3> HIDE DEF k
    <3> QED BY <1>1, <1>2, RowsWithinAggregate
  <2> QED BY <1>1, <1>2, <2>1, <2>2
<1> HIDE DEF n
<1>4. S \in Ledger /\ S.ok /\ S.encumbered = L.encumbered
  <2>1. L \in Ledger /\ L.ok /\ n \in Nat
    BY <1>1, <1>2
  <2> QED BY <2>1, SetIntentEffect
<1> HIDE DEF S
<1>5. D.ok
  BY <1>2, <1>3, <1>4, LowerGoesThrough
<1>6. D \in Ledger
  <2>1. S \in Ledger /\ x \in Int
    BY <1>2, <1>4
  <2> QED BY ONLY <2>1, LowerEffect
<1> HIDE DEF D, p
<1>7. Require(D, p).ok
  BY <1>1, <1>5, <1>6, RequireEffect
<1> QED BY <1>7 DEF UnlienIntentCapital, D, S, n, p, u, a

LEMMA AsideWithinTerm ==
    ASSUME NEW L \in Ledger, NEW k \in Keys, NEW l \in Loans
    PROVE  \A p \in Asides : L.setAside[p][l][k] <= LoanTerm(L, l, k)
<1>1. /\ ReservedTerm(L, "lenderProceeds", l, k) \in Nat
      /\ ReservedTerm(L, "heldForLender", l, k) \in Nat
      /\ ReservedTerm(L, "borrowerProceeds", l, k) \in Nat
  BY TermsAreNat DEF Lanes
<1>2. /\ LienTerm(L.loanCollateralLien[l], k) \in Nat
      /\ L.setAside["sellerInterestHeld"][l][k] \in Nat
      /\ L.setAside["extendReserve"][l][k] \in Nat
  BY TermsAreNat DEF Asides
<1>3. /\ L.setAside["sellerInterestHeld"][l][k] <= LoanTerm(L, l, k)
      /\ L.setAside["extendReserve"][l][k] <= LoanTerm(L, l, k)
  BY ONLY <1>1, <1>2 DEF LoanTerm
<1> QED BY <1>3 DEF Asides

LEMMA UnlienExtendReserveGoesThrough ==
    ASSUME NEW L, Sound(L), L.ok, NEW l \in Loans, NEW u \in Users, NEW a \in Assets, NEW x \in Nat,
           x <= L.setAside["extendReserve"][l][<<u, a>>]
    PROVE  UnlienExtendReserve(L, l, u, a, x).ok
<1> DEFINE k == <<u, a>>
           held == L.setAside["extendReserve"][l][k]
           S == SetAside(L, "extendReserve", l, u, a, Excess(held, x))
           D == Lower(S, u, a, x)
           p == x <= held
<1>1. L \in Ledger /\ Balanced(L) /\ k \in Keys /\ "extendReserve" \in Asides
  BY DEF Sound, Keys, Asides
<1>2. held \in Nat /\ p \in BOOLEAN /\ p
  BY <1>1, HeldIsNat
<1>3. Excess(held, x) \in Nat /\ x \in Int
  BY <1>2 DEF Excess
<1>4. held <= L.encumbered[k]
  <2> HIDE DEF k
  <2>1. held <= LoanTerm(L, l, k) /\ LoanTerm(L, l, k) \in Nat
    BY <1>1, AsideWithinTerm, TermsAreNat
  <2>2. LoanTerm(L, l, k) <= L.encumbered[k] /\ L.encumbered[k] \in Nat
    BY <1>1, RowsWithinAggregate
  <2> QED BY <1>2, <2>1, <2>2
<1>5. x <= L.encumbered[k]
  <2>1. L.encumbered[k] \in Int
    BY <1>1 DEF Ledger
  <2> QED BY <1>2, <1>3, <1>4, <2>1
<1>6. S \in Ledger /\ S.ok /\ S.encumbered = L.encumbered
  <2> HIDE DEF held
  <2>1. AsideSet(L, S, "extendReserve", l, u, a, Excess(held, x))
    BY <1>1, <1>3, SetAsideEffect
  <2> QED BY <2>1 DEF AsideSet
<1>7. UnlienExtendReserve(L, l, u, a, x) = IF x = 0 THEN L ELSE Require(D, p)
  BY DEF UnlienExtendReserve, TakeBack
<1> HIDE DEF S, held, p
<1>8. D.ok
  BY <1>1, <1>3, <1>5, <1>6, LowerGoesThrough
<1>9. D \in Ledger
  BY ONLY <1>3, <1>6, LowerEffect
<1> HIDE DEF D
<1>10. Require(D, p).ok
  BY <1>2, <1>8, <1>9, RequireEffect
<1> QED BY <1>7, <1>10

-----------------------------------------------------------------------------
(* The empty ledger owes nothing.                                          *)

LEMMA EmptyBalanced == EmptyLedger \in Ledger /\ Balanced(EmptyLedger)
<1>1. EmptyLedger \in Ledger
  BY DEF EmptyLedger, Ledger, NoLien, NoReservation, Lien, Reservation
<1>2. ASSUME NEW n \in Nat, NEW h, \A i \in 1..n : h[i] = 0
      PROVE  Total(h, n) = 0
  <2>1. CASE n = 0
    <3>1. \E g : (\A i \in 0..n : g[i] = IF i = 0 THEN 0 ELSE g[i - 1] + h[i]) /\ Total(h, n) = g[n]
      BY TotalIsRunning
    <3> QED BY <2>1, <3>1
  <2>2. CASE n # 0
    <3> DEFINE S == {i \in Nat : i <= n => \A g : (\A j \in 0..n : g[j] = IF j = 0 THEN 0 ELSE g[j - 1] + h[j])
                                                    => g[i] = 0}
    <3>1. 0 \in S
      OBVIOUS
    <3>2. \A i \in S : i + 1 \in S
      BY <1>2
    <3>3. S = Nat
      <4> HIDE DEF S
      <4>1. S \in SUBSET Nat
        BY DEF S
      <4> QED BY <3>1, <3>2, <4>1, SetInduction
    <3>4. n \in S
      BY <3>3
    <3>5. \E g : (\A i \in 0..n : g[i] = IF i = 0 THEN 0 ELSE g[i - 1] + h[i]) /\ Total(h, n) = g[n]
      BY TotalIsRunning
    <3> QED BY <3>4, <3>5
  <2> QED BY <2>1, <2>2
<1>3. ASSUME NEW k \in Keys PROVE EmptyLedger.encumbered[k] = Owed(EmptyLedger, k)
  <2> DEFINE hl == [l \in Loans |-> LoanTerm(EmptyLedger, l, k)]
             ho == [o \in Offers |-> OfferTerm(EmptyLedger, o, k)]
             hi == [i \in Intents |-> IntentTerm(EmptyLedger, i, k)]
  <2>1. \A l \in 1..MaxLoans : hl[l] = 0
    <3>1. \A l \in Loans : LienTerm(EmptyLedger.loanCollateralLien[l], k) = 0
      BY DEF LienTerm, EmptyLedger, NoLien
    <3>2. \A e \in Lanes, l \in Loans : EmptyLedger.reserved[e][l].amount = 0
      BY DEF EmptyLedger, NoReservation
    <3>5. \A p \in Asides, l \in Loans : EmptyLedger.setAside[p][l][k] = 0
      BY DEF EmptyLedger
    <3>3. \A e \in Lanes, l \in Loans : ReservedTerm(EmptyLedger, e, l, k) = 0
      BY <3>2 DEF ReservedTerm, At
    <3>4. \A l \in Loans : LoanTerm(EmptyLedger, l, k) = 0
      BY <3>1, <3>3, <3>5 DEF LoanTerm, Lanes, Asides
    <3> QED BY <3>4 DEF Loans
  <2>2. \A o \in 1..MaxOffers : ho[o] = 0
    BY DEF Offers, OfferTerm, LienTerm, EmptyLedger, NoLien
  <2>3. \A i \in 1..MaxIntents : hi[i] = 0
    BY DEF Intents, IntentTerm, At, EmptyLedger
  <2> HIDE DEF hl, ho, hi
  <2>4. Total(hl, MaxLoans) = 0 /\ Total(ho, MaxOffers) = 0 /\ Total(hi, MaxIntents) = 0
    <3>1. MaxLoans \in Nat /\ MaxOffers \in Nat /\ MaxIntents \in Nat
      BY EncumbranceAssumption
    <3>2. Total(hl, MaxLoans) = 0
      BY ONLY <3>1, <1>2, <2>1
    <3>3. Total(ho, MaxOffers) = 0
      BY ONLY <3>1, <1>2, <2>2
    <3>4. Total(hi, MaxIntents) = 0
      BY ONLY <3>1, <1>2, <2>3
    <3> QED BY <3>2, <3>3, <3>4
  <2>5. Owed(EmptyLedger, k) = Total(hl, MaxLoans) + Total(ho, MaxOffers) + Total(hi, MaxIntents)
    BY DEF Owed, LoansOwe, OffersOwe, IntentsOwe, hl, ho, hi
  <2>6. EmptyLedger.encumbered[k] = 0
    BY DEF EmptyLedger
  <2> QED BY <2>4, <2>5, <2>6
<1> QED BY <1>1, <1>3 DEF Balanced

-----------------------------------------------------------------------------
(* The vaults over the ledger.                                             *)

HIDE EncumbranceAssumption

(* Vaults of the right shape, with a ledger that balances unless the call  *)
(* reverted.                                                               *)
Sane(V) == V \in Vaults /\ Sound(V.ledger)

(* From V to W no row and no party of the ledger changes, and a revert is  *)
(* not forgotten.                                                          *)
Follows(V, W) == Sane(W) /\ (Ok(W) => Ok(V)) /\ SameRows(V.ledger, W.ledger)

LEMMA FollowsTwice ==
    ASSUME NEW V, NEW W, NEW X, Follows(V, W), Follows(W, X)
    PROVE  Follows(V, X)
BY DEF Follows, SameRows, SameParties

LEMMA OnSane ==
    ASSUME NEW V, Sane(V), NEW L, Sound(L)
    PROVE  Sane(On(V, L)) /\ On(V, L).ledger = L
BY DEF Sane, Sound, On, Vaults

LEMMA GuardedFollows ==
    ASSUME NEW V, Sane(V), NEW p \in BOOLEAN
    PROVE  Follows(V, Guarded(V, p)) /\ (Ok(Guarded(V, p)) => p)
<1> DEFINE L == Require(V.ledger, p)
<1>0. V.ledger \in Ledger /\ Sound(V.ledger)
  BY DEF Sane, Sound
<1>1. Sound(L) /\ SameRows(V.ledger, L) /\ L.ok = (V.ledger.ok /\ p)
  BY <1>0, RequireSound, RequireEffect
<1> HIDE DEF L
<1>2. Sane(On(V, L)) /\ On(V, L).ledger = L
  BY <1>1, OnSane
<1>3. Guarded(V, p) = On(V, L)
  BY DEF Guarded, L
<1> QED BY <1>1, <1>2, <1>3 DEF Follows, Ok

(* Changing balances alone.                                                *)
LEMMA BalancesFollow ==
    ASSUME NEW V, Sane(V), NEW W \in Vaults, W.ledger = V.ledger
    PROVE  Follows(V, W)
BY DEF Follows, Sane, SameRows, SameParties, Ok

LEMMA VaultDepositFollows ==
    ASSUME NEW V, Sane(V), NEW p \in Users, NEW u \in Users, NEW a \in Assets, NEW x \in Int
    PROVE  Follows(V, VaultDepositERC20From(V, p, u, a, x))
<1> DEFINE W == [V EXCEPT !.wallet[<<p, a>>] = @ - x, !.tracked[<<u, a>>] = @ + x]
           g == x <= V.wallet[<<p, a>>]
<1>1. W \in Vaults /\ W.ledger = V.ledger
  <2>1. /\ [V.wallet EXCEPT ![<<p, a>>] = @ - x] \in [Keys -> Int]
        /\ [V.tracked EXCEPT ![<<u, a>>] = @ + x] \in [Keys -> Int]
    BY DEF Sane, Vaults, Keys
  <2> QED BY <2>1 DEF Sane, Vaults
<1>2. g \in BOOLEAN
  OBVIOUS
<1> HIDE DEF W, g
<1>3. Follows(V, W)
  BY <1>1, BalancesFollow
<1>4. Follows(W, Guarded(W, g))
  BY <1>2, <1>3, GuardedFollows DEF Follows
<1>5. VaultDepositERC20From(V, p, u, a, x) = Guarded(W, g)
  BY DEF VaultDepositERC20From, W, g
<1> QED BY <1>3, <1>4, <1>5, FollowsTwice

LEMMA VaultWithdrawFollows ==
    ASSUME NEW V, Sane(V), NEW u \in Users, NEW a \in Assets, NEW v \in Users, NEW x \in Int
    PROVE  Follows(V, VaultWithdrawERC20(V, u, a, v, x))
<1> DEFINE W == [V EXCEPT !.tracked[<<u, a>>] = @ - x, !.wallet[<<v, a>>] = @ + x]
           g == x <= Free(V, u, a)
<1>1. W \in Vaults /\ W.ledger = V.ledger
  <2>1. /\ [V.wallet EXCEPT ![<<v, a>>] = @ + x] \in [Keys -> Int]
        /\ [V.tracked EXCEPT ![<<u, a>>] = @ - x] \in [Keys -> Int]
    BY DEF Sane, Vaults, Keys
  <2> QED BY <2>1 DEF Sane, Vaults
<1>2. g \in BOOLEAN
  OBVIOUS
<1> HIDE DEF W, g
<1>3. Follows(V, W)
  BY <1>1, BalancesFollow
<1>4. Follows(W, Guarded(W, g))
  BY <1>2, <1>3, GuardedFollows DEF Follows
<1>5. VaultWithdrawERC20(V, u, a, v, x) = Guarded(W, g)
  BY DEF VaultWithdrawERC20, W, g
<1> QED BY <1>3, <1>4, <1>5, FollowsTwice

LEMMA RefundFollows ==
    ASSUME NEW V, Sane(V), NEW u \in Users, NEW a \in Assets, NEW x \in Int
    PROVE  Follows(V, Refund(V, u, a, x))
<1>1. Follows(V, V)
  BY BalancesFollow DEF Sane
<1> QED BY <1>1, VaultWithdrawFollows DEF Refund

LEMMA DepositoryFollows ==
    ASSUME NEW V, Sane(V), NEW u \in Users, NEW a \in Assets, NEW x \in Nat
    PROVE  /\ Follows(V, Credit(V, u, a, x))
           /\ Follows(V, Spend(V, u, a, x))
           /\ Follows(V, Debit(V, u, a, x))
<1>0. V \in Vaults /\ V.depository[<<u, a>>] \in Nat
  BY DEF Sane, Vaults, Keys
<1>1. \A n \in Nat : /\ [V EXCEPT !.depository[<<u, a>>] = n] \in Vaults
                     /\ [V EXCEPT !.depository[<<u, a>>] = n].ledger = V.ledger
  <2> TAKE n \in Nat
  <2>1. [V.depository EXCEPT ![<<u, a>>] = n] \in [Keys -> Nat]
    BY <1>0 DEF Vaults
  <2> QED BY <1>0, <2>1 DEF Vaults
<1>2. V.depository[<<u, a>>] + x \in Nat /\ Excess(V.depository[<<u, a>>], x) \in Nat
  BY <1>0 DEF Excess
<1>3. Credit(V, u, a, x) \in Vaults /\ Credit(V, u, a, x).ledger = V.ledger
  BY <1>1, <1>2 DEF Credit
<1>4. Spend(V, u, a, x) \in Vaults /\ Spend(V, u, a, x).ledger = V.ledger
  BY <1>1, <1>2 DEF Spend
<1>5. Follows(V, Credit(V, u, a, x)) /\ Follows(V, Spend(V, u, a, x))
  BY <1>3, <1>4, BalancesFollow
<1>6. Follows(V, Debit(V, u, a, x))
  <2> DEFINE W == Spend(V, u, a, x)
             g == x <= V.depository[<<u, a>>]
  <2>1. Debit(V, u, a, x) = Guarded(W, g) /\ g \in BOOLEAN
    BY DEF Debit, Spend
  <2>2. Follows(V, W)
    BY <1>5
  <2> HIDE DEF W, g
  <2>3. Follows(W, Guarded(W, g))
    BY <2>1, <2>2, GuardedFollows DEF Follows
  <2> QED BY <2>1, <2>2, <2>3, FollowsTwice
<1> QED BY <1>5, <1>6

LEMMA DepositToVaultFollows ==
    ASSUME NEW V, Sane(V), NEW u \in Users, NEW a \in Assets, NEW x \in Nat
    PROVE  Follows(V, DepositToVault(V, u, a, x))
<1> DEFINE W == VaultDepositERC20From(V, u, u, a, x)
<1>1. x \in Int
  OBVIOUS
<1>2. Follows(V, W)
  BY <1>1, VaultDepositFollows
<1>3. DepositToVault(V, u, a, x) = Credit(W, u, a, x)
  BY DEF DepositToVault, VaultDepositERC20
<1> HIDE DEF W
<1>4. Follows(W, Credit(W, u, a, x))
  BY <1>2, DepositoryFollows DEF Follows
<1> QED BY <1>2, <1>3, <1>4, FollowsTwice

LEMMA WithdrawFromVaultFollows ==
    ASSUME NEW V, Sane(V), NEW u \in Users, NEW a \in Assets, NEW v \in Users, NEW x \in Nat
    PROVE  Follows(V, WithdrawFromVault(V, u, a, v, x))
<1> DEFINE g == x <= WithdrawableNow(V, u, a)
           V1 == Guarded(V, g)
           V2 == Debit(V1, u, a, x)
<1>1. x \in Int /\ g \in BOOLEAN
  OBVIOUS
<1>2. WithdrawFromVault(V, u, a, v, x) = VaultWithdrawERC20(V2, u, a, v, x)
  BY DEF WithdrawFromVault
<1> HIDE DEF g
<1>3. Follows(V, V1)
  BY <1>1, GuardedFollows
<1> HIDE DEF V1
<1>4. Follows(V1, V2)
  BY <1>3, DepositoryFollows DEF Follows
<1> HIDE DEF V2
<1>5. Follows(V2, VaultWithdrawERC20(V2, u, a, v, x))
  BY <1>1, <1>4, VaultWithdrawFollows DEF Follows
<1> QED BY <1>2, <1>3, <1>4, <1>5, FollowsTwice

-----------------------------------------------------------------------------
(* What moving tokens does to the money.  The slack of a key is what is in *)
(* the vault and neither owed to anybody nor promised to the owner: a      *)
(* vault is afloat while it is not negative.  The withdraw guard compares  *)
(* with the ledger only, so that a withdraw of the protocol does not eat   *)
(* into what the depository promises is up to the caller, who must have    *)
(* lifted as much of a lien before.  So every call is shown to change the  *)
(* slack by an amount, and the calls of one handler to add up to nothing.  *)

Slack(V, k) == V.tracked[k] - V.ledger.encumbered[k] - V.depository[k]

Funded(V) == \A k \in Keys : V.wallet[k] >= 0

Afloat(V) == (\A k \in Keys : Slack(V, k) >= 0) /\ Funded(V)

(* From V to W the slack of (u, a) rises by x, and that of no other key.   *)
Gains(V, W, u, a, x) ==
    /\ \A k \in Keys : Slack(W, k) = Slack(V, k) + At(k, u, a, x)
    /\ Funded(V) => Funded(W)

(* From V to W no slack changes.                                           *)
Level(V, W) ==
    /\ \A k \in Keys : Slack(W, k) = Slack(V, k)
    /\ Funded(V) => Funded(W)

LEMMA SlackIsInt ==
    ASSUME NEW V, V \in Vaults
    PROVE  \A k \in Keys : /\ Slack(V, k) \in Int /\ V.wallet[k] \in Int /\ V.tracked[k] \in Int
                           /\ V.depository[k] \in Nat /\ V.ledger.encumbered[k] \in Int
<1>1. \A k \in Keys : /\ V.wallet[k] \in Int /\ V.tracked[k] \in Int
                      /\ V.depository[k] \in Nat /\ V.ledger.encumbered[k] \in Int
  BY DEF Vaults, Ledger
<1> QED BY <1>1 DEF Slack

LEMMA GainsTwice ==
    ASSUME NEW V, NEW W, NEW X, V \in Vaults, NEW u, NEW a, NEW x \in Int, NEW y \in Int,
           Gains(V, W, u, a, x), Gains(W, X, u, a, y)
    PROVE  Gains(V, X, u, a, x + y)
<1>1. ASSUME NEW k \in Keys PROVE Slack(X, k) = Slack(V, k) + At(k, u, a, x + y)
  <2>1. Slack(V, k) \in Int
    BY SlackIsInt
  <2>2. Slack(W, k) = Slack(V, k) + At(k, u, a, x) /\ Slack(X, k) = Slack(W, k) + At(k, u, a, y)
    BY DEF Gains
  <2>3. CASE k = <<u, a>>
    BY <2>1, <2>2, <2>3 DEF At
  <2>4. CASE k # <<u, a>>
    BY <2>1, <2>2, <2>4 DEF At
  <2> QED BY <2>3, <2>4
<1> QED BY <1>1 DEF Gains

LEMMA GainsNothing ==
    ASSUME NEW V, NEW W, V \in Vaults, NEW u, NEW a, Gains(V, W, u, a, 0)
    PROVE  Level(V, W)
<1>1. \A k \in Keys : Slack(V, k) \in Int /\ At(k, u, a, 0) = 0
  BY SlackIsInt DEF At
<1> QED BY <1>1 DEF Gains, Level

(* What is gained and then given up.                                       *)
LEMMA GainsBack ==
    ASSUME NEW V, NEW W, NEW X, V \in Vaults, NEW u, NEW a, NEW x \in Int, NEW y \in Int,
           Gains(V, W, u, a, x), Gains(W, X, u, a, y), x + y = 0
    PROVE  Level(V, X)
BY GainsTwice, GainsNothing

LEMMA LevelTwice ==
    ASSUME NEW V, NEW W, NEW X, Level(V, W), Level(W, X)
    PROVE  Level(V, X)
BY DEF Level

LEMMA LevelThenGains ==
    ASSUME NEW V, NEW W, NEW X, NEW u, NEW a, NEW x, Level(V, W), Gains(W, X, u, a, x)
    PROVE  Gains(V, X, u, a, x)
BY DEF Level, Gains

LEMMA GainsThenLevel ==
    ASSUME NEW V, NEW W, NEW X, NEW u, NEW a, NEW x, Gains(V, W, u, a, x), Level(W, X)
    PROVE  Gains(V, X, u, a, x)
BY DEF Level, Gains

LEMMA LevelStaysAfloat ==
    ASSUME NEW V, NEW W, Afloat(V), Level(V, W)
    PROVE  Afloat(W)
BY DEF Afloat, Level

LEMMA GainsStaysAfloat ==
    ASSUME NEW V, NEW W, V \in Vaults, Afloat(V), NEW u, NEW a, NEW x \in Nat, Gains(V, W, u, a, x)
    PROVE  Afloat(W)
<1>1. \A k \in Keys : Slack(V, k) \in Int /\ At(k, u, a, x) \in Nat
  BY SlackIsInt DEF At
<1> QED BY <1>1 DEF Afloat, Gains

(* Taking a lien is a loss of slack, lifting one a gain.                   *)
LEMMA OnGains ==
    ASSUME NEW V, V \in Vaults, NEW L \in Ledger, NEW u, NEW a, NEW x \in Int,
           Adds(V.ledger, L, u, a, -x)
    PROVE  Gains(V, On(V, L), u, a, x)
<1>1. /\ On(V, L).ledger = L /\ On(V, L).tracked = V.tracked
      /\ On(V, L).depository = V.depository /\ On(V, L).wallet = V.wallet
  BY DEF On, Vaults
<1>2. ASSUME NEW k \in Keys PROVE Slack(On(V, L), k) = Slack(V, k) + At(k, u, a, x)
  <2>1. /\ V.tracked[k] \in Int /\ V.depository[k] \in Nat /\ V.ledger.encumbered[k] \in Int
    BY SlackIsInt
  <2>2. L.encumbered[k] = V.ledger.encumbered[k] + At(k, u, a, -x)
    BY DEF Adds
  <2>3. At(k, u, a, -x) = - At(k, u, a, x) /\ At(k, u, a, x) \in Int
    BY DEF At
  <2> QED BY <1>1, <2>1, <2>2, <2>3 DEF Slack
<1> QED BY <1>1, <1>2 DEF Gains, Funded

LEMMA OnLoses ==
    ASSUME NEW V, V \in Vaults, NEW L \in Ledger, NEW u, NEW a, NEW x \in Int,
           Adds(V.ledger, L, u, a, x)
    PROVE  Gains(V, On(V, L), u, a, -x)
<1>1. -x \in Int /\ - (-x) = x
  OBVIOUS
<1>2. Adds(V.ledger, L, u, a, - (-x))
  BY <1>1
<1> QED BY <1>1, <1>2, OnGains

LEMMA GuardedLevel ==
    ASSUME NEW V, V \in Vaults, NEW p \in BOOLEAN
    PROVE  Level(V, Guarded(V, p))
<1>1. V.ledger \in Ledger
  BY DEF Vaults
<1>2. Require(V.ledger, p).encumbered = V.ledger.encumbered
  BY <1>1, RequireEffect
<1>3. /\ Guarded(V, p).ledger.encumbered = V.ledger.encumbered
      /\ Guarded(V, p).tracked = V.tracked
      /\ Guarded(V, p).depository = V.depository /\ Guarded(V, p).wallet = V.wallet
  BY <1>2 DEF Guarded, On, Vaults
<1> QED BY <1>3 DEF Level, Slack, Funded

LEMMA VaultDepositGains ==
    ASSUME NEW V, Sane(V), NEW p \in Users, NEW u \in Users, NEW a \in Assets, NEW x \in Nat,
           Ok(VaultDepositERC20From(V, p, u, a, x))
    PROVE  Gains(V, VaultDepositERC20From(V, p, u, a, x), u, a, x)
<1> DEFINE W == [V EXCEPT !.wallet[<<p, a>>] = @ - x, !.tracked[<<u, a>>] = @ + x]
           g == x <= V.wallet[<<p, a>>]
<1>1. /\ W \in Vaults /\ W.ledger = V.ledger /\ W.depository = V.depository
      /\ W.wallet = [V.wallet EXCEPT ![<<p, a>>] = @ - x]
      /\ W.tracked = [V.tracked EXCEPT ![<<u, a>>] = @ + x]
  <2>1. /\ [V.wallet EXCEPT ![<<p, a>>] = @ - x] \in [Keys -> Int]
        /\ [V.tracked EXCEPT ![<<u, a>>] = @ + x] \in [Keys -> Int]
    BY DEF Sane, Vaults, Keys
  <2> QED BY <2>1 DEF Sane, Vaults
<1>2. VaultDepositERC20From(V, p, u, a, x) = Guarded(W, g) /\ g \in BOOLEAN
  BY DEF VaultDepositERC20From
<1> HIDE DEF W
<1>3. g
  <2>1. Sane(W)
    BY <1>1 DEF Sane
  <2> HIDE DEF g
  <2> QED BY <1>2, <2>1, GuardedFollows
<1>4. ASSUME NEW k \in Keys
      PROVE  /\ Slack(W, k) = Slack(V, k) + At(k, u, a, x)
             /\ V.wallet[k] >= 0 => W.wallet[k] >= 0
  <2>0. V \in Vaults
    BY DEF Sane
  <2>1. /\ V.tracked[k] \in Int /\ V.depository[k] \in Nat /\ V.ledger.encumbered[k] \in Int
        /\ V.wallet[k] \in Int
    BY <2>0, SlackIsInt
  <2>2. W.tracked[k] = V.tracked[k] + At(k, u, a, x)
    BY <1>1, <2>0, <2>1 DEF Vaults, At
  <2>3. At(k, u, a, x) \in Int
    BY DEF At
  <2>4. W.wallet[k] = V.wallet[k] \/ (k = <<p, a>> /\ W.wallet[k] = V.wallet[k] - x)
    BY <1>1, <2>0 DEF Vaults
  <2>5. V.wallet[k] >= 0 => W.wallet[k] >= 0
    BY <1>3, <2>1, <2>4
  <2> QED BY <1>1, <2>1, <2>2, <2>3, <2>5 DEF Slack
<1>5. Gains(V, W, u, a, x)
  BY <1>4 DEF Gains, Funded
<1> HIDE DEF g
<1>6. Level(W, Guarded(W, g))
  BY <1>1, <1>2, GuardedLevel
<1> QED BY <1>2, <1>5, <1>6, GainsThenLevel

LEMMA VaultWithdrawGains ==
    ASSUME NEW V, Sane(V), NEW u \in Users, NEW a \in Assets, NEW v \in Users, NEW x \in Nat
    PROVE  Gains(V, VaultWithdrawERC20(V, u, a, v, x), u, a, -x)
<1> DEFINE W == [V EXCEPT !.tracked[<<u, a>>] = @ - x, !.wallet[<<v, a>>] = @ + x]
           g == x <= Free(V, u, a)
<1>1. /\ W \in Vaults /\ W.ledger = V.ledger /\ W.depository = V.depository
      /\ W.wallet = [V.wallet EXCEPT ![<<v, a>>] = @ + x]
      /\ W.tracked = [V.tracked EXCEPT ![<<u, a>>] = @ - x]
  <2>1. /\ [V.wallet EXCEPT ![<<v, a>>] = @ + x] \in [Keys -> Int]
        /\ [V.tracked EXCEPT ![<<u, a>>] = @ - x] \in [Keys -> Int]
    BY DEF Sane, Vaults, Keys
  <2> QED BY <2>1 DEF Sane, Vaults
<1>2. VaultWithdrawERC20(V, u, a, v, x) = Guarded(W, g) /\ g \in BOOLEAN
  BY DEF VaultWithdrawERC20
<1> HIDE DEF W
<1>4. ASSUME NEW k \in Keys
      PROVE  /\ Slack(W, k) = Slack(V, k) + At(k, u, a, -x)
             /\ V.wallet[k] >= 0 => W.wallet[k] >= 0
  <2>0. V \in Vaults
    BY DEF Sane
  <2>1. /\ V.tracked[k] \in Int /\ V.depository[k] \in Nat /\ V.ledger.encumbered[k] \in Int
        /\ V.wallet[k] \in Int
    BY <2>0, SlackIsInt
  <2>2. W.tracked[k] = V.tracked[k] + At(k, u, a, -x)
    BY <1>1, <2>0, <2>1 DEF Vaults, At
  <2>3. At(k, u, a, -x) \in Int
    BY DEF At
  <2>4. W.wallet[k] = V.wallet[k] \/ W.wallet[k] = V.wallet[k] + x
    BY <1>1, <2>0 DEF Vaults
  <2>5. V.wallet[k] >= 0 => W.wallet[k] >= 0
    BY <2>1, <2>4
  <2> QED BY <1>1, <2>1, <2>2, <2>3, <2>5 DEF Slack
<1>5. Gains(V, W, u, a, -x)
  BY <1>4 DEF Gains, Funded
<1> HIDE DEF g
<1>6. Level(W, Guarded(W, g))
  BY <1>1, <1>2, GuardedLevel
<1> QED BY <1>2, <1>5, <1>6, GainsThenLevel

LEMMA RefundGains ==
    ASSUME NEW V, Sane(V), NEW u \in Users, NEW a \in Assets, NEW x \in Nat
    PROVE  Gains(V, Refund(V, u, a, x), u, a, -x)
<1>0. x > 0 \/ x = 0
  OBVIOUS
<1>1. CASE x > 0
  <2>1. Refund(V, u, a, x) = VaultWithdrawERC20(V, u, a, u, x)
    BY <1>1 DEF Refund
  <2> QED BY <2>1, VaultWithdrawGains
<1>2. CASE x = 0
  <2>1. Refund(V, u, a, x) = V
    BY <1>2 DEF Refund
  <2>2. \A k \in Keys : Slack(V, k) \in Int
    BY SlackIsInt DEF Sane
  <2>3. -x = 0
    <3>1. \A y \in Int : x + y = 0 => y = 0
      BY <1>2
    <3>2. -x \in Int /\ x + (-x) = 0
      OBVIOUS
    <3> QED BY <3>1, <3>2
  <2>4. \A k \in Keys : At(k, u, a, -x) = 0
    BY <2>3 DEF At
  <2> QED BY <2>1, <2>2, <2>4 DEF Gains
<1> QED BY <1>0, <1>1, <1>2

(* The depository: what is recorded is not slack, and what is spent of the *)
(* record is slack again.                                                  *)
LEMMA CreditGains ==
    ASSUME NEW V, V \in Vaults, NEW u \in Users, NEW a \in Assets, NEW x \in Nat
    PROVE  Gains(V, Credit(V, u, a, x), u, a, -x)
<1> DEFINE W == Credit(V, u, a, x)
<1>1. /\ W.ledger = V.ledger /\ W.wallet = V.wallet /\ W.tracked = V.tracked
      /\ W.depository = [V.depository EXCEPT ![<<u, a>>] = @ + x]
  BY DEF Credit, Vaults
<1> HIDE DEF W
<1>2. ASSUME NEW k \in Keys PROVE Slack(W, k) = Slack(V, k) + At(k, u, a, -x)
  <2>1. /\ V.tracked[k] \in Int /\ V.depository[k] \in Nat /\ V.ledger.encumbered[k] \in Int
    BY SlackIsInt
  <2>2. W.depository[k] = V.depository[k] - At(k, u, a, -x) /\ At(k, u, a, -x) \in Int
    BY <1>1, <2>1 DEF Vaults, At
  <2> QED BY <1>1, <2>1, <2>2 DEF Slack
<1>3. Gains(V, W, u, a, -x)
  BY <1>1, <1>2 DEF Gains, Funded
<1> QED BY <1>3 DEF W

LEMMA SpendGains ==
    ASSUME NEW V, V \in Vaults, NEW u \in Users, NEW a \in Assets, NEW x \in Nat
    PROVE  Gains(V, Spend(V, u, a, x), u, a,
                 V.depository[<<u, a>>] - Excess(V.depository[<<u, a>>], x))
<1> DEFINE W == Spend(V, u, a, x)
           d == V.depository[<<u, a>>]
           y == d - Excess(d, x)
<1>0. <<u, a>> \in Keys /\ d \in Nat /\ Excess(d, x) \in Nat /\ y \in Int /\ d - y = Excess(d, x)
  BY DEF Vaults, Keys, Excess
<1>1. /\ W.ledger = V.ledger /\ W.wallet = V.wallet /\ W.tracked = V.tracked
      /\ W.depository = [V.depository EXCEPT ![<<u, a>>] = Excess(@, x)]
  BY DEF Spend, Vaults
<1> HIDE DEF W, y
<1>2. ASSUME NEW k \in Keys PROVE Slack(W, k) = Slack(V, k) + At(k, u, a, y)
  <2>1. /\ V.tracked[k] \in Int /\ V.depository[k] \in Nat /\ V.ledger.encumbered[k] \in Int
    BY SlackIsInt
  <2>2. W.depository[k] = IF k = <<u, a>> THEN d - y ELSE V.depository[k]
    BY <1>0, <1>1 DEF Vaults
  <2>3. W.depository[k] = V.depository[k] - At(k, u, a, y) /\ At(k, u, a, y) \in Int
    BY <1>0, <2>1, <2>2 DEF At
  <2> QED BY <1>1, <2>1, <2>3 DEF Slack
<1>3. Gains(V, W, u, a, y)
  BY <1>1, <1>2 DEF Gains, Funded
<1> QED BY <1>3 DEF W, y

LEMMA DepositToVaultLevel ==
    ASSUME NEW V, Sane(V), NEW u \in Users, NEW a \in Assets, NEW x \in Nat,
           Ok(DepositToVault(V, u, a, x))
    PROVE  Level(V, DepositToVault(V, u, a, x))
<1> DEFINE W == VaultDepositERC20From(V, u, u, a, x)
           X == Credit(W, u, a, x)
<1>1. DepositToVault(V, u, a, x) = X
  BY DEF DepositToVault, VaultDepositERC20
<1>2. Follows(V, W)
  BY VaultDepositFollows
<1>3. Ok(W) = Ok(X)
  BY <1>2 DEF Credit, Ok, Follows, Sane, Vaults
<1>4. Gains(V, W, u, a, x)
  BY <1>1, <1>3, VaultDepositGains
<1> HIDE DEF W
<1>5. Gains(W, X, u, a, -x)
  BY <1>2, CreditGains DEF Follows, Sane
<1>6. V \in Vaults /\ x \in Int /\ -x \in Int /\ x + (-x) = 0
  BY DEF Sane
<1> HIDE DEF X
<1>7. Level(V, X)
  BY <1>4, <1>5, <1>6, GainsBack
<1> QED BY <1>1, <1>7

LEMMA WithdrawFromVaultLevel ==
    ASSUME NEW V, Sane(V), NEW u \in Users, NEW a \in Assets, NEW v \in Users, NEW x \in Nat,
           Ok(WithdrawFromVault(V, u, a, v, x))
    PROVE  Level(V, WithdrawFromVault(V, u, a, v, x))
<1> DEFINE g == x <= WithdrawableNow(V, u, a)
           V1 == Guarded(V, g)
           h == x <= V1.depository[<<u, a>>]
           V2 == Spend(V1, u, a, x)
           V3 == Guarded(V2, h)
           W == VaultWithdrawERC20(V3, u, a, v, x)
           d == V1.depository[<<u, a>>]
<1>1. WithdrawFromVault(V, u, a, v, x) = W /\ g \in BOOLEAN /\ h \in BOOLEAN
  BY DEF WithdrawFromVault, Debit, Spend
<1> HIDE DEF g
<1>2. Follows(V, V1) /\ Level(V, V1)
  BY <1>1, GuardedFollows, GuardedLevel DEF Sane
<1> HIDE DEF V1
<1>3. V1 \in Vaults /\ d \in Nat
  BY <1>2 DEF Follows, Sane, Vaults, Keys
<1>4. Follows(V1, V2) /\ Gains(V1, V2, u, a, d - Excess(d, x))
  BY <1>2, <1>3, DepositoryFollows, SpendGains DEF Follows
<1> HIDE DEF V2
<1>5. Follows(V2, V3) /\ Level(V2, V3) /\ (Ok(V3) => h)
  <2> HIDE DEF h
  <2> QED BY <1>1, <1>4, GuardedFollows, GuardedLevel DEF Follows, Sane
<1> HIDE DEF V3
<1>6. Follows(V3, W) /\ Gains(V3, W, u, a, -x)
  BY <1>5, VaultWithdrawFollows, VaultWithdrawGains, SMTT(60) DEF Follows
<1> HIDE DEF W
<1>7. h
  BY <1>1, <1>5, <1>6 DEF Follows
<1>8. d - Excess(d, x) = x /\ x \in Int /\ -x \in Int /\ x + (-x) = 0
  BY <1>3, <1>7 DEF Excess
<1>9. Gains(V1, V3, u, a, x)
  BY <1>4, <1>5, <1>8, GainsThenLevel
<1>10. Level(V1, W)
  BY <1>3, <1>6, <1>8, <1>9, GainsBack
<1> QED BY <1>1, <1>2, <1>10, LevelTwice

(* A vault afloat, with books that balance, is solvent, and keeps what the *)
(* depository promises.                                                    *)
LEMMA AfloatIsSolvent ==
    ASSUME NEW V, Sane(V), Ok(V), Afloat(V)
    PROVE  /\ Solvent(V) /\ Promised(V)
           /\ \A u \in Users, a \in Assets :
                 Free(V, u, a) = V.tracked[<<u, a>>] - V.ledger.encumbered[<<u, a>>]
<1>1. V \in Vaults /\ V.ledger \in Ledger /\ Balanced(V.ledger)
  BY DEF Sane, Sound, Ok, Vaults
<1>2. ASSUME NEW k \in Keys
      PROVE  /\ V.ledger.encumbered[k] \in 0..V.tracked[k]
             /\ V.depository[k] <= Excess(V.tracked[k], V.ledger.encumbered[k])
             /\ Excess(V.tracked[k], V.ledger.encumbered[k])
                  = V.tracked[k] - V.ledger.encumbered[k]
  <2>1. V.ledger.encumbered[k] \in Nat
    BY <1>1, RowsWithinAggregate
  <2>2. V.tracked[k] \in Int /\ V.depository[k] \in Nat
    BY <1>1, SlackIsInt
  <2>3. V.tracked[k] - V.ledger.encumbered[k] - V.depository[k] >= 0
    BY DEF Afloat, Slack
  <2> QED BY <2>1, <2>2, <2>3 DEF Excess
<1>3. \A k \in Keys : k = <<k[1], k[2]>>
  BY DEF Keys
<1>4. Solvent(V)
  BY <1>2 DEF Solvent
<1>5. Promised(V)
  BY <1>2, <1>3 DEF Promised, Free, FreeBalance
<1>6. \A u \in Users, a \in Assets : <<u, a>> \in Keys
  BY DEF Keys
<1> QED BY <1>2, <1>4, <1>5, <1>6 DEF Free, FreeBalance

(* A withdraw of what is there goes through.                               *)
LEMMA VaultWithdrawOk ==
    ASSUME NEW V, Sane(V), Ok(V), Afloat(V), NEW u \in Users, NEW a \in Assets, NEW v \in Users,
           NEW x \in Nat, x <= V.tracked[<<u, a>>] - V.ledger.encumbered[<<u, a>>]
    PROVE  Ok(VaultWithdrawERC20(V, u, a, v, x))
<1> DEFINE W == [V EXCEPT !.tracked[<<u, a>>] = @ - x, !.wallet[<<v, a>>] = @ + x]
           g == x <= Free(V, u, a)
<1>1. W.ledger = V.ledger /\ V.ledger \in Ledger
  BY DEF Sane, Vaults
<1>2. g
  BY AfloatIsSolvent
<1>3. VaultWithdrawERC20(V, u, a, v, x) = On(W, Require(V.ledger, g))
  BY <1>1 DEF VaultWithdrawERC20, Guarded
<1>4. Require(V.ledger, g).ok
  BY <1>1, <1>2, RequireEffect DEF Ok
<1>5. On(W, Require(V.ledger, g)).ledger = Require(V.ledger, g)
  BY DEF On, Sane, Vaults
<1> QED BY <1>3, <1>4, <1>5 DEF Ok

=============================================================================
