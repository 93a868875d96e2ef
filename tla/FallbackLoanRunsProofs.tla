------------------------ MODULE FallbackLoanRunsProofs ------------------------
(***************************************************************************)
(* With a market deep enough, no claim and no liquidation of a loan is     *)
(* refused by the vaults or the ledger, whatever the loan went through.    *)
(***************************************************************************)
EXTENDS FallbackLoanProofs

(* What makes a call go through.  A call moves tokens between the vaults,  *)
(* the Diamond and the others, so what there is of an asset in these       *)
(* places, beyond what the depository promises, is the same from beginning *)
(* to end, and what the others have is what is not in the other places.    *)

Pot(V, a) == V.wallet[<<Outside, a>>] + Held(V, Lender, a) + Held(V, Borrower, a) + Held(V, Diamond, a)

SamePot(V, W) == \A a \in Assets : Pot(W, a) = Pot(V, a)

LEMMA PotTypes ==
    ASSUME NEW V, Fit(V), NEW a \in Assets
    PROVE  /\ V.wallet[<<Outside, a>>] \in Int /\ V.wallet[<<Diamond, a>>] \in Int
           /\ Held(V, Lender, a) \in Int /\ Held(V, Borrower, a) \in Int /\ Held(V, Diamond, a) \in Int
           /\ Held(V, Diamond, a) = V.wallet[<<Diamond, a>>] /\ Pot(V, a) \in Int
<1>1. V \in Vaults /\ \A p \in Holders : Held(V, p, a) \in Int
  BY FitTypes
<1>2. V.wallet[<<Outside, a>>] \in Int /\ V.wallet[<<Diamond, a>>] \in Int
  BY <1>1, Cast DEF Vaults, Keys
<1>3. Held(V, Diamond, a) = V.wallet[<<Diamond, a>>]
  BY DEF Held
<1>4. Held(V, Lender, a) \in Int /\ Held(V, Borrower, a) \in Int /\ Held(V, Diamond, a) \in Int
  BY <1>1 DEF Holders
<1> QED BY <1>2, <1>3, <1>4 DEF Pot

(* Balances that move from p to q, and what the others have with them.     *)
LEMMA MovedPot ==
    ASSUME NEW V, Fit(V), NEW W, NEW p \in Holders \cup {Outside}, NEW q \in Holders \cup {Outside},
           NEW a \in Assets, NEW x \in Int, Moves(V, W, p, a, -x, q, a, x),
           \A c \in Assets : W.wallet[<<Outside, c>>] =
                                V.wallet[<<Outside, c>>] + Part(Outside, c, p, a, -x) + Part(Outside, c, q, a, x)
    PROVE  SamePot(V, W)
<1> SUFFICES ASSUME NEW c \in Assets PROVE Pot(W, c) = Pot(V, c)
  BY DEF SamePot
<1>1. /\ Held(W, Lender, c) = Held(V, Lender, c) + Part(Lender, c, p, a, -x) + Part(Lender, c, q, a, x)
      /\ Held(W, Borrower, c) = Held(V, Borrower, c) + Part(Borrower, c, p, a, -x) + Part(Borrower, c, q, a, x)
      /\ Held(W, Diamond, c) = Held(V, Diamond, c) + Part(Diamond, c, p, a, -x) + Part(Diamond, c, q, a, x)
  BY DEF Moves, Holders
<1>2. V.wallet[<<Outside, c>>] \in Int /\ Held(V, Lender, c) \in Int /\ Held(V, Borrower, c) \in Int
      /\ Held(V, Diamond, c) \in Int
  BY PotTypes
<1> DEFINE Sum(r, y) == Part(Outside, c, r, a, y) + Part(Lender, c, r, a, y) + Part(Borrower, c, r, a, y)
                          + Part(Diamond, c, r, a, y)
<1>3. ASSUME NEW r \in Holders \cup {Outside}, NEW y \in Int
      PROVE  /\ Sum(r, y) = IF c = a THEN y ELSE 0
             /\ Part(Outside, c, r, a, y) \in Int /\ Part(Lender, c, r, a, y) \in Int
             /\ Part(Borrower, c, r, a, y) \in Int /\ Part(Diamond, c, r, a, y) \in Int
  BY Cast DEF Part, Holders
<1>4. -x \in Int
  OBVIOUS
<1> DEFINE op == Part(Outside, c, p, a, -x)
           lp == Part(Lender, c, p, a, -x)
           bp == Part(Borrower, c, p, a, -x)
           dp == Part(Diamond, c, p, a, -x)
           oq == Part(Outside, c, q, a, x)
           lq == Part(Lender, c, q, a, x)
           bq == Part(Borrower, c, q, a, x)
           dq == Part(Diamond, c, q, a, x)
<1>5. op \in Int /\ lp \in Int /\ bp \in Int /\ dp \in Int /\ op + lp + bp + dp = IF c = a THEN -x ELSE 0
  BY <1>3, <1>4
<1>6. oq \in Int /\ lq \in Int /\ bq \in Int /\ dq \in Int /\ oq + lq + bq + dq = IF c = a THEN x ELSE 0
  BY <1>3
<1>7. W.wallet[<<Outside, c>>] = V.wallet[<<Outside, c>>] + op + oq
  OBVIOUS
<1>8. /\ Held(W, Lender, c) = Held(V, Lender, c) + lp + lq
      /\ Held(W, Borrower, c) = Held(V, Borrower, c) + bp + bq
      /\ Held(W, Diamond, c) = Held(V, Diamond, c) + dp + dq
  BY <1>1
<1> HIDE DEF op, lp, bp, dp, oq, lq, bq, dq, Sum
<1>9. op + lp + bp + dp + oq + lq + bq + dq = 0
  BY <1>4, <1>5, <1>6
<1> DEFINE o == V.wallet[<<Outside, c>>]
           l == Held(V, Lender, c)
           b == Held(V, Borrower, c)
           d == Held(V, Diamond, c)
<1>10. Pot(V, c) = o + l + b + d
  BY DEF Pot
<1>11. Pot(W, c) = (o + op + oq) + (l + lp + lq) + (b + bp + bq) + (d + dp + dq)
  BY <1>7, <1>8 DEF Pot
<1>12. o \in Int /\ l \in Int /\ b \in Int /\ d \in Int
  BY <1>2
<1> HIDE DEF o, l, b, d
<1> QED BY ONLY <1>5, <1>6, <1>9, <1>10, <1>11, <1>12

LEMMA GuardedGoes ==
    ASSUME NEW V, Fit(V)
    PROVE  \A p \in BOOLEAN : SamePot(V, Guarded(V, p)) /\ Ok(Guarded(V, p)) = (Ok(V) /\ p)
<1> SUFFICES ASSUME NEW p \in BOOLEAN PROVE SamePot(V, Guarded(V, p)) /\ Ok(Guarded(V, p)) = (Ok(V) /\ p)
  OBVIOUS
<1>1. V \in Vaults /\ V.ledger \in Ledger
  BY FitTypes
<1>2. Require(V.ledger, p).ok = (V.ledger.ok /\ p)
  BY <1>1, RequireEffect
<1>3. Guarded(V, p).ledger = Require(V.ledger, p) /\ Guarded(V, p).wallet = V.wallet
  BY <1>1 DEF Guarded, On, Vaults
<1>4. SameMoney(V, Guarded(V, p))
  BY GuardedStep
<1> QED BY <1>2, <1>3, <1>4 DEF Ok, SamePot, Pot, SameMoney, Holders

LEMMA TransferGoes ==
    ASSUME NEW V, Fit(V), NEW p \in {Diamond, Outside}, NEW q \in {Diamond, Outside}, p # q,
           NEW a \in Assets, NEW x \in Int
    PROVE  LET W == Transfer(V, p, q, a, x)
           IN  SamePot(V, W) /\ (Ok(V) /\ x <= V.wallet[<<p, a>>] => Ok(W))
<1> DEFINE U == [V EXCEPT !.wallet[<<p, a>>] = @ - x, !.wallet[<<q, a>>] = @ + x]
           g == x <= V.wallet[<<p, a>>]
           W == Transfer(V, p, q, a, x)
<1>1. V \in Vaults /\ V.ledger \in Ledger /\ <<p, a>> \in Keys /\ <<q, a>> \in Keys /\ <<p, a>> # <<q, a>>
  BY FitTypes, Cast DEF Keys
<1>2. W = Guarded(U, g) /\ U.ledger = V.ledger /\ "ledger" \in DOMAIN U
      /\ W.wallet = [V.wallet EXCEPT ![<<p, a>>] = @ - x, ![<<q, a>>] = @ + x]
  BY <1>1 DEF Transfer, Guarded, On, Vaults
<1>3. Moves(V, W, p, a, -x, q, a, x)
  BY TransferStep
<1>4. ASSUME NEW c \in Assets
      PROVE  W.wallet[<<Outside, c>>] =
                V.wallet[<<Outside, c>>] + Part(Outside, c, p, a, -x) + Part(Outside, c, q, a, x)
  <2>1. V.wallet \in [Keys -> Int] /\ <<Outside, c>> \in Keys /\ V.wallet[<<Outside, c>>] \in Int
    BY <1>1, Cast DEF Vaults, Keys
  <2>2. W.wallet[<<Outside, c>>] = IF c # a THEN V.wallet[<<Outside, c>>]
                                   ELSE IF p = Outside THEN V.wallet[<<Outside, c>>] - x
                                   ELSE V.wallet[<<Outside, c>>] + x
    BY <1>1, <1>2, <2>1
  <2> HIDE DEF W
  <2> QED BY <2>1, <2>2, Cast DEF Part
<1>5. g \in BOOLEAN
  OBVIOUS
<1>6. Ok(W) = (V.ledger.ok /\ g)
  <2>1. Require(U.ledger, g).ok = (V.ledger.ok /\ g)
    BY <1>1, <1>2, <1>5, RequireEffect
  <2>2. W.ledger = Require(U.ledger, g)
    BY <1>1, <1>2 DEF Guarded, On
  <2> QED BY <2>1, <2>2 DEF Ok
<1> HIDE DEF W
<1>7. SamePot(V, W)
  BY <1>3, <1>4, MovedPot DEF Holders
<1> QED BY <1>6, <1>7 DEF Ok, W

LEMMA DepositGoes ==
    ASSUME NEW V, Fit(V), NEW p \in {Diamond, Outside}, NEW u \in {Lender, Borrower},
           NEW a \in Assets, NEW x \in Int
    PROVE  LET W == VaultDepositERC20From(V, p, u, a, x)
           IN  SamePot(V, W) /\ Ok(W) = (Ok(V) /\ x <= V.wallet[<<p, a>>])
<1> DEFINE U == [V EXCEPT !.wallet[<<p, a>>] = @ - x, !.tracked[<<u, a>>] = @ + x]
           g == x <= V.wallet[<<p, a>>]
           W == VaultDepositERC20From(V, p, u, a, x)
<1>1. V \in Vaults /\ V.ledger \in Ledger /\ <<p, a>> \in Keys
  BY FitTypes, Cast DEF Keys
<1>2. W = Guarded(U, g) /\ U.ledger = V.ledger /\ "ledger" \in DOMAIN U
      /\ W.wallet = [V.wallet EXCEPT ![<<p, a>>] = @ - x]
  BY <1>1 DEF VaultDepositERC20From, Guarded, On, Vaults
<1>3. Moves(V, W, p, a, -x, u, a, x)
  BY DepositStep
<1>4. ASSUME NEW c \in Assets
      PROVE  W.wallet[<<Outside, c>>] =
                V.wallet[<<Outside, c>>] + Part(Outside, c, p, a, -x) + Part(Outside, c, u, a, x)
  <2>1. V.wallet \in [Keys -> Int] /\ <<Outside, c>> \in Keys /\ V.wallet[<<Outside, c>>] \in Int
    BY <1>1, Cast DEF Vaults, Keys
  <2>2. W.wallet[<<Outside, c>>] = IF c = a /\ p = Outside THEN V.wallet[<<Outside, c>>] - x
                                   ELSE V.wallet[<<Outside, c>>]
    BY <1>1, <1>2, <2>1
  <2> HIDE DEF W
  <2> QED BY <2>1, <2>2, Cast DEF Part
<1>5. g \in BOOLEAN
  OBVIOUS
<1>6. Ok(W) = (V.ledger.ok /\ g)
  <2>1. Require(U.ledger, g).ok = (V.ledger.ok /\ g)
    BY <1>1, <1>2, <1>5, RequireEffect
  <2>2. W.ledger = Require(U.ledger, g)
    BY <1>1, <1>2 DEF Guarded, On
  <2> QED BY <2>1, <2>2 DEF Ok
<1> HIDE DEF W
<1>7. SamePot(V, W)
  BY <1>3, <1>4, MovedPot DEF Holders
<1> QED BY <1>6, <1>7 DEF Ok, W

LEMMA WithdrawGoes ==
    ASSUME NEW V, Fit(V), NEW u \in {Lender, Borrower}, NEW to \in {Diamond, Outside},
           NEW a \in Assets, NEW x \in Int
    PROVE  LET W == VaultWithdrawERC20(V, u, a, to, x)
           IN  SamePot(V, W) /\ (Ok(V) /\ x <= Free(V, u, a) => Ok(W))
<1> DEFINE U == [V EXCEPT !.tracked[<<u, a>>] = @ - x, !.wallet[<<to, a>>] = @ + x]
           g == x <= Free(V, u, a)
           W == VaultWithdrawERC20(V, u, a, to, x)
<1>1. V \in Vaults /\ V.ledger \in Ledger /\ <<to, a>> \in Keys
  BY FitTypes, Cast DEF Keys
<1>2. W = Guarded(U, g) /\ U.ledger = V.ledger /\ "ledger" \in DOMAIN U
      /\ W.wallet = [V.wallet EXCEPT ![<<to, a>>] = @ + x]
  BY <1>1 DEF VaultWithdrawERC20, Guarded, On, Vaults
<1>3. Moves(V, W, u, a, -x, to, a, x)
  BY WithdrawStep
<1>4. ASSUME NEW c \in Assets
      PROVE  W.wallet[<<Outside, c>>] =
                V.wallet[<<Outside, c>>] + Part(Outside, c, u, a, -x) + Part(Outside, c, to, a, x)
  <2>1. V.wallet \in [Keys -> Int] /\ <<Outside, c>> \in Keys /\ V.wallet[<<Outside, c>>] \in Int
    BY <1>1, Cast DEF Vaults, Keys
  <2>2. W.wallet[<<Outside, c>>] = IF c = a /\ to = Outside THEN V.wallet[<<Outside, c>>] + x
                                   ELSE V.wallet[<<Outside, c>>]
    BY <1>1, <1>2, <2>1
  <2> HIDE DEF W
  <2> QED BY <2>1, <2>2, Cast DEF Part
<1>5. g \in BOOLEAN
  OBVIOUS
<1>6. Ok(W) = (V.ledger.ok /\ g)
  <2>1. Require(U.ledger, g).ok = (V.ledger.ok /\ g)
    BY <1>1, <1>2, <1>5, RequireEffect
  <2>2. W.ledger = Require(U.ledger, g)
    BY <1>1, <1>2 DEF Guarded, On
  <2> QED BY <2>1, <2>2 DEF Ok
<1> HIDE DEF W, g
<1>7. SamePot(V, W)
  BY <1>3, <1>4, MovedPot DEF Holders
<1> QED BY <1>6, <1>7 DEF Ok, W, g

LEMMA OnPot ==
    ASSUME NEW V, Fit(V), NEW L
    PROVE  SamePot(V, On(V, L))
<1>1. V \in Vaults
  BY FitTypes
<1>2. On(V, L).wallet = V.wallet /\ On(V, L).tracked = V.tracked /\ On(V, L).depository = V.depository
  BY <1>1 DEF On, Vaults
<1> QED BY <1>2 DEF SamePot, Pot, Held

(* What the rows of the loan tie up in a vault, and what that leaves free. *)
Tied(V, u, a) ==
    (IF u = Borrower /\ a = Collateral THEN LienAmount(V) ELSE 0)
      + (IF u = Lender /\ a = Vpfi THEN Lane(V, "lenderProceeds").amount ELSE 0)
      + (IF u = Lender /\ a = Principal THEN Lane(V, "heldForLender").amount ELSE 0)
      + (IF u = Borrower /\ a = Principal THEN Lane(V, "borrowerProceeds").amount ELSE 0)

LEMMA TiedUp ==
    ASSUME NEW V, Fit(V), Ok(V), NEW u \in {Lender, Borrower}, NEW a \in Assets
    PROVE  V.ledger.encumbered[<<u, a>>] = Tied(V, u, a) /\ Tied(V, u, a) \in Nat
<1> DEFINE L == V.ledger
           k == <<u, a>>
           A == LienTerm(L.loanCollateralLien[1], k)
           B == ReservedTerm(L, "lenderProceeds", 1, k)
           C == ReservedTerm(L, "heldForLender", 1, k)
           D == ReservedTerm(L, "borrowerProceeds", 1, k)
<1>1. /\ L \in Ledger /\ Balanced(L) /\ Kept(V) /\ LienAmount(V) \in Nat
      /\ \A e \in Lanes : Lane(V, e).amount \in Nat
  BY FitTypes DEF Fit, Sound, Ok
<1>2. k \in Keys /\ k[1] = u /\ k[2] = a /\ 1 \in Loans
  BY Cast DEF Keys
<1>3. A = IF u = Borrower /\ a = Collateral THEN LienAmount(V) ELSE 0
  <2>1. A = IF LienRow(V).live THEN At(k, LienRow(V).user, LienRow(V).asset, LienRow(V).amount) ELSE 0
    BY DEF LienTerm, LienRow
  <2>2. CASE ~ LienRow(V).live
    BY <2>1, <2>2 DEF LienAmount
  <2>3. CASE LienRow(V).live
    <3>1. LienRow(V).user = Borrower /\ LienRow(V).asset = Collateral /\ LienRow(V).amount = LienAmount(V)
      BY <1>1, <2>3 DEF Kept, LienAmount
    <3>2. A = At(k, Borrower, Collateral, LienAmount(V))
      BY <2>1, <2>3, <3>1
    <3>3. k = <<Borrower, Collateral>> <=> u = Borrower /\ a = Collateral
      OBVIOUS
    <3> QED BY <3>2, <3>3 DEF At
  <2> QED BY <2>2, <2>3
<1>4. ASSUME NEW e \in Lanes
      PROVE  ReservedTerm(L, e, 1, k) = IF u = LaneParty(e) /\ a = LaneAsset(e) THEN Lane(V, e).amount ELSE 0
  <2>1. Party(L, e, 1) = LaneParty(e)
    BY <1>1 DEF Kept, Party, LaneParty
  <2>2. ReservedTerm(L, e, 1, k) = At(k, LaneParty(e), Lane(V, e).asset, Lane(V, e).amount)
    BY <2>1 DEF ReservedTerm, Lane
  <2>3. Lane(V, e).amount > 0 => Lane(V, e).asset = LaneAsset(e)
    BY <1>1 DEF Kept, LaneAsset, Lanes
  <2>4. CASE Lane(V, e).amount = 0
    BY <2>2, <2>4 DEF At
  <2>5. CASE Lane(V, e).amount # 0
    <3>1. Lane(V, e).asset = LaneAsset(e)
      BY <1>1, <2>3, <2>5
    <3>2. k = <<LaneParty(e), LaneAsset(e)>> <=> u = LaneParty(e) /\ a = LaneAsset(e)
      OBVIOUS
    <3> QED BY <2>2, <3>1, <3>2 DEF At
  <2> QED BY <2>4, <2>5
<1>5. /\ B = IF u = Lender /\ a = Vpfi THEN Lane(V, "lenderProceeds").amount ELSE 0
      /\ C = IF u = Lender /\ a = Principal THEN Lane(V, "heldForLender").amount ELSE 0
      /\ D = IF u = Borrower /\ a = Principal THEN Lane(V, "borrowerProceeds").amount ELSE 0
  <2>1. {"lenderProceeds", "heldForLender", "borrowerProceeds"} \subseteq Lanes
    BY DEF Lanes
  <2> QED BY <1>4, <2>1 DEF LaneParty, LaneAsset
<1>6. LoansOwe(L, k) = A + B + C + D
  <2> DEFINE f == [l \in Loans |-> LoanTerm(L, l, k)]
             z == [l \in Loans |-> 0]
  <2>1. LoanTerm(L, 1, k) = A + B + C + D /\ LoanTerm(L, 1, k) \in Int
    BY <1>1, <1>2, TermsAreNat, TermOfLoan
  <2>2. f[1] = LoanTerm(L, 1, k) /\ z[1] = 0 /\ \A i \in 1..1 : i = 1
    BY <1>2
  <2>3. LoansOwe(L, k) = Total(f, 1)
    BY Cast DEF LoansOwe
  <2> HIDE DEF f, z
  <2>4. /\ 1 \in Nat /\ 1 \in 1..1 /\ \A i \in 1..1 : z[i] \in Int /\ f[i] \in Int
        /\ \A i \in 1..1 : i # 1 => f[i] = z[i]
    BY <2>1, <2>2
  <2>5. Total(f, 1) = Total(z, 1) - z[1] + f[1]
    BY <2>4, TotalUpdate
  <2>6. Total(z, 1) = 0
    <3>1. \A i \in 1..1 : z[i] = 0
      BY <2>2
    <3> QED BY <3>1, TotalZero
  <2> QED BY <2>1, <2>2, <2>3, <2>5, <2>6
<1>7. OffersOwe(L, k) = 0
  <2> DEFINE f == [o \in Offers |-> OfferTerm(L, o, k)]
  <2>1. \A o \in Offers : OfferTerm(L, o, k) = 0
    BY <1>1 DEF Kept, OfferTerm, LienTerm
  <2>2. \A i \in 1..MaxOffers : f[i] = 0
    BY <2>1 DEF Offers
  <2> HIDE DEF f
  <2>3. Total(f, MaxOffers) = 0
    BY <2>2, TotalZero, EncumbranceAssumption
  <2> QED BY <2>3 DEF OffersOwe, f
<1>8. IntentsOwe(L, k) = 0
  <2> DEFINE f == [i \in Intents |-> IntentTerm(L, i, k)]
  <2>1. \A i \in Intents : IntentTerm(L, i, k) = 0
    BY <1>1 DEF Kept, IntentTerm, At
  <2>2. \A i \in 1..MaxIntents : f[i] = 0
    BY <2>1 DEF Intents
  <2> HIDE DEF f
  <2>3. Total(f, MaxIntents) = 0
    BY <2>2, TotalZero, EncumbranceAssumption
  <2> QED BY <2>3 DEF IntentsOwe, f
<1>9. L.encumbered[k] = LoansOwe(L, k) + OffersOwe(L, k) + IntentsOwe(L, k)
  BY <1>1, <1>2 DEF Balanced, Owed
<1>10. Tied(V, u, a) = A + B + C + D
  <2> HIDE DEF A, B, C, D
  <2> QED BY <1>3, <1>5 DEF Tied
<1>11. A + B + C + D \in Nat
  <2>1. Lane(V, "lenderProceeds").amount \in Nat /\ Lane(V, "heldForLender").amount \in Nat
        /\ Lane(V, "borrowerProceeds").amount \in Nat
    BY <1>1 DEF Lanes
  <2> HIDE DEF A, B, C, D
  <2> QED BY <1>1, <1>3, <1>5, <2>1
<1> HIDE DEF A, B, C, D
<1> QED BY <1>6, <1>7, <1>8, <1>9, <1>10, <1>11

(* A withdraw within what a vault holds beyond the promises and the rows.  *)
LEMMA FreeOf ==
    ASSUME NEW V, Fit(V), Ok(V), NEW u \in {Lender, Borrower}, NEW a \in Assets,
           NEW x \in Int, x <= Held(V, u, a) - Tied(V, u, a)
    PROVE  x <= Free(V, u, a)
<1>1. V \in Vaults /\ <<u, a>> \in Keys
  BY FitTypes, Cast DEF Keys
<1>2. V.tracked[<<u, a>>] \in Int /\ V.depository[<<u, a>>] \in Nat
  BY <1>1 DEF Vaults
<1>3. Held(V, u, a) = V.tracked[<<u, a>>] - V.depository[<<u, a>>]
  BY Cast DEF Held
<1>4. V.ledger.encumbered[<<u, a>>] = Tied(V, u, a) /\ Tied(V, u, a) \in Nat
  BY TiedUp
<1>5. Free(V, u, a) = Excess(V.tracked[<<u, a>>], Tied(V, u, a))
  BY <1>4 DEF Free, FreeBalance
<1> QED BY <1>2, <1>3, <1>4, <1>5 DEF Excess

-----------------------------------------------------------------------------
(* The rows of the loan can always be moved.                               *)

LEMMA ReleaseLienGoes ==
    ASSUME NEW V, Fit(V), Ok(V)
    PROVE  Ok(ReleaseLien(V))
<1> DEFINE L == V.ledger
           r == LienRow(V)
           n == [r EXCEPT !.live = FALSE, !.amount = 0]
           S == SetLien(L, 1, n)
<1>1. /\ V \in Vaults /\ L \in Ledger /\ L.ok /\ Kept(V) /\ r \in Lien /\ r.amount \in Nat /\ 1 \in Loans
      /\ <<Borrower, Collateral>> \in Keys /\ r = L.loanCollateralLien[1]
  BY FitTypes, Cast DEF Fit, Ok, Lien, Keys, LienRow
<1>2. ReleaseLien(V).ledger = ReleaseCollateralLien(L, 1)
  BY <1>1 DEF ReleaseLien, On, Vaults
<1>3. CASE ~ r.live
  BY <1>1, <1>2, <1>3 DEF ReleaseCollateralLien, Ok
<1>4. CASE r.live
  <2>1. r.user = Borrower /\ r.asset = Collateral /\ LienAmount(V) = r.amount
    BY <1>1, <1>4 DEF Kept, LienAmount
  <2>2. ReleaseCollateralLien(L, 1) = Lower(S, Borrower, Collateral, r.amount)
    BY <1>1, <1>4, <2>1 DEF ReleaseCollateralLien
  <2>3. n \in Lien
    BY <1>1 DEF Lien
  <2>4. r.amount <= L.encumbered[<<Borrower, Collateral>>]
    <3>1. L.encumbered[<<Borrower, Collateral>>] = Tied(V, Borrower, Collateral)
      BY TiedUp, Cast
    <3>2. Tied(V, Borrower, Collateral) = LienAmount(V)
      <4>1. LienAmount(V) \in Nat
        BY FitTypes
      <4> QED BY <4>1, Cast DEF Tied
    <3> QED BY <1>1, <2>1, <3>1, <3>2
  <2> HIDE DEF n
  <2>5. S \in Ledger /\ S.ok /\ S.encumbered = L.encumbered
    BY <1>1, <2>3, SetLienEffect
  <2> HIDE DEF S, L, r
  <2>6. Lower(S, Borrower, Collateral, r.amount).ok
    BY <1>1, <2>4, <2>5, LowerGoesThrough
  <2> QED BY <1>2, <2>2, <2>6 DEF Ok
<1> QED BY <1>3, <1>4

LEMMA LowerLienGoes ==
    ASSUME NEW V, Fit(V), Ok(V), NEW x \in Nat, x <= LienAmount(V)
    PROVE  Ok(LowerLien(V, x))
<1> DEFINE L == V.ledger
           r == LienRow(V)
           n == [r EXCEPT !.amount = Excess(@, x)]
           S == SetLien(L, 1, n)
           M == Lower(S, Borrower, Collateral, x)
           p == x <= r.amount
<1>1. /\ V \in Vaults /\ L \in Ledger /\ L.ok /\ Kept(V) /\ r \in Lien /\ r.amount \in Nat /\ 1 \in Loans
      /\ <<Borrower, Collateral>> \in Keys /\ r = L.loanCollateralLien[1]
  BY FitTypes, Cast DEF Fit, Ok, Lien, Keys, LienRow
<1>2. LowerLien(V, x).ledger = DecrementCollateralLien(L, 1, x)
  BY <1>1 DEF LowerLien, On, Vaults
<1>3. CASE ~ r.live
  BY <1>1, <1>2, <1>3 DEF DecrementCollateralLien, Ok
<1>4. CASE r.live
  <2>1. r.user = Borrower /\ r.asset = Collateral /\ LienAmount(V) = r.amount
    BY <1>1, <1>4 DEF Kept, LienAmount
  <2>2. DecrementCollateralLien(L, 1, x) = Require(M, p)
    BY <1>1, <1>4, <2>1 DEF DecrementCollateralLien
  <2>3. n \in Lien /\ p /\ p \in BOOLEAN
    <3>1. Excess(r.amount, x) \in Nat
      BY <1>1 DEF Excess
    <3> QED BY <1>1, <2>1, <3>1 DEF Lien
  <2>4. x <= L.encumbered[<<Borrower, Collateral>>]
    <3>1. L.encumbered[<<Borrower, Collateral>>] = Tied(V, Borrower, Collateral)
      BY TiedUp, Cast
    <3>2. Tied(V, Borrower, Collateral) = LienAmount(V)
      <4>1. LienAmount(V) \in Nat
        BY FitTypes
      <4> QED BY <4>1, Cast DEF Tied
    <3> QED BY <3>1, <3>2
  <2> HIDE DEF n
  <2>5. S \in Ledger /\ S.ok /\ S.encumbered = L.encumbered
    BY <1>1, <2>3, SetLienEffect
  <2> HIDE DEF S, L, r, p
  <2>6. M.ok /\ M \in Ledger
    <3>1. x \in Int
      OBVIOUS
    <3>2. M \in Ledger
      BY <2>5, <3>1, LowerEffect
    <3> QED BY <1>1, <2>4, <2>5, <3>1, <3>2, LowerGoesThrough
  <2> HIDE DEF M
  <2>7. Require(M, p).ok
    BY <2>3, <2>6, RequireEffect
  <2> QED BY <1>2, <2>2, <2>7 DEF Ok
<1> QED BY <1>3, <1>4

LEMMA RaiseLienGoes ==
    ASSUME NEW V, Fit(V), Ok(V), NEW x \in Nat
    PROVE  Ok(RaiseLien(V, x))
<1> DEFINE L == V.ledger
           r == LienRow(V)
           n == [r EXCEPT !.amount = @ + x]
           m == [user |-> L.borrower[1], asset |-> Collateral, amount |-> x, live |-> TRUE]
<1>1. /\ V \in Vaults /\ L \in Ledger /\ L.ok /\ Kept(V) /\ r \in Lien /\ 1 \in Loans
      /\ r = L.loanCollateralLien[1] /\ Collateral \in Assets
  BY FitTypes, Cast DEF Fit, Ok, LienRow
<1>2. RaiseLien(V, x).ledger = IncrementCollateralLien(L, 1, Collateral, x)
  BY <1>1 DEF RaiseLien, On, Vaults
<1>3. n \in Lien /\ m \in Lien
  <2>1. L.borrower[1] \in Users \cup {NoUser} /\ r.amount + x \in Nat
    BY <1>1 DEF Ledger, Lien
  <2> HIDE DEF L, r
  <2> QED BY <1>1, <2>1 DEF Lien
<1> HIDE DEF n, m
<1>4. SetLien(L, 1, n) \in Ledger /\ SetLien(L, 1, n).ok /\ SetLien(L, 1, m) \in Ledger /\ SetLien(L, 1, m).ok
  BY <1>1, <1>3, SetLienEffect
<1>5. CASE x = 0
  BY <1>1, <1>2, <1>5 DEF IncrementCollateralLien, Ok
<1>6. CASE x # 0 /\ r.live
  <2>1. IncrementCollateralLien(L, 1, Collateral, x) = Raise(SetLien(L, 1, n), r.user, r.asset, x)
    BY <1>1, <1>6 DEF IncrementCollateralLien, n
  <2> QED BY <1>2, <1>4, <2>1, RaiseEffect DEF Ok
<1>7. CASE x # 0 /\ ~ r.live
  <2>1. IncrementCollateralLien(L, 1, Collateral, x) = Raise(SetLien(L, 1, m), L.borrower[1], Collateral, x)
    BY <1>1, <1>7 DEF IncrementCollateralLien, RecreateCollateralLien, m
  <2> QED BY <1>2, <1>4, <2>1, RaiseEffect DEF Ok
<1> QED BY <1>5, <1>6, <1>7

LEMMA ReserveGoes ==
    ASSUME NEW V, Fit(V), Ok(V), NEW e \in Lanes, NEW x \in Nat
    PROVE  Ok(Reserve(V, e, LaneParty(e), LaneAsset(e), x))
<1> DEFINE L == V.ledger
           r == Lane(V, e)
           n == [asset |-> LaneAsset(e), amount |-> r.amount + x]
           S == SetReserved(L, e, 1, n)
           U == Raise(S, LaneParty(e), LaneAsset(e), x)
           p == r.amount = 0 \/ r.asset = LaneAsset(e)
           W == Reserve(V, e, LaneParty(e), LaneAsset(e), x)
<1>1. /\ V \in Vaults /\ L \in Ledger /\ L.ok /\ Kept(V) /\ r \in Reservation /\ r.amount \in Nat /\ 1 \in Loans
      /\ r = L.reserved[e][1] /\ LaneAsset(e) \in Assets
  BY FitTypes, Cast DEF Fit, Ok, Lane, LaneAsset
<1>2. W.ledger = Encumber(L, e, 1, LaneParty(e), LaneAsset(e), x)
  BY <1>1 DEF Reserve, On, Vaults
<1>3. CASE x = 0
  BY <1>1, <1>2, <1>3 DEF Encumber, Ok
<1>4. CASE x # 0
  <2>1. Encumber(L, e, 1, LaneParty(e), LaneAsset(e), x) = Require(U, p)
    BY <1>1, <1>4 DEF Encumber
  <2>2. n \in Reservation
    BY <1>1 DEF Reservation
  <2>3. p /\ p \in BOOLEAN
    BY <1>1 DEF Kept, LaneAsset, Lanes
  <2> HIDE DEF n
  <2>4. S \in Ledger /\ S.ok
    BY <1>1, <2>2, SetReservedEffect
  <2> HIDE DEF S
  <2>5. U \in Ledger /\ U.ok
    BY <2>4, RaiseEffect
  <2> HIDE DEF U, p, W
  <2>6. Require(U, p).ok
    BY <2>3, <2>5, RequireEffect
  <2> QED BY <1>2, <2>1, <2>6 DEF Ok, W
<1> QED BY <1>3, <1>4

LEMMA ReleaseGoes ==
    ASSUME NEW V, Fit(V), Ok(V), NEW e \in Lanes
    PROVE  Ok(Release(V, e, LaneParty(e)))
<1> DEFINE L == V.ledger
           r == Lane(V, e)
           u == LaneParty(e)
           S == SetReserved(L, e, 1, NoReservation)
           W == Release(V, e, LaneParty(e))
<1>1. /\ V \in Vaults /\ L \in Ledger /\ L.ok /\ Kept(V) /\ r \in Reservation /\ r.amount \in Nat /\ 1 \in Loans
      /\ r = L.reserved[e][1] /\ LaneAsset(e) \in Assets /\ u \in {Lender, Borrower}
      /\ <<u, LaneAsset(e)>> \in Keys
  BY FitTypes, Cast DEF Fit, Ok, Lane, LaneAsset, LaneParty, Keys
<1>2. W.ledger = ReleaseReserved(L, e, 1, u)
  BY <1>1 DEF Release, On, Vaults
<1>3. CASE r.amount = 0
  BY <1>1, <1>2, <1>3 DEF ReleaseReserved, TakeReserved, Ok
<1>4. CASE r.amount # 0
  <2>1. r.asset = LaneAsset(e)
    BY <1>1, <1>4 DEF Kept, LaneAsset, Lanes
  <2>2. ReleaseReserved(L, e, 1, u) = Lower(S, u, LaneAsset(e), r.amount)
    BY <1>1, <1>4, <2>1 DEF ReleaseReserved, TakeReserved
  <2>3. NoReservation \in Reservation
    BY DEF Reservation, NoReservation
  <2>4. r.amount <= L.encumbered[<<u, LaneAsset(e)>>]
    <3>1. L.encumbered[<<u, LaneAsset(e)>>] = Tied(V, u, LaneAsset(e))
      BY <1>1, TiedUp
    <3>2. /\ LienAmount(V) \in Nat /\ Lane(V, "lenderProceeds").amount \in Nat
          /\ Lane(V, "heldForLender").amount \in Nat /\ Lane(V, "borrowerProceeds").amount \in Nat
      BY FitTypes DEF Lanes
    <3>3. Tied(V, u, LaneAsset(e)) >= r.amount
      BY <3>2, Cast DEF Tied, LaneAsset, LaneParty, Lanes
    <3> QED BY <1>1, <3>1, <3>2, <3>3, TiedUp
  <2>5. S \in Ledger /\ S.ok /\ S.encumbered = L.encumbered
    BY <1>1, <2>3, SetReservedEffect
  <2> HIDE DEF S, L, r, u, W
  <2>6. Lower(S, u, LaneAsset(e), r.amount).ok
    BY <1>1, <2>4, <2>5, LowerGoesThrough
  <2> QED BY <1>2, <2>2, <2>6 DEF Ok, W
<1> QED BY <1>3, <1>4

LEMMA SamePotTwice ==
    ASSUME NEW U, NEW V, NEW W, SamePot(U, V), SamePot(V, W)
    PROVE  SamePot(U, W)
BY DEF SamePot

(* What arrives in the Diamond out of the borrower's vault.                *)
LEMMA PullGoes ==
    ASSUME NEW V, Fit(V), Ok(V), NEW a \in Assets, NEW x \in Int, NEW y \in Int,
           x <= Free(V, Borrower, a), 0 <= V.wallet[<<Diamond, a>>] + y
    PROVE  SamePot(V, PullToDiamond(V, a, x, y)) /\ Ok(PullToDiamond(V, a, x, y))
<1> DEFINE U == VaultWithdrawERC20(V, Borrower, a, Diamond, x)
           W == Transfer(U, Diamond, Outside, a, x - y)
<1>1. Fit(U) /\ Moves(V, U, Borrower, a, -x, Diamond, a, x)
  BY WithdrawStep
<1>2. SamePot(V, U) /\ Ok(U)
  BY WithdrawGoes
<1>3. PullToDiamond(V, a, x, y) = W
  BY DEF PullToDiamond
<1> HIDE DEF U
<1>4. U.wallet[<<Diamond, a>>] = V.wallet[<<Diamond, a>>] + x /\ V.wallet[<<Diamond, a>>] \in Int
  <2>1. Held(U, Diamond, a) = Held(V, Diamond, a) + Part(Diamond, a, Borrower, a, -x) + Part(Diamond, a, Diamond, a, x)
    BY <1>1 DEF Moves, Holders
  <2>2. Held(U, Diamond, a) = U.wallet[<<Diamond, a>>] /\ Held(V, Diamond, a) = V.wallet[<<Diamond, a>>]
        /\ V.wallet[<<Diamond, a>>] \in Int
    BY <1>1, PotTypes
  <2>3. Part(Diamond, a, Borrower, a, -x) = 0 /\ Part(Diamond, a, Diamond, a, x) = x
    BY Cast DEF Part
  <2> QED BY <2>1, <2>2, <2>3
<1>5. x - y \in Int /\ x - y <= U.wallet[<<Diamond, a>>] /\ Diamond # Outside
  BY <1>4, Cast
<1>6. SamePot(U, W) /\ Ok(W)
  BY <1>1, <1>2, <1>5, TransferGoes
<1> QED BY <1>2, <1>3, <1>6, SamePotTwice

LEMMA LockGoes ==
    ASSUME NEW V, Fit(V), Ok(V), NEW u \in {Lender, Borrower}, NEW a \in Assets, NEW x \in Int, NEW y \in Nat,
           x <= V.wallet[<<Diamond, a>>]
    PROVE  SamePot(V, DepositLocked(V, u, a, x, y)) /\ Ok(DepositLocked(V, u, a, x, y))
<1> DEFINE U == Transfer(V, Diamond, Outside, a, x - y)
           W == VaultDepositERC20From(U, Diamond, u, a, y)
<1>1. x - y \in Int /\ y \in Int /\ Diamond # Outside /\ V.wallet[<<Diamond, a>>] \in Int
  <2>1. V.wallet[<<Diamond, a>>] \in Int
    BY PotTypes
  <2>2. x - y \in Int /\ y \in Int
    OBVIOUS
  <2> QED BY <2>1, <2>2, Cast
<1>2. Fit(U) /\ Moves(V, U, Diamond, a, -(x - y), Outside, a, x - y)
  BY <1>1, TransferStep
<1>3. SamePot(V, U) /\ Ok(U)
  <2>1. x - y <= V.wallet[<<Diamond, a>>]
    BY <1>1
  <2> QED BY <1>1, <2>1, TransferGoes
<1>4. DepositLocked(V, u, a, x, y) = W
  BY DEF DepositLocked
<1> HIDE DEF U
<1>5. U.wallet[<<Diamond, a>>] = V.wallet[<<Diamond, a>>] - (x - y)
  <2>1. Held(U, Diamond, a) = Held(V, Diamond, a) + Part(Diamond, a, Diamond, a, -(x - y)) + Part(Diamond, a, Outside, a, x - y)
    BY <1>2 DEF Moves, Holders
  <2>2. Held(U, Diamond, a) = U.wallet[<<Diamond, a>>] /\ Held(V, Diamond, a) = V.wallet[<<Diamond, a>>]
    BY <1>2, PotTypes
  <2>3. Part(Diamond, a, Diamond, a, -(x - y)) = -(x - y) /\ Part(Diamond, a, Outside, a, x - y) = 0
    BY Cast DEF Part
  <2> QED BY <1>1, <2>1, <2>2, <2>3
<1>6. y <= U.wallet[<<Diamond, a>>]
  BY <1>1, <1>5
<1>7. SamePot(U, W) /\ Ok(W)
  BY <1>1, <1>2, <1>3, <1>6, DepositGoes
<1> QED BY <1>3, <1>4, <1>7, SamePotTwice

LEMMA FromVaultGoes ==
    ASSUME NEW V, Fit(V), Ok(V), NEW a \in Assets, NEW x \in Int, NEW y \in Int,
           x <= Free(V, Borrower, a), y <= V.wallet[<<Outside, a>>] + x
    PROVE  SamePot(V, DepositFromVault(V, Lender, a, x, y)) /\ Ok(DepositFromVault(V, Lender, a, x, y))
<1> DEFINE U == VaultWithdrawERC20(V, Borrower, a, Outside, x)
           W == VaultDepositERC20From(U, Outside, Lender, a, y)
<1>1. Fit(U) /\ Moves(V, U, Borrower, a, -x, Outside, a, x)
  BY WithdrawStep
<1>2. SamePot(V, U) /\ Ok(U)
  BY WithdrawGoes
<1>3. DepositFromVault(V, Lender, a, x, y) = W
  BY DEF DepositFromVault
<1> HIDE DEF U
<1>4. U.wallet[<<Outside, a>>] = V.wallet[<<Outside, a>>] + x
  <2>1. /\ Held(U, Diamond, a) = Held(V, Diamond, a) + Part(Diamond, a, Borrower, a, -x) + Part(Diamond, a, Outside, a, x)
        /\ Held(U, Lender, a) = Held(V, Lender, a) + Part(Lender, a, Borrower, a, -x) + Part(Lender, a, Outside, a, x)
        /\ Held(U, Borrower, a) = Held(V, Borrower, a) + Part(Borrower, a, Borrower, a, -x) + Part(Borrower, a, Outside, a, x)
    BY <1>1 DEF Moves, Holders
  <2>2. /\ Part(Diamond, a, Borrower, a, -x) = 0 /\ Part(Diamond, a, Outside, a, x) = 0
        /\ Part(Lender, a, Borrower, a, -x) = 0 /\ Part(Lender, a, Outside, a, x) = 0
        /\ Part(Borrower, a, Borrower, a, -x) = -x /\ Part(Borrower, a, Outside, a, x) = 0
    BY Cast DEF Part
  <2>3. Pot(U, a) = Pot(V, a)
    BY <1>2 DEF SamePot
  <2>4. /\ V.wallet[<<Outside, a>>] \in Int /\ Held(V, Lender, a) \in Int /\ Held(V, Borrower, a) \in Int
        /\ Held(V, Diamond, a) \in Int /\ U.wallet[<<Outside, a>>] \in Int
    BY <1>1, PotTypes
  <2> QED BY <2>1, <2>2, <2>3, <2>4 DEF Pot
<1>5. SamePot(U, W) /\ Ok(W)
  BY <1>1, <1>2, <1>4, DepositGoes
<1> QED BY <1>2, <1>3, <1>5, SamePotTwice

LEMMA SwapGoes ==
    ASSUME NEW V, Fit(V), Ok(V), NEW x \in Int, NEW y \in Int,
           x <= V.wallet[<<Diamond, Collateral>>], y <= V.wallet[<<Outside, Principal>>]
    PROVE  SamePot(V, Swapped(V, x, y)) /\ Ok(Swapped(V, x, y))
<1> DEFINE U == Transfer(V, Diamond, Outside, Collateral, x)
           W == Transfer(U, Outside, Diamond, Principal, y)
<1>1. Fit(U) /\ Moves(V, U, Diamond, Collateral, -x, Outside, Collateral, x)
  BY Cast, TransferStep
<1>2. SamePot(V, U) /\ Ok(U)
  BY Cast, TransferGoes
<1>3. Swapped(V, x, y) = W
  BY DEF Swapped
<1> HIDE DEF U
<1>4. U.wallet[<<Outside, Principal>>] = V.wallet[<<Outside, Principal>>]
  <2>1. \A r \in Holders : Held(U, r, Principal) = Held(V, r, Principal) + Part(r, Principal, Diamond, Collateral, -x)
                                                    + Part(r, Principal, Outside, Collateral, x)
    BY <1>1, Cast DEF Moves
  <2>2. \A r \in Holders : /\ Part(r, Principal, Diamond, Collateral, -x) = 0
                           /\ Part(r, Principal, Outside, Collateral, x) = 0
    BY Cast DEF Part
  <2>3. Pot(U, Principal) = Pot(V, Principal)
    BY <1>2, Cast DEF SamePot
  <2>4. /\ V.wallet[<<Outside, Principal>>] \in Int /\ Held(V, Lender, Principal) \in Int
        /\ Held(V, Borrower, Principal) \in Int /\ Held(V, Diamond, Principal) \in Int
        /\ U.wallet[<<Outside, Principal>>] \in Int
    BY <1>1, PotTypes, Cast
  <2>5. Held(U, Lender, Principal) = Held(V, Lender, Principal) /\ Held(U, Borrower, Principal) = Held(V, Borrower, Principal)
        /\ Held(U, Diamond, Principal) = Held(V, Diamond, Principal)
    <3>1. \A r \in Holders : Held(U, r, Principal) = Held(V, r, Principal) + 0 + 0
      BY <2>1, <2>2
    <3> QED BY <2>4, <3>1 DEF Holders
  <2>6. /\ Pot(U, Principal) = U.wallet[<<Outside, Principal>>] + Held(V, Lender, Principal)
                                    + Held(V, Borrower, Principal) + Held(V, Diamond, Principal)
        /\ Pot(V, Principal) = V.wallet[<<Outside, Principal>>] + Held(V, Lender, Principal)
                                    + Held(V, Borrower, Principal) + Held(V, Diamond, Principal)
    BY <2>5 DEF Pot
  <2> DEFINE o == U.wallet[<<Outside, Principal>>]
             w == V.wallet[<<Outside, Principal>>]
             l == Held(V, Lender, Principal)
             b == Held(V, Borrower, Principal)
             d == Held(V, Diamond, Principal)
  <2>7. o + l + b + d = w + l + b + d
    BY <2>3, <2>6
  <2>8. o \in Int /\ w \in Int /\ l \in Int /\ b \in Int /\ d \in Int
    BY <2>4
  <2> HIDE DEF o, w, l, b, d
  <2>9. o = w
    BY ONLY <2>7, <2>8
  <2> QED BY <2>9 DEF o, w
<1>5. SamePot(U, W) /\ Ok(W)
  BY <1>1, <1>2, <1>4, Cast, TransferGoes
<1> QED BY <1>2, <1>3, <1>5, SamePotTwice

-----------------------------------------------------------------------------
(* The call has gone through so far, with P of the principal and C of the  *)
(* collateral in all.                                                      *)
Fine(V, P, C) == Ok(V) /\ Pot(V, Principal) = P /\ Pot(V, Collateral) = C

LEMMA StaysFine ==
    ASSUME NEW V, NEW W, NEW P, NEW C, Fine(V, P, C), SamePot(V, W), Ok(W)
    PROVE  Fine(W, P, C)
BY Cast DEF Fine, SamePot

LEMMA GuardRuns ==
    ASSUME NEW V, Fit(V), NEW P, NEW C, Fine(V, P, C), NEW p \in BOOLEAN, p
    PROVE  Fine(Guarded(V, p), P, C)
<1>1. Ok(V)
  BY DEF Fine
<1>2. SamePot(V, Guarded(V, p)) /\ Ok(Guarded(V, p))
  BY <1>1, GuardedGoes
<1> QED BY <1>2, StaysFine

LEMMA ReleaseLienRuns ==
    ASSUME NEW V, Fit(V), NEW P, NEW C, Fine(V, P, C)
    PROVE  Fine(ReleaseLien(V), P, C)
<1>1. Ok(V)
  BY DEF Fine
<1>2. Ok(ReleaseLien(V))
  BY <1>1, ReleaseLienGoes
<1>3. SamePot(V, ReleaseLien(V))
  BY OnPot DEF ReleaseLien
<1> QED BY <1>2, <1>3, StaysFine

LEMMA LowerLienRuns ==
    ASSUME NEW V, Fit(V), NEW P, NEW C, Fine(V, P, C), NEW x \in Nat, x <= LienAmount(V)
    PROVE  Fine(LowerLien(V, x), P, C)
<1>1. Ok(V)
  BY DEF Fine
<1>2. Ok(LowerLien(V, x))
  BY <1>1, LowerLienGoes
<1>3. SamePot(V, LowerLien(V, x))
  BY OnPot DEF LowerLien
<1> QED BY <1>2, <1>3, StaysFine

LEMMA RaiseLienRuns ==
    ASSUME NEW V, Fit(V), NEW P, NEW C, Fine(V, P, C), NEW x \in Nat
    PROVE  Fine(RaiseLien(V, x), P, C)
<1>1. Ok(V)
  BY DEF Fine
<1>2. Ok(RaiseLien(V, x))
  BY <1>1, RaiseLienGoes
<1>3. SamePot(V, RaiseLien(V, x))
  BY OnPot DEF RaiseLien
<1> QED BY <1>2, <1>3, StaysFine

LEMMA ReserveRuns ==
    ASSUME NEW V, Fit(V), NEW P, NEW C, Fine(V, P, C), NEW e \in Lanes, NEW x \in Nat
    PROVE  Fine(Reserve(V, e, LaneParty(e), LaneAsset(e), x), P, C)
<1> DEFINE W == Reserve(V, e, LaneParty(e), LaneAsset(e), x)
<1>1. Ok(V)
  BY DEF Fine
<1>2. Ok(W)
  BY <1>1, ReserveGoes
<1>3. SamePot(V, W)
  BY OnPot DEF Reserve
<1> HIDE DEF W
<1> QED BY <1>2, <1>3, StaysFine DEF W

LEMMA ReserveVpfiLenderRuns ==
    ASSUME NEW V, Fit(V), NEW P, NEW C, Fine(V, P, C), NEW a \in Assets, NEW x \in Nat
    PROVE  Fine(ReserveVpfi(V, "lenderProceeds", Lender, a, x), P, C)
<1>1. Fine(Reserve(V, "lenderProceeds", Lender, Vpfi, x), P, C)
  BY ReserveRuns DEF LaneParty, LaneAsset, Lanes
<1> QED BY <1>1 DEF ReserveVpfi

LEMMA ReserveVpfiBorrowerRuns ==
    ASSUME NEW V, Fit(V), NEW P, NEW C, Fine(V, P, C), NEW x \in Nat
    PROVE  Fine(ReserveVpfi(V, "borrowerProceeds", Borrower, Principal, x), P, C)
<1>1. Fine(Reserve(V, "borrowerProceeds", Borrower, Principal, x), P, C)
  BY ReserveRuns DEF LaneParty, LaneAsset, Lanes
<1> QED BY <1>1 DEF ReserveVpfi

LEMMA ReserveHeldRuns ==
    ASSUME NEW V, Fit(V), NEW P, NEW C, Fine(V, P, C), NEW x \in Nat
    PROVE  Fine(Reserve(V, "heldForLender", Lender, Principal, x), P, C)
BY ReserveRuns DEF LaneParty, LaneAsset, Lanes

LEMMA ReserveBorrowerRuns ==
    ASSUME NEW V, Fit(V), NEW P, NEW C, Fine(V, P, C), NEW x \in Nat
    PROVE  Fine(Reserve(V, "borrowerProceeds", Borrower, Principal, x), P, C)
BY ReserveRuns DEF LaneParty, LaneAsset, Lanes

LEMMA ReleaseRuns ==
    ASSUME NEW V, Fit(V), NEW P, NEW C, Fine(V, P, C)
    PROVE  /\ Fine(Release(V, "lenderProceeds", Lender), P, C)
           /\ Fine(Release(V, "heldForLender", Lender), P, C)
           /\ Fine(Release(V, "borrowerProceeds", Borrower), P, C)
<1>1. ASSUME NEW e \in Lanes PROVE Fine(Release(V, e, LaneParty(e)), P, C)
  <2> DEFINE W == Release(V, e, LaneParty(e))
  <2>1. Ok(V)
    BY DEF Fine
  <2>2. Ok(W)
    BY <2>1, ReleaseGoes
  <2>3. SamePot(V, W)
    BY OnPot DEF Release
  <2> HIDE DEF W
  <2> QED BY <2>2, <2>3, StaysFine DEF W
<1> QED BY <1>1 DEF LaneParty, Lanes

(* What the others and the Diamond have, and what of the vaults is free.   *)
LEMMA Others ==
    ASSUME NEW V, NEW lp, NEW lc, NEW bp, NEW bc, NEW dp, NEW dc, NEW k, NEW rl, NEW rh, NEW rb,
           Stand(V, lp, lc, bp, bc, dp, dc, k, rl, rh, rb), NEW P, NEW C, Fine(V, P, C)
    PROVE  /\ Fit(V) /\ Ok(V) /\ P \in Int /\ C \in Int
           /\ V.wallet[<<Outside, Principal>>] = P - lp - bp - dp
           /\ V.wallet[<<Outside, Collateral>>] = C - lc - bc - dc
           /\ V.wallet[<<Diamond, Principal>>] = dp /\ V.wallet[<<Diamond, Collateral>>] = dc
           /\ \A x \in Int : x <= bc - k => x <= Free(V, Borrower, Collateral)
           /\ \A x \in Int : x <= bp - rb => x <= Free(V, Borrower, Principal)
           /\ rl = 0 /\ rh = 0 => \A x \in Int : (x <= lp => x <= Free(V, Lender, Principal))
                                                /\ (x <= lc => x <= Free(V, Lender, Collateral))
<1>1. Fit(V) /\ Ok(V)
  BY DEF Stand, Fine
<1>2. {lp, lc, bp, bc, dp, dc} \subseteq Int /\ {k, rl, rh, rb} \subseteq Nat
  BY StandTypes
<1>3. /\ Held(V, Lender, Principal) = lp /\ Held(V, Lender, Collateral) = lc
      /\ Held(V, Borrower, Principal) = bp /\ Held(V, Borrower, Collateral) = bc
      /\ Held(V, Diamond, Principal) = dp /\ Held(V, Diamond, Collateral) = dc
  BY Cast DEF Stand, Amt
<1>4. /\ V.wallet[<<Outside, Principal>>] \in Int /\ V.wallet[<<Outside, Collateral>>] \in Int
      /\ V.wallet[<<Diamond, Principal>>] = dp /\ V.wallet[<<Diamond, Collateral>>] = dc
  BY <1>1, <1>3, PotTypes, Cast
<1>5. P = V.wallet[<<Outside, Principal>>] + lp + bp + dp /\ C = V.wallet[<<Outside, Collateral>>] + lc + bc + dc
  BY <1>3 DEF Fine, Pot
<1>6. /\ P \in Int /\ C \in Int
      /\ V.wallet[<<Outside, Principal>>] = P - lp - bp - dp /\ V.wallet[<<Outside, Collateral>>] = C - lc - bc - dc
  BY <1>2, <1>4, <1>5
<1>7. LienAmount(V) = k /\ Lane(V, "lenderProceeds").amount = rl /\ Lane(V, "heldForLender").amount = rh
      /\ Lane(V, "borrowerProceeds").amount = rb
  BY DEF Stand
<1>8. Tied(V, Borrower, Collateral) = k /\ Tied(V, Borrower, Principal) = rb
  BY <1>2, <1>7, Cast DEF Tied
<1>9. ASSUME rl = 0, rh = 0 PROVE Tied(V, Lender, Principal) = 0 /\ Tied(V, Lender, Collateral) = 0
  BY <1>7, <1>9, Cast DEF Tied
<1>10. ASSUME NEW x \in Int, x <= bc - k PROVE x <= Free(V, Borrower, Collateral)
  BY <1>1, <1>3, <1>8, <1>10, FreeOf, Cast
<1>11. ASSUME NEW x \in Int, x <= bp - rb PROVE x <= Free(V, Borrower, Principal)
  BY <1>1, <1>3, <1>8, <1>11, FreeOf, Cast
<1>12. ASSUME rl = 0, rh = 0, NEW x \in Int
       PROVE  (x <= lp => x <= Free(V, Lender, Principal)) /\ (x <= lc => x <= Free(V, Lender, Collateral))
  <2>1. Held(V, Lender, Principal) - Tied(V, Lender, Principal) = lp
    BY <1>2, <1>3, <1>9, <1>12
  <2>2. Held(V, Lender, Collateral) - Tied(V, Lender, Collateral) = lc
    BY <1>2, <1>3, <1>9, <1>12
  <2>3. x <= lp => x <= Free(V, Lender, Principal)
    BY <1>1, <2>1, FreeOf, Cast
  <2>4. x <= lc => x <= Free(V, Lender, Collateral)
    BY <1>1, <2>2, FreeOf, Cast
  <2> QED BY <2>3, <2>4
<1> QED BY <1>1, <1>4, <1>6, <1>10, <1>11, <1>12

LEMMA PullRuns ==
    ASSUME NEW V, NEW lp, NEW lc, NEW bp, NEW bc, NEW dp, NEW dc, NEW k, NEW rl, NEW rh, NEW rb,
           Stand(V, lp, lc, bp, bc, dp, dc, k, rl, rh, rb), NEW P, NEW C, Fine(V, P, C),
           NEW x \in Int, NEW y \in Int, x <= bc - k, 0 <= dc + y
    PROVE  Fine(PullToDiamond(V, Collateral, x, y), P, C)
<1> DEFINE W == PullToDiamond(V, Collateral, x, y)
<1>1. /\ Fit(V) /\ Ok(V) /\ P \in Int /\ C \in Int /\ {lp, lc, bp, bc, dp, dc} \subseteq Int
      /\ V.wallet[<<Outside, Principal>>] = P - lp - bp - dp
      /\ V.wallet[<<Outside, Collateral>>] = C - lc - bc - dc
      /\ V.wallet[<<Diamond, Principal>>] = dp /\ V.wallet[<<Diamond, Collateral>>] = dc
  BY Others, StandTypes
<1>2. x <= Free(V, Borrower, Collateral)
  BY Others
<1>9. SamePot(V, W) /\ Ok(W)
  BY <1>1, <1>2, Cast, PullGoes
<1> HIDE DEF W
<1> QED BY <1>9, StaysFine DEF W

LEMMA LockPrincipalRuns ==
    ASSUME NEW V, NEW lp, NEW lc, NEW bp, NEW bc, NEW dp, NEW dc, NEW k, NEW rl, NEW rh, NEW rb,
           Stand(V, lp, lc, bp, bc, dp, dc, k, rl, rh, rb), NEW P, NEW C, Fine(V, P, C),
           NEW u \in {Lender, Borrower}, NEW x \in Int, NEW y \in Nat, x <= dp
    PROVE  Fine(DepositLocked(V, u, Principal, x, y), P, C)
<1> DEFINE W == DepositLocked(V, u, Principal, x, y)
<1>1. /\ Fit(V) /\ Ok(V) /\ P \in Int /\ C \in Int /\ {lp, lc, bp, bc, dp, dc} \subseteq Int
      /\ V.wallet[<<Outside, Principal>>] = P - lp - bp - dp
      /\ V.wallet[<<Outside, Collateral>>] = C - lc - bc - dc
      /\ V.wallet[<<Diamond, Principal>>] = dp /\ V.wallet[<<Diamond, Collateral>>] = dc
  BY Others, StandTypes
<1>9. SamePot(V, W) /\ Ok(W)
  BY <1>1, Cast, LockGoes
<1> HIDE DEF W
<1> QED BY <1>9, StaysFine DEF W

LEMMA LockCollateralRuns ==
    ASSUME NEW V, NEW lp, NEW lc, NEW bp, NEW bc, NEW dp, NEW dc, NEW k, NEW rl, NEW rh, NEW rb,
           Stand(V, lp, lc, bp, bc, dp, dc, k, rl, rh, rb), NEW P, NEW C, Fine(V, P, C),
           NEW x \in Int, NEW y \in Nat, x <= dc
    PROVE  Fine(DepositLocked(V, Borrower, Collateral, x, y), P, C)
<1> DEFINE W == DepositLocked(V, Borrower, Collateral, x, y)
<1>1. /\ Fit(V) /\ Ok(V) /\ P \in Int /\ C \in Int /\ {lp, lc, bp, bc, dp, dc} \subseteq Int
      /\ V.wallet[<<Outside, Principal>>] = P - lp - bp - dp
      /\ V.wallet[<<Outside, Collateral>>] = C - lc - bc - dc
      /\ V.wallet[<<Diamond, Principal>>] = dp /\ V.wallet[<<Diamond, Collateral>>] = dc
  BY Others, StandTypes
<1>9. SamePot(V, W) /\ Ok(W)
  BY <1>1, Cast, LockGoes
<1> HIDE DEF W
<1> QED BY <1>9, StaysFine DEF W

LEMMA FromVaultLenderRuns ==
    ASSUME NEW V, NEW lp, NEW lc, NEW bp, NEW bc, NEW dp, NEW dc, NEW k, NEW rl, NEW rh, NEW rb,
           Stand(V, lp, lc, bp, bc, dp, dc, k, rl, rh, rb), NEW P, NEW C, Fine(V, P, C),
           NEW x \in Int, NEW y \in Int, x <= bc - k, y <= x, lc + bc + dc <= C
    PROVE  Fine(DepositFromVault(V, Lender, Collateral, x, y), P, C)
<1> DEFINE W == DepositFromVault(V, Lender, Collateral, x, y)
<1>1. /\ Fit(V) /\ Ok(V) /\ P \in Int /\ C \in Int /\ {lp, lc, bp, bc, dp, dc} \subseteq Int
      /\ V.wallet[<<Outside, Principal>>] = P - lp - bp - dp
      /\ V.wallet[<<Outside, Collateral>>] = C - lc - bc - dc
      /\ V.wallet[<<Diamond, Principal>>] = dp /\ V.wallet[<<Diamond, Collateral>>] = dc
  BY Others, StandTypes
<1>2. x <= Free(V, Borrower, Collateral)
  BY Others
<1>3. y <= V.wallet[<<Outside, Collateral>>] + x
  BY <1>1
<1>9. SamePot(V, W) /\ Ok(W)
  BY <1>1, <1>2, <1>3, Cast, FromVaultGoes
<1> HIDE DEF W
<1> QED BY <1>9, StaysFine DEF W

LEMMA SwapRuns ==
    ASSUME NEW V, NEW lp, NEW lc, NEW bp, NEW bc, NEW dp, NEW dc, NEW k, NEW rl, NEW rh, NEW rb,
           Stand(V, lp, lc, bp, bc, dp, dc, k, rl, rh, rb), NEW P, NEW C, Fine(V, P, C),
           NEW x \in Int, NEW y \in Int, x <= dc, y <= P - lp - bp - dp
    PROVE  Fine(Swapped(V, x, y), P, C)
<1> DEFINE W == Swapped(V, x, y)
<1>1. /\ Fit(V) /\ Ok(V) /\ P \in Int /\ C \in Int /\ {lp, lc, bp, bc, dp, dc} \subseteq Int
      /\ V.wallet[<<Outside, Principal>>] = P - lp - bp - dp
      /\ V.wallet[<<Outside, Collateral>>] = C - lc - bc - dc
      /\ V.wallet[<<Diamond, Principal>>] = dp /\ V.wallet[<<Diamond, Collateral>>] = dc
  BY Others, StandTypes
<1>9. SamePot(V, W) /\ Ok(W)
  BY <1>1, SwapGoes
<1> HIDE DEF W
<1> QED BY <1>9, StaysFine DEF W

LEMMA TransferRuns ==
    ASSUME NEW V, NEW lp, NEW lc, NEW bp, NEW bc, NEW dp, NEW dc, NEW k, NEW rl, NEW rh, NEW rb,
           Stand(V, lp, lc, bp, bc, dp, dc, k, rl, rh, rb), NEW P, NEW C, Fine(V, P, C),
           NEW x \in Int, x <= dp
    PROVE  Fine(Transfer(V, Diamond, Outside, Principal, x), P, C)
<1> DEFINE W == Transfer(V, Diamond, Outside, Principal, x)
<1>1. /\ Fit(V) /\ Ok(V) /\ P \in Int /\ C \in Int /\ {lp, lc, bp, bc, dp, dc} \subseteq Int
      /\ V.wallet[<<Outside, Principal>>] = P - lp - bp - dp
      /\ V.wallet[<<Outside, Collateral>>] = C - lc - bc - dc
      /\ V.wallet[<<Diamond, Principal>>] = dp /\ V.wallet[<<Diamond, Collateral>>] = dc
  BY Others, StandTypes
<1>9. SamePot(V, W) /\ Ok(W)
  BY <1>1, Cast, TransferGoes
<1> HIDE DEF W
<1> QED BY <1>9, StaysFine DEF W

LEMMA DepositLenderRuns ==
    ASSUME NEW V, NEW lp, NEW lc, NEW bp, NEW bc, NEW dp, NEW dc, NEW k, NEW rl, NEW rh, NEW rb,
           Stand(V, lp, lc, bp, bc, dp, dc, k, rl, rh, rb), NEW P, NEW C, Fine(V, P, C),
           NEW x \in Int, x <= P - lp - bp - dp
    PROVE  Fine(VaultDepositERC20From(V, Outside, Lender, Principal, x), P, C)
<1> DEFINE W == VaultDepositERC20From(V, Outside, Lender, Principal, x)
<1>1. /\ Fit(V) /\ Ok(V) /\ P \in Int /\ C \in Int /\ {lp, lc, bp, bc, dp, dc} \subseteq Int
      /\ V.wallet[<<Outside, Principal>>] = P - lp - bp - dp
      /\ V.wallet[<<Outside, Collateral>>] = C - lc - bc - dc
      /\ V.wallet[<<Diamond, Principal>>] = dp /\ V.wallet[<<Diamond, Collateral>>] = dc
  BY Others, StandTypes
<1>2. SamePot(V, W) /\ Ok(W) = (Ok(V) /\ x <= V.wallet[<<Outside, Principal>>])
  BY <1>1, Cast, DepositGoes
<1> HIDE DEF W
<1>9. SamePot(V, W) /\ Ok(W)
  BY <1>1, <1>2
<1> QED BY <1>9, StaysFine DEF W

LEMMA WithdrawCollateralRuns ==
    ASSUME NEW V, NEW lp, NEW lc, NEW bp, NEW bc, NEW dp, NEW dc, NEW k, NEW rl, NEW rh, NEW rb,
           Stand(V, lp, lc, bp, bc, dp, dc, k, rl, rh, rb), NEW P, NEW C, Fine(V, P, C),
           NEW x \in Int, x <= bc - k
    PROVE  Fine(VaultWithdrawERC20(V, Borrower, Collateral, Outside, x), P, C)
<1> DEFINE W == VaultWithdrawERC20(V, Borrower, Collateral, Outside, x)
<1>1. /\ Fit(V) /\ Ok(V) /\ P \in Int /\ C \in Int /\ {lp, lc, bp, bc, dp, dc} \subseteq Int
      /\ V.wallet[<<Outside, Principal>>] = P - lp - bp - dp
      /\ V.wallet[<<Outside, Collateral>>] = C - lc - bc - dc
      /\ V.wallet[<<Diamond, Principal>>] = dp /\ V.wallet[<<Diamond, Collateral>>] = dc
  BY Others, StandTypes
<1>2. x <= Free(V, Borrower, Collateral)
  BY Others
<1>9. SamePot(V, W) /\ Ok(W)
  BY <1>1, <1>2, Cast, WithdrawGoes
<1> HIDE DEF W
<1> QED BY <1>9, StaysFine DEF W

LEMMA PaidBorrowerCollateralRuns ==
    ASSUME NEW V, NEW lp, NEW lc, NEW bp, NEW bc, NEW dp, NEW dc, NEW k, NEW rl, NEW rh, NEW rb,
           Stand(V, lp, lc, bp, bc, dp, dc, k, rl, rh, rb), NEW P, NEW C, Fine(V, P, C),
           NEW x \in Int, x <= bc - k
    PROVE  Fine(PaidOut(V, Borrower, Collateral, x), P, C)
<1> DEFINE W == PaidOut(V, Borrower, Collateral, x)
<1>1. /\ Fit(V) /\ Ok(V) /\ P \in Int /\ C \in Int /\ {lp, lc, bp, bc, dp, dc} \subseteq Int
      /\ V.wallet[<<Outside, Principal>>] = P - lp - bp - dp
      /\ V.wallet[<<Outside, Collateral>>] = C - lc - bc - dc
      /\ V.wallet[<<Diamond, Principal>>] = dp /\ V.wallet[<<Diamond, Collateral>>] = dc
  BY Others, StandTypes
<1>2. x <= Free(V, Borrower, Collateral)
  BY Others
<1>9. SamePot(V, W) /\ Ok(W)
  BY <1>1, <1>2, Cast, WithdrawGoes DEF PaidOut, SamePot
<1> HIDE DEF W
<1> QED BY <1>9, StaysFine DEF W

LEMMA PaidBorrowerPrincipalRuns ==
    ASSUME NEW V, NEW lp, NEW lc, NEW bp, NEW bc, NEW dp, NEW dc, NEW k, NEW rl, NEW rh, NEW rb,
           Stand(V, lp, lc, bp, bc, dp, dc, k, rl, rh, rb), NEW P, NEW C, Fine(V, P, C),
           NEW x \in Int, x <= bp - rb
    PROVE  Fine(PaidOut(V, Borrower, Principal, x), P, C)
<1> DEFINE W == PaidOut(V, Borrower, Principal, x)
<1>1. /\ Fit(V) /\ Ok(V) /\ P \in Int /\ C \in Int /\ {lp, lc, bp, bc, dp, dc} \subseteq Int
      /\ V.wallet[<<Outside, Principal>>] = P - lp - bp - dp
      /\ V.wallet[<<Outside, Collateral>>] = C - lc - bc - dc
      /\ V.wallet[<<Diamond, Principal>>] = dp /\ V.wallet[<<Diamond, Collateral>>] = dc
  BY Others, StandTypes
<1>2. x <= Free(V, Borrower, Principal)
  BY Others
<1>9. SamePot(V, W) /\ Ok(W)
  BY <1>1, <1>2, Cast, WithdrawGoes DEF PaidOut, SamePot
<1> HIDE DEF W
<1> QED BY <1>9, StaysFine DEF W

LEMMA PaidLenderRuns ==
    ASSUME NEW V, NEW lp, NEW lc, NEW bp, NEW bc, NEW dp, NEW dc, NEW k, NEW rl, NEW rh, NEW rb,
           Stand(V, lp, lc, bp, bc, dp, dc, k, rl, rh, rb), NEW P, NEW C, Fine(V, P, C),
           NEW a \in {Principal, Collateral}, NEW x \in Int, rl = 0, rh = 0, x <= Amt(a, lp, lc)
    PROVE  Fine(PaidOut(V, Lender, a, x), P, C)
<1> DEFINE W == PaidOut(V, Lender, a, x)
<1>1. /\ Fit(V) /\ Ok(V) /\ P \in Int /\ C \in Int /\ {lp, lc, bp, bc, dp, dc} \subseteq Int
      /\ V.wallet[<<Outside, Principal>>] = P - lp - bp - dp
      /\ V.wallet[<<Outside, Collateral>>] = C - lc - bc - dc
      /\ V.wallet[<<Diamond, Principal>>] = dp /\ V.wallet[<<Diamond, Collateral>>] = dc
  BY Others, StandTypes
<1>2. x <= Free(V, Lender, a)
  <2>1. (x <= lp => x <= Free(V, Lender, Principal)) /\ (x <= lc => x <= Free(V, Lender, Collateral))
    BY Others
  <2> QED BY <2>1, Cast DEF Amt
<1>9. SamePot(V, W) /\ Ok(W)
  BY <1>1, <1>2, Cast, WithdrawGoes DEF PaidOut, SamePot
<1> HIDE DEF W
<1> QED BY <1>9, StaysFine DEF W

-----------------------------------------------------------------------------
(* The sale goes through.                                                  *)

LEMMA LenderBookedRuns ==
    ASSUME NEW S, NEW lp, NEW lc, NEW bp, NEW bc, NEW dp, NEW dc, NEW k, NEW rl, NEW rh, NEW rb,
           StandsAt(S, lp, lc, bp, bc, dp, dc, k, rl, rh, rb), NEW P, NEW C, Fine(S.v, P, C),
           NEW x \in Nat, x <= dp, NEW T \in LenderBooked(S, x)
    PROVE  Fine(T.v, P, C)
<1>0. S \in State /\ Stand(S.v, lp, lc, bp, bc, dp, dc, k, rl, rh, rb)
  BY DEF StandsAt
<1>1. PICK y \in Delivered(Principal, x) :
         T = [S EXCEPT !.v = ReserveVpfi(DepositLocked(@, Lender, Principal, x, y),
                                         "lenderProceeds", Lender, Principal, y),
                       !.n.lenderClaim = Pays(Principal, y)]
  BY DEF LenderBooked
<1> DEFINE V == DepositLocked(S.v, Lender, Principal, x, y)
           W == ReserveVpfi(V, "lenderProceeds", Lender, Principal, y)
<1>2. y \in Nat
  BY DeliveredTypes, Cast
<1>3. Fit(V)
  <2>1. Stand(V, lp + y, lc, bp, bc, dp - x, dc, k, rl, rh, rb)
    BY <1>0, <1>2, LockLenderStand
  <2> QED BY <2>1 DEF Stand
<1>4. Fine(V, P, C)
  BY <1>0, <1>2, LockPrincipalRuns
<1>5. T.v = W
  BY <1>0, <1>1 DEF State
<1> HIDE DEF V
<1>6. Fine(W, P, C)
  BY <1>2, <1>3, <1>4, Cast, ReserveVpfiLenderRuns
<1> QED BY <1>5, <1>6

LEMMA HeldExtraRuns ==
    ASSUME NEW S, NEW lp, NEW lc, NEW bp, NEW bc, NEW dp, NEW dc, NEW k, NEW rl, NEW rh, NEW rb,
           StandsAt(S, lp, lc, bp, bc, dp, dc, k, rl, rh, rb), NEW P, NEW C, Fine(S.v, P, C),
           SurplusOpen(S), NEW x \in Nat, x <= dp, NEW T \in HeldExtra(S, x)
    PROVE  Fine(T.v, P, C)
<1>0. S \in State /\ Stand(S.v, lp, lc, bp, bc, dp, dc, k, rl, rh, rb) /\ ~ S.n.surplus.claimed
  BY DEF StandsAt, SurplusOpen
<1>1. PICK y \in Delivered(Principal, x) : T = HoldBorrowerExtra(S, x, y)
  BY DEF HeldExtra
<1> DEFINE V == DepositLocked(S.v, Borrower, Principal, x, y)
           p == ~ S.n.surplus.claimed
           G == Guarded(V, p)
           W == Reserve(G, "borrowerProceeds", Borrower, Principal, y)
<1>2. y \in Nat
  BY DeliveredTypes, Cast
<1>3. Stand(V, lp, lc, bp + y, bc, dp - x, dc, k, rl, rh, rb)
  BY <1>0, <1>2, LockBorrowerStand
<1>4. Fine(V, P, C) /\ Fit(V)
  BY <1>0, <1>2, <1>3, LockPrincipalRuns DEF Stand
<1>5. T.v = IF y = 0 THEN V ELSE W
  BY <1>0, <1>1 DEF HoldBorrowerExtra, State
<1>6. p \in BOOLEAN /\ p
  BY <1>0
<1> HIDE DEF V, p
<1>7. Fine(G, P, C)
  BY <1>4, <1>6, GuardRuns
<1>8. Fit(G)
  <2>1. Stand(G, lp, lc, bp + y, bc, dp - x, dc, k, rl, rh, rb)
    BY <1>3, <1>6, GuardStand
  <2> QED BY <2>1 DEF Stand
<1> HIDE DEF G
<1>9. Fine(W, P, C)
  BY <1>2, <1>7, <1>8, ReserveBorrowerRuns
<1> HIDE DEF W
<1> QED BY <1>4, <1>5, <1>9

LEMMA OpenSaleRuns ==
    ASSUME NEW S, NEW lp, NEW lc, NEW bp, NEW bc, NEW dp, NEW dc, NEW k, NEW rl, NEW rh, NEW rb,
           StandsAt(S, lp, lc, bp, bc, dp, dc, k, rl, rh, rb), NEW P, NEW C, Fine(S.v, P, C),
           NEW q \in Nat, NEW r \in Nat, q <= k, k <= bc, 0 <= dc
    PROVE  Fine(OpenSale(S, q, r).v, P, C)
<1> DEFINE V == LowerLien(S.v, q)
           W == PullToDiamond(V, Collateral, q, r)
           m == k - q
<1>0. S \in State /\ Stand(S.v, lp, lc, bp, bc, dp, dc, k, rl, rh, rb)
  BY DEF StandsAt
<1>1. Stand(V, lp, lc, bp, bc, dp, dc, m, rl, rh, rb)
  BY <1>0, LowerLienStand
<1>2. OpenSale(S, q, r).v = W
  BY <1>0 DEF OpenSale, State
<1>3. Fine(V, P, C)
  <2>1. Fit(S.v) /\ LienAmount(S.v) = k
    BY <1>0 DEF Stand
  <2> QED BY <2>1, LowerLienRuns
<1>4. q <= bc - m /\ 0 <= dc + r /\ q \in Int /\ r \in Int
  <2>1. k \in Nat /\ bc \in Int /\ dc \in Int
    BY <1>0, StandTypes
  <2> QED BY <2>1
<1> HIDE DEF V, m
<1>5. Fine(W, P, C)
  BY <1>1, <1>3, <1>4, PullRuns
<1> QED BY <1>2, <1>5

LEMMA BookTerminalRuns ==
    ASSUME NEW S, NEW lp, NEW lc, NEW bp, NEW bc, NEW got \in Nat, NEW dc, NEW k, NEW rl, NEW rh, NEW rb,
           StandsAt(S, lp, lc, bp, bc, got, dc, k, rl, rh, rb), NEW P, NEW C, Fine(S.v, P, C),
           SurplusOpen(S), NEW d \in Nat, NEW p \in Splits(d, got), NEW T \in BookTerminal(S, got, p)
    PROVE  Fine(T.v, P, C)
<1>i. S \in State /\ Stand(S.v, lp, lc, bp, bc, got, dc, k, rl, rh, rb)
  BY DEF StandsAt
<1> DEFINE Taxed(t) == [S EXCEPT !.v = Transfer(@, Diamond, Outside, Principal,
                                                got - p.lender - p.extra + t)]
<1>1. \E t \in 0..AtMost(MaxFee, Excess(p.lender, S.n.principal)) :
        \E R \in LenderBooked(Taxed(t), p.lender - t) : T \in HeldExtra(R, p.extra)
  BY DEF BookTerminal
<1>0. PICK t \in 0..AtMost(MaxFee, Excess(p.lender, S.n.principal)) :
        \E R \in LenderBooked(Taxed(t), p.lender - t) : T \in HeldExtra(R, p.extra)
  BY <1>1
<1>e. p.lender \in Nat /\ p.extra \in Nat /\ p.lender + p.extra <= got
  BY SplitTypes
<1>2. t \in Nat /\ t <= p.lender /\ p.lender - t \in Nat
  <2>1. S.n.principal \in Nat /\ MaxFee \in Nat
    BY <1>i, FallbackLoanAssumption DEF State, Loan
  <2> QED BY <1>e, <2>1 DEF AtMost, Excess
<1> DEFINE Q == Taxed(t)
           w == got - p.lender - p.extra + t
           V == Transfer(S.v, Diamond, Outside, Principal, w)
<1>3. Q.v = V /\ Q.n = S.n /\ Q = [v |-> Q.v, n |-> Q.n]
  BY <1>i DEF State
<1>4. w \in Int /\ w <= got /\ got - w = p.lender + p.extra - t
  BY <1>e, <1>2
<1> HIDE DEF w
<1>5. Stand(V, lp, lc, bp, bc, got - w, dc, k, rl, rh, rb) /\ Fine(V, P, C)
  BY <1>i, <1>4, TransferStand, TransferRuns
<1>6. V \in Vaults
  BY <1>5, FitTypes DEF Stand
<1> HIDE DEF V
<1>7. Q \in State
  BY <1>i, <1>3, <1>6 DEF State
<1>8. PICK R \in LenderBooked(Q, p.lender - t) : T \in HeldExtra(R, p.extra)
  BY <1>0
<1> HIDE DEF Q, Taxed
<1> DEFINE x == p.lender - t
           e == p.extra
           o == p.lender + p.extra - t
           u == o - x
<1>9. x \in Nat /\ x <= o /\ e \in Nat /\ e <= u
  BY <1>e, <1>2
<1>a. o = got - w
  BY <1>4
<1>b. StandsAt(Q, lp, lc, bp, bc, o, dc, k, rl, rh, rb) /\ R \in LenderBooked(Q, x) /\ T \in HeldExtra(R, e)
      /\ Fine(Q.v, P, C)
  BY <1>3, <1>5, <1>7, <1>8, <1>a DEF StandsAt
<1> HIDE DEF x, e, o, u
<1>10. PICK y : /\ Within(y, x) /\ Booked(Q, R, y)
                /\ StandsAt(R, lp + y, lc, bp, bc, o - x, dc, k, rl + IfVpfi(Principal, y), rh, rb)
  BY <1>9, <1>b, LenderBookedStand
<1>11. Fine(R.v, P, C)
  BY <1>9, <1>b, LenderBookedRuns
<1> DEFINE mp == lp + y
           ml == rl + IfVpfi(Principal, y)
<1>12. StandsAt(R, mp, lc, bp, bc, u, dc, k, ml, rh, rb)
  BY <1>10 DEF u
<1>13. SurplusOpen(R)
  <2>2. R.n = [S.n EXCEPT !.lenderClaim = Pays(Principal, y)]
    BY <1>3, <1>10 DEF Booked
  <2>3. R.n.surplus = S.n.surplus
    BY <1>i, <2>2 DEF State, Loan
  <2> QED BY <2>3 DEF SurplusOpen
<1> HIDE DEF mp, ml
<1> QED BY <1>9, <1>b, <1>11, <1>12, <1>13, HeldExtraRuns

(* A swap pays for the sale out of what the others have of the principal.  *)
LEMMA SaleSettledRuns ==
    ASSUME NEW S, NEW h, NEW s, NEW c, OpenOver(S, h, s, c),
           NEW q \in Nat, NEW r \in Nat, q <= c, NEW rl, NEW rh, NEW rb,
           NEW rest, rest = c - q, StandsAt(S, h, 0, s, rest, 0, r, rest, rl, rh, rb),
           NEW P, NEW C, Fine(S.v, P, C), h + s + MaxProceeds <= P,
           NEW T \in SaleSettled(S, q, r)
    PROVE  Fine(T.v, P, C)
<1> DEFINE Yielded(got) == [S EXCEPT !.v = Swapped(@, r, got)]
<1>1. PICK d \in Debts(S.n), got \in 0..MaxProceeds :
         \E p \in Splits(d, got) : \E R \in BookTerminal(Yielded(got), got, p) : T = RecordUnsold(R, q, r)
  BY DEF SaleSettled
<1>2. PICK p \in Splits(d, got) :
         \E R \in BookTerminal(Yielded(got), got, p) : T = RecordUnsold(R, q, r)
  BY <1>1
<1>3. S \in State /\ Stand(S.v, h, 0, s, rest, 0, r, rest, rl, rh, rb)
  BY DEF StandsAt
<1>4. h \in Nat /\ s \in Nat /\ c \in Nat /\ S.n.principal \in Nat /\ S.n \in Loan /\ SurplusOpen(S)
  BY <1>3, OpenOverTypes
<1>5. d \in Nat /\ got \in Nat /\ got <= P - h - s - 0
  <2>1. MaxProceeds \in Nat /\ MaxInterest \in Nat
    BY FallbackLoanAssumption
  <2>2. P \in Int
    BY <1>3, Others
  <2> QED BY <1>4, <2>1, <2>2 DEF Debts
<1> DEFINE Q == Yielded(got)
           V == Swapped(S.v, r, got)
<1>6. Q.v = V /\ Q.n = S.n /\ Q = [v |-> Q.v, n |-> Q.n]
  BY <1>3 DEF State
<1>7. PICK R \in BookTerminal(Q, got, p) : T = RecordUnsold(R, q, r)
  BY <1>2
<1>8. 0 + got = got /\ r - r = 0
  BY <1>5
<1> HIDE DEF Yielded, Q
<1>9. Stand(V, h, 0, s, rest, 0 + got, r - r, rest, rl, rh, rb)
  BY <1>3, <1>5, SwapStand
<1>10. Stand(V, h, 0, s, rest, got, 0, rest, rl, rh, rb) /\ Fine(V, P, C)
  BY <1>3, <1>5, <1>8, <1>9, SwapRuns
<1>11. V \in Vaults
  BY <1>10, FitTypes DEF Stand
<1> HIDE DEF V
<1>12. StandsAt(Q, h, 0, s, rest, got, 0, rest, rl, rh, rb) /\ SurplusOpen(Q) /\ Fine(Q.v, P, C)
  <2>1. Q \in State
    BY <1>4, <1>6, <1>11 DEF State
  <2> QED BY <1>4, <1>6, <1>10, <2>1 DEF StandsAt, SurplusOpen
<1>13. Fine(R.v, P, C)
  <2>1. got \in Nat /\ d \in Nat
    BY <1>5
  <2> QED BY <1>7, <1>12, <2>1, BookTerminalRuns
<1>14. R \in State
  <2>1. got \in Nat /\ d \in Nat
    BY <1>5
  <2>2. PICK y, z, O :
              /\ Within(y, got) /\ Within(z, got) /\ Booked(Q, O, y) /\ ExtraHeld(O, R, z) /\ O \in State
              /\ StandsAt(R, h + y, 0, s + z, rest, 0, 0, rest, rl + IfVpfi(Principal, y), rh, rb + z)
    BY <1>7, <1>12, <2>1, BookTerminalStand
  <2> QED BY <2>2 DEF StandsAt
<1>15. T.v = R.v
  BY <1>7, <1>14 DEF RecordUnsold, State
<1> QED BY <1>13, <1>15

-----------------------------------------------------------------------------
(* The fallback is entered.                                                *)

LEMMA CustodyRuns ==
    ASSUME NEW S, NEW lp, NEW lc, NEW bp, NEW bc, NEW dp, NEW dc, NEW k, NEW rl, NEW rh, NEW rb,
           StandsAt(S, lp, lc, bp, bc, dp, dc, k, rl, rh, rb), NEW P, NEW C, Fine(S.v, P, C),
           NEW x \in Nat, NEW y \in Nat, x <= dc
    PROVE  Fine(CustodyIntoVault(S, x, y).v, P, C)
<1> DEFINE V == DepositLocked(S.v, Borrower, Collateral, x, y)
           W == RaiseLien(V, y)
<1>1. S \in State /\ Stand(S.v, lp, lc, bp, bc, dp, dc, k, rl, rh, rb)
  BY DEF StandsAt
<1>2. Fit(V)
  <2>1. Stand(V, lp, lc, bp, bc + y, dp, dc - x, k, rl, rh, rb)
    BY <1>1, LockCollateralStand
  <2> QED BY <2>1 DEF Stand
<1>3. Fine(V, P, C)
  BY <1>1, LockCollateralRuns
<1>4. CustodyIntoVault(S, x, y).v = W
  <2>1. CustodyIntoVault(S, x, y) = [S EXCEPT !.v = W, !.n.custody = @ + y]
    BY DEF CustodyIntoVault
  <2> HIDE DEF W
  <2> QED BY <1>1, <2>1 DEF State
<1> HIDE DEF V
<1> QED BY <1>2, <1>3, <1>4, RaiseLienRuns

LEMMA RowRuns ==
    ASSUME NEW S \in State, Fit(S.v), NEW P, NEW C, Fine(S.v, P, C), SnapshotTotal(S.n) = S.n.custody
    PROVE  Fine(RequireSnapshotMatchesRow(S).v, P, C)
<1> DEFINE p == SnapshotTotal(S.n) = S.n.custody
           W == Guarded(S.v, p)
<1>1. RequireSnapshotMatchesRow(S).v = W /\ p \in BOOLEAN /\ p
  BY DEF RequireSnapshotMatchesRow, State
<1> HIDE DEF p
<1>2. Fine(W, P, C)
  BY <1>1, GuardRuns
<1> QED BY <1>1, <1>2

LEMMA EnterFallbackRuns ==
    ASSUME NEW S, NEW h, NEW s, NEW c, OpenOver(S, h, s, c), S.n.status = "Active",
           NEW rl, NEW rh, NEW rb,
           StandsAt(S, h, 0, s, 0, 0, c, 0, rl, rh, rb),
           NEW P, NEW C, Fine(S.v, P, C), NEW T \in EnterFallback(S)
    PROVE  /\ Fine(T.v, P, C)
           /\ T.n.principal = S.n.principal /\ T.n.held = h /\ T.n.surplus.amount = s
           /\ T.n.collateral \in 0..c
<1> DEFINE Credited(y)   == [CustodyIntoVault(S, S.n.collateral, y) EXCEPT !.n.collateral = y]
           Claims(R, e)  == [R EXCEPT !.n.snap = e,
                                      !.n.lenderClaim = Pays(Collateral, e.lender),
                                      !.n.borrowerClaim = PaysIfAny(Collateral, e.borrower),
                                      !.n.status = "FallbackPending"]
<1>0. T \in UNION {{RequireSnapshotMatchesRow(Claims(R, e)) : e \in Snapshots(R.n)} :
                     R \in {Credited(y) : y \in Delivered(Collateral, S.n.collateral)}}
  BY DEF EnterFallback
<1> HIDE DEF Claims, Credited
<1>1. PICK y \in Delivered(Collateral, S.n.collateral) :
         \E e \in Snapshots(Credited(y).n) : T = RequireSnapshotMatchesRow(Claims(Credited(y), e))
  BY <1>0
<1> USE DEF Claims, Credited
<1>2. S \in State
  BY DEF StandsAt
<1>3. h \in Nat /\ s \in Nat /\ c \in Nat /\ S.n \in Loan /\ SurplusOpen(S) /\ S.n.collateral = c
      /\ S.n.held = h /\ S.n.surplus.amount = s
  BY <1>2, OpenOverTypes DEF OpenOver
<1>4. y \in Nat /\ y <= c
  BY <1>1, <1>3, DeliveredTypes, Cast
<1> DEFINE D == CustodyIntoVault(S, c, y)
           R == Credited(y)
<1>5. D.n = [S.n EXCEPT !.custody = @ + y] /\ StandsAt(D, h, 0, s, 0 + y, 0, c - c, 0 + y, rl, rh, rb)
  BY <1>3, <1>4, CustodyStand
<1>6. Fine(D.v, P, C)
  <2> DEFINE e == c
  <2>1. StandsAt(S, h, 0, s, 0, 0, e, 0, rl, rh, rb) /\ c <= e
    BY <1>3
  <2> HIDE DEF e
  <2> QED BY <1>3, <1>4, <2>1, CustodyRuns
<1>7. S.n.custody = 0
  BY DEF OpenOver, Coherent
<1> HIDE DEF D
<1>8. D \in State /\ Fit(D.v)
  BY <1>5 DEF StandsAt, Stand
<1>9. R.v = D.v /\ R.n = [S.n EXCEPT !.custody = y, !.collateral = y] /\ R = [v |-> R.v, n |-> R.n]
  <2>1. R = [D EXCEPT !.n.collateral = y] /\ S.n.custody + y = y
    BY <1>3, <1>4, <1>7 DEF D
  <2>2. D.n = [S.n EXCEPT !.custody = y]
    BY <1>3, <1>5, <1>7, <2>1
  <2> HIDE DEF R
  <2> QED BY <1>3, <1>8, <2>1, <2>2 DEF State
<1>10. PICK e \in Snapshots(R.n) : T = RequireSnapshotMatchesRow(Claims(R, e))
  BY <1>1
<1> HIDE DEF R, Credited
<1>11. /\ e \in Snapshot /\ e.lender \in Nat /\ e.treasury \in Nat /\ e.borrower \in Nat
       /\ e.lender + e.treasury + e.borrower = y
  <2>1. R.n.collateral = y /\ R.n.principal = S.n.principal
    BY <1>3, <1>9 DEF Loan
  <2>2. PICK g \in Slices(y), d \in Debts(R.n), t \in 0..MaxFee :
           e = [lender |-> g.lender, treasury |-> g.treasury, borrower |-> g.borrower,
                lenderDue |-> d, treasuryDue |-> t, active |-> TRUE, retried |-> FALSE]
    BY <2>1 DEF Snapshots
  <2>3. g.lender \in Nat /\ g.treasury \in Nat /\ g.borrower \in Nat /\ g.lender + g.treasury + g.borrower = y
    BY <1>4 DEF Slices, AtMost
  <2>4. d \in Nat /\ t \in Nat
    <3>1. MaxInterest \in Nat /\ MaxFee \in Nat /\ S.n.principal \in Nat
      BY <1>3, FallbackLoanAssumption DEF Loan
    <3> QED BY <2>1, <3>1 DEF Debts
  <2> QED BY <2>2, <2>3, <2>4 DEF Snapshot
<1> DEFINE U == Claims(R, e)
           l == Pays(Collateral, e.lender)
           b == PaysIfAny(Collateral, e.borrower)
<1>12. l \in Claim /\ b \in Claim
  BY <1>11, ClaimTypes, Cast
<1>13. /\ U.v = D.v /\ U = [v |-> U.v, n |-> U.n]
       /\ U.n = [S.n EXCEPT !.custody = y, !.collateral = y, !.snap = e, !.lenderClaim = l,
                            !.borrowerClaim = b, !.status = "FallbackPending"]
  <2>1. R.n \in Loan
    BY <1>3, <1>4, <1>9 DEF Loan
  <2>3. U = [R EXCEPT !.n.snap = e, !.n.lenderClaim = l, !.n.borrowerClaim = b,
                      !.n.status = "FallbackPending"]
    OBVIOUS
  <2>4. R \in State
    BY <1>8, <1>9, <2>1 DEF State
  <2> HIDE DEF U, l, b
  <2>2. /\ U.v = R.v /\ U = [v |-> U.v, n |-> U.n]
        /\ U.n = [R.n EXCEPT !.snap = e, !.lenderClaim = l, !.borrowerClaim = b, !.status = "FallbackPending"]
    BY <2>3, <2>4 DEF State
  <2> QED BY <1>3, <1>9, <2>1, <2>2 DEF Loan
<1>14. T = RequireSnapshotMatchesRow(U)
  BY <1>10
<1> HIDE DEF U, l, b, Claims
<1>15. U \in State
  <2>1. "FallbackPending" \in Statuses
    BY DEF Statuses
  <2>2. U.n \in Loan
    BY <1>3, <1>4, <1>11, <1>12, <1>13, <2>1, ZenonT(60) DEF Loan
  <2> QED BY <1>8, <1>13, <2>2 DEF State
<1>16. U.n.snap = e /\ U.n.custody = y
       /\ U.n.principal = S.n.principal /\ U.n.held = h /\ U.n.surplus.amount = s /\ U.n.collateral = y
  BY <1>3, <1>13 DEF Loan
<1>17. SnapshotTotal(U.n) = U.n.custody
  BY <1>11, <1>16 DEF SnapshotTotal
<1>18. Fine(T.v, P, C)
  BY <1>6, <1>8, <1>13, <1>14, <1>15, <1>17, RowRuns
<1>19. T.n = U.n
  BY <1>14, <1>15 DEF RequireSnapshotMatchesRow, State
<1> QED BY <1>4, <1>16, <1>18, <1>19

LEMMA SaleFailedRuns ==
    ASSUME NEW S, NEW h, NEW s, NEW c, OpenOver(S, h, s, c), S.n.status = "Active",
           NEW q \in Nat, NEW r \in Nat, q <= c, r <= q, NEW rl, NEW rh, NEW rb,
           NEW rest, rest = c - q, StandsAt(S, h, 0, s, rest, 0, r, rest, rl, rh, rb),
           NEW P, NEW C, Fine(S.v, P, C), NEW T \in SaleFailed(S, q, r)
    PROVE  /\ Fine(T.v, P, C)
           /\ T.n.principal = S.n.principal /\ T.n.held = h /\ T.n.surplus.amount = s
           /\ T.n.collateral \in 0..c
<1>1. S \in State /\ Stand(S.v, h, 0, s, rest, 0, r, rest, rl, rh, rb)
  BY DEF StandsAt
<1>2. /\ h \in Nat /\ s \in Nat /\ c \in Nat /\ S.n \in Loan /\ SurplusOpen(S) /\ S.n.collateral = c
      /\ S.n.collateral - q = rest /\ rest \in Nat
  BY <1>1, OpenOverTypes DEF OpenOver
<1> DEFINE G(y) == [S EXCEPT !.v = PullToDiamond(ReleaseLien(@), Collateral, S.n.collateral - q, y),
                             !.n.collateral = r + y]
<1>3. T \in UNION {EnterFallback(R) : R \in {G(y) : y \in Delivered(Collateral, S.n.collateral - q)}}
  BY DEF SaleFailed, GatherForFallback
<1> HIDE DEF G
<1>4. PICK y \in Delivered(Collateral, S.n.collateral - q) : T \in EnterFallback(G(y))
  BY <1>3
<1>5. y \in Nat /\ y <= rest
  BY <1>2, DeliveredTypes, Cast
<1> DEFINE V == ReleaseLien(S.v)
           W == PullToDiamond(V, Collateral, rest, y)
           R == G(y)
           e == r + y
<1>6. R = [S EXCEPT !.v = W, !.n.collateral = e]
  BY <1>2 DEF G
<1>7. Stand(V, h, 0, s, rest, 0, r, 0, rl, rh, rb)
  BY <1>1, ReleaseLienStand
<1>f. Fine(V, P, C)
  BY <1>1, ReleaseLienRuns DEF Stand
<1> HIDE DEF V, R, e
<1>8. Stand(W, h, 0, s, rest - rest, 0, r + y, 0, rl, rh, rb)
  BY <1>2, <1>5, <1>7, PullStand
<1>g. Fine(W, P, C)
  <2> DEFINE m == rest
  <2>1. m \in Int /\ y \in Int /\ m <= rest - 0 /\ 0 <= r + y
    BY <1>2, <1>5
  <2>2. W = PullToDiamond(V, Collateral, m, y)
    OBVIOUS
  <2> HIDE DEF m, W
  <2> QED BY <1>7, <1>f, <2>1, <2>2, PullRuns
<1>9. e \in Nat /\ e = r + y /\ rest - rest = 0 /\ e <= c
  BY <1>2, <1>5 DEF e
<1>10. Stand(W, h, 0, s, 0, 0, e, 0, rl, rh, rb)
  BY <1>8, <1>9
<1>11. W \in Vaults
  BY <1>10, FitTypes DEF Stand
<1> HIDE DEF W
<1>12. R.v = W /\ R.n = [S.n EXCEPT !.collateral = e] /\ R = [v |-> R.v, n |-> R.n]
  BY <1>1, <1>6 DEF State
<1>13. R.n \in Loan /\ R \in State
  <2>1. R.n \in Loan
    BY <1>2, <1>9, <1>12 DEF Loan
  <2> QED BY <1>11, <1>12, <2>1 DEF State
<1>14. StandsAt(R, h, 0, s, 0, 0, e, 0, rl, rh, rb) /\ Fine(R.v, P, C)
  BY <1>g, <1>10, <1>12, <1>13 DEF StandsAt
<1>15. OpenOver(R, h, s, e) /\ R.n.status = "Active" /\ R.n.principal = S.n.principal
  <2>1. /\ R.n.status = "Active" /\ R.n.held = h /\ R.n.surplus = S.n.surplus /\ R.n.collateral = e
        /\ R.n.snap = S.n.snap /\ R.n.custody = S.n.custody /\ R.n.lenderClaim = S.n.lenderClaim
        /\ R.n.borrowerClaim = S.n.borrowerClaim /\ R.n.principal = S.n.principal
    BY <1>2, <1>12 DEF Loan, OpenOver
  <2> QED BY <1>13, <2>1 DEF OpenOver, Coherent, Open
<1>16. T \in EnterFallback(R)
  BY <1>4 DEF R
<1>17. /\ Fine(T.v, P, C)
       /\ T.n.principal = R.n.principal /\ T.n.held = h /\ T.n.surplus.amount = s /\ T.n.collateral \in 0..e
  BY <1>14, <1>15, <1>16, EnterFallbackRuns
<1> QED BY <1>2, <1>9, <1>15, <1>17

-----------------------------------------------------------------------------
(* The periodic settlement goes through.                                   *)

LEMMA LeftRuns ==
    ASSUME NEW S, NEW lp, NEW lc, NEW bp, NEW bc, NEW dp, NEW dc, NEW k, NEW rl, NEW rh, NEW rb,
           StandsAt(S, lp, lc, bp, bc, dp, dc, k, rl, rh, rb), NEW P, NEW C, Fine(S.v, P, C),
           NEW x \in Int, x <= dp
    PROVE  Fine(Left(S, x).v, P, C)
<1> DEFINE W == Transfer(S.v, Diamond, Outside, Principal, x)
<1>1. S \in State /\ Stand(S.v, lp, lc, bp, bc, dp, dc, k, rl, rh, rb)
  BY DEF StandsAt
<1>2. Left(S, x).v = W
  BY <1>1 DEF Left, State
<1> QED BY <1>1, <1>2, TransferRuns

LEMMA ExtraSettledRuns ==
    ASSUME NEW S, NEW lp, NEW lc, NEW bp, NEW bc, NEW x \in Nat, NEW dc, NEW k, NEW rl, NEW rh, NEW rb,
           StandsAt(S, lp, lc, bp, bc, x, dc, k, rl, rh, rb), NEW P, NEW C, Fine(S.v, P, C),
           SurplusOpen(S), NEW T \in HeldExtra(S, x) \cup {Left(S, x)}
    PROVE  Fine(T.v, P, C)
<1> DEFINE d == x
<1>1. StandsAt(S, lp, lc, bp, bc, d, dc, k, rl, rh, rb) /\ x <= d /\ x \in Int
  OBVIOUS
<1> HIDE DEF d
<1>2. CASE T \in HeldExtra(S, x)
  BY <1>1, <1>2, HeldExtraRuns
<1>3. CASE T = Left(S, x)
  BY <1>1, <1>3, LeftRuns
<1> QED BY <1>2, <1>3

(* y of the principal, of x that left the Diamond, are held for the lender.*)
ParkIn(S, x, y) == [S EXCEPT !.v = Reserve(DepositLocked(@, Lender, Principal, x, y),
                                           "heldForLender", Lender, Principal, y),
                             !.n.held = @ + y]

LEMMA ParkedRuns ==
    ASSUME NEW S, NEW lp, NEW lc, NEW bp, NEW bc, NEW dp, NEW dc, NEW k, NEW rl, NEW rh, NEW rb,
           StandsAt(S, lp, lc, bp, bc, dp, dc, k, rl, rh, rb), NEW P, NEW C, Fine(S.v, P, C),
           NEW x \in Nat, x <= dp, NEW y \in Delivered(Principal, x)
    PROVE  Fine(ParkIn(S, x, y).v, P, C)
<1> DEFINE V == DepositLocked(S.v, Lender, Principal, x, y)
           W == Reserve(V, "heldForLender", Lender, Principal, y)
<1>1. S \in State /\ Stand(S.v, lp, lc, bp, bc, dp, dc, k, rl, rh, rb)
  BY DEF StandsAt
<1>2. y \in Nat /\ y <= x
  BY DeliveredTypes, Cast
<1>3. ParkIn(S, x, y) = [S EXCEPT !.v = W, !.n.held = @ + y]
  BY DEF ParkIn
<1>4. Fit(V)
  <2>1. Stand(V, lp + y, lc, bp, bc, dp - x, dc, k, rl, rh, rb)
    BY <1>1, <1>2, LockLenderStand
  <2> QED BY <2>1 DEF Stand
<1>5. Fine(V, P, C)
  BY <1>1, <1>2, LockPrincipalRuns
<1> HIDE DEF V
<1>6. Fine(W, P, C)
  BY <1>2, <1>4, <1>5, ReserveHeldRuns
<1> HIDE DEF W
<1>7. ParkIn(S, x, y).v = W
  BY <1>1, <1>3 DEF State
<1> QED BY <1>6, <1>7

LEMMA BookPeriodicRuns ==
    ASSUME NEW S, NEW lp, NEW lc, NEW bp, NEW bc, NEW got \in Nat, NEW dc, NEW k, NEW rl, NEW rh, NEW rb,
           StandsAt(S, lp, lc, bp, bc, got, dc, k, rl, rh, rb), NEW P, NEW C, Fine(S.v, P, C),
           SurplusOpen(S), NEW d \in Nat, NEW p \in Splits(d, got), NEW T \in BookPeriodic(S, got, p)
    PROVE  /\ Fine(T.v, P, C)
           /\ T.n.held + T.n.surplus.amount <= S.n.held + S.n.surplus.amount + got
<1> DEFINE HandedOver == Left(S, got - p.extra)
           Park(y) == [S EXCEPT !.v = Reserve(DepositLocked(Transfer(@, Diamond, Outside, Principal,
                                                                     got - p.lender - p.extra),
                                                            Lender, Principal, p.lender, y),
                                              "heldForLender", Lender, Principal, y),
                                !.n.held = @ + y]
           Parked == {Park(y) : y \in Delivered(Principal, p.lender)}
<1>1. p.lender \in Nat /\ p.extra \in Nat /\ p.lender + p.extra <= got
  BY SplitTypes
<1>2. T \in UNION {HeldExtra(R, p.extra) \cup {Left(R, p.extra)} : R \in {HandedOver} \cup Parked}
  BY DEF BookPeriodic, Left
<1> DEFINE l == p.lender
           e == p.extra
<1>3. l \in Nat /\ e \in Nat /\ l + e <= got
  BY <1>1
<1> HIDE DEF HandedOver, Park, e
<1>4. PICK R \in {HandedOver} \cup Parked : T \in HeldExtra(R, e) \cup {Left(R, e)}
  BY <1>2 DEF e
<1>5. S \in State /\ S.n \in Loan /\ S.n.held \in Nat /\ S.n.surplus.amount \in Nat
  BY DEF StandsAt, State, Loan, Claim
<1>6. ASSUME NEW y, NEW q, y \in Nat, y <= l, HeldMore(S, R, y), Fine(R.v, P, C),
             StandsAt(R, lp + y, lc, bp, bc, q, dc, k, rl, rh + y, rb), q = e
      PROVE  /\ Fine(T.v, P, C)
             /\ T.n.held + T.n.surplus.amount <= S.n.held + S.n.surplus.amount + got
  <2>1. R \in State /\ R.n.surplus = S.n.surplus /\ R.n.held = S.n.held + y
    BY <1>5, <1>6 DEF StandsAt, HeldMore, Loan
  <2>2. SurplusOpen(R)
    BY <2>1 DEF SurplusOpen
  <2> DEFINE mp == lp + y
             mh == rh + y
  <2>3. StandsAt(R, mp, lc, bp, bc, e, dc, k, rl, mh, rb)
    BY <1>6
  <2>4. e \in Nat
    BY <1>3
  <2> HIDE DEF mp, mh
  <2>5. PICK z : /\ Within(z, e) /\ ExtraHeld(R, T, z)
                 /\ StandsAt(T, mp, lc, bp + z, bc, 0, dc, k, rl, mh, rb + z)
    BY <1>4, <2>2, <2>3, <2>4, ExtraSettledStand
  <2>6. Fine(T.v, P, C)
    BY <1>4, <1>6, <2>2, <2>3, <2>4, ExtraSettledRuns
  <2>7. T.n.held = S.n.held + y /\ T.n.surplus.amount = S.n.surplus.amount + z
    BY <2>1, <2>5 DEF ExtraHeld, State, Loan
  <2>8. z \in Nat /\ z <= e
    BY <2>4, <2>5 DEF Within
  <2> QED BY <1>3, <1>5, <1>6, <2>6, <2>7, <2>8
<1>7. CASE R = HandedOver
  <2> DEFINE x == got - e
             q == got - x
  <2>1. x \in Int /\ q = e /\ x <= got
    BY <1>3
  <2>2. R = Left(S, x)
    BY <1>7 DEF HandedOver, e
  <2> DEFINE g == got
  <2>3. StandsAt(S, lp, lc, bp, bc, g, dc, k, rl, rh, rb) /\ x <= g
    BY <2>1
  <2> HIDE DEF x, g
  <2>4. SameLoan(S, R) /\ StandsAt(R, lp, lc, bp, bc, g - x, dc, k, rl, rh, rb) /\ Fine(R.v, P, C)
    BY <2>1, <2>2, <2>3, LeftStand, LeftRuns
  <2>5. {lp, rh} \subseteq Int
    <3>1. Stand(S.v, lp, lc, bp, bc, got, dc, k, rl, rh, rb)
      BY DEF StandsAt
    <3> QED BY <3>1, StandTypes
  <2>6. lp + 0 = lp /\ rh + 0 = rh /\ g - x = q
    BY <2>5 DEF g
  <2>7. StandsAt(R, lp + 0, lc, bp, bc, q, dc, k, rl, rh + 0, rb)
    BY <2>4, <2>6
  <2>8. HeldMore(S, R, 0)
    <3>1. S.n.held + 0 = S.n.held
      BY <1>5
    <3>2. [S.n EXCEPT !.held = S.n.held] = S.n
      BY <1>5 DEF Loan
    <3> QED BY <2>4, <3>1, <3>2 DEF SameLoan, HeldMore
  <2>9. 0 \in Nat /\ 0 <= l
    BY <1>3
  <2> QED BY <1>6, <2>1, <2>4, <2>7, <2>8, <2>9
<1>8. CASE R \in Parked
  <2>1. PICK y \in Delivered(Principal, l) : R = Park(y)
    BY <1>8
  <2> DEFINE x == got - l - e
             Q == Left(S, x)
             g == got
             o == g - x
  <2>2. x \in Int /\ o - l = e /\ x <= g /\ l <= o
    BY <1>3
  <2>3. StandsAt(S, lp, lc, bp, bc, g, dc, k, rl, rh, rb)
    OBVIOUS
  <2>4. R = [Q EXCEPT !.v = Reserve(DepositLocked(@, Lender, Principal, l, y), "heldForLender", Lender, Principal, y),
                      !.n.held = @ + y]
    BY <1>5, <2>1 DEF Park, Left, State, e
  <2> HIDE DEF x, g, Q, o
  <2>5. SameLoan(S, Q) /\ StandsAt(Q, lp, lc, bp, bc, g - x, dc, k, rl, rh, rb) /\ Fine(Q.v, P, C)
    BY <2>2, <2>3, LeftStand, LeftRuns DEF Q
  <2>6. StandsAt(Q, lp, lc, bp, bc, o, dc, k, rl, rh, rb)
    BY <2>5 DEF o
  <2> HIDE DEF l
  <2>7. l \in Nat
    BY <1>3
  <2>8. Within(y, l) /\ HeldMore(Q, R, y) /\ StandsAt(R, lp + y, lc, bp, bc, o - l, dc, k, rl, rh + y, rb)
    BY <2>1, <2>4, <2>6, <2>7, ParkedStand
  <2>9. Fine(R.v, P, C)
    <3>1. Fine(Q.v, P, C) /\ l <= o
      BY <2>2, <2>5
    <3>2. R = ParkIn(Q, l, y)
      BY <2>4 DEF ParkIn
    <3>3. Fine(ParkIn(Q, l, y).v, P, C)
      BY <2>1, <2>6, <2>7, <3>1, ParkedRuns
    <3> QED BY <3>2, <3>3
  <2>10. y \in Nat /\ y <= l
    BY <2>7, <2>8 DEF Within
  <2>11. HeldMore(S, R, y)
    BY <2>5, <2>8 DEF HeldMore, SameLoan
  <2> QED BY <1>6, <2>2, <2>8, <2>9, <2>10, <2>11
<1> QED BY <1>4, <1>7, <1>8

(* Of a loan that is open: the others have enough of the principal to pay  *)
(* it off and to buy what a call sells, and what is pledged is there.      *)
Backed(S) ==
    S.n.status \in Open =>
        /\ S.n.held + S.n.surplus.amount + S.n.principal + MaxProceeds <= Pot(S.v, Principal)
        /\ S.n.collateral <= Pot(S.v, Collateral)

(* No more is asked of the others than before.                             *)
Milder(n, m) ==
    m.status \in Open =>
        /\ m.principal <= n.principal /\ m.collateral <= n.collateral
        /\ m.held + m.surplus.amount + m.principal <= n.held + n.surplus.amount + n.principal

(* A call that goes through and takes no more than it gives.               *)
Goes(S, T) == Fine(T.v, Pot(S.v, Principal), Pot(S.v, Collateral)) /\ Milder(S.n, T.n)

LEMMA StatePot ==
    ASSUME NEW S \in State, NEW a \in {Principal, Collateral}
    PROVE  Pot(S.v, a) \in Int
<1>1. /\ S.v.wallet[<<Outside, a>>] \in Int /\ S.v.wallet[<<Diamond, a>>] \in Int
      /\ S.v.tracked[<<Lender, a>>] \in Int /\ S.v.tracked[<<Borrower, a>>] \in Int
      /\ S.v.depository[<<Lender, a>>] \in Int /\ S.v.depository[<<Borrower, a>>] \in Int
  BY Cast DEF State, Vaults, Keys
<1>2. /\ Held(S.v, Lender, a) \in Int /\ Held(S.v, Borrower, a) \in Int /\ Held(S.v, Diamond, a) \in Int
  BY <1>1, Cast DEF Held
<1> QED BY <1>1, <1>2 DEF Pot

LEMMA StaysBacked ==
    ASSUME NEW S \in State, NEW T \in State, S.n.status \in Open, Backed(S), Goes(S, T)
    PROVE  Backed(T) /\ Ok(T.v)
<1>1. Pot(T.v, Principal) = Pot(S.v, Principal) /\ Pot(T.v, Collateral) = Pot(S.v, Collateral) /\ Ok(T.v)
  BY DEF Goes, Fine
<1>2. ASSUME T.n.status \in Open
      PROVE  /\ T.n.held + T.n.surplus.amount + T.n.principal + MaxProceeds <= Pot(T.v, Principal)
             /\ T.n.collateral <= Pot(T.v, Collateral)
  <2>1. /\ S.n.held + S.n.surplus.amount + S.n.principal + MaxProceeds <= Pot(S.v, Principal)
        /\ S.n.collateral <= Pot(S.v, Collateral)
        /\ T.n.collateral <= S.n.collateral
        /\ T.n.held + T.n.surplus.amount + T.n.principal <= S.n.held + S.n.surplus.amount + S.n.principal
    BY <1>2 DEF Backed, Goes, Milder
  <2>2. /\ S.n.held + S.n.surplus.amount + S.n.principal \in Nat /\ T.n.held + T.n.surplus.amount + T.n.principal \in Nat
        /\ S.n.collateral \in Nat /\ T.n.collateral \in Nat /\ MaxProceeds \in Nat
    BY FallbackLoanAssumption DEF State, Loan, Claim
  <2>3. Pot(S.v, Principal) \in Int /\ Pot(S.v, Collateral) \in Int
    BY Cast, StatePot
  <2> QED BY <1>1, <2>1, <2>2, <2>3
<1> QED BY <1>1, <1>2 DEF Backed

-----------------------------------------------------------------------------
(* The sales of an open loan go through.                                   *)

(* What the others have for an open loan.                                  *)
Affords(S, h, s, c, P, C) ==
    /\ P \in Int /\ C \in Int /\ P = Pot(S.v, Principal) /\ C = Pot(S.v, Collateral)
    /\ Fine(S.v, P, C) /\ c <= C
    /\ h + s + MaxProceeds <= P /\ h + s + S.n.principal <= P

LEMMA BackedAffords ==
    ASSUME NEW S \in State, NEW h, NEW s, NEW c, OpenOver(S, h, s, c), Ok(S.v), Backed(S)
    PROVE  \E P, C : Affords(S, h, s, c, P, C)
<1> DEFINE P == Pot(S.v, Principal)
           C == Pot(S.v, Collateral)
<1>1. P \in Int /\ C \in Int
  BY StatePot, Cast
<1>2. h \in Nat /\ s \in Nat /\ c \in Nat /\ S.n.principal \in Nat /\ MaxProceeds \in Nat
  BY OpenOverTypes, FallbackLoanAssumption
<1>3. h + s + S.n.principal + MaxProceeds <= P /\ c <= C
  BY DEF OpenOver, Backed
<1>4. Fine(S.v, P, C)
  BY DEF Fine
<1>5. P = Pot(S.v, Principal) /\ C = Pot(S.v, Collateral)
  OBVIOUS
<1> HIDE DEF P, C
<1>6. h + s + MaxProceeds <= P /\ h + s + S.n.principal <= P
  BY <1>1, <1>2, <1>3
<1> QED BY <1>1, <1>3, <1>4, <1>5, <1>6 DEF Affords

(* A closed loan asks nothing of the others.                               *)
LEMMA ClosingGoes ==
    ASSUME NEW S, NEW T, NEW P, NEW C, P = Pot(S.v, Principal), C = Pot(S.v, Collateral), Fine(T.v, P, C),
           T.n.status \notin Open
    PROVE  Goes(S, T)
BY DEF Goes, Milder

LEMMA OpenStays ==
    ASSUME NEW S \in State, NEW h, NEW s, NEW c, OpenOver(S, h, s, c), NEW T,
           NEW P, NEW C, P = Pot(S.v, Principal), C = Pot(S.v, Collateral), Fine(T.v, P, C),
           T.n.principal = S.n.principal, T.n.held = h, T.n.surplus.amount = s, T.n.collateral \in 0..c
    PROVE  Goes(S, T)
<1>1. h \in Nat /\ s \in Nat /\ c \in Nat /\ S.n.principal \in Nat
  BY OpenOverTypes
<1>2. S.n.held = h /\ S.n.surplus.amount = s /\ S.n.collateral = c
  BY DEF OpenOver
<1>3. Milder(S.n, T.n)
  BY <1>1, <1>2 DEF Milder
<1> QED BY <1>3 DEF Goes

LEMMA OpenSaleLaws ==
    ASSUME NEW S \in State, NEW q, NEW r
    PROVE  OpenSale(S, q, r).n = S.n
BY DEF OpenSale, State

LEMMA OpeningArrives ==
    ASSUME NEW n \in Loan, NEW o \in Openings(n)
    PROVE  o[2] <= o[1]
<1>1. n.collateral \in Nat
  BY DEF Loan
<1>2. o \in (AtMost(1, n.collateral)..n.collateral) \X (0..n.collateral) /\ o[2] \in Delivered(Collateral, o[1])
  BY DEF Openings, Deliveries
<1>3. o[1] \in Nat
  BY <1>1, OpeningTypes
<1> QED BY <1>2, <1>3, DeliveredTypes, Cast

LEMMA SaleRuns ==
    ASSUME NEW S, Valid(S), S.n.status = "Active", Ok(S.v), Backed(S), NEW T \in Sale(S)
    PROVE  Goes(S, T)
<1>1. PICK h, s, c, rl, rh, rb :
              /\ OpenOver(S, h, s, c) /\ StandsAt(S, h, 0, s, c, 0, 0, c, rl, rh, rb)
              /\ Reserves(h, 0, s, rl, rh, rb)
  BY Opened DEF Open
<1>2. S \in State /\ h \in Nat /\ s \in Nat /\ c \in Nat
  <2>1. S \in State
    BY <1>1 DEF StandsAt
  <2> QED BY <1>1, <2>1, OpenOverTypes
<1>3. PICK P, C : Affords(S, h, s, c, P, C)
  BY <1>1, <1>2, BackedAffords
<1>4. PICK o \in Openings(S.n) :
         \/ T \in SaleSettled(OpenSale(S, o[1], o[2]), o[1], o[2])
         \/ T \in SaleFailed(OpenSale(S, o[1], o[2]), o[1], o[2])
  BY DEF Sale
<1> DEFINE q == o[1]
           r == o[2]
           R == OpenSale(S, q, r)
           rest == c - q
<1>5. q \in Nat /\ r \in Nat /\ q <= c /\ r <= q
  <2>1. S.n \in Loan /\ S.n.collateral = c
    BY <1>1, <1>2 DEF State, OpenOver
  <2> QED BY <1>4, <2>1, OpeningTypes, OpeningArrives
<1> HIDE DEF q, r
<1>6. /\ OpenOver(R, h, s, c) /\ R.n.status = S.n.status
      /\ StandsAt(R, h, 0, s, c - q, 0, r, c - q, rl, rh, rb)
  BY <1>1, <1>5, OpenSaleAt
<1>7. Fine(R.v, P, C) /\ R.n = S.n
  <2>1. Fine(S.v, P, C)
    BY <1>3 DEF Affords
  <2> DEFINE k == c
             z == 0
  <2>2. StandsAt(S, h, 0, s, c, 0, z, k, rl, rh, rb) /\ k <= c /\ q <= k /\ 0 <= z
    BY <1>1, <1>2, <1>5
  <2> HIDE DEF k, z, R
  <2>3. Fine(OpenSale(S, q, r).v, P, C)
    BY <1>5, <2>1, <2>2, OpenSaleRuns
  <2> QED BY <1>2, <2>3, OpenSaleLaws DEF R
<1>8. T \in SaleSettled(R, q, r) \/ T \in SaleFailed(R, q, r)
  BY <1>4 DEF q, r
<1> HIDE DEF R
<1>9. rest = c - q /\ StandsAt(R, h, 0, s, rest, 0, r, rest, rl, rh, rb)
  BY <1>6
<1> HIDE DEF rest
<1>10. CASE T \in SaleSettled(R, q, r)
  <2>1. h + s + MaxProceeds <= P
    BY <1>3 DEF Affords
  <2>2. Fine(T.v, P, C)
    BY <1>5, <1>6, <1>7, <1>9, <1>10, <2>1, SaleSettledRuns
  <2>3. T.n.status = "Defaulted"
    BY <1>1, <1>5, <1>6, <1>9, <1>10, SaleSettledValid
  <2> QED BY <1>3, <2>2, <2>3, ClosingGoes DEF Affords, Open
<1>11. CASE T \in SaleFailed(R, q, r)
  <2>1. /\ Fine(T.v, P, C)
        /\ T.n.principal = R.n.principal /\ T.n.held = h /\ T.n.surplus.amount = s
        /\ T.n.collateral \in 0..c
    <3>1. R.n.status = "Active"
      BY <1>6
    <3> QED BY <1>5, <1>6, <1>7, <1>9, <1>11, <3>1, SaleFailedRuns, ZenonT(90)
  <2> QED BY <1>1, <1>2, <1>3, <1>7, <2>1, OpenStays DEF Affords
<1> QED BY <1>8, <1>10, <1>11

LEMMA UnpricedRuns ==
    ASSUME NEW S, Valid(S), S.n.status = "Active", Ok(S.v), Backed(S), NEW T \in UnpricedFallback(S)
    PROVE  Goes(S, T)
<1>1. PICK h, s, c, rl, rh, rb :
              /\ OpenOver(S, h, s, c) /\ StandsAt(S, h, 0, s, c, 0, 0, c, rl, rh, rb)
              /\ Reserves(h, 0, s, rl, rh, rb)
  BY Opened DEF Open
<1>2. S \in State
  BY <1>1 DEF StandsAt
<1>3. PICK P, C : Affords(S, h, s, c, P, C)
  BY <1>1, <1>2, BackedAffords
<1>4. c = c - 0 /\ 0 <= c /\ 0 \in Nat /\ 0 <= 0
  BY <1>1, <1>2, OpenOverTypes
<1>5. T \in SaleFailed(S, 0, 0)
  BY DEF UnpricedFallback
<1>6. Fine(S.v, P, C)
  BY <1>3 DEF Affords
<1> DEFINE q == 0
           r == 0
           rest == c
<1>7. /\ rest = c - q /\ StandsAt(S, h, 0, s, rest, 0, r, rest, rl, rh, rb) /\ q \in Nat /\ r \in Nat /\ q <= c /\ r <= q
      /\ T \in SaleFailed(S, q, r)
  BY <1>1, <1>4, <1>5
<1> HIDE DEF q, r, rest
<1>8. /\ Fine(T.v, P, C)
      /\ T.n.principal = S.n.principal /\ T.n.held = h /\ T.n.surplus.amount = s
      /\ T.n.collateral \in 0..c
  BY <1>1, <1>6, <1>7, SaleFailedRuns, ZenonT(90)
<1> QED BY <1>1, <1>2, <1>3, <1>8, OpenStays DEF Affords

LEMMA InKindRuns ==
    ASSUME NEW S, Valid(S), S.n.status = "Active", Ok(S.v), Backed(S), NEW T \in InKind(S)
    PROVE  Goes(S, T)
<1>1. PICK h, s, c, rl, rh, rb :
              /\ OpenOver(S, h, s, c) /\ StandsAt(S, h, 0, s, c, 0, 0, c, rl, rh, rb)
              /\ Reserves(h, 0, s, rl, rh, rb)
  BY Opened DEF Open
<1>2. S \in State /\ Stand(S.v, h, 0, s, c, 0, 0, c, rl, rh, rb)
  BY <1>1 DEF StandsAt
<1>3. c \in Nat /\ S.n \in Loan /\ S.n.collateral = c
  BY <1>1, <1>2, OpenOverTypes DEF OpenOver
<1>4. PICK P, C : Affords(S, h, s, c, P, C)
  BY <1>1, <1>2, BackedAffords
<1>5. PICK y \in Delivered(Collateral, c) :
         T = [S EXCEPT !.v = ReserveVpfi(DepositFromVault(ReleaseLien(S.v), Lender, Collateral, c, y),
                                         "lenderProceeds", Lender, Collateral, y),
                       !.n.collateral = y, !.n.status = "Defaulted", !.n.lenderClaim = Pays(Collateral, y)]
  BY <1>3 DEF InKind
<1>6. y \in Nat /\ y <= c
  BY <1>3, <1>5, DeliveredTypes, Cast
<1> DEFINE U == ReleaseLien(S.v)
           V == DepositFromVault(U, Lender, Collateral, c, y)
           W == ReserveVpfi(V, "lenderProceeds", Lender, Collateral, y)
<1>7. T = [S EXCEPT !.v = W, !.n.collateral = y, !.n.status = "Defaulted", !.n.lenderClaim = Pays(Collateral, y)]
  BY <1>5
<1>8. Stand(U, h, 0, s, c, 0, 0, 0, rl, rh, rb)
  BY <1>2, ReleaseLienStand
<1>9. Fine(U, P, C)
  BY <1>2, <1>4, ReleaseLienRuns DEF Affords, Stand
<1> HIDE DEF U
<1>10. Fine(V, P, C)
  <2> DEFINE x == c
             k == 0
  <2>1. Stand(U, h, 0, s, c, 0, 0, k, rl, rh, rb) /\ x \in Int /\ x <= c - k /\ y <= x /\ 0 + c + 0 <= C /\ y \in Int
    BY <1>3, <1>4, <1>6, <1>8 DEF Affords
  <2> HIDE DEF x, k
  <2>2. Fine(DepositFromVault(U, Lender, Collateral, x, y), P, C)
    BY <1>9, <2>1, FromVaultLenderRuns
  <2> QED BY <2>2 DEF x
<1>11. Fit(V)
  <2>1. Stand(V, h, 0 + y, s, c - c, 0, 0, 0, rl, rh, rb)
    <3> DEFINE x == c
    <3>1. x \in Int /\ y \in Int
      BY <1>3, <1>6
    <3> HIDE DEF x
    <3>2. Stand(DepositFromVault(U, Lender, Collateral, x, y), h, 0 + y, s, c - x, 0, 0, 0, rl, rh, rb)
      BY <1>8, <3>1, FromVaultLenderStand
    <3> QED BY <3>2 DEF x
  <2> QED BY <2>1 DEF Stand
<1> HIDE DEF V
<1>12. Fine(W, P, C)
  BY <1>6, <1>10, <1>11, Cast, ReserveVpfiLenderRuns
<1> HIDE DEF W
<1>13. T.v = W /\ T.n.status = "Defaulted"
  BY <1>2, <1>3, <1>7 DEF State, Loan
<1> QED BY <1>4, <1>12, <1>13, ClosingGoes DEF Affords, Open

(* What is held may grow by what the sale yields.                          *)
LEMMA PeriodicRuns ==
    ASSUME NEW S, Valid(S), S.n.status = "Active", Ok(S.v), Backed(S),
           NEW q \in Nat, NEW r \in Nat, q <= S.n.collateral, NEW T \in PeriodicSale(S, q, r)
    PROVE  /\ Fine(T.v, Pot(S.v, Principal), Pot(S.v, Collateral))
           /\ T.n.principal = S.n.principal /\ T.n.collateral <= S.n.collateral
           /\ T.n.held + T.n.surplus.amount <= S.n.held + S.n.surplus.amount + MaxProceeds
<1>1. PICK h, s, c, rl, rh, rb :
              /\ OpenOver(S, h, s, c) /\ StandsAt(S, h, 0, s, c, 0, 0, c, rl, rh, rb)
              /\ Reserves(h, 0, s, rl, rh, rb)
  BY Opened DEF Open
<1>2. S \in State /\ S.n \in Loan /\ S.n.collateral = c /\ S.n.held = h /\ S.n.surplus.amount = s
  BY <1>1 DEF StandsAt, State, OpenOver
<1>3. h \in Nat /\ s \in Nat /\ c \in Nat /\ SurplusOpen(S) /\ q <= c
  BY <1>1, <1>2, OpenOverTypes
<1>4. PICK P, C : Affords(S, h, s, c, P, C)
  BY <1>1, <1>2, BackedAffords
<1> DEFINE O == OpenSale(S, q, r)
<1>5. PICK d \in 1..MaxInterest, got \in 0..MaxProceeds :
         \E p \in Splits(d, got) : T \in BookPeriodic(PeriodicSold(S, q, r, got), got, p)
  BY DEF PeriodicSale
<1>6. PICK p \in Splits(d, got) : T \in BookPeriodic(PeriodicSold(S, q, r, got), got, p)
  BY <1>5
<1>7. d \in Nat /\ got \in Nat /\ MaxProceeds \in Nat /\ got <= MaxProceeds
  BY FallbackLoanAssumption
<1>8. SameLoan(S, O) /\ StandsAt(O, h, 0, s, c - q, 0, r, c - q, rl, rh, rb)
  BY <1>1, <1>3, OpenSaleAt
<1>9. Fine(O.v, P, C)
  <2>1. Fine(S.v, P, C)
    BY <1>4 DEF Affords
  <2> DEFINE k == c
             z == 0
  <2>2. StandsAt(S, h, 0, s, c, 0, z, k, rl, rh, rb) /\ k <= c /\ q <= k /\ 0 <= z
    BY <1>1, <1>3
  <2> HIDE DEF k, z
  <2>3. Fine(OpenSale(S, q, r).v, P, C)
    BY <2>1, <2>2, OpenSaleRuns
  <2> QED BY <2>3
<1> HIDE DEF O
<1>10. O \in State /\ Stand(O.v, h, 0, s, c - q, 0, r, c - q, rl, rh, rb)
  BY <1>8 DEF StandsAt
<1> DEFINE V == Swapped(O.v, r, got)
           Q == PeriodicSold(S, q, r, got)
           rest == c - q
<1>11. rest \in Nat /\ rest <= c /\ 0 + got = got /\ r - r = 0
  BY <1>3, <1>7
<1>12. /\ Q.v = V /\ Q = [v |-> Q.v, n |-> Q.n] /\ Q.n = [S.n EXCEPT !.collateral = rest]
  <2>0. Q = [O EXCEPT !.v = V, !.n.collateral = @ - q]
    BY DEF PeriodicSold, O
  <2> HIDE DEF Q, V
  <2>1. Q.v = V /\ Q = [v |-> Q.v, n |-> Q.n] /\ Q.n = [O.n EXCEPT !.collateral = @ - q]
    BY <1>10, <2>0 DEF State
  <2> QED BY <1>2, <1>3, <1>8, <2>1 DEF SameLoan, Loan
<1>13. T \in BookPeriodic(Q, got, p)
  BY <1>6
<1> HIDE DEF Q
<1>14. Stand(O.v, h, 0, s, rest, 0, r, rest, rl, rh, rb)
  BY <1>10
<1> HIDE DEF rest
<1>15. Stand(V, h, 0, s, rest, 0 + got, r - r, rest, rl, rh, rb)
  <2>1. got \in Int
    BY <1>7
  <2> QED BY <1>14, <2>1, SwapStand
<1>16. Fine(V, P, C)
  <2> DEFINE x == r
             g == got
             z == 0
  <2>1. Stand(O.v, h, 0, s, rest, z, r, rest, rl, rh, rb) /\ x \in Int /\ x <= r /\ g \in Int /\ g <= P - h - s - z
    BY <1>3, <1>4, <1>7, <1>14 DEF Affords
  <2> HIDE DEF x, g, z
  <2>2. Fine(Swapped(O.v, x, g), P, C)
    BY <1>9, <2>1, SwapRuns
  <2> QED BY <2>2 DEF x, g
<1>17. Stand(V, h, 0, s, rest, got, 0, rest, rl, rh, rb)
  BY <1>11, <1>15
<1>18. V \in Vaults
  BY <1>17, FitTypes DEF Stand
<1> HIDE DEF V
<1>19. /\ StandsAt(Q, h, 0, s, rest, got, 0, rest, rl, rh, rb) /\ SurplusOpen(Q) /\ Fine(Q.v, P, C)
       /\ Q.n \in Loan /\ Q.n.surplus = S.n.surplus /\ Q.n.held = S.n.held /\ Q.n.principal = S.n.principal
       /\ Q.n.collateral = rest
  <2>1. /\ Q.n \in Loan /\ Q.n.surplus = S.n.surplus /\ Q.n.held = S.n.held /\ Q.n.principal = S.n.principal
        /\ Q.n.collateral = rest
    BY <1>2, <1>11, <1>12 DEF Loan
  <2>2. Q \in State
    BY <1>12, <1>18, <2>1 DEF State
  <2> QED BY <1>3, <1>12, <1>16, <1>17, <2>1, <2>2 DEF StandsAt, SurplusOpen
<1>20. PICK y, z, R :
              /\ Within(y, got) /\ Within(z, got) /\ HeldMore(Q, R, y) /\ ExtraHeld(R, T, z) /\ R \in State
              /\ StandsAt(T, h + y, 0, s + z, rest, 0, 0, rest, rl, rh + y, rb + z)
  <2>1. got \in Nat /\ d \in Nat
    BY <1>7
  <2> QED BY <1>13, <1>19, <2>1, BookPeriodicStand
<1>21. T.n.principal = S.n.principal /\ T.n.collateral = rest
  <2>1. R.n.principal = S.n.principal /\ R.n.collateral = rest /\ R.n \in Loan
    BY <1>19, <1>20 DEF HeldMore, Loan, State
  <2> QED BY <1>20, <2>1 DEF ExtraHeld, Loan
<1>22. Fine(T.v, P, C) /\ T.n.held + T.n.surplus.amount <= Q.n.held + Q.n.surplus.amount + got
  BY <1>7, <1>13, <1>19, BookPeriodicRuns
<1>23. T.n.held + T.n.surplus.amount <= S.n.held + S.n.surplus.amount + MaxProceeds
  <2> DEFINE a == T.n.held
             b == T.n.surplus.amount
  <2>1. a \in Nat /\ b \in Nat
    BY <1>20 DEF StandsAt, State, Loan, Claim
  <2>2. a + b <= h + s + got
    BY <1>2, <1>19, <1>22
  <2> HIDE DEF a, b
  <2>3. a + b <= h + s + MaxProceeds
    BY <1>3, <1>7, <2>1, <2>2
  <2> QED BY <1>2, <2>3 DEF a, b
<1> QED BY <1>2, <1>4, <1>11, <1>21, <1>22, <1>23 DEF Affords

-----------------------------------------------------------------------------
(* The matches of an open loan go through.                                 *)

LEMMA LegsRuns ==
    ASSUME NEW S, NEW h, NEW s, NEW c, OpenOver(S, h, s, c), NEW rl, NEW rh, NEW rb,
           StandsAt(S, h, 0, s, c, 0, 0, c, rl, rh, rb), NEW m \in Matches(S.n),
           NEW P, NEW C, Affords(S, h, s, c, P, C)
    PROVE  Fine(Legs(S, m).v, P, C)
<1> DEFINE w == m.taken
           x == m.paid - m.fee
           d == c - w
           pending == S.n.status = "FallbackPending"
           U == IF pending THEN RequireSnapshotMatchesRow(S).v ELSE S.v
           g == pending => w <= S.n.custody
           V == LowerLien(Guarded(U, g), w)
           A == VaultWithdrawERC20(V, Borrower, Collateral, Outside, w)
           W == VaultDepositERC20From(A, Outside, Lender, Principal, x)
           T == Legs(S, m)
<1>1. S \in State /\ S.n \in Loan /\ S.n.collateral = c /\ c \in Nat /\ S.n.custody \in Nat /\ S.n.principal \in Nat
      /\ h \in Nat /\ s \in Nat /\ Stand(S.v, h, 0, s, c, 0, 0, c, rl, rh, rb)
  <2>1. S \in State
    BY DEF StandsAt
  <2> QED BY <2>1, OpenOverTypes DEF OpenOver, Loan, StandsAt
<1>2. w \in Nat /\ w > 0 /\ m.paid \in Nat /\ m.fee \in Nat /\ m.paid <= S.n.principal /\ m.fee < m.paid
      /\ w <= MatchableCollateral(S.n)
  BY <1>1, MatchTypes
<1>3. pending => S.n.custody <= c /\ SnapshotTotal(S.n) = S.n.custody
  BY <1>1 DEF OpenOver, Coherent
<1>4. w <= c /\ (pending => w <= S.n.custody)
  BY <1>1, <1>2, <1>3 DEF MatchableCollateral
<1>5. x \in Nat /\ x <= S.n.principal /\ d \in Nat /\ P \in Int /\ h + s + S.n.principal <= P
  BY <1>1, <1>2, <1>4 DEF Affords
<1>6. T = [S EXCEPT !.v = W, !.n.custody = IF pending THEN @ - w ELSE @, !.n.principal = @ - m.paid,
                    !.n.collateral = @ - w]
  BY DEF Legs
<1>7. Stand(U, h, 0, s, c, 0, 0, c, rl, rh, rb) /\ Fine(U, P, C)
  <2>1. StandsAt(RequireSnapshotMatchesRow(S), h, 0, s, c, 0, 0, c, rl, rh, rb)
    BY RowStand
  <2>2. Fine(S.v, P, C) /\ Fit(S.v)
    BY <1>1 DEF Affords, Stand
  <2>3. pending => Fine(RequireSnapshotMatchesRow(S).v, P, C)
    BY <1>1, <1>3, <2>2, RowRuns
  <2> QED BY <1>1, <2>1, <2>2, <2>3 DEF StandsAt
<1>8. g \in BOOLEAN /\ g
  BY <1>4
<1> HIDE DEF U, g
<1>9. Stand(Guarded(U, g), h, 0, s, c, 0, 0, c, rl, rh, rb) /\ Fine(Guarded(U, g), P, C)
  <2>1. Fit(U)
    BY <1>7 DEF Stand
  <2>2. Stand(Guarded(U, g), h, 0, s, c, 0, 0, c, rl, rh, rb)
    BY <1>7, <1>8, GuardStand
  <2>3. Fine(Guarded(U, g), P, C)
    <3>1. g = TRUE /\ TRUE \in BOOLEAN
      BY <1>8
    <3>2. Fine(Guarded(U, TRUE), P, C)
      BY <1>7, <2>1, <3>1, GuardRuns
    <3> QED BY <3>1, <3>2
  <2> QED BY <2>2, <2>3
<1>10. Stand(V, h, 0, s, c, 0, 0, c - w, rl, rh, rb)
  BY <1>2, <1>4, <1>9, LowerLienStand
<1>11. Fine(V, P, C)
  <2>1. w <= LienAmount(Guarded(U, g)) /\ Fit(Guarded(U, g))
    BY <1>4, <1>9 DEF Stand
  <2> HIDE DEF w
  <2> QED BY <1>2, <1>9, <2>1, LowerLienRuns
<1>12. d = c - w
  OBVIOUS
<1> HIDE DEF w, V, d
<1>13. Stand(V, h, 0, s, c, 0, 0, d, rl, rh, rb)
  BY <1>10, <1>12
<1>14. Stand(A, h, 0, s, c - w, 0, 0, d, rl, rh, rb)
  <2>1. w \in Int
    BY <1>2
  <2> QED BY <1>13, <2>1, WithdrawBorrowerCollateralStand
<1>15. Fine(A, P, C)
  <2>1. w \in Int /\ w <= c - d
    BY <1>1, <1>2, <1>12
  <2> QED BY <1>11, <1>13, <2>1, WithdrawCollateralRuns
<1> HIDE DEF A, x
<1>16. Fine(W, P, C)
  <2> DEFINE z == 0
  <2>1. Stand(A, h, 0, s, d, z, 0, d, rl, rh, rb) /\ x \in Int /\ x <= P - h - s - z
    BY <1>1, <1>5, <1>12, <1>14
  <2> HIDE DEF z
  <2> QED BY <1>15, <2>1, DepositLenderRuns
<1> HIDE DEF W, T
<1>17. T.v = W
  BY <1>1, <1>6 DEF State
<1> QED BY <1>16, <1>17 DEF T

LEMMA LenderReservedRuns ==
    ASSUME NEW S \in State, Fit(S.v), NEW P, NEW C, Fine(S.v, P, C), NEW x \in Nat
    PROVE  Fine(LenderHolds(S, x).v, P, C) /\ Fine(LenderMatched(S, x).v, P, C)
<1> DEFINE W == ReserveVpfi(S.v, "lenderProceeds", Lender, Principal, x)
<1>1. LenderHolds(S, x).v = W /\ LenderMatched(S, x).v = W
  BY DEF LenderHolds, LenderMatched, State
<1>2. Fine(W, P, C)
  BY Cast, ReserveVpfiLenderRuns
<1> QED BY <1>1, <1>2

LEMMA MatchedInFullRuns ==
    ASSUME NEW S, NEW lp, NEW lc, NEW bp, NEW bc, NEW dp, NEW dc, NEW k, NEW rl, NEW rh, NEW rb,
           StandsAt(S, lp, lc, bp, bc, dp, dc, k, rl, rh, rb), NEW P, NEW C, Fine(S.v, P, C), NEW x \in Nat
    PROVE  Fine(MatchedInFull(S, x).v, P, C)
<1> DEFINE M == LenderMatched(S, x)
           R == MatchedInFull(S, x)
<1>1. S \in State /\ Fit(S.v)
  BY DEF StandsAt, Stand
<1>2. Fine(M.v, P, C)
  BY <1>1, LenderReservedRuns
<1>3. M \in State /\ Fit(M.v)
  BY LenderReservedStand DEF StandsAt, Stand
<1>4. R = IF S.n.collateral > 0
          THEN [[M EXCEPT !.n.status = "InternalMatched", !.n.snap.active = FALSE, !.n.custody = 0]
                   EXCEPT !.n.borrowerClaim = Pays(Collateral, S.n.collateral)]
          ELSE [[M EXCEPT !.n.status = "InternalMatched", !.n.snap.active = FALSE, !.n.custody = 0]
                   EXCEPT !.v = ReleaseLien(@), !.n.borrowerClaim = NoClaim]
  BY DEF MatchedInFull
<1> HIDE DEF M, R
<1>5. R.v \in {M.v, ReleaseLien(M.v)}
  BY <1>3, <1>4 DEF State
<1>6. Fine(ReleaseLien(M.v), P, C)
  BY <1>2, <1>3, ReleaseLienRuns
<1> QED BY <1>2, <1>5, <1>6 DEF R

LEMMA SnapshotClaimsLaws ==
    ASSUME NEW S \in State, NEW g
    PROVE  LET T == ClaimsOfSnapshot(S, g)
           IN  /\ T.v = S.v /\ T.n.principal = S.n.principal /\ T.n.held = S.n.held
               /\ T.n.surplus = S.n.surplus /\ T.n.collateral = S.n.collateral /\ T.n.status = S.n.status
<1> DEFINE n == [S.n EXCEPT !.snap = g, !.lenderClaim.amount = g.lender, !.borrowerClaim.amount = g.borrower,
                            !.borrowerClaim.claimed = (g.borrower = 0)]
           T == ClaimsOfSnapshot(S, g)
<1>1. S.n \in Loan
  BY DEF State
<1>2. T = [S EXCEPT !.n = n]
  BY ZenonT(60) DEF ClaimsOfSnapshot, State
<1>3. /\ n.principal = S.n.principal /\ n.held = S.n.held /\ n.surplus = S.n.surplus
      /\ n.collateral = S.n.collateral /\ n.status = S.n.status
  BY <1>1 DEF Loan
<1> HIDE DEF n, T
<1>4. T.v = S.v /\ T.n = n
  BY <1>2 DEF State
<1> QED BY <1>3, <1>4 DEF T

LEMMA MatchRuns ==
    ASSUME NEW S, Valid(S), S.n.status \in Open, Ok(S.v), Backed(S), NEW m \in Matches(S.n)
    PROVE  Goes(S, Match(S, m))
<1>1. PICK h, s, c, rl, rh, rb :
              /\ OpenOver(S, h, s, c) /\ StandsAt(S, h, 0, s, c, 0, 0, c, rl, rh, rb)
              /\ Reserves(h, 0, s, rl, rh, rb)
  BY Opened
<1> DEFINE T == Legs(S, m)
           x == m.paid - m.fee
           d == c - m.taken
           p == S.n.principal - m.paid
           pending == S.n.status = "FallbackPending"
           u == IF pending THEN S.n.custody - m.taken ELSE S.n.custody
           H == LenderHolds(T, x)
           R == Match(S, m)
<1>2. /\ x \in Nat /\ Within(d, c) /\ p \in Nat /\ u \in Nat
      /\ Legged(S, T, p, u, d)
      /\ StandsAt(T, h + x, 0, s, d, 0, 0, d, rl, rh, rb)
  BY <1>1, LegsStand
<1>3. S \in State /\ S.n \in Loan /\ S.n.collateral = c /\ c \in Nat /\ S.n.custody \in Nat /\ S.n.principal \in Nat
      /\ h \in Nat /\ s \in Nat /\ S.n.held = h /\ S.n.surplus.amount = s
  <2>1. S \in State
    BY <1>1 DEF StandsAt
  <2> QED BY <1>1, <2>1, OpenOverTypes DEF OpenOver, Loan
<1>4. PICK P, C : Affords(S, h, s, c, P, C)
  BY <1>1, <1>3, BackedAffords
<1>5. Fine(T.v, P, C)
  BY <1>1, <1>4, LegsRuns
<1>6. /\ T.n.principal = p /\ T.n.custody = u /\ T.n.status = S.n.status /\ T.n.snap = S.n.snap /\ T.n.collateral = d
      /\ T.n.held = h /\ T.n.surplus = S.n.surplus
  BY <1>2, <1>3 DEF Legged, Loan
<1>7. x + p <= S.n.principal /\ d <= c /\ p <= S.n.principal /\ d \in Nat
  <2>1. m.paid \in Nat /\ m.fee \in Nat
    BY <1>3, MatchTypes
  <2> QED BY <1>2, <1>3, <2>1 DEF Within
<1>8. R = CASE T.n.principal = 0 -> MatchedInFull(T, x)
            [] T.n.principal # 0 /\ ~ pending -> LenderHolds(T, x)
            [] T.n.principal # 0 /\ pending /\ T.n.custody = 0 /\ TopUp(T) > 0 ->
                  MatchedOut(LenderHolds(T, x), TopUp(T))
            [] OTHER -> ClaimsOfSnapshot(LenderHolds(T, x), Rescaled(T.n.snap, T.n.custody, S.n.custody))
  BY DEF Match
<1> HIDE DEF T, x, d, p, u, R
<1>9. T \in State /\ Fit(T.v)
  BY <1>2 DEF StandsAt, Stand
<1>10. Fine(H.v, P, C)
  BY <1>2, <1>5, <1>9, LenderReservedRuns
<1>11. H \in State /\ H.n = [T.n EXCEPT !.held = @ + x]
  BY <1>2, LenderReservedStand DEF StandsAt, HeldMore
<1>12. /\ H.n.principal = p /\ H.n.collateral = d /\ H.n.held = h + x /\ H.n.surplus = S.n.surplus
  BY <1>6, <1>9, <1>11 DEF State, Loan
<1> HIDE DEF H
<1>13. P = Pot(S.v, Principal) /\ C = Pot(S.v, Collateral)
  BY <1>4 DEF Affords
<1>14. ASSUME R.v = H.v, R.n.principal = p, R.n.collateral = d, R.n.held = h + x, R.n.surplus = S.n.surplus
       PROVE  Goes(S, R)
  <2>1. R.n.held + R.n.surplus.amount + R.n.principal = h + x + s + p
    BY <1>3, <1>14
  <2>2. h + x + s + p <= h + s + S.n.principal
    BY <1>2, <1>3, <1>7
  <2>3. Milder(S.n, R.n)
    BY <1>3, <1>7, <1>14, <2>1, <2>2 DEF Milder
  <2> QED BY <1>10, <1>13, <1>14, <2>3 DEF Goes
<1>15. CASE p = 0
  <2>1. R = MatchedInFull(T, x)
    BY <1>6, <1>8, <1>15
  <2>2. Fine(R.v, P, C)
    BY <1>2, <1>5, <2>1, MatchedInFullRuns
  <2>3. R.n.status \notin Open
    <3>1. Valid(R) /\ R.n.status = "InternalMatched"
      BY <1>1, <1>2, <1>3, <1>7, <2>1, MatchedInFullValid, SMTT(60)
    <3> QED BY <3>1 DEF Open
  <2> QED BY <1>13, <2>2, <2>3, ClosingGoes DEF R
<1>16. CASE p # 0 /\ ~ pending
  <2>1. R = H
    BY <1>6, <1>8, <1>16 DEF H
  <2> QED BY <1>12, <1>14, <2>1 DEF R
<1>17. CASE p # 0 /\ pending /\ u = 0 /\ TopUp(T) > 0
  <2>1. R = MatchedOut(H, TopUp(T))
    BY <1>6, <1>8, <1>17 DEF H
  <2> HIDE DEF pending
  <2>2. R.v = H.v /\ R.n.status = "InternalMatched"
    BY <1>11, <2>1 DEF MatchedOut, State, Loan
  <2> QED BY <1>10, <1>13, <2>2, ClosingGoes DEF R, Open
<1>18. CASE p # 0 /\ pending /\ ~ (u = 0 /\ TopUp(T) > 0)
  <2>1. R = ClaimsOfSnapshot(H, Rescaled(T.n.snap, T.n.custody, S.n.custody))
    BY <1>6, <1>8, <1>18 DEF H
  <2>2. /\ R.v = H.v /\ R.n.principal = H.n.principal /\ R.n.held = H.n.held
        /\ R.n.surplus = H.n.surplus /\ R.n.collateral = H.n.collateral
    BY <1>11, <2>1, SnapshotClaimsLaws
  <2> QED BY <1>12, <1>14, <2>2 DEF R
<1> QED BY <1>15, <1>16, <1>17, <1>18 DEF R

LEMMA SameGoes ==
    ASSUME NEW S \in State, Ok(S.v), NEW T, T.v = S.v, T.n.principal = S.n.principal,
           T.n.collateral = S.n.collateral, T.n.held = S.n.held, T.n.surplus = S.n.surplus
    PROVE  Goes(S, T)
<1>1. S.n.principal \in Nat /\ S.n.collateral \in Nat /\ S.n.held \in Nat /\ S.n.surplus.amount \in Nat
  BY DEF State, Loan, Claim
<1> QED BY <1>1 DEF Goes, Fine, Milder

LEMMA InternalMatchesRun ==
    ASSUME NEW S, Valid(S), S.n.status \in Open, Ok(S.v), Backed(S), NEW T \in InternalMatches(S)
    PROVE  Goes(S, T)
<1>1. PICK m \in Matches(S.n) : T = Match(S, m)
  BY DEF InternalMatches
<1> QED BY <1>1, MatchRuns

LEMMA AutoDispatchRuns ==
    ASSUME NEW S, Valid(S), S.n.status \in Open, Ok(S.v), Backed(S), NEW T \in AutoDispatch(S)
    PROVE  Goes(S, T)
<1>1. CASE T \in InternalMatches(S)
  BY <1>1, InternalMatchesRun
<1>2. CASE T = S
  BY <1>2, SameGoes DEF Valid
<1> QED BY <1>1, <1>2 DEF AutoDispatch

-----------------------------------------------------------------------------
(* A retry that fails goes through.                                        *)

LEMMA TriedRuns ==
    ASSUME NEW S \in State, Ok(S.v)
    PROVE  Goes(S, Tried(S))
<1> DEFINE T == Tried(S)
<1>1. S.n \in Loan
  BY DEF State
<1>2. T = [S EXCEPT !.n.snap.retried = TRUE]
  BY DEF Tried
<1> HIDE DEF T
<1>3. T.v = S.v /\ T.n = [S.n EXCEPT !.snap.retried = TRUE]
  BY <1>2 DEF State
<1>4. /\ T.n.principal = S.n.principal /\ T.n.collateral = S.n.collateral /\ T.n.held = S.n.held
      /\ T.n.surplus = S.n.surplus
  BY <1>1, <1>3 DEF Loan
<1> QED BY <1>3, <1>4, SameGoes DEF T

LEMMA RowGoes ==
    ASSUME NEW S, Valid(S), S.n.status = "FallbackPending", NEW P, NEW C, Fine(S.v, P, C)
    PROVE  Fine(RequireSnapshotMatchesRow(S).v, P, C)
<1>1. S \in State /\ SnapshotTotal(S.n) = S.n.custody
  BY DEF Valid, Coherent
<1>2. Fit(S.v)
  BY OpenStand DEF Open, Stand
<1> QED BY <1>1, <1>2, RowRuns

LEMMA PulledRuns ==
    ASSUME NEW S, NEW h, NEW s, NEW c, OpenOver(S, h, s, c), S.n.status = "FallbackPending",
           NEW rl, NEW rh, NEW rb, StandsAt(S, h, 0, s, c, 0, 0, c, rl, rh, rb),
           NEW P, NEW C, Fine(S.v, P, C), NEW p \in Nat
    PROVE  Fine(PulledForRetry(S, p).v, P, C)
<1> DEFINE R == RequireSnapshotMatchesRow(S)
           o == S.n.custody
           e == c - o
           L == LowerLien(R.v, o)
           W == PullToDiamond(L, Collateral, o, p)
           T == PulledForRetry(S, p)
<1>1. S \in State /\ S.n \in Loan /\ Fit(S.v)
  BY DEF StandsAt, State, Stand
<1>2. o \in Nat /\ o <= c /\ c \in Nat
  BY <1>1, CustodyTypes
<1>3. StandsAt(R, h, 0, s, c, 0, 0, c, rl, rh, rb) /\ R.n = S.n
  BY RowStand DEF SameLoan
<1>4. Fine(R.v, P, C)
  <2>1. SnapshotTotal(S.n) = S.n.custody
    BY DEF OpenOver, Coherent
  <2> QED BY <1>1, <2>1, RowRuns
<1>5. T = [R EXCEPT !.v = W, !.n.custody = 0]
  BY DEF PulledForRetry, RequireVaultHeld
<1>6. R \in State /\ Stand(R.v, h, 0, s, c, 0, 0, c, rl, rh, rb)
  BY <1>3 DEF StandsAt
<1> HIDE DEF R, o, T
<1>7. Stand(L, h, 0, s, c, 0, 0, c - o, rl, rh, rb)
  BY <1>2, <1>6, LowerLienStand
<1>8. Fine(L, P, C)
  BY <1>2, <1>4, <1>6, LowerLienRuns DEF Stand
<1> HIDE DEF L
<1>9. Fine(W, P, C)
  <2> DEFINE z == 0
  <2>1. o \in Int /\ p \in Int /\ o <= c - e /\ 0 <= z + p
    BY <1>2
  <2>2. Stand(L, h, 0, s, c, 0, z, e, rl, rh, rb)
    BY <1>7
  <2> HIDE DEF z, e
  <2> QED BY <1>8, <2>1, <2>2, PullRuns
<1> HIDE DEF W
<1>10. T.v = W
  BY <1>5, <1>6 DEF State
<1> QED BY <1>9, <1>10 DEF T

LEMMA ShortfallLaws ==
    ASSUME NEW S \in State, NEW x \in Nat
    PROVE  LET T == AbsorbShortfall(S, x)
           IN  /\ T.v = S.v /\ T.n.principal = S.n.principal /\ T.n.held = S.n.held
               /\ T.n.surplus = S.n.surplus
<1> DEFINE T == AbsorbShortfall(S, x)
           U == [S EXCEPT !.n.collateral = Excess(@, x)]
           f == ShortSlices(S.n.snap, x)
<1>1. T = ClaimsOfSnapshot(U, f)
  BY DEF AbsorbShortfall, ShortSlices
<1>2. U.v = S.v /\ U.n = [S.n EXCEPT !.collateral = Excess(@, x)] /\ U = [v |-> U.v, n |-> U.n]
  BY DEF State
<1> HIDE DEF U, f, T
<1>3. S.n \in Loan /\ S.v \in Vaults
  BY DEF State
<1>4. Excess(S.n.collateral, x) \in Nat
  BY <1>3 DEF Excess, Loan
<1>5. U.n \in Loan /\ U.n.principal = S.n.principal /\ U.n.held = S.n.held /\ U.n.surplus = S.n.surplus
  BY <1>2, <1>3, <1>4 DEF Loan
<1>6. U \in State
  BY <1>2, <1>3, <1>5 DEF State
<1>7. /\ T.v = U.v /\ T.n.principal = U.n.principal /\ T.n.held = U.n.held /\ T.n.surplus = U.n.surplus
  BY <1>1, <1>6, SnapshotClaimsLaws
<1> QED BY <1>2, <1>5, <1>7 DEF T

LEMMA RestoredRuns ==
    ASSUME NEW S, Valid(S), S.n.status = "FallbackPending", NEW P, NEW C, Fine(S.v, P, C),
           NEW p \in Nat, NEW r \in Nat, r <= S.n.custody,
           NEW T, T = CustodyIntoVault(PulledForRetry(S, p), p, r),
           NEW R, R = IF r < S.n.custody THEN AbsorbShortfall(T, S.n.custody - r) ELSE T
    PROVE  /\ Fine(R.v, P, C)
           /\ R.n.principal = S.n.principal /\ R.n.held = S.n.held /\ R.n.surplus = S.n.surplus
<1>1. PICK h, s, c, rl, rh, rb :
              /\ OpenOver(S, h, s, c) /\ StandsAt(S, h, 0, s, c, 0, 0, c, rl, rh, rb)
              /\ Reserves(h, 0, s, rl, rh, rb)
  BY Opened DEF Open
<1> DEFINE o == S.n.custody
           Q == PulledForRetry(S, p)
           e == c - o
<1>2. S \in State /\ S.n \in Loan /\ o \in Nat
  BY <1>1 DEF StandsAt, State, Loan
<1>3. e \in Nat /\ Emptied(S, Q) /\ StandsAt(Q, h, 0, s, e, 0, p, e, rl, rh, rb)
  BY <1>1, PulledStand
<1>4. Fine(Q.v, P, C)
  BY <1>1, PulledRuns
<1>5. T = CustodyIntoVault(Q, p, r)
  OBVIOUS
<1> HIDE DEF Q, e
<1>6. Fine(T.v, P, C)
  <2> DEFINE x == p
             d == p
  <2>1. StandsAt(Q, h, 0, s, e, 0, d, e, rl, rh, rb) /\ x <= d /\ x \in Nat
    BY <1>3
  <2> HIDE DEF x, d
  <2>2. Fine(CustodyIntoVault(Q, x, r).v, P, C)
    BY <1>4, <2>1, CustodyRuns
  <2> QED BY <1>5, <2>2 DEF x
<1>7. T.n = [Q.n EXCEPT !.custody = @ + r] /\ T \in State
  <2>1. T.n = [Q.n EXCEPT !.custody = @ + r] /\ StandsAt(T, h, 0, s, e + r, 0, p - p, e + r, rl, rh, rb)
    BY <1>3, <1>5, CustodyStand
  <2> QED BY <2>1 DEF StandsAt
<1>8. T.n.principal = S.n.principal /\ T.n.held = S.n.held /\ T.n.surplus = S.n.surplus
  <2>1. Q.n = [S.n EXCEPT !.custody = 0]
    BY <1>3 DEF Emptied
  <2> QED BY <1>2, <1>7, <2>1 DEF Loan
<1>9. CASE r < o
  <2> DEFINE x == o - r
  <2>1. R = AbsorbShortfall(T, x) /\ x \in Nat
    BY <1>2, <1>9
  <2> HIDE DEF o, x
  <2>2. R.v = T.v /\ R.n.principal = T.n.principal /\ R.n.held = T.n.held /\ R.n.surplus = T.n.surplus
    <3>1. T \in State
      BY <1>7
    <3>2. LET A == AbsorbShortfall(T, x)
          IN  /\ A.v = T.v /\ A.n.principal = T.n.principal /\ A.n.held = T.n.held
              /\ A.n.surplus = T.n.surplus
      BY ONLY <2>1, <3>1, ShortfallLaws
    <3> QED BY ONLY <2>1, <3>2
  <2> QED BY <1>6, <1>8, <2>2
<1>10. CASE ~ (r < o)
  BY <1>6, <1>8, <1>10
<1> QED BY <1>9, <1>10

LEMMA RetryFailedRuns ==
    ASSUME NEW S, Valid(S), S.n.status = "FallbackPending", Ok(S.v), NEW T \in RetryFailed(S)
    PROVE  Goes(S, T)
<1> DEFINE o == S.n.custody
           P == Pot(S.v, Principal)
           B == Pot(S.v, Collateral)
<1>1. S \in State /\ S.n \in Loan /\ S.n.status \in Open /\ o \in Nat /\ S.n.collateral \in Nat /\ S.n.principal \in Nat
      /\ S.n.held \in Nat /\ S.n.surplus.amount \in Nat
  BY DEF Valid, State, Loan, Open, Claim
<1>2. Fine(S.v, P, B)
  BY DEF Fine
<1> HIDE DEF P, B
<1>3. ASSUME Fine(T.v, P, B), T.n.principal = S.n.principal, T.n.held = S.n.held, T.n.surplus = S.n.surplus,
             T.n.collateral <= S.n.collateral
      PROVE  Goes(S, T)
  BY <1>1, <1>3 DEF Goes, Milder, P, B
<1>4. CASE o = 0
  <2>1. T = RequireSnapshotMatchesRow(S)
    BY <1>4 DEF RetryFailed, RequireVaultHeld
  <2>2. T.n = S.n
    BY <1>1, <2>1, RowValid
  <2>3. Fine(T.v, P, B)
    BY <1>2, <2>1, RowGoes
  <2> QED BY <1>1, <1>3, <2>2, <2>3
<1>5. CASE o # 0
  <2>1. PICK p \in Delivered(Collateral, o) : \E r \in Delivered(Collateral, p) :
               LET C == CustodyIntoVault(PulledForRetry(S, p), p, r)
               IN  T = RequireSnapshotMatchesRow(IF r < o THEN AbsorbShortfall(C, o - r) ELSE C)
    BY <1>5 DEF RetryFailed
  <2>2. PICK r \in Delivered(Collateral, p) :
               LET C == CustodyIntoVault(PulledForRetry(S, p), p, r)
               IN  T = RequireSnapshotMatchesRow(IF r < o THEN AbsorbShortfall(C, o - r) ELSE C)
    BY <2>1
  <2>3. p \in Nat /\ p <= o
    BY <1>1, Cast, DeliveredTypes
  <2>4. r \in Nat /\ r <= p
    BY <2>3, Cast, DeliveredTypes
  <2> DEFINE C == CustodyIntoVault(PulledForRetry(S, p), p, r)
             R == IF r < o THEN AbsorbShortfall(C, o - r) ELSE C
  <2>5. r <= o
    BY <1>1, <2>3, <2>4
  <2>6. Valid(R) /\ Waits(R.n) /\ R.n.collateral = S.n.collateral - (o - r)
    BY <2>3, <2>4, <2>5, RestoredValid
  <2>7. /\ Fine(R.v, P, B)
        /\ R.n.principal = S.n.principal /\ R.n.held = S.n.held /\ R.n.surplus = S.n.surplus
    BY <1>2, <2>3, <2>4, <2>5, RestoredRuns
  <2>8. T = RequireSnapshotMatchesRow(R)
    BY <2>2
  <2> HIDE DEF R, C
  <2>9. R.n.status = "FallbackPending" /\ R.n.status \in Open
    BY <2>6 DEF Waits, Open
  <2>10. T.n = R.n
    BY <2>6, <2>8, <2>9, RowValid
  <2>11. Fine(T.v, P, B)
    BY <2>6, <2>7, <2>8, <2>9, RowGoes
  <2>12. T.n.collateral <= S.n.collateral
    BY <1>1, <2>4, <2>5, <2>6, <2>10
  <2> QED BY <1>3, <2>7, <2>10, <2>11, <2>12
<1> QED BY <1>4, <1>5

-----------------------------------------------------------------------------
(* The claim of the lender goes through.                                   *)

LEMMA DistributeRuns ==
    ASSUME NEW S, NEW lp, NEW lc, NEW bp, NEW bc, NEW got \in Nat, NEW dc, NEW k, NEW rl, NEW rh, NEW rb,
           StandsAt(S, lp, lc, bp, bc, got, dc, k, rl, rh, rb), NEW P, NEW C, Fine(S.v, P, C),
           NEW T \in DistributeRetryProceeds(S, got)
    PROVE  Fine(T.v, P, C)
<1> DEFINE l == AtMost(got, S.n.snap.lenderDue)
           t == AtMost(got - l, S.n.snap.treasuryDue)
           b == got - l - t
           A == Transfer(S.v, Diamond, Outside, Principal, t)
           B(y) == DepositLocked(A, Lender, Principal, l, y)
           C1(y, z) == DepositLocked(B(y), Borrower, Principal, b, z)
           V(y, z) == ReserveVpfi(C1(y, z), "borrowerProceeds", Borrower, Principal, z)
<1>1. S \in State /\ S.n \in Loan /\ Stand(S.v, lp, lc, bp, bc, got, dc, k, rl, rh, rb)
  BY DEF StandsAt, State
<1>2. S.n.snap.lenderDue \in Nat /\ S.n.snap.treasuryDue \in Nat
  BY <1>1 DEF Loan, Snapshot
<1>3. l \in Nat /\ l <= got
  BY <1>2 DEF AtMost
<1>4. t \in Nat /\ t <= got - l
  <2> HIDE DEF l
  <2> QED BY <1>2, <1>3 DEF AtMost
<1>5. T \in {Distributed(S, l, t, b, y, z) : y \in Delivered(Principal, l), z \in Delivered(Principal, b)}
  BY DEF DistributeRetryProceeds
<1> HIDE DEF l, t
<1>6. b \in Nat /\ b <= got
  BY <1>3, <1>4
<1> HIDE DEF b
<1>7. PICK y \in Delivered(Principal, l), z \in Delivered(Principal, b) : T = Distributed(S, l, t, b, y, z)
  BY <1>5
<1>8. T = [S EXCEPT !.v = V(y, z), !.n.lenderClaim = Pays(Principal, y), !.n.borrowerClaim = PaysIfAny(Principal, z)]
  BY <1>7 DEF Distributed
<1> HIDE DEF V
<1>9. y \in Nat /\ y <= l /\ z \in Nat /\ z <= b
  BY <1>3, <1>6, Cast, DeliveredTypes
<1>10. Stand(A, lp, lc, bp, bc, got - t, dc, k, rl, rh, rb) /\ Fine(A, P, C)
  <2>1. t \in Int /\ t <= got
    BY <1>3, <1>4
  <2> DEFINE g == got
  <2>2. Stand(S.v, lp, lc, bp, bc, g, dc, k, rl, rh, rb) /\ t <= g
    BY <1>1, <2>1
  <2> HIDE DEF g
  <2>3. Fine(Transfer(S.v, Diamond, Outside, Principal, t), P, C)
    BY <2>1, <2>2, TransferRuns
  <2>4. Stand(A, lp, lc, bp, bc, got - t, dc, k, rl, rh, rb)
    BY <1>1, <2>1, TransferStand
  <2> QED BY <2>3, <2>4
<1> DEFINE o == got - t
<1> HIDE DEF A, o
<1>11. Stand(A, lp, lc, bp, bc, o, dc, k, rl, rh, rb) /\ l \in Int /\ y \in Int /\ l <= o /\ Lender \in {Lender, Borrower}
  BY <1>3, <1>4, <1>9, <1>10 DEF o
<1>12. Stand(B(y), lp + y, lc, bp, bc, o - l, dc, k, rl, rh, rb) /\ Fine(B(y), P, C)
  <2>1. Stand(DepositLocked(A, Lender, Principal, l, y), lp + y, lc, bp, bc, o - l, dc, k, rl, rh, rb)
    BY <1>11, LockLenderStand
  <2>2. Fine(DepositLocked(A, Lender, Principal, l, y), P, C)
    BY <1>9, <1>10, <1>11, LockPrincipalRuns
  <2> QED BY <2>1, <2>2
<1> DEFINE p == o - l
           q == lp + y
<1> HIDE DEF p, q, B
<1>13. Stand(B(y), q, lc, bp, bc, p, dc, k, rl, rh, rb) /\ Fine(B(y), P, C)
  BY <1>12 DEF p, q
<1>14. b \in Int /\ z \in Int /\ b <= p /\ Borrower \in {Lender, Borrower}
  BY <1>3, <1>4, <1>6, <1>9 DEF p, o, b
<1>15. Fine(C1(y, z), P, C) /\ Fit(C1(y, z))
  <2> DEFINE A1 == B(y)
  <2>1. Stand(A1, q, lc, bp, bc, p, dc, k, rl, rh, rb) /\ Fine(A1, P, C)
    BY <1>13
  <2> HIDE DEF A1
  <2>2. Fine(DepositLocked(A1, Borrower, Principal, b, z), P, C)
    BY <1>9, <1>14, <2>1, LockPrincipalRuns
  <2>3. Stand(DepositLocked(A1, Borrower, Principal, b, z), q, lc, bp + z, bc, p - b, dc, k, rl, rh, rb)
    BY <1>14, <2>1, LockBorrowerStand
  <2> QED BY <2>2, <2>3 DEF Stand, A1
<1> HIDE DEF C1
<1>16. V(y, z) = ReserveVpfi(C1(y, z), "borrowerProceeds", Borrower, Principal, z)
  BY DEF V, C1, B, A
<1>17. Fine(V(y, z), P, C)
  <2> DEFINE A1 == C1(y, z)
  <2>1. Fine(A1, P, C) /\ Fit(A1)
    BY <1>15
  <2> HIDE DEF A1
  <2>2. Fine(ReserveVpfi(A1, "borrowerProceeds", Borrower, Principal, z), P, C)
    BY <1>9, <2>1, ReserveVpfiBorrowerRuns
  <2> QED BY <1>16, <2>2 DEF A1
<1>18. T.v = V(y, z)
  BY <1>1, <1>8 DEF State
<1> QED BY <1>17, <1>18

LEMMA RetrySucceededRuns ==
    ASSUME NEW S, NEW h, NEW s, NEW c, OpenOver(S, h, s, c), S.n.status = "FallbackPending",
           NEW rl, NEW rh, NEW rb, StandsAt(S, h, 0, s, c, 0, 0, c, rl, rh, rb),
           NEW P, NEW C, Affords(S, h, s, c, P, C), NEW T \in RetrySucceeded(S)
    PROVE  Fine(T.v, P, C)
<1> DEFINE Q(p, got) == [PulledForRetry(S, p) EXCEPT !.v = Swapped(@, p, got)]
           e == c - S.n.custody
<1>1. \E p \in Delivered(Collateral, S.n.custody), got \in 0..MaxProceeds : T \in DistributeRetryProceeds(Q(p, got), got)
  BY RetryYields
<1>2. PICK p \in Delivered(Collateral, S.n.custody), got \in 0..MaxProceeds : T \in DistributeRetryProceeds(Q(p, got), got)
  BY <1>1
<1>3. p \in Nat /\ got \in Nat /\ got <= MaxProceeds /\ MaxProceeds \in Nat
  <2>1. S \in State
    BY DEF StandsAt
  <2>2. S.n.custody \in Nat
    BY <2>1, CustodyTypes
  <2> QED BY <2>2, Cast, DeliveredTypes, FallbackLoanAssumption
<1> DEFINE O == PulledForRetry(S, p)
           R == Q(p, got)
<1>4. e \in Nat /\ StandsAt(O, h, 0, s, e, 0, p, e, rl, rh, rb)
  BY <1>3, PulledStand
<1>5. Fine(O.v, P, C)
  <2>1. Fine(S.v, P, C)
    BY DEF Affords
  <2> QED BY <1>3, <2>1, PulledRuns
<1>6. R = [O EXCEPT !.v = Swapped(@, p, got)]
  OBVIOUS
<1> HIDE DEF O, R, e
<1>7. O \in State /\ Stand(O.v, h, 0, s, e, 0, p, e, rl, rh, rb)
  BY <1>4 DEF StandsAt
<1> DEFINE W == Swapped(O.v, p, got)
<1>8. Stand(W, h, 0, s, e, got, 0, e, rl, rh, rb)
  <2>1. p \in Int /\ got \in Int
    BY <1>3
  <2>2. Stand(W, h, 0, s, e, 0 + got, p - p, e, rl, rh, rb)
    BY <1>7, <2>1, SwapStand
  <2>3. 0 + got = got /\ p - p = 0
    BY <1>3
  <2> QED BY <2>2, <2>3
<1>9. Fine(W, P, C)
  <2> DEFINE x == p
             g == got
             z == 0
  <2>1. h \in Nat /\ s \in Nat
    <3>1. S \in State
      BY DEF StandsAt
    <3> QED BY <3>1, OpenOverTypes
  <2>2. Stand(O.v, h, 0, s, e, z, p, e, rl, rh, rb) /\ x \in Int /\ x <= p /\ g \in Int /\ g <= P - h - s - z
    BY <1>3, <1>7, <2>1 DEF Affords
  <2> HIDE DEF x, g, z
  <2>3. Fine(Swapped(O.v, x, g), P, C)
    BY <1>5, <2>2, SwapRuns
  <2> QED BY <2>3 DEF x, g
<1>10. R = [O EXCEPT !.v = W]
  BY <1>6
<1> HIDE DEF W
<1>11. R.v = W /\ R.n = O.n /\ R = [v |-> R.v, n |-> R.n]
  BY <1>7, <1>10 DEF State
<1>12. W \in Vaults
  BY <1>8, FitTypes DEF Stand
<1>13. StandsAt(R, h, 0, s, e, got, 0, e, rl, rh, rb)
  BY <1>7, <1>8, <1>11, <1>12 DEF StandsAt, State
<1>14. T \in DistributeRetryProceeds(R, got)
  BY <1>2 DEF R
<1>15. Fine(R.v, P, C)
  BY <1>9, <1>11
<1> QED BY <1>3, <1>13, <1>14, <1>15, DistributeRuns

LEMMA DisposedRuns ==
    ASSUME NEW S, NEW h, NEW s, NEW c, OpenOver(S, h, s, c), S.n.status = "FallbackPending",
           NEW rl, NEW rh, NEW rb, StandsAt(S, h, 0, s, c, 0, 0, c, rl, rh, rb),
           NEW P, NEW C, Affords(S, h, s, c, P, C), NEW y \in Nat, y <= S.n.snap.lender
    PROVE  Fine(Disposed(S, Lender, y).v, P, C)
<1> DEFINE t == S.n.snap.treasury
           l == S.n.snap.lender
           R == RequireSnapshotMatchesRow(S)
           o == S.n.custody
           A == LowerLien(R.v, t)
           V == VaultWithdrawERC20(A, Borrower, Collateral, Outside, t)
           B == LowerLien(V, l)
           W == DepositFromVault(B, Lender, Collateral, l, y)
           T == Disposed(S, Lender, y)
           k == c - t
           e == k - l
<1>1. S \in State /\ S.n \in Loan /\ Fit(S.v) /\ Fine(S.v, P, C) /\ C \in Int /\ c <= C
  BY DEF StandsAt, State, Stand, Affords
<1>2. /\ o \in Nat /\ o <= c /\ c \in Nat /\ S.n.snap \in Snapshot /\ Slices3(S.n.snap, o)
  BY <1>1, CustodyTypes
<1>3. /\ t \in Nat /\ l \in Nat /\ S.n.snap.borrower \in Nat /\ l + t + S.n.snap.borrower = o
  BY <1>2 DEF Snapshot, Slices3
<1>4. t <= c /\ k \in Nat /\ l <= k /\ e \in Nat /\ k <= C /\ k <= c
  BY <1>1, <1>2, <1>3
<1>5. StandsAt(R, h, 0, s, c, 0, 0, c, rl, rh, rb)
  BY RowStand
<1>6. Fine(R.v, P, C)
  <2>1. SnapshotTotal(S.n) = S.n.custody
    BY DEF OpenOver, Coherent
  <2> QED BY <1>1, <2>1, RowRuns
<1>7. R \in State /\ Stand(R.v, h, 0, s, c, 0, 0, c, rl, rh, rb)
  BY <1>5 DEF StandsAt
<1>8. T = IF o = 0 THEN R ELSE [R EXCEPT !.v = W, !.n.custody = 0]
  BY DEF Disposed, RequireVaultHeld
<1>9. y <= l
  OBVIOUS
<1> HIDE DEF R, T, o, t, l
<1>10. Stand(A, h, 0, s, c, 0, 0, k, rl, rh, rb)
  BY <1>3, <1>4, <1>7, LowerLienStand
<1>11. Fine(A, P, C)
  BY <1>3, <1>4, <1>6, <1>7, LowerLienRuns DEF Stand
<1> HIDE DEF A
<1>12. Stand(V, h, 0, s, k, 0, 0, k, rl, rh, rb)
  <2>1. t \in Int
    BY <1>3
  <2> HIDE DEF k
  <2>2. Stand(V, h, 0, s, c - t, 0, 0, k, rl, rh, rb)
    BY <1>10, <2>1, WithdrawBorrowerCollateralStand
  <2> QED BY <2>2 DEF k
<1>13. Fine(V, P, C)
  <2>1. t \in Int /\ t <= c - k
    BY <1>2, <1>3
  <2> HIDE DEF k
  <2> QED BY <1>10, <1>11, <2>1, WithdrawCollateralRuns
<1> HIDE DEF V
<1>14. Stand(B, h, 0, s, k, 0, 0, e, rl, rh, rb)
  <2>1. k \in Nat /\ l <= k
    BY <1>4
  <2> HIDE DEF k
  <2> QED BY <1>3, <1>12, <2>1, LowerLienStand
<1>15. Fine(B, P, C)
  <2>1. k \in Nat /\ l <= k
    BY <1>4
  <2> HIDE DEF k
  <2> QED BY <1>3, <1>12, <1>13, <2>1, LowerLienRuns DEF Stand
<1> HIDE DEF B
<1>16. Fine(W, P, C)
  <2> DEFINE lc == 0
             dc == 0
  <2>1. Stand(B, h, lc, s, k, 0, dc, e, rl, rh, rb) /\ l \in Int /\ y \in Int /\ l <= k - e /\ lc + k + dc <= C
    BY <1>1, <1>3, <1>4, <1>14
  <2> HIDE DEF lc, dc, k, e
  <2> QED BY <1>9, <1>15, <2>1, FromVaultLenderRuns
<1> HIDE DEF W
<1>17. T.v \in {R.v, W}
  BY <1>7, <1>8 DEF State
<1> QED BY <1>6, <1>16, <1>17 DEF T

LEMMA DefaultedKeepsVaults ==
    ASSUME NEW S \in State
    PROVE  FallbackDefaulted(S).v = S.v
<1> DEFINE T == IF S.n.status = "FallbackPending" THEN [S EXCEPT !.n.status = "Defaulted"] ELSE S
<1>1. T \in [v : {S.v}, n : {T.n}]
  BY DEF State
<1>2. FallbackDefaulted(S).v = T.v
  BY <1>1 DEF FallbackDefaulted
<1> QED BY <1>1, <1>2

(* Both ends of a pending fallback, where the others can afford them.      *)
LEMMA DisposedToLenderRuns ==
    ASSUME NEW S, Valid(S), S.n.status = "FallbackPending", Ok(S.v), Backed(S), NEW T \in DisposedToLender(S)
    PROVE  T \in State /\ Fine(T.v, Pot(S.v, Principal), Pot(S.v, Collateral))
<1> DEFINE h == S.n.held
           s == S.n.surplus.amount
           c == S.n.collateral
           l == S.n.snap.lender
<1>1. PICK rl, rh, rb : StandsAt(S, h, 0, s, c, 0, 0, c, rl, rh, rb)
  BY PendingStand
<1>2. S \in State /\ S.n \in Loan /\ OpenOver(S, h, s, c) /\ l \in Nat /\ S.n.lenderClaim \in Claim
  BY PendingTypes
<1> HIDE DEF h, s, c
<1>3. PICK P, C : Affords(S, h, s, c, P, C)
  BY <1>2, BackedAffords
<1>4. PICK y \in Delivered(Collateral, l) : T = [Disposed(S, Lender, y) EXCEPT !.n.lenderClaim.amount = y]
  BY DEF DisposedToLender
<1>5. y \in Nat /\ y <= l
  BY <1>2, <1>4, Cast, DeliveredTypes
<1> DEFINE D == Disposed(S, Lender, y)
<1>6. Fine(D.v, P, C)
  BY <1>1, <1>2, <1>3, <1>5, DisposedRuns
<1>7. D \in State /\ D.n = [S.n EXCEPT !.custody = 0]
  <2> DEFINE t == S.n.snap.treasury
             e == (c - t) - l
  <2>1. t = S.n.snap.treasury /\ l = S.n.snap.lender /\ e = (c - t) - l /\ Lender \in {Lender, Outside}
    OBVIOUS
  <2> HIDE DEF t, l, e, D
  <2>2. Emptied(S, Disposed(S, Lender, y)) /\ StandsAt(Disposed(S, Lender, y), h, Of(Lender, Lender, y), s, e, 0, 0, e, rl, rh, rb)
    BY <1>1, <1>2, <1>5, <2>1, DisposedStand
  <2> QED BY <2>2 DEF D, Emptied, StandsAt
<1> HIDE DEF D
<1>8. T.v = D.v /\ T.n = [D.n EXCEPT !.lenderClaim.amount = y] /\ T = [v |-> T.v, n |-> T.n]
  <2>1. T = [D EXCEPT !.n.lenderClaim.amount = y]
    BY <1>4 DEF D
  <2> QED BY <1>7, <2>1 DEF State
<1>9. T \in State
  <2> DEFINE m == [D.n.lenderClaim EXCEPT !.amount = y]
  <2>1. D.n \in Loan /\ D.v \in Vaults
    BY <1>7 DEF State
  <2>2. m \in Claim /\ T.n = [D.n EXCEPT !.lenderClaim = m]
    BY <1>5, <1>8, <2>1 DEF Loan, Claim
  <2> HIDE DEF m
  <2>3. T.n \in Loan
    BY <2>1, <2>2 DEF Loan
  <2> QED BY <1>8, <2>1, <2>3 DEF State
<1> QED BY <1>3, <1>6, <1>8, <1>9 DEF Affords

LEMMA RetriedRuns ==
    ASSUME NEW S, Valid(S), S.n.status = "FallbackPending", Ok(S.v), Backed(S), NEW T \in RetrySucceeded(S)
    PROVE  T \in State /\ Fine(T.v, Pot(S.v, Principal), Pot(S.v, Collateral))
<1> DEFINE h == S.n.held
           s == S.n.surplus.amount
           c == S.n.collateral
           e == c - S.n.custody
<1>1. PICK rl, rh, rb : StandsAt(S, h, 0, s, c, 0, 0, c, rl, rh, rb)
  BY PendingStand
<1>2. S \in State /\ OpenOver(S, h, s, c)
  BY PendingTypes
<1> HIDE DEF h, s, c, e
<1>3. PICK P, C : Affords(S, h, s, c, P, C)
  BY <1>2, BackedAffords
<1>4. Fine(T.v, P, C)
  BY <1>1, <1>2, <1>3, RetrySucceededRuns
<1>5. T \in State
  <2>1. e = c - S.n.custody
    BY DEF e
  <2>2. PICK y, z : StandsAt(T, h + y, 0, s + z, e, 0, 0, e, rl, rh, rb + IfVpfi(Principal, z))
    BY <1>1, <1>2, <2>1, RetrySucceededStand
  <2> QED BY <2>2 DEF StandsAt
<1> QED BY <1>3, <1>4, <1>5 DEF Affords

LEMMA TwoGoes ==
    ASSUME NEW R, NEW S, NEW T, Goes(R, S), Fine(T.v, Pot(S.v, Principal), Pot(S.v, Collateral))
    PROVE  Fine(T.v, Pot(R.v, Principal), Pot(R.v, Collateral))
BY DEF Goes, Fine

(* However a fallback is resolved.                                         *)
LEMMA FallbackResolvedRuns ==
    ASSUME NEW S, Valid(S), S.n.status = "FallbackPending", Ok(S.v), Backed(S), NEW T \in FallbackResolved(S)
    PROVE  Fine(FallbackDefaulted(T).v, Pot(S.v, Principal), Pot(S.v, Collateral))
<1> DEFINE Failed(A)   == UNION {DisposedToLender(R) : R \in RetryFailed(Tried(A))}
           Retried(A)  == IF A.n.snap.retried THEN {} ELSE RetrySucceeded(Tried(A)) \cup Failed(A)
           Resolved(A) == IF ~ A.n.snap.active THEN {A}
                          ELSE {Inactive(R) : R \in DisposedToLender(A) \cup Retried(A)}
<1>1. S.n.snap.active /\ S.n.status \in Open /\ S \in State
  BY PendingTypes DEF Open
<1>2. T \in UNION {Resolved(A) : A \in AutoDispatch(S)}
  BY <1>1 DEF FallbackResolved
<1> HIDE DEF Resolved
<1>3. PICK A \in AutoDispatch(S) : T \in Resolved(A)
  BY <1>2
<1>4. Followed(S, A) /\ Goes(S, A)
  BY <1>1, AutoDispatchFollows, AutoDispatchRuns
<1>5. Valid(A) /\ A \in State /\ Coherent(A.n)
  BY <1>4 DEF Followed, Valid
<1>6. Backed(A) /\ Ok(A.v)
  BY <1>1, <1>4, <1>5, StaysBacked
<1>7. CASE ~ A.n.snap.active
  <2>1. T = A
    BY <1>3, <1>7 DEF Resolved
  <2>2. FallbackDefaulted(A).v = A.v
    BY <1>5, DefaultedKeepsVaults
  <2> QED BY <1>4, <2>1, <2>2 DEF Goes
<1>8. CASE A.n.snap.active
  <2>1. A.n.status = "FallbackPending" /\ A.n.status \in Open
    BY <1>5, <1>8 DEF Coherent, Open
  <2>2. T \in {Inactive(R) : R \in DisposedToLender(A) \cup Retried(A)}
    BY <1>3, <1>8 DEF Resolved
  <2> HIDE DEF Retried
  <2>3. PICK R \in DisposedToLender(A) \cup Retried(A) : T = Inactive(R)
    BY <2>2
  <2>4. ASSUME R \in State, Fine(R.v, Pot(A.v, Principal), Pot(A.v, Collateral))
        PROVE  Fine(FallbackDefaulted(T).v, Pot(S.v, Principal), Pot(S.v, Collateral))
    <3>1. FallbackDefaulted(Inactive(R)).v = R.v
      BY <2>4, ResolvedKeepsVaults
    <3> QED BY <1>4, <2>3, <2>4, <3>1, TwoGoes
  <2>5. CASE R \in DisposedToLender(A)
    BY <1>5, <1>6, <2>1, <2>4, <2>5, DisposedToLenderRuns
  <2>6. CASE R \in Retried(A)
    <3> DEFINE B == Tried(A)
    <3>1. R \in RetrySucceeded(B) \cup Failed(A)
      BY <2>6 DEF Retried
    <3>2. Failed(A) = UNION {DisposedToLender(Q) : Q \in RetryFailed(B)}
      OBVIOUS
    <3>3. Valid(B) /\ B.n.status = "FallbackPending" /\ Goes(A, B)
      BY <1>5, <1>6, <2>1, TriedValid, TriedRuns
    <3> HIDE DEF Failed, B
    <3>4. Backed(B) /\ Ok(B.v) /\ B \in State /\ B.n.status \in Open
      <4>1. B \in State /\ B.n.status \in Open
        BY <3>3 DEF Valid, Open
      <4> QED BY <1>5, <1>6, <2>1, <3>3, <4>1, StaysBacked
    <3>5. CASE R \in RetrySucceeded(B)
      <4>1. R \in State /\ Fine(R.v, Pot(B.v, Principal), Pot(B.v, Collateral))
        BY <3>3, <3>4, <3>5, RetriedRuns
      <4>2. Fine(R.v, Pot(A.v, Principal), Pot(A.v, Collateral))
        BY <3>3, <4>1, TwoGoes
      <4> QED BY <2>4, <4>1, <4>2
    <3>6. CASE R \in Failed(A)
      <4>1. PICK Q \in RetryFailed(B) : R \in DisposedToLender(Q)
        BY <3>2, <3>6
      <4>2. Valid(Q) /\ Q.n.status = "FallbackPending"
        BY <3>3, <4>1, RetryFailedFollows DEF Followed
      <4>3. Goes(B, Q) /\ Q \in State
        BY <3>3, <3>4, <4>1, <4>2, RetryFailedRuns DEF Valid
      <4>4. Backed(Q) /\ Ok(Q.v)
        BY <3>4, <4>3, StaysBacked
      <4>5. R \in State /\ Fine(R.v, Pot(Q.v, Principal), Pot(Q.v, Collateral))
        BY <4>1, <4>2, <4>4, DisposedToLenderRuns
      <4>6. Fine(R.v, Pot(B.v, Principal), Pot(B.v, Collateral))
        BY <4>3, <4>5, TwoGoes
      <4>7. Fine(R.v, Pot(A.v, Principal), Pot(A.v, Collateral))
        BY <3>3, <4>6, TwoGoes
      <4> QED BY <2>4, <4>5, <4>7
    <3> QED BY <3>1, <3>5, <3>6
  <2> QED BY <2>3, <2>5, <2>6
<1> QED BY <1>7, <1>8

(* The lender of a closed loan is paid.                                    *)
LEMMA LenderPaidRuns ==
    ASSUME NEW S, Ready(S), Ok(S.v)
    PROVE  Ok(LenderPaid(S).v)
<1>1. PICK rl, rh, rb :
          Stand(S.v, OwedToLender(S.n, Principal), OwedToLender(S.n, Collateral), OwedToBorrower(S, Principal),
                OwedToBorrower(S, Collateral), 0, 0, OwedToBorrower(S, Collateral), rl, rh, rb)
  BY DEF Ready
<1> DEFINE c == S.n.lenderClaim
           x == c.amount
           h == S.n.held
           bp == OwedToBorrower(S, Principal)
           bc == OwedToBorrower(S, Collateral)
           V1 == Release(S.v, "lenderProceeds", Lender)
           V == Release(V1, "heldForLender", Lender)
           W == PaidOut(V, Lender, c.asset, x)
           Y == PaidOut(W, Lender, Principal, h)
           T == LenderCollects(S)
           P == Pot(S.v, Principal)
           C == Pot(S.v, Collateral)
<1>2. S \in State /\ S.n \in Loan /\ Coherent(S.n) /\ S.n.status \in Closed /\ ~ c.claimed /\ x \in Nat /\ h \in Nat
  BY DEF Ready, State, Loan, Claim
<1>3. x > 0 => c.asset \in {Principal, Collateral}
  BY <1>2 DEF Coherent
<1>4. OwedToLender(S.n, Principal) = Of(c.asset, Principal, x) + h
      /\ OwedToLender(S.n, Collateral) = Of(c.asset, Collateral, x)
  BY <1>2, Cast DEF OwedToLender, Of
<1>5. T = [S EXCEPT !.v = Y, !.n.lenderClaim.claimed = TRUE]
  BY DEF LenderCollects
<1> DEFINE u == Of(c.asset, Principal, x)
           w == Of(c.asset, Collateral, x)
           a == c.asset
           p == u + h
<1>7. u \in Nat /\ w \in Nat /\ p \in Nat /\ h <= p
  BY <1>2 DEF Of
<1>8. Stand(S.v, p, w, bp, bc, 0, 0, bc, rl, rh, rb)
  BY <1>1, <1>4
<1>9. Fine(S.v, P, C)
  BY DEF Fine
<1> HIDE DEF bp, bc, P, C
<1>10. (x > 0 => x <= Amt(a, p, w)) /\ p - u = h /\ w - w = 0
  <2>1. CASE a = Principal
    BY <1>2, <1>7, <2>1, Cast DEF Of, Amt
  <2>2. CASE a = Collateral
    BY <1>2, <1>7, <2>2, Cast DEF Of, Amt
  <2> QED BY <1>2, <1>3, <1>7, <2>1, <2>2
<1>11. p - Of(a, Principal, x) = h /\ w - Of(a, Collateral, x) = 0
  BY <1>10
<1> HIDE DEF p, u, w, x, a, T, h
<1>12. Stand(V1, p, w, bp, bc, 0, 0, bc, 0, rh, rb) /\ Fine(V1, P, C)
  <2>1. Stand(V1, p, w, bp, bc, 0, 0, bc, 0, rh, rb)
    BY <1>8, ReleaseLenderStand
  <2> QED BY <1>8, <1>9, <2>1, ReleaseRuns DEF Stand
<1> HIDE DEF V1
<1>13. Stand(V, p, w, bp, bc, 0, 0, bc, 0, 0, rb) /\ Fine(V, P, C)
  <2>1. Stand(V, p, w, bp, bc, 0, 0, bc, 0, 0, rb)
    BY <1>12, ReleaseHeldStand
  <2> QED BY <1>12, <2>1, ReleaseRuns DEF Stand
<1> HIDE DEF V
<1>14. W = PaidOut(V, Lender, a, x) /\ (x > 0 => a \in {Principal, Collateral}) /\ x \in Nat
  BY <1>2, <1>3 DEF a, x
<1> HIDE DEF W, c
<1>15. Stand(W, h, 0, bp, bc, 0, 0, bc, 0, 0, rb)
  <2>1. Stand(PaidOut(V, Lender, a, x), p - Of(a, Principal, x), w - Of(a, Collateral, x), bp, bc, 0, 0, bc, 0, 0, rb)
    BY <1>13, <1>14, PaidOutStand
  <2> QED BY <1>11, <1>14, <2>1
<1>16. Fine(W, P, C)
  <2>1. CASE x = 0
    BY <1>13, <1>14, <2>1 DEF PaidOut
  <2>2. CASE x > 0
    <3> DEFINE z1 == 0
               z2 == 0
    <3>1. /\ Stand(V, p, w, bp, bc, 0, 0, bc, z1, z2, rb) /\ z1 = 0 /\ z2 = 0 /\ x \in Int
          /\ a \in {Principal, Collateral} /\ x <= Amt(a, p, w)
      BY <1>10, <1>13, <1>14, <2>2
    <3> HIDE DEF z1, z2
    <3>2. Fine(PaidOut(V, Lender, a, x), P, C)
      BY <1>13, <3>1, PaidLenderRuns
    <3> QED BY <1>14, <3>2
  <2> QED BY <1>14, <2>1, <2>2
<1>17. Fine(Y, P, C)
  <2> DEFINE z1 == 0
             z2 == 0
             lc == 0
             g == h
             b == Principal
  <2>1. /\ Stand(W, h, lc, bp, bc, 0, 0, bc, z1, z2, rb) /\ z1 = 0 /\ z2 = 0 /\ g \in Int
        /\ b \in {Principal, Collateral} /\ g <= Amt(b, h, lc)
    BY <1>2, <1>15 DEF Amt, h
  <2> HIDE DEF z1, z2, g, b, lc
  <2>2. Fine(PaidOut(W, Lender, b, g), P, C)
    BY <1>16, <2>1, PaidLenderRuns
  <2> QED BY <2>2 DEF b, g
<1> HIDE DEF Y
<1>18. T.v = Y /\ T.n = [S.n EXCEPT !.lenderClaim.claimed = TRUE] /\ T = [v |-> T.v, n |-> T.n]
  BY <1>2, <1>5 DEF State
<1> DEFINE R == SettledIf(T, ~ BorrowerSideOpen(T.n))
<1>19. R.v = Y
  BY <1>18 DEF SettledIf
<1> QED BY <1>17, <1>19 DEF LenderPaid, T, Fine

(* The lender's claim goes through, closing a pending loan first.          *)
LEMMA LenderClaimsRun ==
    ASSUME NEW S, Valid(S), LenderMayClaim(S.n), Ok(S.v), Backed(S), NEW T \in LenderClaims(S)
    PROVE  Ok(T.v)
<1> DEFINE Started == IF S.n.status = "FallbackPending" THEN {FallbackDefaulted(R) : R \in FallbackResolved(S)} ELSE {S}
<1>1. T \in {LenderPaid(R) : R \in {Q \in Started : LenderSideOpen(Q.n)}}
  BY DEF LenderClaims
<1> HIDE DEF Started
<1>2. PICK R \in Started : T = LenderPaid(R)
  BY <1>1
<1>3. Ready(R) /\ Ok(R.v)
  <2>1. CASE S.n.status = "FallbackPending"
    <3>1. PICK Q \in FallbackResolved(S) : R = FallbackDefaulted(Q)
      BY <1>2, <2>1 DEF Started
    <3>2. Fine(R.v, Pot(S.v, Principal), Pot(S.v, Collateral))
      BY <2>1, <3>1, FallbackResolvedRuns
    <3> QED BY <2>1, <3>1, <3>2, FallbackResolvedReady DEF Fine
  <2>2. CASE S.n.status # "FallbackPending"
    <3>1. R = S
      BY <1>2, <2>2 DEF Started
    <3> QED BY <2>2, <3>1, ValidReady DEF LenderMayClaim
  <2> QED BY <2>1, <2>2
<1> QED BY <1>2, <1>3, LenderPaidRuns

(* What a borrower without a lien or a reservation is owed can be paid.    *)
LEMMA PaidBorrowerRuns ==
    ASSUME NEW V, NEW lp, NEW lc, NEW bp, NEW bc, NEW rl, NEW rh,
           Stand(V, lp, lc, bp, bc, 0, 0, 0, rl, rh, 0), NEW P, NEW C, Fine(V, P, C),
           NEW a, NEW x \in Nat, x > 0 => a \in {Principal, Collateral},
           bp \in Nat, bc \in Nat, Of(a, Principal, x) <= bp, Of(a, Collateral, x) <= bc
    PROVE  Fine(PaidOut(V, Borrower, a, x), P, C)
<1> DEFINE dp == 0
           dc == 0
           k == 0
           rb == 0
<1>1. Stand(V, lp, lc, bp, bc, dp, dc, k, rl, rh, rb) /\ bc - k = bc /\ bp - rb = bp /\ x \in Int
  OBVIOUS
<1> HIDE DEF dp, dc, k, rb
<1>2. CASE x = 0
  BY <1>2 DEF PaidOut
<1>3. CASE x > 0 /\ a = Principal
  <2>1. x <= bp - rb
    BY <1>1, <1>3 DEF Of
  <2>2. Fine(PaidOut(V, Borrower, Principal, x), P, C)
    BY <1>1, <2>1, PaidBorrowerPrincipalRuns
  <2> QED BY <1>3, <2>2
<1>4. CASE x > 0 /\ a = Collateral
  <2>1. x <= bc - k
    BY <1>1, <1>4 DEF Of
  <2>2. Fine(PaidOut(V, Borrower, Collateral, x), P, C)
    BY <1>1, <2>1, PaidBorrowerCollateralRuns
  <2> QED BY <1>4, <2>2
<1> QED BY <1>2, <1>3, <1>4

(* The claim of the borrower goes through.                                 *)
LEMMA BorrowerClaimsRun ==
    ASSUME NEW S, Valid(S), BorrowerMayClaim(S.n), Ok(S.v)
    PROVE  Ok(BorrowerClaims(S).v)
<1> DEFINE a == S.n.borrowerClaim.asset
           x == OpenAmount(S.n.borrowerClaim)
           z == OpenAmount(S.n.surplus)
           k == LienElsewhere(S)
           r == LienRow(S.v)
           lp == OwedToLender(S.n, Principal)
           lc == OwedToLender(S.n, Collateral)
           bp == OwedToBorrower(S, Principal)
           bc == OwedToBorrower(S, Collateral)
           V1 == ReleaseLien(S.v)
           V == Release(V1, "borrowerProceeds", Borrower)
           W == PaidOut(V, Borrower, a, x)
           X == PaidOut(W, Borrower, r.asset, k)
           Y == PaidOut(X, Borrower, S.n.surplus.asset, z)
           p == S.n.surplus.claimed \/ LaneOpen(S.n.surplus)
           T == [S EXCEPT !.v = Y, !.n.borrowerClaim.claimed = TRUE, !.n.surplus.claimed = p]
           P == Pot(S.v, Principal)
           C == Pot(S.v, Collateral)
<1>1. S \in State /\ S.n \in Loan /\ Coherent(S.n) /\ S.n.status \in Closed /\ BorrowerSideOpen(S.n)
  BY DEF Valid, State, BorrowerMayClaim
<1>2. PICK rl, rh, rb : Stand(S.v, lp, lc, bp, bc, 0, 0, bc, rl, rh, rb) /\ Reserves(lp, lc, bp, rl, rh, rb)
  BY DEF Valid, Settles
<1>3. Fit(S.v)
  BY <1>2 DEF Stand
<1>4. k \in Nat /\ (k > 0 => r.asset = Collateral)
  BY <1>3, FitTypes DEF LienElsewhere, LienAmount, Fit, Kept
<1>5. k = IF r.live /\ r.asset # a THEN r.amount ELSE 0
  BY <1>3 DEF LienElsewhere, LienAmount, Fit, Kept
<1>6. /\ x \in Nat /\ z \in Nat /\ (x > 0 => a \in {Principal, Collateral})
      /\ (z > 0 => S.n.surplus.asset = Principal)
      /\ bp = Of(a, Principal, x) + z /\ bc = Of(a, Collateral, x) + k
  <2>1. a = S.n.borrowerClaim.asset /\ x = OpenAmount(S.n.borrowerClaim) /\ z = OpenAmount(S.n.surplus)
        /\ k = LienElsewhere(S)
    OBVIOUS
  <2> HIDE DEF a, x, z, k
  <2> QED BY <1>1, <1>4, <2>1, OpenBorrowerOwed
<1>7. BorrowerClaims(S) = SettledIf(T, S.n.lenderClaim.claimed \/ ~ LenderSideOpen(S.n))
  <2>1. W = IF LaneOpen(S.n.borrowerClaim) THEN PaidOut(V, Borrower, a, S.n.borrowerClaim.amount) ELSE V
    BY DEF PaidOut, OpenAmount
  <2>2. X = IF r.live /\ r.asset # a THEN PaidOut(W, Borrower, r.asset, r.amount) ELSE W
    BY <1>5 DEF PaidOut
  <2>3. Y = IF LaneOpen(S.n.surplus) THEN PaidOut(X, Borrower, S.n.surplus.asset, S.n.surplus.amount) ELSE X
    BY DEF PaidOut, OpenAmount
  <2> HIDE DEF W, X, Y, V, k
  <2> QED BY <2>1, <2>2, <2>3 DEF BorrowerClaims, V, V1
<1> HIDE DEF lp, lc, bp, bc
<1>8. Fine(S.v, P, C)
  BY DEF Fine
<1> HIDE DEF P, C
<1>9. Stand(V1, lp, lc, bp, bc, 0, 0, 0, rl, rh, rb) /\ Fine(V1, P, C)
  BY <1>2, <1>3, <1>8, ReleaseLienStand, ReleaseLienRuns
<1> HIDE DEF V1
<1>10. Stand(V, lp, lc, bp, bc, 0, 0, 0, rl, rh, 0) /\ Fine(V, P, C)
  <2>1. Stand(V, lp, lc, bp, bc, 0, 0, 0, rl, rh, 0)
    BY <1>9, ReleaseBorrowerStand
  <2> QED BY <1>9, <2>1, ReleaseRuns DEF Stand
<1> HIDE DEF V, a, x, z, k, r
<1> DEFINE t == S.n.surplus.asset
           ra == r.asset
<1>11. /\ Of(a, Principal, x) \in Nat /\ Of(a, Collateral, x) \in Nat
       /\ bp - Of(a, Principal, x) = z /\ bc - Of(a, Collateral, x) = k
       /\ bp \in Nat /\ bc \in Nat /\ Of(a, Principal, x) <= bp /\ Of(a, Collateral, x) <= bc
  BY <1>4, <1>6 DEF Of
<1>12. Stand(W, lp, lc, z, k, 0, 0, 0, rl, rh, 0) /\ Fine(W, P, C)
  <2>1. Stand(W, lp, lc, bp - Of(a, Principal, x), bc - Of(a, Collateral, x), 0, 0, 0, rl, rh, 0)
    BY <1>6, <1>10, PaidOutStand
  <2>2. Fine(W, P, C)
    BY <1>6, <1>10, <1>11, PaidBorrowerRuns
  <2> HIDE DEF W
  <2> QED BY <1>11, <2>1, <2>2
<1> HIDE DEF W
<1>13. /\ Of(ra, Principal, k) <= z /\ Of(ra, Collateral, k) <= k
       /\ z - Of(ra, Principal, k) = z /\ k - Of(ra, Collateral, k) = 0
       /\ (k > 0 => ra \in {Principal, Collateral})
  BY <1>4, <1>6, Cast DEF Of
<1>14. X = PaidOut(W, Borrower, ra, k)
  OBVIOUS
<1> HIDE DEF X, ra
<1>15. Stand(X, lp, lc, z, 0, 0, 0, 0, rl, rh, 0) /\ Fine(X, P, C)
  <2> DEFINE q == k
  <2>0. q = k /\ q \in Nat
    BY <1>4
  <2> HIDE DEF q
  <2>1. Stand(PaidOut(W, Borrower, ra, q), lp, lc, z - Of(ra, Principal, q), k - Of(ra, Collateral, q), 0, 0, 0, rl, rh, 0)
    BY <1>12, <1>13, <2>0, PaidOutStand
  <2>2. Fine(PaidOut(W, Borrower, ra, q), P, C)
    BY <1>4, <1>6, <1>12, <1>13, <2>0, PaidBorrowerRuns
  <2> QED BY <1>13, <1>14, <2>0, <2>1, <2>2
<1>16. (z > 0 => t \in {Principal, Collateral}) /\ Of(t, Principal, z) <= z /\ Of(t, Collateral, z) <= 0
  <2>1. CASE z > 0
    <3>1. t = Principal
      BY <1>6, <2>1
    <3>2. Of(t, Principal, z) = z /\ Of(t, Collateral, z) = 0
      BY <3>1, Cast DEF Of
    <3> QED BY <1>6, <3>1, <3>2
  <2>2. CASE z = 0
    BY <2>2 DEF Of
  <2> QED BY <1>6, <2>1, <2>2
<1>17. Y = PaidOut(X, Borrower, t, z)
  OBVIOUS
<1> HIDE DEF Y, t
<1>18. Fine(Y, P, C)
  <2> DEFINE q == z
             o == 0
  <2>1. q = z /\ q \in Nat /\ o = 0 /\ o \in Nat
    BY <1>6
  <2>2. Stand(X, lp, lc, z, o, 0, 0, 0, rl, rh, 0) /\ z \in Nat /\ (q > 0 => t \in {Principal, Collateral})
        /\ Of(t, Principal, q) <= z /\ Of(t, Collateral, q) <= o
    BY <1>15, <1>16, <1>6
  <2> HIDE DEF q, o
  <2>3. Fine(PaidOut(X, Borrower, t, q), P, C)
    BY <1>15, <2>1, <2>2, PaidBorrowerRuns
  <2> QED BY <1>17, <2>1, <2>3
<1>19. T.v = Y /\ T = [v |-> T.v, n |-> T.n]
  <2> DEFINE N == [S.n EXCEPT !.borrowerClaim.claimed = TRUE, !.surplus.claimed = p]
  <2>1. T = [S EXCEPT !.v = Y, !.n = N]
    BY <1>1 DEF State, T
  <2> HIDE DEF N, T, Y
  <2> QED BY <1>1, <2>1 DEF State
<1> HIDE DEF T, Y
<1>20. SettledIf(T, S.n.lenderClaim.claimed \/ ~ LenderSideOpen(S.n)).v = Y
  BY <1>19 DEF SettledIf
<1> QED BY <1>7, <1>18, <1>20 DEF Fine

(* Whatever the parties may do next to a loan whose principal is backed    *)
(* goes through.                                                           *)
LEMMA NothingRevertsWhenBacked ==
    ASSUME Valid(Now), Ok(vaults), Backed(Now)
    PROVE  NothingReverts
<1>1. LenderMayClaim(loan) => \A S \in LenderClaims(Now) : Ok(S.v)
  BY NowIs, LenderClaimsRun
<1>2. BorrowerMayClaim(loan) => Ok(BorrowerClaims(Now).v)
  BY NowIs, BorrowerClaimsRun
<1>3. ASSUME loan.status = "Active", NEW S \in Sale(Now) \cup InKind(Now) PROVE Ok(S.v)
  <2>1. Now.n.status = "Active" /\ Ok(Now.v)
    BY <1>3, NowIs
  <2>2. Goes(Now, S)
    BY <1>3, <2>1, SaleRuns, InKindRuns
  <2> QED BY <2>2 DEF Goes, Fine
<1> QED BY <1>1, <1>2, <1>3 DEF NothingReverts

(* An open loan has the market's principal and its own pledge behind it,   *)
(* and neither what it is of nor what is held back outgrows the bounds.    *)
Rich(S) ==
    S.n.status \in Open =>
        /\ Supply <= Pot(S.v, Principal) /\ S.n.collateral <= Pot(S.v, Collateral)
        /\ S.n.principal <= Lent
        /\ S.n.held + S.n.surplus.amount + S.n.principal <= MaxHeld + MaxProceeds + Lent

(* The amounts the bounds are about.                                       *)
LEMMA RichTypes ==
    ASSUME NEW S \in State
    PROVE  /\ {S.n.held, S.n.surplus.amount, S.n.principal, S.n.collateral} \subseteq Nat
           /\ {Lent, MaxHeld, MaxProceeds, Supply, Pledged} \subseteq Nat
           /\ Pot(S.v, Principal) \in Int /\ Pot(S.v, Collateral) \in Int
<1>1. Pot(S.v, Principal) \in Int /\ Pot(S.v, Collateral) \in Int
  BY Cast, StatePot
<1> QED BY <1>1, FallbackLoanAssumption DEF State, Loan, Claim

(* With a market that deep, what an open loan may still call for is there. *)
LEMMA RichBacked ==
    ASSUME NEW S \in State, Rich(S), Supply >= Lent + MaxHeld + 2 * MaxProceeds
    PROVE  Backed(S)
<1> SUFFICES ASSUME S.n.status \in Open
             PROVE  /\ S.n.held + S.n.surplus.amount + S.n.principal + MaxProceeds <= Pot(S.v, Principal)
                    /\ S.n.collateral <= Pot(S.v, Collateral)
  BY DEF Backed
<1> DEFINE P == Pot(S.v, Principal)
           m == S.n.held + S.n.surplus.amount + S.n.principal
<1>1. Supply <= P /\ S.n.collateral <= Pot(S.v, Collateral) /\ m <= MaxHeld + MaxProceeds + Lent
  BY DEF Rich
<1>2. P \in Int /\ m \in Nat /\ {Lent, MaxHeld, MaxProceeds, Supply} \subseteq Nat
  BY RichTypes
<1> HIDE DEF P, m
<1>3. m + MaxProceeds <= P
  BY <1>1, <1>2
<1> QED BY <1>1, <1>3 DEF m, P

(* A call that takes no more than it gives leaves the loan as backed.      *)
LEMMA GoesRich ==
    ASSUME NEW S \in State, NEW T \in State, S.n.status \in Open, Rich(S), Goes(S, T)
    PROVE  Rich(T)
<1> SUFFICES ASSUME T.n.status \in Open
             PROVE  /\ Supply <= Pot(T.v, Principal) /\ T.n.collateral <= Pot(T.v, Collateral)
                    /\ T.n.principal <= Lent
                    /\ T.n.held + T.n.surplus.amount + T.n.principal <= MaxHeld + MaxProceeds + Lent
  BY DEF Rich
<1>1. Pot(T.v, Principal) = Pot(S.v, Principal) /\ Pot(T.v, Collateral) = Pot(S.v, Collateral)
  BY DEF Goes, Fine
<1>2. /\ T.n.principal <= S.n.principal /\ T.n.collateral <= S.n.collateral
      /\ T.n.held + T.n.surplus.amount + T.n.principal <= S.n.held + S.n.surplus.amount + S.n.principal
  BY DEF Goes, Milder
<1> DEFINE m == S.n.held + S.n.surplus.amount + S.n.principal
           k == T.n.held + T.n.surplus.amount + T.n.principal
           b == MaxHeld + MaxProceeds + Lent
<1>3. /\ Supply <= Pot(S.v, Principal) /\ S.n.collateral <= Pot(S.v, Collateral)
      /\ S.n.principal <= Lent /\ m <= b
  BY DEF Rich
<1>4. m \in Nat /\ k \in Nat /\ b \in Nat
  BY RichTypes
<1>5. k <= b
  <2> HIDE DEF m, k, b
  <2> QED BY <1>2, <1>3, <1>4 DEF m, k
<1>6. T.n.principal <= Lent /\ T.n.collateral <= Pot(S.v, Collateral)
  <2> DEFINE C == Pot(S.v, Collateral)
  <2>1. C \in Int /\ S.n.collateral <= C
    BY <1>3, RichTypes
  <2> HIDE DEF C
  <2>2. T.n.principal <= Lent /\ T.n.collateral <= C
    BY <1>2, <1>3, <2>1, RichTypes
  <2> QED BY <2>2 DEF C
<1> QED BY <1>1, <1>3, <1>5, <1>6

(* While the loan is open, what there is of its assets is outside or in    *)
(* the vaults.                                                             *)
LEMMA OpenPot ==
    ASSUME NEW S, Valid(S), S.n.status \in Open
    PROVE  /\ Pot(S.v, Principal) = S.v.wallet[<<Outside, Principal>>] + S.n.held + S.n.surplus.amount
           /\ Pot(S.v, Collateral) = S.v.wallet[<<Outside, Collateral>>] + S.n.collateral
           /\ S.v.wallet[<<Outside, Principal>>] \in Int /\ S.v.wallet[<<Outside, Collateral>>] \in Int
<1>1. PICK h, s, c, rl, rh, rb :
              /\ OpenOver(S, h, s, c) /\ StandsAt(S, h, 0, s, c, 0, 0, c, rl, rh, rb)
              /\ Reserves(h, 0, s, rl, rh, rb)
  BY Opened
<1>2. h = S.n.held /\ s = S.n.surplus.amount /\ c = S.n.collateral
  BY <1>1 DEF OpenOver
<1>3. h \in Nat /\ s \in Nat /\ c \in Nat
  BY <1>1, OpenOverTypes DEF StandsAt
<1>4. /\ Held(S.v, Lender, Principal) = h /\ Held(S.v, Lender, Collateral) = 0
      /\ Held(S.v, Borrower, Principal) = s /\ Held(S.v, Borrower, Collateral) = c
      /\ Held(S.v, Diamond, Principal) = 0 /\ Held(S.v, Diamond, Collateral) = 0
  BY <1>1, Cast DEF StandsAt, Stand, Amt
<1> DEFINE o == S.v.wallet[<<Outside, Principal>>]
           q == S.v.wallet[<<Outside, Collateral>>]
<1>5. o \in Int /\ q \in Int
  BY <1>1, Cast DEF StandsAt, State, Vaults, Keys
<1>6. Pot(S.v, Principal) = o + h + s + 0 /\ Pot(S.v, Collateral) = q + 0 + c + 0
  BY <1>4 DEF Pot
<1> HIDE DEF o, q
<1>7. o + h + s + 0 = o + h + s /\ q + 0 + c + 0 = q + c
  BY <1>3, <1>5
<1> QED BY <1>2, <1>5, <1>6, <1>7 DEF o, q

(* What leaves a vault for the outside leaves the loan as backed as it was.*)
LEMMA WithdrawnRich ==
    ASSUME NEW S, Valid(S), NEW T, Valid(T), T.n = S.n, Rich(S), NEW a \in Assets, NEW x \in Nat,
           T.v.wallet = [S.v.wallet EXCEPT ![<<Outside, a>>] = @ + x]
    PROVE  Rich(T)
<1>1. CASE S.n.status \notin Open
  BY <1>1 DEF Rich
<1>2. CASE S.n.status \in Open
  <2>1. S.v.wallet \in [Keys -> Int] /\ <<Outside, Principal>> \in Keys /\ <<Outside, Collateral>> \in Keys
        /\ <<Outside, a>> \in Keys
    BY Cast DEF Valid, State, Vaults, Keys
  <2> DEFINE o == S.v.wallet[<<Outside, Principal>>]
             q == S.v.wallet[<<Outside, Collateral>>]
             oo == T.v.wallet[<<Outside, Principal>>]
             qq == T.v.wallet[<<Outside, Collateral>>]
  <2>2. o \in Int /\ q \in Int /\ oo \in Int /\ qq \in Int /\ o <= oo /\ q <= qq
    BY <2>1
  <2>3. /\ Pot(S.v, Principal) = o + S.n.held + S.n.surplus.amount
        /\ Pot(S.v, Collateral) = q + S.n.collateral
        /\ Pot(T.v, Principal) = oo + S.n.held + S.n.surplus.amount
        /\ Pot(T.v, Collateral) = qq + S.n.collateral
    BY <1>2, OpenPot
  <2>4. S.n.held \in Nat /\ S.n.surplus.amount \in Nat /\ S.n.collateral \in Nat /\ Supply \in Nat
    BY RichTypes DEF Valid
  <2> HIDE DEF o, q, oo, qq
  <2>5. Supply <= Pot(S.v, Principal) /\ S.n.collateral <= Pot(S.v, Collateral)
    BY <1>2 DEF Rich
  <2>6. Supply <= Pot(T.v, Principal) /\ S.n.collateral <= Pot(T.v, Collateral)
    BY ONLY <2>2, <2>3, <2>4, <2>5
  <2> QED BY <1>2, <2>6 DEF Rich
<1> QED BY <1>1, <1>2

(* The collateral a borrower adds was outside.                             *)
LEMMA ToppedRich ==
    ASSUME NEW S, Valid(S), S.n.status \in Open, Rich(S), NEW x \in Nat, Ok(Topped(S, x).v)
    PROVE  Rich(Topped(S, x))
<1> DEFINE V == VaultDepositERC20From(S.v, Outside, Borrower, Collateral, x)
           W == RaiseLien(V, x)
           T == Topped(S, x)
<1>1. S \in State /\ Fit(S.v) /\ S.n \in Loan
  BY DEF Valid, Settles, Stand, State
<1>2. T = [S EXCEPT !.v = W, !.n.collateral = @ + x]
  BY DEF Topped
<1>3. SamePot(S.v, V) /\ Ok(V) = (Ok(S.v) /\ x <= S.v.wallet[<<Outside, Collateral>>])
  BY <1>1, Cast, DepositGoes
<1>4. Fit(V)
  <2>1. PICK h, s, c, rl, rh, rb : StandsAt(S, h, 0, s, c, 0, 0, c, rl, rh, rb)
    BY Opened
  <2>2. Stand(V, h, 0, s, c + x, 0, 0, c, rl, rh, rb)
    BY <2>1, DepositBorrowerStand DEF StandsAt
  <2> QED BY <2>2 DEF Stand
<1> HIDE DEF V, T
<1>5. SamePot(V, W)
  BY <1>4, OnPot DEF RaiseLien
<1>6. Ok(W) => Ok(V)
  <2> DEFINE L == IncrementCollateralLien(V.ledger, 1, Collateral, x)
  <2>1. Sound(V.ledger) /\ 1 \in Loans /\ Collateral \in Assets
    BY <1>4, Cast, FitTypes
  <2>2. L.ok => V.ledger.ok
    BY <1>4, <2>1, Cast, IncrementCollateralLienSound DEF Grows, Fit, Kept, LienRow
  <2>3. W.ledger = L
    BY <1>4, FitTypes DEF RaiseLien, On, Vaults
  <2> QED BY <2>2, <2>3 DEF Ok
<1> HIDE DEF W
<1>7. T.v = W /\ T.n = [S.n EXCEPT !.collateral = @ + x]
  BY <1>1, <1>2 DEF State
<1>8. /\ T.n.status = S.n.status /\ T.n.principal = S.n.principal /\ T.n.held = S.n.held
      /\ T.n.surplus = S.n.surplus /\ T.n.collateral = S.n.collateral + x
  BY <1>1, <1>7 DEF Loan
<1>9. x <= S.v.wallet[<<Outside, Collateral>>]
  BY <1>3, <1>6, <1>7 DEF T
<1>10. Pot(T.v, Principal) = Pot(S.v, Principal) /\ Pot(T.v, Collateral) = Pot(S.v, Collateral)
  BY <1>3, <1>5, <1>7, Cast DEF SamePot
<1>11. S.n.collateral + x <= Pot(S.v, Collateral)
  <2> DEFINE q == S.v.wallet[<<Outside, Collateral>>]
             C == Pot(S.v, Collateral)
  <2>1. q \in Int /\ C = q + S.n.collateral /\ S.n.collateral \in Nat /\ x <= q
    BY <1>1, <1>9, OpenPot, RichTypes
  <2> HIDE DEF q, C
  <2>2. S.n.collateral + x <= C
    BY <2>1
  <2> QED BY <2>2 DEF C
<1>12. Rich(T)
  BY <1>8, <1>10, <1>11 DEF Rich
<1> QED BY <1>12 DEF T

(* A cure leaves the tokens where they are.                                *)
LEMMA CuredRich ==
    ASSUME NEW S, Valid(S), S.n.status \in Open, Ok(S.v) => Rich(S), Ok(Cured(S).v)
    PROVE  Rich(Cured(S))
<1> DEFINE p == SnapshotTotal(S.n) = S.n.custody
           W == Guarded(S.v, p)
           R == RequireSnapshotMatchesRow(S)
           T == Cured(S)
<1>1. S \in State /\ Fit(S.v) /\ S.n \in Loan
  BY DEF Valid, Settles, Stand, State
<1>2. R.v = W /\ R.n = S.n /\ R = [v |-> R.v, n |-> R.n] /\ p \in BOOLEAN
  BY <1>1 DEF RequireSnapshotMatchesRow, State
<1>3. T = [R EXCEPT !.n.status = "Active", !.n.snap = NoSnapshot, !.n.custody = 0,
                    !.n.lenderClaim = NoClaim, !.n.borrowerClaim = NoClaim, !.n.optIn = FALSE]
  BY DEF Cured, RequireVaultHeld
<1> HIDE DEF p, W, R, T
<1>4. /\ T.v = R.v
      /\ T.n = [R.n EXCEPT !.status = "Active", !.snap = NoSnapshot, !.custody = 0,
                           !.lenderClaim = NoClaim, !.borrowerClaim = NoClaim, !.optIn = FALSE]
  BY <1>2, <1>3
<1>5. /\ T.n.status = "Active" /\ T.n.principal = S.n.principal /\ T.n.held = S.n.held
      /\ T.n.surplus = S.n.surplus /\ T.n.collateral = S.n.collateral
  BY <1>1, <1>2, <1>4 DEF Loan
<1>6. SamePot(S.v, W) /\ (Ok(W) => Ok(S.v))
  BY <1>1, <1>2, GuardedGoes DEF W
<1>7. Pot(T.v, Principal) = Pot(S.v, Principal) /\ Pot(T.v, Collateral) = Pot(S.v, Collateral)
  BY <1>2, <1>4, <1>6, Cast DEF SamePot
<1>8. Ok(S.v)
  BY <1>2, <1>4, <1>6 DEF T
<1>9. Rich(T)
  BY <1>5, <1>7, <1>8 DEF Rich, Open
<1> QED BY <1>9 DEF T

(* A loan the backstop leaves open is as it was matched or tried again.    *)
LEMMA BackstopRuns ==
    ASSUME NEW S, Valid(S), S.n.status = "FallbackPending", Ok(S.v), Backed(S),
           NEW T \in BackstopClaims(S), T.n.status = "FallbackPending"
    PROVE  Goes(S, T)
<1>1. PICK A \in AutoDispatch(S) :
         \/ T = A
         \/ /\ A.n.snap.active
            /\ \/ T = Absorbed(A)
               \/ \E Q \in RetrySucceeded(Tried(A)) : T = [Inactive(Q) EXCEPT !.n.status = "Defaulted"]
               \/ \E Q \in RetryFailed(Tried(A)) : T = Q \/ T = Absorbed(Q)
  BY DEF BackstopClaims
<1>2. Followed(S, A) /\ Goes(S, A) /\ S \in State /\ S.n.status \in Open
  BY AutoDispatchFollows, AutoDispatchRuns DEF Open, Valid
<1>3. Valid(A) /\ A \in State /\ Coherent(A.n)
  BY <1>2 DEF Followed, Valid
<1>4. Backed(A) /\ Ok(A.v)
  BY <1>2, <1>3, StaysBacked
<1>5. CASE T = A
  BY <1>2, <1>5
<1>6. CASE A.n.snap.active /\ T # A
  <2> DEFINE B == Tried(A)
  <2>1. A.n.status = "FallbackPending" /\ A.n.status \in Open
    BY <1>3, <1>6 DEF Coherent, Open
  <2>2. Valid(B) /\ B.n.status = "FallbackPending" /\ Goes(A, B) /\ B \in State
    BY <1>3, <1>4, <2>1, TriedValid, TriedRuns DEF Valid
  <2>3. T # Absorbed(A)
    BY <1>3, <2>1, AbsorbedValid
  <2>4. ASSUME NEW Q \in RetrySucceeded(B) PROVE T # [Inactive(Q) EXCEPT !.n.status = "Defaulted"]
    <3>1. Backed(B) /\ Ok(B.v)
      BY <1>3, <1>4, <2>1, <2>2, StaysBacked
    <3> HIDE DEF B
    <3>2. Q \in State
      BY <2>2, <2>4, <3>1, RetriedRuns
    <3> DEFINE R == Inactive(Q)
    <3>3. R \in State
      BY <3>2, InactiveStand
    <3> HIDE DEF R
    <3>4. [R EXCEPT !.n.status = "Defaulted"].n.status = "Defaulted"
      BY <3>3 DEF State, Loan
    <3> QED BY <3>4 DEF R
  <2>5. PICK Q \in RetryFailed(B) : T = Q \/ T = Absorbed(Q)
    BY <1>1, <1>6, <2>3, <2>4
  <2> HIDE DEF B
  <2>6. Valid(Q) /\ Q.n.status = "FallbackPending"
    BY <2>2, <2>5, RetryFailedFollows DEF Followed
  <2>7. T = Q
    BY <2>5, <2>6, AbsorbedValid
  <2>8. Goes(B, Q)
    BY <1>4, <2>2, <2>5, RetryFailedRuns DEF Goes, Fine
  <2>9. /\ Fine(T.v, Pot(S.v, Principal), Pot(S.v, Collateral))
        /\ Pot(B.v, Principal) = Pot(S.v, Principal) /\ Pot(B.v, Collateral) = Pot(S.v, Collateral)
    BY <1>2, <2>2, <2>7, <2>8 DEF Goes, Fine
  <2>10. Milder(S.n, T.n)
    <3>1. /\ A.n.principal <= S.n.principal /\ A.n.collateral <= S.n.collateral
          /\ A.n.held + A.n.surplus.amount + A.n.principal <= S.n.held + S.n.surplus.amount + S.n.principal
      BY <1>2, <2>1 DEF Goes, Milder
    <3>2. /\ B.n.principal <= A.n.principal /\ B.n.collateral <= A.n.collateral
          /\ B.n.held + B.n.surplus.amount + B.n.principal <= A.n.held + A.n.surplus.amount + A.n.principal
      BY <2>2 DEF Goes, Milder, Open
    <3>3. /\ T.n.principal <= B.n.principal /\ T.n.collateral <= B.n.collateral
          /\ T.n.held + T.n.surplus.amount + T.n.principal <= B.n.held + B.n.surplus.amount + B.n.principal
      BY <2>6, <2>7, <2>8 DEF Goes, Milder, Open
    <3>4. T \in State
      BY <2>6, <2>7 DEF Valid
    <3> DEFINE w(R) == R.n.held + R.n.surplus.amount + R.n.principal
    <3>5. /\ w(S) \in Nat /\ w(A) \in Nat /\ w(B) \in Nat /\ w(T) \in Nat
          /\ {S.n.principal, A.n.principal, B.n.principal, T.n.principal} \subseteq Nat
          /\ {S.n.collateral, A.n.collateral, B.n.collateral, T.n.collateral} \subseteq Nat
      <4>1. ASSUME NEW R \in State PROVE w(R) \in Nat /\ R.n.principal \in Nat /\ R.n.collateral \in Nat
        BY RichTypes
      <4> HIDE DEF w
      <4> QED BY <1>2, <1>3, <2>2, <3>4, <4>1
    <3>6. w(A) <= w(S) /\ w(B) <= w(A) /\ w(T) <= w(B)
      BY <3>1, <3>2, <3>3
    <3> HIDE DEF w
    <3>7. w(T) <= w(S)
      BY <3>5, <3>6
    <3>8. T.n.principal <= S.n.principal /\ T.n.collateral <= S.n.collateral
      BY <3>1, <3>2, <3>3, <3>5
    <3> QED BY <3>7, <3>8 DEF Milder, w
  <2> QED BY <2>9, <2>10 DEF Goes
<1> QED BY <1>1, <1>5, <1>6

-----------------------------------------------------------------------------
(* Nothing reverts.                                                        *)

(* The inductive invariant: the loan is valid in its vaults, and as long   *)
(* as it is open what is behind it and what it asks for keep their bounds. *)
Never == Inv /\ Rich(Now)

(* What a call makes of the loan keeps the loan as backed.                 *)
LEMMA RichNext ==
    ASSUME NEW S, Valid(S), Rich(S), Becomes(S)
    PROVE  Never'
<1>1. S = [v |-> vaults', n |-> loan']
  BY DEF Valid, State, Becomes
<1>2. Now' = S
  BY <1>1 DEF Now
<1>3. Rich(Now)'
  BY <1>1, <1>2 DEF Rich, Now, Pot, Held
<1> QED BY <1>3, Becoming DEF Never

LEMMA ClosedRich ==
    ASSUME Inv', loan'.status \notin Open
    PROVE  Never'
BY DEF Never, Rich, Now

(* What a loan that is open, valid and backed becomes by a call that goes  *)
(* through.                                                                *)
LEMMA GoneNext ==
    ASSUME Never, loan.status \in Open, NEW S, Valid(S), Goes(Now, S), Becomes(S)
    PROVE  Never'
<1>1. Now \in State /\ S \in State /\ Now.n.status \in Open /\ Rich(Now)
  BY NowIs DEF Never, Inv, Valid
<1>2. Rich(S)
  BY <1>1, GoesRich
<1> QED BY <1>2, RichNext

LEMMA NeverBacked ==
    ASSUME Never, Supply >= Lent + MaxHeld + 2 * MaxProceeds
    PROVE  Valid(Now) /\ Ok(Now.v) /\ Backed(Now) /\ Now \in State /\ Now.n = loan /\ Now.v = vaults
<1>1. Valid(Now) /\ Ok(Now.v) /\ Now.n = loan /\ Now.v = vaults /\ Rich(Now) /\ Now \in State
  BY NowIs DEF Never, Inv, Valid
<1> QED BY <1>1, RichBacked

LEMMA SoldNever ==
    ASSUME Never, Supply >= Lent + MaxHeld + 2 * MaxProceeds, loan.status = "Active",
           NEW S \in InternalMatches(Now) \cup UnpricedFallback(Now) \cup Sale(Now) \cup InKind(Now),
           Becomes(S)
    PROVE  Never'
<1>1. Valid(Now) /\ Ok(Now.v) /\ Backed(Now) /\ Now.n.status = "Active" /\ Now.n.status \in Open
  BY NeverBacked DEF Open
<1>2. Valid(S)
  <2>1. CASE S \in InternalMatches(Now)
    BY <1>1, <2>1, InternalMatchesFollow DEF Followed
  <2>2. CASE S \in UnpricedFallback(Now)
    BY <1>1, <2>2, UnpricedFallbackValid
  <2>3. CASE S \in Sale(Now)
    BY <1>1, <2>3, SaleValid
  <2>4. CASE S \in InKind(Now)
    BY <1>1, <2>4, InKindValid
  <2> QED BY <2>1, <2>2, <2>3, <2>4
<1>3. Goes(Now, S)
  BY <1>1, InternalMatchesRun, UnpricedRuns, SaleRuns, InKindRuns
<1> QED BY <1>2, <1>3, GoneNext DEF Open

LEMMA MatchedNever ==
    ASSUME Never, Supply >= Lent + MaxHeld + 2 * MaxProceeds, TriggerInternalMatchLiquidation
    PROVE  Never'
<1>1. Valid(Now) /\ Ok(Now.v) /\ Backed(Now) /\ Now.n.status \in Open /\ loan.status \in Open
  BY NeverBacked DEF TriggerInternalMatchLiquidation, Open
<1>2. PICK S \in InternalMatches(Now) : Becomes(S)
  BY DEF TriggerInternalMatchLiquidation
<1>3. Valid(S) /\ Goes(Now, S)
  BY <1>1, <1>2, InternalMatchesFollow, InternalMatchesRun DEF Followed
<1> QED BY <1>1, <1>2, <1>3, GoneNext

(* What is held back grows by less than a sale yields, and only below the  *)
(* bound.                                                                  *)
LEMMA PeriodicNever ==
    ASSUME Never, Supply >= Lent + MaxHeld + 2 * MaxProceeds, SettlePeriodicInterest
    PROVE  Never'
<1>1. /\ Valid(Now) /\ Ok(Now.v) /\ Backed(Now) /\ Now.n.status = "Active" /\ Now.n = loan /\ Now \in State
      /\ loan.held + loan.surplus.amount < MaxHeld /\ Rich(Now)
  BY NeverBacked DEF SettlePeriodicInterest, Never
<1>2. PICK s \in Openings(Now.n) : \E S \in PeriodicSale(Now, s[1], s[2]) : Becomes(S)
  BY <1>1 DEF SettlePeriodicInterest
<1>3. PICK S \in PeriodicSale(Now, s[1], s[2]) : Becomes(S)
  BY <1>2
<1>4. s[1] \in Nat /\ s[2] \in Nat /\ s[1] <= Now.n.collateral
  <2>1. Now.n \in Loan /\ Now.n.collateral \in Nat
    BY <1>1 DEF State, Loan
  <2> QED BY <1>2, <2>1, OpeningTypes
<1>5. Valid(S) /\ S \in State
  BY <1>1, <1>3, <1>4, PeriodicValid DEF Valid
<1> DEFINE T == Now
<1>6. /\ Fine(S.v, Pot(T.v, Principal), Pot(T.v, Collateral))
      /\ S.n.principal = T.n.principal /\ S.n.collateral <= T.n.collateral
      /\ S.n.held + S.n.surplus.amount <= T.n.held + T.n.surplus.amount + MaxProceeds
  BY <1>1, <1>3, <1>4, PeriodicRuns
<1>7. /\ Supply <= Pot(T.v, Principal) /\ T.n.collateral <= Pot(T.v, Collateral) /\ T.n.principal <= Lent
      /\ T.n.held + T.n.surplus.amount < MaxHeld
  BY <1>1 DEF Rich, Open
<1>8. T \in State
  BY <1>1
<1> HIDE DEF T
<1>9. /\ S.n.principal <= Lent
      /\ S.n.held + S.n.surplus.amount + S.n.principal <= MaxHeld + MaxProceeds + Lent
  <2> DEFINE a == S.n.held + S.n.surplus.amount
             b == T.n.held + T.n.surplus.amount
             p == S.n.principal
  <2>1. a \in Nat /\ b \in Nat /\ p \in Nat /\ {MaxHeld, MaxProceeds, Lent} \subseteq Nat
    BY <1>5, <1>8, RichTypes
  <2>2. a <= b + MaxProceeds /\ b < MaxHeld /\ p <= Lent
    BY <1>6, <1>7
  <2> HIDE DEF a, b, p
  <2>3. p <= Lent /\ a + p <= MaxHeld + MaxProceeds + Lent
    BY <2>1, <2>2
  <2> QED BY <2>3 DEF a, p
<1>10. S.n.collateral <= Pot(T.v, Collateral)
  <2> DEFINE C == Pot(T.v, Collateral)
  <2>1. C \in Int /\ T.n.collateral <= C /\ S.n.collateral \in Nat /\ T.n.collateral \in Nat
    BY <1>5, <1>7, <1>8, RichTypes
  <2> HIDE DEF C
  <2>2. S.n.collateral <= C
    BY <1>6, <2>1
  <2> QED BY <2>2 DEF C
<1>11. Rich(S)
  BY <1>6, <1>7, <1>9, <1>10 DEF Rich, Fine
<1> QED BY <1>3, <1>5, <1>11, RichNext

LEMMA AddedNever ==
    ASSUME Never, NEW x \in 1..MaxPledged, AddCollateral(x)
    PROVE  Never'
<1>1. x \in Nat
  BY FallbackLoanAssumption
<1>2. Valid(Now) /\ Now.n.status \in Open /\ Rich(Now)
  BY NowIs DEF Never, Inv, AddCollateral, Open
<1> DEFINE S == Topped(Now, x)
<1>3. Valid(S) /\ S.n.status = loan.status /\ S.n.status \in Open
  BY <1>1, <1>2, NowIs, ToppedValid
<1>4. Ok(S.v) => Rich(S)
  BY <1>1, <1>2, ToppedRich
<1>5. Becomes(S) \/ (loan.status = "FallbackPending" /\ Becomes(Cured(S)))
  BY DEF AddCollateral
<1> HIDE DEF S
<1>6. CASE Becomes(S)
  <2>1. Ok(S.v)
    BY <1>6 DEF Becomes
  <2> QED BY <1>3, <1>4, <1>6, <2>1, RichNext
<1>7. CASE loan.status = "FallbackPending" /\ Becomes(Cured(S))
  <2>1. Valid(Cured(S)) /\ Ok(Cured(S).v)
    BY <1>3, <1>7, CuredValid DEF Becomes
  <2>2. Rich(Cured(S))
    BY <1>3, <1>4, <2>1, CuredRich
  <2> QED BY <1>7, <2>1, <2>2, RichNext
<1> QED BY <1>5, <1>6, <1>7

LEMMA LenderNever ==
    ASSUME Never, ClaimAsLender
    PROVE  Never'
<1>1. Inv' /\ LenderMayClaim(loan) /\ Valid(Now) /\ Now \in State /\ Now.n = loan
  BY NowIs, ClaimAsLenderInv DEF Never, Inv, ClaimAsLender, Valid
<1>2. PICK T \in LenderClaims(Now) : Becomes(T)
  BY DEF ClaimAsLender
<1>3. Paid(T.n)
  <2>1. CASE loan.status = "FallbackPending"
    <3>1. LenderAwaited(loan)
      BY <1>1, <2>1, Cast DEF Valid, Coherent, LenderAwaited, LenderMayClaim
    <3>2. Pending(Now)
      BY <1>1, <2>1, <3>1, StateShaped DEF Pending
    <3> QED BY <1>2, <3>2, PendingClaimEnds
  <2>2. CASE loan.status \in Closed
    BY <1>1, <1>2, <2>2, ClosedClaimEnds
  <2> QED BY <1>1, <2>1, <2>2 DEF LenderMayClaim
<1>4. loan'.status \notin Open
  BY <1>2, <1>3 DEF Paid, Becomes, Closed, Open
<1> QED BY <1>1, <1>4, ClosedRich

LEMMA BorrowerNever ==
    ASSUME Never, ClaimAsBorrower
    PROVE  Never'
<1>1. Inv' /\ loan.status \in Closed /\ Now \in State /\ Now.n = loan
  BY NowIs, ClaimAsBorrowerInv DEF Never, Inv, ClaimAsBorrower, Valid, BorrowerMayClaim
<1>2. loan' = BorrowerClaims(Now).n
  BY DEF ClaimAsBorrower, Becomes
<1>3. loan'.status \in Closed \cup {"Settled"}
  BY <1>1, <1>2, BorrowerClaimEnds
<1>4. loan'.status \notin Open
  BY <1>3 DEF Closed, Open
<1> QED BY <1>1, <1>4, ClosedRich

LEMMA BackstopNever ==
    ASSUME Never, Supply >= Lent + MaxHeld + 2 * MaxProceeds, ClaimAsLenderViaBackstop
    PROVE  Never'
<1>1. /\ Inv' /\ Valid(Now) /\ Ok(Now.v) /\ Backed(Now) /\ Now \in State /\ Now.n = loan
      /\ loan.status = "FallbackPending" /\ loan.status \in Open /\ TopUp(Now) = 0 /\ Principal # Vpfi
  BY NeverBacked, ClaimAsLenderViaBackstopInv DEF Never, ClaimAsLenderViaBackstop, Open
<1>2. PICK T \in BackstopClaims(Now) : Becomes(T)
  BY DEF ClaimAsLenderViaBackstop
<1>3. Valid(T) /\ loan' = T.n
  BY <1>1, <1>2, BackstopClaimsValid DEF Becomes
<1>4. Pending(Now)
  <2>1. LenderAwaited(loan)
    BY <1>1, Cast DEF Valid, Coherent, LenderAwaited
  <2> QED BY <1>1, <2>1, StateShaped DEF Pending
<1>5. MayEnd(T.n)
  BY <1>2, <1>4, BackstopClaimsEnd
<1>6. CASE T.n.status = "FallbackPending"
  BY <1>1, <1>2, <1>3, <1>6, BackstopRuns, GoneNext
<1>7. CASE T.n.status # "FallbackPending"
  <2>1. loan'.status \notin Open
    BY <1>3, <1>5, <1>7 DEF MayEnd, Fresh, Paid, Closed, Open
  <2> QED BY <1>1, <2>1, ClosedRich
<1> QED BY <1>6, <1>7

LEMMA OptInNever ==
    ASSUME Never, NEW b \in BOOLEAN, SetLenderBackstopOptIn(b)
    PROVE  Never'
<1> DEFINE S == [Now EXCEPT !.n.optIn = b]
<1>1. Valid(Now) /\ Now \in State /\ Now.n \in Loan /\ Rich(Now) /\ Becomes(S)
  BY DEF Never, Inv, Valid, State, SetLenderBackstopOptIn
<1>2. Valid(S)
  BY <1>1, OptInValid
<1>3. S.v = Now.v /\ S.n = [Now.n EXCEPT !.optIn = b]
  BY <1>1 DEF State
<1> HIDE DEF S
<1>4. /\ S.n.status = Now.n.status /\ S.n.principal = Now.n.principal /\ S.n.held = Now.n.held
      /\ S.n.surplus = Now.n.surplus /\ S.n.collateral = Now.n.collateral
  BY <1>1, <1>3 DEF Loan
<1>5. Rich(S)
  BY <1>1, <1>3, <1>4 DEF Rich
<1> QED BY <1>1, <1>2, <1>5, RichNext

LEMMA RepaidNever ==
    ASSUME Never, NEW x \in 0..MaxInterest, RepayLoan(x)
    PROVE  Never'
<1>1. loan \in Loan /\ Inv'
  BY NowIs, RepayLoanInv DEF Never, Inv, Valid, State
<1> DEFINE N == [loan EXCEPT !.lenderClaim = Pays(Principal, loan.principal + x),
                             !.borrowerClaim = Pays(Collateral, loan.collateral), !.status = "Repaid"]
<1>2. loan' = N \/ loan' = [N EXCEPT !.snap = NoSnapshot, !.custody = 0, !.optIn = FALSE]
  BY NowIs DEF RepayLoan, Becomes, Now
<1>3. loan'.status = "Repaid"
  BY <1>1, <1>2 DEF Loan
<1> QED BY <1>1, <1>3, ClosedRich DEF Open

LEMMA WithdrawNever ==
    ASSUME Never, NEW u \in {Lender, Borrower}, NEW a \in Assets, NEW x \in 1..Supply, Withdraw(u, a, x)
    PROVE  Never'
<1> DEFINE V1 == Guarded(Now.v, x <= WithdrawableNow(Now.v, u, a))
           V3 == Debit(V1, u, a, x)
           W == WithdrawFromVault(Now.v, u, a, Outside, x)
           S == [Now EXCEPT !.v = W]
<1>1. Becomes(S) /\ S.v = W /\ S.n = Now.n /\ Valid(Now) /\ Rich(Now) /\ Now.v \in Vaults /\ x \in Nat
  BY FallbackLoanAssumption DEF Withdraw, Now, Never, Inv, Valid, State
<1>2. Ok(W)
  BY <1>1 DEF Becomes
<1>3. Valid(S)
  BY <1>1, <1>2, WithdrawnValid
<1>4. W.wallet = [Now.v.wallet EXCEPT ![<<Outside, a>>] = @ + x]
  <2>1. V1.wallet = Now.v.wallet /\ V1 = [V1 EXCEPT !.ledger = V1.ledger] /\ DOMAIN V1 = DOMAIN Now.v
    BY <1>1 DEF Guarded, On, Vaults
  <2>2. DOMAIN Now.v = {"ledger", "tracked", "depository", "wallet"}
    BY <1>1 DEF Vaults
  <2>3. W = VaultWithdrawERC20(V3, u, a, Outside, x)
    BY DEF WithdrawFromVault
  <2> HIDE DEF V1, W
  <2>4. V3.wallet = V1.wallet /\ DOMAIN V3 = {"ledger", "tracked", "depository", "wallet"}
    BY <2>1, <2>2 DEF Debit, Guarded, On
  <2> HIDE DEF V3
  <2>5. W.wallet = [V3.wallet EXCEPT ![<<Outside, a>>] = @ + x]
    BY <2>3, <2>4 DEF VaultWithdrawERC20, Guarded, On
  <2> QED BY <2>1, <2>4, <2>5
<1> HIDE DEF S, W
<1>5. Rich(S)
  BY <1>1, <1>3, <1>4, WithdrawnRich
<1> QED BY <1>1, <1>3, <1>5, RichNext

LEMMA WithdrawVPFINever ==
    ASSUME Never, NEW u \in {Lender, Borrower}, NEW x \in 1..Supply, WithdrawVPFI(u, x)
    PROVE  Never'
<1> DEFINE U == VaultWithdrawERC20(Now.v, u, Vpfi, Outside, x)
           W == Spend(U, u, Vpfi, x)
           S == [Now EXCEPT !.v = W]
<1>1. /\ Becomes(S) /\ S.v = W /\ S.n = Now.n /\ Valid(Now) /\ Rich(Now) /\ Now.v \in Vaults /\ x \in Nat
      /\ Vpfi \in Assets
  BY Cast, FallbackLoanAssumption DEF WithdrawVPFI, Now, Never, Inv, Valid, State
<1>2. Ok(W)
  BY <1>1 DEF Becomes
<1>3. Valid(S)
  BY <1>1, <1>2, SpentValid
<1>4. W.wallet = [Now.v.wallet EXCEPT ![<<Outside, Vpfi>>] = @ + x]
  <2>1. DOMAIN Now.v = {"ledger", "tracked", "depository", "wallet"}
    BY <1>1 DEF Vaults
  <2>2. /\ U.wallet = [Now.v.wallet EXCEPT ![<<Outside, Vpfi>>] = @ + x]
        /\ DOMAIN U = {"ledger", "tracked", "depository", "wallet"}
    BY <2>1 DEF VaultWithdrawERC20, Guarded, On
  <2> HIDE DEF U
  <2>3. W.wallet = U.wallet
    BY <2>2 DEF Spend
  <2> QED BY <2>2, <2>3
<1> HIDE DEF S, W
<1>5. Rich(S)
  BY <1>1, <1>3, <1>4, WithdrawnRich
<1> QED BY <1>1, <1>3, <1>5, RichNext

LEMMA InitNever == ASSUME Init PROVE Never
<1>1. Inv /\ Valid(Now) /\ Now.n = loan /\ Now.v = vaults /\ Now \in State
  BY InitInv, NowIs DEF Inv, Valid
<1>2. /\ loan.status = "Active" /\ loan.collateral = Pledged /\ loan.principal = Lent
      /\ loan.held = 0 /\ loan.surplus.amount = 0
  BY DEF Init, NoClaim
<1>3. vaults.wallet[<<Outside, Principal>>] = Supply /\ vaults.wallet[<<Outside, Collateral>>] = Supply
  <2>1. vaults.wallet = [k \in Keys |-> IF k[1] = Outside THEN Supply ELSE 0]
    BY DEF Init
  <2>2. <<Outside, Principal>> \in Keys /\ <<Outside, Collateral>> \in Keys
    BY Cast DEF Keys
  <2> QED BY <2>1, <2>2
<1>4. {Lent, MaxHeld, MaxProceeds, Supply, Pledged} \subseteq Nat
  BY FallbackLoanAssumption
<1>5. Now.n.status \in Open
  BY <1>1, <1>2 DEF Open
<1>6. Pot(vaults, Principal) = Supply + 0 + 0 /\ Pot(vaults, Collateral) = Supply + Pledged
  BY <1>1, <1>2, <1>3, <1>5, OpenPot
<1>7. Supply <= Supply + 0 + 0 /\ Pledged <= Supply + Pledged /\ Lent <= Lent /\ 0 + 0 + Lent <= MaxHeld + MaxProceeds + Lent
  BY <1>4
<1> QED BY <1>1, <1>2, <1>6, <1>7 DEF Never, Rich

LEMMA NextNever ==
    ASSUME Never, Supply >= Lent + MaxHeld + 2 * MaxProceeds, [Next]_vars
    PROVE  Never'
<1>1. CASE UNCHANGED vars
  <2>1. Now' = Now /\ Inv'
    BY <1>1, NextInv DEF vars, Now, Never
  <2>2. vaults' = vaults /\ loan' = loan
    BY <1>1 DEF vars
  <2> QED BY <2>1, <2>2 DEF Never, Rich, Now, Pot, Held
<1>2. CASE TriggerDefault
  BY <1>2, SoldNever DEF TriggerDefault
<1>3. CASE TriggerLiquidation
  BY <1>3, SoldNever DEF TriggerLiquidation
<1>4. CASE TriggerInternalMatchLiquidation
  BY <1>4, MatchedNever
<1>5. CASE SettlePeriodicInterest
  BY <1>5, PeriodicNever
<1>6. ASSUME NEW x \in 0..MaxInterest, RepayLoan(x) PROVE Never'
  BY <1>6, RepaidNever
<1>7. ASSUME NEW x \in 1..MaxPledged, AddCollateral(x) PROVE Never'
  BY <1>7, AddedNever
<1>8. CASE ClaimAsLender
  BY <1>8, LenderNever
<1>9. CASE ClaimAsBorrower
  BY <1>9, BorrowerNever
<1>10. ASSUME NEW b \in BOOLEAN, SetLenderBackstopOptIn(b) PROVE Never'
  BY <1>10, OptInNever
<1>11. CASE ClaimAsLenderViaBackstop
  BY <1>11, BackstopNever
<1>12. ASSUME NEW u \in {Lender, Borrower}, NEW a \in Assets, NEW x \in 1..Supply, Withdraw(u, a, x)
       PROVE  Never'
  BY <1>12, WithdrawNever
<1>13. ASSUME NEW u \in {Lender, Borrower}, NEW x \in 1..Supply, WithdrawVPFI(u, x) PROVE Never'
  BY <1>13, WithdrawVPFINever
<1> QED BY <1>1, <1>2, <1>3, <1>4, <1>5, <1>6, <1>7, <1>8, <1>9, <1>10, <1>11, <1>12, <1>13 DEF Next

(* If the market has the principal of the loan, what the loan may hold back*)
(* at the bound and the yield of two more sales, then for any assets,      *)
(* amounts and tokens, whatever path the loan took and whatever its parties*)
(* withdrew meanwhile, no claim of the lender or the borrower and no       *)
(* liquidation of an active loan is refused by the vaults or the ledger.   *)
THEOREM LoanNeverReverts ==
    ASSUME Supply >= Lent + MaxHeld + 2 * MaxProceeds
    PROVE  Spec => []NothingReverts
<1>1. Init => Never
  BY InitNever
<1>2. Never /\ [Next]_vars => Never'
  BY NextNever
<1>3. Never => NothingReverts
  BY NeverBacked, NothingRevertsWhenBacked
<1> QED BY <1>1, <1>2, <1>3, PTL DEF Spec

=============================================================================
