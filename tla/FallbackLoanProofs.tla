-------------------------- MODULE FallbackLoanProofs --------------------------
(***************************************************************************)
(* Whatever a loan goes through on its way to its end, each vault holds    *)
(* what its owner deposited and what the loan owes out of it, to the unit, *)
(* and the Diamond holds nothing.  While a fallback is pending, no step    *)
(* takes what the borrower added, nor lowers the lender's part.            *)
(***************************************************************************)
EXTENDS FallbackLoan, VaultProofs

(* The cast and the assets. *)
LEMMA Cast ==
    /\ Lender \in Users /\ Borrower \in Users /\ Diamond \in Users /\ Outside \in Users
    /\ Lender # Borrower /\ Lender # Diamond /\ Borrower # Diamond
    /\ Outside # Lender /\ Outside # Borrower /\ Outside # Diamond
    /\ Principal \in Assets /\ Collateral \in Assets /\ Vpfi \in Assets /\ Principal # Collateral
    /\ NoAsset \notin Assets
    /\ Loans = {1} /\ MaxLoans = 1
BY FallbackLoanAssumption, EncumbranceAssumption DEF Loans

(* What is reserved in a lane, and who holds money of the loan: the vaults *)
(* of its parties, beyond what the depository promises them, and the       *)
(* Diamond.                                                                *)
Lane(V, e) == V.ledger.reserved[e][1]

Holders == {Lender, Borrower, Diamond}

Held(V, p, a) == IF p = Diamond THEN V.wallet[<<p, a>>]
                 ELSE V.tracked[<<p, a>>] - V.depository[<<p, a>>]

(* The shape of the loan's rows, and that the ledger has no others.        *)
Kept(V) ==
    /\ V.ledger.lender[1] = Lender /\ V.ledger.borrower[1] = Borrower
    /\ \A o \in Offers : ~ V.ledger.offerPrincipalLien[o].live
    /\ \A i \in Intents : V.ledger.intentCapital[i] = 0
    /\ \A p \in Asides, k \in Keys : V.ledger.setAside[p][1][k] = 0
    /\ LienRow(V).live => LienRow(V).user = Borrower /\ LienRow(V).asset = Collateral
    /\ Lane(V, "lenderProceeds").amount > 0 => Lane(V, "lenderProceeds").asset = Vpfi
    /\ \A e \in {"heldForLender", "borrowerProceeds"} :
          Lane(V, e).amount > 0 => Lane(V, e).asset = Principal

Fit(V) == Sane(V) /\ Kept(V)

(* What may change from V to W: where the money is, what is under the lien *)
(* and what is reserved.                                                   *)
Part(r, c, p, a, x) == IF r = p /\ c = a THEN x ELSE 0

Moves(V, W, p, a, x, q, b, y) ==
    \A r \in Holders, c \in Assets : Held(W, r, c) = Held(V, r, c) + Part(r, c, p, a, x) + Part(r, c, q, b, y)

SameMoney(V, W) == \A r \in Holders, c \in Assets : Held(W, r, c) = Held(V, r, c)

SameLanes(V, W) == \A e \in Lanes : Lane(W, e).amount = Lane(V, e).amount

SameBooks(V, W) == LienAmount(W) = LienAmount(V) /\ SameLanes(V, W)

LEMMA FitTypes ==
    ASSUME NEW V, Fit(V)
    PROVE  /\ V \in Vaults /\ Sound(V.ledger) /\ Sane(V) /\ V.ledger \in Ledger
           /\ LienRow(V) \in Lien /\ LienAmount(V) \in Nat
           /\ \A e \in Lanes : Lane(V, e) \in Reservation /\ Lane(V, e).amount \in Nat
           /\ \A p \in Holders, a \in Assets : Held(V, p, a) \in Int
<1>1. V \in Vaults /\ Sound(V.ledger) /\ Sane(V) /\ V.ledger \in Ledger
  BY DEF Fit, Sane, Sound
<1>2. LienRow(V) \in Lien
  BY <1>1, Cast DEF LienRow, Ledger
<1>3. \A e \in Lanes : Lane(V, e) \in Reservation /\ Lane(V, e).amount \in Nat
  BY <1>1, Cast DEF Lane, Ledger, Reservation
<1>4. \A p \in Holders, a \in Assets : Held(V, p, a) \in Int
  BY <1>1, Cast DEF Held, Vaults, Holders, Keys
<1> QED BY <1>1, <1>2, <1>3, <1>4 DEF LienAmount, Lien

(* The loan's term without what is never set aside for it.                 *)
LEMMA TermOfLoan ==
    ASSUME NEW V, Fit(V), NEW k \in Keys
    PROVE  LoanTerm(V.ledger, 1, k) = LienTerm(V.ledger.loanCollateralLien[1], k)
                                        + ReservedTerm(V.ledger, "lenderProceeds", 1, k)
                                        + ReservedTerm(V.ledger, "heldForLender", 1, k)
                                        + ReservedTerm(V.ledger, "borrowerProceeds", 1, k)
<1>1. 1 \in Loans /\ V.ledger \in Ledger
  BY Cast, FitTypes
<1>2. /\ LienTerm(V.ledger.loanCollateralLien[1], k) \in Nat
      /\ ReservedTerm(V.ledger, "lenderProceeds", 1, k) \in Nat
      /\ ReservedTerm(V.ledger, "heldForLender", 1, k) \in Nat
      /\ ReservedTerm(V.ledger, "borrowerProceeds", 1, k) \in Nat
  BY <1>1, TermsAreNat DEF Lanes
<1>3. V.ledger.setAside["sellerInterestHeld"][1][k] = 0 /\ V.ledger.setAside["extendReserve"][1][k] = 0
  BY DEF Fit, Kept, Asides
<1> QED BY ONLY <1>2, <1>3 DEF LoanTerm

(* A change of balances only.                                              *)
LEMMA FollowsFits ==
    ASSUME NEW V, Fit(V), NEW W, Follows(V, W)
    PROVE  Fit(W) /\ SameBooks(V, W)
<1>1. SameRows(V.ledger, W.ledger) /\ Sane(W)
  BY DEF Follows
<1>2. LienRow(W) = LienRow(V) /\ \A e \in Lanes : Lane(W, e) = Lane(V, e)
  BY <1>1 DEF SameRows, LienRow, Lane
<1> QED BY <1>1, <1>2 DEF Fit, Kept, SameRows, SameParties, SameBooks, SameLanes, LienAmount, Lanes

LEMMA GuardedStep ==
    ASSUME NEW V, Fit(V), NEW p \in BOOLEAN
    PROVE  /\ Fit(Guarded(V, p)) /\ SameBooks(V, Guarded(V, p)) /\ SameMoney(V, Guarded(V, p))
           /\ Ok(Guarded(V, p)) => p
<1>1. Follows(V, Guarded(V, p)) /\ (Ok(Guarded(V, p)) => p)
  BY GuardedFollows DEF Fit
<1>2. V \in Vaults
  BY FitTypes
<1>3. SameMoney(V, Guarded(V, p))
  BY <1>2 DEF SameMoney, Held, Guarded, On, Vaults
<1> QED BY <1>1, <1>3, FollowsFits

-----------------------------------------------------------------------------
(* Moving tokens.                                                          *)

LEMMA TransferStep ==
    ASSUME NEW V, Fit(V), NEW p \in {Diamond, Outside}, NEW q \in {Diamond, Outside}, p # q,
           NEW a \in Assets, NEW x \in Int
    PROVE  LET W == Transfer(V, p, q, a, x)
           IN  Fit(W) /\ SameBooks(V, W) /\ Moves(V, W, p, a, -x, q, a, x)
<1> DEFINE U == [V EXCEPT !.wallet[<<p, a>>] = @ - x, !.wallet[<<q, a>>] = @ + x]
           g == x <= V.wallet[<<p, a>>]
<1>0. p \in Users /\ q \in Users /\ V \in Vaults /\ Sane(V)
  BY Cast, FitTypes
<1>1. /\ V.wallet \in [Keys -> Int] /\ V.tracked \in [Keys -> Int] /\ V.depository \in [Keys -> Nat]
      /\ <<p, a>> \in Keys /\ <<q, a>> \in Keys
  BY <1>0 DEF Vaults, Keys
<1>2. U.ledger = V.ledger /\ U.tracked = V.tracked /\ U.depository = V.depository
      /\ U.wallet = [[V.wallet EXCEPT ![<<p, a>>] = @ - x] EXCEPT ![<<q, a>>] = @ + x]
  BY <1>0 DEF Vaults
<1>3. U \in Vaults
  <2>1. [V.wallet EXCEPT ![<<p, a>>] = @ - x] \in [Keys -> Int]
    BY <1>1
  <2>2. \A f \in [Keys -> Int] : [f EXCEPT ![<<q, a>>] = @ + x] \in [Keys -> Int]
    BY <1>1
  <2>3. U.wallet \in [Keys -> Int]
    BY <1>2, <2>1, <2>2
  <2>4. U = [V EXCEPT !.wallet = U.wallet]
    BY <1>0, <1>2 DEF Vaults
  <2> HIDE DEF U
  <2> QED BY <1>0, <2>3, <2>4 DEF Vaults
<1>4. \A c \in Assets : U.wallet[<<Diamond, c>>] = V.wallet[<<Diamond, c>>]
                             + Part(Diamond, c, p, a, -x) + Part(Diamond, c, q, a, x)
  <2> TAKE c \in Assets
  <2>1. <<Diamond, c>> \in Keys /\ V.wallet[<<Diamond, c>>] \in Int
    BY <1>1, Cast DEF Keys
  <2>2. CASE c # a
    BY <1>1, <1>2, <2>1, <2>2 DEF Part
  <2>3. CASE c = a /\ p = Diamond
    BY <1>1, <1>2, <2>1, <2>3, Cast DEF Part
  <2>4. CASE c = a /\ q = Diamond
    BY <1>1, <1>2, <2>1, <2>4, Cast DEF Part
  <2> QED BY <2>2, <2>3, <2>4, Cast
<1> HIDE DEF U, g
<1>5. Moves(V, U, p, a, -x, q, a, x)
  <2> SUFFICES ASSUME NEW r \in Holders, NEW c \in Assets
               PROVE  Held(U, r, c) = Held(V, r, c) + Part(r, c, p, a, -x) + Part(r, c, q, a, x)
    BY DEF Moves
  <2>1. Held(V, r, c) \in Int
    BY FitTypes
  <2>2. CASE r = Diamond
    BY <1>4, <2>2 DEF Held
  <2>3. CASE r # Diamond
    <3>1. Part(r, c, p, a, -x) = 0 /\ Part(r, c, q, a, x) = 0
      BY <2>3, Cast DEF Part, Holders
    <3> QED BY <1>2, <2>1, <2>3, <3>1 DEF Held
  <2> QED BY <2>2, <2>3
<1>6. Fit(U) /\ SameBooks(V, U)
  BY <1>0, <1>2, <1>3, BalancesFollow, FollowsFits
<1>7. Fit(Guarded(U, g)) /\ SameBooks(U, Guarded(U, g)) /\ SameMoney(U, Guarded(U, g))
  <2>1. g \in BOOLEAN
    BY DEF g
  <2> QED BY <1>6, <2>1, GuardedStep
<1>8. Transfer(V, p, q, a, x) = Guarded(U, g)
  BY DEF Transfer, U, g
<1> QED BY <1>5, <1>6, <1>7, <1>8 DEF Moves, SameMoney, SameBooks, SameLanes

LEMMA DepositStep ==
    ASSUME NEW V, Fit(V), NEW p \in {Diamond, Outside}, NEW u \in {Lender, Borrower, Outside},
           NEW a \in Assets, NEW x \in Int
    PROVE  LET W == VaultDepositERC20From(V, p, u, a, x)
           IN  Fit(W) /\ SameBooks(V, W) /\ Moves(V, W, p, a, -x, u, a, x)
<1> DEFINE W == VaultDepositERC20From(V, p, u, a, x)
<1>0. p \in Users /\ u \in Users /\ V \in Vaults /\ Sane(V)
  BY Cast, FitTypes
<1>1. /\ V.wallet \in [Keys -> Int] /\ V.tracked \in [Keys -> Int] /\ V.depository \in [Keys -> Nat]
      /\ <<p, a>> \in Keys /\ <<u, a>> \in Keys
  BY <1>0 DEF Vaults, Keys
<1>2. W.tracked = [V.tracked EXCEPT ![<<u, a>>] = @ + x] /\ W.depository = V.depository
      /\ W.wallet = [V.wallet EXCEPT ![<<p, a>>] = @ - x]
  BY <1>0 DEF Vaults, VaultDepositERC20From, Guarded, On
<1>3. Follows(V, W)
  BY <1>0, VaultDepositFollows
<1> HIDE DEF W
<1>4. \A c \in Assets : W.wallet[<<Diamond, c>>] = V.wallet[<<Diamond, c>>] + Part(Diamond, c, p, a, -x)
  <2> TAKE c \in Assets
  <2>1. <<Diamond, c>> \in Keys /\ V.wallet[<<Diamond, c>>] \in Int
    BY <1>1, Cast DEF Keys
  <2>2. CASE c = a /\ p = Diamond
    BY <1>1, <1>2, <2>1, <2>2 DEF Part
  <2>3. CASE ~ (c = a /\ p = Diamond)
    BY <1>1, <1>2, <2>1, <2>3 DEF Part
  <2> QED BY <2>2, <2>3
<1>5. \A r \in {Lender, Borrower}, c \in Assets :
         W.tracked[<<r, c>>] = V.tracked[<<r, c>>] + Part(r, c, u, a, x)
  <2> TAKE r \in {Lender, Borrower}, c \in Assets
  <2>1. <<r, c>> \in Keys /\ V.tracked[<<r, c>>] \in Int
    BY <1>1, Cast DEF Keys
  <2>2. CASE c = a /\ r = u
    BY <1>1, <1>2, <2>1, <2>2 DEF Part
  <2>3. CASE ~ (c = a /\ r = u)
    BY <1>1, <1>2, <2>1, <2>3 DEF Part
  <2> QED BY <2>2, <2>3
<1>6. \A r \in Holders, c \in Assets : /\ V.tracked[<<r, c>>] \in Int /\ V.depository[<<r, c>>] \in Int
                                       /\ V.wallet[<<r, c>>] \in Int
  BY <1>1, Cast DEF Holders, Keys
<1>7. Moves(V, W, p, a, -x, u, a, x)
  <2> SUFFICES ASSUME NEW r \in Holders, NEW c \in Assets
               PROVE  Held(W, r, c) = Held(V, r, c) + Part(r, c, p, a, -x) + Part(r, c, u, a, x)
    BY DEF Moves
  <2>1. Part(r, c, p, a, -x) \in Int /\ Part(r, c, u, a, x) \in Int
    BY DEF Part
  <2>2. CASE r = Diamond
    <3>1. Part(r, c, u, a, x) = 0
      BY <2>2, Cast DEF Part
    <3> QED BY <1>4, <1>6, <2>1, <2>2, <3>1 DEF Held
  <2>3. CASE r # Diamond
    <3>1. Part(r, c, p, a, -x) = 0 /\ r \in {Lender, Borrower}
      BY <2>3, Cast DEF Part, Holders
    <3>2. W.tracked[<<r, c>>] = V.tracked[<<r, c>>] + Part(r, c, u, a, x)
      BY <1>5, <3>1
    <3> QED BY <1>2, <1>6, <2>1, <2>3, <3>1, <3>2 DEF Held
  <2> QED BY <2>2, <2>3
<1> QED BY <1>3, <1>7, FollowsFits DEF W

LEMMA WithdrawStep ==
    ASSUME NEW V, Fit(V), NEW u \in {Lender, Borrower}, NEW to \in {Diamond, Outside},
           NEW a \in Assets, NEW x \in Int
    PROVE  LET W == VaultWithdrawERC20(V, u, a, to, x)
           IN  Fit(W) /\ SameBooks(V, W) /\ Moves(V, W, u, a, -x, to, a, x)
<1> DEFINE W == VaultWithdrawERC20(V, u, a, to, x)
<1>0. to \in Users /\ u \in Users /\ V \in Vaults /\ Sane(V)
  BY Cast, FitTypes
<1>1. /\ V.wallet \in [Keys -> Int] /\ V.tracked \in [Keys -> Int] /\ V.depository \in [Keys -> Nat]
      /\ <<to, a>> \in Keys /\ <<u, a>> \in Keys
  BY <1>0 DEF Vaults, Keys
<1>2. W.tracked = [V.tracked EXCEPT ![<<u, a>>] = @ - x] /\ W.depository = V.depository
      /\ W.wallet = [V.wallet EXCEPT ![<<to, a>>] = @ + x]
  BY <1>0 DEF Vaults, VaultWithdrawERC20, Guarded, On
<1>3. Follows(V, W)
  BY <1>0, VaultWithdrawFollows
<1> HIDE DEF W
<1>4. \A c \in Assets : W.wallet[<<Diamond, c>>] = V.wallet[<<Diamond, c>>] + Part(Diamond, c, to, a, x)
  <2> TAKE c \in Assets
  <2>1. <<Diamond, c>> \in Keys /\ V.wallet[<<Diamond, c>>] \in Int
    BY <1>1, Cast DEF Keys
  <2>2. CASE c = a /\ to = Diamond
    BY <1>1, <1>2, <2>1, <2>2 DEF Part
  <2>3. CASE ~ (c = a /\ to = Diamond)
    BY <1>1, <1>2, <2>1, <2>3 DEF Part
  <2> QED BY <2>2, <2>3
<1>5. \A r \in {Lender, Borrower}, c \in Assets :
         W.tracked[<<r, c>>] = V.tracked[<<r, c>>] + Part(r, c, u, a, -x)
  <2> TAKE r \in {Lender, Borrower}, c \in Assets
  <2>1. <<r, c>> \in Keys /\ V.tracked[<<r, c>>] \in Int
    BY <1>1, Cast DEF Keys
  <2>2. CASE c = a /\ r = u
    BY <1>1, <1>2, <2>1, <2>2 DEF Part
  <2>3. CASE ~ (c = a /\ r = u)
    BY <1>1, <1>2, <2>1, <2>3 DEF Part
  <2> QED BY <2>2, <2>3
<1>6. \A r \in Holders, c \in Assets : /\ V.tracked[<<r, c>>] \in Int /\ V.depository[<<r, c>>] \in Int
                                       /\ V.wallet[<<r, c>>] \in Int
  BY <1>1, Cast DEF Holders, Keys
<1>7. Moves(V, W, u, a, -x, to, a, x)
  <2> SUFFICES ASSUME NEW r \in Holders, NEW c \in Assets
               PROVE  Held(W, r, c) = Held(V, r, c) + Part(r, c, u, a, -x) + Part(r, c, to, a, x)
    BY DEF Moves
  <2>1. Part(r, c, u, a, -x) \in Int /\ Part(r, c, to, a, x) \in Int
    BY DEF Part
  <2>2. CASE r = Diamond
    <3>1. Part(r, c, u, a, -x) = 0
      BY <2>2, Cast DEF Part
    <3> QED BY <1>4, <1>6, <2>1, <2>2, <3>1 DEF Held
  <2>3. CASE r # Diamond
    <3>1. Part(r, c, to, a, x) = 0 /\ r \in {Lender, Borrower}
      BY <2>3, Cast DEF Part, Holders
    <3>2. W.tracked[<<r, c>>] = V.tracked[<<r, c>>] + Part(r, c, u, a, -x)
      BY <1>5, <3>1
    <3> QED BY <1>2, <1>6, <2>1, <2>3, <3>1, <3>2 DEF Held
  <2> QED BY <2>2, <2>3
<1> QED BY <1>3, <1>7, FollowsFits DEF W

(* Two transfers in a row.                                                 *)
LEMMA PullStep ==
    ASSUME NEW V, Fit(V), NEW a \in Assets, NEW x \in Int, NEW y \in Int
    PROVE  LET W == PullToDiamond(V, a, x, y)
           IN  Fit(W) /\ SameBooks(V, W) /\ Moves(V, W, Borrower, a, -x, Diamond, a, y)
<1> DEFINE U == VaultWithdrawERC20(V, Borrower, a, Diamond, x)
           W == Transfer(U, Diamond, Outside, a, x - y)
<1>1. Fit(U) /\ SameBooks(V, U) /\ Moves(V, U, Borrower, a, -x, Diamond, a, x)
  BY WithdrawStep
<1>2. PullToDiamond(V, a, x, y) = W
  BY DEF PullToDiamond
<1> HIDE DEF U
<1>3. Fit(W) /\ SameBooks(U, W) /\ Moves(U, W, Diamond, a, -(x - y), Outside, a, x - y)
  <2>1. x - y \in Int /\ Diamond # Outside
    BY Cast
  <2> QED BY <1>1, <2>1, TransferStep
<1> HIDE DEF W
<1>4. Moves(V, W, Borrower, a, -x, Diamond, a, y)
  <2> SUFFICES ASSUME NEW r \in Holders, NEW c \in Assets
               PROVE  Held(W, r, c) = Held(V, r, c) + Part(r, c, Borrower, a, -x) + Part(r, c, Diamond, a, y)
    BY DEF Moves
  <2>1. /\ Held(U, r, c) = Held(V, r, c) + Part(r, c, Borrower, a, -x) + Part(r, c, Diamond, a, x)
        /\ Held(W, r, c) = Held(U, r, c) + Part(r, c, Diamond, a, -(x - y)) + Part(r, c, Outside, a, x - y)
    BY <1>1, <1>3 DEF Moves
  <2>2. Held(V, r, c) \in Int /\ r # Outside
    BY FitTypes, Cast DEF Holders
  <2> QED BY <2>1, <2>2, Cast DEF Part
<1> QED BY <1>1, <1>2, <1>3, <1>4 DEF SameBooks, SameLanes

LEMMA DepositLockedStep ==
    ASSUME NEW V, Fit(V), NEW u \in {Lender, Borrower}, NEW a \in Assets, NEW x \in Int, NEW y \in Int
    PROVE  LET W == DepositLocked(V, u, a, x, y)
           IN  Fit(W) /\ SameBooks(V, W) /\ Moves(V, W, Diamond, a, -x, u, a, y)
<1> DEFINE U == Transfer(V, Diamond, Outside, a, x - y)
           W == VaultDepositERC20From(U, Diamond, u, a, y)
<1>1. Fit(U) /\ SameBooks(V, U) /\ Moves(V, U, Diamond, a, -(x - y), Outside, a, x - y)
  <2>1. x - y \in Int /\ Diamond # Outside
    BY Cast
  <2> QED BY <2>1, TransferStep
<1>2. DepositLocked(V, u, a, x, y) = W
  BY DEF DepositLocked
<1> HIDE DEF U
<1>3. Fit(W) /\ SameBooks(U, W) /\ Moves(U, W, Diamond, a, -y, u, a, y)
  BY <1>1, DepositStep
<1> HIDE DEF W
<1>4. Moves(V, W, Diamond, a, -x, u, a, y)
  <2> SUFFICES ASSUME NEW r \in Holders, NEW c \in Assets
               PROVE  Held(W, r, c) = Held(V, r, c) + Part(r, c, Diamond, a, -x) + Part(r, c, u, a, y)
    BY DEF Moves
  <2>1. /\ Held(U, r, c) = Held(V, r, c) + Part(r, c, Diamond, a, -(x - y)) + Part(r, c, Outside, a, x - y)
        /\ Held(W, r, c) = Held(U, r, c) + Part(r, c, Diamond, a, -y) + Part(r, c, u, a, y)
    BY <1>1, <1>3 DEF Moves
  <2>2. Held(V, r, c) \in Int /\ r # Outside
    BY FitTypes, Cast DEF Holders
  <2> QED BY <2>1, <2>2, Cast DEF Part
<1> QED BY <1>1, <1>2, <1>3, <1>4 DEF SameBooks, SameLanes

LEMMA DepositFromVaultStep ==
    ASSUME NEW V, Fit(V), NEW u \in {Lender, Outside}, NEW a \in Assets, NEW x \in Int, NEW y \in Int
    PROVE  LET W == DepositFromVault(V, u, a, x, y)
           IN  Fit(W) /\ SameBooks(V, W) /\ Moves(V, W, Borrower, a, -x, u, a, y)
<1> DEFINE U == VaultWithdrawERC20(V, Borrower, a, Outside, x)
           W == VaultDepositERC20From(U, Outside, u, a, y)
<1>1. Fit(U) /\ SameBooks(V, U) /\ Moves(V, U, Borrower, a, -x, Outside, a, x)
  BY WithdrawStep
<1>2. DepositFromVault(V, u, a, x, y) = W
  BY DEF DepositFromVault
<1> HIDE DEF U
<1>3. Fit(W) /\ SameBooks(U, W) /\ Moves(U, W, Outside, a, -y, u, a, y)
  BY <1>1, DepositStep
<1> HIDE DEF W
<1>4. Moves(V, W, Borrower, a, -x, u, a, y)
  <2> SUFFICES ASSUME NEW r \in Holders, NEW c \in Assets
               PROVE  Held(W, r, c) = Held(V, r, c) + Part(r, c, Borrower, a, -x) + Part(r, c, u, a, y)
    BY DEF Moves
  <2>1. /\ Held(U, r, c) = Held(V, r, c) + Part(r, c, Borrower, a, -x) + Part(r, c, Outside, a, x)
        /\ Held(W, r, c) = Held(U, r, c) + Part(r, c, Outside, a, -y) + Part(r, c, u, a, y)
    BY <1>1, <1>3 DEF Moves
  <2>2. Held(V, r, c) \in Int /\ r # Outside
    BY FitTypes, Cast DEF Holders
  <2> QED BY <2>1, <2>2, Cast DEF Part
<1> QED BY <1>1, <1>2, <1>3, <1>4 DEF SameBooks, SameLanes

LEMMA SwappedStep ==
    ASSUME NEW V, Fit(V), NEW x \in Int, NEW y \in Int
    PROVE  LET W == Swapped(V, x, y)
           IN  Fit(W) /\ SameBooks(V, W) /\ Moves(V, W, Diamond, Collateral, -x, Diamond, Principal, y)
<1> DEFINE U == Transfer(V, Diamond, Outside, Collateral, x)
           W == Transfer(U, Outside, Diamond, Principal, y)
<1>1. Fit(U) /\ SameBooks(V, U) /\ Moves(V, U, Diamond, Collateral, -x, Outside, Collateral, x)
  BY Cast, TransferStep
<1>2. Swapped(V, x, y) = W
  BY DEF Swapped
<1> HIDE DEF U
<1>3. Fit(W) /\ SameBooks(U, W) /\ Moves(U, W, Outside, Principal, -y, Diamond, Principal, y)
  BY <1>1, Cast, TransferStep
<1> HIDE DEF W
<1>4. Moves(V, W, Diamond, Collateral, -x, Diamond, Principal, y)
  <2> SUFFICES ASSUME NEW r \in Holders, NEW c \in Assets
               PROVE  Held(W, r, c) = Held(V, r, c) + Part(r, c, Diamond, Collateral, -x)
                                        + Part(r, c, Diamond, Principal, y)
    BY DEF Moves
  <2>1. /\ Held(U, r, c) = Held(V, r, c) + Part(r, c, Diamond, Collateral, -x) + Part(r, c, Outside, Collateral, x)
        /\ Held(W, r, c) = Held(U, r, c) + Part(r, c, Outside, Principal, -y) + Part(r, c, Diamond, Principal, y)
    BY <1>1, <1>3 DEF Moves
  <2>2. Held(V, r, c) \in Int /\ r # Outside
    BY FitTypes, Cast DEF Holders
  <2> QED BY <2>1, <2>2, Cast DEF Part
<1> QED BY <1>1, <1>2, <1>3, <1>4 DEF SameBooks, SameLanes

-----------------------------------------------------------------------------
(* Moving rows.                                                            *)

LanesBut(V, W, e) == \A d \in Lanes : d # e => Lane(W, d).amount = Lane(V, d).amount

(* A new ledger under the same balances.                                   *)
LEMMA OnStep ==
    ASSUME NEW V, Fit(V), NEW L, Grows(V.ledger, L),
           L.offerPrincipalLien = V.ledger.offerPrincipalLien,
           L.intentCapital = V.ledger.intentCapital,
           L.setAside = V.ledger.setAside
    PROVE  /\ Sane(On(V, L)) /\ On(V, L).ledger = L /\ SameMoney(V, On(V, L))
           /\ L.lender = V.ledger.lender /\ L.borrower = V.ledger.borrower
<1>1. V \in Vaults /\ Sane(V)
  BY FitTypes
<1>2. Sane(On(V, L)) /\ On(V, L).ledger = L
  BY <1>1, OnSane DEF Grows
<1>3. On(V, L).wallet = V.wallet /\ On(V, L).tracked = V.tracked /\ On(V, L).depository = V.depository
  BY <1>1 DEF On, Vaults
<1>4. SameMoney(V, On(V, L))
  BY <1>3 DEF SameMoney, Held
<1> QED BY <1>2, <1>4 DEF Grows, SameParties

LEMMA ReleaseLienStep ==
    ASSUME NEW V, Fit(V)
    PROVE  LET W == ReleaseLien(V)
           IN  Fit(W) /\ SameMoney(V, W) /\ SameLanes(V, W) /\ LienAmount(W) = 0 /\ ~ LienRow(W).live
<1> DEFINE L == ReleaseCollateralLien(V.ledger, 1)
           W == On(V, L)
<1>0. 1 \in Loans /\ Sound(V.ledger) /\ Kept(V)
  BY Cast, FitTypes DEF Fit
<1>1. /\ Grows(V.ledger, L) /\ L.offerPrincipalLien = V.ledger.offerPrincipalLien
      /\ L.reserved = V.ledger.reserved /\ L.intentCapital = V.ledger.intentCapital
      /\ L.setAside = V.ledger.setAside
      /\ ~ L.loanCollateralLien[1].live
  BY <1>0, ReleaseCollateralLienSound
<1>2. ReleaseLien(V) = W
  BY DEF ReleaseLien
<1> HIDE DEF L
<1>3. /\ Sane(W) /\ W.ledger = L /\ SameMoney(V, W)
      /\ L.lender = V.ledger.lender /\ L.borrower = V.ledger.borrower
  BY <1>1, OnStep
<1> HIDE DEF W
<1>4. \A e \in Lanes : Lane(W, e) = Lane(V, e)
  BY <1>1, <1>3 DEF Lane
<1>5. ~ LienRow(W).live /\ LienAmount(W) = 0
  BY <1>1, <1>3 DEF LienRow, LienAmount
<1>6. Kept(W)
  BY <1>0, <1>1, <1>3, <1>4, <1>5 DEF Kept, Lanes
<1> QED BY <1>2, <1>3, <1>4, <1>5, <1>6 DEF Fit, SameLanes

LEMMA LowerLienStep ==
    ASSUME NEW V, Fit(V), NEW x \in Nat, x <= LienAmount(V)
    PROVE  LET W == LowerLien(V, x)
           IN  Fit(W) /\ SameMoney(V, W) /\ SameLanes(V, W) /\ LienAmount(W) = LienAmount(V) - x
<1> DEFINE L == DecrementCollateralLien(V.ledger, 1, x)
           r == LienRow(V)
           W == On(V, L)
<1>0. 1 \in Loans /\ Sound(V.ledger) /\ Kept(V) /\ r \in Lien
  BY Cast, FitTypes DEF Fit
<1>1. /\ Grows(V.ledger, L) /\ L.offerPrincipalLien = V.ledger.offerPrincipalLien
      /\ L.reserved = V.ledger.reserved /\ L.intentCapital = V.ledger.intentCapital
      /\ L.setAside = V.ledger.setAside
      /\ L.loanCollateralLien[1] = IF r.live THEN [r EXCEPT !.amount = Excess(@, x)] ELSE r
  BY <1>0, DecrementCollateralLienSound DEF LienRow
<1>2. LowerLien(V, x) = W
  BY DEF LowerLien
<1> HIDE DEF L
<1>3. /\ Sane(W) /\ W.ledger = L /\ SameMoney(V, W)
      /\ L.lender = V.ledger.lender /\ L.borrower = V.ledger.borrower
  BY <1>1, OnStep
<1> HIDE DEF W
<1>4. \A e \in Lanes : Lane(W, e) = Lane(V, e)
  BY <1>1, <1>3 DEF Lane
<1>5. LienRow(W).live = r.live /\ LienRow(W).user = r.user /\ LienRow(W).asset = r.asset
  BY <1>0, <1>1, <1>3 DEF LienRow, Lien
<1>6. LienAmount(W) = LienAmount(V) - x
  <2>1. CASE r.live
    <3>1. LienRow(W).amount = Excess(r.amount, x) /\ r.amount \in Nat /\ x <= r.amount
      BY <1>0, <1>1, <1>3, <2>1 DEF LienRow, LienAmount, Lien
    <3> QED BY <1>5, <2>1, <3>1 DEF LienAmount, Excess
  <2>2. CASE ~ r.live
    BY <1>5, <2>2 DEF LienAmount
  <2> QED BY <2>1, <2>2
<1>7. Kept(W)
  BY <1>0, <1>1, <1>3, <1>4, <1>5 DEF Kept, Lanes
<1> QED BY <1>2, <1>3, <1>4, <1>6, <1>7 DEF Fit, SameLanes

LEMMA RaiseLienStep ==
    ASSUME NEW V, Fit(V), NEW x \in Nat
    PROVE  LET W == RaiseLien(V, x)
           IN  Fit(W) /\ SameMoney(V, W) /\ SameLanes(V, W) /\ LienAmount(W) = LienAmount(V) + x
<1> DEFINE L == IncrementCollateralLien(V.ledger, 1, Collateral, x)
           r == LienRow(V)
           W == On(V, L)
<1>0. 1 \in Loans /\ Sound(V.ledger) /\ Kept(V) /\ r \in Lien /\ Collateral \in Assets
  BY Cast, FitTypes DEF Fit
<1>1. /\ Grows(V.ledger, L) /\ L.offerPrincipalLien = V.ledger.offerPrincipalLien
      /\ L.reserved = V.ledger.reserved /\ L.intentCapital = V.ledger.intentCapital
      /\ L.setAside = V.ledger.setAside
      /\ L.loanCollateralLien[1] =
            IF x = 0 THEN r ELSE IF r.live THEN [r EXCEPT !.amount = @ + x]
            ELSE [user |-> V.ledger.borrower[1], asset |-> Collateral, amount |-> x, live |-> TRUE]
  BY <1>0, IncrementCollateralLienSound DEF LienRow
<1>2. RaiseLien(V, x) = W
  BY DEF RaiseLien
<1> HIDE DEF L
<1>3. /\ Sane(W) /\ W.ledger = L /\ SameMoney(V, W)
      /\ L.lender = V.ledger.lender /\ L.borrower = V.ledger.borrower
  BY <1>1, OnStep
<1> HIDE DEF W
<1>4. \A e \in Lanes : Lane(W, e) = Lane(V, e)
  BY <1>1, <1>3 DEF Lane
<1>5. /\ LienRow(W).live => LienRow(W).user = Borrower /\ LienRow(W).asset = Collateral
      /\ LienAmount(W) = LienAmount(V) + x
  <2>0. LienRow(W) = L.loanCollateralLien[1] /\ r.amount \in Nat /\ V.ledger.borrower[1] = Borrower
    BY <1>0, <1>3 DEF LienRow, Lien, Kept
  <2>1. CASE x = 0
    BY <1>0, <1>1, <2>0, <2>1 DEF LienAmount, Kept
  <2>2. CASE x # 0 /\ r.live
    BY <1>0, <1>1, <2>0, <2>2 DEF LienAmount, Kept, Lien
  <2>3. CASE x # 0 /\ ~ r.live
    BY <1>0, <1>1, <2>0, <2>3 DEF LienAmount, Kept
  <2> QED BY <2>1, <2>2, <2>3
<1>6. Kept(W)
  BY <1>0, <1>1, <1>3, <1>4, <1>5 DEF Kept, Lanes
<1> QED BY <1>2, <1>3, <1>4, <1>5, <1>6 DEF Fit, SameLanes

(* The asset a lane is for, and the party whose vault it is in.            *)
LaneAsset(e) == IF e = "lenderProceeds" THEN Vpfi ELSE Principal

LaneParty(e) == IF e = "borrowerProceeds" THEN Borrower ELSE Lender

LEMMA ReserveStep ==
    ASSUME NEW V, Fit(V), NEW e \in Lanes, NEW x \in Nat
    PROVE  LET W == Reserve(V, e, LaneParty(e), LaneAsset(e), x)
           IN  /\ Fit(W) /\ SameMoney(V, W) /\ LienRow(W) = LienRow(V) /\ LienAmount(W) = LienAmount(V)
               /\ Lane(W, e).amount = Lane(V, e).amount + x
               /\ LanesBut(V, W, e)
<1> DEFINE L == Encumber(V.ledger, e, 1, LaneParty(e), LaneAsset(e), x)
           r == Lane(V, e)
           W == On(V, L)
<1>0. /\ 1 \in Loans /\ Sound(V.ledger) /\ Kept(V) /\ r \in Reservation /\ r.amount \in Nat
      /\ LaneAsset(e) \in Assets
  BY Cast, FitTypes DEF Fit, LaneAsset
<1>a. LaneParty(e) = Party(V.ledger, e, 1)
  BY <1>0 DEF LaneParty, Party, Kept
<1>1. /\ Grows(V.ledger, L) /\ L.offerPrincipalLien = V.ledger.offerPrincipalLien
      /\ L.loanCollateralLien = V.ledger.loanCollateralLien /\ L.intentCapital = V.ledger.intentCapital
      /\ L.setAside = V.ledger.setAside
      /\ L.reserved[e][1] = IF x = 0 THEN r ELSE [asset |-> LaneAsset(e), amount |-> r.amount + x]
      /\ \A d \in Lanes : d # e => L.reserved[d][1] = V.ledger.reserved[d][1]
  <2> DEFINE K == V.ledger
             u == LaneParty(e)
             a == LaneAsset(e)
  <2>1. Sound(K) /\ 1 \in Loans /\ u = Party(K, e, 1) /\ a \in Assets
    BY <1>0, <1>a
  <2> HIDE DEF K, u, a
  <2>2. LET N == Encumber(K, e, 1, u, a, x)
            h == K.reserved[e][1]
        IN  /\ Grows(K, N)
            /\ N.offerPrincipalLien = K.offerPrincipalLien
            /\ N.loanCollateralLien = K.loanCollateralLien
            /\ N.intentCapital = K.intentCapital
            /\ N.setAside = K.setAside
            /\ N.reserved[e][1] = IF x = 0 THEN h ELSE [asset |-> a, amount |-> h.amount + x]
            /\ \A d \in Lanes : d # e => N.reserved[d][1] = K.reserved[d][1]
    BY ONLY <2>1, e \in Lanes, x \in Nat, EncumberSound
  <2>3. Encumber(K, e, 1, u, a, x) = L /\ K = V.ledger /\ a = LaneAsset(e) /\ K.reserved[e][1] = r
    BY DEF K, u, a, Lane
  <2> HIDE DEF L, r
  <2> QED BY <2>2, <2>3
<1>2. Reserve(V, e, LaneParty(e), LaneAsset(e), x) = W
  BY DEF Reserve
<1> HIDE DEF L
<1>3. /\ Sane(W) /\ W.ledger = L /\ SameMoney(V, W)
      /\ L.lender = V.ledger.lender /\ L.borrower = V.ledger.borrower
  BY <1>1, OnStep
<1> HIDE DEF W
<1>4. /\ \A d \in Lanes : d # e => Lane(W, d) = Lane(V, d)
      /\ Lane(W, e) = IF x = 0 THEN r ELSE [asset |-> LaneAsset(e), amount |-> r.amount + x]
  BY <1>1, <1>3 DEF Lane
<1>5. LienRow(W) = LienRow(V) /\ LienAmount(W) = LienAmount(V)
  BY <1>1, <1>3 DEF LienRow, LienAmount
<1>6. Lane(W, e).amount = r.amount + x
  <2> HIDE DEF r
  <2> QED BY <1>0, <1>4
<1>7. \A d \in Lanes : Lane(W, d).amount > 0 => Lane(W, d).asset = LaneAsset(d)
  <2>1. \A d \in Lanes : Lane(V, d).amount > 0 => Lane(V, d).asset = LaneAsset(d)
    BY <1>0 DEF Kept, LaneAsset, Lanes
  <2>2. x # 0 => Lane(W, e).asset = LaneAsset(e)
    BY <1>4
  <2> QED BY <1>4, <2>1, <2>2
<1>8. Kept(W)
  <2>1. /\ Lane(W, "lenderProceeds").amount > 0 => Lane(W, "lenderProceeds").asset = Vpfi
        /\ \A d \in {"heldForLender", "borrowerProceeds"} : Lane(W, d).amount > 0 => Lane(W, d).asset = Principal
    BY <1>7 DEF LaneAsset, Lanes
  <2> QED BY <1>0, <1>1, <1>3, <1>5, <2>1 DEF Kept
<1> QED BY <1>2, <1>3, <1>4, <1>5, <1>6, <1>8 DEF Fit, LanesBut

LEMMA ReleaseStep ==
    ASSUME NEW V, Fit(V), NEW e \in Lanes
    PROVE  LET W == Release(V, e, LaneParty(e))
           IN  /\ Fit(W) /\ SameMoney(V, W) /\ LienRow(W) = LienRow(V) /\ LienAmount(W) = LienAmount(V)
               /\ Lane(W, e).amount = 0
               /\ LanesBut(V, W, e)
<1> DEFINE L == ReleaseReserved(V.ledger, e, 1, LaneParty(e))
           W == On(V, L)
<1>0. 1 \in Loans /\ Sound(V.ledger) /\ Kept(V)
  BY Cast, FitTypes DEF Fit
<1>a. LaneParty(e) = Party(V.ledger, e, 1)
  BY <1>0 DEF LaneParty, Party, Kept
<1>1. /\ Grows(V.ledger, L) /\ L.offerPrincipalLien = V.ledger.offerPrincipalLien
      /\ L.loanCollateralLien = V.ledger.loanCollateralLien /\ L.intentCapital = V.ledger.intentCapital
      /\ L.setAside = V.ledger.setAside
      /\ L.reserved[e][1].amount = 0
      /\ \A d \in Lanes : d # e => L.reserved[d][1] = V.ledger.reserved[d][1]
  BY <1>0, <1>a, ReleaseReservedSound
<1>2. Release(V, e, LaneParty(e)) = W
  BY DEF Release
<1> HIDE DEF L
<1>3. /\ Sane(W) /\ W.ledger = L /\ SameMoney(V, W)
      /\ L.lender = V.ledger.lender /\ L.borrower = V.ledger.borrower
  BY <1>1, OnStep
<1> HIDE DEF W
<1>4. /\ \A d \in Lanes : d # e => Lane(W, d) = Lane(V, d)
      /\ Lane(W, e).amount = 0
  BY <1>1, <1>3 DEF Lane
<1>5. LienRow(W) = LienRow(V) /\ LienAmount(W) = LienAmount(V)
  BY <1>1, <1>3 DEF LienRow, LienAmount
<1>7. \A d \in Lanes : Lane(W, d).amount > 0 => Lane(W, d).asset = LaneAsset(d)
  <2>1. \A d \in Lanes : Lane(V, d).amount > 0 => Lane(V, d).asset = LaneAsset(d)
    BY <1>0 DEF Kept, LaneAsset, Lanes
  <2> QED BY <1>4, <2>1
<1>8. Kept(W)
  <2>1. /\ Lane(W, "lenderProceeds").amount > 0 => Lane(W, "lenderProceeds").asset = Vpfi
        /\ \A d \in {"heldForLender", "borrowerProceeds"} : Lane(W, d).amount > 0 => Lane(W, d).asset = Principal
    BY <1>7 DEF LaneAsset, Lanes
  <2> QED BY <1>0, <1>1, <1>3, <1>5, <2>1 DEF Kept
<1> QED BY <1>2, <1>3, <1>4, <1>5, <1>8 DEF Fit, LanesBut

-----------------------------------------------------------------------------
(* Where everything stands: what the lender's vault, the borrower's vault  *)
(* and the Diamond hold of the principal and of the collateral, what is    *)
(* under the lien, and what is reserved in each lane.                      *)
Amt(a, p, c) == IF a = Principal THEN p ELSE IF a = Collateral THEN c ELSE 0

Stand(V, lp, lc, bp, bc, dp, dc, k, rl, rh, rb) ==
    /\ Fit(V)
    /\ \A a \in Assets : /\ Held(V, Lender, a) = Amt(a, lp, lc) /\ Held(V, Borrower, a) = Amt(a, bp, bc)
                         /\ Held(V, Diamond, a) = Amt(a, dp, dc)
    /\ LienAmount(V) = k /\ Lane(V, "lenderProceeds").amount = rl
    /\ Lane(V, "heldForLender").amount = rh /\ Lane(V, "borrowerProceeds").amount = rb

LEMMA StandTypes ==
    ASSUME NEW V, NEW lp, NEW lc, NEW bp, NEW bc, NEW dp, NEW dc, NEW k, NEW rl, NEW rh, NEW rb,
           Stand(V, lp, lc, bp, bc, dp, dc, k, rl, rh, rb)
    PROVE  {lp, lc, bp, bc, dp, dc} \subseteq Int /\ {k, rl, rh, rb} \subseteq Nat
<1>1. Fit(V)
  BY DEF Stand
<1>2. /\ \A p \in Holders, a \in Assets : Held(V, p, a) \in Int
      /\ LienAmount(V) \in Nat /\ \A e \in Lanes : Lane(V, e).amount \in Nat
  BY <1>1, FitTypes
<1>3. /\ Held(V, Lender, Principal) = lp /\ Held(V, Lender, Collateral) = lc
      /\ Held(V, Borrower, Principal) = bp /\ Held(V, Borrower, Collateral) = bc
      /\ Held(V, Diamond, Principal) = dp /\ Held(V, Diamond, Collateral) = dc
  BY Cast DEF Stand, Amt
<1>4. {lp, lc, bp, bc, dp, dc} \subseteq Int
  BY <1>2, <1>3, Cast DEF Holders
<1>5. {k, rl, rh, rb} \subseteq Nat
  BY <1>2 DEF Stand, Lanes
<1> QED BY <1>4, <1>5

LEMMA PullStand ==
    ASSUME NEW V, NEW lp, NEW lc, NEW bp, NEW bc, NEW dp, NEW dc, NEW k, NEW rl, NEW rh, NEW rb,
           Stand(V, lp, lc, bp, bc, dp, dc, k, rl, rh, rb),
           NEW x \in Int, NEW y \in Int
    PROVE  Stand(PullToDiamond(V, Collateral, x, y), lp, lc, bp, bc - x, dp, dc + y, k, rl, rh, rb)
<1> DEFINE W == PullToDiamond(V, Collateral, x, y)
<1>1. Fit(V) /\ {lp, lc, bp, bc, dp, dc} \subseteq Int
  <2>1. Fit(V)
    BY DEF Stand
  <2> QED BY <2>1, StandTypes
<1>2. Fit(W) /\ SameBooks(V, W) /\ Moves(V, W, Borrower, Collateral, -x, Diamond, Collateral, y)
  BY <1>1, Cast, PullStep
<1> HIDE DEF W
<1>3. ASSUME NEW c \in Assets
      PROVE  /\ Held(W, Lender, c) = Amt(c, lp, lc) /\ Held(W, Borrower, c) = Amt(c, bp, bc - x)
             /\ Held(W, Diamond, c) = Amt(c, dp, dc + y)
  <2>1. \A r \in Holders : Held(W, r, c) = Held(V, r, c) + Part(r, c, Borrower, Collateral, -x) + Part(r, c, Diamond, Collateral, y)
    BY <1>2 DEF Moves
  <2>2. /\ Held(V, Lender, c) = Amt(c, lp, lc) /\ Held(V, Borrower, c) = Amt(c, bp, bc)
        /\ Held(V, Diamond, c) = Amt(c, dp, dc)
    BY DEF Stand
  <2> QED BY <1>1, <2>1, <2>2, Cast DEF Part, Amt, Holders
<1> QED BY <1>2, <1>3 DEF SameBooks, SameLanes, Lanes, Stand, W

LEMMA LockLenderStand ==
    ASSUME NEW V, NEW lp, NEW lc, NEW bp, NEW bc, NEW dp, NEW dc, NEW k, NEW rl, NEW rh, NEW rb,
           Stand(V, lp, lc, bp, bc, dp, dc, k, rl, rh, rb),
           NEW x \in Int, NEW y \in Int
    PROVE  Stand(DepositLocked(V, Lender, Principal, x, y), lp + y, lc, bp, bc, dp - x, dc, k, rl, rh, rb)
<1> DEFINE W == DepositLocked(V, Lender, Principal, x, y)
<1>1. Fit(V) /\ {lp, lc, bp, bc, dp, dc} \subseteq Int
  <2>1. Fit(V)
    BY DEF Stand
  <2> QED BY <2>1, StandTypes
<1>2. Fit(W) /\ SameBooks(V, W) /\ Moves(V, W, Diamond, Principal, -x, Lender, Principal, y)
  BY <1>1, Cast, DepositLockedStep
<1> HIDE DEF W
<1>3. ASSUME NEW c \in Assets
      PROVE  /\ Held(W, Lender, c) = Amt(c, lp + y, lc) /\ Held(W, Borrower, c) = Amt(c, bp, bc)
             /\ Held(W, Diamond, c) = Amt(c, dp - x, dc)
  <2>1. \A r \in Holders : Held(W, r, c) = Held(V, r, c) + Part(r, c, Diamond, Principal, -x) + Part(r, c, Lender, Principal, y)
    BY <1>2 DEF Moves
  <2>2. /\ Held(V, Lender, c) = Amt(c, lp, lc) /\ Held(V, Borrower, c) = Amt(c, bp, bc)
        /\ Held(V, Diamond, c) = Amt(c, dp, dc)
    BY DEF Stand
  <2> QED BY <1>1, <2>1, <2>2, Cast DEF Part, Amt, Holders
<1> QED BY <1>2, <1>3 DEF SameBooks, SameLanes, Lanes, Stand, W

LEMMA LockBorrowerStand ==
    ASSUME NEW V, NEW lp, NEW lc, NEW bp, NEW bc, NEW dp, NEW dc, NEW k, NEW rl, NEW rh, NEW rb,
           Stand(V, lp, lc, bp, bc, dp, dc, k, rl, rh, rb),
           NEW x \in Int, NEW y \in Int
    PROVE  Stand(DepositLocked(V, Borrower, Principal, x, y), lp, lc, bp + y, bc, dp - x, dc, k, rl, rh, rb)
<1> DEFINE W == DepositLocked(V, Borrower, Principal, x, y)
<1>1. Fit(V) /\ {lp, lc, bp, bc, dp, dc} \subseteq Int
  <2>1. Fit(V)
    BY DEF Stand
  <2> QED BY <2>1, StandTypes
<1>2. Fit(W) /\ SameBooks(V, W) /\ Moves(V, W, Diamond, Principal, -x, Borrower, Principal, y)
  BY <1>1, Cast, DepositLockedStep
<1> HIDE DEF W
<1>3. ASSUME NEW c \in Assets
      PROVE  /\ Held(W, Lender, c) = Amt(c, lp, lc) /\ Held(W, Borrower, c) = Amt(c, bp + y, bc)
             /\ Held(W, Diamond, c) = Amt(c, dp - x, dc)
  <2>1. \A r \in Holders : Held(W, r, c) = Held(V, r, c) + Part(r, c, Diamond, Principal, -x) + Part(r, c, Borrower, Principal, y)
    BY <1>2 DEF Moves
  <2>2. /\ Held(V, Lender, c) = Amt(c, lp, lc) /\ Held(V, Borrower, c) = Amt(c, bp, bc)
        /\ Held(V, Diamond, c) = Amt(c, dp, dc)
    BY DEF Stand
  <2> QED BY <1>1, <2>1, <2>2, Cast DEF Part, Amt, Holders
<1> QED BY <1>2, <1>3 DEF SameBooks, SameLanes, Lanes, Stand, W

LEMMA LockCollateralStand ==
    ASSUME NEW V, NEW lp, NEW lc, NEW bp, NEW bc, NEW dp, NEW dc, NEW k, NEW rl, NEW rh, NEW rb,
           Stand(V, lp, lc, bp, bc, dp, dc, k, rl, rh, rb),
           NEW x \in Int, NEW y \in Int
    PROVE  Stand(DepositLocked(V, Borrower, Collateral, x, y), lp, lc, bp, bc + y, dp, dc - x, k, rl, rh, rb)
<1> DEFINE W == DepositLocked(V, Borrower, Collateral, x, y)
<1>1. Fit(V) /\ {lp, lc, bp, bc, dp, dc} \subseteq Int
  <2>1. Fit(V)
    BY DEF Stand
  <2> QED BY <2>1, StandTypes
<1>2. Fit(W) /\ SameBooks(V, W) /\ Moves(V, W, Diamond, Collateral, -x, Borrower, Collateral, y)
  BY <1>1, Cast, DepositLockedStep
<1> HIDE DEF W
<1>3. ASSUME NEW c \in Assets
      PROVE  /\ Held(W, Lender, c) = Amt(c, lp, lc) /\ Held(W, Borrower, c) = Amt(c, bp, bc + y)
             /\ Held(W, Diamond, c) = Amt(c, dp, dc - x)
  <2>1. \A r \in Holders : Held(W, r, c) = Held(V, r, c) + Part(r, c, Diamond, Collateral, -x) + Part(r, c, Borrower, Collateral, y)
    BY <1>2 DEF Moves
  <2>2. /\ Held(V, Lender, c) = Amt(c, lp, lc) /\ Held(V, Borrower, c) = Amt(c, bp, bc)
        /\ Held(V, Diamond, c) = Amt(c, dp, dc)
    BY DEF Stand
  <2> QED BY <1>1, <2>1, <2>2, Cast DEF Part, Amt, Holders
<1> QED BY <1>2, <1>3 DEF SameBooks, SameLanes, Lanes, Stand, W

LEMMA FromVaultLenderStand ==
    ASSUME NEW V, NEW lp, NEW lc, NEW bp, NEW bc, NEW dp, NEW dc, NEW k, NEW rl, NEW rh, NEW rb,
           Stand(V, lp, lc, bp, bc, dp, dc, k, rl, rh, rb),
           NEW x \in Int, NEW y \in Int
    PROVE  Stand(DepositFromVault(V, Lender, Collateral, x, y), lp, lc + y, bp, bc - x, dp, dc, k, rl, rh, rb)
<1> DEFINE W == DepositFromVault(V, Lender, Collateral, x, y)
<1>1. Fit(V) /\ {lp, lc, bp, bc, dp, dc} \subseteq Int
  <2>1. Fit(V)
    BY DEF Stand
  <2> QED BY <2>1, StandTypes
<1>2. Fit(W) /\ SameBooks(V, W) /\ Moves(V, W, Borrower, Collateral, -x, Lender, Collateral, y)
  BY <1>1, Cast, DepositFromVaultStep
<1> HIDE DEF W
<1>3. ASSUME NEW c \in Assets
      PROVE  /\ Held(W, Lender, c) = Amt(c, lp, lc + y) /\ Held(W, Borrower, c) = Amt(c, bp, bc - x)
             /\ Held(W, Diamond, c) = Amt(c, dp, dc)
  <2>1. \A r \in Holders : Held(W, r, c) = Held(V, r, c) + Part(r, c, Borrower, Collateral, -x) + Part(r, c, Lender, Collateral, y)
    BY <1>2 DEF Moves
  <2>2. /\ Held(V, Lender, c) = Amt(c, lp, lc) /\ Held(V, Borrower, c) = Amt(c, bp, bc)
        /\ Held(V, Diamond, c) = Amt(c, dp, dc)
    BY DEF Stand
  <2> QED BY <1>1, <2>1, <2>2, Cast DEF Part, Amt, Holders
<1> QED BY <1>2, <1>3 DEF SameBooks, SameLanes, Lanes, Stand, W

LEMMA FromVaultOutsideStand ==
    ASSUME NEW V, NEW lp, NEW lc, NEW bp, NEW bc, NEW dp, NEW dc, NEW k, NEW rl, NEW rh, NEW rb,
           Stand(V, lp, lc, bp, bc, dp, dc, k, rl, rh, rb),
           NEW x \in Int, NEW y \in Int
    PROVE  Stand(DepositFromVault(V, Outside, Collateral, x, y), lp, lc, bp, bc - x, dp, dc, k, rl, rh, rb)
<1> DEFINE W == DepositFromVault(V, Outside, Collateral, x, y)
<1>1. Fit(V) /\ {lp, lc, bp, bc, dp, dc} \subseteq Int
  <2>1. Fit(V)
    BY DEF Stand
  <2> QED BY <2>1, StandTypes
<1>2. Fit(W) /\ SameBooks(V, W) /\ Moves(V, W, Borrower, Collateral, -x, Outside, Collateral, y)
  BY <1>1, Cast, DepositFromVaultStep
<1> HIDE DEF W
<1>3. ASSUME NEW c \in Assets
      PROVE  /\ Held(W, Lender, c) = Amt(c, lp, lc) /\ Held(W, Borrower, c) = Amt(c, bp, bc - x)
             /\ Held(W, Diamond, c) = Amt(c, dp, dc)
  <2>1. \A r \in Holders : Held(W, r, c) = Held(V, r, c) + Part(r, c, Borrower, Collateral, -x) + Part(r, c, Outside, Collateral, y)
    BY <1>2 DEF Moves
  <2>2. /\ Held(V, Lender, c) = Amt(c, lp, lc) /\ Held(V, Borrower, c) = Amt(c, bp, bc)
        /\ Held(V, Diamond, c) = Amt(c, dp, dc)
    BY DEF Stand
  <2> QED BY <1>1, <2>1, <2>2, Cast DEF Part, Amt, Holders
<1> QED BY <1>2, <1>3 DEF SameBooks, SameLanes, Lanes, Stand, W

LEMMA SwapStand ==
    ASSUME NEW V, NEW lp, NEW lc, NEW bp, NEW bc, NEW dp, NEW dc, NEW k, NEW rl, NEW rh, NEW rb,
           Stand(V, lp, lc, bp, bc, dp, dc, k, rl, rh, rb),
           NEW x \in Int, NEW y \in Int
    PROVE  Stand(Swapped(V, x, y), lp, lc, bp, bc, dp + y, dc - x, k, rl, rh, rb)
<1> DEFINE W == Swapped(V, x, y)
<1>1. Fit(V) /\ {lp, lc, bp, bc, dp, dc} \subseteq Int
  <2>1. Fit(V)
    BY DEF Stand
  <2> QED BY <2>1, StandTypes
<1>2. Fit(W) /\ SameBooks(V, W) /\ Moves(V, W, Diamond, Collateral, -x, Diamond, Principal, y)
  BY <1>1, Cast, SwappedStep
<1> HIDE DEF W
<1>3. ASSUME NEW c \in Assets
      PROVE  /\ Held(W, Lender, c) = Amt(c, lp, lc) /\ Held(W, Borrower, c) = Amt(c, bp, bc)
             /\ Held(W, Diamond, c) = Amt(c, dp + y, dc - x)
  <2>1. \A r \in Holders : Held(W, r, c) = Held(V, r, c) + Part(r, c, Diamond, Collateral, -x) + Part(r, c, Diamond, Principal, y)
    BY <1>2 DEF Moves
  <2>2. /\ Held(V, Lender, c) = Amt(c, lp, lc) /\ Held(V, Borrower, c) = Amt(c, bp, bc)
        /\ Held(V, Diamond, c) = Amt(c, dp, dc)
    BY DEF Stand
  <2> QED BY <1>1, <2>1, <2>2, Cast DEF Part, Amt, Holders
<1> QED BY <1>2, <1>3 DEF SameBooks, SameLanes, Lanes, Stand, W

LEMMA TransferStand ==
    ASSUME NEW V, NEW lp, NEW lc, NEW bp, NEW bc, NEW dp, NEW dc, NEW k, NEW rl, NEW rh, NEW rb,
           Stand(V, lp, lc, bp, bc, dp, dc, k, rl, rh, rb),
           NEW x \in Int
    PROVE  Stand(Transfer(V, Diamond, Outside, Principal, x), lp, lc, bp, bc, dp - x, dc, k, rl, rh, rb)
<1> DEFINE W == Transfer(V, Diamond, Outside, Principal, x)
<1>1. Fit(V) /\ {lp, lc, bp, bc, dp, dc} \subseteq Int
  <2>1. Fit(V)
    BY DEF Stand
  <2> QED BY <2>1, StandTypes
<1>2. Fit(W) /\ SameBooks(V, W) /\ Moves(V, W, Diamond, Principal, -x, Outside, Principal, x)
  BY <1>1, Cast, TransferStep
<1> HIDE DEF W
<1>3. ASSUME NEW c \in Assets
      PROVE  /\ Held(W, Lender, c) = Amt(c, lp, lc) /\ Held(W, Borrower, c) = Amt(c, bp, bc)
             /\ Held(W, Diamond, c) = Amt(c, dp - x, dc)
  <2>1. \A r \in Holders : Held(W, r, c) = Held(V, r, c) + Part(r, c, Diamond, Principal, -x) + Part(r, c, Outside, Principal, x)
    BY <1>2 DEF Moves
  <2>2. /\ Held(V, Lender, c) = Amt(c, lp, lc) /\ Held(V, Borrower, c) = Amt(c, bp, bc)
        /\ Held(V, Diamond, c) = Amt(c, dp, dc)
    BY DEF Stand
  <2> QED BY <1>1, <2>1, <2>2, Cast DEF Part, Amt, Holders
<1> QED BY <1>2, <1>3 DEF SameBooks, SameLanes, Lanes, Stand, W

LEMMA DepositLenderStand ==
    ASSUME NEW V, NEW lp, NEW lc, NEW bp, NEW bc, NEW dp, NEW dc, NEW k, NEW rl, NEW rh, NEW rb,
           Stand(V, lp, lc, bp, bc, dp, dc, k, rl, rh, rb),
           NEW x \in Int
    PROVE  Stand(VaultDepositERC20From(V, Outside, Lender, Principal, x), lp + x, lc, bp, bc, dp, dc, k, rl, rh, rb)
<1> DEFINE W == VaultDepositERC20From(V, Outside, Lender, Principal, x)
<1>1. Fit(V) /\ {lp, lc, bp, bc, dp, dc} \subseteq Int
  <2>1. Fit(V)
    BY DEF Stand
  <2> QED BY <2>1, StandTypes
<1>2. Fit(W) /\ SameBooks(V, W) /\ Moves(V, W, Outside, Principal, -x, Lender, Principal, x)
  BY <1>1, Cast, DepositStep
<1> HIDE DEF W
<1>3. ASSUME NEW c \in Assets
      PROVE  /\ Held(W, Lender, c) = Amt(c, lp + x, lc) /\ Held(W, Borrower, c) = Amt(c, bp, bc)
             /\ Held(W, Diamond, c) = Amt(c, dp, dc)
  <2>1. \A r \in Holders : Held(W, r, c) = Held(V, r, c) + Part(r, c, Outside, Principal, -x) + Part(r, c, Lender, Principal, x)
    BY <1>2 DEF Moves
  <2>2. /\ Held(V, Lender, c) = Amt(c, lp, lc) /\ Held(V, Borrower, c) = Amt(c, bp, bc)
        /\ Held(V, Diamond, c) = Amt(c, dp, dc)
    BY DEF Stand
  <2> QED BY <1>1, <2>1, <2>2, Cast DEF Part, Amt, Holders
<1> QED BY <1>2, <1>3 DEF SameBooks, SameLanes, Lanes, Stand, W

LEMMA DepositBorrowerStand ==
    ASSUME NEW V, NEW lp, NEW lc, NEW bp, NEW bc, NEW dp, NEW dc, NEW k, NEW rl, NEW rh, NEW rb,
           Stand(V, lp, lc, bp, bc, dp, dc, k, rl, rh, rb),
           NEW x \in Int
    PROVE  Stand(VaultDepositERC20From(V, Outside, Borrower, Collateral, x), lp, lc, bp, bc + x, dp, dc, k, rl, rh, rb)
<1> DEFINE W == VaultDepositERC20From(V, Outside, Borrower, Collateral, x)
<1>1. Fit(V) /\ {lp, lc, bp, bc, dp, dc} \subseteq Int
  <2>1. Fit(V)
    BY DEF Stand
  <2> QED BY <2>1, StandTypes
<1>2. Fit(W) /\ SameBooks(V, W) /\ Moves(V, W, Outside, Collateral, -x, Borrower, Collateral, x)
  BY <1>1, Cast, DepositStep
<1> HIDE DEF W
<1>3. ASSUME NEW c \in Assets
      PROVE  /\ Held(W, Lender, c) = Amt(c, lp, lc) /\ Held(W, Borrower, c) = Amt(c, bp, bc + x)
             /\ Held(W, Diamond, c) = Amt(c, dp, dc)
  <2>1. \A r \in Holders : Held(W, r, c) = Held(V, r, c) + Part(r, c, Outside, Collateral, -x) + Part(r, c, Borrower, Collateral, x)
    BY <1>2 DEF Moves
  <2>2. /\ Held(V, Lender, c) = Amt(c, lp, lc) /\ Held(V, Borrower, c) = Amt(c, bp, bc)
        /\ Held(V, Diamond, c) = Amt(c, dp, dc)
    BY DEF Stand
  <2> QED BY <1>1, <2>1, <2>2, Cast DEF Part, Amt, Holders
<1> QED BY <1>2, <1>3 DEF SameBooks, SameLanes, Lanes, Stand, W

LEMMA WithdrawLenderPrincipalStand ==
    ASSUME NEW V, NEW lp, NEW lc, NEW bp, NEW bc, NEW dp, NEW dc, NEW k, NEW rl, NEW rh, NEW rb,
           Stand(V, lp, lc, bp, bc, dp, dc, k, rl, rh, rb),
           NEW x \in Int
    PROVE  Stand(VaultWithdrawERC20(V, Lender, Principal, Outside, x), lp - x, lc, bp, bc, dp, dc, k, rl, rh, rb)
<1> DEFINE W == VaultWithdrawERC20(V, Lender, Principal, Outside, x)
<1>1. Fit(V) /\ {lp, lc, bp, bc, dp, dc} \subseteq Int
  <2>1. Fit(V)
    BY DEF Stand
  <2> QED BY <2>1, StandTypes
<1>2. Fit(W) /\ SameBooks(V, W) /\ Moves(V, W, Lender, Principal, -x, Outside, Principal, x)
  BY <1>1, Cast, WithdrawStep
<1> HIDE DEF W
<1>3. ASSUME NEW c \in Assets
      PROVE  /\ Held(W, Lender, c) = Amt(c, lp - x, lc) /\ Held(W, Borrower, c) = Amt(c, bp, bc)
             /\ Held(W, Diamond, c) = Amt(c, dp, dc)
  <2>1. \A r \in Holders : Held(W, r, c) = Held(V, r, c) + Part(r, c, Lender, Principal, -x) + Part(r, c, Outside, Principal, x)
    BY <1>2 DEF Moves
  <2>2. /\ Held(V, Lender, c) = Amt(c, lp, lc) /\ Held(V, Borrower, c) = Amt(c, bp, bc)
        /\ Held(V, Diamond, c) = Amt(c, dp, dc)
    BY DEF Stand
  <2> QED BY <1>1, <2>1, <2>2, Cast DEF Part, Amt, Holders
<1> QED BY <1>2, <1>3 DEF SameBooks, SameLanes, Lanes, Stand, W

LEMMA WithdrawLenderCollateralStand ==
    ASSUME NEW V, NEW lp, NEW lc, NEW bp, NEW bc, NEW dp, NEW dc, NEW k, NEW rl, NEW rh, NEW rb,
           Stand(V, lp, lc, bp, bc, dp, dc, k, rl, rh, rb),
           NEW x \in Int
    PROVE  Stand(VaultWithdrawERC20(V, Lender, Collateral, Outside, x), lp, lc - x, bp, bc, dp, dc, k, rl, rh, rb)
<1> DEFINE W == VaultWithdrawERC20(V, Lender, Collateral, Outside, x)
<1>1. Fit(V) /\ {lp, lc, bp, bc, dp, dc} \subseteq Int
  <2>1. Fit(V)
    BY DEF Stand
  <2> QED BY <2>1, StandTypes
<1>2. Fit(W) /\ SameBooks(V, W) /\ Moves(V, W, Lender, Collateral, -x, Outside, Collateral, x)
  BY <1>1, Cast, WithdrawStep
<1> HIDE DEF W
<1>3. ASSUME NEW c \in Assets
      PROVE  /\ Held(W, Lender, c) = Amt(c, lp, lc - x) /\ Held(W, Borrower, c) = Amt(c, bp, bc)
             /\ Held(W, Diamond, c) = Amt(c, dp, dc)
  <2>1. \A r \in Holders : Held(W, r, c) = Held(V, r, c) + Part(r, c, Lender, Collateral, -x) + Part(r, c, Outside, Collateral, x)
    BY <1>2 DEF Moves
  <2>2. /\ Held(V, Lender, c) = Amt(c, lp, lc) /\ Held(V, Borrower, c) = Amt(c, bp, bc)
        /\ Held(V, Diamond, c) = Amt(c, dp, dc)
    BY DEF Stand
  <2> QED BY <1>1, <2>1, <2>2, Cast DEF Part, Amt, Holders
<1> QED BY <1>2, <1>3 DEF SameBooks, SameLanes, Lanes, Stand, W

LEMMA WithdrawBorrowerPrincipalStand ==
    ASSUME NEW V, NEW lp, NEW lc, NEW bp, NEW bc, NEW dp, NEW dc, NEW k, NEW rl, NEW rh, NEW rb,
           Stand(V, lp, lc, bp, bc, dp, dc, k, rl, rh, rb),
           NEW x \in Int
    PROVE  Stand(VaultWithdrawERC20(V, Borrower, Principal, Outside, x), lp, lc, bp - x, bc, dp, dc, k, rl, rh, rb)
<1> DEFINE W == VaultWithdrawERC20(V, Borrower, Principal, Outside, x)
<1>1. Fit(V) /\ {lp, lc, bp, bc, dp, dc} \subseteq Int
  <2>1. Fit(V)
    BY DEF Stand
  <2> QED BY <2>1, StandTypes
<1>2. Fit(W) /\ SameBooks(V, W) /\ Moves(V, W, Borrower, Principal, -x, Outside, Principal, x)
  BY <1>1, Cast, WithdrawStep
<1> HIDE DEF W
<1>3. ASSUME NEW c \in Assets
      PROVE  /\ Held(W, Lender, c) = Amt(c, lp, lc) /\ Held(W, Borrower, c) = Amt(c, bp - x, bc)
             /\ Held(W, Diamond, c) = Amt(c, dp, dc)
  <2>1. \A r \in Holders : Held(W, r, c) = Held(V, r, c) + Part(r, c, Borrower, Principal, -x) + Part(r, c, Outside, Principal, x)
    BY <1>2 DEF Moves
  <2>2. /\ Held(V, Lender, c) = Amt(c, lp, lc) /\ Held(V, Borrower, c) = Amt(c, bp, bc)
        /\ Held(V, Diamond, c) = Amt(c, dp, dc)
    BY DEF Stand
  <2> QED BY <1>1, <2>1, <2>2, Cast DEF Part, Amt, Holders
<1> QED BY <1>2, <1>3 DEF SameBooks, SameLanes, Lanes, Stand, W

LEMMA WithdrawBorrowerCollateralStand ==
    ASSUME NEW V, NEW lp, NEW lc, NEW bp, NEW bc, NEW dp, NEW dc, NEW k, NEW rl, NEW rh, NEW rb,
           Stand(V, lp, lc, bp, bc, dp, dc, k, rl, rh, rb),
           NEW x \in Int
    PROVE  Stand(VaultWithdrawERC20(V, Borrower, Collateral, Outside, x), lp, lc, bp, bc - x, dp, dc, k, rl, rh, rb)
<1> DEFINE W == VaultWithdrawERC20(V, Borrower, Collateral, Outside, x)
<1>1. Fit(V) /\ {lp, lc, bp, bc, dp, dc} \subseteq Int
  <2>1. Fit(V)
    BY DEF Stand
  <2> QED BY <2>1, StandTypes
<1>2. Fit(W) /\ SameBooks(V, W) /\ Moves(V, W, Borrower, Collateral, -x, Outside, Collateral, x)
  BY <1>1, Cast, WithdrawStep
<1> HIDE DEF W
<1>3. ASSUME NEW c \in Assets
      PROVE  /\ Held(W, Lender, c) = Amt(c, lp, lc) /\ Held(W, Borrower, c) = Amt(c, bp, bc - x)
             /\ Held(W, Diamond, c) = Amt(c, dp, dc)
  <2>1. \A r \in Holders : Held(W, r, c) = Held(V, r, c) + Part(r, c, Borrower, Collateral, -x) + Part(r, c, Outside, Collateral, x)
    BY <1>2 DEF Moves
  <2>2. /\ Held(V, Lender, c) = Amt(c, lp, lc) /\ Held(V, Borrower, c) = Amt(c, bp, bc)
        /\ Held(V, Diamond, c) = Amt(c, dp, dc)
    BY DEF Stand
  <2> QED BY <1>1, <2>1, <2>2, Cast DEF Part, Amt, Holders
<1> QED BY <1>2, <1>3 DEF SameBooks, SameLanes, Lanes, Stand, W

LEMMA GuardStand ==
    ASSUME NEW V, NEW lp, NEW lc, NEW bp, NEW bc, NEW dp, NEW dc, NEW k, NEW rl, NEW rh, NEW rb,
           Stand(V, lp, lc, bp, bc, dp, dc, k, rl, rh, rb),
           NEW p \in BOOLEAN
    PROVE  Stand(Guarded(V, p), lp, lc, bp, bc, dp, dc, k, rl, rh, rb)
<1>1. Fit(V) /\ LienAmount(V) = k
  BY DEF Stand
<1> DEFINE W == Guarded(V, p)
<1>2. Fit(W) /\ SameMoney(V, W) /\ LienAmount(W) = k /\ Lane(W, "lenderProceeds").amount = rl
      /\ Lane(W, "heldForLender").amount = rh /\ Lane(W, "borrowerProceeds").amount = rb
  BY <1>1, GuardedStep DEF Stand, SameBooks, SameLanes, LanesBut, Lanes, LaneParty, LaneAsset
<1> HIDE DEF W
<1>3. Stand(W, lp, lc, bp, bc, dp, dc, k, rl, rh, rb)
  BY <1>2 DEF Stand, SameMoney, Holders
<1> QED BY <1>3 DEF W

LEMMA ReleaseLienStand ==
    ASSUME NEW V, NEW lp, NEW lc, NEW bp, NEW bc, NEW dp, NEW dc, NEW k, NEW rl, NEW rh, NEW rb,
           Stand(V, lp, lc, bp, bc, dp, dc, k, rl, rh, rb)
    PROVE  Stand(ReleaseLien(V), lp, lc, bp, bc, dp, dc, 0, rl, rh, rb)
<1>1. Fit(V) /\ LienAmount(V) = k
  BY DEF Stand
<1> DEFINE W == ReleaseLien(V)
<1>2. Fit(W) /\ SameMoney(V, W) /\ LienAmount(W) = 0 /\ Lane(W, "lenderProceeds").amount = rl
      /\ Lane(W, "heldForLender").amount = rh /\ Lane(W, "borrowerProceeds").amount = rb
  BY <1>1, ReleaseLienStep DEF Stand, SameBooks, SameLanes, LanesBut, Lanes, LaneParty, LaneAsset
<1> HIDE DEF W
<1>3. Stand(W, lp, lc, bp, bc, dp, dc, 0, rl, rh, rb)
  BY <1>2 DEF Stand, SameMoney, Holders
<1> QED BY <1>3 DEF W

LEMMA LowerLienStand ==
    ASSUME NEW V, NEW lp, NEW lc, NEW bp, NEW bc, NEW dp, NEW dc, NEW k, NEW rl, NEW rh, NEW rb,
           Stand(V, lp, lc, bp, bc, dp, dc, k, rl, rh, rb),
           NEW x \in Nat, x <= k
    PROVE  Stand(LowerLien(V, x), lp, lc, bp, bc, dp, dc, k - x, rl, rh, rb)
<1>1. Fit(V) /\ LienAmount(V) = k
  BY DEF Stand
<1> DEFINE W == LowerLien(V, x)
<1>2. Fit(W) /\ SameMoney(V, W) /\ LienAmount(W) = k - x /\ Lane(W, "lenderProceeds").amount = rl
      /\ Lane(W, "heldForLender").amount = rh /\ Lane(W, "borrowerProceeds").amount = rb
  BY <1>1, LowerLienStep DEF Stand, SameBooks, SameLanes, LanesBut, Lanes, LaneParty, LaneAsset
<1> HIDE DEF W
<1>3. Stand(W, lp, lc, bp, bc, dp, dc, k - x, rl, rh, rb)
  BY <1>2 DEF Stand, SameMoney, Holders
<1> QED BY <1>3 DEF W

LEMMA RaiseLienStand ==
    ASSUME NEW V, NEW lp, NEW lc, NEW bp, NEW bc, NEW dp, NEW dc, NEW k, NEW rl, NEW rh, NEW rb,
           Stand(V, lp, lc, bp, bc, dp, dc, k, rl, rh, rb),
           NEW x \in Nat
    PROVE  Stand(RaiseLien(V, x), lp, lc, bp, bc, dp, dc, k + x, rl, rh, rb)
<1>1. Fit(V) /\ LienAmount(V) = k
  BY DEF Stand
<1> DEFINE W == RaiseLien(V, x)
<1>2. Fit(W) /\ SameMoney(V, W) /\ LienAmount(W) = k + x /\ Lane(W, "lenderProceeds").amount = rl
      /\ Lane(W, "heldForLender").amount = rh /\ Lane(W, "borrowerProceeds").amount = rb
  BY <1>1, RaiseLienStep DEF Stand, SameBooks, SameLanes, LanesBut, Lanes, LaneParty, LaneAsset
<1> HIDE DEF W
<1>3. Stand(W, lp, lc, bp, bc, dp, dc, k + x, rl, rh, rb)
  BY <1>2 DEF Stand, SameMoney, Holders
<1> QED BY <1>3 DEF W

LEMMA ReserveLenderStand ==
    ASSUME NEW V, NEW lp, NEW lc, NEW bp, NEW bc, NEW dp, NEW dc, NEW k, NEW rl, NEW rh, NEW rb,
           Stand(V, lp, lc, bp, bc, dp, dc, k, rl, rh, rb),
           NEW x \in Nat
    PROVE  Stand(Reserve(V, "lenderProceeds", Lender, Vpfi, x), lp, lc, bp, bc, dp, dc, k, rl + x, rh, rb)
<1>1. Fit(V) /\ LienAmount(V) = k
  BY DEF Stand
<1> DEFINE W == Reserve(V, "lenderProceeds", Lender, Vpfi, x)
<1>2. Fit(W) /\ SameMoney(V, W) /\ LienAmount(W) = k /\ Lane(W, "lenderProceeds").amount = rl + x
      /\ Lane(W, "heldForLender").amount = rh /\ Lane(W, "borrowerProceeds").amount = rb
  BY <1>1, ReserveStep DEF Stand, SameBooks, SameLanes, LanesBut, Lanes, LaneParty, LaneAsset
<1> HIDE DEF W
<1>3. Stand(W, lp, lc, bp, bc, dp, dc, k, rl + x, rh, rb)
  BY <1>2 DEF Stand, SameMoney, Holders
<1> QED BY <1>3 DEF W

LEMMA ReleaseLenderStand ==
    ASSUME NEW V, NEW lp, NEW lc, NEW bp, NEW bc, NEW dp, NEW dc, NEW k, NEW rl, NEW rh, NEW rb,
           Stand(V, lp, lc, bp, bc, dp, dc, k, rl, rh, rb)
    PROVE  Stand(Release(V, "lenderProceeds", Lender), lp, lc, bp, bc, dp, dc, k, 0, rh, rb)
<1>1. Fit(V) /\ LienAmount(V) = k
  BY DEF Stand
<1> DEFINE W == Release(V, "lenderProceeds", Lender)
<1>2. Fit(W) /\ SameMoney(V, W) /\ LienAmount(W) = k /\ Lane(W, "lenderProceeds").amount = 0
      /\ Lane(W, "heldForLender").amount = rh /\ Lane(W, "borrowerProceeds").amount = rb
  BY <1>1, ReleaseStep DEF Stand, SameBooks, SameLanes, LanesBut, Lanes, LaneParty, LaneAsset
<1> HIDE DEF W
<1>3. Stand(W, lp, lc, bp, bc, dp, dc, k, 0, rh, rb)
  BY <1>2 DEF Stand, SameMoney, Holders
<1> QED BY <1>3 DEF W

LEMMA ReserveHeldStand ==
    ASSUME NEW V, NEW lp, NEW lc, NEW bp, NEW bc, NEW dp, NEW dc, NEW k, NEW rl, NEW rh, NEW rb,
           Stand(V, lp, lc, bp, bc, dp, dc, k, rl, rh, rb),
           NEW x \in Nat
    PROVE  Stand(Reserve(V, "heldForLender", Lender, Principal, x), lp, lc, bp, bc, dp, dc, k, rl, rh + x, rb)
<1>1. Fit(V) /\ LienAmount(V) = k
  BY DEF Stand
<1> DEFINE W == Reserve(V, "heldForLender", Lender, Principal, x)
<1>2. Fit(W) /\ SameMoney(V, W) /\ LienAmount(W) = k /\ Lane(W, "lenderProceeds").amount = rl
      /\ Lane(W, "heldForLender").amount = rh + x /\ Lane(W, "borrowerProceeds").amount = rb
  BY <1>1, ReserveStep DEF Stand, SameBooks, SameLanes, LanesBut, Lanes, LaneParty, LaneAsset
<1> HIDE DEF W
<1>3. Stand(W, lp, lc, bp, bc, dp, dc, k, rl, rh + x, rb)
  BY <1>2 DEF Stand, SameMoney, Holders
<1> QED BY <1>3 DEF W

LEMMA ReleaseHeldStand ==
    ASSUME NEW V, NEW lp, NEW lc, NEW bp, NEW bc, NEW dp, NEW dc, NEW k, NEW rl, NEW rh, NEW rb,
           Stand(V, lp, lc, bp, bc, dp, dc, k, rl, rh, rb)
    PROVE  Stand(Release(V, "heldForLender", Lender), lp, lc, bp, bc, dp, dc, k, rl, 0, rb)
<1>1. Fit(V) /\ LienAmount(V) = k
  BY DEF Stand
<1> DEFINE W == Release(V, "heldForLender", Lender)
<1>2. Fit(W) /\ SameMoney(V, W) /\ LienAmount(W) = k /\ Lane(W, "lenderProceeds").amount = rl
      /\ Lane(W, "heldForLender").amount = 0 /\ Lane(W, "borrowerProceeds").amount = rb
  BY <1>1, ReleaseStep DEF Stand, SameBooks, SameLanes, LanesBut, Lanes, LaneParty, LaneAsset
<1> HIDE DEF W
<1>3. Stand(W, lp, lc, bp, bc, dp, dc, k, rl, 0, rb)
  BY <1>2 DEF Stand, SameMoney, Holders
<1> QED BY <1>3 DEF W

LEMMA ReserveBorrowerStand ==
    ASSUME NEW V, NEW lp, NEW lc, NEW bp, NEW bc, NEW dp, NEW dc, NEW k, NEW rl, NEW rh, NEW rb,
           Stand(V, lp, lc, bp, bc, dp, dc, k, rl, rh, rb),
           NEW x \in Nat
    PROVE  Stand(Reserve(V, "borrowerProceeds", Borrower, Principal, x), lp, lc, bp, bc, dp, dc, k, rl, rh, rb + x)
<1>1. Fit(V) /\ LienAmount(V) = k
  BY DEF Stand
<1> DEFINE W == Reserve(V, "borrowerProceeds", Borrower, Principal, x)
<1>2. Fit(W) /\ SameMoney(V, W) /\ LienAmount(W) = k /\ Lane(W, "lenderProceeds").amount = rl
      /\ Lane(W, "heldForLender").amount = rh /\ Lane(W, "borrowerProceeds").amount = rb + x
  BY <1>1, ReserveStep DEF Stand, SameBooks, SameLanes, LanesBut, Lanes, LaneParty, LaneAsset
<1> HIDE DEF W
<1>3. Stand(W, lp, lc, bp, bc, dp, dc, k, rl, rh, rb + x)
  BY <1>2 DEF Stand, SameMoney, Holders
<1> QED BY <1>3 DEF W

LEMMA ReleaseBorrowerStand ==
    ASSUME NEW V, NEW lp, NEW lc, NEW bp, NEW bc, NEW dp, NEW dc, NEW k, NEW rl, NEW rh, NEW rb,
           Stand(V, lp, lc, bp, bc, dp, dc, k, rl, rh, rb)
    PROVE  Stand(Release(V, "borrowerProceeds", Borrower), lp, lc, bp, bc, dp, dc, k, rl, rh, 0)
<1>1. Fit(V) /\ LienAmount(V) = k
  BY DEF Stand
<1> DEFINE W == Release(V, "borrowerProceeds", Borrower)
<1>2. Fit(W) /\ SameMoney(V, W) /\ LienAmount(W) = k /\ Lane(W, "lenderProceeds").amount = rl
      /\ Lane(W, "heldForLender").amount = rh /\ Lane(W, "borrowerProceeds").amount = 0
  BY <1>1, ReleaseStep DEF Stand, SameBooks, SameLanes, LanesBut, Lanes, LaneParty, LaneAsset
<1> HIDE DEF W
<1>3. Stand(W, lp, lc, bp, bc, dp, dc, k, rl, rh, 0)
  BY <1>2 DEF Stand, SameMoney, Holders
<1> QED BY <1>3 DEF W

-----------------------------------------------------------------------------
(* The loan.                                                               *)

State == [v : Vaults, n : Loan]

Open == {"Active", "FallbackPending"}

(* What holds of the loan's own fields: the slices of a pending fallback   *)
(* are its custody, an open loan has been claimed by nobody, a claim is in *)
(* one of the two assets.                                                  *)
Coherent(n) ==
    /\ n \in Loan
    /\ IF n.status = "FallbackPending"
       THEN n.snap.active /\ SnapshotTotal(n) = n.custody /\ n.custody <= n.collateral
       ELSE ~ n.snap.active /\ n.custody = 0
    /\ n.status \in Open => ~ n.lenderClaim.claimed /\ ~ n.surplus.claimed
    /\ n.status = "Active" => n.borrowerClaim = NoClaim
    /\ n.status = "FallbackPending" => /\ n.borrowerClaim.asset = Collateral
                                       /\ n.borrowerClaim.amount = n.snap.borrower
                                       /\ n.lenderClaim.asset = Collateral
    /\ n.surplus.amount > 0 => n.surplus.asset = Principal
    /\ n.lenderClaim.amount > 0 => n.lenderClaim.asset \in {Principal, Collateral}
    /\ n.borrowerClaim.amount > 0 => n.borrowerClaim.asset \in {Principal, Collateral}

(* What a party is owed in VPFI is reserved, to the unit: a withdrawal of  *)
(* free VPFI cannot touch it.                                              *)
Reserves(lp, lc, bp, rl, rh, rb) ==
    /\ Principal = Vpfi => rl + rh = lp /\ rb = bp
    /\ Collateral = Vpfi => rl = lc
    /\ Vpfi \notin {Principal, Collateral} => rl = 0

(* The vaults hold this much, the Diamond nothing, and what the borrower's *)
(* holds of the collateral is under the lien.                              *)
Settles(V, lp, lc, bp, bc) ==
    \E rl, rh, rb : /\ Stand(V, lp, lc, bp, bc, 0, 0, bc, rl, rh, rb)
                    /\ Reserves(lp, lc, bp, rl, rh, rb)

Valid(S) ==
    /\ S \in State
    /\ Coherent(S.n)
    /\ Settles(S.v, OwedToLender(S.n, Principal), OwedToLender(S.n, Collateral),
               OwedToBorrower(S, Principal), OwedToBorrower(S, Collateral))

(* A state and where it stands.                                            *)
StandsAt(S, lp, lc, bp, bc, dp, dc, k, rl, rh, rb) ==
    S \in State /\ Stand(S.v, lp, lc, bp, bc, dp, dc, k, rl, rh, rb)

(* The loan is the same; it has a claim of the lender on y; z more is held *)
(* for the borrower.                                                       *)
SameLoan(S, T) == T.n = S.n

Booked(S, T, y) == T.n = [S.n EXCEPT !.lenderClaim = Pays(Principal, y)]

SurplusOpen(S) == ~ S.n.surplus.claimed /\ (S.n.surplus.amount > 0 => S.n.surplus.asset = Principal)

ExtraHeld(S, T, z) ==
    \E c \in Claim : /\ T.n = [S.n EXCEPT !.surplus = c] /\ c.amount = S.n.surplus.amount + z
                     /\ ~ c.claimed /\ (c.amount > 0 => c.asset = Principal)

(* y is a part of x.                                                       *)
Within(y, x) == y \in 0..x

(* Part of x when a is VPFI.                                               *)
IfVpfi(a, x) == IF a = Vpfi THEN x ELSE 0

LEMMA ClaimTypes ==
    ASSUME NEW a \in Assets, NEW x \in Nat
    PROVE  /\ Pays(a, x) \in Claim /\ Pays(a, x).asset = a /\ Pays(a, x).amount = x /\ ~ Pays(a, x).claimed
           /\ PaysIfAny(a, x) \in Claim /\ PaysIfAny(a, x).asset = a /\ PaysIfAny(a, x).amount = x
           /\ (LaneOpen(Pays(a, x)) <=> x > 0) /\ (LaneOpen(PaysIfAny(a, x)) <=> x > 0)
           /\ NoClaim \in Claim /\ NoClaim.asset = NoAsset /\ NoClaim.amount = 0 /\ ~ NoClaim.claimed
<1>1. /\ Pays(a, x) \in Claim /\ Pays(a, x).asset = a /\ Pays(a, x).amount = x /\ ~ Pays(a, x).claimed
      /\ (LaneOpen(Pays(a, x)) <=> x > 0)
  BY DEF Pays, Claim, LaneOpen
<1>2. (x = 0) \in BOOLEAN
  OBVIOUS
<1>3. /\ PaysIfAny(a, x).asset = a /\ PaysIfAny(a, x).amount = x
      /\ (PaysIfAny(a, x).claimed <=> x = 0)
  BY DEF PaysIfAny
<1>4. PaysIfAny(a, x) \in Claim
  BY <1>2 DEF PaysIfAny, Claim
<1>5. LaneOpen(PaysIfAny(a, x)) <=> x > 0
  BY <1>3 DEF LaneOpen
<1>6. NoClaim \in Claim /\ NoClaim.asset = NoAsset /\ NoClaim.amount = 0 /\ ~ NoClaim.claimed
  BY DEF NoClaim, Claim
<1> QED BY <1>1, <1>3, <1>4, <1>5, <1>6

(* What an open loan owes.                                                 *)
LEMMA OpenOwes ==
    ASSUME NEW S \in State, Coherent(S.n), S.n.status \in Open
    PROVE  /\ OwedToLender(S.n, Principal) = S.n.held /\ OwedToLender(S.n, Collateral) = 0
           /\ OwedToBorrower(S, Principal) = S.n.surplus.amount
           /\ OwedToBorrower(S, Collateral) = S.n.collateral
<1>1. /\ S.n \in Loan /\ S.n.status \notin Closed /\ S.n.status \in {"Active", "FallbackPending"}
      /\ S.n.held \in Nat /\ S.n.surplus.amount \in Nat /\ S.n.collateral \in Nat
  BY DEF State, Open, Closed, Loan, Claim
<1>2. /\ ~ S.n.lenderClaim.claimed /\ ~ S.n.surplus.claimed
      /\ S.n.surplus.amount > 0 => S.n.surplus.asset = Principal
  BY DEF Coherent
<1>3. OwedToLender(S.n, Principal) = S.n.held /\ OwedToLender(S.n, Collateral) = 0
  BY <1>1, <1>2, Cast DEF OwedToLender
<1>4. /\ (IF LaneOpen(S.n.surplus) /\ S.n.surplus.asset = Principal THEN S.n.surplus.amount ELSE 0) = S.n.surplus.amount
      /\ (IF LaneOpen(S.n.surplus) /\ S.n.surplus.asset = Collateral THEN S.n.surplus.amount ELSE 0) = 0
  BY <1>1, <1>2, Cast DEF LaneOpen
<1>5. OwedToBorrower(S, Principal) = S.n.surplus.amount
  BY <1>1, <1>4, Cast DEF OwedToBorrower
<1>6. OwedToBorrower(S, Collateral) = S.n.collateral
  BY <1>1, <1>4, Cast DEF OwedToBorrower
<1> QED BY <1>3, <1>5, <1>6

LEMMA ReserveVpfiLenderStand ==
    ASSUME NEW V, NEW lp, NEW lc, NEW bp, NEW bc, NEW dp, NEW dc, NEW k, NEW rl, NEW rh, NEW rb,
           Stand(V, lp, lc, bp, bc, dp, dc, k, rl, rh, rb), NEW a \in Assets, NEW x \in Nat
    PROVE  Stand(ReserveVpfi(V, "lenderProceeds", Lender, a, x), lp, lc, bp, bc, dp, dc, k,
                 rl + IfVpfi(a, x), rh, rb)
<1>1. CASE a = Vpfi
  <2>1. Stand(Reserve(V, "lenderProceeds", Lender, Vpfi, x), lp, lc, bp, bc, dp, dc, k, rl + x, rh, rb)
    BY ReserveLenderStand
  <2> QED BY <1>1, <2>1 DEF ReserveVpfi, IfVpfi
<1>2. CASE a # Vpfi
  <2>1. rl + 0 = rl
    BY StandTypes
  <2> QED BY <1>2, <2>1 DEF ReserveVpfi, IfVpfi
<1> QED BY <1>1, <1>2

LEMMA ReserveVpfiBorrowerStand ==
    ASSUME NEW V, NEW lp, NEW lc, NEW bp, NEW bc, NEW dp, NEW dc, NEW k, NEW rl, NEW rh, NEW rb,
           Stand(V, lp, lc, bp, bc, dp, dc, k, rl, rh, rb), NEW x \in Nat
    PROVE  Stand(ReserveVpfi(V, "borrowerProceeds", Borrower, Principal, x), lp, lc, bp, bc, dp, dc, k,
                 rl, rh, rb + IfVpfi(Principal, x))
<1>1. CASE Principal = Vpfi
  <2>1. Stand(Reserve(V, "borrowerProceeds", Borrower, Principal, x), lp, lc, bp, bc, dp, dc, k, rl, rh, rb + x)
    BY ReserveBorrowerStand
  <2> QED BY <1>1, <2>1 DEF ReserveVpfi, IfVpfi
<1>2. CASE Principal # Vpfi
  <2>1. rb + 0 = rb
    BY StandTypes
  <2> QED BY <1>2, <2>1 DEF ReserveVpfi, IfVpfi
<1> QED BY <1>1, <1>2

(* What is delivered of x is between 0 and x.                              *)
LEMMA DeliveredTypes ==
    ASSUME NEW a \in Assets, NEW x \in Nat
    PROVE  \A y \in Delivered(a, x) : y \in Nat /\ y <= x
<1>1. Withheld[a] \in Nat
  BY FallbackLoanAssumption
<1> QED BY <1>1 DEF Delivered, Excess

LEMMA LenderBookedStand ==
    ASSUME NEW S, NEW lp, NEW lc, NEW bp, NEW bc, NEW dp, NEW dc, NEW k, NEW rl, NEW rh, NEW rb,
           StandsAt(S, lp, lc, bp, bc, dp, dc, k, rl, rh, rb),
           NEW x \in Nat, NEW T \in LenderBooked(S, x)
    PROVE  \E y : /\ Within(y, x) /\ Booked(S, T, y)
                  /\ StandsAt(T, lp + y, lc, bp, bc, dp - x, dc, k, rl + IfVpfi(Principal, y), rh, rb)
<1>0. S \in State /\ Stand(S.v, lp, lc, bp, bc, dp, dc, k, rl, rh, rb)
  BY DEF StandsAt
<1>1. PICK y \in Delivered(Principal, x) :
         T = [S EXCEPT !.v = ReserveVpfi(DepositLocked(@, Lender, Principal, x, y),
                                         "lenderProceeds", Lender, Principal, y),
                       !.n.lenderClaim = Pays(Principal, y)]
  BY DEF LenderBooked
<1> DEFINE V == DepositLocked(S.v, Lender, Principal, x, y)
           W == ReserveVpfi(V, "lenderProceeds", Lender, Principal, y)
<1>2. y \in Nat /\ y <= x
  BY DeliveredTypes, Cast
<1>3. Stand(V, lp + y, lc, bp, bc, dp - x, dc, k, rl, rh, rb)
  BY <1>0, <1>2, LockLenderStand
<1>4. T.v = W /\ T.n = [S.n EXCEPT !.lenderClaim = Pays(Principal, y)] /\ T = [v |-> T.v, n |-> T.n]
  BY <1>0, <1>1 DEF State
<1> HIDE DEF V
<1>5. Stand(W, lp + y, lc, bp, bc, dp - x, dc, k, rl + IfVpfi(Principal, y), rh, rb)
  BY <1>2, <1>3, Cast, ReserveVpfiLenderStand
<1>6. W \in Vaults
  BY <1>5, FitTypes DEF Stand
<1>7. T \in State
  <2>1. Pays(Principal, y) \in Claim
    BY <1>2, Cast, ClaimTypes
  <2>2. T.n \in Loan
    BY <1>0, <1>4, <2>1 DEF State, Loan
  <2> QED BY <1>4, <1>6, <2>2 DEF State
<1>8. Within(y, x) /\ Booked(S, T, y)
  BY <1>2, <1>4 DEF Within, Booked
<1>9. StandsAt(T, lp + y, lc, bp, bc, dp - x, dc, k, rl + IfVpfi(Principal, y), rh, rb)
  BY <1>4, <1>5, <1>7 DEF StandsAt
<1> QED BY <1>8, <1>9

LEMMA HeldExtraStand ==
    ASSUME NEW S, NEW lp, NEW lc, NEW bp, NEW bc, NEW dp, NEW dc, NEW k, NEW rl, NEW rh, NEW rb,
           StandsAt(S, lp, lc, bp, bc, dp, dc, k, rl, rh, rb), SurplusOpen(S),
           NEW x \in Nat, NEW T \in HeldExtra(S, x)
    PROVE  \E y : /\ Within(y, x) /\ ExtraHeld(S, T, y)
                  /\ StandsAt(T, lp, lc, bp + y, bc, dp - x, dc, k, rl, rh, rb + y)
<1>0. /\ S \in State /\ Stand(S.v, lp, lc, bp, bc, dp, dc, k, rl, rh, rb)
      /\ ~ S.n.surplus.claimed /\ (S.n.surplus.amount > 0 => S.n.surplus.asset = Principal)
  BY DEF StandsAt, SurplusOpen
<1>1. PICK y \in Delivered(Principal, x) : T = HoldBorrowerExtra(S, x, y)
  BY DEF HeldExtra
<1> DEFINE V == DepositLocked(S.v, Borrower, Principal, x, y)
           G == Guarded(V, ~ S.n.surplus.claimed)
           W == Reserve(G, "borrowerProceeds", Borrower, Principal, y)
           s == [asset |-> Principal, amount |-> S.n.surplus.amount + y, claimed |-> FALSE]
<1>2. y \in Nat /\ y <= x
  BY DeliveredTypes, Cast
<1>3. Stand(V, lp, lc, bp + y, bc, dp - x, dc, k, rl, rh, rb)
  BY <1>0, <1>2, LockBorrowerStand
<1>4. /\ S = [v |-> S.v, n |-> S.n] /\ S.n \in Loan /\ S.n.surplus \in Claim /\ S.n.surplus.amount \in Nat
      /\ [S.n EXCEPT !.surplus = S.n.surplus] = S.n /\ rb \in Nat
  BY <1>0, StandTypes DEF State, Loan, Claim
<1>5. CASE y = 0
  <2>1. T = [S EXCEPT !.v = V]
    BY <1>1, <1>5 DEF HoldBorrowerExtra
  <2>2. T.v = V /\ T.n = S.n /\ T = [v |-> T.v, n |-> T.n]
    BY <1>4, <2>1
  <2>3. V \in Vaults
    BY <1>3, FitTypes DEF Stand
  <2> HIDE DEF V
  <2>4. T \in State
    BY <1>4, <2>2, <2>3 DEF State
  <2>5. /\ T.n = [S.n EXCEPT !.surplus = S.n.surplus] /\ rb + y = rb
        /\ S.n.surplus.amount = S.n.surplus.amount + y
    BY <1>4, <1>5, <2>2
  <2>6. Within(y, x) /\ ExtraHeld(S, T, y)
    BY <1>0, <1>2, <1>4, <2>5 DEF Within, ExtraHeld
  <2>7. StandsAt(T, lp, lc, bp + y, bc, dp - x, dc, k, rl, rh, rb + y)
    BY <1>3, <2>2, <2>4, <2>5 DEF V, StandsAt
  <2> QED BY <2>6, <2>7
<1>6. CASE y # 0
  <2>1. T = [S EXCEPT !.v = W, !.n.surplus = s]
    BY <1>1, <1>4, <1>6 DEF HoldBorrowerExtra
  <2>2. T.v = W /\ T.n = [S.n EXCEPT !.surplus = s] /\ T = [v |-> T.v, n |-> T.n]
    BY <1>4, <2>1
  <2>3. s \in Claim /\ s.amount = S.n.surplus.amount + y /\ ~ s.claimed /\ s.asset = Principal
    BY <1>2, <1>4, Cast DEF Claim
  <2> HIDE DEF V, s
  <2>4. Stand(G, lp, lc, bp + y, bc, dp - x, dc, k, rl, rh, rb)
    <3>1. (~ S.n.surplus.claimed) \in BOOLEAN
      OBVIOUS
    <3> QED BY <1>3, <3>1, GuardStand
  <2> HIDE DEF G
  <2>5. Stand(W, lp, lc, bp + y, bc, dp - x, dc, k, rl, rh, rb + y)
    BY <1>2, <2>4, ReserveBorrowerStand
  <2> HIDE DEF W
  <2>6. W \in Vaults
    BY <2>5, FitTypes DEF Stand
  <2>7. T \in State
    BY <1>4, <2>2, <2>3, <2>6 DEF State, Loan
  <2>8. Within(y, x) /\ ExtraHeld(S, T, y)
    BY <1>2, <2>2, <2>3 DEF Within, ExtraHeld
  <2>9. StandsAt(T, lp, lc, bp + y, bc, dp - x, dc, k, rl, rh, rb + y)
    BY <2>2, <2>5, <2>7 DEF StandsAt
  <2> QED BY <2>8, <2>9
<1> QED BY <1>5, <1>6

-----------------------------------------------------------------------------
(* The forced sale.                                                        *)

LEMMA OpenSaleStand ==
    ASSUME NEW S \in State, NEW lp, NEW lc, NEW bp, NEW bc, NEW dp, NEW dc, NEW k, NEW rl, NEW rh, NEW rb,
           Stand(S.v, lp, lc, bp, bc, dp, dc, k, rl, rh, rb),
           NEW q \in Nat, NEW r \in Nat, q <= k
    PROVE  /\ OpenSale(S, q, r) \in State /\ OpenSale(S, q, r).n = S.n
           /\ Stand(OpenSale(S, q, r).v, lp, lc, bp, bc - q, dp, dc + r, k - q, rl, rh, rb)
<1> DEFINE V == LowerLien(S.v, q)
           W == PullToDiamond(V, Collateral, q, r)
           T == OpenSale(S, q, r)
<1>1. Stand(V, lp, lc, bp, bc, dp, dc, k - q, rl, rh, rb)
  BY LowerLienStand
<1>2. T.v = W /\ T.n = S.n /\ T = [v |-> T.v, n |-> T.n]
  BY DEF OpenSale, State
<1> HIDE DEF V, T
<1>3. Stand(W, lp, lc, bp, bc - q, dp, dc + r, k - q, rl, rh, rb)
  BY <1>1, PullStand
<1>4. W \in Vaults
  BY <1>3, FitTypes DEF Stand
<1>5. T \in State
  BY <1>2, <1>4 DEF State
<1> QED BY <1>2, <1>3, <1>5 DEF T

(* A split gives away no more than the sale yields.                        *)
LEMMA SplitTypes ==
    ASSUME NEW d \in Nat, NEW got \in Nat, NEW p \in Splits(d, got)
    PROVE  p.lender \in Nat /\ p.extra \in Nat /\ p.lender + p.extra <= got
<1>1. PICK b \in 0..AtMost(MaxFee, AtMost(got, d)), f \in 0..MaxFee :
         p = [lender |-> AtMost(got - b, d), extra |-> Excess(Excess(got - b, d), f)]
  BY DEF Splits
<1>2. MaxFee \in Nat
  BY FallbackLoanAssumption
<1>3. b \in Nat /\ b <= got /\ f \in Nat
  BY <1>2 DEF AtMost
<1>4. p.lender = AtMost(got - b, d) /\ p.extra = Excess(Excess(got - b, d), f)
  BY <1>1
<1> QED BY <1>3, <1>4 DEF AtMost, Excess

LEMMA BookTerminalStand ==
    ASSUME NEW S, NEW lp, NEW lc, NEW bp, NEW bc, NEW got \in Nat, NEW dc, NEW k, NEW rl, NEW rh, NEW rb,
           StandsAt(S, lp, lc, bp, bc, got, dc, k, rl, rh, rb), SurplusOpen(S),
           NEW d \in Nat, NEW p \in Splits(d, got), NEW T \in BookTerminal(S, got, p)
    PROVE  \E y, z, R :
              /\ Within(y, got) /\ Within(z, got) /\ Booked(S, R, y) /\ ExtraHeld(R, T, z) /\ R \in State
              /\ StandsAt(T, lp + y, lc, bp + z, bc, 0, dc, k, rl + IfVpfi(Principal, y), rh, rb + z)
<1>i. S \in State /\ Stand(S.v, lp, lc, bp, bc, got, dc, k, rl, rh, rb)
  BY DEF StandsAt
<1> DEFINE Taxed(t) == [S EXCEPT !.v = Transfer(@, Diamond, Outside, Principal,
                                                got - p.lender - p.extra + t)]
<1>1. \E t \in 0..AtMost(MaxFee, Excess(p.lender, S.n.principal)) :
        \E R \in LenderBooked(Taxed(t), p.lender - t) : T \in HeldExtra(R, p.extra)
  BY DEF BookTerminal
<1>0. PICK t \in 0..AtMost(MaxFee, Excess(p.lender, S.n.principal)) :
        \E R \in LenderBooked(Taxed(t), p.lender - t) : T \in HeldExtra(R, p.extra)
  BY <1>1
<1>e. p.lender \in Nat /\ p.extra \in Nat /\ p.lender + p.extra <= got
  BY SplitTypes
<1>2. t \in Nat /\ t <= p.lender /\ p.lender - t \in Nat
  <2>1. S.n.principal \in Nat /\ MaxFee \in Nat
    BY <1>i, FallbackLoanAssumption DEF State, Loan
  <2> QED BY <1>e, <2>1 DEF AtMost, Excess
<1> DEFINE Q == Taxed(t)
           V == Transfer(S.v, Diamond, Outside, Principal, got - p.lender - p.extra + t)
<1>3. Q.v = V /\ Q.n = S.n /\ Q = [v |-> Q.v, n |-> Q.n]
  BY <1>i DEF State
<1>4. got - p.lender - p.extra + t \in Int /\ got - (got - p.lender - p.extra + t) = p.lender + p.extra - t
  BY <1>e, <1>2
<1>5. Stand(V, lp, lc, bp, bc, p.lender + p.extra - t, dc, k, rl, rh, rb)
  BY <1>e, <1>i, <1>4, TransferStand
<1>6. V \in Vaults
  BY <1>5, FitTypes DEF Stand
<1> HIDE DEF V
<1>7. Q \in State
  BY <1>i, <1>3, <1>6 DEF State
<1>8. PICK R \in LenderBooked(Q, p.lender - t) : T \in HeldExtra(R, p.extra)
  BY <1>0
<1> HIDE DEF Q, Taxed
<1> DEFINE x == p.lender - t
           e == p.extra
           o == p.lender + p.extra - t
           u == o - x
<1>9. x \in Nat
  BY <1>2
<1>b. StandsAt(Q, lp, lc, bp, bc, o, dc, k, rl, rh, rb) /\ R \in LenderBooked(Q, x)
  BY <1>3, <1>5, <1>7, <1>8 DEF StandsAt
<1>a. e \in Nat /\ T \in HeldExtra(R, e)
  BY <1>e, <1>8
<1>d. u - e = 0
  BY <1>e, <1>2
<1> HIDE DEF x, e, o, u
<1>10. PICK y : /\ Within(y, x) /\ Booked(Q, R, y)
                /\ StandsAt(R, lp + y, lc, bp, bc, o - x, dc, k, rl + IfVpfi(Principal, y), rh, rb)
  BY <1>9, <1>b, LenderBookedStand
<1> DEFINE mp == lp + y
           ml == rl + IfVpfi(Principal, y)
<1>12. StandsAt(R, mp, lc, bp, bc, u, dc, k, ml, rh, rb)
  BY <1>10 DEF u
<1>13. R \in State /\ Booked(S, R, y) /\ SurplusOpen(R)
  <2>1. R \in State
    BY <1>10 DEF StandsAt
  <2>2. R.n = [S.n EXCEPT !.lenderClaim = Pays(Principal, y)]
    BY <1>3, <1>10 DEF Booked
  <2>3. R.n.surplus = S.n.surplus
    BY <1>i, <2>2 DEF State, Loan
  <2>4. Booked(S, R, y)
    BY <2>2 DEF Booked
  <2>5. SurplusOpen(R)
    BY <2>3 DEF SurplusOpen
  <2> QED BY <2>1, <2>4, <2>5
<1> HIDE DEF mp, ml
<1>14. PICK z : /\ Within(z, e) /\ ExtraHeld(R, T, z)
                /\ StandsAt(T, mp, lc, bp + z, bc, u - e, dc, k, ml, rh, rb + z)
  BY <1>a, <1>12, <1>13, HeldExtraStand
<1>16. Within(y, got) /\ Within(z, got)
  BY <1>e, <1>2, <1>10, <1>14 DEF Within, x, e
<1>17. StandsAt(T, lp + y, lc, bp + z, bc, 0, dc, k, rl + IfVpfi(Principal, y), rh, rb + z)
  BY <1>d, <1>14 DEF mp, ml
<1> QED BY <1>10, <1>13, <1>14, <1>16, <1>17

-----------------------------------------------------------------------------
(* Where the books stand of a loan that is open, and of one that has just  *)
(* been closed.                                                            *)

LEMMA OpenValid ==
    ASSUME NEW S \in State, Coherent(S.n), S.n.status \in Open, NEW rl, NEW rh, NEW rb,
           Stand(S.v, S.n.held, 0, S.n.surplus.amount, S.n.collateral, 0, 0, S.n.collateral, rl, rh, rb),
           Reserves(S.n.held, 0, S.n.surplus.amount, rl, rh, rb)
    PROVE  Valid(S)
<1>1. Settles(S.v, S.n.held, 0, S.n.surplus.amount, S.n.collateral)
  BY DEF Settles
<1> QED BY <1>1, OpenOwes DEF Valid

LEMMA OpenStand ==
    ASSUME NEW S, Valid(S), S.n.status \in Open
    PROVE  \E rl, rh, rb :
              /\ Stand(S.v, S.n.held, 0, S.n.surplus.amount, S.n.collateral, 0, 0, S.n.collateral, rl, rh, rb)
              /\ Reserves(S.n.held, 0, S.n.surplus.amount, rl, rh, rb)
<1>1. S \in State /\ Coherent(S.n)
  BY DEF Valid
<1>2. Settles(S.v, S.n.held, 0, S.n.surplus.amount, S.n.collateral)
  BY <1>1, OpenOwes DEF Valid
<1> QED BY <1>2 DEF Settles

(* Of a loan nobody has claimed from.                                      *)
LEMMA ClosedOwes ==
    ASSUME NEW S \in State, Coherent(S.n), S.n.status \in Closed,
           ~ S.n.lenderClaim.claimed, ~ S.n.surplus.claimed,
           S.n.borrowerClaim.asset = Collateral \/ S.n.borrowerClaim.amount = 0 \/ LienAmount(S.v) = 0
    PROVE  /\ OwedToLender(S.n, Principal) =
                 (IF S.n.lenderClaim.asset = Principal THEN S.n.lenderClaim.amount ELSE 0) + S.n.held
           /\ OwedToLender(S.n, Collateral) =
                 (IF S.n.lenderClaim.asset = Collateral THEN S.n.lenderClaim.amount ELSE 0)
           /\ OwedToBorrower(S, Principal) =
                 (IF LaneOpen(S.n.borrowerClaim) /\ S.n.borrowerClaim.asset = Principal
                  THEN S.n.borrowerClaim.amount ELSE 0) + S.n.surplus.amount
           /\ S.n.borrowerClaim.asset = Collateral \/ LienAmount(S.v) = 0 =>
                 OwedToBorrower(S, Collateral) =
                    (IF LaneOpen(S.n.borrowerClaim) /\ S.n.borrowerClaim.asset = Collateral
                     THEN S.n.borrowerClaim.amount ELSE 0)
<1>1. /\ S.n \in Loan /\ S.n.status \notin {"Active", "FallbackPending"}
      /\ S.n.held \in Nat /\ S.n.surplus.amount \in Nat /\ S.n.collateral \in Nat
      /\ S.n.lenderClaim.amount \in Nat /\ S.n.borrowerClaim.amount \in Nat
  BY DEF State, Closed, Loan, Claim
<1>2. S.n.surplus.amount > 0 => S.n.surplus.asset = Principal
  BY DEF Coherent
<1>3. /\ OwedToLender(S.n, Principal) =
                 (IF S.n.lenderClaim.asset = Principal THEN S.n.lenderClaim.amount ELSE 0) + S.n.held
      /\ OwedToLender(S.n, Collateral) =
                 (IF S.n.lenderClaim.asset = Collateral THEN S.n.lenderClaim.amount ELSE 0)
  BY <1>1, Cast DEF OwedToLender
<1>4. /\ (IF LaneOpen(S.n.surplus) /\ S.n.surplus.asset = Principal THEN S.n.surplus.amount ELSE 0) = S.n.surplus.amount
      /\ (IF LaneOpen(S.n.surplus) /\ S.n.surplus.asset = Collateral THEN S.n.surplus.amount ELSE 0) = 0
  BY <1>1, <1>2, Cast DEF LaneOpen
<1>5. OwedToBorrower(S, Principal) =
                 (IF LaneOpen(S.n.borrowerClaim) /\ S.n.borrowerClaim.asset = Principal
                  THEN S.n.borrowerClaim.amount ELSE 0) + S.n.surplus.amount
  BY <1>1, <1>4, Cast DEF OwedToBorrower
<1>6. ASSUME S.n.borrowerClaim.asset = Collateral \/ LienAmount(S.v) = 0
      PROVE  OwedToBorrower(S, Collateral) =
                    (IF LaneOpen(S.n.borrowerClaim) /\ S.n.borrowerClaim.asset = Collateral
                     THEN S.n.borrowerClaim.amount ELSE 0)
  BY <1>1, <1>4, <1>6, Cast DEF OwedToBorrower
<1> QED BY <1>3, <1>5, <1>6

(* A closed loan whose borrower is owed what is under the lien.            *)
LEMMA ClosedValid ==
    ASSUME NEW S \in State, Coherent(S.n), S.n.status \in Closed,
           ~ S.n.lenderClaim.claimed, ~ S.n.surplus.claimed,
           NEW x \in Nat, S.n.lenderClaim.amount = x,
           NEW c \in Nat, LaneOpen(S.n.borrowerClaim) <=> c > 0, S.n.borrowerClaim.amount = c,
           c > 0 => S.n.borrowerClaim.asset = Collateral,
           NEW rl, NEW rh, NEW rb,
           \/ /\ S.n.lenderClaim.asset = Principal
              /\ Stand(S.v, S.n.held + x, 0, S.n.surplus.amount, c, 0, 0, c, rl, rh, rb)
              /\ Reserves(S.n.held + x, 0, S.n.surplus.amount, rl, rh, rb)
           \/ /\ S.n.lenderClaim.asset = Collateral
              /\ Stand(S.v, S.n.held, x, S.n.surplus.amount, c, 0, 0, c, rl, rh, rb)
              /\ Reserves(S.n.held, x, S.n.surplus.amount, rl, rh, rb)
    PROVE  Valid(S)
<1>1. S.n.held \in Nat /\ S.n.surplus.amount \in Nat
  BY DEF State, Loan, Claim
<1>2. LienAmount(S.v) = c
  BY DEF Stand
<1>3. /\ OwedToLender(S.n, Principal) =
                 (IF S.n.lenderClaim.asset = Principal THEN S.n.lenderClaim.amount ELSE 0) + S.n.held
      /\ OwedToLender(S.n, Collateral) =
                 (IF S.n.lenderClaim.asset = Collateral THEN S.n.lenderClaim.amount ELSE 0)
      /\ OwedToBorrower(S, Principal) =
                 (IF LaneOpen(S.n.borrowerClaim) /\ S.n.borrowerClaim.asset = Principal
                  THEN S.n.borrowerClaim.amount ELSE 0) + S.n.surplus.amount
      /\ OwedToBorrower(S, Collateral) =
                    (IF LaneOpen(S.n.borrowerClaim) /\ S.n.borrowerClaim.asset = Collateral
                     THEN S.n.borrowerClaim.amount ELSE 0)
  BY <1>2, ClosedOwes
<1>4. OwedToBorrower(S, Principal) = S.n.surplus.amount /\ OwedToBorrower(S, Collateral) = c
  BY <1>1, <1>3, Cast
<1>5. CASE /\ S.n.lenderClaim.asset = Principal
           /\ Stand(S.v, S.n.held + x, 0, S.n.surplus.amount, c, 0, 0, c, rl, rh, rb)
           /\ Reserves(S.n.held + x, 0, S.n.surplus.amount, rl, rh, rb)
  <2>1. OwedToLender(S.n, Principal) = S.n.held + x /\ OwedToLender(S.n, Collateral) = 0
    BY <1>1, <1>3, <1>5, Cast
  <2>2. Settles(S.v, S.n.held + x, 0, S.n.surplus.amount, c)
    BY <1>5 DEF Settles
  <2> QED BY <1>4, <2>1, <2>2 DEF Valid
<1>6. CASE /\ S.n.lenderClaim.asset = Collateral
           /\ Stand(S.v, S.n.held, x, S.n.surplus.amount, c, 0, 0, c, rl, rh, rb)
           /\ Reserves(S.n.held, x, S.n.surplus.amount, rl, rh, rb)
  <2>1. OwedToLender(S.n, Principal) = S.n.held /\ OwedToLender(S.n, Collateral) = x
    BY <1>1, <1>3, <1>6, Cast
  <2>2. Settles(S.v, S.n.held, x, S.n.surplus.amount, c)
    BY <1>6 DEF Settles
  <2> QED BY <1>4, <2>1, <2>2 DEF Valid
<1> QED BY <1>5, <1>6

(* A loan that is open holds h for the lender, s for the borrower, and is  *)
(* over the collateral c.                                                  *)
OpenOver(S, h, s, c) ==
    /\ Coherent(S.n) /\ S.n.status \in Open
    /\ S.n.held = h /\ S.n.surplus.amount = s /\ S.n.collateral = c

LEMMA OpenOverTypes ==
    ASSUME NEW S \in State, NEW h, NEW s, NEW c, OpenOver(S, h, s, c)
    PROVE  /\ h \in Nat /\ s \in Nat /\ c \in Nat /\ SurplusOpen(S)
           /\ S.n.principal \in Nat /\ S.n \in Loan
<1>1. S.n \in Loan
  BY DEF State
<1>2. h \in Nat /\ s \in Nat /\ c \in Nat /\ S.n.principal \in Nat
  BY <1>1 DEF OpenOver, Loan, Claim
<1>3. SurplusOpen(S)
  BY <1>1 DEF OpenOver, Coherent, SurplusOpen
<1> QED BY <1>1, <1>2, <1>3

(* A sale that is done closes the loan.                                    *)
LEMMA SaleSettledValid ==
    ASSUME NEW S, NEW h, NEW s, NEW c, OpenOver(S, h, s, c), S.n.status = "Active",
           NEW q \in Nat, NEW r \in Nat, q <= c, NEW rl, NEW rh, NEW rb,
           NEW rest, rest = c - q, StandsAt(S, h, 0, s, rest, 0, r, rest, rl, rh, rb),
           Reserves(h, 0, s, rl, rh, rb),
           NEW T \in SaleSettled(S, q, r)
    PROVE  Valid(T) /\ T.n.status = "Defaulted"
<1> DEFINE Yielded(got) == [S EXCEPT !.v = Swapped(@, r, got)]
<1>1. PICK d \in Debts(S.n), got \in 0..MaxProceeds :
         \E p \in Splits(d, got) : \E R \in BookTerminal(Yielded(got), got, p) : T = RecordUnsold(R, q, r)
  BY DEF SaleSettled
<1>2. PICK p \in Splits(d, got) :
         \E R \in BookTerminal(Yielded(got), got, p) : T = RecordUnsold(R, q, r)
  BY <1>1
<1>3. S \in State /\ Stand(S.v, h, 0, s, rest, 0, r, rest, rl, rh, rb)
  BY DEF StandsAt
<1>4. h \in Nat /\ s \in Nat /\ c \in Nat /\ S.n.principal \in Nat /\ S.n \in Loan /\ SurplusOpen(S)
  BY <1>3, OpenOverTypes
<1>5. d \in Nat /\ got \in Nat
  <2>1. MaxProceeds \in Nat /\ MaxInterest \in Nat
    BY FallbackLoanAssumption
  <2> QED BY <1>4, <2>1 DEF Debts
<1> DEFINE Q == Yielded(got)
           V == Swapped(S.v, r, got)
<1>6. Q.v = V /\ Q.n = S.n /\ Q = [v |-> Q.v, n |-> Q.n]
  BY <1>3 DEF State
<1>7. PICK R \in BookTerminal(Q, got, p) : T = RecordUnsold(R, q, r)
  BY <1>2
<1>8. 0 + got = got /\ r - r = 0
  BY <1>5
<1> HIDE DEF Yielded, Q
<1>9. Stand(V, h, 0, s, rest, 0 + got, r - r, rest, rl, rh, rb)
  BY <1>3, <1>5, SwapStand
<1>10. Stand(V, h, 0, s, rest, got, 0, rest, rl, rh, rb)
  BY <1>8, <1>9
<1>11. V \in Vaults
  BY <1>10, FitTypes DEF Stand
<1> HIDE DEF V
<1>12. StandsAt(Q, h, 0, s, rest, got, 0, rest, rl, rh, rb) /\ SurplusOpen(Q)
  <2>1. Q \in State
    BY <1>4, <1>6, <1>11 DEF State
  <2> QED BY <1>4, <1>6, <1>10, <2>1 DEF StandsAt, SurplusOpen
<1>13. PICK y, z, P :
              /\ Within(y, got) /\ Within(z, got) /\ Booked(Q, P, y) /\ ExtraHeld(P, R, z) /\ P \in State
              /\ StandsAt(R, h + y, 0, s + z, rest, 0, 0, rest, rl + IfVpfi(Principal, y), rh, rb + z)
  <2>1. got \in Nat /\ d \in Nat
    BY <1>5
  <2> QED BY <1>7, <1>12, <2>1, BookTerminalStand
<1>14. y \in Nat /\ z \in Nat /\ rest \in Nat
  BY <1>4, <1>13 DEF Within
<1>15. PICK u \in Claim : /\ R.n = [P.n EXCEPT !.surplus = u] /\ u.amount = P.n.surplus.amount + z
                          /\ ~ u.claimed /\ (u.amount > 0 => u.asset = Principal)
  BY <1>13 DEF ExtraHeld
<1> DEFINE b == PaysIfAny(Collateral, rest)
           l == Pays(Principal, y)
<1>16. /\ l \in Claim /\ l.asset = Principal /\ l.amount = y /\ ~ l.claimed
       /\ b \in Claim /\ b.asset = Collateral /\ b.amount = rest /\ (LaneOpen(b) <=> rest > 0)
  BY <1>14, ClaimTypes, Cast
<1> HIDE DEF b
<1>17. R \in State /\ R.n = [S.n EXCEPT !.lenderClaim = l, !.surplus = u] /\ u.amount = s + z
  <2>1. P.n = [S.n EXCEPT !.lenderClaim = l]
    BY <1>6, <1>13 DEF Booked
  <2>2. R.n = [S.n EXCEPT !.lenderClaim = l, !.surplus = u] /\ P.n.surplus = S.n.surplus
    BY <1>4, <1>15, <2>1 DEF Loan
  <2> QED BY <1>13, <1>15, <2>2 DEF StandsAt, OpenOver
<1> HIDE DEF l
<1>18. /\ T.v = R.v
       /\ T.n = [S.n EXCEPT !.lenderClaim = l, !.surplus = u, !.borrowerClaim = b,
                            !.collateral = rest + r, !.status = "Defaulted"]
       /\ T = [v |-> T.v, n |-> T.n]
  <2>1. R.n.collateral = c /\ S.n.collateral = c
    BY <1>4, <1>17 DEF OpenOver, Loan
  <2> QED BY <1>4, <1>7, <1>17, <2>1 DEF RecordUnsold, State, Loan, b
<1>19. T.n \in Loan /\ T \in State
  <2>1. rest + r \in Nat /\ "Defaulted" \in Statuses /\ l \in Claim /\ u \in Claim /\ b \in Claim
    BY <1>14, <1>15, <1>16 DEF Statuses
  <2>2. T.n \in Loan
    BY <1>4, <1>18, <2>1 DEF Loan
  <2> QED BY <1>17, <1>18, <2>2 DEF State
<1>20. /\ T.n.status = "Defaulted" /\ T.n.lenderClaim = l /\ T.n.surplus = u
       /\ T.n.borrowerClaim = b /\ T.n.held = h /\ T.n.snap = S.n.snap /\ T.n.custody = S.n.custody
  BY <1>4, <1>18 DEF Loan, OpenOver
<1>21. Coherent(T.n)
  <2>1. ~ S.n.snap.active /\ S.n.custody = 0
    BY DEF OpenOver, Coherent
  <2> QED BY <1>15, <1>16, <1>19, <1>20, <2>1 DEF Coherent, Open
<1>23. Stand(T.v, T.n.held + y, 0, T.n.surplus.amount, rest, 0, 0, rest, rl + IfVpfi(Principal, y), rh, rb + z)
  BY <1>13, <1>17, <1>18, <1>20 DEF StandsAt
<1>24. Reserves(h + y, 0, s + z, rl + IfVpfi(Principal, y), rh, rb + z)
  <2>1. {rl, rh, rb} \subseteq Nat
    BY <1>3, StandTypes
  <2> QED BY <1>4, <1>14, <2>1, Cast DEF Reserves, IfVpfi
<1>25. Reserves(T.n.held + y, 0, T.n.surplus.amount, rl + IfVpfi(Principal, y), rh, rb + z)
  BY <1>17, <1>20, <1>24
<1>26. Valid(T)
  BY <1>14, <1>15, <1>16, <1>19, <1>20, <1>21, <1>23, <1>25, ClosedValid DEF Closed
<1> QED BY <1>20, <1>26

-----------------------------------------------------------------------------
(* Entering the fallback.                                                  *)

LEMMA CustodyStand ==
    ASSUME NEW S, NEW lp, NEW lc, NEW bp, NEW bc, NEW dp, NEW dc, NEW k, NEW rl, NEW rh, NEW rb,
           StandsAt(S, lp, lc, bp, bc, dp, dc, k, rl, rh, rb), NEW x \in Nat, NEW y \in Nat
    PROVE  /\ CustodyIntoVault(S, x, y).n = [S.n EXCEPT !.custody = @ + y]
           /\ StandsAt(CustodyIntoVault(S, x, y), lp, lc, bp, bc + y, dp, dc - x, k + y, rl, rh, rb)
<1> DEFINE V == DepositLocked(S.v, Borrower, Collateral, x, y)
           W == RaiseLien(V, y)
           T == CustodyIntoVault(S, x, y)
<1>1. S \in State /\ Stand(S.v, lp, lc, bp, bc, dp, dc, k, rl, rh, rb)
  BY DEF StandsAt
<1>2. Stand(V, lp, lc, bp, bc + y, dp, dc - x, k, rl, rh, rb)
  BY <1>1, LockCollateralStand
<1>3. T.v = W /\ T.n = [S.n EXCEPT !.custody = @ + y] /\ T = [v |-> T.v, n |-> T.n]
  <2>1. T = [S EXCEPT !.v = W, !.n.custody = @ + y]
    BY DEF CustodyIntoVault
  <2> HIDE DEF W, T
  <2> QED BY <1>1, <2>1 DEF State
<1> HIDE DEF V, T
<1>4. Stand(W, lp, lc, bp, bc + y, dp, dc - x, k + y, rl, rh, rb)
  BY <1>2, RaiseLienStand
<1>5. W \in Vaults
  BY <1>4, FitTypes DEF Stand
<1>6. S.n.custody + y \in Nat
  BY <1>1 DEF State, Loan
<1>7. T \in State
  BY <1>1, <1>3, <1>5, <1>6 DEF State, Loan
<1> QED BY <1>3, <1>4, <1>7 DEF StandsAt, T

(* A state whose ledger is asked whether the slices are the custody.       *)
LEMMA RowStand ==
    ASSUME NEW S, NEW lp, NEW lc, NEW bp, NEW bc, NEW dp, NEW dc, NEW k, NEW rl, NEW rh, NEW rb,
           StandsAt(S, lp, lc, bp, bc, dp, dc, k, rl, rh, rb)
    PROVE  /\ SameLoan(S, RequireSnapshotMatchesRow(S))
           /\ StandsAt(RequireSnapshotMatchesRow(S), lp, lc, bp, bc, dp, dc, k, rl, rh, rb)
<1> DEFINE p == SnapshotTotal(S.n) = S.n.custody
           W == Guarded(S.v, p)
           T == RequireSnapshotMatchesRow(S)
<1>1. S \in State /\ Stand(S.v, lp, lc, bp, bc, dp, dc, k, rl, rh, rb) /\ p \in BOOLEAN
  BY DEF StandsAt
<1>2. T.v = W /\ T.n = S.n /\ T = [v |-> T.v, n |-> T.n]
  BY <1>1 DEF RequireSnapshotMatchesRow, State
<1> HIDE DEF p, T
<1>3. Stand(W, lp, lc, bp, bc, dp, dc, k, rl, rh, rb)
  BY <1>1, GuardStand
<1>4. W \in Vaults
  BY <1>3, FitTypes DEF Stand
<1>5. T \in State
  BY <1>1, <1>2, <1>4 DEF State
<1> QED BY <1>2, <1>3, <1>5 DEF StandsAt, SameLoan, T

LEMMA EnterFallbackValid ==
    ASSUME NEW S, NEW h, NEW s, NEW c, OpenOver(S, h, s, c), S.n.status = "Active",
           NEW rl, NEW rh, NEW rb,
           StandsAt(S, h, 0, s, 0, 0, c, 0, rl, rh, rb), Reserves(h, 0, s, rl, rh, rb),
           NEW T \in EnterFallback(S)
    PROVE  Valid(T) /\ T.n.status = "FallbackPending"
<1> DEFINE Credited(y)   == [CustodyIntoVault(S, S.n.collateral, y) EXCEPT !.n.collateral = y]
           Claims(R, e)  == [R EXCEPT !.n.snap = e,
                                      !.n.lenderClaim = Pays(Collateral, e.lender),
                                      !.n.borrowerClaim = PaysIfAny(Collateral, e.borrower),
                                      !.n.status = "FallbackPending"]
<1>0. T \in UNION {{RequireSnapshotMatchesRow(Claims(R, e)) : e \in Snapshots(R.n)} :
                     R \in {Credited(y) : y \in Delivered(Collateral, S.n.collateral)}}
  BY DEF EnterFallback
<1> HIDE DEF Claims, Credited
<1>1. PICK y \in Delivered(Collateral, S.n.collateral) :
         \E e \in Snapshots(Credited(y).n) : T = RequireSnapshotMatchesRow(Claims(Credited(y), e))
  BY <1>0
<1> USE DEF Claims, Credited
<1>2. S \in State
  BY DEF StandsAt
<1>3. h \in Nat /\ s \in Nat /\ c \in Nat /\ S.n \in Loan /\ SurplusOpen(S) /\ S.n.collateral = c
  BY <1>2, OpenOverTypes DEF OpenOver
<1>4. y \in Nat
  BY <1>1, <1>3, DeliveredTypes, Cast
<1> DEFINE C == CustodyIntoVault(S, c, y)
           R == Credited(y)
<1>5. C.n = [S.n EXCEPT !.custody = @ + y] /\ StandsAt(C, h, 0, s, 0 + y, 0, c - c, 0 + y, rl, rh, rb)
  BY <1>3, <1>4, CustodyStand
<1>6. ~ S.n.snap.active /\ S.n.custody = 0
  BY DEF OpenOver, Coherent
<1>7. C.n = [S.n EXCEPT !.custody = y] /\ StandsAt(C, h, 0, s, y, 0, 0, y, rl, rh, rb)
  <2>1. 0 + y = y /\ c - c = 0
    BY <1>3, <1>4
  <2>2. StandsAt(C, h, 0, s, y, 0, 0, y, rl, rh, rb)
    BY <1>5, <2>1
  <2>3. C.n = [S.n EXCEPT !.custody = y]
    BY <1>3, <1>5, <1>6, <2>1
  <2> QED BY <2>2, <2>3
<1> HIDE DEF C
<1>8. C \in State
  BY <1>7 DEF StandsAt
<1>9. R.v = C.v /\ R.n = [S.n EXCEPT !.custody = y, !.collateral = y] /\ R = [v |-> R.v, n |-> R.n]
  BY <1>3, <1>7, <1>8 DEF State, C
<1>10. PICK e \in Snapshots(R.n) : T = RequireSnapshotMatchesRow(Claims(R, e))
  BY <1>1
<1> HIDE DEF R, Credited
<1>11. /\ e \in Snapshot /\ e.active /\ e.lender \in Nat /\ e.treasury \in Nat /\ e.borrower \in Nat
       /\ e.lender + e.treasury + e.borrower = y
  <2>1. R.n.collateral = y /\ R.n.principal = S.n.principal
    BY <1>3, <1>9 DEF Loan
  <2>2. PICK g \in Slices(y), d \in Debts(R.n), t \in 0..MaxFee :
           e = [lender |-> g.lender, treasury |-> g.treasury, borrower |-> g.borrower,
                lenderDue |-> d, treasuryDue |-> t, active |-> TRUE, retried |-> FALSE]
    BY <2>1 DEF Snapshots
  <2>3. g.lender \in Nat /\ g.treasury \in Nat /\ g.borrower \in Nat /\ g.lender + g.treasury + g.borrower = y
    BY <1>4 DEF Slices, AtMost
  <2>4. d \in Nat /\ t \in Nat
    <3>1. MaxInterest \in Nat /\ MaxFee \in Nat /\ S.n.principal \in Nat
      BY <1>3, FallbackLoanAssumption DEF Loan
    <3> QED BY <2>1, <3>1 DEF Debts
  <2> QED BY <2>2, <2>3, <2>4 DEF Snapshot
<1> DEFINE U == Claims(R, e)
           l == Pays(Collateral, e.lender)
           b == PaysIfAny(Collateral, e.borrower)
<1>12. /\ l \in Claim /\ l.asset = Collateral /\ ~ l.claimed
       /\ b \in Claim /\ b.asset = Collateral /\ b.amount = e.borrower
  BY <1>11, ClaimTypes, Cast
<1>13. /\ U.v = C.v /\ U = [v |-> U.v, n |-> U.n]
       /\ U.n = [S.n EXCEPT !.custody = y, !.collateral = y, !.snap = e, !.lenderClaim = l,
                            !.borrowerClaim = b, !.status = "FallbackPending"]
  <2>1. R.n \in Loan
    BY <1>3, <1>4, <1>9 DEF Loan
  <2>3. U = [R EXCEPT !.n.snap = e, !.n.lenderClaim = l, !.n.borrowerClaim = b,
                      !.n.status = "FallbackPending"]
    OBVIOUS
  <2>4. R \in State
    BY <1>8, <1>9, <2>1 DEF State
  <2> HIDE DEF U, l, b
  <2>2. /\ U.v = R.v /\ U = [v |-> U.v, n |-> U.n]
        /\ U.n = [R.n EXCEPT !.snap = e, !.lenderClaim = l, !.borrowerClaim = b, !.status = "FallbackPending"]
    BY <2>3, <2>4 DEF State
  <2> QED BY <1>3, <1>9, <2>1, <2>2 DEF Loan
<1>14. T = RequireSnapshotMatchesRow(U)
  BY <1>10
<1> HIDE DEF U, l, b, Claims
<1>15. U.n \in Loan /\ U \in State
  <2>1. "FallbackPending" \in Statuses
    BY DEF Statuses
  <2>2. U.n \in Loan
    BY <1>3, <1>4, <1>11, <1>12, <1>13, <2>1, ZenonT(60) DEF Loan
  <2> QED BY <1>8, <1>13, <2>2 DEF State
<1>16. StandsAt(U, h, 0, s, y, 0, 0, y, rl, rh, rb)
  BY <1>7, <1>13, <1>15 DEF StandsAt
<1>17. SameLoan(U, T) /\ StandsAt(T, h, 0, s, y, 0, 0, y, rl, rh, rb)
  BY <1>14, <1>16, RowStand
<1>18. /\ T.n = U.n /\ T.n.status = "FallbackPending" /\ T.n.snap = e /\ T.n.custody = y /\ T.n.collateral = y
       /\ T.n.lenderClaim = l /\ T.n.borrowerClaim = b /\ T.n.surplus = S.n.surplus /\ T.n.held = h
       /\ T.n.surplus.amount = s
  BY <1>3, <1>13, <1>17 DEF SameLoan, Loan, OpenOver
<1>19. Coherent(T.n)
  <2>1. T.n \in Loan
    BY <1>15, <1>18
  <2>2. SnapshotTotal(T.n) = y
    BY <1>11, <1>18 DEF SnapshotTotal
  <2>3. ~ S.n.surplus.claimed /\ (S.n.surplus.amount > 0 => S.n.surplus.asset = Principal)
    BY <1>3 DEF SurplusOpen
  <2> QED BY <1>4, <1>11, <1>12, <1>18, <2>1, <2>2, <2>3, Cast DEF Coherent, Open
<1>20. T \in State /\ Stand(T.v, T.n.held, 0, T.n.surplus.amount, T.n.collateral, 0, 0, T.n.collateral, rl, rh, rb)
  BY <1>17, <1>18 DEF StandsAt
<1>21. Reserves(T.n.held, 0, T.n.surplus.amount, rl, rh, rb)
  BY <1>18
<1>22. Valid(T)
  BY <1>18, <1>19, <1>20, <1>21, OpenValid DEF Open
<1> QED BY <1>18, <1>22

LEMMA SaleFailedValid ==
    ASSUME NEW S, NEW h, NEW s, NEW c, OpenOver(S, h, s, c), S.n.status = "Active",
           NEW q \in Nat, NEW r \in Nat, q <= c, NEW rl, NEW rh, NEW rb,
           NEW rest, rest = c - q, StandsAt(S, h, 0, s, rest, 0, r, rest, rl, rh, rb),
           Reserves(h, 0, s, rl, rh, rb),
           NEW T \in SaleFailed(S, q, r)
    PROVE  Valid(T) /\ T.n.status = "FallbackPending"
<1>1. S \in State /\ Stand(S.v, h, 0, s, rest, 0, r, rest, rl, rh, rb)
  BY DEF StandsAt
<1>2. /\ h \in Nat /\ s \in Nat /\ c \in Nat /\ S.n \in Loan /\ SurplusOpen(S) /\ S.n.collateral = c
      /\ S.n.collateral - q = rest /\ rest \in Nat
  BY <1>1, OpenOverTypes DEF OpenOver
<1> DEFINE G(y) == [S EXCEPT !.v = PullToDiamond(ReleaseLien(@), Collateral, S.n.collateral - q, y),
                             !.n.collateral = r + y]
<1>3. T \in UNION {EnterFallback(R) : R \in {G(y) : y \in Delivered(Collateral, S.n.collateral - q)}}
  BY DEF SaleFailed, GatherForFallback
<1> HIDE DEF G
<1>4. PICK y \in Delivered(Collateral, S.n.collateral - q) : T \in EnterFallback(G(y))
  BY <1>3
<1>5. y \in Nat
  BY <1>2, DeliveredTypes, Cast
<1> DEFINE V == ReleaseLien(S.v)
           W == PullToDiamond(V, Collateral, rest, y)
           R == G(y)
           e == r + y
<1>6. R = [S EXCEPT !.v = W, !.n.collateral = e]
  BY <1>2 DEF G
<1>7. Stand(V, h, 0, s, rest, 0, r, 0, rl, rh, rb)
  BY <1>1, ReleaseLienStand
<1> HIDE DEF V, R, e
<1>8. Stand(W, h, 0, s, rest - rest, 0, r + y, 0, rl, rh, rb)
  BY <1>2, <1>5, <1>7, PullStand
<1>9. e \in Nat /\ e = r + y /\ rest - rest = 0
  BY <1>2, <1>5 DEF e
<1>10. Stand(W, h, 0, s, 0, 0, e, 0, rl, rh, rb)
  BY <1>8, <1>9
<1>11. W \in Vaults
  BY <1>10, FitTypes DEF Stand
<1> HIDE DEF W
<1>12. R.v = W /\ R.n = [S.n EXCEPT !.collateral = e] /\ R = [v |-> R.v, n |-> R.n]
  BY <1>1, <1>6 DEF State
<1>13. R.n \in Loan /\ R \in State
  <2>1. R.n \in Loan
    BY <1>2, <1>9, <1>12 DEF Loan
  <2> QED BY <1>11, <1>12, <2>1 DEF State
<1>14. StandsAt(R, h, 0, s, 0, 0, e, 0, rl, rh, rb)
  BY <1>10, <1>12, <1>13 DEF StandsAt
<1>15. OpenOver(R, h, s, e) /\ R.n.status = "Active"
  <2>1. /\ R.n.status = "Active" /\ R.n.held = h /\ R.n.surplus = S.n.surplus /\ R.n.collateral = e
        /\ R.n.snap = S.n.snap /\ R.n.custody = S.n.custody /\ R.n.lenderClaim = S.n.lenderClaim
        /\ R.n.borrowerClaim = S.n.borrowerClaim
    BY <1>2, <1>12 DEF Loan, OpenOver
  <2> QED BY <1>13, <2>1 DEF OpenOver, Coherent, Open
<1>16. T \in EnterFallback(R)
  BY <1>4 DEF R
<1> QED BY <1>14, <1>15, <1>16, EnterFallbackValid

(* What may be opened for a sale.                                          *)
LEMMA OpeningTypes ==
    ASSUME NEW n \in Loan, NEW o \in Openings(n)
    PROVE  o[1] \in Nat /\ o[2] \in Nat /\ o[1] <= n.collateral
<1>1. n.collateral \in Nat
  BY DEF Loan
<1>2. o \in (AtMost(1, n.collateral)..n.collateral) \X (0..n.collateral)
  BY DEF Openings, Deliveries
<1> QED BY <1>1, <1>2 DEF AtMost

LEMMA OpenSaleAt ==
    ASSUME NEW S, NEW h, NEW s, NEW c, OpenOver(S, h, s, c),
           NEW q \in Nat, NEW r \in Nat, q <= c, NEW rl, NEW rh, NEW rb,
           StandsAt(S, h, 0, s, c, 0, 0, c, rl, rh, rb)
    PROVE  /\ OpenOver(OpenSale(S, q, r), h, s, c) /\ OpenSale(S, q, r).n.status = S.n.status
           /\ SameLoan(S, OpenSale(S, q, r))
           /\ StandsAt(OpenSale(S, q, r), h, 0, s, c - q, 0, r, c - q, rl, rh, rb)
<1> DEFINE T == OpenSale(S, q, r)
<1>1. S \in State /\ Stand(S.v, h, 0, s, c, 0, 0, c, rl, rh, rb)
  BY DEF StandsAt
<1>2. T \in State /\ T.n = S.n /\ Stand(T.v, h, 0, s, c - q, 0, 0 + r, c - q, rl, rh, rb)
  BY <1>1, OpenSaleStand
<1>3. 0 + r = r
  OBVIOUS
<1> HIDE DEF T
<1>4. OpenOver(T, h, s, c) /\ SameLoan(S, T) /\ T.n.status = S.n.status
  BY <1>2 DEF OpenOver, SameLoan
<1>5. StandsAt(T, h, 0, s, c - q, 0, r, c - q, rl, rh, rb)
  BY <1>2, <1>3 DEF StandsAt
<1> QED BY <1>4, <1>5 DEF T

(* An open loan, as the handlers meet it.                                  *)
LEMMA Opened ==
    ASSUME NEW S, Valid(S), S.n.status \in Open
    PROVE  \E h, s, c, rl, rh, rb :
              /\ OpenOver(S, h, s, c) /\ StandsAt(S, h, 0, s, c, 0, 0, c, rl, rh, rb)
              /\ Reserves(h, 0, s, rl, rh, rb)
<1>1. PICK rl, rh, rb :
         /\ Stand(S.v, S.n.held, 0, S.n.surplus.amount, S.n.collateral, 0, 0, S.n.collateral, rl, rh, rb)
         /\ Reserves(S.n.held, 0, S.n.surplus.amount, rl, rh, rb)
  BY OpenStand
<1> DEFINE h == S.n.held
           s == S.n.surplus.amount
           c == S.n.collateral
<1>2. S \in State /\ Coherent(S.n)
  BY DEF Valid
<1>3. OpenOver(S, h, s, c)
  BY <1>2 DEF OpenOver
<1>4. StandsAt(S, h, 0, s, c, 0, 0, c, rl, rh, rb) /\ Reserves(h, 0, s, rl, rh, rb)
  BY <1>1, <1>2 DEF StandsAt
<1> HIDE DEF h, s, c
<1> QED BY <1>3, <1>4

LEMMA SaleValid ==
    ASSUME NEW S, Valid(S), S.n.status = "Active", NEW T \in Sale(S)
    PROVE  Valid(T)
<1>1. PICK h, s, c, rl, rh, rb :
              /\ OpenOver(S, h, s, c) /\ StandsAt(S, h, 0, s, c, 0, 0, c, rl, rh, rb)
              /\ Reserves(h, 0, s, rl, rh, rb)
  BY Opened DEF Open
<1>2. PICK o \in Openings(S.n) :
         \/ T \in SaleSettled(OpenSale(S, o[1], o[2]), o[1], o[2])
         \/ T \in SaleFailed(OpenSale(S, o[1], o[2]), o[1], o[2])
  BY DEF Sale
<1> DEFINE q == o[1]
           r == o[2]
           R == OpenSale(S, q, r)
           rest == c - q
<1>3. q \in Nat /\ r \in Nat /\ q <= c
  <2>1. S.n \in Loan /\ S.n.collateral = c
    BY <1>1 DEF StandsAt, State, OpenOver
  <2> QED BY <1>2, <2>1, OpeningTypes
<1> HIDE DEF q, r
<1>4. /\ OpenOver(R, h, s, c) /\ R.n.status = S.n.status
      /\ StandsAt(R, h, 0, s, c - q, 0, r, c - q, rl, rh, rb)
  BY <1>1, <1>3, OpenSaleAt
<1>5. T \in SaleSettled(R, q, r) \/ T \in SaleFailed(R, q, r)
  BY <1>2 DEF q, r
<1> HIDE DEF R
<1>6. rest = c - q /\ StandsAt(R, h, 0, s, rest, 0, r, rest, rl, rh, rb)
  BY <1>4
<1> HIDE DEF rest
<1>7. CASE T \in SaleSettled(R, q, r)
  BY <1>1, <1>3, <1>4, <1>6, <1>7, SaleSettledValid
<1>8. CASE T \in SaleFailed(R, q, r)
  BY <1>1, <1>3, <1>4, <1>6, <1>8, SaleFailedValid
<1> QED BY <1>5, <1>7, <1>8

LEMMA UnpricedFallbackValid ==
    ASSUME NEW S, Valid(S), S.n.status = "Active", NEW T \in UnpricedFallback(S)
    PROVE  Valid(T)
<1>1. PICK h, s, c, rl, rh, rb :
              /\ OpenOver(S, h, s, c) /\ StandsAt(S, h, 0, s, c, 0, 0, c, rl, rh, rb)
              /\ Reserves(h, 0, s, rl, rh, rb)
  BY Opened DEF Open
<1>2. S \in State
  BY <1>1 DEF StandsAt
<1>3. c = c - 0 /\ 0 <= c /\ 0 \in Nat
  BY <1>1, <1>2, OpenOverTypes
<1>4. T \in SaleFailed(S, 0, 0)
  BY DEF UnpricedFallback
<1> QED BY <1>1, <1>3, <1>4, SaleFailedValid

LEMMA InKindValid ==
    ASSUME NEW S, Valid(S), S.n.status = "Active", NEW T \in InKind(S)
    PROVE  Valid(T)
<1>1. PICK h, s, c, rl, rh, rb :
              /\ OpenOver(S, h, s, c) /\ StandsAt(S, h, 0, s, c, 0, 0, c, rl, rh, rb)
              /\ Reserves(h, 0, s, rl, rh, rb)
  BY Opened DEF Open
<1>2. S \in State /\ Stand(S.v, h, 0, s, c, 0, 0, c, rl, rh, rb)
  BY <1>1 DEF StandsAt
<1>3. h \in Nat /\ s \in Nat /\ c \in Nat /\ S.n \in Loan /\ SurplusOpen(S) /\ S.n.collateral = c
  BY <1>1, <1>2, OpenOverTypes DEF OpenOver
<1>4. PICK y \in Delivered(Collateral, c) :
         T = [S EXCEPT !.v = ReserveVpfi(DepositFromVault(ReleaseLien(S.v), Lender, Collateral, c, y),
                                         "lenderProceeds", Lender, Collateral, y),
                       !.n.collateral = y, !.n.status = "Defaulted", !.n.lenderClaim = Pays(Collateral, y)]
  BY <1>3 DEF InKind
<1>5. y \in Nat
  BY <1>3, <1>4, DeliveredTypes, Cast
<1> DEFINE U == ReleaseLien(S.v)
           V == DepositFromVault(U, Lender, Collateral, c, y)
           W == ReserveVpfi(V, "lenderProceeds", Lender, Collateral, y)
           l == Pays(Collateral, y)
<1>6. T = [S EXCEPT !.v = W, !.n.collateral = y, !.n.status = "Defaulted", !.n.lenderClaim = l]
  BY <1>4
<1>7. Stand(U, h, 0, s, c, 0, 0, 0, rl, rh, rb)
  BY <1>2, ReleaseLienStand
<1> HIDE DEF U
<1>8. Stand(V, h, 0 + y, s, c - c, 0, 0, 0, rl, rh, rb)
  BY <1>3, <1>5, <1>7, FromVaultLenderStand
<1>9. 0 + y = y /\ c - c = 0
  BY <1>3, <1>5
<1>10. Stand(V, h, y, s, 0, 0, 0, 0, rl, rh, rb)
  BY <1>8, <1>9
<1> HIDE DEF V
<1>11. Stand(W, h, y, s, 0, 0, 0, 0, rl + IfVpfi(Collateral, y), rh, rb)
  BY <1>5, <1>10, Cast, ReserveVpfiLenderStand
<1>12. W \in Vaults
  BY <1>11, FitTypes DEF Stand
<1> HIDE DEF W
<1>13. l \in Claim /\ l.asset = Collateral /\ l.amount = y /\ ~ l.claimed
  BY <1>5, ClaimTypes, Cast
<1> HIDE DEF l
<1>14. /\ T.v = W /\ T = [v |-> T.v, n |-> T.n]
       /\ T.n = [S.n EXCEPT !.collateral = y, !.status = "Defaulted", !.lenderClaim = l]
  BY <1>2, <1>6 DEF State
<1>15. T.n \in Loan /\ T \in State
  <2>1. "Defaulted" \in Statuses
    BY DEF Statuses
  <2>2. T.n \in Loan
    BY <1>3, <1>5, <1>13, <1>14, <2>1 DEF Loan
  <2> QED BY <1>12, <1>14, <2>2 DEF State
<1>16. /\ T.n.status = "Defaulted" /\ T.n.lenderClaim = l /\ T.n.surplus = S.n.surplus
       /\ T.n.borrowerClaim = S.n.borrowerClaim /\ T.n.held = h /\ T.n.snap = S.n.snap /\ T.n.custody = S.n.custody
       /\ T.n.surplus.amount = s
  BY <1>1, <1>3, <1>14 DEF Loan, OpenOver
<1>17. S.n.borrowerClaim = NoClaim /\ ~ S.n.snap.active /\ S.n.custody = 0
  BY <1>1 DEF OpenOver, Coherent
<1>18. NoClaim.amount = 0 /\ ~ LaneOpen(NoClaim)
  BY DEF NoClaim, LaneOpen
<1>19. Coherent(T.n)
  BY <1>3, <1>13, <1>15, <1>16, <1>17, <1>18 DEF Coherent, Open, SurplusOpen
<1>20. Stand(T.v, T.n.held, y, T.n.surplus.amount, 0, 0, 0, 0, rl + IfVpfi(Collateral, y), rh, rb)
  BY <1>11, <1>14, <1>16
<1>21. Reserves(T.n.held, y, T.n.surplus.amount, rl + IfVpfi(Collateral, y), rh, rb)
  <2>1. {rl, rh, rb} \subseteq Nat
    BY <1>2, StandTypes
  <2>2. Reserves(h, y, s, rl + IfVpfi(Collateral, y), rh, rb)
    BY <1>1, <1>3, <1>5, <2>1, Cast DEF Reserves, IfVpfi
  <2> QED BY <1>16, <2>2
<1>22. ~ T.n.lenderClaim.claimed /\ ~ T.n.surplus.claimed
  BY <1>3, <1>13, <1>16 DEF SurplusOpen
<1>23. T.n.lenderClaim.amount = y /\ T.n.lenderClaim.asset = Collateral
  BY <1>13, <1>16
<1>24. (LaneOpen(T.n.borrowerClaim) <=> 0 > 0) /\ T.n.borrowerClaim.amount = 0 /\ 0 \in Nat
       /\ (0 > 0 => T.n.borrowerClaim.asset = Collateral)
  BY <1>16, <1>17, <1>18
<1>25. T.n.status \in Closed
  BY <1>16 DEF Closed
<1> QED BY <1>5, <1>15, <1>19, <1>20, <1>21, <1>22, <1>23, <1>24, <1>25, ClosedValid

-----------------------------------------------------------------------------
(* The periodic settlement.                                                *)

(* y more is held for the lender.                                          *)
HeldMore(S, T, y) == T.n = [S.n EXCEPT !.held = @ + y]

(* x of the principal leave the Diamond.                                   *)
Left(S, x) == [S EXCEPT !.v = Transfer(@, Diamond, Outside, Principal, x)]

LEMMA LeftStand ==
    ASSUME NEW S, NEW lp, NEW lc, NEW bp, NEW bc, NEW dp, NEW dc, NEW k, NEW rl, NEW rh, NEW rb,
           StandsAt(S, lp, lc, bp, bc, dp, dc, k, rl, rh, rb), NEW x \in Int
    PROVE  SameLoan(S, Left(S, x)) /\ StandsAt(Left(S, x), lp, lc, bp, bc, dp - x, dc, k, rl, rh, rb)
<1> DEFINE W == Transfer(S.v, Diamond, Outside, Principal, x)
           T == Left(S, x)
<1>1. S \in State /\ Stand(S.v, lp, lc, bp, bc, dp, dc, k, rl, rh, rb)
  BY DEF StandsAt
<1>2. T.v = W /\ T.n = S.n /\ T = [v |-> T.v, n |-> T.n]
  BY <1>1 DEF Left, State
<1> HIDE DEF T
<1>3. Stand(W, lp, lc, bp, bc, dp - x, dc, k, rl, rh, rb)
  BY <1>1, TransferStand
<1>4. W \in Vaults
  BY <1>3, FitTypes DEF Stand
<1>5. T \in State
  BY <1>1, <1>2, <1>4 DEF State
<1> QED BY <1>2, <1>3, <1>5 DEF StandsAt, SameLoan, T

(* What is left of a sale is paid to the borrower, or held.                *)
LEMMA ExtraSettledStand ==
    ASSUME NEW S, NEW lp, NEW lc, NEW bp, NEW bc, NEW x \in Nat, NEW dc, NEW k, NEW rl, NEW rh, NEW rb,
           StandsAt(S, lp, lc, bp, bc, x, dc, k, rl, rh, rb), SurplusOpen(S),
           NEW T \in HeldExtra(S, x) \cup {Left(S, x)}
    PROVE  \E z : /\ Within(z, x) /\ ExtraHeld(S, T, z)
                  /\ StandsAt(T, lp, lc, bp + z, bc, 0, dc, k, rl, rh, rb + z)
<1>0. x - x = 0
  OBVIOUS
<1>1. CASE T \in HeldExtra(S, x)
  <2> DEFINE d == x
  <2>1. StandsAt(S, lp, lc, bp, bc, d, dc, k, rl, rh, rb)
    OBVIOUS
  <2> HIDE DEF d
  <2>2. PICK z : /\ Within(z, x) /\ ExtraHeld(S, T, z)
                 /\ StandsAt(T, lp, lc, bp + z, bc, d - x, dc, k, rl, rh, rb + z)
    BY <1>1, <2>1, HeldExtraStand
  <2>3. d - x = 0
    BY DEF d
  <2> QED BY <2>2, <2>3
<1>2. CASE T = Left(S, x)
  <2> DEFINE d == x
  <2>1. StandsAt(S, lp, lc, bp, bc, d, dc, k, rl, rh, rb) /\ x \in Int
    OBVIOUS
  <2> HIDE DEF d
  <2>2. SameLoan(S, T) /\ StandsAt(T, lp, lc, bp, bc, d - x, dc, k, rl, rh, rb)
    BY <1>2, <2>1, LeftStand
  <2>3. d - x = 0
    BY DEF d
  <2>4. {bp, rb} \subseteq Int
    <3>1. Stand(S.v, lp, lc, bp, bc, x, dc, k, rl, rh, rb)
      BY DEF StandsAt
    <3> QED BY <3>1, StandTypes
  <2>5. bp + 0 = bp /\ rb + 0 = rb
    BY <2>4
  <2>6. Within(0, x) /\ StandsAt(T, lp, lc, bp + 0, bc, 0, dc, k, rl, rh, rb + 0)
    BY <2>2, <2>3, <2>5 DEF Within
  <2>7. ExtraHeld(S, T, 0)
    <3>1. S.n \in Loan /\ S.n.surplus \in Claim /\ S.n.surplus.amount \in Nat
      BY DEF StandsAt, State, Loan, Claim
    <3>2. T.n = [S.n EXCEPT !.surplus = S.n.surplus]
      BY <2>2, <3>1 DEF SameLoan, Loan
    <3>3. S.n.surplus.amount = S.n.surplus.amount + 0
      BY <3>1
    <3> QED BY <3>1, <3>2, <3>3 DEF ExtraHeld, SurplusOpen
  <2> QED BY <2>6, <2>7
<1> QED BY <1>1, <1>2

LEMMA ParkedStand ==
    ASSUME NEW S, NEW lp, NEW lc, NEW bp, NEW bc, NEW dp, NEW dc, NEW k, NEW rl, NEW rh, NEW rb,
           StandsAt(S, lp, lc, bp, bc, dp, dc, k, rl, rh, rb), NEW x \in Nat, NEW y \in Delivered(Principal, x),
           NEW T, T = [S EXCEPT !.v = Reserve(DepositLocked(@, Lender, Principal, x, y),
                                              "heldForLender", Lender, Principal, y),
                                !.n.held = @ + y]
    PROVE  Within(y, x) /\ HeldMore(S, T, y) /\ StandsAt(T, lp + y, lc, bp, bc, dp - x, dc, k, rl, rh + y, rb)
<1> DEFINE V == DepositLocked(S.v, Lender, Principal, x, y)
           W == Reserve(V, "heldForLender", Lender, Principal, y)
<1>1. S \in State /\ Stand(S.v, lp, lc, bp, bc, dp, dc, k, rl, rh, rb)
  BY DEF StandsAt
<1>2. y \in Nat /\ y <= x
  BY DeliveredTypes, Cast
<1>3. T = [S EXCEPT !.v = W, !.n.held = @ + y]
  OBVIOUS
<1>4. Stand(V, lp + y, lc, bp, bc, dp - x, dc, k, rl, rh, rb)
  BY <1>1, <1>2, LockLenderStand
<1> HIDE DEF V
<1>5. Stand(W, lp + y, lc, bp, bc, dp - x, dc, k, rl, rh + y, rb)
  BY <1>2, <1>4, ReserveHeldStand
<1>6. W \in Vaults
  BY <1>5, FitTypes DEF Stand
<1> HIDE DEF W
<1>7. T.v = W /\ T.n = [S.n EXCEPT !.held = @ + y] /\ T = [v |-> T.v, n |-> T.n]
  BY <1>1, <1>3 DEF State
<1>8. S.n.held + y \in Nat /\ S.n \in Loan
  BY <1>1, <1>2 DEF State, Loan
<1>9. T \in State
  BY <1>6, <1>7, <1>8 DEF State, Loan
<1> QED BY <1>2, <1>5, <1>7, <1>9 DEF StandsAt, HeldMore, Within

LEMMA BookPeriodicStand ==
    ASSUME NEW S, NEW lp, NEW lc, NEW bp, NEW bc, NEW got \in Nat, NEW dc, NEW k, NEW rl, NEW rh, NEW rb,
           StandsAt(S, lp, lc, bp, bc, got, dc, k, rl, rh, rb), SurplusOpen(S),
           NEW d \in Nat, NEW p \in Splits(d, got), NEW T \in BookPeriodic(S, got, p)
    PROVE  \E y, z, R :
              /\ Within(y, got) /\ Within(z, got) /\ HeldMore(S, R, y) /\ ExtraHeld(R, T, z) /\ R \in State
              /\ StandsAt(T, lp + y, lc, bp + z, bc, 0, dc, k, rl, rh + y, rb + z)
<1> DEFINE Paid == Left(S, got - p.extra)
           Park(y) == [S EXCEPT !.v = Reserve(DepositLocked(Transfer(@, Diamond, Outside, Principal,
                                                                     got - p.lender - p.extra),
                                                            Lender, Principal, p.lender, y),
                                              "heldForLender", Lender, Principal, y),
                                !.n.held = @ + y]
           Parked == {Park(y) : y \in Delivered(Principal, p.lender)}
<1>1. p.lender \in Nat /\ p.extra \in Nat /\ p.lender + p.extra <= got
  BY SplitTypes
<1>2. T \in UNION {HeldExtra(R, p.extra) \cup {Left(R, p.extra)} : R \in {Paid} \cup Parked}
  BY DEF BookPeriodic, Left
<1> DEFINE l == p.lender
           e == p.extra
<1>3. l \in Nat /\ e \in Nat /\ l + e <= got
  BY <1>1
<1> HIDE DEF Paid, Park, e
<1>4. PICK R \in {Paid} \cup Parked : T \in HeldExtra(R, e) \cup {Left(R, e)}
  BY <1>2 DEF e
<1>5. S \in State /\ S.n \in Loan /\ S.n.held \in Nat
  BY DEF StandsAt, State, Loan
<1>6. ASSUME NEW y, NEW q, y \in Nat, y <= got, HeldMore(S, R, y),
             StandsAt(R, lp + y, lc, bp, bc, q, dc, k, rl, rh + y, rb), q = e
      PROVE  \E z : /\ Within(y, got) /\ Within(z, got) /\ ExtraHeld(R, T, z) /\ R \in State
                    /\ StandsAt(T, lp + y, lc, bp + z, bc, 0, dc, k, rl, rh + y, rb + z)
  <2>1. R \in State /\ StandsAt(R, lp + y, lc, bp, bc, e, dc, k, rl, rh + y, rb)
    BY <1>6 DEF StandsAt
  <2>2. SurplusOpen(R)
    <3>1. R.n.surplus = S.n.surplus
      BY <1>5, <1>6 DEF HeldMore, Loan
    <3> QED BY <3>1 DEF SurplusOpen
  <2> DEFINE mp == lp + y
             mh == rh + y
  <2>3. StandsAt(R, mp, lc, bp, bc, e, dc, k, rl, mh, rb)
    BY <2>1
  <2>4. e \in Nat
    BY <1>3
  <2> HIDE DEF mp, mh
  <2>5. PICK z : /\ Within(z, e) /\ ExtraHeld(R, T, z)
                 /\ StandsAt(T, mp, lc, bp + z, bc, 0, dc, k, rl, mh, rb + z)
    BY <1>4, <2>2, <2>3, <2>4, ExtraSettledStand
  <2>6. Within(y, got) /\ Within(z, got)
    BY <1>3, <1>6, <2>5 DEF Within
  <2>7. StandsAt(T, lp + y, lc, bp + z, bc, 0, dc, k, rl, rh + y, rb + z)
    BY <2>5 DEF mp, mh
  <2> QED BY <2>1, <2>5, <2>6, <2>7
<1>7. CASE R = Paid
  <2> DEFINE x == got - e
             q == got - x
  <2>1. x \in Int /\ q = e
    BY <1>3
  <2>2. R = Left(S, x)
    BY <1>7 DEF Paid, e
  <2> DEFINE g == got
  <2>3. StandsAt(S, lp, lc, bp, bc, g, dc, k, rl, rh, rb)
    OBVIOUS
  <2> HIDE DEF x, g
  <2>4. SameLoan(S, R) /\ StandsAt(R, lp, lc, bp, bc, g - x, dc, k, rl, rh, rb)
    BY <2>1, <2>2, <2>3, LeftStand
  <2>5. {lp, rh} \subseteq Int
    <3>1. Stand(S.v, lp, lc, bp, bc, got, dc, k, rl, rh, rb)
      BY DEF StandsAt
    <3> QED BY <3>1, StandTypes
  <2>6. lp + 0 = lp /\ rh + 0 = rh /\ g - x = q
    BY <2>5 DEF g
  <2>7. StandsAt(R, lp + 0, lc, bp, bc, q, dc, k, rl, rh + 0, rb)
    BY <2>4, <2>6
  <2>8. HeldMore(S, R, 0)
    <3>1. S.n.held + 0 = S.n.held
      BY <1>5
    <3>2. [S.n EXCEPT !.held = S.n.held] = S.n
      BY <1>5 DEF Loan
    <3> QED BY <2>4, <3>1, <3>2 DEF SameLoan, HeldMore
  <2>9. \E z : /\ Within(0, got) /\ Within(z, got) /\ ExtraHeld(R, T, z) /\ R \in State
               /\ StandsAt(T, lp + 0, lc, bp + z, bc, 0, dc, k, rl, rh + 0, rb + z)
    BY <1>6, <2>1, <2>7, <2>8
  <2> QED BY <2>8, <2>9
<1>8. CASE R \in Parked
  <2>1. PICK y \in Delivered(Principal, l) : R = Park(y)
    BY <1>8
  <2> DEFINE x == got - l - e
             P == Left(S, x)
             g == got
             o == g - x
  <2>2. x \in Int /\ o - l = e
    BY <1>3
  <2>3. StandsAt(S, lp, lc, bp, bc, g, dc, k, rl, rh, rb)
    OBVIOUS
  <2>4. R = [P EXCEPT !.v = Reserve(DepositLocked(@, Lender, Principal, l, y), "heldForLender", Lender, Principal, y),
                      !.n.held = @ + y]
    BY <1>5, <2>1 DEF Park, Left, State, e
  <2> HIDE DEF x, g, P, o
  <2>5. SameLoan(S, P) /\ StandsAt(P, lp, lc, bp, bc, g - x, dc, k, rl, rh, rb)
    BY <2>2, <2>3, LeftStand DEF P
  <2>6. StandsAt(P, lp, lc, bp, bc, o, dc, k, rl, rh, rb)
    BY <2>5 DEF o
  <2> HIDE DEF l
  <2>7. l \in Nat
    BY <1>3
  <2>8. Within(y, l) /\ HeldMore(P, R, y) /\ StandsAt(R, lp + y, lc, bp, bc, o - l, dc, k, rl, rh + y, rb)
    BY <2>1, <2>4, <2>6, <2>7, ParkedStand
  <2>9. y \in Nat /\ y <= got
    BY <1>3, <2>8 DEF Within
  <2>10. HeldMore(S, R, y)
    BY <2>5, <2>8 DEF HeldMore, SameLoan
  <2>11. \E z : /\ Within(y, got) /\ Within(z, got) /\ ExtraHeld(R, T, z) /\ R \in State
                /\ StandsAt(T, lp + y, lc, bp + z, bc, 0, dc, k, rl, rh + y, rb + z)
    BY <1>6, <2>2, <2>8, <2>9, <2>10
  <2> QED BY <2>10, <2>11
<1> QED BY <1>4, <1>7, <1>8

LEMMA PeriodicValid ==
    ASSUME NEW S, Valid(S), S.n.status = "Active", NEW q \in Nat, NEW r \in Nat, q <= S.n.collateral,
           NEW T \in PeriodicSale(S, q, r)
    PROVE  Valid(T)
<1>1. PICK h, s, c, rl, rh, rb :
              /\ OpenOver(S, h, s, c) /\ StandsAt(S, h, 0, s, c, 0, 0, c, rl, rh, rb)
              /\ Reserves(h, 0, s, rl, rh, rb)
  BY Opened DEF Open
<1> DEFINE P == OpenSale(S, q, r)
<1>2. PICK d \in 1..MaxInterest, got \in 0..MaxProceeds :
         \E p \in Splits(d, got) : T \in BookPeriodic(PeriodicSold(S, q, r, got), got, p)
  BY DEF PeriodicSale
<1>3. PICK p \in Splits(d, got) : T \in BookPeriodic(PeriodicSold(S, q, r, got), got, p)
  BY <1>2
<1>4. d \in Nat /\ got \in Nat
  <2>1. MaxProceeds \in Nat /\ MaxInterest \in Nat
    BY FallbackLoanAssumption
  <2> QED BY <2>1
<1>5. q <= c
  BY <1>1 DEF OpenOver
<1>6. SameLoan(S, P) /\ StandsAt(P, h, 0, s, c - q, 0, r, c - q, rl, rh, rb)
  BY <1>1, <1>5, OpenSaleAt
<1> HIDE DEF P
<1>7. S.n \in Loan /\ P \in State /\ Stand(P.v, h, 0, s, c - q, 0, r, c - q, rl, rh, rb)
  BY <1>1, <1>6 DEF StandsAt, State
<1>8. h \in Nat /\ s \in Nat /\ c \in Nat /\ SurplusOpen(S) /\ S.n.collateral = c
  <2>1. S \in State
    BY <1>1 DEF StandsAt
  <2> QED BY <1>1, <2>1, OpenOverTypes DEF OpenOver
<1> DEFINE V == Swapped(P.v, r, got)
           Q == PeriodicSold(S, q, r, got)
           rest == c - q
<1>9. rest \in Nat /\ 0 + got = got /\ r - r = 0
  BY <1>4, <1>5, <1>8
<1>10. /\ Q.v = V /\ Q = [v |-> Q.v, n |-> Q.n] /\ Q.n = [S.n EXCEPT !.collateral = rest]
  <2>0. Q = [P EXCEPT !.v = V, !.n.collateral = @ - q]
    BY DEF PeriodicSold, P
  <2> HIDE DEF Q, V
  <2>1. Q.v = V /\ Q = [v |-> Q.v, n |-> Q.n] /\ Q.n = [P.n EXCEPT !.collateral = @ - q]
    BY <1>7, <2>0 DEF State
  <2> QED BY <1>6, <1>7, <1>8, <2>1 DEF SameLoan, Loan
<1>11. T \in BookPeriodic(Q, got, p)
  BY <1>3
<1> HIDE DEF Q
<1>12. Stand(P.v, h, 0, s, rest, 0, r, rest, rl, rh, rb)
  BY <1>7
<1> HIDE DEF rest
<1>13. Stand(V, h, 0, s, rest, 0 + got, r - r, rest, rl, rh, rb)
  <2>1. got \in Int
    BY <1>4
  <2> QED BY <1>12, <2>1, SwapStand
<1>14. Stand(V, h, 0, s, rest, got, 0, rest, rl, rh, rb)
  BY <1>9, <1>13
<1>15. V \in Vaults
  BY <1>14, FitTypes DEF Stand
<1> HIDE DEF V
<1>16. StandsAt(Q, h, 0, s, rest, got, 0, rest, rl, rh, rb) /\ SurplusOpen(Q)
  <2>1. Q.n \in Loan /\ Q.n.surplus = S.n.surplus
    BY <1>7, <1>9, <1>10 DEF Loan
  <2>2. Q \in State
    BY <1>10, <1>15, <2>1 DEF State
  <2> QED BY <1>8, <1>10, <1>14, <2>1, <2>2 DEF StandsAt, SurplusOpen
<1>17. PICK y, z, R :
              /\ Within(y, got) /\ Within(z, got) /\ HeldMore(Q, R, y) /\ ExtraHeld(R, T, z) /\ R \in State
              /\ StandsAt(T, h + y, 0, s + z, rest, 0, 0, rest, rl, rh + y, rb + z)
  <2>1. got \in Nat /\ d \in Nat
    BY <1>4
  <2> QED BY <1>11, <1>16, <2>1, BookPeriodicStand
<1>18. y \in Nat /\ z \in Nat
  BY <1>4, <1>17 DEF Within
<1>19. PICK u \in Claim : /\ T.n = [R.n EXCEPT !.surplus = u] /\ u.amount = R.n.surplus.amount + z
                          /\ ~ u.claimed /\ (u.amount > 0 => u.asset = Principal)
  BY <1>17 DEF ExtraHeld
<1>20. R.n = [S.n EXCEPT !.collateral = rest, !.held = h + y] /\ R.n.surplus = S.n.surplus /\ S.n.surplus.amount = s
  <2>1. S.n.held = h /\ S.n.surplus.amount = s
    BY <1>1 DEF OpenOver
  <2> QED BY <1>7, <1>10, <1>17, <2>1 DEF HeldMore, Loan
<1>21. T.n = [S.n EXCEPT !.collateral = rest, !.held = h + y, !.surplus = u] /\ u.amount = s + z
  BY <1>7, <1>19, <1>20 DEF Loan
<1>22. /\ T \in State /\ T.n \in Loan /\ T.n.status = "Active" /\ T.n.held = h + y /\ T.n.surplus = u /\ T.n.collateral = rest
       /\ T.n.snap = S.n.snap /\ T.n.custody = S.n.custody /\ T.n.lenderClaim = S.n.lenderClaim
       /\ T.n.borrowerClaim = S.n.borrowerClaim
  <2>1. T \in State /\ T.n \in Loan
    BY <1>17 DEF StandsAt, State
  <2> QED BY <1>7, <1>21, <2>1 DEF Loan
<1>23. Coherent(T.n)
  <2>1. Coherent(S.n)
    BY <1>1 DEF OpenOver
  <2> QED BY <1>19, <1>22, <2>1 DEF Coherent, Open
<1>24. Stand(T.v, T.n.held, 0, T.n.surplus.amount, T.n.collateral, 0, 0, T.n.collateral, rl, rh + y, rb + z)
  BY <1>17, <1>21, <1>22 DEF StandsAt
<1>25. Reserves(T.n.held, 0, T.n.surplus.amount, rl, rh + y, rb + z)
  <2>1. {rl, rh, rb} \subseteq Nat
    BY <1>7, StandTypes
  <2>2. Reserves(h + y, 0, s + z, rl, rh + y, rb + z)
    BY <1>1, <1>8, <1>18, <2>1, Cast DEF Reserves
  <2> QED BY <1>21, <1>22, <2>2
<1> QED BY <1>22, <1>23, <1>24, <1>25, OpenValid DEF Open

-----------------------------------------------------------------------------
(* Repayment, and more collateral.                                         *)

Repayment(V, due) ==
    ReserveVpfi(VaultDepositERC20From(V, Outside, Lender, Principal, due),
                "lenderProceeds", Lender, Principal, due)

RepaidLoan(n, due, g, o) ==
    [n EXCEPT !.lenderClaim = Pays(Principal, due), !.borrowerClaim = Pays(Collateral, n.collateral),
              !.status = "Repaid", !.snap = g, !.custody = 0, !.optIn = o]

LEMMA RepaidValid ==
    ASSUME NEW S, Valid(S), S.n.status \in Open, NEW x \in Nat, NEW p \in BOOLEAN,
           NEW g \in Snapshot, ~ g.active, NEW o \in BOOLEAN,
           NEW due, due = S.n.principal + x,
           NEW W, W = Repayment(S.v, due),
           NEW T, T = [v |-> T.v, n |-> T.n], T.v \in {W, Guarded(W, p)},
           T.n = RepaidLoan(S.n, due, g, o)
    PROVE  Valid(T)
<1>1. PICK h, s, c, rl, rh, rb :
              /\ OpenOver(S, h, s, c) /\ StandsAt(S, h, 0, s, c, 0, 0, c, rl, rh, rb)
              /\ Reserves(h, 0, s, rl, rh, rb)
  BY Opened
<1>2. S \in State /\ Stand(S.v, h, 0, s, c, 0, 0, c, rl, rh, rb)
  BY <1>1 DEF StandsAt
<1>3. h \in Nat /\ s \in Nat /\ c \in Nat /\ S.n \in Loan /\ SurplusOpen(S) /\ S.n.collateral = c
      /\ S.n.principal \in Nat
  BY <1>1, <1>2, OpenOverTypes DEF OpenOver
<1>4. due \in Nat
  BY <1>3
<1> DEFINE V == VaultDepositERC20From(S.v, Outside, Lender, Principal, due)
           l == Pays(Principal, due)
           b == Pays(Collateral, c)
<1>5. Stand(V, h + due, 0, s, c, 0, 0, c, rl, rh, rb)
  BY <1>2, <1>4, DepositLenderStand
<1>6. W = ReserveVpfi(V, "lenderProceeds", Lender, Principal, due)
  BY DEF Repayment
<1> DEFINE m == h + due
<1> HIDE DEF V, m
<1>7. Stand(W, m, 0, s, c, 0, 0, c, rl + IfVpfi(Principal, due), rh, rb)
  BY <1>4, <1>5, <1>6, Cast, ReserveVpfiLenderStand DEF m
<1> DEFINE r == rl + IfVpfi(Principal, due)
<1>8. Stand(W, m, 0, s, c, 0, 0, c, r, rh, rb)
  BY <1>7
<1> HIDE DEF r
<1>9. Stand(T.v, m, 0, s, c, 0, 0, c, r, rh, rb)
  BY <1>8, GuardStand
<1>10. T.v \in Vaults
  BY <1>9, FitTypes DEF Stand
<1>11. /\ l \in Claim /\ l.asset = Principal /\ l.amount = due /\ ~ l.claimed
       /\ b \in Claim /\ b.asset = Collateral /\ b.amount = c /\ (LaneOpen(b) <=> c > 0)
  BY <1>3, <1>4, ClaimTypes, Cast
<1>12. T.n = [S.n EXCEPT !.lenderClaim = l, !.borrowerClaim = b, !.status = "Repaid", !.snap = g,
                         !.custody = 0, !.optIn = o]
  BY <1>3 DEF RepaidLoan
<1> HIDE DEF l, b
<1>13. T.n \in Loan /\ T \in State
  <2>1. "Repaid" \in Statuses /\ 0 \in Nat
    BY DEF Statuses
  <2>2. T.n \in Loan
    BY <1>3, <1>11, <1>12, <2>1 DEF Loan
  <2> QED BY <1>10, <2>2 DEF State
<1>14. /\ T.n.status = "Repaid" /\ T.n.lenderClaim = l /\ T.n.borrowerClaim = b /\ T.n.snap = g /\ T.n.custody = 0
       /\ T.n.held = h /\ T.n.surplus = S.n.surplus /\ T.n.surplus.amount = s
  BY <1>1, <1>3, <1>12 DEF Loan, OpenOver
<1>15. Coherent(T.n)
  BY <1>3, <1>11, <1>13, <1>14 DEF Coherent, Open, SurplusOpen
<1>16. Stand(T.v, T.n.held + due, 0, T.n.surplus.amount, c, 0, 0, c, r, rh, rb)
  BY <1>9, <1>14 DEF m
<1>17. Reserves(T.n.held + due, 0, T.n.surplus.amount, r, rh, rb)
  <2>1. {rl, rh, rb} \subseteq Nat
    BY <1>2, StandTypes
  <2>2. Reserves(h + due, 0, s, r, rh, rb)
    BY <1>1, <1>3, <1>4, <2>1, Cast DEF Reserves, IfVpfi, r
  <2> QED BY <1>14, <2>2
<1>18. /\ ~ T.n.lenderClaim.claimed /\ ~ T.n.surplus.claimed
       /\ T.n.lenderClaim.amount = due /\ T.n.lenderClaim.asset = Principal
       /\ (LaneOpen(T.n.borrowerClaim) <=> c > 0) /\ T.n.borrowerClaim.amount = c
       /\ T.n.borrowerClaim.asset = Collateral
  BY <1>3, <1>11, <1>14 DEF SurplusOpen
<1>19. T.n.status \in Closed
  BY <1>14 DEF Closed
<1> QED BY <1>3, <1>4, <1>13, <1>15, <1>16, <1>17, <1>18, <1>19, ClosedValid

LEMMA ToppedValid ==
    ASSUME NEW S, Valid(S), S.n.status \in Open, NEW x \in Nat
    PROVE  Valid(Topped(S, x)) /\ Topped(S, x).n.status = S.n.status
<1>1. PICK h, s, c, rl, rh, rb :
              /\ OpenOver(S, h, s, c) /\ StandsAt(S, h, 0, s, c, 0, 0, c, rl, rh, rb)
              /\ Reserves(h, 0, s, rl, rh, rb)
  BY Opened
<1>2. S \in State /\ Stand(S.v, h, 0, s, c, 0, 0, c, rl, rh, rb)
  BY <1>1 DEF StandsAt
<1>3. h \in Nat /\ s \in Nat /\ c \in Nat /\ S.n \in Loan /\ SurplusOpen(S) /\ S.n.collateral = c
  BY <1>1, <1>2, OpenOverTypes DEF OpenOver
<1> DEFINE V == VaultDepositERC20From(S.v, Outside, Borrower, Collateral, x)
           W == RaiseLien(V, x)
           T == Topped(S, x)
<1>4. T = [S EXCEPT !.v = W, !.n.collateral = @ + x]
  BY DEF Topped
<1>5. Stand(V, h, 0, s, c + x, 0, 0, c, rl, rh, rb)
  BY <1>2, DepositBorrowerStand
<1> HIDE DEF V, T
<1>6. Stand(W, h, 0, s, c + x, 0, 0, c + x, rl, rh, rb)
  BY <1>5, RaiseLienStand
<1>7. W \in Vaults
  BY <1>6, FitTypes DEF Stand
<1> HIDE DEF W
<1>8. T.v = W /\ T.n = [S.n EXCEPT !.collateral = @ + x] /\ T = [v |-> T.v, n |-> T.n]
  BY <1>2, <1>4 DEF State
<1>9. T.n = [S.n EXCEPT !.collateral = c + x] /\ c + x \in Nat
  BY <1>3, <1>8
<1>10. /\ T \in State /\ T.n \in Loan /\ T.n.status = S.n.status /\ T.n.held = h /\ T.n.surplus = S.n.surplus
       /\ T.n.collateral = c + x /\ T.n.snap = S.n.snap /\ T.n.custody = S.n.custody
       /\ T.n.lenderClaim = S.n.lenderClaim /\ T.n.borrowerClaim = S.n.borrowerClaim
       /\ T.n.surplus.amount = s
  <2>1. T.n \in Loan
    BY <1>3, <1>9 DEF Loan
  <2> QED BY <1>1, <1>3, <1>7, <1>8, <1>9, <2>1 DEF State, Loan, OpenOver
<1>11. Coherent(T.n)
  <2>1. Coherent(S.n)
    BY <1>1 DEF OpenOver
  <2>2. S.n.custody <= c => S.n.custody <= c + x
    BY <1>3 DEF Loan
  <2> QED BY <1>3, <1>10, <2>1, <2>2 DEF Coherent, SnapshotTotal
<1>12. Stand(T.v, T.n.held, 0, T.n.surplus.amount, T.n.collateral, 0, 0, T.n.collateral, rl, rh, rb)
  BY <1>6, <1>8, <1>10
<1>13. Reserves(T.n.held, 0, T.n.surplus.amount, rl, rh, rb)
  BY <1>1, <1>10
<1>14. Valid(T)
  BY <1>10, <1>11, <1>12, <1>13, OpenValid
<1> QED BY <1>10, <1>14 DEF T

LEMMA CuredValid ==
    ASSUME NEW S, Valid(S), S.n.status = "FallbackPending"
    PROVE  Valid(Cured(S))
<1>1. PICK h, s, c, rl, rh, rb :
              /\ OpenOver(S, h, s, c) /\ StandsAt(S, h, 0, s, c, 0, 0, c, rl, rh, rb)
              /\ Reserves(h, 0, s, rl, rh, rb)
  BY Opened DEF Open
<1> DEFINE R == RequireSnapshotMatchesRow(S)
           T == Cured(S)
<1>2. SameLoan(S, R) /\ StandsAt(R, h, 0, s, c, 0, 0, c, rl, rh, rb)
  BY <1>1, RowStand
<1>3. T = [R EXCEPT !.n.status = "Active", !.n.snap = NoSnapshot, !.n.custody = 0,
                    !.n.lenderClaim = NoClaim, !.n.borrowerClaim = NoClaim, !.n.optIn = FALSE]
  BY DEF Cured, RequireVaultHeld
<1> HIDE DEF R, T
<1>4. R \in State /\ R.n = S.n /\ R.n \in Loan /\ Stand(R.v, h, 0, s, c, 0, 0, c, rl, rh, rb)
  BY <1>2 DEF StandsAt, SameLoan, State
<1>5. /\ T.v = R.v /\ T = [v |-> T.v, n |-> T.n]
      /\ T.n = [R.n EXCEPT !.status = "Active", !.snap = NoSnapshot, !.custody = 0,
                           !.lenderClaim = NoClaim, !.borrowerClaim = NoClaim, !.optIn = FALSE]
  BY <1>3, <1>4 DEF State
<1>6. NoSnapshot \in Snapshot /\ ~ NoSnapshot.active /\ NoClaim \in Claim /\ ~ NoClaim.claimed
      /\ NoClaim.amount = 0 /\ "Active" \in Statuses
  BY DEF NoSnapshot, Snapshot, NoClaim, Claim, Statuses
<1>7. T.n \in Loan /\ T \in State
  <2>0. 0 \in Nat /\ FALSE \in BOOLEAN
    OBVIOUS
  <2>1. T.n \in Loan
    BY <1>4, <1>5, <1>6, <2>0 DEF Loan
  <2> QED BY <1>4, <1>5, <2>1 DEF State
<1>8. /\ T.n.status = "Active" /\ T.n.held = h /\ T.n.surplus = S.n.surplus /\ T.n.collateral = c
      /\ T.n.snap = NoSnapshot /\ T.n.custody = 0 /\ T.n.surplus.amount = s
      /\ T.n.lenderClaim = NoClaim /\ T.n.borrowerClaim = NoClaim
  BY <1>1, <1>4, <1>5 DEF Loan, OpenOver
<1>9. SurplusOpen(S)
  <2>1. S \in State
    BY <1>1 DEF StandsAt
  <2> QED BY <1>1, <2>1, OpenOverTypes
<1>10. Coherent(T.n)
  BY <1>6, <1>7, <1>8, <1>9 DEF Coherent, SurplusOpen
<1>11. Stand(T.v, T.n.held, 0, T.n.surplus.amount, T.n.collateral, 0, 0, T.n.collateral, rl, rh, rb)
  BY <1>4, <1>5, <1>8
<1>12. Reserves(T.n.held, 0, T.n.surplus.amount, rl, rh, rb)
  BY <1>1, <1>8
<1>13. T.n.status \in Open
  BY <1>8 DEF Open
<1>14. Valid(T)
  BY <1>7, <1>10, <1>11, <1>12, <1>13, OpenValid
<1> QED BY <1>14 DEF T

-----------------------------------------------------------------------------
(* Internal matching.                                                      *)

LEMMA DivBounds ==
    ASSUME NEW a \in Nat, NEW b \in Nat, b > 0
    PROVE  a \div b \in Nat /\ b * (a \div b) <= a /\ a < b * (a \div b) + b
OBVIOUS

LEMMA ProductBound ==
    ASSUME NEW a \in Nat, NEW b \in Nat, NEW n \in Nat, a <= b
    PROVE  a * n <= b * n /\ a * n \in Nat
OBVIOUS

LEMMA QuotientBound ==
    ASSUME NEW o \in Nat, o > 0, NEW q \in Nat, NEW n \in Nat, o * q < o * n + o
    PROVE  q <= n
<1>1. SUFFICES ASSUME q >= n + 1 PROVE FALSE
  OBVIOUS
<1>2. o * (n + 1) <= o * q
  BY <1>1
<1>3. o * (n + 1) = o * n + o
  OBVIOUS
<1> QED BY <1>2, <1>3

(* The lender's slice of what is left is rounded up, and still all slices  *)
(* fit in it.                                                              *)
LEMMA RescaledSlices ==
    ASSUME NEW g \in Snapshot, NEW n \in Nat, NEW o \in Nat, o > 0, n <= o,
           g.lender + g.treasury + g.borrower = o
    PROVE  /\ Rescaled(g, n, o) \in Snapshot
           /\ Rescaled(g, n, o).lender + Rescaled(g, n, o).treasury + Rescaled(g, n, o).borrower = n
           /\ Rescaled(g, n, o).active = g.active
           /\ Rescaled(g, n, o).lender * o >= g.lender * n
<1> DEFINE a == g.lender * n
           b == g.treasury * n
           l == (a + o - 1) \div o
           t == b \div o
           e == (g.lenderDue * n) \div o
           f == (g.treasuryDue * n) \div o
<1>1. /\ g.lender \in Nat /\ g.treasury \in Nat /\ g.borrower \in Nat /\ g.lenderDue \in Nat
      /\ g.treasuryDue \in Nat
  BY DEF Snapshot
<1>2. a \in Nat /\ b \in Nat /\ g.lenderDue * n \in Nat /\ g.treasuryDue * n \in Nat
  BY <1>1
<1>3. a + b <= o * n
  <2>1. (g.lender + g.treasury) * n <= o * n
    BY <1>1, ProductBound
  <2>2. (g.lender + g.treasury) * n = g.lender * n + g.treasury * n
    BY <1>1
  <2> QED BY <2>1, <2>2
<1>4. e \in Nat /\ f \in Nat
  BY <1>2, DivBounds
<1>5. Rescaled(g, n, o) = [g EXCEPT !.lender = l, !.treasury = t, !.borrower = n - l - t,
                                    !.lenderDue = e, !.treasuryDue = f]
  BY DEF Rescaled
<1> HIDE DEF a, b, e, f
<1>6. l \in Nat /\ o * l <= a + o - 1 /\ a + o - 1 < o * l + o
  <2>1. a + o - 1 \in Nat
    BY <1>2
  <2> QED BY <2>1, DivBounds
<1>7. t \in Nat /\ o * t <= b
  BY <1>2, DivBounds
<1> HIDE DEF l, t
<1>8. l + t <= n
  <2>1. o * (l + t) = o * l + o * t
    BY <1>6, <1>7
  <2>2. o * n \in Nat /\ o * l \in Nat /\ o * t \in Nat
    BY <1>6, <1>7
  <2>3. o * (l + t) < o * n + o
    BY <1>2, <1>3, <1>6, <1>7, <2>1, <2>2
  <2> QED BY <1>6, <1>7, <2>3, QuotientBound
<1>9. n - l - t \in Nat /\ l + t + (n - l - t) = n
  BY <1>6, <1>7, <1>8
<1>10. l * o >= a
  <2>1. o * l \in Nat /\ l * o = o * l
    BY <1>6
  <2> QED BY <1>2, <1>6, <2>1
<1> DEFINE z == n - l - t
<1>11. z \in Nat /\ l + t + z = n /\ Rescaled(g, n, o) = [g EXCEPT !.lender = l, !.treasury = t, !.borrower = z,
                                                           !.lenderDue = e, !.treasuryDue = f]
  BY <1>5, <1>9
<1> HIDE DEF z
<1>12. /\ Rescaled(g, n, o) \in Snapshot /\ Rescaled(g, n, o).lender = l /\ Rescaled(g, n, o).treasury = t
       /\ Rescaled(g, n, o).borrower = z /\ Rescaled(g, n, o).active = g.active
  BY <1>4, <1>6, <1>7, <1>11 DEF Snapshot
<1> QED BY <1>10, <1>11, <1>12 DEF a

(* A loan whose fallback is pending, its custody aside.                    *)
Waits(n) ==
    /\ n.status = "FallbackPending"
    /\ ~ n.lenderClaim.claimed /\ n.lenderClaim.asset = Collateral /\ n.borrowerClaim.asset = Collateral
    /\ ~ n.surplus.claimed /\ (n.surplus.amount > 0 => n.surplus.asset = Principal)

Slices3(g, x) == g.lender + g.treasury + g.borrower = x

LEMMA ClaimsOfSnapshotCoherent ==
    ASSUME NEW S \in State, Waits(S.n), NEW g \in Snapshot, g.active, Slices3(g, S.n.custody),
           S.n.custody <= S.n.collateral
    PROVE  LET T == ClaimsOfSnapshot(S, g)
           IN  /\ T \in State /\ T.v = S.v /\ Coherent(T.n) /\ Waits(T.n) /\ T.n.snap = g
               /\ T.n.held = S.n.held /\ T.n.surplus = S.n.surplus /\ T.n.collateral = S.n.collateral
               /\ T.n.custody = S.n.custody
<1> DEFINE T == ClaimsOfSnapshot(S, g)
           l == [S.n.lenderClaim EXCEPT !.amount = g.lender]
           b == [S.n.borrowerClaim EXCEPT !.amount = g.borrower, !.claimed = (g.borrower = 0)]
<1>1. S.v \in Vaults /\ S.n \in Loan /\ S = [v |-> S.v, n |-> S.n]
  BY DEF State
<1>2. S.n.lenderClaim \in Claim /\ S.n.borrowerClaim \in Claim /\ g.lender \in Nat /\ g.borrower \in Nat
  BY <1>1 DEF Loan, Snapshot
<1>3. T = [S EXCEPT !.n = [S.n EXCEPT !.snap = g, !.lenderClaim = l, !.borrowerClaim = b]]
  <2>1. T = [S EXCEPT !.n = [S.n EXCEPT !.snap = g, !.lenderClaim.amount = g.lender,
                                        !.borrowerClaim.amount = g.borrower,
                                        !.borrowerClaim.claimed = (g.borrower = 0)]]
    BY <1>1, ZenonT(60) DEF ClaimsOfSnapshot, State
  <2>2. [S.n EXCEPT !.snap = g, !.lenderClaim.amount = g.lender, !.borrowerClaim.amount = g.borrower,
                    !.borrowerClaim.claimed = (g.borrower = 0)]
          = [S.n EXCEPT !.snap = g, !.lenderClaim = l, !.borrowerClaim = b]
    BY <1>1 DEF Loan
  <2> QED BY <2>1, <2>2
<1>4. (g.borrower = 0) \in BOOLEAN
  OBVIOUS
<1>5. l \in Claim /\ l.asset = S.n.lenderClaim.asset /\ l.amount = g.lender /\ l.claimed = S.n.lenderClaim.claimed
  BY <1>2 DEF Claim
<1>6. b \in Claim /\ b.asset = S.n.borrowerClaim.asset /\ b.amount = g.borrower
  BY <1>2, <1>4 DEF Claim
<1> HIDE DEF l, b, T
<1>7. T.v = S.v /\ T.n = [S.n EXCEPT !.snap = g, !.lenderClaim = l, !.borrowerClaim = b] /\ T = [v |-> T.v, n |-> T.n]
  BY <1>1, <1>3 DEF State
<1>8. T.n \in Loan
  BY <1>1, <1>5, <1>6, <1>7 DEF Loan
<1>9. /\ T.n.status = S.n.status /\ T.n.held = S.n.held /\ T.n.surplus = S.n.surplus /\ T.n.collateral = S.n.collateral
      /\ T.n.custody = S.n.custody /\ T.n.snap = g /\ T.n.lenderClaim = l /\ T.n.borrowerClaim = b
  BY <1>1, <1>7 DEF Loan
<1>10. T \in State
  BY <1>1, <1>7, <1>8 DEF State
<1>11. Waits(T.n)
  BY <1>5, <1>6, <1>9 DEF Waits
<1>12. Coherent(T.n)
  BY <1>5, <1>6, <1>8, <1>9 DEF Coherent, Waits, Slices3, SnapshotTotal
<1> QED BY <1>7, <1>9, <1>10, <1>11, <1>12 DEF T

(* The principal is p now, d of the collateral are left, u in custody.     *)
Legged(S, T, p, u, d) == T.n = [S.n EXCEPT !.custody = u, !.principal = p, !.collateral = d]

LEMMA MatchTypes ==
    ASSUME NEW n \in Loan, NEW m \in Matches(n)
    PROVE  /\ m.paid \in Nat /\ m.fee \in Nat /\ m.taken \in Nat /\ m.taken > 0
           /\ m.paid <= n.principal /\ m.fee < m.paid /\ m.taken <= MatchableCollateral(n)
BY FallbackLoanAssumption DEF Matches, Loan, MatchableCollateral

LEMMA LegsStand ==
    ASSUME NEW S, NEW h, NEW s, NEW c, OpenOver(S, h, s, c), NEW rl, NEW rh, NEW rb,
           StandsAt(S, h, 0, s, c, 0, 0, c, rl, rh, rb), NEW m \in Matches(S.n),
           NEW x, x = m.paid - m.fee, NEW d, d = c - m.taken, NEW p, p = S.n.principal - m.paid,
           NEW u, u = IF S.n.status = "FallbackPending" THEN S.n.custody - m.taken ELSE S.n.custody
    PROVE  /\ x \in Nat /\ Within(d, c) /\ p \in Nat /\ u \in Nat
           /\ S.n.status = "FallbackPending" => u < S.n.custody /\ u <= d
           /\ Legged(S, Legs(S, m), p, u, d)
           /\ StandsAt(Legs(S, m), h + x, 0, s, d, 0, 0, d, rl, rh, rb)
<1> DEFINE w == m.taken
           pending == S.n.status = "FallbackPending"
           U == IF pending THEN RequireSnapshotMatchesRow(S).v ELSE S.v
           g == pending => w <= S.n.custody
           V == LowerLien(Guarded(U, g), w)
           A == VaultWithdrawERC20(V, Borrower, Collateral, Outside, w)
           W == VaultDepositERC20From(A, Outside, Lender, Principal, x)
           T == Legs(S, m)
<1>1. S \in State /\ S.n \in Loan /\ S.n.collateral = c /\ c \in Nat /\ S.n.custody \in Nat /\ S.n.principal \in Nat
  <2>1. S \in State
    BY DEF StandsAt
  <2> QED BY <2>1, OpenOverTypes DEF OpenOver, Loan
<1>2. w \in Nat /\ w > 0 /\ m.paid \in Nat /\ m.fee \in Nat /\ m.paid <= S.n.principal /\ m.fee < m.paid
      /\ w <= MatchableCollateral(S.n)
  BY <1>1, MatchTypes
<1>3. pending => S.n.custody <= c
  BY <1>1 DEF OpenOver, Coherent
<1>4. w <= c /\ (pending => w <= S.n.custody)
  BY <1>1, <1>2, <1>3 DEF MatchableCollateral
<1>5. x \in Nat /\ d \in Nat /\ d <= c /\ p \in Nat /\ u \in Nat /\ (pending => u < S.n.custody /\ u <= d)
  BY <1>1, <1>2, <1>3, <1>4
<1>6. T = [S EXCEPT !.v = W, !.n.custody = IF pending THEN @ - w ELSE @, !.n.principal = @ - m.paid,
                    !.n.collateral = @ - w]
  BY DEF Legs
<1>7. Stand(U, h, 0, s, c, 0, 0, c, rl, rh, rb)
  <2>1. StandsAt(RequireSnapshotMatchesRow(S), h, 0, s, c, 0, 0, c, rl, rh, rb)
    BY RowStand
  <2> QED BY <2>1 DEF StandsAt
<1>8. g \in BOOLEAN
  OBVIOUS
<1> HIDE DEF U, g
<1>9. Stand(Guarded(U, g), h, 0, s, c, 0, 0, c, rl, rh, rb)
  BY <1>7, <1>8, GuardStand
<1>10. Stand(V, h, 0, s, c, 0, 0, c - w, rl, rh, rb)
  BY <1>2, <1>4, <1>9, LowerLienStand
<1>11. d = c - w
  OBVIOUS
<1> HIDE DEF w, V
<1>12. Stand(V, h, 0, s, c, 0, 0, d, rl, rh, rb)
  BY <1>10, <1>11
<1>13. Stand(A, h, 0, s, c - w, 0, 0, d, rl, rh, rb)
  <2>1. w \in Int
    BY <1>2
  <2> QED BY <1>12, <2>1, WithdrawBorrowerCollateralStand
<1> HIDE DEF A
<1>14. Stand(A, h, 0, s, d, 0, 0, d, rl, rh, rb)
  BY <1>11, <1>13
<1>15. Stand(W, h + x, 0, s, d, 0, 0, d, rl, rh, rb)
  <2>1. x \in Int
    BY <1>5
  <2> QED BY <1>14, <2>1, DepositLenderStand
<1>16. W \in Vaults
  BY <1>15, FitTypes DEF Stand
<1> HIDE DEF W, T
<1>17. /\ T.v = W /\ T = [v |-> T.v, n |-> T.n]
       /\ T.n = [S.n EXCEPT !.custody = IF pending THEN @ - w ELSE @, !.principal = @ - m.paid, !.collateral = @ - w]
  BY <1>1, <1>6 DEF State
<1>18. T.n = [S.n EXCEPT !.custody = u, !.principal = p, !.collateral = d]
  BY <1>1, <1>11, <1>17 DEF w, Loan
<1>19. T.n \in Loan
  BY <1>1, <1>5, <1>18 DEF Loan
<1>20. StandsAt(T, h + x, 0, s, d, 0, 0, d, rl, rh, rb)
  BY <1>15, <1>16, <1>17, <1>19 DEF StandsAt, State
<1> QED BY <1>1, <1>5, <1>18, <1>20 DEF T, Within, Legged

(* What a match leaves of a loan that is closed by it.                     *)
LEMMA MatchedValid ==
    ASSUME NEW T \in State, T.n.status = "InternalMatched", SurplusOpen(T), ~ T.n.snap.active, T.n.custody = 0,
           NEW h \in Nat, T.n.held = h, NEW s, T.n.surplus.amount = s, NEW d \in Nat, NEW x \in Nat,
           NEW l, T.n.lenderClaim = l, l.amount = x, ~ l.claimed,
           NEW b, T.n.borrowerClaim = b, b.amount = d, ~ b.claimed, d > 0 => b.asset = Collateral,
           NEW rl, NEW rh, NEW rb, NEW lp,
           \/ l.asset = Principal /\ lp = h + x
           \/ l.asset = Collateral /\ lp = h /\ x = 0,
           Stand(T.v, lp, 0, s, d, 0, 0, d, rl, rh, rb), Reserves(lp, 0, s, rl, rh, rb)
    PROVE  Valid(T)
<1>1. T.n \in Loan /\ T.n.status \in Closed /\ l.asset \in {Principal, Collateral}
  BY DEF State, Closed
<1>2. Coherent(T.n)
  BY <1>1 DEF Coherent, SurplusOpen, Open
<1>3. LaneOpen(T.n.borrowerClaim) <=> d > 0
  BY DEF LaneOpen
<1>4. \/ /\ T.n.lenderClaim.asset = Principal
         /\ Stand(T.v, T.n.held + x, 0, T.n.surplus.amount, d, 0, 0, d, rl, rh, rb)
         /\ Reserves(T.n.held + x, 0, T.n.surplus.amount, rl, rh, rb)
      \/ /\ T.n.lenderClaim.asset = Collateral
         /\ Stand(T.v, T.n.held, x, T.n.surplus.amount, d, 0, 0, d, rl, rh, rb)
         /\ Reserves(T.n.held, x, T.n.surplus.amount, rl, rh, rb)
  <2>1. CASE l.asset = Principal
    BY <2>1, Cast
  <2>2. CASE l.asset = Collateral
    BY <2>2, Cast
  <2> QED BY <1>1, <2>1, <2>2
<1>5. ~ T.n.lenderClaim.claimed /\ ~ T.n.surplus.claimed /\ T.n.lenderClaim.amount = x
      /\ T.n.borrowerClaim.amount = d /\ (d > 0 => T.n.borrowerClaim.asset = Collateral)
  BY DEF SurplusOpen
<1> QED BY <1>1, <1>2, <1>3, <1>4, <1>5, ClosedValid

LEMMA ReservesMore ==
    ASSUME NEW h \in Nat, NEW s \in Nat, NEW rl \in Nat, NEW rh \in Nat, NEW rb \in Nat,
           Reserves(h, 0, s, rl, rh, rb), NEW x \in Nat
    PROVE  Reserves(h + x, 0, s, rl + IfVpfi(Principal, x), rh, rb)
BY Cast DEF Reserves, IfVpfi

LEMMA LenderReservedStand ==
    ASSUME NEW S, NEW lp, NEW lc, NEW bp, NEW bc, NEW dp, NEW dc, NEW k, NEW rl, NEW rh, NEW rb,
           StandsAt(S, lp, lc, bp, bc, dp, dc, k, rl, rh, rb), NEW x \in Nat
    PROVE  /\ HeldMore(S, LenderHolds(S, x), x) /\ Booked(S, LenderMatched(S, x), x)
           /\ StandsAt(LenderHolds(S, x), lp, lc, bp, bc, dp, dc, k, rl + IfVpfi(Principal, x), rh, rb)
           /\ StandsAt(LenderMatched(S, x), lp, lc, bp, bc, dp, dc, k, rl + IfVpfi(Principal, x), rh, rb)
<1> DEFINE W == ReserveVpfi(S.v, "lenderProceeds", Lender, Principal, x)
           H == LenderHolds(S, x)
           M == LenderMatched(S, x)
           l == Pays(Principal, x)
<1>1. S \in State /\ S.n \in Loan /\ Stand(S.v, lp, lc, bp, bc, dp, dc, k, rl, rh, rb)
  BY DEF StandsAt, State
<1>2. Stand(W, lp, lc, bp, bc, dp, dc, k, rl + IfVpfi(Principal, x), rh, rb)
  BY <1>1, Cast, ReserveVpfiLenderStand
<1>3. H = [S EXCEPT !.v = W, !.n.held = @ + x] /\ M = [S EXCEPT !.v = W, !.n.lenderClaim = l]
  BY DEF LenderHolds, LenderMatched
<1>4. l \in Claim
  BY Cast, ClaimTypes
<1>5. W \in Vaults
  BY <1>2, FitTypes DEF Stand
<1> HIDE DEF W, H, M, l
<1>6. /\ H.v = W /\ H.n = [S.n EXCEPT !.held = @ + x] /\ H = [v |-> H.v, n |-> H.n]
      /\ M.v = W /\ M.n = [S.n EXCEPT !.lenderClaim = l] /\ M = [v |-> M.v, n |-> M.n]
  BY <1>1, <1>3 DEF State
<1>7. H.n \in Loan /\ M.n \in Loan
  <2>1. S.n.held + x \in Nat
    BY <1>1 DEF Loan
  <2> QED BY <1>1, <1>4, <1>6, <2>1 DEF Loan
<1>8. H \in State /\ M \in State
  BY <1>5, <1>6, <1>7 DEF State
<1> QED BY <1>2, <1>6, <1>8 DEF H, M, l, StandsAt, HeldMore, Booked

LEMMA InactiveTypes ==
    ASSUME NEW g \in Snapshot
    PROVE  [g EXCEPT !.active = FALSE] \in Snapshot /\ ~ [g EXCEPT !.active = FALSE].active
BY DEF Snapshot

LEMMA MatchedInFullValid ==
    ASSUME NEW S, NEW h, NEW s, NEW c, OpenOver(S, h, s, c), S \in State,
           NEW x \in Nat, NEW p \in Nat, NEW u \in Nat, NEW d \in Nat,
           NEW T, Legged(S, T, p, u, d), NEW rl, NEW rh, NEW rb,
           StandsAt(T, h + x, 0, s, d, 0, 0, d, rl, rh, rb), Reserves(h, 0, s, rl, rh, rb)
    PROVE  LET R == MatchedInFull(T, x)
           IN  Valid(R) /\ R.n.status = "InternalMatched" /\ ~ R.n.lenderClaim.claimed /\ LienAmount(R.v) = d
<1> DEFINE L == LenderMatched(T, x)
           g == [S.n.snap EXCEPT !.active = FALSE]
           l == Pays(Principal, x)
           b == IF d > 0 THEN Pays(Collateral, d) ELSE NoClaim
           W == IF d > 0 THEN L.v ELSE ReleaseLien(L.v)
           R == MatchedInFull(T, x)
           z == h + x
           r == rl + IfVpfi(Principal, x)
<1>1. h \in Nat /\ s \in Nat /\ S.n \in Loan /\ SurplusOpen(S) /\ S.n.status \in Open /\ S.n.held = h
      /\ S.n.surplus.amount = s
  BY OpenOverTypes DEF OpenOver
<1>2. T.n = [S.n EXCEPT !.custody = u, !.principal = p, !.collateral = d] /\ T.n.collateral = d /\ T.n.snap = S.n.snap
  BY <1>1 DEF Legged, Loan
<1>3. StandsAt(L, z, 0, s, d, 0, 0, d, r, rh, rb) /\ L.n = [T.n EXCEPT !.lenderClaim = l]
  BY LenderReservedStand DEF Booked
<1>4. L \in State /\ Stand(L.v, z, 0, s, d, 0, 0, d, r, rh, rb) /\ L = [v |-> L.v, n |-> L.n] /\ L.n \in Loan
  BY <1>3 DEF StandsAt, State
<1>5. R = IF T.n.collateral > 0
          THEN [[L EXCEPT !.n.status = "InternalMatched", !.n.snap.active = FALSE, !.n.custody = 0]
                   EXCEPT !.n.borrowerClaim = Pays(Collateral, T.n.collateral)]
          ELSE [[L EXCEPT !.n.status = "InternalMatched", !.n.snap.active = FALSE, !.n.custody = 0]
                   EXCEPT !.v = ReleaseLien(@), !.n.borrowerClaim = NoClaim]
  BY DEF MatchedInFull
<1> HIDE DEF L, R
<1>6. /\ R = [v |-> R.v, n |-> R.n] /\ R.v = W
      /\ R.n = [L.n EXCEPT !.status = "InternalMatched", !.snap.active = FALSE, !.custody = 0, !.borrowerClaim = b]
  BY <1>2, <1>4, <1>5 DEF State
<1>7. L.n.snap = S.n.snap /\ L.n.snap \in Snapshot
  BY <1>1, <1>2, <1>3, <1>4 DEF Loan
<1>8. R.n = [L.n EXCEPT !.status = "InternalMatched", !.snap = g, !.custody = 0, !.borrowerClaim = b]
  BY <1>4, <1>6, <1>7 DEF Loan
<1>9. g \in Snapshot /\ ~ g.active
  <2>1. S.n.snap \in Snapshot
    BY <1>1 DEF Loan
  <2> QED BY <2>1, InactiveTypes
<1>10. /\ l \in Claim /\ l.asset = Principal /\ l.amount = x /\ ~ l.claimed
       /\ b \in Claim /\ b.amount = d /\ ~ b.claimed /\ (d > 0 => b.asset = Collateral)
  BY Cast, ClaimTypes
<1> HIDE DEF g, l, b
<1>11. /\ L.n.lenderClaim = l /\ L.n.held = h /\ L.n.surplus = S.n.surplus
  BY <1>1, <1>2, <1>3 DEF Loan
<1>12. R.n \in Loan
  <2>1. "InternalMatched" \in Statuses /\ 0 \in Nat
    BY DEF Statuses
  <2> QED BY <1>4, <1>8, <1>9, <1>10, <2>1 DEF Loan
<1>13. Stand(R.v, z, 0, s, d, 0, 0, d, r, rh, rb)
  <2>1. CASE d > 0
    BY <1>4, <1>6, <2>1
  <2>2. CASE d = 0
    <3>1. R.v = ReleaseLien(L.v)
      BY <1>6, <2>2
    <3>2. Stand(ReleaseLien(L.v), z, 0, s, d, 0, 0, 0, r, rh, rb)
      BY <1>4, ReleaseLienStand
    <3> QED BY <2>2, <3>1, <3>2
  <2> QED BY <2>1, <2>2
<1>14. R \in State
  <2>1. R.v \in Vaults
    BY <1>13, FitTypes DEF Stand
  <2> QED BY <1>6, <1>12, <2>1 DEF State
<1>15. Reserves(z, 0, s, r, rh, rb)
  <2>1. rl \in Nat /\ rh \in Nat /\ rb \in Nat
    <3>1. Stand(T.v, h + x, 0, s, d, 0, 0, d, rl, rh, rb)
      BY DEF StandsAt
    <3> QED BY <3>1, StandTypes
  <2> QED BY <1>1, <2>1, ReservesMore
<1>16. z = h + x
  OBVIOUS
<1> HIDE DEF z, r, W
<1>17. /\ R.n.status = "InternalMatched" /\ R.n.snap = g /\ R.n.custody = 0 /\ R.n.lenderClaim = l
       /\ R.n.borrowerClaim = b /\ R.n.held = h /\ R.n.surplus = S.n.surplus
  BY <1>4, <1>8, <1>11 DEF Loan
<1>18. SurplusOpen(R) /\ R.n.surplus.amount = s
  BY <1>1, <1>17 DEF SurplusOpen
<1>19. Valid(R)
  BY <1>1, <1>9, <1>10, <1>13, <1>14, <1>15, <1>16, <1>17, <1>18, MatchedValid
<1>20. LienAmount(R.v) = d
  BY <1>13 DEF Stand
<1> QED BY <1>10, <1>17, <1>19, <1>20 DEF R

LEMMA MatchedOutValid ==
    ASSUME NEW S, NEW h, NEW s, NEW c, OpenOver(S, h, s, c), S \in State, S.n.status = "FallbackPending",
           NEW x \in Nat, NEW p \in Nat, NEW d \in Nat,
           NEW T, Legged(S, T, p, 0, d), NEW rl, NEW rh, NEW rb,
           StandsAt(T, h + x, 0, s, d, 0, 0, d, rl, rh, rb), Reserves(h, 0, s, rl, rh, rb)
    PROVE  LET R == MatchedOut(LenderHolds(T, x), d)
           IN  Valid(R) /\ R.n.status = "InternalMatched" /\ ~ R.n.lenderClaim.claimed /\ LienAmount(R.v) = d
<1> DEFINE H == LenderHolds(T, x)
           g == [S.n.snap EXCEPT !.active = FALSE]
           l == [S.n.lenderClaim EXCEPT !.amount = 0]
           b == Pays(Collateral, d)
           R == MatchedOut(H, d)
           z == h + x
           r == rl + IfVpfi(Principal, x)
<1>1. h \in Nat /\ s \in Nat /\ S.n \in Loan /\ SurplusOpen(S) /\ S.n.held = h /\ S.n.surplus.amount = s
      /\ Coherent(S.n)
  BY OpenOverTypes DEF OpenOver
<1>2. T.n = [S.n EXCEPT !.custody = 0, !.principal = p, !.collateral = d]
  BY DEF Legged
<1>3. StandsAt(H, z, 0, s, d, 0, 0, d, r, rh, rb) /\ H.n = [T.n EXCEPT !.held = @ + x]
  BY LenderReservedStand DEF HeldMore
<1>4. H \in State /\ Stand(H.v, z, 0, s, d, 0, 0, d, r, rh, rb) /\ H = [v |-> H.v, n |-> H.n] /\ H.n \in Loan
  BY <1>3 DEF StandsAt, State
<1>5. /\ H.n.snap = S.n.snap /\ H.n.held = z /\ H.n.surplus = S.n.surplus /\ H.n.custody = 0
      /\ H.n.lenderClaim = S.n.lenderClaim
  BY <1>1, <1>2, <1>3 DEF Loan
<1>6. R = [H EXCEPT !.n.status = "InternalMatched", !.n.snap.active = FALSE, !.n.principal = 0,
                    !.n.borrowerClaim = b, !.n.lenderClaim.amount = 0]
  BY DEF MatchedOut
<1> HIDE DEF H, R, b
<1>7. /\ R = [v |-> R.v, n |-> R.n] /\ R.v = H.v
      /\ R.n = [H.n EXCEPT !.status = "InternalMatched", !.snap.active = FALSE, !.principal = 0, !.borrowerClaim = b,
                           !.lenderClaim.amount = 0]
  BY <1>4, <1>6 DEF State
<1>8. R.n = [H.n EXCEPT !.status = "InternalMatched", !.snap = g, !.principal = 0, !.borrowerClaim = b, !.lenderClaim = l]
  BY <1>4, <1>5, <1>7 DEF Loan
<1>9. S.n.snap \in Snapshot /\ S.n.lenderClaim \in Claim
  BY <1>1 DEF Loan
<1>10. g \in Snapshot /\ ~ g.active
  BY <1>9, InactiveTypes
<1>11. b \in Claim /\ b.amount = d /\ ~ b.claimed /\ b.asset = Collateral
  BY Cast, ClaimTypes DEF b
<1>12. l \in Claim /\ l.amount = 0 /\ ~ l.claimed /\ l.asset = Collateral
  <2>1. ~ S.n.lenderClaim.claimed /\ S.n.lenderClaim.asset = Collateral
    BY <1>1 DEF Coherent, Open
  <2> QED BY <1>9, <2>1 DEF Claim
<1> HIDE DEF g, l
<1>13. R.n \in Loan
  <2>1. "InternalMatched" \in Statuses /\ 0 \in Nat
    BY DEF Statuses
  <2> QED BY <1>4, <1>8, <1>10, <1>11, <1>12, <2>1 DEF Loan
<1>14. Stand(R.v, z, 0, s, d, 0, 0, d, r, rh, rb)
  BY <1>4, <1>7
<1>15. R \in State
  <2>1. R.v \in Vaults
    BY <1>14, FitTypes DEF Stand
  <2> QED BY <1>7, <1>13, <2>1 DEF State
<1>16. /\ R.n.status = "InternalMatched" /\ R.n.snap = g /\ R.n.custody = 0 /\ R.n.lenderClaim = l
       /\ R.n.borrowerClaim = b /\ R.n.held = z /\ R.n.surplus = S.n.surplus
  BY <1>4, <1>5, <1>8 DEF Loan
<1>17. Reserves(z, 0, s, r, rh, rb)
  <2>1. rl \in Nat /\ rh \in Nat /\ rb \in Nat
    <3>1. Stand(T.v, h + x, 0, s, d, 0, 0, d, rl, rh, rb)
      BY DEF StandsAt
    <3> QED BY <3>1, StandTypes
  <2> QED BY <1>1, <2>1, ReservesMore
<1>18. SurplusOpen(R) /\ R.n.surplus.amount = s
  BY <1>1, <1>16 DEF SurplusOpen
<1>19. z \in Nat /\ 0 \in Nat
  BY <1>1
<1> HIDE DEF z, r
<1>20. Valid(R)
  BY <1>10, <1>11, <1>12, <1>14, <1>15, <1>16, <1>17, <1>18, <1>19, MatchedValid
<1>21. LienAmount(R.v) = d
  BY <1>14 DEF Stand
<1> QED BY <1>12, <1>16, <1>20, <1>21 DEF R, H

(* A match that leaves the loan open.                                      *)
LEMMA MatchedOpenValid ==
    ASSUME NEW S, NEW h, NEW s, NEW c, OpenOver(S, h, s, c), S \in State, S.n.status = "Active",
           NEW x \in Nat, NEW p \in Nat, NEW d \in Nat,
           NEW T, Legged(S, T, p, S.n.custody, d), NEW rl, NEW rh, NEW rb,
           StandsAt(T, h + x, 0, s, d, 0, 0, d, rl, rh, rb), Reserves(h, 0, s, rl, rh, rb)
    PROVE  LET R == LenderHolds(T, x)
           IN  Valid(R) /\ R.n.status = "Active" /\ ~ R.n.lenderClaim.claimed
<1> DEFINE H == LenderHolds(T, x)
           z == h + x
           r == rl + IfVpfi(Principal, x)
<1>1. h \in Nat /\ s \in Nat /\ S.n \in Loan /\ SurplusOpen(S) /\ S.n.held = h /\ S.n.surplus.amount = s
      /\ Coherent(S.n)
  BY OpenOverTypes DEF OpenOver
<1>2. T.n = [S.n EXCEPT !.custody = S.n.custody, !.principal = p, !.collateral = d]
  BY DEF Legged
<1>3. StandsAt(H, z, 0, s, d, 0, 0, d, r, rh, rb) /\ H.n = [T.n EXCEPT !.held = @ + x]
  BY LenderReservedStand DEF HeldMore
<1> HIDE DEF H
<1>4. H \in State /\ Stand(H.v, z, 0, s, d, 0, 0, d, r, rh, rb) /\ H.n \in Loan
  BY <1>3 DEF StandsAt, State
<1>5. /\ H.n.snap = S.n.snap /\ H.n.held = z /\ H.n.surplus = S.n.surplus /\ H.n.custody = S.n.custody
      /\ H.n.lenderClaim = S.n.lenderClaim /\ H.n.borrowerClaim = S.n.borrowerClaim /\ H.n.status = "Active"
      /\ H.n.collateral = d
  BY <1>1, <1>2, <1>3 DEF Loan
<1>6. Coherent(H.n) /\ ~ H.n.lenderClaim.claimed
  BY <1>1, <1>4, <1>5 DEF Coherent, Open
<1>7. Reserves(z, 0, s, r, rh, rb)
  <2>1. rl \in Nat /\ rh \in Nat /\ rb \in Nat
    <3>1. Stand(T.v, h + x, 0, s, d, 0, 0, d, rl, rh, rb)
      BY DEF StandsAt
    <3> QED BY <3>1, StandTypes
  <2> QED BY <1>1, <2>1, ReservesMore
<1> HIDE DEF z, r
<1>8. Stand(H.v, H.n.held, 0, H.n.surplus.amount, H.n.collateral, 0, 0, H.n.collateral, r, rh, rb)
      /\ Reserves(H.n.held, 0, H.n.surplus.amount, r, rh, rb)
  BY <1>1, <1>4, <1>5, <1>7
<1>9. H.n.status \in Open
  BY <1>5 DEF Open
<1>10. Valid(H)
  BY <1>4, <1>6, <1>8, <1>9, OpenValid
<1> QED BY <1>5, <1>6, <1>10 DEF H

(* A match that leaves the fallback pending.                               *)
LEMMA MatchedPendingValid ==
    ASSUME NEW S, NEW h, NEW s, NEW c, OpenOver(S, h, s, c), S \in State, S.n.status = "FallbackPending",
           NEW x \in Nat, NEW p \in Nat, NEW u \in Nat, u < S.n.custody, NEW d \in Nat, u <= d,
           NEW T, Legged(S, T, p, u, d), NEW rl, NEW rh, NEW rb,
           StandsAt(T, h + x, 0, s, d, 0, 0, d, rl, rh, rb), Reserves(h, 0, s, rl, rh, rb)
    PROVE  LET R == ClaimsOfSnapshot(LenderHolds(T, x), Rescaled(T.n.snap, u, S.n.custody))
           IN  /\ Valid(R) /\ R.n.status = "FallbackPending" /\ ~ R.n.lenderClaim.claimed
               /\ R.n.custody = u /\ R.n.collateral = d
               /\ R.n.snap.lender * S.n.custody >= S.n.snap.lender * R.n.custody
<1> DEFINE H == LenderHolds(T, x)
           o == S.n.custody
           g == Rescaled(S.n.snap, u, o)
           R == ClaimsOfSnapshot(H, g)
           z == h + x
           r == rl + IfVpfi(Principal, x)
<1>1. h \in Nat /\ s \in Nat /\ S.n \in Loan /\ SurplusOpen(S) /\ S.n.held = h /\ S.n.surplus.amount = s
      /\ Coherent(S.n)
  BY OpenOverTypes DEF OpenOver
<1>2. T.n = [S.n EXCEPT !.custody = u, !.principal = p, !.collateral = d] /\ T.n.snap = S.n.snap
  BY <1>1 DEF Legged, Loan
<1>3. StandsAt(H, z, 0, s, d, 0, 0, d, r, rh, rb) /\ H.n = [T.n EXCEPT !.held = @ + x]
  BY LenderReservedStand DEF HeldMore
<1>4. o \in Nat /\ o > 0 /\ u <= o /\ S.n.snap \in Snapshot
  BY <1>1 DEF Loan
<1>5. S.n.snap.lender + S.n.snap.treasury + S.n.snap.borrower = o /\ S.n.snap.active
  BY <1>1 DEF Coherent, SnapshotTotal
<1>6. /\ g \in Snapshot /\ g.lender + g.treasury + g.borrower = u /\ g.active = S.n.snap.active
      /\ g.lender * o >= S.n.snap.lender * u
  BY <1>4, <1>5, RescaledSlices, ZenonT(60)
<1> HIDE DEF H, g, R, o
<1>7. H \in State /\ Stand(H.v, z, 0, s, d, 0, 0, d, r, rh, rb) /\ H.n \in Loan
  BY <1>3 DEF StandsAt, State
<1>8. /\ H.n.held = z /\ H.n.surplus = S.n.surplus /\ H.n.custody = u
      /\ H.n.lenderClaim = S.n.lenderClaim /\ H.n.borrowerClaim = S.n.borrowerClaim /\ H.n.status = "FallbackPending"
      /\ H.n.collateral = d
  BY <1>1, <1>2, <1>3 DEF Loan
<1>9. Waits(H.n)
  <2>1. /\ ~ S.n.lenderClaim.claimed /\ S.n.lenderClaim.asset = Collateral /\ S.n.borrowerClaim.asset = Collateral
    BY <1>1 DEF Coherent, Open
  <2> QED BY <1>1, <1>8, <2>1 DEF Waits, SurplusOpen
<1>10. Slices3(g, H.n.custody) /\ g.active /\ H.n.custody <= H.n.collateral
  BY <1>5, <1>6, <1>8 DEF Slices3
<1>11. /\ R \in State /\ R.v = H.v /\ Coherent(R.n) /\ Waits(R.n) /\ R.n.snap = g /\ R.n.held = H.n.held
       /\ R.n.surplus = H.n.surplus /\ R.n.collateral = H.n.collateral /\ R.n.custody = H.n.custody
  BY <1>6, <1>7, <1>9, <1>10, ClaimsOfSnapshotCoherent DEF R
<1>12. Reserves(z, 0, s, r, rh, rb)
  <2>1. rl \in Nat /\ rh \in Nat /\ rb \in Nat
    <3>1. Stand(T.v, h + x, 0, s, d, 0, 0, d, rl, rh, rb)
      BY DEF StandsAt
    <3> QED BY <3>1, StandTypes
  <2> QED BY <1>1, <2>1, ReservesMore
<1> HIDE DEF z, r
<1>13. Stand(R.v, R.n.held, 0, R.n.surplus.amount, R.n.collateral, 0, 0, R.n.collateral, r, rh, rb)
       /\ Reserves(R.n.held, 0, R.n.surplus.amount, r, rh, rb)
  BY <1>1, <1>7, <1>8, <1>11, <1>12
<1>14. R.n.status = "FallbackPending" /\ R.n.status \in Open /\ ~ R.n.lenderClaim.claimed
  BY <1>11 DEF Waits, Open
<1>15. Valid(R)
  BY <1>11, <1>13, <1>14, OpenValid
<1>16. R.n.snap.lender * o >= S.n.snap.lender * R.n.custody
  BY <1>6, <1>8, <1>11
<1> QED BY <1>2, <1>8, <1>11, <1>14, <1>15, <1>16 DEF R, H, g, o

(* What is pledged beyond the custody, and: the lender's part of what is   *)
(* left of the custody is no less than it was.                             *)
Spare(n) == n.collateral - n.custody

ShareKept(n, m) == m.snap.lender * n.custody >= n.snap.lender * m.custody

(* What a match, or none, makes of an open loan.                           *)
Followed(S, T) ==
    /\ Valid(T) /\ ~ T.n.lenderClaim.claimed /\ T.n.status \in {S.n.status, "InternalMatched"}
    /\ S.n.status = "FallbackPending" => LienAmount(T.v) >= Spare(S.n)
    /\ T.n.status = "FallbackPending" =>
          Spare(T.n) = Spare(S.n) /\ T.n.custody <= S.n.custody /\ ShareKept(S.n, T.n)

LEMMA NothingFollows ==
    ASSUME NEW S, Valid(S), S.n.status \in Open, NEW T, Valid(T), T.n = S.n
    PROVE  Followed(S, T)
<1>1. /\ ~ S.n.lenderClaim.claimed /\ S.n.snap.lender \in Nat /\ S.n.custody \in Nat /\ S.n.collateral \in Nat
      /\ S.n.status \in Open
  BY DEF Valid, Coherent, Open, State, Loan, Snapshot
<1>2. LienAmount(T.v) = S.n.collateral
  BY <1>1, OpenStand DEF Stand
<1>3. ShareKept(S.n, S.n)
  <2>1. S.n.snap.lender * S.n.custody >= S.n.snap.lender * S.n.custody
    BY <1>1
  <2> QED BY <2>1 DEF ShareKept
<1> QED BY <1>1, <1>2, <1>3 DEF Followed, Spare

LEMMA MatchFollows ==
    ASSUME NEW S, Valid(S), S.n.status \in Open, NEW m \in Matches(S.n)
    PROVE  Followed(S, Match(S, m))
<1>1. PICK h, s, c, rl, rh, rb :
              /\ OpenOver(S, h, s, c) /\ StandsAt(S, h, 0, s, c, 0, 0, c, rl, rh, rb)
              /\ Reserves(h, 0, s, rl, rh, rb)
  BY Opened
<1> DEFINE T == Legs(S, m)
           x == m.paid - m.fee
           d == c - m.taken
           p == S.n.principal - m.paid
           pending == S.n.status = "FallbackPending"
           u == IF pending THEN S.n.custody - m.taken ELSE S.n.custody
           H == LenderHolds(T, x)
           R == Match(S, m)
<1>2. /\ x \in Nat /\ Within(d, c) /\ p \in Nat /\ u \in Nat
      /\ (pending => u < S.n.custody /\ u <= d)
      /\ Legged(S, T, p, u, d)
      /\ StandsAt(T, h + x, 0, s, d, 0, 0, d, rl, rh, rb)
  BY <1>1, LegsStand
<1>3. S \in State /\ S.n \in Loan /\ S.n.collateral = c /\ c \in Nat /\ S.n.custody \in Nat
  <2>1. S \in State
    BY <1>1 DEF StandsAt
  <2> QED BY <1>1, <2>1, OpenOverTypes DEF OpenOver, Loan
<1>4. d \in Nat
  BY <1>2, <1>3 DEF Within
<1>5. /\ T.n.principal = p /\ T.n.custody = u /\ T.n.status = S.n.status /\ T.n.snap = S.n.snap
  BY <1>2, <1>3 DEF Legged, Loan
<1>6. LienAmount(T.v) = d
  BY <1>2 DEF StandsAt, Stand
<1>7. R = CASE T.n.principal = 0 -> MatchedInFull(T, x)
            [] T.n.principal # 0 /\ ~ pending -> LenderHolds(T, x)
            [] T.n.principal # 0 /\ pending /\ T.n.custody = 0 /\ TopUp(T) > 0 ->
                  MatchedOut(LenderHolds(T, x), TopUp(T))
            [] OTHER -> ClaimsOfSnapshot(LenderHolds(T, x), Rescaled(T.n.snap, T.n.custody, S.n.custody))
  BY DEF Match
<1>8. ~ pending => u = S.n.custody
  OBVIOUS
<1>9. u = 0 => (pending => TopUp(T) = d)
  BY <1>4, <1>5, <1>6 DEF TopUp, Excess
<1>10. pending => d - u = Spare(S.n) /\ d >= Spare(S.n) /\ u <= S.n.custody
  <2>1. m.taken \in Nat
    BY <1>3, MatchTypes
  <2>2. pending => d - u = S.n.collateral - S.n.custody /\ u <= S.n.custody
    BY <1>2, <1>3, <2>1
  <2> QED BY <1>2, <1>3, <1>4, <2>2 DEF Spare
<1>11. pending \/ S.n.status = "Active"
  BY DEF Open
<1> HIDE DEF T, x, d, p, u, R
<1>12. CASE p = 0
  <2>1. R = MatchedInFull(T, x)
    BY <1>5, <1>7, <1>12
  <2>2. Valid(R) /\ R.n.status = "InternalMatched" /\ ~ R.n.lenderClaim.claimed /\ LienAmount(R.v) = d
    <3>1. /\ OpenOver(S, h, s, c) /\ S \in State /\ x \in Nat /\ p \in Nat /\ u \in Nat /\ d \in Nat
          /\ Legged(S, T, p, u, d) /\ StandsAt(T, h + x, 0, s, d, 0, 0, d, rl, rh, rb)
          /\ Reserves(h, 0, s, rl, rh, rb)
      BY <1>1, <1>2, <1>3, <1>4
    <3> HIDE DEF pending, H
    <3> QED BY <2>1, <3>1, MatchedInFullValid
  <2> QED BY <1>10, <2>2 DEF Followed, R
<1>13. CASE p # 0 /\ ~ pending
  <2>1. R = LenderHolds(T, x)
    BY <1>5, <1>7, <1>13
  <2>2. Legged(S, T, p, S.n.custody, d)
    BY <1>2, <1>8, <1>13
  <2>3. Valid(R) /\ R.n.status = "Active" /\ ~ R.n.lenderClaim.claimed
    BY <1>1, <1>2, <1>3, <1>4, <1>11, <1>13, <2>1, <2>2, MatchedOpenValid
  <2> QED BY <1>11, <1>13, <2>3 DEF Followed, R
<1>14. CASE p # 0 /\ pending /\ u = 0 /\ d > 0
  <2>1. R = MatchedOut(LenderHolds(T, x), d)
    BY <1>5, <1>7, <1>9, <1>14
  <2>2. Legged(S, T, p, 0, d)
    BY <1>2, <1>14
  <2>3. Valid(R) /\ R.n.status = "InternalMatched" /\ ~ R.n.lenderClaim.claimed /\ LienAmount(R.v) = d
    BY <1>1, <1>2, <1>3, <1>4, <1>14, <2>1, <2>2, MatchedOutValid
  <2> QED BY <1>10, <2>3 DEF Followed, R
<1>15. CASE p # 0 /\ pending /\ ~ (u = 0 /\ d > 0)
  <2>1. R = ClaimsOfSnapshot(LenderHolds(T, x), Rescaled(T.n.snap, u, S.n.custody))
    BY <1>5, <1>7, <1>9, <1>15
  <2>2. /\ Valid(R) /\ R.n.status = "FallbackPending" /\ ~ R.n.lenderClaim.claimed
        /\ R.n.custody = u /\ R.n.collateral = d
        /\ R.n.snap.lender * S.n.custody >= S.n.snap.lender * R.n.custody
    BY <1>1, <1>2, <1>3, <1>4, <1>15, <2>1, MatchedPendingValid, SMTT(60)
  <2>3. LienAmount(R.v) = d
    BY <2>2, OpenStand DEF Open, Stand
  <2>4. Spare(R.n) = d - u
    BY <2>2 DEF Spare
  <2> QED BY <1>10, <1>15, <2>2, <2>3, <2>4 DEF Followed, ShareKept, R
<1> QED BY <1>12, <1>13, <1>14, <1>15 DEF R

LEMMA InternalMatchesFollow ==
    ASSUME NEW S, Valid(S), S.n.status \in Open, NEW T \in InternalMatches(S)
    PROVE  Followed(S, T)
<1>1. PICK m \in Matches(S.n) : T = Match(S, m)
  BY DEF InternalMatches
<1> QED BY <1>1, MatchFollows

LEMMA AutoDispatchFollows ==
    ASSUME NEW S, Valid(S), S.n.status \in Open, NEW T \in AutoDispatch(S)
    PROVE  Followed(S, T)
<1>1. CASE T \in InternalMatches(S)
  BY <1>1, InternalMatchesFollow
<1>2. CASE T = S
  BY <1>2, NothingFollows
<1> QED BY <1>1, <1>2 DEF AutoDispatch

-----------------------------------------------------------------------------
(* What becomes of the collateral in custody.                              *)

LEMMA TriedValid ==
    ASSUME NEW S, Valid(S), S.n.status = "FallbackPending"
    PROVE  LET T == Tried(S)
           IN  /\ Valid(T) /\ T.n.status = "FallbackPending" /\ T.n.custody = S.n.custody
               /\ T.n.collateral = S.n.collateral /\ T.n.snap.lender = S.n.snap.lender
<1>1. PICK h, s, c, rl, rh, rb :
              /\ OpenOver(S, h, s, c) /\ StandsAt(S, h, 0, s, c, 0, 0, c, rl, rh, rb)
              /\ Reserves(h, 0, s, rl, rh, rb)
  BY Opened DEF Open
<1> DEFINE T == Tried(S)
           g == [S.n.snap EXCEPT !.retried = TRUE]
<1>2. S \in State /\ S.n \in Loan /\ Coherent(S.n) /\ Stand(S.v, h, 0, s, c, 0, 0, c, rl, rh, rb)
      /\ S.n.held = h /\ S.n.surplus.amount = s /\ S.n.collateral = c
  BY <1>1 DEF StandsAt, State, OpenOver
<1>3. T = [S EXCEPT !.n.snap.retried = TRUE]
  BY DEF Tried
<1> HIDE DEF T
<1>4. T.v = S.v /\ T.n = [S.n EXCEPT !.snap.retried = TRUE] /\ T = [v |-> T.v, n |-> T.n]
  BY <1>2, <1>3 DEF State
<1>5. T.n = [S.n EXCEPT !.snap = g]
  BY <1>2, <1>4 DEF Loan
<1>6. /\ g \in Snapshot /\ g.active = S.n.snap.active /\ g.lender = S.n.snap.lender
      /\ g.treasury = S.n.snap.treasury /\ g.borrower = S.n.snap.borrower
  <2>1. S.n.snap \in Snapshot
    BY <1>2 DEF Loan
  <2> QED BY <2>1 DEF Snapshot
<1> HIDE DEF g
<1>7. T.n \in Loan /\ T \in State
  <2>1. T.n \in Loan
    BY <1>2, <1>5, <1>6 DEF Loan
  <2> QED BY <1>2, <1>4, <2>1 DEF State
<1>8. /\ T.n.status = S.n.status /\ T.n.held = h /\ T.n.surplus = S.n.surplus /\ T.n.collateral = c
      /\ T.n.snap = g /\ T.n.custody = S.n.custody /\ T.n.lenderClaim = S.n.lenderClaim
      /\ T.n.borrowerClaim = S.n.borrowerClaim /\ T.n.surplus.amount = s
  BY <1>2, <1>5 DEF Loan
<1>9. Coherent(T.n)
  BY <1>2, <1>6, <1>7, <1>8 DEF Coherent, SnapshotTotal
<1>10. Stand(T.v, T.n.held, 0, T.n.surplus.amount, T.n.collateral, 0, 0, T.n.collateral, rl, rh, rb)
       /\ Reserves(T.n.held, 0, T.n.surplus.amount, rl, rh, rb)
  BY <1>1, <1>2, <1>4, <1>8
<1>11. T.n.status \in Open
  BY <1>8 DEF Open
<1>12. Valid(T)
  BY <1>7, <1>9, <1>10, <1>11, OpenValid
<1> QED BY <1>2, <1>6, <1>8, <1>12 DEF T

(* All that was in custody is in the Diamond, p of it.                     *)
Emptied(S, T) == T.n = [S.n EXCEPT !.custody = 0]

LEMMA CustodyTypes ==
    ASSUME NEW S \in State, NEW h, NEW s, NEW c, OpenOver(S, h, s, c), S.n.status = "FallbackPending"
    PROVE  /\ S.n.custody \in Nat /\ S.n.custody <= c /\ c \in Nat /\ S.n.snap.active
           /\ S.n.snap \in Snapshot /\ Slices3(S.n.snap, S.n.custody) /\ Waits(S.n)
           /\ S.n.borrowerClaim.amount = S.n.snap.borrower
<1>1. S.n \in Loan /\ c \in Nat /\ Coherent(S.n) /\ S.n.collateral = c
  BY OpenOverTypes DEF OpenOver
<1> QED BY <1>1 DEF Loan, Coherent, Open, SnapshotTotal, Slices3, Waits

LEMMA PulledStand ==
    ASSUME NEW S, NEW h, NEW s, NEW c, OpenOver(S, h, s, c), S.n.status = "FallbackPending",
           NEW rl, NEW rh, NEW rb, StandsAt(S, h, 0, s, c, 0, 0, c, rl, rh, rb),
           NEW e, e = c - S.n.custody, NEW p \in Nat
    PROVE  /\ e \in Nat /\ Emptied(S, PulledForRetry(S, p))
           /\ StandsAt(PulledForRetry(S, p), h, 0, s, e, 0, p, e, rl, rh, rb)
<1> DEFINE R == RequireSnapshotMatchesRow(S)
           o == S.n.custody
           L == LowerLien(R.v, o)
           W == PullToDiamond(L, Collateral, o, p)
           T == PulledForRetry(S, p)
<1>1. S \in State /\ S.n \in Loan
  BY DEF StandsAt, State
<1>2. o \in Nat /\ o <= c /\ c \in Nat
  BY <1>1, CustodyTypes
<1>3. StandsAt(R, h, 0, s, c, 0, 0, c, rl, rh, rb) /\ R.n = S.n
  BY RowStand DEF SameLoan
<1>4. T = [R EXCEPT !.v = W, !.n.custody = 0]
  BY DEF PulledForRetry, RequireVaultHeld
<1>5. R \in State /\ Stand(R.v, h, 0, s, c, 0, 0, c, rl, rh, rb)
  BY <1>3 DEF StandsAt
<1>6. e = c - o
  OBVIOUS
<1> HIDE DEF R, o, T
<1>7. Stand(L, h, 0, s, c, 0, 0, c - o, rl, rh, rb)
  BY <1>2, <1>5, LowerLienStand
<1> HIDE DEF L
<1>8. Stand(L, h, 0, s, c, 0, 0, e, rl, rh, rb)
  BY <1>6, <1>7
<1>9. Stand(W, h, 0, s, c - o, 0, 0 + p, e, rl, rh, rb)
  <2>1. o \in Int /\ p \in Int
    BY <1>2
  <2> QED BY <1>8, <2>1, PullStand
<1> HIDE DEF W
<1>10. Stand(W, h, 0, s, e, 0, p, e, rl, rh, rb) /\ e \in Nat
  BY <1>2, <1>6, <1>9
<1>11. W \in Vaults
  BY <1>10, FitTypes DEF Stand
<1>12. T.v = W /\ T.n = [S.n EXCEPT !.custody = 0] /\ T = [v |-> T.v, n |-> T.n]
  BY <1>3, <1>4, <1>5 DEF State
<1>13. T.n \in Loan
  <2>1. 0 \in Nat
    OBVIOUS
  <2> QED BY <1>1, <1>12, <2>1 DEF Loan
<1> QED BY <1>10, <1>11, <1>12, <1>13 DEF T, Emptied, StandsAt, State

LEMMA RowValid ==
    ASSUME NEW S, Valid(S), S.n.status \in Open
    PROVE  LET T == RequireSnapshotMatchesRow(S) IN Valid(T) /\ T.n = S.n
<1>1. PICK h, s, c, rl, rh, rb :
              /\ OpenOver(S, h, s, c) /\ StandsAt(S, h, 0, s, c, 0, 0, c, rl, rh, rb)
              /\ Reserves(h, 0, s, rl, rh, rb)
  BY Opened
<1> DEFINE T == RequireSnapshotMatchesRow(S)
<1>2. T.n = S.n /\ StandsAt(T, h, 0, s, c, 0, 0, c, rl, rh, rb)
  BY <1>1, RowStand DEF SameLoan
<1> HIDE DEF T
<1>3. T \in State /\ Coherent(T.n) /\ T.n.status \in Open
  BY <1>1, <1>2 DEF StandsAt, OpenOver
<1>4. Stand(T.v, T.n.held, 0, T.n.surplus.amount, T.n.collateral, 0, 0, T.n.collateral, rl, rh, rb)
      /\ Reserves(T.n.held, 0, T.n.surplus.amount, rl, rh, rb)
  BY <1>1, <1>2 DEF StandsAt, OpenOver
<1>5. Valid(T)
  BY <1>3, <1>4, OpenValid
<1> QED BY <1>2, <1>5 DEF T

(* A shortfall of x: the lender's slice gives way last.                    *)
ShortSlices(g, x) ==
    LET b == AtMost(x, g.borrower)
        t == AtMost(x - b, g.treasury)
    IN  [g EXCEPT !.borrower = @ - b, !.treasury = @ - t, !.lender = @ - (x - b - t)]

LEMMA ShortSlicesFit ==
    ASSUME NEW g \in Snapshot, NEW o \in Nat, Slices3(g, o), NEW x \in Nat, NEW r \in Nat, r = o - x
    PROVE  /\ ShortSlices(g, x) \in Snapshot /\ Slices3(ShortSlices(g, x), r)
           /\ ShortSlices(g, x).active = g.active /\ ShortSlices(g, x).lender * o >= g.lender * r
<1> DEFINE b == AtMost(x, g.borrower)
           t == AtMost(x - b, g.treasury)
           p == g.borrower - b
           q == g.treasury - t
           l == g.lender - (x - b - t)
<1>1. /\ g.lender \in Nat /\ g.treasury \in Nat /\ g.borrower \in Nat
      /\ g.lender + g.treasury + g.borrower = o
  BY DEF Snapshot, Slices3
<1>2. b \in Nat /\ b <= g.borrower /\ b <= x /\ (b = x \/ b = g.borrower)
  BY <1>1 DEF AtMost
<1> HIDE DEF b
<1>3. t \in Nat /\ t <= g.treasury /\ t <= x - b /\ (t = x - b \/ t = g.treasury)
  BY <1>1, <1>2 DEF AtMost
<1> HIDE DEF t
<1>4. p \in Nat /\ q \in Nat /\ l \in Nat /\ l + q + p = r
  BY <1>1, <1>2, <1>3
<1>5. l = g.lender \/ l = r
  BY <1>1, <1>2, <1>3
<1>6. r <= o /\ g.lender <= o
  BY <1>1
<1> HIDE DEF p, q, l
<1>7. l * o >= g.lender * r
  <2>1. CASE l = g.lender
    BY <1>1, <1>6, <2>1
  <2>2. CASE l = r
    <3>1. g.lender * r <= o * r
      BY <1>1, <1>6, ProductBound
    <3> QED BY <2>2, <3>1
  <2> QED BY <1>5, <2>1, <2>2
<1>8. ShortSlices(g, x) = [g EXCEPT !.borrower = p, !.treasury = q, !.lender = l]
  BY DEF ShortSlices, b, t, p, q, l
<1>9. /\ ShortSlices(g, x) \in Snapshot /\ ShortSlices(g, x).lender = l /\ ShortSlices(g, x).treasury = q
      /\ ShortSlices(g, x).borrower = p /\ ShortSlices(g, x).active = g.active
  BY <1>4, <1>8 DEF Snapshot
<1> QED BY <1>4, <1>7, <1>9 DEF Slices3

(* What is back in custody is as much as ever, or r of it.                 *)
LEMMA RestoredValid ==
    ASSUME NEW S, Valid(S), S.n.status = "FallbackPending", NEW p \in Nat, NEW r \in Nat, r <= S.n.custody,
           NEW T, T = CustodyIntoVault(PulledForRetry(S, p), p, r),
           NEW R, R = IF r < S.n.custody THEN AbsorbShortfall(T, S.n.custody - r) ELSE T
    PROVE  /\ Valid(R) /\ Waits(R.n) /\ R.n.custody = r
           /\ R.n.collateral = S.n.collateral - (S.n.custody - r)
           /\ R.n.snap.lender * S.n.custody >= S.n.snap.lender * r
<1>1. PICK h, s, c, rl, rh, rb :
              /\ OpenOver(S, h, s, c) /\ StandsAt(S, h, 0, s, c, 0, 0, c, rl, rh, rb)
              /\ Reserves(h, 0, s, rl, rh, rb)
  BY Opened DEF Open
<1> DEFINE o == S.n.custody
           P == PulledForRetry(S, p)
           e == c - o
           x == o - r
           k == e + r
           g == S.n.snap
<1>2. /\ S \in State /\ S.n \in Loan /\ Coherent(S.n) /\ S.n.held = h /\ S.n.surplus.amount = s /\ S.n.collateral = c
      /\ SurplusOpen(S) /\ h \in Nat /\ s \in Nat
  <2>1. S \in State
    BY <1>1 DEF StandsAt
  <2> QED BY <1>1, <2>1, OpenOverTypes DEF OpenOver
<1>3. /\ o \in Nat /\ o <= c /\ c \in Nat /\ g.active /\ g \in Snapshot /\ Slices3(g, o) /\ Waits(S.n)
  BY <1>1, <1>2, CustodyTypes
<1>4. e \in Nat /\ Emptied(S, P) /\ StandsAt(P, h, 0, s, e, 0, p, e, rl, rh, rb)
  BY <1>1, PulledStand
<1>5. x \in Nat /\ k \in Nat /\ r = o - x /\ k = c - x
  BY <1>3, <1>4
<1>6. T = CustodyIntoVault(P, p, r)
  OBVIOUS
<1> HIDE DEF P, e
<1>13. T.n = [P.n EXCEPT !.custody = @ + r] /\ StandsAt(T, h, 0, s, e + r, 0, p - p, e + r, rl, rh, rb)
  BY <1>4, <1>6, CustodyStand
<1>7. p - p = 0
  OBVIOUS
<1> HIDE DEF k
<1>8. StandsAt(T, h, 0, s, k, 0, 0, k, rl, rh, rb)
  BY <1>7, <1>13 DEF k
<1>9. T.n = [S.n EXCEPT !.custody = r]
  <2>1. P.n = [S.n EXCEPT !.custody = 0] /\ P.n.custody = 0 /\ 0 + r = r
    BY <1>2, <1>4 DEF Emptied, Loan
  <2>2. T.n = [P.n EXCEPT !.custody = r]
    BY <1>13, <2>1
  <2> QED BY <1>2, <2>1, <2>2 DEF Loan
<1>10. T \in State /\ Stand(T.v, h, 0, s, k, 0, 0, k, rl, rh, rb) /\ T.n \in Loan
  BY <1>8 DEF StandsAt, State
<1>11. CASE r = o
  <2>1. R = T /\ T.n = S.n /\ k = c
    BY <1>2, <1>5, <1>9, <1>11 DEF Loan
  <2>2. Stand(T.v, T.n.held, 0, T.n.surplus.amount, T.n.collateral, 0, 0, T.n.collateral, rl, rh, rb)
        /\ Reserves(T.n.held, 0, T.n.surplus.amount, rl, rh, rb)
    BY <1>1, <1>2, <1>10, <2>1
  <2>3. T.n.status \in Open
    BY <2>1 DEF Open
  <2>4. Valid(R)
    BY <1>2, <1>10, <2>1, <2>2, <2>3, OpenValid
  <2>5. g.lender \in Nat /\ g.lender * o >= g.lender * r
    <3>1. g.lender \in Nat
      BY <1>3 DEF Snapshot
    <3> QED BY <1>3, <1>11, <3>1
  <2> QED BY <1>2, <1>3, <1>5, <1>11, <2>1, <2>4, <2>5
<1>12. CASE r < o
  <2> DEFINE U == [T EXCEPT !.n.collateral = Excess(@, x)]
             f == ShortSlices(g, x)
  <2>1. R = ClaimsOfSnapshot(U, f)
    <3>1. T.n.snap = g
      BY <1>2, <1>9 DEF Loan
    <3>2. R = AbsorbShortfall(T, x)
      BY <1>12
    <3> HIDE DEF x, g
    <3> QED BY <3>1, <3>2 DEF AbsorbShortfall, ShortSlices
  <2>2. U = [T EXCEPT !.n.collateral = Excess(@, x)]
    OBVIOUS
  <2> HIDE DEF U
  <2>3. U.v = T.v /\ U.n = [T.n EXCEPT !.collateral = Excess(@, x)] /\ U = [v |-> U.v, n |-> U.n]
    BY <1>10, <2>2 DEF State
  <2>4. T.n.collateral = c /\ Excess(c, x) = k
    BY <1>2, <1>3, <1>5, <1>9 DEF Loan, Excess
  <2>5. U.n = [T.n EXCEPT !.collateral = k]
    BY <2>3, <2>4
  <2>6. U.n \in Loan /\ U \in State
    <3>1. U.n \in Loan
      BY <1>5, <1>10, <2>5 DEF Loan
    <3> QED BY <1>10, <2>3, <3>1 DEF State
  <2>7. /\ U.n.status = S.n.status /\ U.n.held = h /\ U.n.surplus = S.n.surplus /\ U.n.collateral = k /\ U.n.custody = r
        /\ U.n.lenderClaim = S.n.lenderClaim /\ U.n.borrowerClaim = S.n.borrowerClaim
    BY <1>2, <1>9, <1>10, <2>5 DEF Loan
  <2>8. Waits(U.n)
    BY <1>3, <2>7 DEF Waits
  <2>9. f \in Snapshot /\ Slices3(f, r) /\ f.active = g.active /\ f.lender * o >= g.lender * r
    BY <1>3, <1>5, ShortSlicesFit
  <2> HIDE DEF f
  <2>10. Slices3(f, U.n.custody) /\ U.n.custody <= U.n.collateral /\ f.active
    <3>1. f.active /\ Slices3(f, U.n.custody)
      BY <1>3, <2>7, <2>9
    <3>2. r <= k
      BY <1>3, <1>5
    <3> QED BY <2>7, <3>1, <3>2
  <2>11. /\ R \in State /\ R.v = U.v /\ Coherent(R.n) /\ Waits(R.n) /\ R.n.snap = f
         /\ R.n.held = U.n.held /\ R.n.surplus = U.n.surplus /\ R.n.collateral = U.n.collateral
         /\ R.n.custody = U.n.custody
    BY <1>3, <2>1, <2>6, <2>7, <2>8, <2>9, <2>10, ClaimsOfSnapshotCoherent
  <2>12. Stand(R.v, R.n.held, 0, R.n.surplus.amount, R.n.collateral, 0, 0, R.n.collateral, rl, rh, rb)
         /\ Reserves(R.n.held, 0, R.n.surplus.amount, rl, rh, rb)
    BY <1>1, <1>2, <1>10, <2>3, <2>7, <2>11
  <2>13. R.n.status \in Open
    BY <2>11 DEF Waits, Open
  <2>14. Valid(R)
    BY <2>11, <2>12, <2>13, OpenValid
  <2>15. R.n.collateral = c - x
    BY <1>5, <2>7, <2>11
  <2> QED BY <1>2, <2>7, <2>9, <2>11, <2>14, <2>15
<1> QED BY <1>3, <1>11, <1>12

LEMMA RetryFailedFollows ==
    ASSUME NEW S, Valid(S), S.n.status = "FallbackPending", NEW T \in RetryFailed(S)
    PROVE  Followed(S, T) /\ T.n.status = "FallbackPending"
<1> DEFINE o == S.n.custody
<1>1. S.n \in Loan /\ S.n.status \in Open /\ o \in Nat /\ S.n.collateral \in Nat /\ S.n.snap.lender \in Nat
      /\ ~ S.n.lenderClaim.claimed
  BY DEF Valid, State, Loan, Coherent, Open, Snapshot
<1>2. CASE o = 0
  <2>1. T = RequireSnapshotMatchesRow(S)
    BY <1>2 DEF RetryFailed, RequireVaultHeld
  <2>2. Valid(T) /\ T.n = S.n
    BY <1>1, <2>1, RowValid
  <2> QED BY <1>1, <2>2, NothingFollows
<1>3. CASE o # 0
  <2>1. PICK p \in Delivered(Collateral, o) : \E r \in Delivered(Collateral, p) :
               LET C == CustodyIntoVault(PulledForRetry(S, p), p, r)
               IN  T = RequireSnapshotMatchesRow(IF r < o THEN AbsorbShortfall(C, o - r) ELSE C)
    BY <1>3 DEF RetryFailed
  <2>2. PICK r \in Delivered(Collateral, p) :
               LET C == CustodyIntoVault(PulledForRetry(S, p), p, r)
               IN  T = RequireSnapshotMatchesRow(IF r < o THEN AbsorbShortfall(C, o - r) ELSE C)
    BY <2>1
  <2>3. p \in Nat /\ p <= o
    BY <1>1, Cast, DeliveredTypes
  <2>4. r \in Nat /\ r <= p
    BY <2>3, Cast, DeliveredTypes
  <2> DEFINE C == CustodyIntoVault(PulledForRetry(S, p), p, r)
             R == IF r < o THEN AbsorbShortfall(C, o - r) ELSE C
  <2>5. /\ Valid(R) /\ Waits(R.n) /\ R.n.custody = r /\ R.n.collateral = S.n.collateral - (o - r)
        /\ R.n.snap.lender * o >= S.n.snap.lender * r
    <3>1. r <= o
      BY <1>1, <2>3, <2>4
    <3> QED BY <2>3, <2>4, <3>1, RestoredValid
  <2>6. T = RequireSnapshotMatchesRow(R)
    BY <2>2
  <2> HIDE DEF R
  <2>7. R.n.status \in Open
    BY <2>5 DEF Waits, Open
  <2>8. Valid(T) /\ T.n = R.n
    BY <2>5, <2>6, <2>7, RowValid
  <2>9. Spare(T.n) = Spare(S.n) /\ T.n.custody <= S.n.custody /\ S.n.collateral - (o - r) >= Spare(S.n)
    BY <1>1, <2>3, <2>4, <2>5, <2>8 DEF Spare
  <2>10. LienAmount(T.v) = T.n.collateral
    BY <2>7, <2>8, OpenStand DEF Stand
  <2> QED BY <2>5, <2>8, <2>9, <2>10 DEF Followed, ShareKept, Waits
<1> QED BY <1>2, <1>3

-----------------------------------------------------------------------------
(* A loan whose fallback is resolved defaults: what is left under the lien *)
(* and z of the proceeds of a retry are the borrower's.                    *)

LEMMA BorrowerOwed ==
    ASSUME NEW S \in State, S.n.status \in Closed, SurplusOpen(S),
           NEW s, S.n.surplus.amount = s, NEW e \in Nat, LienAmount(S.v) = e, NEW z \in Nat,
           NEW b, S.n.borrowerClaim = b, b \in Claim,
           \/ b.asset = Collateral /\ z = 0 /\ b.amount = e /\ ~ (b.claimed /\ e > 0)
           \/ b = PaysIfAny(Principal, z) /\ (e > 0 => z > 0)
    PROVE  OwedToBorrower(S, Principal) = s + z /\ OwedToBorrower(S, Collateral) = e
<1>1. s \in Nat /\ S.n.status \notin Open /\ S.n.surplus.claimed \in BOOLEAN
  BY DEF State, Loan, Claim, Closed, Open
<1>2. S.n.status \notin {"Active", "FallbackPending"}
  BY <1>1 DEF Open
<1>3. /\ (IF LaneOpen(S.n.surplus) /\ S.n.surplus.asset = Principal THEN S.n.surplus.amount ELSE 0) = s
      /\ (IF LaneOpen(S.n.surplus) /\ S.n.surplus.asset = Collateral THEN S.n.surplus.amount ELSE 0) = 0
  BY <1>1, Cast DEF LaneOpen, SurplusOpen
<1>4. CASE b.asset = Collateral /\ z = 0 /\ b.amount = e /\ ~ (b.claimed /\ e > 0)
  <2>1. /\ (IF S.n.status \in Closed /\ LaneOpen(b) /\ b.asset = Principal THEN b.amount ELSE 0) = 0
        /\ (IF S.n.status \in Closed /\ LaneOpen(b) /\ b.asset = Collateral THEN b.amount ELSE 0) = e
    BY <1>4, Cast DEF LaneOpen
  <2>2. OwedToBorrower(S, Principal) = s + z
    BY <1>1, <1>2, <1>3, <1>4, <2>1, Cast DEF OwedToBorrower
  <2>3. OwedToBorrower(S, Collateral) = e
    BY <1>1, <1>2, <1>3, <1>4, <2>1, Cast DEF OwedToBorrower
  <2> QED BY <2>2, <2>3
<1>5. CASE b = PaysIfAny(Principal, z) /\ (e > 0 => z > 0)
  <2>1. b.asset = Principal /\ b.amount = z /\ (LaneOpen(b) <=> z > 0)
    BY <1>5, Cast, ClaimTypes
  <2>2. /\ (IF S.n.status \in Closed /\ LaneOpen(b) /\ b.asset = Principal THEN b.amount ELSE 0) = z
        /\ (IF S.n.status \in Closed /\ LaneOpen(b) /\ b.asset = Collateral THEN b.amount ELSE 0) = 0
    BY <2>1, Cast
  <2>3. (IF BorrowerSideOpen(S.n) /\ b.asset # Collateral THEN LienAmount(S.v) ELSE 0) = e
    BY <1>5, <2>1, Cast DEF BorrowerSideOpen
  <2>4. OwedToBorrower(S, Principal) = s + z
    BY <1>1, <1>2, <1>3, <2>2, Cast DEF OwedToBorrower
  <2>5. OwedToBorrower(S, Collateral) = e
    BY <1>1, <1>2, <1>3, <2>2, <2>3, Cast DEF OwedToBorrower
  <2> QED BY <2>4, <2>5
<1> QED BY <1>4, <1>5

LEMMA DefaultedOwes ==
    ASSUME NEW R \in State, R.n.status = "FallbackPending", ~ R.n.snap.active, R.n.custody = 0, SurplusOpen(R),
           R.n.lenderClaim.amount > 0 => R.n.lenderClaim.asset \in {Principal, Collateral},
           NEW s, R.n.surplus.amount = s, NEW e \in Nat, LienAmount(R.v) = e, NEW z \in Nat,
           \/ R.n.borrowerClaim.asset = Collateral /\ z = 0 /\ (e = 0 => R.n.borrowerClaim.amount = 0)
           \/ R.n.borrowerClaim = PaysIfAny(Principal, z)
    PROVE  LET D == FallbackDefaulted(R)
           IN  /\ D \in State /\ D.v = R.v /\ Coherent(D.n) /\ D.n.status = "Defaulted"
               /\ D.n.lenderClaim = R.n.lenderClaim /\ D.n.held = R.n.held
               /\ OwedToBorrower(D, Principal) = s + z /\ OwedToBorrower(D, Collateral) = e
<1> DEFINE T == [R EXCEPT !.n.status = "Defaulted"]
           D == FallbackDefaulted(R)
           c == R.n.borrowerClaim
           all == e > 0 /\ (c.amount = 0 \/ c.asset = Collateral)
           b == IF all THEN Pays(Collateral, e) ELSE c
<1>1. R.n \in Loan /\ c \in Claim /\ R.n.lenderClaim \in Claim
  BY DEF State, Loan
<1>2. T.v = R.v /\ T.n = [R.n EXCEPT !.status = "Defaulted"] /\ T = [v |-> T.v, n |-> T.n]
  BY DEF State
<1>3. D = IF T.n.status = "Defaulted" /\ LienAmount(T.v) > 0 /\ (T.n.borrowerClaim.amount = 0 \/ T.n.borrowerClaim.asset = Collateral)
          THEN [T EXCEPT !.n.borrowerClaim = Pays(Collateral, LienAmount(T.v))] ELSE T
  BY DEF FallbackDefaulted
<1> HIDE DEF T, D
<1>4. T.n.status = "Defaulted" /\ T.n.borrowerClaim = c /\ LienAmount(T.v) = e
  BY <1>1, <1>2 DEF Loan
<1>5. D.v = R.v /\ D.n = [T.n EXCEPT !.borrowerClaim = b] /\ D = [v |-> D.v, n |-> D.n]
  <2>1. CASE all
    <3>1. D = [T EXCEPT !.n.borrowerClaim = b]
      BY <1>3, <1>4, <2>1
    <3> QED BY <1>2, <3>1
  <2>2. CASE ~ all
    <3>1. D = T /\ b = c
      BY <1>3, <1>4, <2>2
    <3>2. T.n = [T.n EXCEPT !.borrowerClaim = c]
      BY <1>1, <1>2 DEF Loan
    <3> QED BY <1>2, <3>1, <3>2
  <2> QED BY <2>1, <2>2
<1>6. /\ b \in Claim
      /\ \/ b.asset = Collateral /\ z = 0 /\ b.amount = e /\ ~ (b.claimed /\ e > 0)
         \/ b = PaysIfAny(Principal, z) /\ (e > 0 => z > 0)
  <2>1. /\ Pays(Collateral, e) \in Claim /\ Pays(Collateral, e).asset = Collateral
        /\ Pays(Collateral, e).amount = e /\ ~ Pays(Collateral, e).claimed
    BY Cast, ClaimTypes
  <2>2. PaysIfAny(Principal, z).asset = Principal /\ PaysIfAny(Principal, z).amount = z
    BY Cast, ClaimTypes
  <2>3. CASE all
    BY <2>1, <2>2, <2>3, Cast
  <2>4. CASE ~ all
    <3>1. b = c /\ c.amount \in Nat
      BY <1>1, <2>4 DEF Claim
    <3> QED BY <1>1, <2>2, <2>4, <3>1, Cast
  <2> QED BY <2>3, <2>4
<1> HIDE DEF b, c
<1>7. D.n = [R.n EXCEPT !.status = "Defaulted", !.borrowerClaim = b]
  BY <1>1, <1>2, <1>5 DEF Loan
<1>8. D.n \in Loan
  <2>1. "Defaulted" \in Statuses
    BY DEF Statuses
  <2> QED BY <1>1, <1>6, <1>7, <2>1 DEF Loan
<1>9. D \in State
  BY <1>5, <1>8 DEF State
<1>10. /\ D.n.status = "Defaulted" /\ D.n.borrowerClaim = b /\ D.n.lenderClaim = R.n.lenderClaim
       /\ D.n.held = R.n.held /\ D.n.surplus = R.n.surplus /\ D.n.snap = R.n.snap /\ D.n.custody = 0
  BY <1>1, <1>7 DEF Loan
<1>11. b.amount > 0 => b.asset \in {Principal, Collateral}
  BY <1>6, Cast, ClaimTypes
<1>12. SurplusOpen(D)
  BY <1>10 DEF SurplusOpen
<1>13. Coherent(D.n)
  BY <1>8, <1>10, <1>11, <1>12 DEF Coherent, Open, SurplusOpen
<1>14. D.n.status \in Closed /\ LienAmount(D.v) = e /\ D.n.surplus.amount = s
  BY <1>5, <1>10 DEF Closed
<1>15. OwedToBorrower(D, Principal) = s + z /\ OwedToBorrower(D, Collateral) = e
  BY <1>6, <1>9, <1>10, <1>12, <1>14, BorrowerOwed
<1> QED BY <1>5, <1>9, <1>10, <1>13, <1>15 DEF D

-----------------------------------------------------------------------------
(* The claims.                                                             *)

(* x, when a is b.                                                         *)
Of(a, b, x) == IF a = b THEN x ELSE 0

LEMMA PaidOutStand ==
    ASSUME NEW V, NEW lp, NEW lc, NEW bp, NEW bc, NEW dp, NEW dc, NEW k, NEW rl, NEW rh, NEW rb,
           Stand(V, lp, lc, bp, bc, dp, dc, k, rl, rh, rb), NEW a, NEW x \in Nat,
           x > 0 => a \in {Principal, Collateral}
    PROVE  /\ Stand(PaidOut(V, Lender, a, x), lp - Of(a, Principal, x), lc - Of(a, Collateral, x),
                    bp, bc, dp, dc, k, rl, rh, rb)
           /\ Stand(PaidOut(V, Borrower, a, x), lp, lc, bp - Of(a, Principal, x), bc - Of(a, Collateral, x),
                    dp, dc, k, rl, rh, rb)
<1>1. {lp, lc, bp, bc} \subseteq Int
  BY StandTypes
<1>2. CASE x = 0
  <2>1. PaidOut(V, Lender, a, x) = V /\ PaidOut(V, Borrower, a, x) = V
    BY <1>2 DEF PaidOut
  <2>2. /\ lp - Of(a, Principal, x) = lp /\ lc - Of(a, Collateral, x) = lc
        /\ bp - Of(a, Principal, x) = bp /\ bc - Of(a, Collateral, x) = bc
    BY <1>1, <1>2 DEF Of
  <2> QED BY <2>1, <2>2
<1>3. CASE x > 0 /\ a = Principal
  <2>1. /\ PaidOut(V, Lender, a, x) = VaultWithdrawERC20(V, Lender, Principal, Outside, x)
        /\ PaidOut(V, Borrower, a, x) = VaultWithdrawERC20(V, Borrower, Principal, Outside, x)
    BY <1>3 DEF PaidOut
  <2>2. /\ lp - Of(a, Principal, x) = lp - x /\ lc - Of(a, Collateral, x) = lc
        /\ bp - Of(a, Principal, x) = bp - x /\ bc - Of(a, Collateral, x) = bc
    BY <1>1, <1>3, Cast DEF Of
  <2>3. /\ Stand(PaidOut(V, Lender, a, x), lp - x, lc, bp, bc, dp, dc, k, rl, rh, rb)
        /\ Stand(PaidOut(V, Borrower, a, x), lp, lc, bp - x, bc, dp, dc, k, rl, rh, rb)
    BY <2>1, WithdrawLenderPrincipalStand, WithdrawBorrowerPrincipalStand
  <2> QED BY <2>2, <2>3
<1>4. CASE x > 0 /\ a = Collateral
  <2>1. /\ PaidOut(V, Lender, a, x) = VaultWithdrawERC20(V, Lender, Collateral, Outside, x)
        /\ PaidOut(V, Borrower, a, x) = VaultWithdrawERC20(V, Borrower, Collateral, Outside, x)
    BY <1>4 DEF PaidOut
  <2>2. /\ lp - Of(a, Principal, x) = lp /\ lc - Of(a, Collateral, x) = lc - x
        /\ bp - Of(a, Principal, x) = bp /\ bc - Of(a, Collateral, x) = bc - x
    BY <1>1, <1>4, Cast DEF Of
  <2>3. /\ Stand(PaidOut(V, Lender, a, x), lp, lc - x, bp, bc, dp, dc, k, rl, rh, rb)
        /\ Stand(PaidOut(V, Borrower, a, x), lp, lc, bp, bc - x, dp, dc, k, rl, rh, rb)
    BY <2>1, WithdrawLenderCollateralStand, WithdrawBorrowerCollateralStand
  <2> QED BY <2>2, <2>3
<1> QED BY <1>2, <1>3, <1>4

(* A closed loan the lender has not come for: everything is where it       *)
(* should be, and what is the borrower's is reserved.                      *)
Ready(S) ==
    /\ S \in State /\ Coherent(S.n) /\ S.n.status \in Closed /\ ~ S.n.lenderClaim.claimed
    /\ \E rl, rh, rb :
          /\ Stand(S.v, OwedToLender(S.n, Principal), OwedToLender(S.n, Collateral), OwedToBorrower(S, Principal),
                   OwedToBorrower(S, Collateral), 0, 0, OwedToBorrower(S, Collateral), rl, rh, rb)
          /\ Principal = Vpfi => rb = OwedToBorrower(S, Principal)

LEMMA ValidReady ==
    ASSUME NEW S, Valid(S), S.n.status \in Closed, ~ S.n.lenderClaim.claimed
    PROVE  Ready(S)
BY DEF Valid, Settles, Reserves, Ready

LEMMA NoneOpenOwesNone ==
    ASSUME NEW S \in State, S.n.status \notin Open, ~ BorrowerSideOpen(S.n)
    PROVE  OwedToBorrower(S, Principal) = 0 /\ OwedToBorrower(S, Collateral) = 0
BY DEF OwedToBorrower, BorrowerSideOpen, Open

(* The lender has come.                                                    *)
LEMMA FinishedValid ==
    ASSUME NEW S \in State, Coherent(S.n), S.n.status \in Closed, S.n.lenderClaim.claimed,
           NEW bp, OwedToBorrower(S, Principal) = bp, NEW bc, OwedToBorrower(S, Collateral) = bc, NEW rb,
           Stand(S.v, 0, 0, bp, bc, 0, 0, bc, 0, 0, rb), Principal = Vpfi => rb = bp
    PROVE  Valid(SettledIf(S, ~ BorrowerSideOpen(S.n)))
<1> DEFINE R == SettledIf(S, ~ BorrowerSideOpen(S.n))
<1>1. S.n \in Loan /\ S.v \in Vaults /\ S.n.status \notin Open
  BY DEF State, Closed, Open
<1>2. Reserves(0, 0, bp, 0, 0, rb)
  BY DEF Reserves
<1>3. CASE BorrowerSideOpen(S.n)
  <2>1. R = S
    BY <1>3 DEF SettledIf
  <2>2. OwedToLender(S.n, Principal) = 0 /\ OwedToLender(S.n, Collateral) = 0
    BY DEF OwedToLender
  <2> QED BY <1>2, <2>1, <2>2 DEF Valid, Settles
<1>4. CASE ~ BorrowerSideOpen(S.n)
  <2>1. R = [S EXCEPT !.n.status = "Settled"]
    BY <1>4 DEF SettledIf
  <2>2. bp = 0 /\ bc = 0
    BY <1>1, <1>4, NoneOpenOwesNone
  <2> HIDE DEF R
  <2>3. R.v = S.v /\ R.n = [S.n EXCEPT !.status = "Settled"] /\ R = [v |-> R.v, n |-> R.n]
    BY <1>1, <2>1 DEF State
  <2>4. R.n \in Loan /\ R \in State
    <3>1. "Settled" \in Statuses
      BY DEF Statuses
    <3>2. R.n \in Loan
      BY <1>1, <2>3, <3>1 DEF Loan
    <3> QED BY <1>1, <2>3, <3>2 DEF State
  <2>5. /\ R.n.status = "Settled" /\ R.n.lenderClaim = S.n.lenderClaim /\ R.n.borrowerClaim = S.n.borrowerClaim
        /\ R.n.surplus = S.n.surplus /\ R.n.snap = S.n.snap /\ R.n.custody = S.n.custody
    BY <1>1, <2>3 DEF Loan
  <2>6. Coherent(R.n)
    BY <1>1, <2>4, <2>5 DEF Coherent, Open, Closed
  <2>7. OwedToLender(R.n, Principal) = 0 /\ OwedToLender(R.n, Collateral) = 0
    BY <2>5 DEF OwedToLender
  <2>8. OwedToBorrower(R, Principal) = 0 /\ OwedToBorrower(R, Collateral) = 0
    <3>1. ~ BorrowerSideOpen(R.n) /\ R.n.status \notin Open
      BY <1>4, <2>5 DEF BorrowerSideOpen, Open
    <3> QED BY <2>4, <3>1, NoneOpenOwesNone
  <2>9. Stand(R.v, 0, 0, 0, 0, 0, 0, 0, 0, 0, rb) /\ Reserves(0, 0, 0, 0, 0, rb)
    BY <1>2, <2>2, <2>3
  <2>10. Settles(R.v, 0, 0, 0, 0)
    BY <2>9 DEF Settles
  <2>11. Valid(R)
    BY <2>4, <2>6, <2>7, <2>8, <2>10 DEF Valid
  <2> QED BY <2>11 DEF R
<1> QED BY <1>3, <1>4 DEF R

LEMMA LenderPaidValid ==
    ASSUME NEW S, Ready(S)
    PROVE  LET T == LenderPaid(S)
           IN  Valid(T) /\ T.n.status # "FallbackPending" /\ LienAmount(T.v) = LienAmount(S.v)
<1>1. PICK rl, rh, rb :
          /\ Stand(S.v, OwedToLender(S.n, Principal), OwedToLender(S.n, Collateral), OwedToBorrower(S, Principal),
                   OwedToBorrower(S, Collateral), 0, 0, OwedToBorrower(S, Collateral), rl, rh, rb)
          /\ Principal = Vpfi => rb = OwedToBorrower(S, Principal)
  BY DEF Ready
<1> DEFINE c == S.n.lenderClaim
           x == c.amount
           h == S.n.held
           bp == OwedToBorrower(S, Principal)
           bc == OwedToBorrower(S, Collateral)
           V == Release(Release(S.v, "lenderProceeds", Lender), "heldForLender", Lender)
           W == PaidOut(V, Lender, c.asset, x)
           Y == PaidOut(W, Lender, Principal, h)
           T == LenderCollects(S)
<1>2. S \in State /\ S.n \in Loan /\ Coherent(S.n) /\ S.n.status \in Closed /\ ~ c.claimed /\ x \in Nat /\ h \in Nat
  BY DEF Ready, State, Loan, Claim
<1>3. x > 0 => c.asset \in {Principal, Collateral}
  BY <1>2 DEF Coherent
<1>4. OwedToLender(S.n, Principal) = Of(c.asset, Principal, x) + h
      /\ OwedToLender(S.n, Collateral) = Of(c.asset, Collateral, x)
  BY <1>2, Cast DEF OwedToLender, Of
<1>5. T = [S EXCEPT !.v = Y, !.n.lenderClaim.claimed = TRUE]
  BY DEF LenderCollects
<1>6. h > 0 => Principal \in {Principal, Collateral}
  OBVIOUS
<1> DEFINE u == Of(c.asset, Principal, x)
           w == Of(c.asset, Collateral, x)
           a == c.asset
<1>7. u \in Nat /\ w \in Nat
  BY <1>2 DEF Of
<1>8. Stand(S.v, u + h, w, bp, bc, 0, 0, bc, rl, rh, rb)
  BY <1>1, <1>4
<1> HIDE DEF bp, bc
<1>9. Stand(V, u + h, w, bp, bc, 0, 0, bc, 0, 0, rb)
  <2>1. Stand(Release(S.v, "lenderProceeds", Lender), u + h, w, bp, bc, 0, 0, bc, 0, rh, rb)
    BY <1>8, ReleaseLenderStand
  <2> QED BY <2>1, ReleaseHeldStand
<1> HIDE DEF V, T
<1>10. Stand(W, (u + h) - u, w - w, bp, bc, 0, 0, bc, 0, 0, rb)
  <2>1. Stand(PaidOut(V, Lender, a, x), (u + h) - Of(a, Principal, x), w - Of(a, Collateral, x), bp, bc, 0, 0, bc, 0, 0, rb)
    <3> DEFINE q == u + h
    <3>1. Stand(V, q, w, bp, bc, 0, 0, bc, 0, 0, rb) /\ x \in Nat /\ (x > 0 => a \in {Principal, Collateral})
      BY <1>2, <1>3, <1>9
    <3> HIDE DEF q, u, w, x, a
    <3>2. Stand(PaidOut(V, Lender, a, x), q - Of(a, Principal, x), w - Of(a, Collateral, x), bp, bc, 0, 0, bc, 0, 0, rb)
      BY <3>1, PaidOutStand
    <3> QED BY <3>2 DEF q
  <2> QED BY <2>1
<1> HIDE DEF W, u, w, x
<1>11. Stand(W, h, 0, bp, bc, 0, 0, bc, 0, 0, rb)
  <2>1. (u + h) - u = h /\ w - w = 0
    BY <1>2, <1>7
  <2> QED BY <1>10, <2>1
<1>12. Stand(Y, h - Of(Principal, Principal, h), 0 - Of(Principal, Collateral, h), bp, bc, 0, 0, bc, 0, 0, rb)
  <2> HIDE DEF h
  <2> QED BY <1>2, <1>6, <1>11, PaidOutStand
<1> HIDE DEF Y
<1>13. Stand(Y, 0, 0, bp, bc, 0, 0, bc, 0, 0, rb)
  <2>1. h - Of(Principal, Principal, h) = 0 /\ 0 - Of(Principal, Collateral, h) = 0
    BY <1>2, Cast DEF Of
  <2> QED BY <1>12, <2>1
<1>14. Y \in Vaults /\ LienAmount(Y) = LienAmount(S.v)
  <2>1. LienAmount(Y) = bc /\ LienAmount(S.v) = bc
    BY <1>8, <1>13 DEF Stand
  <2> QED BY <1>13, <2>1, FitTypes DEF Stand
<1> DEFINE l == [c EXCEPT !.claimed = TRUE]
<1>15. T.v = Y /\ T.n = [S.n EXCEPT !.lenderClaim.claimed = TRUE] /\ T = [v |-> T.v, n |-> T.n]
  BY <1>2, <1>5 DEF State
<1>16. T.n = [S.n EXCEPT !.lenderClaim = l] /\ l \in Claim /\ l.claimed /\ l.asset = c.asset /\ l.amount = c.amount
  BY <1>2, <1>15 DEF Loan, Claim
<1> HIDE DEF l
<1>17. T.n \in Loan /\ T \in State
  <2>1. T.n \in Loan
    BY <1>2, <1>16 DEF Loan
  <2> QED BY <1>14, <1>15, <2>1 DEF State
<1>18. /\ T.n.status = S.n.status /\ T.n.held = h /\ T.n.surplus = S.n.surplus /\ T.n.snap = S.n.snap
       /\ T.n.custody = S.n.custody /\ T.n.lenderClaim = l /\ T.n.borrowerClaim = S.n.borrowerClaim
       /\ T.n.collateral = S.n.collateral
  BY <1>2, <1>16 DEF Loan
<1>19. Coherent(T.n)
  <2>1. S.n.status \notin Open /\ S.n.status # "FallbackPending" /\ S.n.status # "Active"
    BY <1>2 DEF Closed, Open
  <2> QED BY <1>2, <1>16, <1>17, <1>18, <2>1 DEF Coherent
<1>20. OwedToBorrower(T, Principal) = bp /\ OwedToBorrower(T, Collateral) = bc
  <2>1. LienAmount(T.v) = LienAmount(S.v) /\ (BorrowerSideOpen(T.n) <=> BorrowerSideOpen(S.n))
    BY <1>14, <1>15, <1>18 DEF BorrowerSideOpen
  <2> QED BY <1>18, <2>1 DEF OwedToBorrower, bp, bc
<1>21. T.n.status \in Closed /\ T.n.lenderClaim.claimed
  BY <1>2, <1>16, <1>18
<1>22. Stand(T.v, 0, 0, bp, bc, 0, 0, bc, 0, 0, rb) /\ (Principal = Vpfi => rb = bp)
  BY <1>1, <1>13, <1>15 DEF bp
<1>23. Valid(SettledIf(T, ~ BorrowerSideOpen(T.n)))
  BY <1>17, <1>19, <1>20, <1>21, <1>22, FinishedValid
<1> DEFINE R == SettledIf(T, ~ BorrowerSideOpen(T.n))
<1>24. R.v = T.v /\ R.n.status \in Closed \cup {"Settled"}
  BY <1>17, <1>21 DEF SettledIf, State, Loan
<1>25. R.n.status # "FallbackPending"
  BY <1>24 DEF Closed
<1>26. LienAmount(R.v) = LienAmount(S.v)
  BY <1>14, <1>15, <1>24
<1> QED BY <1>23, <1>25, <1>26 DEF LenderPaid, T

-----------------------------------------------------------------------------
(* A retry that succeeds.                                                  *)

Paying(S, T, y, z) == T.n = [S.n EXCEPT !.lenderClaim = Pays(Principal, y), !.borrowerClaim = PaysIfAny(Principal, z)]

LEMMA DistributeStand ==
    ASSUME NEW S, NEW lp, NEW lc, NEW bp, NEW bc, NEW got \in Nat, NEW dc, NEW k, NEW rl, NEW rh, NEW rb,
           StandsAt(S, lp, lc, bp, bc, got, dc, k, rl, rh, rb), NEW T \in DistributeRetryProceeds(S, got)
    PROVE  \E y, z : /\ Within(y, got) /\ Within(z, got) /\ Paying(S, T, y, z)
                     /\ StandsAt(T, lp + y, lc, bp + z, bc, 0, dc, k, rl, rh, rb + IfVpfi(Principal, z))
<1> DEFINE l == AtMost(got, S.n.snap.lenderDue)
           t == AtMost(got - l, S.n.snap.treasuryDue)
           b == got - l - t
           A == Transfer(S.v, Diamond, Outside, Principal, t)
           B(y) == DepositLocked(A, Lender, Principal, l, y)
           C(y, z) == DepositLocked(B(y), Borrower, Principal, b, z)
           V(y, z) == ReserveVpfi(C(y, z), "borrowerProceeds", Borrower, Principal, z)
<1>1. S \in State /\ S.n \in Loan /\ Stand(S.v, lp, lc, bp, bc, got, dc, k, rl, rh, rb)
  BY DEF StandsAt, State
<1>2. S.n.snap.lenderDue \in Nat /\ S.n.snap.treasuryDue \in Nat
  BY <1>1 DEF Loan, Snapshot
<1>3. l \in Nat /\ l <= got
  BY <1>2 DEF AtMost
<1>4. t \in Nat /\ t <= got - l
  <2> HIDE DEF l
  <2> QED BY <1>2, <1>3 DEF AtMost
<1>5. T \in {Distributed(S, l, t, b, y, z) : y \in Delivered(Principal, l), z \in Delivered(Principal, b)}
  BY DEF DistributeRetryProceeds
<1> HIDE DEF l, t
<1>6. b \in Nat /\ b <= got
  BY <1>3, <1>4
<1> HIDE DEF b
<1>7. PICK y \in Delivered(Principal, l), z \in Delivered(Principal, b) : T = Distributed(S, l, t, b, y, z)
  BY <1>5
<1>18. T = [S EXCEPT !.v = V(y, z), !.n.lenderClaim = Pays(Principal, y), !.n.borrowerClaim = PaysIfAny(Principal, z)]
  BY <1>7 DEF Distributed
<1> HIDE DEF V
<1>8. y \in Nat /\ y <= l /\ z \in Nat /\ z <= b
  BY <1>3, <1>6, Cast, DeliveredTypes
<1>9. Stand(A, lp, lc, bp, bc, got - t, dc, k, rl, rh, rb)
  <2>1. t \in Int
    BY <1>4
  <2> QED BY <1>1, <2>1, TransferStand
<1> DEFINE o == got - t
<1> HIDE DEF A, o
<1>10. Stand(A, lp, lc, bp, bc, o, dc, k, rl, rh, rb)
  BY <1>9 DEF o
<1>11. Stand(B(y), lp + y, lc, bp, bc, o - l, dc, k, rl, rh, rb)
  <2>1. l \in Int /\ y \in Int
    BY <1>3, <1>8
  <2> QED BY <1>10, <2>1, LockLenderStand
<1> DEFINE p == o - l
           q == lp + y
<1> HIDE DEF p, q, B
<1>12. Stand(B(y), q, lc, bp, bc, p, dc, k, rl, rh, rb)
  BY <1>11 DEF p, q
<1>13. Stand(C(y, z), q, lc, bp + z, bc, p - b, dc, k, rl, rh, rb)
  <2>1. b \in Int /\ z \in Int
    BY <1>6, <1>8
  <2> QED BY <1>12, <2>1, LockBorrowerStand
<1> DEFINE x == bp + z
<1> HIDE DEF C, x
<1>14. Stand(C(y, z), q, lc, x, bc, 0, dc, k, rl, rh, rb)
  <2>1. p - b = 0
    BY <1>3, <1>4 DEF p, o, b
  <2> QED BY <1>13, <2>1 DEF x
<1>24. V(y, z) = ReserveVpfi(C(y, z), "borrowerProceeds", Borrower, Principal, z)
  BY DEF V, C, B, A
<1>15. Stand(V(y, z), q, lc, x, bc, 0, dc, k, rl, rh, rb + IfVpfi(Principal, z))
  BY <1>8, <1>14, <1>24, ReserveVpfiBorrowerStand
<1>16. V(y, z) \in Vaults
  BY <1>15, FitTypes DEF Stand
<1> DEFINE m == Pays(Principal, y)
           n == PaysIfAny(Principal, z)
<1>17. m \in Claim /\ n \in Claim
  BY <1>8, Cast, ClaimTypes
<1> HIDE DEF m, n
<1>19. T.v = V(y, z) /\ T.n = [S.n EXCEPT !.lenderClaim = m, !.borrowerClaim = n] /\ T = [v |-> T.v, n |-> T.n]
  BY <1>1, <1>18 DEF State, m, n
<1>20. T.n \in Loan
  BY <1>1, <1>17, <1>19 DEF Loan
<1>21. T \in State /\ Paying(S, T, y, z)
  BY <1>16, <1>19, <1>20 DEF State, Paying, m, n
<1>22. Within(y, got) /\ Within(z, got)
  BY <1>3, <1>6, <1>8 DEF Within
<1>23. StandsAt(T, lp + y, lc, bp + z, bc, 0, dc, k, rl, rh, rb + IfVpfi(Principal, z))
  BY <1>15, <1>19, <1>21 DEF StandsAt, q, x
<1> QED BY <1>21, <1>22, <1>23

(* What the swap yields is distributed, whatever arrived to be sold.       *)
LEMMA RetryYields ==
    ASSUME NEW S, NEW T \in RetrySucceeded(S)
    PROVE  \E p \in Delivered(Collateral, S.n.custody), got \in 0..MaxProceeds :
              T \in DistributeRetryProceeds([PulledForRetry(S, p) EXCEPT !.v = Swapped(@, p, got)], got)
<1> DEFINE Q(p, got) == [PulledForRetry(S, p) EXCEPT !.v = Swapped(@, p, got)]
           Pulled == {<<p, PulledForRetry(S, p)>> : p \in Delivered(Collateral, S.n.custody)}
<1>1. \E i \in Pulled, got \in 0..MaxProceeds :
         T \in DistributeRetryProceeds([i[2] EXCEPT !.v = Swapped(@, i[1], got)], got)
  BY DEF RetrySucceeded
<1>2. PICK i \in Pulled, got \in 0..MaxProceeds :
         T \in DistributeRetryProceeds([i[2] EXCEPT !.v = Swapped(@, i[1], got)], got)
  BY <1>1
<1>3. PICK p \in Delivered(Collateral, S.n.custody) : i = <<p, PulledForRetry(S, p)>>
  BY <1>2
<1>4. i[1] = p /\ i[2] = PulledForRetry(S, p)
  BY <1>3
<1>5. Q(p, got) = [i[2] EXCEPT !.v = Swapped(@, i[1], got)]
  BY <1>4
<1> QED BY <1>2, <1>5

LEMMA RetrySucceededStand ==
    ASSUME NEW S, NEW h, NEW s, NEW c, OpenOver(S, h, s, c), S.n.status = "FallbackPending",
           NEW rl, NEW rh, NEW rb, StandsAt(S, h, 0, s, c, 0, 0, c, rl, rh, rb),
           NEW e, e = c - S.n.custody, NEW T \in RetrySucceeded(S)
    PROVE  \E y, z, R : /\ Within(y, MaxProceeds) /\ Within(z, MaxProceeds)
                        /\ Emptied(S, R) /\ Paying(R, T, y, z) /\ e \in Nat
                        /\ StandsAt(T, h + y, 0, s + z, e, 0, 0, e, rl, rh, rb + IfVpfi(Principal, z))
<1> DEFINE Q(p, got) == [PulledForRetry(S, p) EXCEPT !.v = Swapped(@, p, got)]
<1>1. \E p \in Delivered(Collateral, S.n.custody), got \in 0..MaxProceeds : T \in DistributeRetryProceeds(Q(p, got), got)
  BY RetryYields
<1>2. PICK p \in Delivered(Collateral, S.n.custody), got \in 0..MaxProceeds : T \in DistributeRetryProceeds(Q(p, got), got)
  BY <1>1
<1>3. p \in Nat /\ got \in Nat /\ got <= MaxProceeds /\ MaxProceeds \in Nat
  <2>1. S \in State
    BY DEF StandsAt
  <2>2. S.n.custody \in Nat
    BY <2>1, CustodyTypes
  <2> QED BY <2>2, Cast, DeliveredTypes, FallbackLoanAssumption
<1> DEFINE P == PulledForRetry(S, p)
           R == Q(p, got)
<1>4. e \in Nat /\ Emptied(S, P) /\ StandsAt(P, h, 0, s, e, 0, p, e, rl, rh, rb)
  BY <1>3, PulledStand
<1>5. R = [P EXCEPT !.v = Swapped(@, p, got)]
  OBVIOUS
<1> HIDE DEF P, R
<1>6. P \in State /\ Stand(P.v, h, 0, s, e, 0, p, e, rl, rh, rb)
  BY <1>4 DEF StandsAt
<1> DEFINE W == Swapped(P.v, p, got)
<1>7. Stand(W, h, 0, s, e, 0 + got, p - p, e, rl, rh, rb)
  <2>1. p \in Int /\ got \in Int
    BY <1>3
  <2> QED BY <1>6, <2>1, SwapStand
<1>8. 0 + got = got /\ p - p = 0
  BY <1>3
<1>9. R = [P EXCEPT !.v = W]
  BY <1>5
<1> HIDE DEF W
<1>10. Stand(W, h, 0, s, e, got, 0, e, rl, rh, rb)
  BY <1>7, <1>8
<1>11. R.v = W /\ R.n = P.n /\ R = [v |-> R.v, n |-> R.n]
  BY <1>6, <1>9 DEF State
<1>12. W \in Vaults
  BY <1>10, FitTypes DEF Stand
<1>13. StandsAt(R, h, 0, s, e, got, 0, e, rl, rh, rb)
  BY <1>6, <1>10, <1>11, <1>12 DEF StandsAt, State
<1>14. T \in DistributeRetryProceeds(R, got)
  BY <1>2 DEF R
<1>15. PICK y, z : /\ Within(y, got) /\ Within(z, got) /\ Paying(R, T, y, z)
                   /\ StandsAt(T, h + y, 0, s + z, e, 0, 0, e, rl, rh, rb + IfVpfi(Principal, z))
  BY <1>3, <1>13, <1>14, DistributeStand
<1>16. Within(y, MaxProceeds) /\ Within(z, MaxProceeds)
  BY <1>3, <1>15 DEF Within
<1>17. Emptied(S, R)
  BY <1>4, <1>11 DEF Emptied
<1> QED BY <1>4, <1>15, <1>16, <1>17

-----------------------------------------------------------------------------
(* The custody is shared out in kind.                                      *)

LEMMA DisposedStand ==
    ASSUME NEW S, NEW h, NEW s, NEW c, OpenOver(S, h, s, c), S.n.status = "FallbackPending",
           NEW rl, NEW rh, NEW rb, StandsAt(S, h, 0, s, c, 0, 0, c, rl, rh, rb),
           NEW t, t = S.n.snap.treasury, NEW l, l = S.n.snap.lender, NEW e, e = (c - t) - l,
           NEW u \in {Lender, Outside}, NEW y \in Nat, y <= l
    PROVE  /\ Emptied(S, Disposed(S, u, y)) /\ e \in Nat /\ (e = 0 => S.n.borrowerClaim.amount = 0)
           /\ StandsAt(Disposed(S, u, y), h, Of(u, Lender, y), s, e, 0, 0, e, rl, rh, rb)
<1> DEFINE R == RequireSnapshotMatchesRow(S)
           o == S.n.custody
           A == LowerLien(R.v, t)
           V == VaultWithdrawERC20(A, Borrower, Collateral, Outside, t)
           B == LowerLien(V, l)
           W == DepositFromVault(B, u, Collateral, l, y)
           T == Disposed(S, u, y)
           v == Of(u, Lender, y)
<1>1. S \in State /\ S.n \in Loan /\ h \in Nat /\ s \in Nat
  <2>1. S \in State
    BY DEF StandsAt
  <2> QED BY <2>1, OpenOverTypes
<1>2. /\ o \in Nat /\ o <= c /\ c \in Nat /\ S.n.snap \in Snapshot /\ Slices3(S.n.snap, o)
      /\ S.n.borrowerClaim.amount = S.n.snap.borrower
  BY <1>1, CustodyTypes
<1>3. /\ t \in Nat /\ l \in Nat /\ S.n.snap.borrower \in Nat /\ l + t + S.n.snap.borrower = o
  BY <1>2 DEF Snapshot, Slices3
<1>4. t <= c /\ l <= c - t /\ e \in Nat /\ (e = 0 => S.n.snap.borrower = 0) /\ v \in Nat
  BY <1>2, <1>3 DEF Of
<1>5. StandsAt(R, h, 0, s, c, 0, 0, c, rl, rh, rb) /\ R.n = S.n
  BY RowStand DEF SameLoan
<1>6. R \in State /\ Stand(R.v, h, 0, s, c, 0, 0, c, rl, rh, rb)
  BY <1>5 DEF StandsAt
<1>7. T = IF o = 0 THEN R ELSE [R EXCEPT !.v = W, !.n.custody = 0]
  BY DEF Disposed, RequireVaultHeld
<1> HIDE DEF R, T, o
<1>8. Stand(A, h, 0, s, c, 0, 0, c - t, rl, rh, rb)
  BY <1>3, <1>4, <1>6, LowerLienStand
<1> DEFINE k == c - t
<1> HIDE DEF A, k
<1>9. Stand(A, h, 0, s, c, 0, 0, k, rl, rh, rb) /\ t \in Int
  BY <1>3, <1>8 DEF k
<1>10. Stand(V, h, 0, s, c - t, 0, 0, k, rl, rh, rb)
  BY <1>9, WithdrawBorrowerCollateralStand
<1> HIDE DEF V
<1>11. Stand(V, h, 0, s, k, 0, 0, k, rl, rh, rb) /\ l <= k
  BY <1>4, <1>10 DEF k
<1>12. Stand(B, h, 0, s, k, 0, 0, k - l, rl, rh, rb)
  BY <1>3, <1>11, LowerLienStand
<1>13. k - l = e
  BY DEF k
<1> HIDE DEF B
<1>14. Stand(B, h, 0, s, k, 0, 0, e, rl, rh, rb)
  BY <1>12, <1>13
<1>15. Stand(W, h, v, s, e, 0, 0, e, rl, rh, rb)
  <2>1. l \in Int /\ y \in Int
    BY <1>3
  <2>2. CASE u = Lender
    <3>1. Stand(DepositFromVault(B, Lender, Collateral, l, y), h, 0 + y, s, k - l, 0, 0, e, rl, rh, rb)
      BY <1>14, <2>1, FromVaultLenderStand
    <3>2. 0 + y = y /\ v = y
      BY <2>2 DEF Of
    <3> QED BY <1>13, <2>2, <3>1, <3>2
  <2>3. CASE u = Outside
    <3>1. Stand(DepositFromVault(B, Outside, Collateral, l, y), h, 0, s, k - l, 0, 0, e, rl, rh, rb)
      BY <1>14, <2>1, FromVaultOutsideStand
    <3>2. v = 0
      BY <2>3, Cast DEF Of
    <3> QED BY <1>13, <2>3, <3>1, <3>2
  <2> QED BY <2>2, <2>3
<1> HIDE DEF W, v
<1>16. CASE o = 0
  <2>1. l = 0 /\ t = 0 /\ y = 0
    BY <1>2, <1>3, <1>16
  <2>2. e = c /\ v = 0
    BY <1>2, <2>1 DEF Of, v
  <2>3. T = R /\ T.n = [S.n EXCEPT !.custody = 0]
    BY <1>1, <1>5, <1>7, <1>16 DEF o, Loan
  <2>4. StandsAt(T, h, v, s, e, 0, 0, e, rl, rh, rb)
    BY <1>5, <2>2, <2>3
  <2> QED BY <1>2, <1>4, <2>3, <2>4 DEF Emptied, T, v
<1>17. CASE o # 0
  <2>1. T = [R EXCEPT !.v = W, !.n.custody = 0]
    BY <1>7, <1>17
  <2>2. T.v = W /\ T.n = [R.n EXCEPT !.custody = 0] /\ T = [v |-> T.v, n |-> T.n]
    BY <1>6, <2>1 DEF State
  <2>3. T.n \in Loan /\ T.n = [S.n EXCEPT !.custody = 0]
    <3>1. 0 \in Nat
      OBVIOUS
    <3> QED BY <1>1, <1>5, <2>2, <3>1 DEF Loan
  <2>4. W \in Vaults
    BY <1>15, FitTypes DEF Stand
  <2>5. StandsAt(T, h, v, s, e, 0, 0, e, rl, rh, rb)
    BY <1>15, <2>2, <2>3, <2>4 DEF StandsAt, State
  <2> QED BY <1>2, <1>4, <2>3, <2>5 DEF Emptied, T, v
<1> QED BY <1>16, <1>17

LEMMA InactiveStand ==
    ASSUME NEW S \in State
    PROVE  LET R == Inactive(S)
           IN  /\ R \in State /\ R.v = S.v /\ ~ R.n.snap.active /\ R.n.status = S.n.status /\ R.n.custody = S.n.custody
               /\ R.n.surplus = S.n.surplus /\ R.n.lenderClaim = S.n.lenderClaim /\ R.n.held = S.n.held
               /\ R.n.borrowerClaim = S.n.borrowerClaim /\ R.n.collateral = S.n.collateral
<1> DEFINE R == Inactive(S)
           g == [S.n.snap EXCEPT !.active = FALSE]
<1>1. S.n \in Loan /\ S.n.snap \in Snapshot
  BY DEF State, Loan
<1>2. R = [S EXCEPT !.n.snap.active = FALSE]
  BY DEF Inactive
<1> HIDE DEF R
<1>3. R.v = S.v /\ R.n = [S.n EXCEPT !.snap.active = FALSE] /\ R = [v |-> R.v, n |-> R.n]
  BY <1>2 DEF State
<1>4. R.n = [S.n EXCEPT !.snap = g]
  BY <1>1, <1>3 DEF Loan
<1>5. g \in Snapshot /\ ~ g.active
  BY <1>1, InactiveTypes
<1> HIDE DEF g
<1>6. R.n \in Loan
  BY <1>1, <1>4, <1>5 DEF Loan
<1>7. R \in State
  BY <1>3, <1>6 DEF State
<1> QED BY <1>1, <1>3, <1>4, <1>5, <1>7 DEF Loan, R

(* A fallback that has been resolved.                                      *)
LEMMA ResolvedOwes ==
    ASSUME NEW S \in State, S.n.status = "FallbackPending", S.n.custody = 0, SurplusOpen(S),
           S.n.lenderClaim.amount > 0 => S.n.lenderClaim.asset \in {Principal, Collateral},
           NEW s, S.n.surplus.amount = s, NEW e \in Nat, LienAmount(S.v) = e, NEW z \in Nat,
           \/ S.n.borrowerClaim.asset = Collateral /\ z = 0 /\ (e = 0 => S.n.borrowerClaim.amount = 0)
           \/ S.n.borrowerClaim = PaysIfAny(Principal, z)
    PROVE  LET D == FallbackDefaulted(Inactive(S))
           IN  /\ D \in State /\ D.v = S.v /\ Coherent(D.n) /\ D.n.status = "Defaulted"
               /\ D.n.lenderClaim = S.n.lenderClaim /\ D.n.held = S.n.held
               /\ OwedToBorrower(D, Principal) = s + z /\ OwedToBorrower(D, Collateral) = e
<1> DEFINE R == Inactive(S)
<1>1. /\ R \in State /\ R.v = S.v /\ ~ R.n.snap.active /\ R.n.status = S.n.status /\ R.n.custody = S.n.custody
      /\ R.n.surplus = S.n.surplus /\ R.n.lenderClaim = S.n.lenderClaim /\ R.n.held = S.n.held
      /\ R.n.borrowerClaim = S.n.borrowerClaim
  BY InactiveStand
<1> HIDE DEF R
<1>2. SurplusOpen(R) /\ LienAmount(R.v) = e
  BY <1>1 DEF SurplusOpen
<1>3. LET D == FallbackDefaulted(R)
      IN  /\ D \in State /\ D.v = R.v /\ Coherent(D.n) /\ D.n.status = "Defaulted"
          /\ D.n.lenderClaim = R.n.lenderClaim /\ D.n.held = R.n.held
          /\ OwedToBorrower(D, Principal) = s + z /\ OwedToBorrower(D, Collateral) = e
  BY <1>1, <1>2, DefaultedOwes
<1> QED BY <1>1, <1>3 DEF R

LEMMA ResolvedKeepsVaults ==
    ASSUME NEW S \in State
    PROVE  FallbackDefaulted(Inactive(S)).v = S.v
<1> DEFINE R == Inactive(S)
           T == IF R.n.status = "FallbackPending" THEN [R EXCEPT !.n.status = "Defaulted"] ELSE R
<1>1. R \in State /\ R.v = S.v
  BY InactiveStand
<1> HIDE DEF R
<1>2. T \in [v : {S.v}, n : {T.n}]
  BY <1>1 DEF State
<1>3. FallbackDefaulted(R).v = T.v
  BY <1>2 DEF FallbackDefaulted
<1> QED BY <1>2, <1>3 DEF R

LEMMA ResolvedReady ==
    ASSUME NEW S \in State, S.n.status = "FallbackPending", S.n.custody = 0, SurplusOpen(S),
           NEW x \in Nat, S.n.lenderClaim.amount = x, ~ S.n.lenderClaim.claimed,
           NEW a \in {Principal, Collateral}, S.n.lenderClaim.asset = a,
           NEW s, S.n.surplus.amount = s, NEW e \in Nat, NEW z \in Nat, NEW h \in Nat, S.n.held = h,
           \/ S.n.borrowerClaim.asset = Collateral /\ z = 0 /\ (e = 0 => S.n.borrowerClaim.amount = 0)
           \/ S.n.borrowerClaim = PaysIfAny(Principal, z),
           NEW rl, NEW rh, NEW rb,
           Stand(S.v, h + Of(a, Principal, x), Of(a, Collateral, x), s + z, e, 0, 0, e, rl, rh, rb),
           Principal = Vpfi => rb = s + z
    PROVE  Ready(FallbackDefaulted(Inactive(S)))
<1> DEFINE D == FallbackDefaulted(Inactive(S))
<1>1. LienAmount(S.v) = e
  BY DEF Stand
<1>2. /\ D \in State /\ D.v = S.v /\ Coherent(D.n) /\ D.n.status = "Defaulted"
      /\ D.n.lenderClaim = S.n.lenderClaim /\ D.n.held = S.n.held
      /\ OwedToBorrower(D, Principal) = s + z /\ OwedToBorrower(D, Collateral) = e
  BY <1>1, ResolvedOwes
<1> HIDE DEF D
<1>3. D.n.status \in Closed
  BY <1>2 DEF Closed
<1>4. OwedToLender(D.n, Principal) = h + Of(a, Principal, x) /\ OwedToLender(D.n, Collateral) = Of(a, Collateral, x)
  BY <1>2, <1>3, Cast DEF OwedToLender, Of
<1>5. Ready(D)
  BY <1>2, <1>3, <1>4 DEF Ready
<1> QED BY <1>5 DEF D

(* Where a pending fallback stands.                                        *)
LEMMA PendingStand ==
    ASSUME NEW S, Valid(S), S.n.status = "FallbackPending"
    PROVE  \E rl, rh, rb :
              /\ StandsAt(S, S.n.held, 0, S.n.surplus.amount, S.n.collateral, 0, 0, S.n.collateral, rl, rh, rb)
              /\ Reserves(S.n.held, 0, S.n.surplus.amount, rl, rh, rb)
<1>1. S \in State /\ S.n.status \in Open
  BY DEF Valid, Open
<1> QED BY <1>1, OpenStand DEF StandsAt

LEMMA PendingTypes ==
    ASSUME NEW S, Valid(S), S.n.status = "FallbackPending"
    PROVE  /\ S \in State /\ S.n \in Loan /\ OpenOver(S, S.n.held, S.n.surplus.amount, S.n.collateral)
           /\ S.n.held \in Nat /\ S.n.surplus.amount \in Nat /\ S.n.collateral \in Nat /\ SurplusOpen(S)
           /\ S.n.snap.lender \in Nat /\ S.n.snap.active /\ S.n.lenderClaim \in Claim
           /\ ~ S.n.lenderClaim.claimed /\ S.n.lenderClaim.asset = Collateral
           /\ S.n.borrowerClaim \in Claim /\ S.n.borrowerClaim.asset = Collateral
<1>1. S \in State /\ Coherent(S.n)
  BY DEF Valid
<1>2. OpenOver(S, S.n.held, S.n.surplus.amount, S.n.collateral)
  BY <1>1 DEF OpenOver, Open
<1>3. /\ S.n \in Loan /\ S.n.held \in Nat /\ S.n.surplus.amount \in Nat /\ S.n.collateral \in Nat /\ SurplusOpen(S)
  BY <1>1, <1>2, OpenOverTypes
<1> QED BY <1>1, <1>2, <1>3 DEF Coherent, Loan, Snapshot, Open

(* In kind: the lender's claim becomes what arrived of the slice.          *)
LEMMA DisposedReady ==
    ASSUME NEW S, Valid(S), S.n.status = "FallbackPending", NEW T \in DisposedToLender(S)
    PROVE  LET D == FallbackDefaulted(Inactive(T))
           IN  Ready(D) /\ LienAmount(D.v) >= Spare(S.n)
<1> DEFINE h == S.n.held
           s == S.n.surplus.amount
           c == S.n.collateral
           t == S.n.snap.treasury
           l == S.n.snap.lender
           e == (c - t) - l
<1>1. PICK rl, rh, rb : StandsAt(S, h, 0, s, c, 0, 0, c, rl, rh, rb) /\ Reserves(h, 0, s, rl, rh, rb)
  BY PendingStand
<1>2. /\ S \in State /\ S.n \in Loan /\ OpenOver(S, h, s, c) /\ h \in Nat /\ s \in Nat /\ SurplusOpen(S) /\ l \in Nat
      /\ S.n.lenderClaim \in Claim /\ ~ S.n.lenderClaim.claimed /\ S.n.lenderClaim.asset = Collateral
      /\ S.n.borrowerClaim.asset = Collateral
  BY PendingTypes
<1>3. PICK y \in Delivered(Collateral, l) : T = [Disposed(S, Lender, y) EXCEPT !.n.lenderClaim.amount = y]
  BY DEF DisposedToLender
<1>4. y \in Nat /\ y <= l
  BY <1>2, Cast, DeliveredTypes
<1> DEFINE D == Disposed(S, Lender, y)
<1> HIDE DEF h, s, c, t, l, e
<1>5. /\ Emptied(S, D) /\ e \in Nat /\ (e = 0 => S.n.borrowerClaim.amount = 0)
      /\ StandsAt(D, h, Of(Lender, Lender, y), s, e, 0, 0, e, rl, rh, rb)
  <2>1. t = S.n.snap.treasury /\ l = S.n.snap.lender /\ e = (c - t) - l /\ Lender \in {Lender, Outside}
    BY DEF t, l, e
  <2> QED BY <1>1, <1>2, <1>4, <2>1, DisposedStand
<1> HIDE DEF D
<1>6. D \in State /\ D.n = [S.n EXCEPT !.custody = 0] /\ Stand(D.v, h, y, s, e, 0, 0, e, rl, rh, rb)
  BY <1>5 DEF Emptied, StandsAt, Of
<1>7. /\ D.n.lenderClaim = S.n.lenderClaim /\ D.n.status = "FallbackPending" /\ D.n.custody = 0
      /\ D.n.surplus = S.n.surplus /\ D.n.borrowerClaim = S.n.borrowerClaim /\ D.n.held = h
  BY <1>2, <1>6 DEF Loan, h
<1>8. T = [D EXCEPT !.n.lenderClaim.amount = y]
  BY <1>3 DEF D
<1> DEFINE m == [D.n.lenderClaim EXCEPT !.amount = y]
<1>9. m \in Claim /\ m.amount = y /\ ~ m.claimed /\ m.asset = Collateral
  BY <1>2, <1>4, <1>7 DEF Claim
<1>10. T.v = D.v /\ T.n = [D.n EXCEPT !.lenderClaim.amount = y] /\ T = [v |-> T.v, n |-> T.n]
  BY <1>6, <1>8 DEF State
<1>11. T.n = [D.n EXCEPT !.lenderClaim = m]
  BY <1>6, <1>10 DEF State, Loan
<1> HIDE DEF m
<1>12. D.n \in Loan /\ D.v \in Vaults
  BY <1>6 DEF State
<1>13. T.n \in Loan
  BY <1>9, <1>11, <1>12 DEF Loan
<1>14. T \in State
  BY <1>10, <1>12, <1>13 DEF State
<1>15. /\ T.n.lenderClaim = m /\ T.n.status = "FallbackPending" /\ T.n.custody = 0
       /\ T.n.surplus = S.n.surplus /\ T.n.borrowerClaim = S.n.borrowerClaim /\ T.n.held = h
  BY <1>7, <1>11, <1>12 DEF Loan
<1>16. SurplusOpen(T) /\ T.n.surplus.amount = s
  BY <1>2, <1>15 DEF SurplusOpen, s
<1>17. Stand(T.v, h + Of(Collateral, Principal, y), Of(Collateral, Collateral, y), s + 0, e, 0, 0, e, rl, rh, rb)
  <2>1. h + Of(Collateral, Principal, y) = h /\ Of(Collateral, Collateral, y) = y /\ s + 0 = s
    BY <1>2, Cast DEF Of, h, s
  <2> QED BY <1>6, <1>10, <2>1
<1>18. Principal = Vpfi => rb = s + 0
  BY <1>1, <1>2 DEF Reserves, s
<1>19. T.n.borrowerClaim.asset = Collateral /\ (e = 0 => T.n.borrowerClaim.amount = 0)
  BY <1>2, <1>5, <1>15
<1>20. T.n.lenderClaim.amount = y /\ ~ T.n.lenderClaim.claimed /\ T.n.lenderClaim.asset = Collateral
  BY <1>9, <1>15
<1>21. Collateral \in {Principal, Collateral} /\ 0 \in Nat /\ h \in Nat
  BY <1>2 DEF h
<1>22. e >= Spare(S.n)
  <2>1. /\ S.n.custody \in Nat /\ S.n.snap \in Snapshot /\ Slices3(S.n.snap, S.n.custody) /\ c \in Nat
        /\ S.n.collateral = c
    BY <1>2, CustodyTypes DEF c
  <2>2. t \in Nat /\ l \in Nat /\ S.n.snap.borrower \in Nat /\ t + l <= S.n.custody
    BY <2>1 DEF Snapshot, Slices3, t, l
  <2> QED BY <2>1, <2>2 DEF Spare, e
<1>23. LienAmount(FallbackDefaulted(Inactive(T)).v) = e
  BY <1>14, <1>17, ResolvedKeepsVaults DEF Stand
<1>24. Ready(FallbackDefaulted(Inactive(T)))
  BY <1>4, <1>5, <1>14, <1>15, <1>16, <1>17, <1>18, <1>19, <1>20, <1>21, ResolvedReady
<1> QED BY <1>22, <1>23, <1>24

(* By a swap: both claims become claims on the proceeds.                   *)
LEMMA RetryReady ==
    ASSUME NEW S, Valid(S), S.n.status = "FallbackPending", NEW T \in RetrySucceeded(S)
    PROVE  LET D == FallbackDefaulted(Inactive(T))
           IN  Ready(D) /\ LienAmount(D.v) >= Spare(S.n)
<1> DEFINE h == S.n.held
           s == S.n.surplus.amount
           c == S.n.collateral
           e == c - S.n.custody
<1>1. PICK rl, rh, rb : StandsAt(S, h, 0, s, c, 0, 0, c, rl, rh, rb) /\ Reserves(h, 0, s, rl, rh, rb)
  BY PendingStand
<1>2. /\ S \in State /\ S.n \in Loan /\ OpenOver(S, h, s, c) /\ h \in Nat /\ s \in Nat /\ SurplusOpen(S)
  BY PendingTypes
<1> HIDE DEF h, s, c, e
<1>3. PICK y, z, R : /\ Within(y, MaxProceeds) /\ Within(z, MaxProceeds)
                     /\ Emptied(S, R) /\ Paying(R, T, y, z) /\ e \in Nat
                     /\ StandsAt(T, h + y, 0, s + z, e, 0, 0, e, rl, rh, rb + IfVpfi(Principal, z))
  <2>1. e = c - S.n.custody
    BY DEF e
  <2> QED BY <1>1, <1>2, <2>1, RetrySucceededStand
<1>4. y \in Nat /\ z \in Nat
  BY <1>3, FallbackLoanAssumption DEF Within
<1> DEFINE m == Pays(Principal, y)
           b == PaysIfAny(Principal, z)
           i == rb + IfVpfi(Principal, z)
<1>5. m \in Claim /\ b \in Claim /\ m.amount = y /\ m.asset = Principal /\ ~ m.claimed
  BY <1>4, Cast, ClaimTypes
<1> HIDE DEF m, b, i
<1>6. R.n = [S.n EXCEPT !.custody = 0] /\ T.n = [R.n EXCEPT !.lenderClaim = m, !.borrowerClaim = b]
  BY <1>3 DEF Emptied, Paying, m, b
<1>7. R.n.status = "FallbackPending" /\ R.n.custody = 0 /\ R.n.surplus = S.n.surplus /\ R.n.held = h /\ R.n \in Loan
  <2>1. 0 \in Nat
    OBVIOUS
  <2> QED BY <1>2, <1>6, <2>1 DEF Loan, h
<1>8. /\ T.n.lenderClaim = m /\ T.n.borrowerClaim = b /\ T.n.status = "FallbackPending" /\ T.n.custody = 0
      /\ T.n.surplus = S.n.surplus /\ T.n.held = h
  BY <1>6, <1>7 DEF Loan
<1>9. T \in State /\ Stand(T.v, h + y, 0, s + z, e, 0, 0, e, rl, rh, i)
  BY <1>3 DEF StandsAt, i
<1>10. SurplusOpen(T) /\ T.n.surplus.amount = s
  BY <1>2, <1>8 DEF SurplusOpen, s
<1>11. Stand(T.v, h + Of(Principal, Principal, y), Of(Principal, Collateral, y), s + z, e, 0, 0, e, rl, rh, i)
  <2>1. Of(Principal, Principal, y) = y /\ Of(Principal, Collateral, y) = 0
    BY Cast DEF Of
  <2> QED BY <1>9, <2>1
<1>12. Principal = Vpfi => i = s + z
  BY <1>1 DEF Reserves, i, IfVpfi
<1>13. T.n.borrowerClaim = PaysIfAny(Principal, z)
  BY <1>8 DEF b
<1>14. T.n.lenderClaim.amount = y /\ ~ T.n.lenderClaim.claimed /\ T.n.lenderClaim.asset = Principal
  BY <1>5, <1>8
<1>15. Principal \in {Principal, Collateral} /\ h \in Nat
  BY <1>2 DEF h
<1>16. e >= Spare(S.n)
  BY <1>3 DEF Spare, e, c
<1>17. LienAmount(FallbackDefaulted(Inactive(T)).v) = e
  BY <1>9, <1>9, ResolvedKeepsVaults DEF Stand
<1>18. Ready(FallbackDefaulted(Inactive(T)))
  BY <1>3, <1>4, <1>8, <1>9, <1>10, <1>11, <1>12, <1>13, <1>14, <1>15, ResolvedReady, ZenonT(60)
<1> QED BY <1>16, <1>17, <1>18

(* Whatever resolves it, a fallback leaves a loan that is closed.          *)
LEMMA FallbackResolvedReady ==
    ASSUME NEW S, Valid(S), S.n.status = "FallbackPending", NEW T \in FallbackResolved(S)
    PROVE  LET D == FallbackDefaulted(T)
           IN  Ready(D) /\ LienAmount(D.v) >= Spare(S.n)
<1> DEFINE Failed(A)   == UNION {DisposedToLender(R) : R \in RetryFailed(Tried(A))}
           Retried(A)  == IF A.n.snap.retried THEN {} ELSE RetrySucceeded(Tried(A)) \cup Failed(A)
           Resolved(A) == IF ~ A.n.snap.active THEN {A}
                          ELSE {Inactive(R) : R \in DisposedToLender(A) \cup Retried(A)}
<1>1. S.n.snap.active /\ S.n.status \in Open
  BY PendingTypes DEF Open
<1>2. T \in UNION {Resolved(A) : A \in AutoDispatch(S)}
  BY <1>1 DEF FallbackResolved
<1> HIDE DEF Resolved
<1>3. PICK A \in AutoDispatch(S) : T \in Resolved(A)
  BY <1>2
<1>4. Followed(S, A)
  BY <1>1, AutoDispatchFollows
<1>5. Valid(A) /\ ~ A.n.lenderClaim.claimed /\ A.n.status \in {"FallbackPending", "InternalMatched"} /\ Coherent(A.n)
  BY <1>4 DEF Followed, Valid
<1>6. CASE ~ A.n.snap.active
  <2>1. T = A
    BY <1>3, <1>6 DEF Resolved
  <2>2. A.n.status = "InternalMatched"
    BY <1>5, <1>6 DEF Coherent
  <2>3. FallbackDefaulted(T) = T
    BY <2>1, <2>2 DEF FallbackDefaulted
  <2>4. Ready(A)
    BY <1>5, <2>2, ValidReady DEF Closed
  <2> QED BY <1>1, <1>4, <2>1, <2>3, <2>4 DEF Followed
<1>7. CASE A.n.snap.active
  <2>1. A.n.status = "FallbackPending"
    BY <1>5, <1>7 DEF Coherent
  <2>2. T \in {Inactive(R) : R \in DisposedToLender(A) \cup Retried(A)}
    BY <1>3, <1>7 DEF Resolved
  <2> HIDE DEF Retried
  <2>3. PICK R \in DisposedToLender(A) \cup Retried(A) : T = Inactive(R)
    BY <2>2
  <2>4. Spare(A.n) = Spare(S.n)
    BY <1>4, <2>1 DEF Followed
  <2>5. CASE R \in DisposedToLender(A)
    BY <1>5, <2>1, <2>3, <2>5, <2>4, DisposedReady
  <2>6. CASE R \in Retried(A)
    <3> DEFINE B == Tried(A)
    <3>1. Valid(B) /\ B.n.status = "FallbackPending" /\ Spare(B.n) = Spare(S.n)
      BY <1>5, <2>1, <2>4, TriedValid DEF Spare
    <3>2. R \in RetrySucceeded(B) \cup Failed(A)
      BY <2>6 DEF Retried
    <3> HIDE DEF Failed
    <3>3. CASE R \in RetrySucceeded(B)
      <4> HIDE DEF B
      <4> QED BY <2>3, <3>1, <3>3, RetryReady
    <3>4. CASE R \in Failed(A)
      <4> HIDE DEF B
      <4>1. R \in UNION {DisposedToLender(Q) : Q \in RetryFailed(B)}
        BY <3>4 DEF Failed, B
      <4>2. PICK Q \in RetryFailed(B) : R \in DisposedToLender(Q)
        BY <4>1
      <4>3. Valid(Q) /\ Q.n.status = "FallbackPending" /\ Spare(Q.n) = Spare(S.n)
        BY <3>1, <4>2, RetryFailedFollows DEF Followed
      <4> QED BY <2>3, <4>2, <4>3, DisposedReady
    <3> QED BY <3>2, <3>3, <3>4
  <2> QED BY <2>3, <2>5, <2>6
<1> QED BY <1>6, <1>7

LEMMA LenderClaimsValid ==
    ASSUME NEW S, Valid(S), LenderMayClaim(S.n), NEW T \in LenderClaims(S)
    PROVE  /\ Valid(T) /\ T.n.status # "FallbackPending"
           /\ S.n.status = "FallbackPending" => LienAmount(T.v) >= Spare(S.n)
<1> DEFINE Started == IF S.n.status = "FallbackPending" THEN {FallbackDefaulted(R) : R \in FallbackResolved(S)} ELSE {S}
<1>1. T \in {LenderPaid(R) : R \in {Q \in Started : LenderSideOpen(Q.n)}}
  BY DEF LenderClaims
<1> HIDE DEF Started
<1>2. PICK R \in Started : T = LenderPaid(R)
  BY <1>1
<1>3. Ready(R) /\ (S.n.status = "FallbackPending" => LienAmount(R.v) >= Spare(S.n))
  <2>1. CASE S.n.status = "FallbackPending"
    <3>1. PICK Q \in FallbackResolved(S) : R = FallbackDefaulted(Q)
      BY <1>2, <2>1 DEF Started
    <3> QED BY <2>1, <3>1, FallbackResolvedReady
  <2>2. CASE S.n.status # "FallbackPending"
    <3>1. R = S
      BY <1>2, <2>2 DEF Started
    <3> QED BY <2>2, <3>1, ValidReady DEF LenderMayClaim
  <2> QED BY <2>1, <2>2
<1> QED BY <1>2, <1>3, LenderPaidValid

-----------------------------------------------------------------------------
(* The borrower comes.                                                     *)

(* What is paid out of a claim, and of the lien in another asset.          *)
OpenAmount(claim) == IF LaneOpen(claim) THEN claim.amount ELSE 0

LienElsewhere(S) == IF S.n.borrowerClaim.asset # Collateral THEN LienAmount(S.v) ELSE 0

LEMMA OpenBorrowerOwed ==
    ASSUME NEW S \in State, S.n.status \in Closed, Coherent(S.n), BorrowerSideOpen(S.n),
           NEW a, a = S.n.borrowerClaim.asset, NEW x, x = OpenAmount(S.n.borrowerClaim),
           NEW z, z = OpenAmount(S.n.surplus), NEW k, k = LienElsewhere(S), k \in Nat
    PROVE  /\ x \in Nat /\ z \in Nat /\ (x > 0 => a \in {Principal, Collateral})
           /\ (z > 0 => S.n.surplus.asset = Principal)
           /\ OwedToBorrower(S, Principal) = Of(a, Principal, x) + z
           /\ OwedToBorrower(S, Collateral) = Of(a, Collateral, x) + k
<1>1. /\ S.n \in Loan /\ S.n.borrowerClaim \in Claim /\ S.n.surplus \in Claim
      /\ S.n.borrowerClaim.amount \in Nat /\ S.n.surplus.amount \in Nat
      /\ S.n.status \notin {"Active", "FallbackPending"}
  BY DEF State, Loan, Claim, Closed
<1>2. x \in Nat /\ z \in Nat /\ (x > 0 => a \in {Principal, Collateral}) /\ (z > 0 => S.n.surplus.asset = Principal)
  BY <1>1 DEF OpenAmount, LaneOpen, Coherent
<1>3. /\ (IF LaneOpen(S.n.surplus) /\ S.n.surplus.asset = Principal THEN S.n.surplus.amount ELSE 0) = z
      /\ (IF LaneOpen(S.n.surplus) /\ S.n.surplus.asset = Collateral THEN S.n.surplus.amount ELSE 0) = 0
  BY <1>1, <1>2, Cast DEF OpenAmount, LaneOpen
<1>4. \A b \in {Principal, Collateral} :
        (IF S.n.status \in Closed /\ LaneOpen(S.n.borrowerClaim) /\ S.n.borrowerClaim.asset = b
         THEN S.n.borrowerClaim.amount ELSE 0) = Of(a, b, x)
  BY <1>1, Cast DEF OpenAmount, Of
<1>5. OwedToBorrower(S, Principal) = Of(a, Principal, x) + 0 + z
  BY <1>1, <1>3, <1>4, Cast DEF OwedToBorrower
<1>6. OwedToBorrower(S, Collateral) = Of(a, Collateral, x) + k + 0
  BY <1>1, <1>3, <1>4, Cast DEF OwedToBorrower, LienElsewhere
<1>7. Of(a, Principal, x) \in Nat /\ Of(a, Collateral, x) \in Nat
  BY <1>2 DEF Of
<1> QED BY <1>2, <1>5, <1>6, <1>7

(* The loan keeps its status and the lender's claim; both of the           *)
(* borrower's have been paid.                                              *)
Collects(S, T) ==
    \E b, s \in Claim : /\ T.n = [S.n EXCEPT !.borrowerClaim = b, !.surplus = s]
                        /\ b.claimed /\ b.asset = S.n.borrowerClaim.asset /\ b.amount = S.n.borrowerClaim.amount
                        /\ s.claimed \/ s.amount = 0
                        /\ s.asset = S.n.surplus.asset /\ s.amount = S.n.surplus.amount

LEMMA BorrowerPaidValid ==
    ASSUME NEW S, Valid(S), S.n.status \in Closed, NEW T \in State, Collects(S, T),
           NEW lp, lp = OwedToLender(S.n, Principal), NEW lc, lc = OwedToLender(S.n, Collateral),
           NEW rl, NEW rh, Stand(T.v, lp, lc, 0, 0, 0, 0, 0, rl, rh, 0), Reserves(lp, lc, 0, rl, rh, 0)
    PROVE  Valid(SettledIf(T, S.n.lenderClaim.claimed \/ ~ LenderSideOpen(S.n)))
<1> DEFINE p == S.n.lenderClaim.claimed \/ ~ LenderSideOpen(S.n)
           R == SettledIf(T, p)
<1>1. /\ S \in State /\ S.n \in Loan /\ Coherent(S.n) /\ S.n.status \notin Open /\ S.n.held \in Nat
      /\ T.n \in Loan /\ T.v \in Vaults
  BY DEF Valid, State, Closed, Open, Loan
<1>2. PICK b, s \in Claim :
         /\ T.n = [S.n EXCEPT !.borrowerClaim = b, !.surplus = s]
         /\ b.claimed /\ b.asset = S.n.borrowerClaim.asset /\ b.amount = S.n.borrowerClaim.amount
         /\ s.claimed \/ s.amount = 0
         /\ s.asset = S.n.surplus.asset /\ s.amount = S.n.surplus.amount
  BY DEF Collects
<1>3. /\ T.n.status = S.n.status /\ T.n.lenderClaim = S.n.lenderClaim /\ T.n.borrowerClaim = b /\ T.n.surplus = s
      /\ T.n.held = S.n.held /\ T.n.snap = S.n.snap /\ T.n.custody = S.n.custody
  BY <1>1, <1>2 DEF Loan
<1>4. R \in State /\ R.v = T.v /\ R.n = [T.n EXCEPT !.status = IF p THEN "Settled" ELSE S.n.status]
  <2>1. CASE p
    <3>1. R = [T EXCEPT !.n.status = "Settled"]
      BY <2>1 DEF SettledIf
    <3> HIDE DEF R
    <3>2. R.v = T.v /\ R.n = [T.n EXCEPT !.status = "Settled"] /\ R = [v |-> R.v, n |-> R.n]
      BY <3>1 DEF State
    <3>3. "Settled" \in Statuses
      BY DEF Statuses
    <3>4. R.n \in Loan
      BY <1>1, <3>2, <3>3 DEF Loan
    <3>5. R \in State /\ R.v = T.v /\ R.n = [T.n EXCEPT !.status = IF p THEN "Settled" ELSE S.n.status]
      BY <1>1, <2>1, <3>2, <3>4 DEF State
    <3> QED BY <3>5 DEF R
  <2>2. CASE ~ p
    <3>1. R = T
      BY <2>2 DEF SettledIf
    <3>2. T.n = [T.n EXCEPT !.status = S.n.status]
      BY <1>1, <1>3 DEF Loan
    <3> QED BY <2>2, <3>1, <3>2
  <2> QED BY <2>1, <2>2
<1>5. R.n.status = IF p THEN "Settled" ELSE S.n.status
  BY <1>1, <1>4 DEF Loan
<1> HIDE DEF R
<1>6. /\ R.n.lenderClaim = S.n.lenderClaim /\ R.n.borrowerClaim = b /\ R.n.surplus = s
      /\ R.n.held = S.n.held /\ R.n.snap = S.n.snap /\ R.n.custody = S.n.custody /\ R.n \in Loan
  BY <1>1, <1>3, <1>4 DEF Loan, State
<1>7. R.n.status \notin Open /\ R.n.status \notin {"Active", "FallbackPending"}
  BY <1>1, <1>5 DEF Open
<1>8. Coherent(R.n)
  BY <1>1, <1>2, <1>6, <1>7 DEF Coherent, Open
<1>9. OwedToBorrower(R, Principal) = 0 /\ OwedToBorrower(R, Collateral) = 0
  <2>1. ~ BorrowerSideOpen(R.n)
    BY <1>2, <1>6 DEF BorrowerSideOpen, LaneOpen
  <2> QED BY <1>4, <1>7, <2>1, NoneOpenOwesNone
<1>10. OwedToLender(R.n, Principal) = lp /\ OwedToLender(R.n, Collateral) = lc
  <2>1. CASE S.n.lenderClaim.claimed
    BY <1>6, <2>1 DEF OwedToLender
  <2>2. CASE ~ S.n.lenderClaim.claimed /\ ~ LenderSideOpen(S.n)
    <3>1. S.n.lenderClaim.asset = NoAsset /\ S.n.held = 0
      BY <1>1, <2>2 DEF LenderSideOpen
    <3> QED BY <1>6, <3>1, Cast DEF OwedToLender
  <2>3. CASE ~ p
    BY <1>5, <1>6, <2>3 DEF OwedToLender
  <2> QED BY <2>1, <2>2, <2>3
<1>11. Settles(R.v, lp, lc, 0, 0)
  BY <1>4 DEF Settles
<1>12. Valid(R)
  BY <1>4, <1>8, <1>9, <1>10, <1>11 DEF Valid
<1> QED BY <1>12 DEF R

LEMMA BorrowerClaimsValid ==
    ASSUME NEW S, Valid(S), BorrowerMayClaim(S.n)
    PROVE  Valid(BorrowerClaims(S))
<1> DEFINE a == S.n.borrowerClaim.asset
           x == OpenAmount(S.n.borrowerClaim)
           z == OpenAmount(S.n.surplus)
           k == LienElsewhere(S)
           r == LienRow(S.v)
           lp == OwedToLender(S.n, Principal)
           lc == OwedToLender(S.n, Collateral)
           bp == OwedToBorrower(S, Principal)
           bc == OwedToBorrower(S, Collateral)
           V == Release(ReleaseLien(S.v), "borrowerProceeds", Borrower)
           W == PaidOut(V, Borrower, a, x)
           X == PaidOut(W, Borrower, r.asset, k)
           Y == PaidOut(X, Borrower, S.n.surplus.asset, z)
           b == [S.n.borrowerClaim EXCEPT !.claimed = TRUE]
           p == S.n.surplus.claimed \/ LaneOpen(S.n.surplus)
           s == [S.n.surplus EXCEPT !.claimed = p]
           T == [S EXCEPT !.v = Y, !.n.borrowerClaim.claimed = TRUE, !.n.surplus.claimed = p]
<1>1. S \in State /\ S.n \in Loan /\ Coherent(S.n) /\ S.n.status \in Closed /\ BorrowerSideOpen(S.n)
  BY DEF Valid, State, BorrowerMayClaim
<1>2. PICK rl, rh, rb : Stand(S.v, lp, lc, bp, bc, 0, 0, bc, rl, rh, rb) /\ Reserves(lp, lc, bp, rl, rh, rb)
  BY DEF Valid, Settles
<1>3. Fit(S.v)
  BY <1>2 DEF Stand
<1>4. k \in Nat /\ (k > 0 => r.asset = Collateral)
  BY <1>3, FitTypes DEF LienElsewhere, LienAmount, Fit, Kept
<1>5. k = IF r.live /\ r.asset # a THEN r.amount ELSE 0
  BY <1>3 DEF LienElsewhere, LienAmount, Fit, Kept
<1>6. /\ x \in Nat /\ z \in Nat /\ (x > 0 => a \in {Principal, Collateral})
      /\ (z > 0 => S.n.surplus.asset = Principal)
      /\ bp = Of(a, Principal, x) + z /\ bc = Of(a, Collateral, x) + k
  <2>1. a = S.n.borrowerClaim.asset /\ x = OpenAmount(S.n.borrowerClaim) /\ z = OpenAmount(S.n.surplus)
        /\ k = LienElsewhere(S)
    OBVIOUS
  <2> HIDE DEF a, x, z, k
  <2> QED BY <1>1, <1>4, <2>1, OpenBorrowerOwed
<1>7. BorrowerClaims(S) = SettledIf(T, S.n.lenderClaim.claimed \/ ~ LenderSideOpen(S.n))
  <2>1. W = IF LaneOpen(S.n.borrowerClaim) THEN PaidOut(V, Borrower, a, S.n.borrowerClaim.amount) ELSE V
    BY DEF PaidOut, OpenAmount
  <2>2. X = IF r.live /\ r.asset # a THEN PaidOut(W, Borrower, r.asset, r.amount) ELSE W
    BY <1>5 DEF PaidOut
  <2>3. Y = IF LaneOpen(S.n.surplus) THEN PaidOut(X, Borrower, S.n.surplus.asset, S.n.surplus.amount) ELSE X
    BY DEF PaidOut, OpenAmount
  <2> HIDE DEF W, X, Y, V, k
  <2> QED BY <2>1, <2>2, <2>3 DEF BorrowerClaims, V
<1> HIDE DEF lp, lc, bp, bc
<1>8. Stand(V, lp, lc, bp, bc, 0, 0, 0, rl, rh, 0)
  <2>1. Stand(ReleaseLien(S.v), lp, lc, bp, bc, 0, 0, 0, rl, rh, rb)
    BY <1>2, ReleaseLienStand
  <2> QED BY <2>1, ReleaseBorrowerStand
<1> HIDE DEF V, a, x, z, k, r
<1>9. Stand(W, lp, lc, bp - Of(a, Principal, x), bc - Of(a, Collateral, x), 0, 0, 0, rl, rh, 0)
  BY <1>6, <1>8, PaidOutStand
<1>10. bp - Of(a, Principal, x) = z /\ bc - Of(a, Collateral, x) = k
  BY <1>4, <1>6 DEF Of
<1> HIDE DEF W
<1>11. Stand(W, lp, lc, z, k, 0, 0, 0, rl, rh, 0)
  BY <1>9, <1>10
<1>12. Stand(X, lp, lc, z - Of(r.asset, Principal, k), k - Of(r.asset, Collateral, k), 0, 0, 0, rl, rh, 0)
  BY <1>4, <1>11, PaidOutStand
<1>13. z - Of(r.asset, Principal, k) = z /\ k - Of(r.asset, Collateral, k) = 0
  BY <1>4, <1>6, Cast DEF Of
<1> HIDE DEF X
<1>14. Stand(X, lp, lc, z, 0, 0, 0, 0, rl, rh, 0)
  BY <1>12, <1>13
<1> DEFINE t == S.n.surplus.asset
<1> HIDE DEF t
<1>15. Stand(Y, lp, lc, z - Of(t, Principal, z), 0 - Of(t, Collateral, z), 0, 0, 0, rl, rh, 0)
  <2>1. Stand(PaidOut(X, Borrower, t, z), lp, lc, z - Of(t, Principal, z), 0 - Of(t, Collateral, z), 0, 0, 0, rl, rh, 0)
    <3>1. z > 0 => t \in {Principal, Collateral}
      BY <1>6 DEF t
    <3> QED BY <1>6, <1>14, <3>1, PaidOutStand
  <2> QED BY <2>1 DEF t
<1>16. z - Of(t, Principal, z) = 0 /\ 0 - Of(t, Collateral, z) = 0
  <2>1. CASE z > 0
    <3>1. t = Principal
      BY <1>6, <2>1 DEF t
    <3>2. Of(t, Principal, z) = z /\ Of(t, Collateral, z) = 0
      BY <3>1, Cast DEF Of
    <3> QED BY <1>6, <3>2
  <2>2. CASE z = 0
    BY <2>2 DEF Of
  <2> QED BY <1>6, <2>1, <2>2
<1> HIDE DEF Y, T, p
<1>17. Stand(Y, lp, lc, 0, 0, 0, 0, 0, rl, rh, 0)
  BY <1>15, <1>16
<1>18. Y \in Vaults
  BY <1>17, FitTypes DEF Stand
<1>19. S.n.borrowerClaim \in Claim /\ S.n.surplus \in Claim /\ LaneOpen(S.n.surplus) \in BOOLEAN
  BY <1>1 DEF Loan, LaneOpen
<1>20. b \in Claim /\ b.claimed /\ b.asset = S.n.borrowerClaim.asset /\ b.amount = S.n.borrowerClaim.amount
  BY <1>19 DEF Claim
<1>21. /\ s \in Claim /\ s.asset = S.n.surplus.asset /\ s.amount = S.n.surplus.amount
       /\ s.claimed = p
  <2>1. p \in BOOLEAN
    BY DEF p
  <2> QED BY <1>19, <2>1 DEF Claim
<1>22. s.claimed \/ s.amount = 0
  <2>1. p <=> S.n.surplus.claimed \/ LaneOpen(S.n.surplus)
    BY DEF p
  <2> QED BY <1>19, <1>21, <2>1 DEF LaneOpen, Claim
<1>23. T.v = Y /\ T.n = [S.n EXCEPT !.borrowerClaim.claimed = TRUE, !.surplus.claimed = p]
       /\ T = [v |-> T.v, n |-> T.n]
  <2> DEFINE N == [S.n EXCEPT !.borrowerClaim.claimed = TRUE, !.surplus.claimed = p]
  <2>1. T = [S EXCEPT !.v = Y, !.n = N]
    BY <1>1 DEF State, T
  <2> HIDE DEF N
  <2>2. T.v = Y /\ T.n = N /\ T = [v |-> T.v, n |-> T.n]
    BY <1>1, <2>1 DEF State
  <2> QED BY <2>2 DEF N
<1>24. T.n = [S.n EXCEPT !.borrowerClaim = b, !.surplus = s]
  BY <1>1, <1>23 DEF Loan
<1> HIDE DEF b, s
<1>25. T.n \in Loan
  BY <1>1, <1>20, <1>21, <1>24 DEF Loan
<1>26. T \in State
  BY <1>18, <1>23, <1>25 DEF State
<1>27. Collects(S, T)
  BY <1>20, <1>21, <1>22, <1>24 DEF Collects
<1>28. Stand(T.v, lp, lc, 0, 0, 0, 0, 0, rl, rh, 0) /\ Reserves(lp, lc, 0, rl, rh, 0)
  BY <1>2, <1>17, <1>23 DEF Reserves
<1>29. lp = OwedToLender(S.n, Principal) /\ lc = OwedToLender(S.n, Collateral)
  BY DEF lp, lc
<1>30. Valid(SettledIf(T, S.n.lenderClaim.claimed \/ ~ LenderSideOpen(S.n)))
  BY <1>1, <1>26, <1>27, <1>28, <1>29, BorrowerPaidValid
<1> QED BY <1>7, <1>30

-----------------------------------------------------------------------------
(* The backstop.                                                           *)

LEMMA AbsorbedValid ==
    ASSUME NEW S, Valid(S), S.n.status = "FallbackPending"
    PROVE  Valid(Absorbed(S)) /\ Absorbed(S).n.status # "FallbackPending"
<1> DEFINE h == S.n.held
           s == S.n.surplus.amount
           c == S.n.collateral
           t == S.n.snap.treasury
           l == S.n.snap.lender
           e == (c - t) - l
           D == Disposed(S, Outside, l)
           B == Inactive(D)
           V == Release(Release(B.v, "lenderProceeds", Lender), "heldForLender", Lender)
           W == PaidOut(V, Lender, Principal, h)
           C == [B EXCEPT !.v = W, !.n.lenderClaim.claimed = TRUE, !.n.optIn = FALSE]
           T == FallbackDefaulted(C)
<1>1. PICK rl, rh, rb : StandsAt(S, h, 0, s, c, 0, 0, c, rl, rh, rb) /\ Reserves(h, 0, s, rl, rh, rb)
  BY PendingStand
<1>2. /\ S \in State /\ S.n \in Loan /\ OpenOver(S, h, s, c) /\ h \in Nat /\ s \in Nat /\ SurplusOpen(S) /\ l \in Nat
      /\ S.n.lenderClaim \in Claim /\ S.n.lenderClaim.asset = Collateral /\ S.n.borrowerClaim.asset = Collateral
  BY PendingTypes
<1>3. Absorbed(S) = SettledIf(T, ~ BorrowerSideOpen(T.n))
  BY DEF Absorbed
<1> HIDE DEF T, C, W, V, B, D, h, s, c, t, l, e
<1>4. /\ Emptied(S, D) /\ e \in Nat /\ (e = 0 => S.n.borrowerClaim.amount = 0)
      /\ StandsAt(D, h, 0, s, e, 0, 0, e, rl, rh, rb)
  <2>1. t = S.n.snap.treasury /\ l = S.n.snap.lender /\ e = (c - t) - l /\ Outside \in {Lender, Outside} /\ l <= l
    BY <1>2 DEF t, l, e
  <2>2. /\ Emptied(S, D) /\ e \in Nat /\ (e = 0 => S.n.borrowerClaim.amount = 0)
        /\ StandsAt(D, h, Of(Outside, Lender, l), s, e, 0, 0, e, rl, rh, rb)
    BY <1>1, <1>2, <2>1, DisposedStand DEF D
  <2>3. Of(Outside, Lender, l) = 0
    BY Cast DEF Of
  <2> QED BY <2>2, <2>3
<1>5. D \in State /\ D.n = [S.n EXCEPT !.custody = 0] /\ Stand(D.v, h, 0, s, e, 0, 0, e, rl, rh, rb)
  BY <1>4 DEF Emptied, StandsAt
<1>6. /\ D.n.lenderClaim = S.n.lenderClaim /\ D.n.status = "FallbackPending" /\ D.n.custody = 0
      /\ D.n.surplus = S.n.surplus /\ D.n.borrowerClaim = S.n.borrowerClaim
  BY <1>2, <1>5, PendingTypes DEF Loan
<1>7. /\ B \in State /\ B.v = D.v /\ ~ B.n.snap.active /\ B.n.status = "FallbackPending" /\ B.n.custody = 0
      /\ B.n.surplus = S.n.surplus /\ B.n.lenderClaim = S.n.lenderClaim /\ B.n.borrowerClaim = S.n.borrowerClaim
  BY <1>5, <1>6, InactiveStand DEF B
<1>8. Stand(V, h, 0, s, e, 0, 0, e, 0, 0, rb)
  <2>1. Stand(B.v, h, 0, s, e, 0, 0, e, rl, rh, rb)
    BY <1>5, <1>7
  <2>2. Stand(Release(B.v, "lenderProceeds", Lender), h, 0, s, e, 0, 0, e, 0, rh, rb)
    BY <2>1, ReleaseLenderStand
  <2> QED BY <2>2, ReleaseHeldStand DEF V
<1>9. Stand(W, 0, 0, s, e, 0, 0, e, 0, 0, rb)
  <2>1. h > 0 => Principal \in {Principal, Collateral}
    OBVIOUS
  <2>2. h \in Nat
    BY <1>2 DEF h
  <2>3. Stand(PaidOut(V, Lender, Principal, h), h - Of(Principal, Principal, h), 0 - Of(Principal, Collateral, h),
              s, e, 0, 0, e, 0, 0, rb)
    BY <1>8, <2>1, <2>2, PaidOutStand
  <2>4. h - Of(Principal, Principal, h) = 0 /\ 0 - Of(Principal, Collateral, h) = 0
    <3>1. Of(Principal, Principal, h) = h /\ Of(Principal, Collateral, h) = 0
      BY Cast, Zenon DEF Of
    <3> QED BY <2>2, <3>1
  <2> QED BY <2>3, <2>4 DEF W
<1>10. W \in Vaults
  BY <1>9, FitTypes DEF Stand
<1> DEFINE m == [B.n.lenderClaim EXCEPT !.claimed = TRUE]
<1>11. m \in Claim /\ m.claimed /\ m.asset = Collateral
  BY <1>2, <1>7 DEF Claim
<1>12. C.v = W /\ C.n = [B.n EXCEPT !.lenderClaim.claimed = TRUE, !.optIn = FALSE] /\ C = [v |-> C.v, n |-> C.n]
  <2> DEFINE N == [B.n EXCEPT !.lenderClaim.claimed = TRUE, !.optIn = FALSE]
  <2>1. C = [B EXCEPT !.v = W, !.n = N]
    BY <1>7 DEF State, C
  <2> HIDE DEF N
  <2>2. C.v = W /\ C.n = N /\ C = [v |-> C.v, n |-> C.n]
    BY <1>7, <2>1 DEF State
  <2> QED BY <2>2 DEF N
<1>13. C.n = [B.n EXCEPT !.lenderClaim = m, !.optIn = FALSE] /\ B.n \in Loan
  BY <1>7, <1>12 DEF State, Loan
<1> HIDE DEF m
<1>14. C.n \in Loan
  <2>1. FALSE \in BOOLEAN
    OBVIOUS
  <2> QED BY <1>11, <1>13, <2>1, ZenonT(60) DEF Loan
<1>15. C \in State
  BY <1>10, <1>12, <1>14 DEF State
<1>16. /\ C.n.lenderClaim = m /\ ~ C.n.snap.active /\ C.n.status = "FallbackPending" /\ C.n.custody = 0
       /\ C.n.surplus = S.n.surplus /\ C.n.borrowerClaim = S.n.borrowerClaim
  BY <1>7, <1>13 DEF Loan
<1>17. SurplusOpen(C) /\ C.n.surplus.amount = s /\ LienAmount(C.v) = e
  BY <1>2, <1>9, <1>12, <1>16 DEF SurplusOpen, s, Stand
<1>18. /\ T \in State /\ T.v = C.v /\ Coherent(T.n) /\ T.n.status = "Defaulted" /\ T.n.lenderClaim = m
       /\ OwedToBorrower(T, Principal) = s + 0 /\ OwedToBorrower(T, Collateral) = e
  <2>1. C.n.borrowerClaim.asset = Collateral /\ 0 = 0 /\ (e = 0 => C.n.borrowerClaim.amount = 0)
    BY <1>2, <1>4, <1>16
  <2>2. C.n.lenderClaim.amount > 0 => C.n.lenderClaim.asset \in {Principal, Collateral}
    BY <1>11, <1>16
  <2>3. 0 \in Nat
    OBVIOUS
  <2> QED BY <1>4, <1>15, <1>16, <1>17, <2>1, <2>2, <2>3, DefaultedOwes DEF T
<1>19. s + 0 = s
  BY <1>2 DEF s
<1>20. T.n.status \in Closed /\ T.n.lenderClaim.claimed
  BY <1>11, <1>18 DEF Closed
<1>21. Stand(T.v, 0, 0, s, e, 0, 0, e, 0, 0, rb) /\ (Principal = Vpfi => rb = s)
  BY <1>1, <1>9, <1>12, <1>18 DEF Reserves
<1>22. OwedToBorrower(T, Principal) = s /\ OwedToBorrower(T, Collateral) = e
  BY <1>18, <1>19
<1>23. SettledIf(T, ~ BorrowerSideOpen(T.n)).n.status # "FallbackPending"
  BY <1>18 DEF SettledIf, State, Loan
<1> QED BY <1>3, <1>18, <1>20, <1>21, <1>22, <1>23, FinishedValid

(* With nothing of the pledge outside the custody, a retry that succeeds   *)
(* leaves nothing under the lien.                                          *)
LEMMA BackstopRetryValid ==
    ASSUME NEW S, Valid(S), S.n.status = "FallbackPending", S.n.custody = S.n.collateral,
           Principal # Vpfi, NEW R \in RetrySucceeded(S)
    PROVE  LET T == [Inactive(R) EXCEPT !.n.status = "Defaulted"]
           IN  Valid(T) /\ T.n.status = "Defaulted"
<1> DEFINE h == S.n.held
           s == S.n.surplus.amount
           c == S.n.collateral
           B == Inactive(R)
           D == FallbackDefaulted(B)
<1>1. PICK rl, rh, rb : StandsAt(S, h, 0, s, c, 0, 0, c, rl, rh, rb) /\ Reserves(h, 0, s, rl, rh, rb)
  BY PendingStand
<1>2. /\ S \in State /\ S.n \in Loan /\ OpenOver(S, h, s, c) /\ h \in Nat /\ s \in Nat /\ SurplusOpen(S)
      /\ c - S.n.custody = 0
  BY PendingTypes
<1> HIDE DEF h, s, c, D
<1>3. PICK y, z, Q : /\ Within(y, MaxProceeds) /\ Within(z, MaxProceeds)
                     /\ Emptied(S, Q) /\ Paying(Q, R, y, z)
                     /\ StandsAt(R, h + y, 0, s + z, 0, 0, 0, 0, rl, rh, rb + IfVpfi(Principal, z))
  BY <1>1, <1>2, RetrySucceededStand
<1>4. y \in Nat /\ z \in Nat
  BY <1>3, FallbackLoanAssumption DEF Within
<1> DEFINE m == Pays(Principal, y)
           b == PaysIfAny(Principal, z)
<1>5. m \in Claim /\ m.amount = y /\ m.asset = Principal /\ ~ m.claimed
  BY <1>4, Cast, ClaimTypes
<1> HIDE DEF m, b
<1>6. Q.n = [S.n EXCEPT !.custody = 0] /\ R.n = [Q.n EXCEPT !.lenderClaim = m, !.borrowerClaim = b]
  BY <1>3 DEF Emptied, Paying, m, b
<1>7. Q.n.status = "FallbackPending" /\ Q.n.custody = 0 /\ Q.n.surplus = S.n.surplus /\ Q.n.held = h /\ Q.n \in Loan
  <2>1. 0 \in Nat
    OBVIOUS
  <2> QED BY <1>2, <1>6, <2>1 DEF Loan, h
<1>8. /\ R.n.lenderClaim = m /\ R.n.borrowerClaim = b /\ R.n.status = "FallbackPending" /\ R.n.custody = 0
      /\ R.n.surplus = S.n.surplus /\ R.n.held = h
  BY <1>6, <1>7 DEF Loan
<1>9. R \in State /\ Stand(R.v, h + y, 0, s + z, 0, 0, 0, 0, rl, rh, rb)
  <2>1. rb + IfVpfi(Principal, z) = rb
    <3>1. rb \in Nat
      BY <1>1, StandTypes DEF StandsAt
    <3> QED BY <3>1 DEF IfVpfi
  <2> QED BY <1>3, <2>1 DEF StandsAt
<1>10. SurplusOpen(R) /\ R.n.surplus.amount = s /\ LienAmount(R.v) = 0
  BY <1>2, <1>8, <1>9 DEF SurplusOpen, s, Stand
<1>11. /\ D \in State /\ D.v = R.v /\ Coherent(D.n) /\ D.n.status = "Defaulted"
       /\ D.n.lenderClaim = m /\ D.n.held = h
       /\ OwedToBorrower(D, Principal) = s + z /\ OwedToBorrower(D, Collateral) = 0
  <2>1. 0 \in Nat /\ R.n.borrowerClaim = PaysIfAny(Principal, z)
    BY <1>8 DEF b
  <2>2. R.n.lenderClaim.amount > 0 => R.n.lenderClaim.asset \in {Principal, Collateral}
    BY <1>5, <1>8
  <2> QED BY <1>4, <1>8, <1>9, <1>10, <2>1, <2>2, ResolvedOwes DEF D
<1>12. D.n.status \in Closed
  BY <1>11 DEF Closed
<1>13. OwedToLender(D.n, Principal) = y + h /\ OwedToLender(D.n, Collateral) = 0
  BY <1>5, <1>11, <1>12, Cast DEF OwedToLender
<1>14. y + h = h + y
  BY <1>2, <1>4 DEF h
<1>15. Reserves(h + y, 0, s + z, rl, rh, rb)
  BY <1>1 DEF Reserves
<1>16. Valid(D)
  BY <1>9, <1>11, <1>13, <1>14, <1>15 DEF Valid, Settles
<1>17. D = [B EXCEPT !.n.status = "Defaulted"]
  <2>1. B.v = R.v /\ B.n.status = "FallbackPending" /\ B \in State
    BY <1>8, <1>9, InactiveStand
  <2> DEFINE T == [B EXCEPT !.n.status = "Defaulted"]
  <2>2. T.v = R.v
    BY <2>1 DEF State
  <2>3. ~ LienAmount(T.v) > 0
    BY <1>10, <2>2
  <2>4. D = IF /\ T.n.status = "Defaulted" /\ LienAmount(T.v) > 0
               /\ T.n.borrowerClaim.amount = 0 \/ T.n.borrowerClaim.asset = Collateral
            THEN [T EXCEPT !.n.borrowerClaim = Pays(Collateral, LienAmount(T.v))] ELSE T
    BY <2>1 DEF D, FallbackDefaulted
  <2> QED BY <2>3, <2>4
<1> QED BY <1>11, <1>16, <1>17

LEMMA SharesKept ==
    ASSUME NEW n \in Loan, NEW m \in Loan, NEW k \in Loan, k.custody <= m.custody, m.custody <= n.custody,
           ShareKept(n, m), ShareKept(m, k)
    PROVE  ShareKept(n, k)
<1> DEFINE a == n.snap.lender
           b == m.snap.lender
           c == k.snap.lender
           x == n.custody
           y == m.custody
           z == k.custody
<1>1. a \in Nat /\ b \in Nat /\ c \in Nat /\ x \in Nat /\ y \in Nat /\ z \in Nat /\ z <= y
  BY DEF Loan, Snapshot
<1>2. b * x >= a * y /\ c * y >= b * z
  BY DEF ShareKept
<1> SUFFICES c * x >= a * z
  BY DEF ShareKept
<1> HIDE DEF a, b, c, x, y, z
<1>3. CASE y = 0
  <2>1. z = 0 /\ a * 0 = 0 /\ c * x \in Nat
    BY <1>1, <1>3
  <2> QED BY <2>1
<1>4. CASE y > 0
  <2>1. (a * y) * z <= (b * x) * z
    BY <1>1, <1>2, ProductBound
  <2>2. (b * z) * x <= (c * y) * x
    BY <1>1, <1>2, ProductBound
  <2>3. (a * y) * z = y * (a * z) /\ (b * x) * z = (b * z) * x /\ (c * y) * x = y * (c * x)
    BY <1>1
  <2>4. a * z \in Nat /\ c * x \in Nat
    BY <1>1
  <2>5. y * (a * z) <= y * (c * x)
    BY <1>1, <2>1, <2>2, <2>3, <2>4
  <2> DEFINE p == a * z
             q == c * x
  <2> HIDE DEF p, q
  <2>6. p \in Nat /\ q \in Nat /\ y * p <= y * q
    BY <2>4, <2>5 DEF p, q
  <2>7. y * p < y * q + y
    <3>1. y * p \in Nat /\ y * q \in Nat
      BY <1>1, <2>6
    <3> QED BY <1>1, <1>4, <2>6, <3>1
  <2>8. p <= q
    BY <1>1, <1>4, <2>6, <2>7, QuotientBound
  <2> QED BY <2>4, <2>8 DEF p, q
<1> QED BY <1>1, <1>3, <1>4

LEMMA BackstopClaimsValid ==
    ASSUME NEW S, Valid(S), S.n.status = "FallbackPending", TopUp(S) = 0, Principal # Vpfi,
           NEW T \in BackstopClaims(S)
    PROVE  /\ Valid(T)
           /\ T.n.status = "FallbackPending" => ShareKept(S.n, T.n)
<1> DEFINE Unpaid(A)  == A.n.snap.lender = 0 \/ A.n.snap.lenderDue = 0
           Taken(A)   == IF Unpaid(A) THEN {A}
                         ELSE IF A.n.snap.retried THEN {Absorbed(A)} ELSE {}
           Sold(A)    == {[Inactive(R) EXCEPT !.n.status = "Defaulted"] : R \in RetrySucceeded(Tried(A))}
           Failed(A)  == UNION {Taken(R) : R \in RetryFailed(Tried(A))}
           Retried(A) == IF A.n.snap.retried THEN {} ELSE Sold(A) \cup Failed(A)
           Result(A)  == IF ~ A.n.snap.active THEN {A} ELSE Taken(A) \cup Retried(A)
<1>1. T \in UNION {Result(A) : A \in AutoDispatch(S)}
  BY DEF BackstopClaims
<1> HIDE DEF Result
<1>2. PICK A \in AutoDispatch(S) : T \in Result(A)
  BY <1>1
<1>3. S.n.custody = S.n.collateral
  <2>1. PICK rl, rh, rb : StandsAt(S, S.n.held, 0, S.n.surplus.amount, S.n.collateral, 0, 0, S.n.collateral, rl, rh, rb)
    BY PendingStand
  <2>2. LienAmount(S.v) = S.n.collateral
    BY <2>1 DEF StandsAt, Stand
  <2>3. S \in State /\ OpenOver(S, S.n.held, S.n.surplus.amount, S.n.collateral)
    BY PendingTypes
  <2>4. S.n.custody \in Nat /\ S.n.collateral \in Nat /\ S.n.custody <= S.n.collateral
    BY <2>3, CustodyTypes
  <2> QED BY <2>2, <2>4 DEF TopUp, Excess
<1>4. Followed(S, A)
  BY AutoDispatchFollows DEF Open
<1>5. /\ Valid(A) /\ Coherent(A.n)
      /\ A.n.status = "FallbackPending" => A.n.custody = A.n.collateral
  <2>1. Valid(A) /\ Coherent(A.n)
    BY <1>4 DEF Followed, Valid
  <2>2. A.n.custody \in Nat /\ A.n.collateral \in Nat /\ S.n.custody \in Nat /\ S.n.collateral \in Nat
    BY <2>1 DEF Valid, State, Loan
  <2> QED BY <1>3, <1>4, <2>1, <2>2 DEF Followed, Spare
<1>6. ASSUME NEW R, Valid(R), R.n.status = "FallbackPending", T \in Taken(R), ShareKept(S.n, R.n)
      PROVE  /\ Valid(T)
             /\ T.n.status = "FallbackPending" => ShareKept(S.n, T.n)
  <2>1. T = R \/ T = Absorbed(R)
    BY <1>6
  <2> QED BY <1>6, <2>1, AbsorbedValid
<1> HIDE DEF Taken
<1>7. CASE ~ A.n.snap.active
  BY <1>2, <1>4, <1>5, <1>7 DEF Result, Followed
<1>8. CASE A.n.snap.active
  <2> DEFINE B == Tried(A)
  <2>1. A.n.status = "FallbackPending"
    BY <1>5, <1>8 DEF Coherent
  <2>2. Valid(B) /\ B.n.status = "FallbackPending" /\ B.n.custody = B.n.collateral
    BY <1>5, <2>1, TriedValid
  <2>3. /\ ShareKept(S.n, A.n) /\ ShareKept(S.n, B.n) /\ A.n.custody <= S.n.custody
        /\ B.n.custody <= S.n.custody
    BY <1>4, <1>5, <2>1, TriedValid DEF Followed, ShareKept
  <2>4. T \in Taken(A) \cup Sold(A) \cup Failed(A)
    BY <1>2, <1>8 DEF Result
  <2> HIDE DEF Sold, Failed
  <2>5. CASE T \in Taken(A)
    BY <1>5, <1>6, <2>1, <2>5, <2>3
  <2>6. CASE T \in Sold(A)
    <3>1. T \in {[Inactive(R) EXCEPT !.n.status = "Defaulted"] : R \in RetrySucceeded(B)}
      BY <2>6 DEF Sold
    <3> HIDE DEF B
    <3>2. PICK R \in RetrySucceeded(B) : T = [Inactive(R) EXCEPT !.n.status = "Defaulted"]
      BY <3>1
    <3> QED BY <2>2, <3>2, BackstopRetryValid
  <2>7. CASE T \in Failed(A)
    <3>1. T \in UNION {Taken(R) : R \in RetryFailed(B)}
      BY <2>7 DEF Failed
    <3> HIDE DEF B
    <3>2. PICK R \in RetryFailed(B) : T \in Taken(R)
      BY <3>1
    <3>3. /\ Valid(R) /\ R.n.status = "FallbackPending" /\ ShareKept(B.n, R.n)
          /\ R.n.custody <= B.n.custody
      BY <2>2, <3>2, RetryFailedFollows DEF Followed
    <3>4. S.n \in Loan /\ B.n \in Loan /\ R.n \in Loan
      BY <2>2, <3>3 DEF Valid, State
    <3>5. ShareKept(S.n, R.n)
      BY <2>3, <3>3, <3>4, SharesKept
    <3> QED BY <1>6, <3>2, <3>3, <3>5
  <2> QED BY <2>4, <2>5, <2>6, <2>7
<1> QED BY <1>7, <1>8

-----------------------------------------------------------------------------
(* What a party does to the own vault.                                     *)

LEMMA OptInValid ==
    ASSUME NEW S, Valid(S), NEW b \in BOOLEAN
    PROVE  Valid([S EXCEPT !.n.optIn = b])
<1> DEFINE T == [S EXCEPT !.n.optIn = b]
<1>1. S \in State /\ S.n \in Loan /\ S.v \in Vaults /\ Coherent(S.n)
  BY DEF Valid, State
<1>2. T.v = S.v /\ T.n = [S.n EXCEPT !.optIn = b] /\ T = [v |-> T.v, n |-> T.n]
  BY <1>1 DEF State
<1> HIDE DEF T
<1>3. /\ T.n.status = S.n.status /\ T.n.lenderClaim = S.n.lenderClaim /\ T.n.borrowerClaim = S.n.borrowerClaim
      /\ T.n.surplus = S.n.surplus /\ T.n.held = S.n.held /\ T.n.snap = S.n.snap /\ T.n.custody = S.n.custody
      /\ T.n.collateral = S.n.collateral /\ T.n \in Loan
  BY <1>1, <1>2 DEF Loan
<1>4. T \in State /\ Coherent(T.n)
  BY <1>1, <1>2, <1>3 DEF State, Coherent, SnapshotTotal
<1>5. \A a \in Assets : OwedToLender(T.n, a) = OwedToLender(S.n, a)
  BY <1>3 DEF OwedToLender
<1>6. \A a \in Assets : OwedToBorrower(T, a) = OwedToBorrower(S, a)
  BY <1>2, <1>3 DEF OwedToBorrower, BorrowerSideOpen
<1>7. Valid(T)
  BY <1>2, <1>4, <1>5, <1>6, Cast DEF Valid
<1> QED BY <1>7 DEF T

(* Only what nothing is owed out of has moved.                             *)
LEMMA UntouchedValid ==
    ASSUME NEW S, Valid(S), NEW W, Fit(W), SameBooks(S.v, W), SameMoney(S.v, W)
    PROVE  Valid([S EXCEPT !.v = W])
<1> DEFINE T == [S EXCEPT !.v = W]
           lp == OwedToLender(S.n, Principal)
           lc == OwedToLender(S.n, Collateral)
           bp == OwedToBorrower(S, Principal)
           bc == OwedToBorrower(S, Collateral)
<1>1. S \in State /\ S.n \in Loan /\ Coherent(S.n) /\ W \in Vaults
  BY FitTypes DEF Valid, State
<1>2. T.v = W /\ T.n = S.n /\ T \in State
  BY <1>1 DEF State
<1> HIDE DEF T
<1>3. \A a \in Assets : OwedToBorrower(T, a) = OwedToBorrower(S, a)
  BY <1>2 DEF OwedToBorrower, SameBooks
<1>4. PICK rl, rh, rb : Stand(S.v, lp, lc, bp, bc, 0, 0, bc, rl, rh, rb) /\ Reserves(lp, lc, bp, rl, rh, rb)
  BY DEF Valid, Settles
<1> HIDE DEF lp, lc, bp, bc
<1>5. Stand(W, lp, lc, bp, bc, 0, 0, bc, rl, rh, rb)
  BY <1>4 DEF Stand, SameBooks, SameLanes, SameMoney, Lanes, Holders
<1>6. Settles(T.v, lp, lc, bp, bc)
  BY <1>2, <1>4, <1>5 DEF Settles
<1>7. Valid(T)
  BY <1>1, <1>2, <1>3, <1>6, Cast DEF Valid, lp, lc, bp, bc
<1> QED BY <1>7 DEF T

(* The record of what the owner deposited goes down by x.                  *)
LEMMA SpendStep ==
    ASSUME NEW V, Fit(V), NEW u \in {Lender, Borrower}, NEW a \in Assets, NEW x \in Nat,
           x <= V.depository[<<u, a>>]
    PROVE  LET W == Spend(V, u, a, x)
           IN  /\ Fit(W) /\ SameBooks(V, W) /\ W.tracked = V.tracked /\ W.wallet = V.wallet
               /\ W.depository = [V.depository EXCEPT ![<<u, a>>] = @ - x]
<1> DEFINE W == Spend(V, u, a, x)
<1>1. V \in Vaults /\ Sane(V) /\ u \in Users
  BY FitTypes, Cast
<1>2. Follows(V, W)
  BY <1>1, DepositoryFollows
<1>3. V.depository \in [Keys -> Nat] /\ <<u, a>> \in Keys /\ V.depository[<<u, a>>] \in Nat
  BY <1>1 DEF Vaults, Keys
<1>4. Excess(V.depository[<<u, a>>], x) = V.depository[<<u, a>>] - x
  BY <1>3 DEF Excess
<1>5. W = [V EXCEPT !.depository[<<u, a>>] = V.depository[<<u, a>>] - x]
  BY <1>1, <1>4 DEF Spend, Vaults
<1>6. /\ W.tracked = V.tracked /\ W.wallet = V.wallet
      /\ W.depository = [V.depository EXCEPT ![<<u, a>>] = @ - x]
  BY <1>1, <1>5 DEF Vaults
<1> QED BY <1>2, <1>6, FollowsFits

(* x less in the vault and x less on the record.                           *)
LEMMA SpentMoney ==
    ASSUME NEW V, Fit(V), NEW W, Fit(W), NEW u \in {Lender, Borrower}, NEW a \in Assets, NEW x \in Nat,
           W.tracked = [V.tracked EXCEPT ![<<u, a>>] = @ - x],
           W.depository = [V.depository EXCEPT ![<<u, a>>] = @ - x],
           \A c \in Assets : W.wallet[<<Diamond, c>>] = V.wallet[<<Diamond, c>>]
    PROVE  SameMoney(V, W)
<1>1. V \in Vaults
  BY FitTypes
<1>2. V.tracked \in [Keys -> Int] /\ V.depository \in [Keys -> Nat]
  BY <1>1 DEF Vaults
<1> SUFFICES ASSUME NEW r \in Holders, NEW c \in Assets
             PROVE  Held(W, r, c) = Held(V, r, c)
  BY DEF SameMoney
<1>3. CASE r = Diamond
  BY <1>3 DEF Held
<1>4. CASE r # Diamond
  <2>1. <<r, c>> \in Keys /\ V.tracked[<<r, c>>] \in Int /\ V.depository[<<r, c>>] \in Nat
    BY <1>2, Cast DEF Keys, Holders
  <2>2. CASE r = u /\ c = a
    <3>1. W.tracked[<<r, c>>] = V.tracked[<<r, c>>] - x /\ W.depository[<<r, c>>] = V.depository[<<r, c>>] - x
      BY <1>2, <2>1, <2>2
    <3> QED BY <1>4, <2>1, <3>1 DEF Held
  <2>3. CASE ~ (r = u /\ c = a)
    <3>1. W.tracked[<<r, c>>] = V.tracked[<<r, c>>] /\ W.depository[<<r, c>>] = V.depository[<<r, c>>]
      BY <1>2, <2>1, <2>3
    <3> QED BY <1>4, <3>1 DEF Held
  <2> QED BY <2>2, <2>3
<1> QED BY <1>3, <1>4

LEMMA TakenOut ==
    ASSUME NEW V, Fit(V), NEW u \in {Lender, Borrower}, NEW a \in Assets, NEW x \in Nat
    PROVE  LET W == VaultWithdrawERC20(V, u, a, Outside, x)
           IN  /\ Fit(W) /\ SameBooks(V, W) /\ W.depository = V.depository
               /\ W.tracked = [V.tracked EXCEPT ![<<u, a>>] = @ - x]
               /\ \A c \in Assets : W.wallet[<<Diamond, c>>] = V.wallet[<<Diamond, c>>]
               /\ Ok(W) => Ok(V) /\ x <= Free(V, u, a)
<1> DEFINE U == [V EXCEPT !.tracked[<<u, a>>] = @ - x, !.wallet[<<Outside, a>>] = @ + x]
           g == x <= Free(V, u, a)
           W == VaultWithdrawERC20(V, u, a, Outside, x)
<1>0. Outside \in Users /\ u \in Users /\ V \in Vaults /\ Sane(V) /\ x \in Int
  BY Cast, FitTypes
<1>1. V.wallet \in [Keys -> Int] /\ V.tracked \in [Keys -> Int] /\ <<Outside, a>> \in Keys /\ <<u, a>> \in Keys
  BY <1>0 DEF Vaults, Keys
<1>2. Follows(V, W)
  BY <1>0, VaultWithdrawFollows
<1>3. W.tracked = [V.tracked EXCEPT ![<<u, a>>] = @ - x] /\ W.depository = V.depository
      /\ W.wallet = [V.wallet EXCEPT ![<<Outside, a>>] = @ + x]
  BY <1>0 DEF Vaults, VaultWithdrawERC20, Guarded, On
<1>4. U \in Vaults /\ U.ledger = V.ledger
  <2>1. /\ [V.wallet EXCEPT ![<<Outside, a>>] = @ + x] \in [Keys -> Int]
        /\ [V.tracked EXCEPT ![<<u, a>>] = @ - x] \in [Keys -> Int]
    BY <1>0, <1>1
  <2> QED BY <1>0, <2>1 DEF Vaults
<1>5. W = Guarded(U, g) /\ g \in BOOLEAN
  BY DEF VaultWithdrawERC20
<1>6. Ok(W) => g
  <2>1. Sane(U)
    BY <1>0, <1>4 DEF Sane
  <2> HIDE DEF U, W, g
  <2> QED BY <1>5, <2>1, GuardedFollows
<1> HIDE DEF W
<1>7. \A c \in Assets : W.wallet[<<Diamond, c>>] = V.wallet[<<Diamond, c>>]
  BY <1>1, <1>3, Cast DEF Keys
<1>8. Fit(W) /\ SameBooks(V, W)
  BY <1>2, FollowsFits
<1>9. Ok(W) => Ok(V)
  BY <1>2 DEF Follows
<1> QED BY <1>3, <1>6, <1>7, <1>8, <1>9 DEF W

LEMMA BooksTwice ==
    ASSUME NEW V, NEW W, NEW X, SameBooks(V, W), SameBooks(W, X)
    PROVE  SameBooks(V, X)
BY DEF SameBooks, SameLanes

(* Of what was deposited.                                                  *)
LEMMA WithdrawnValid ==
    ASSUME NEW S, Valid(S), NEW u \in {Lender, Borrower}, NEW a \in Assets, NEW x \in Nat,
           Ok(WithdrawFromVault(S.v, u, a, Outside, x))
    PROVE  /\ Valid([S EXCEPT !.v = WithdrawFromVault(S.v, u, a, Outside, x)])
           /\ LienAmount(WithdrawFromVault(S.v, u, a, Outside, x)) = LienAmount(S.v)
<1> DEFINE V == S.v
           g == x <= WithdrawableNow(V, u, a)
           V1 == Guarded(V, g)
           h == x <= V1.depository[<<u, a>>]
           V2 == Spend(V1, u, a, x)
           V3 == Guarded(V2, h)
           W == VaultWithdrawERC20(V3, u, a, Outside, x)
<1>1. WithdrawFromVault(V, u, a, Outside, x) = W /\ g \in BOOLEAN /\ h \in BOOLEAN
  BY DEF WithdrawFromVault, Debit, Spend
<1>2. Fit(V) /\ u \in Users
  BY Cast DEF Valid, Settles, Stand
<1> HIDE DEF g, V
<1>3. Fit(V1) /\ SameBooks(V, V1) /\ SameMoney(V, V1)
  BY <1>1, <1>2, GuardedStep
<1> HIDE DEF V1
<1>4. Follows(V1, V2)
  BY <1>2, <1>3, FitTypes, DepositoryFollows
<1>5. Fit(V2) /\ SameBooks(V1, V2)
  BY <1>3, <1>4, FollowsFits
<1>6. Fit(V3) /\ SameBooks(V2, V3) /\ (Ok(V3) => h)
  <2> HIDE DEF h, V2
  <2> QED BY <1>1, <1>5, GuardedStep
<1>7. V3.tracked = V2.tracked /\ V3.depository = V2.depository /\ V3.wallet = V2.wallet
  BY <1>5, FitTypes DEF Guarded, On, Vaults
<1> HIDE DEF V3
<1>8. /\ Fit(W) /\ SameBooks(V3, W) /\ W.depository = V3.depository
      /\ W.tracked = [V3.tracked EXCEPT ![<<u, a>>] = @ - x]
      /\ \A c \in Assets : W.wallet[<<Diamond, c>>] = V3.wallet[<<Diamond, c>>]
      /\ Ok(W) => Ok(V3)
  BY <1>6, TakenOut
<1> HIDE DEF W
<1>9. h
  <2>1. Ok(W)
    BY <1>1 DEF V
  <2> QED BY <1>6, <1>8, <2>1
<1>10. /\ V2.tracked = V1.tracked /\ V2.wallet = V1.wallet
       /\ V2.depository = [V1.depository EXCEPT ![<<u, a>>] = @ - x]
  BY <1>3, <1>9, SpendStep
<1> HIDE DEF V2
<1>11. SameMoney(V1, W)
  BY <1>3, <1>7, <1>8, <1>10, SpentMoney
<1>12. SameMoney(V, W) /\ SameBooks(V, W)
  BY <1>3, <1>5, <1>6, <1>8, <1>11, BooksTwice DEF SameMoney
<1>13. LienAmount(W) = LienAmount(V)
  BY <1>12 DEF SameBooks
<1> QED BY <1>1, <1>8, <1>12, <1>13, UntouchedValid DEF V

(* What is reserved or under the lien covers what the vault holds in VPFI  *)
(* beyond what was deposited.                                              *)
LEMMA VpfiBound ==
    ASSUME NEW S, Valid(S), Ok(S.v), NEW u \in {Lender, Borrower}
    PROVE  Free(S.v, u, Vpfi) <= S.v.depository[<<u, Vpfi>>]
<1> DEFINE V == S.v
           L == S.v.ledger
           k == <<u, Vpfi>>
           lp == OwedToLender(S.n, Principal)
           lc == OwedToLender(S.n, Collateral)
           bp == OwedToBorrower(S, Principal)
           bc == OwedToBorrower(S, Collateral)
<1>1. PICK rl, rh, rb : Stand(V, lp, lc, bp, bc, 0, 0, bc, rl, rh, rb) /\ Reserves(lp, lc, bp, rl, rh, rb)
  BY DEF Valid, Settles
<1> HIDE DEF lp, lc, bp, bc
<1>2. {lp, lc, bp, bc, 0} \subseteq Int /\ {bc, rl, rh, rb} \subseteq Nat
  BY <1>1, StandTypes
<1>3. Fit(V) /\ V \in Vaults /\ L \in Ledger /\ Balanced(L)
  BY <1>1, FitTypes DEF Stand, Sound, Ok
<1>4. k \in Keys /\ k[1] = u /\ k[2] = Vpfi /\ 1 \in Loans /\ u \in Users
  BY Cast DEF Keys
<1>5. L.encumbered[k] \in Nat /\ LoanTerm(L, 1, k) <= L.encumbered[k]
  BY <1>3, <1>4, RowsWithinAggregate
<1>6. Kept(V) /\ LienAmount(V) = bc /\ \A e \in Lanes : Lane(V, e).amount \in Nat
  BY <1>1, <1>3, FitTypes DEF Stand, Fit
<1> DEFINE A == LienTerm(L.loanCollateralLien[1], k)
           B == ReservedTerm(L, "lenderProceeds", 1, k)
           C == ReservedTerm(L, "heldForLender", 1, k)
           D == ReservedTerm(L, "borrowerProceeds", 1, k)
<1>7. A = IF u = Borrower /\ Collateral = Vpfi THEN bc ELSE 0
  <2>1. A = IF LienRow(V).live THEN At(k, LienRow(V).user, LienRow(V).asset, LienRow(V).amount) ELSE 0
    BY DEF LienTerm, LienRow
  <2>2. CASE ~ LienRow(V).live
    <3>1. bc = 0
      BY <1>6, <2>2 DEF LienAmount
    <3> QED BY <2>1, <2>2, <3>1
  <2>3. CASE LienRow(V).live
    <3>1. LienRow(V).user = Borrower /\ LienRow(V).asset = Collateral /\ LienRow(V).amount = bc
      BY <1>6, <2>3 DEF Kept, LienAmount
    <3>2. A = At(k, Borrower, Collateral, bc)
      BY <2>1, <2>3, <3>1
    <3>3. k = <<Borrower, Collateral>> <=> u = Borrower /\ Collateral = Vpfi
      OBVIOUS
    <3> QED BY <3>2, <3>3 DEF At
  <2> QED BY <2>2, <2>3
<1>8. ASSUME NEW e \in Lanes
      PROVE  ReservedTerm(L, e, 1, k) = IF u = LaneParty(e) /\ Vpfi = LaneAsset(e) THEN Lane(V, e).amount ELSE 0
  <2>1. Party(L, e, 1) = LaneParty(e)
    BY <1>6 DEF Kept, Party, LaneParty
  <2>2. ReservedTerm(L, e, 1, k) = At(k, LaneParty(e), Lane(V, e).asset, Lane(V, e).amount)
    BY <2>1 DEF ReservedTerm, Lane
  <2>3. Lane(V, e).amount > 0 => Lane(V, e).asset = LaneAsset(e)
    BY <1>6 DEF Kept, LaneAsset, Lanes
  <2>4. CASE Lane(V, e).amount = 0
    BY <2>2, <2>4 DEF At
  <2>5. CASE Lane(V, e).amount # 0
    <3>1. Lane(V, e).asset = LaneAsset(e)
      BY <1>6, <2>3, <2>5
    <3>2. k = <<LaneParty(e), LaneAsset(e)>> <=> u = LaneParty(e) /\ Vpfi = LaneAsset(e)
      OBVIOUS
    <3> QED BY <2>2, <3>1, <3>2 DEF At
  <2> QED BY <2>4, <2>5
<1>9. /\ B = IF u = Lender THEN rl ELSE 0
      /\ C = IF u = Lender /\ Principal = Vpfi THEN rh ELSE 0
      /\ D = IF u = Borrower /\ Principal = Vpfi THEN rb ELSE 0
  <2>1. /\ Lane(V, "lenderProceeds").amount = rl /\ Lane(V, "heldForLender").amount = rh
        /\ Lane(V, "borrowerProceeds").amount = rb
    BY <1>1 DEF Stand
  <2>2. {"lenderProceeds", "heldForLender", "borrowerProceeds"} \subseteq Lanes
    BY DEF Lanes
  <2> QED BY <1>8, <2>1, <2>2 DEF LaneParty, LaneAsset
<1>10. LoanTerm(L, 1, k) = A + B + C + D
  BY <1>3, <1>4, TermOfLoan
<1>11. Held(V, u, Vpfi) = IF u = Lender THEN Amt(Vpfi, lp, lc) ELSE Amt(Vpfi, bp, bc)
  BY <1>1, Cast DEF Stand
<1> HIDE DEF A, B, C, D
<1>12. Held(V, u, Vpfi) <= A + B + C + D
  BY <1>1, <1>2, <1>7, <1>9, <1>11, Cast DEF Reserves, Amt
<1>13. Held(V, u, Vpfi) = V.tracked[k] - V.depository[k] /\ V.tracked[k] \in Int /\ V.depository[k] \in Nat
  BY <1>3, <1>4, Cast DEF Held, Vaults
<1>14. Free(V, u, Vpfi) = Excess(V.tracked[k], L.encumbered[k])
  BY DEF Free, FreeBalance
<1>15. V.tracked[k] - V.depository[k] <= L.encumbered[k]
  BY <1>1, <1>2, <1>5, <1>7, <1>9, <1>10, <1>12, <1>13
<1> QED BY <1>5, <1>13, <1>14, <1>15 DEF Excess

(* Of whatever VPFI is free.                                               *)
LEMMA SpentValid ==
    ASSUME NEW S, Valid(S), NEW u \in {Lender, Borrower}, NEW x \in Nat,
           NEW W, W = Spend(VaultWithdrawERC20(S.v, u, Vpfi, Outside, x), u, Vpfi, x), Ok(W)
    PROVE  Valid([S EXCEPT !.v = W]) /\ LienAmount(W) = LienAmount(S.v)
<1> DEFINE V == S.v
           U == VaultWithdrawERC20(V, u, Vpfi, Outside, x)
<1>1. Fit(V) /\ u \in Users /\ Vpfi \in Assets
  BY Cast DEF Valid, Settles, Stand
<1>2. /\ Fit(U) /\ SameBooks(V, U) /\ U.depository = V.depository
      /\ U.tracked = [V.tracked EXCEPT ![<<u, Vpfi>>] = @ - x]
      /\ \A c \in Assets : U.wallet[<<Diamond, c>>] = V.wallet[<<Diamond, c>>]
      /\ Ok(U) => Ok(V) /\ x <= Free(V, u, Vpfi)
  <2> HIDE DEF V
  <2> QED BY <1>1, TakenOut
<1>3. W = Spend(U, u, Vpfi, x)
  OBVIOUS
<1> HIDE DEF U
<1>4. Follows(U, W)
  BY <1>1, <1>2, <1>3, FitTypes, DepositoryFollows
<1>5. Ok(V) /\ x <= Free(V, u, Vpfi)
  BY <1>2, <1>4 DEF Follows
<1>6. Free(V, u, Vpfi) <= V.depository[<<u, Vpfi>>]
  BY <1>5, VpfiBound
<1>7. V.depository[<<u, Vpfi>>] \in Nat /\ Free(V, u, Vpfi) \in Int
  <2>1. V \in Vaults /\ V.ledger \in Ledger /\ <<u, Vpfi>> \in Keys
    BY <1>1, FitTypes DEF Keys
  <2>2. V.tracked[<<u, Vpfi>>] \in Int /\ V.depository[<<u, Vpfi>>] \in Nat /\ V.ledger.encumbered[<<u, Vpfi>>] \in Int
    BY <2>1, SlackIsInt
  <2> QED BY <2>2 DEF Free, FreeBalance, Excess
<1>8. x <= U.depository[<<u, Vpfi>>]
  BY <1>2, <1>5, <1>6, <1>7
<1>9. /\ Fit(W) /\ SameBooks(U, W) /\ W.tracked = U.tracked /\ W.wallet = U.wallet
      /\ W.depository = [U.depository EXCEPT ![<<u, Vpfi>>] = @ - x]
  BY <1>1, <1>2, <1>3, <1>8, SpendStep
<1>10. SameMoney(V, W)
  BY <1>1, <1>2, <1>9, SpentMoney, SMTT(60)
<1>11. SameBooks(V, W)
  BY <1>2, <1>9, BooksTwice
<1>12. LienAmount(W) = LienAmount(V)
  BY <1>11 DEF SameBooks
<1> QED BY <1>9, <1>10, <1>11, <1>12, UntouchedValid DEF V

-----------------------------------------------------------------------------
(* The inductive invariant: the loan is valid in its vaults.               *)

Inv == Valid(Now) /\ Ok(vaults)

LEMMA Becoming ==
    ASSUME NEW S, Valid(S), Becomes(S)
    PROVE  Inv'
<1>1. S \in State
  BY DEF Valid
<1>2. S = [v |-> vaults', n |-> loan']
  BY <1>1 DEF State, Becomes
<1>3. Ok(vaults')
  BY DEF Becomes
<1> QED BY <1>2, <1>3 DEF Inv, Now

LEMMA NowIs == Now.v = vaults /\ Now.n = loan
BY DEF Now

LEMMA TriggerDefaultInv == ASSUME Inv, TriggerDefault PROVE Inv'
<1>1. Valid(Now) /\ Now.n.status = "Active" /\ Now.n.status \in Open
  BY NowIs DEF Inv, TriggerDefault, Open
<1>2. PICK S \in InternalMatches(Now) \cup UnpricedFallback(Now) \cup Sale(Now) \cup InKind(Now) :
         Becomes(S)
  BY DEF TriggerDefault
<1>3. Valid(S)
  <2>1. CASE S \in InternalMatches(Now)
    BY <1>1, <2>1, InternalMatchesFollow DEF Followed
  <2>2. CASE S \in UnpricedFallback(Now)
    BY <1>1, <2>2, UnpricedFallbackValid
  <2>3. CASE S \in Sale(Now)
    BY <1>1, <2>3, SaleValid
  <2>4. CASE S \in InKind(Now)
    BY <1>1, <2>4, InKindValid
  <2> QED BY <1>2, <2>1, <2>2, <2>3, <2>4
<1> QED BY <1>2, <1>3, Becoming

LEMMA TriggerLiquidationInv == ASSUME Inv, TriggerLiquidation PROVE Inv'
<1>1. Valid(Now) /\ Now.n.status = "Active" /\ Now.n.status \in Open
  BY NowIs DEF Inv, TriggerLiquidation, Open
<1>2. PICK S \in InternalMatches(Now) \cup Sale(Now) : Becomes(S)
  BY DEF TriggerLiquidation
<1>3. Valid(S)
  BY <1>1, <1>2, InternalMatchesFollow, SaleValid DEF Followed
<1> QED BY <1>2, <1>3, Becoming

LEMMA TriggerInternalMatchLiquidationInv == ASSUME Inv, TriggerInternalMatchLiquidation PROVE Inv'
<1>1. Valid(Now) /\ Now.n.status \in Open
  BY NowIs DEF Inv, TriggerInternalMatchLiquidation, Open
<1>2. PICK S \in InternalMatches(Now) : Becomes(S)
  BY DEF TriggerInternalMatchLiquidation
<1>3. Valid(S)
  BY <1>1, <1>2, InternalMatchesFollow DEF Followed
<1> QED BY <1>2, <1>3, Becoming

LEMMA SettlePeriodicInterestInv == ASSUME Inv, SettlePeriodicInterest PROVE Inv'
<1>1. Valid(Now) /\ Now.n.status = "Active"
  BY NowIs DEF Inv, SettlePeriodicInterest
<1>2. PICK s \in Openings(Now.n) : \E S \in PeriodicSale(Now, s[1], s[2]) : Becomes(S)
  BY NowIs DEF SettlePeriodicInterest
<1>3. PICK S \in PeriodicSale(Now, s[1], s[2]) : Becomes(S)
  BY <1>2
<1>4. s[1] \in Nat /\ s[2] \in Nat /\ s[1] <= Now.n.collateral
  <2>1. Now.n \in Loan /\ Now.n.collateral \in Nat
    BY <1>1 DEF Valid, State, Loan
  <2> QED BY <1>2, <2>1, OpeningTypes
<1>5. Valid(S)
  BY <1>1, <1>3, <1>4, PeriodicValid
<1> QED BY <1>3, <1>5, Becoming

LEMMA AddCollateralInv == ASSUME Inv, NEW x \in 1..MaxPledged, AddCollateral(x) PROVE Inv'
<1>1. x \in Nat
  BY FallbackLoanAssumption
<1>2. Valid(Now) /\ Now.n.status \in Open
  BY NowIs DEF Inv, AddCollateral, Open
<1>3. Valid(Topped(Now, x)) /\ Topped(Now, x).n.status = loan.status
  BY <1>1, <1>2, NowIs, ToppedValid
<1>4. CASE Becomes(Topped(Now, x))
  BY <1>3, <1>4, Becoming
<1>5. CASE loan.status = "FallbackPending" /\ Becomes(Cured(Topped(Now, x)))
  BY <1>3, <1>5, CuredValid, Becoming
<1> QED BY <1>4, <1>5 DEF AddCollateral

LEMMA ClaimAsLenderInv == ASSUME Inv, ClaimAsLender PROVE Inv'
<1>1. Valid(Now) /\ LenderMayClaim(Now.n)
  BY NowIs DEF Inv, ClaimAsLender
<1>2. PICK S \in LenderClaims(Now) : Becomes(S)
  BY DEF ClaimAsLender
<1> QED BY <1>1, <1>2, LenderClaimsValid, Becoming

LEMMA ClaimAsBorrowerInv == ASSUME Inv, ClaimAsBorrower PROVE Inv'
<1>1. Valid(Now) /\ BorrowerMayClaim(Now.n)
  BY NowIs DEF Inv, ClaimAsBorrower
<1>2. Becomes(BorrowerClaims(Now))
  BY DEF ClaimAsBorrower
<1> QED BY <1>1, <1>2, BorrowerClaimsValid, Becoming

LEMMA SetLenderBackstopOptInInv == ASSUME Inv, NEW b \in BOOLEAN, SetLenderBackstopOptIn(b) PROVE Inv'
<1>1. Becomes([Now EXCEPT !.n.optIn = b])
  BY DEF SetLenderBackstopOptIn
<1>2. Valid([Now EXCEPT !.n.optIn = b])
  BY OptInValid DEF Inv
<1> QED BY <1>1, <1>2, Becoming

LEMMA ClaimAsLenderViaBackstopInv == ASSUME Inv, ClaimAsLenderViaBackstop PROVE Inv'
<1>1. Valid(Now) /\ Now.n.status = "FallbackPending" /\ TopUp(Now) = 0 /\ Principal # Vpfi
  BY NowIs DEF Inv, ClaimAsLenderViaBackstop
<1>2. PICK S \in BackstopClaims(Now) : Becomes(S)
  BY DEF ClaimAsLenderViaBackstop
<1>3. Valid(S)
  BY <1>1, <1>2, BackstopClaimsValid
<1> QED BY <1>2, <1>3, Becoming

LEMMA WithdrawInv ==
    ASSUME Inv, NEW u \in {Lender, Borrower}, NEW a \in Assets, NEW x \in 1..Supply, Withdraw(u, a, x)
    PROVE  Inv' /\ LienAmount(vaults') = LienAmount(vaults)
<1> DEFINE W == WithdrawFromVault(Now.v, u, a, Outside, x)
           S == [Now EXCEPT !.v = W]
<1>1. Becomes(S) /\ S.v = W
  BY DEF Withdraw, Now
<1>2. Ok(W)
  BY <1>1 DEF Becomes
<1>3. Valid(Now) /\ x \in Nat
  BY FallbackLoanAssumption DEF Inv
<1>4. Valid(S) /\ LienAmount(S.v) = LienAmount(Now.v)
  BY <1>1, <1>2, <1>3, WithdrawnValid
<1>5. vaults' = S.v
  BY <1>1 DEF Becomes
<1> HIDE DEF S
<1> QED BY <1>1, <1>4, <1>5, NowIs, Becoming

LEMMA WithdrawVPFIInv ==
    ASSUME Inv, NEW u \in {Lender, Borrower}, NEW x \in 1..Supply, WithdrawVPFI(u, x)
    PROVE  Inv' /\ LienAmount(vaults') = LienAmount(vaults)
<1> DEFINE W == Spend(VaultWithdrawERC20(Now.v, u, Vpfi, Outside, x), u, Vpfi, x)
           S == [Now EXCEPT !.v = W]
<1>1. Becomes(S) /\ S.v = W
  BY DEF WithdrawVPFI, Now
<1>2. Ok(W)
  BY <1>1 DEF Becomes
<1>3. Valid(Now) /\ x \in Nat
  BY FallbackLoanAssumption DEF Inv
<1>4. Valid(S) /\ LienAmount(S.v) = LienAmount(Now.v)
  BY <1>1, <1>2, <1>3, SpentValid
<1>5. vaults' = S.v
  BY <1>1 DEF Becomes
<1> HIDE DEF S
<1> QED BY <1>1, <1>4, <1>5, NowIs, Becoming

LEMMA RepayLoanInv == ASSUME Inv, NEW x \in 0..MaxInterest, RepayLoan(x) PROVE Inv'
<1> DEFINE V == Now.v
           n == Now.n
           due == n.principal + x
           W == Repayment(V, due)
           l == Pays(Principal, due)
           b == Pays(Collateral, n.collateral)
           N == [n EXCEPT !.lenderClaim = l, !.borrowerClaim = b, !.status = "Repaid"]
           R == RequireVaultHeld(Now)
           p == Ok(R.v)
           S == [v |-> W, n |-> N]
           T == [v |-> Guarded(W, p), n |-> RepaidLoan(n, due, NoSnapshot, FALSE)]
<1>1. Valid(Now) /\ x \in Nat /\ n \in Loan /\ n.status \in Open /\ Now \in State
  BY NowIs, FallbackLoanAssumption DEF Inv, Valid, State, RepayLoan, Open
<1>2. R \in State /\ R.n = n
  <2>1. PICK h, s, c, rl, rh, rb : OpenOver(Now, h, s, c) /\ StandsAt(Now, h, 0, s, c, 0, 0, c, rl, rh, rb)
    BY <1>1, Opened
  <2> QED BY <2>1, RowStand DEF StandsAt, SameLoan, RequireVaultHeld
<1>3. p \in BOOLEAN
  BY <1>2 DEF Ok, State, Vaults, Ledger
<1>4. Becomes(IF n.status = "Active" THEN S ELSE T)
  <2> DEFINE A == [Now EXCEPT !.v = Repayment(@, due), !.n.lenderClaim = l, !.n.borrowerClaim = b,
                              !.n.status = "Repaid"]
             M == [N EXCEPT !.snap = NoSnapshot, !.custody = 0, !.optIn = FALSE]
             B == [R EXCEPT !.v = Guarded(A.v, Ok(@)), !.n = [A.n EXCEPT !.snap = NoSnapshot, !.custody = 0,
                                                                         !.optIn = FALSE]]
  <2>1. Becomes(IF n.status = "Active" THEN A ELSE B)
    BY NowIs DEF RepayLoan, Repayment
  <2>2. A = S
    <3>1. A = [Now EXCEPT !.v = W, !.n = N]
      <4> HIDE DEF l, b, due
      <4> QED BY <1>1 DEF State
    <3> HIDE DEF A, W, N
    <3> QED BY <1>1, <3>1 DEF State
  <2>3. M = RepaidLoan(n, due, NoSnapshot, FALSE)
    BY DEF RepaidLoan
  <2>4. B = T
    <3> DEFINE Q == Guarded(W, p)
    <3>1. Guarded(A.v, Ok(R.v)) = Q /\ [A.n EXCEPT !.snap = NoSnapshot, !.custody = 0, !.optIn = FALSE] = M
      <4>1. A.v = W /\ A.n = N
        BY <2>2
      <4> HIDE DEF A, W, N
      <4> QED BY <4>1
    <3> HIDE DEF A, R, M, Q
    <3>2. B = [R EXCEPT !.v = Q, !.n = M]
      BY <3>1
    <3> HIDE DEF B
    <3>3. B = [v |-> Q, n |-> M]
      BY <1>2, <3>2 DEF State
    <3> QED BY <2>3, <3>3 DEF Q
  <2> HIDE DEF A, B, S, T
  <2> QED BY <2>1, <2>2, <2>4
<1>5. CASE n.status = "Active"
  <2>1. n.custody = 0 /\ ~ n.snap.active /\ n.snap \in Snapshot /\ n.optIn \in BOOLEAN
    BY <1>1, <1>5 DEF Valid, Coherent, Loan
  <2>2. N = RepaidLoan(n, due, n.snap, n.optIn)
    <3> HIDE DEF due
    <3>1. N = [n EXCEPT !.lenderClaim = l, !.borrowerClaim = b, !.status = "Repaid",
                        !.snap = n.snap, !.custody = 0, !.optIn = n.optIn]
      <4> HIDE DEF n, l, b
      <4> QED BY <1>1, <2>1 DEF Loan
    <3> QED BY <3>1 DEF RepaidLoan
  <2>3. S.v = W /\ S.n = N /\ S = [v |-> S.v, n |-> S.n]
    OBVIOUS
  <2>4. Becomes(S)
    BY <1>4, <1>5
  <2> HIDE DEF S, W, N, due, p
  <2>5. S.v \in {W, Guarded(W, p)} /\ S.n = RepaidLoan(Now.n, due, n.snap, n.optIn)
    BY <2>2, <2>3
  <2>6. due = Now.n.principal + x /\ W = Repayment(Now.v, due)
    BY DEF due, W
  <2>7. Valid(S)
    BY <1>1, <1>3, <2>1, <2>3, <2>5, <2>6, RepaidValid
  <2> QED BY <2>4, <2>7, Becoming
<1>6. CASE n.status = "FallbackPending"
  <2>1. NoSnapshot \in Snapshot /\ ~ NoSnapshot.active /\ FALSE \in BOOLEAN
    BY DEF NoSnapshot, Snapshot
  <2>2. T.v = Guarded(W, p) /\ T.n = RepaidLoan(Now.n, due, NoSnapshot, FALSE) /\ T = [v |-> T.v, n |-> T.n]
    OBVIOUS
  <2>3. Becomes(T)
    BY <1>4, <1>6
  <2> HIDE DEF T, W, due, p
  <2>4. T.v \in {W, Guarded(W, p)}
    BY <2>2
  <2>5. due = Now.n.principal + x /\ W = Repayment(Now.v, due)
    BY DEF due, W
  <2>6. Valid(T)
    BY <1>1, <1>3, <2>1, <2>2, <2>4, <2>5, RepaidValid, ZenonT(60)
  <2> QED BY <2>3, <2>6, Becoming
<1> QED BY <1>1, <1>5, <1>6 DEF Open

LEMMA InitInv == ASSUME Init PROVE Inv
<1> DEFINE L == SetBorrower(SetLender(EmptyLedger, 1, Lender), 1, Borrower)
           M == CreateCollateralLien(L, 1, Collateral, Pledged)
           B == <<Borrower, Collateral>>
<1>1. 1 \in Loans /\ B \in Keys /\ Pledged \in Nat /\ Lent \in Nat /\ Supply \in Nat /\ Deposits \in [Keys -> Nat]
  BY Cast, FallbackLoanAssumption DEF Keys
<1>2. /\ Sound(EmptyLedger) /\ EmptyLedger.ok
      /\ \A e \in Lanes, l \in Loans : EmptyLedger.reserved[e][l].amount = 0
      /\ \A o \in Offers : ~ EmptyLedger.offerPrincipalLien[o].live
      /\ \A i \in Intents : EmptyLedger.intentCapital[i] = 0
      /\ \A p \in Asides, k \in Keys : EmptyLedger.setAside[p][1][k] = 0
      /\ ~ EmptyLedger.loanCollateralLien[1].live
  BY <1>1, EmptyBalanced DEF Sound, EmptyLedger, NoLien, NoReservation
<1>3. /\ Sound(L) /\ L.ok = EmptyLedger.ok
      /\ L.lender[1] = Lender /\ L.borrower[1] = Borrower
      /\ L.loanCollateralLien = EmptyLedger.loanCollateralLien
      /\ L.offerPrincipalLien = EmptyLedger.offerPrincipalLien
      /\ L.reserved = EmptyLedger.reserved /\ L.intentCapital = EmptyLedger.intentCapital
      /\ L.setAside = EmptyLedger.setAside
  <2>1. \A e \in Lanes : EmptyLedger.reserved[e][1].amount = 0
    BY <1>1, <1>2
  <2>2. Sound(EmptyLedger) /\ 1 \in Loans /\ Lender \in Users /\ Borrower \in Users
    BY <1>1, <1>2, Cast
  <2> QED BY ONLY <2>1, <2>2, SetPartiesSound
<1> HIDE DEF L
<1>4. /\ Grows(L, M)
      /\ M.offerPrincipalLien = L.offerPrincipalLien /\ M.reserved = L.reserved
      /\ M.intentCapital = L.intentCapital
      /\ M.setAside = L.setAside
      /\ M.loanCollateralLien[1] = [user |-> L.borrower[1], asset |-> Collateral, amount |-> Pledged, live |-> TRUE]
  BY <1>1, <1>3, Cast, CreateCollateralLienSound
<1>5. M.ok
  <2>1. L \in Ledger /\ L.ok /\ ~ L.loanCollateralLien[1].live
    BY <1>2, <1>3 DEF Sound
  <2> DEFINE r == [user |-> L.borrower[1], asset |-> Collateral, amount |-> Pledged, live |-> TRUE]
             C == [L EXCEPT !.loanCollateralLien[1] = r]
             D == [C EXCEPT !.encumbered[<<L.borrower[1], Collateral>>] = @ + Pledged]
  <2>2. M = Require(D, ~ L.loanCollateralLien[1].live)
    BY DEF CreateCollateralLien, RecreateCollateralLien, Raise, SetLien
  <2>3. C.ok = L.ok /\ C = [C EXCEPT !.ok = L.ok]
    BY <2>1 DEF Ledger
  <2>4. D = [D EXCEPT !.ok = L.ok] /\ D.ok = L.ok
    BY <2>1 DEF Ledger
  <2> HIDE DEF C, D, M
  <2>5. Require(D, ~ L.loanCollateralLien[1].live).ok = (D.ok /\ ~ L.loanCollateralLien[1].live)
    BY <2>4 DEF Require
  <2> QED BY <2>1, <2>2, <2>4, <2>5
<1>6. /\ vaults.ledger = M
      /\ vaults.tracked = [Deposits EXCEPT ![B] = @ + Pledged]
      /\ vaults.depository = Deposits
      /\ vaults.wallet = [k \in Keys |-> IF k[1] = Outside THEN Supply ELSE 0]
      /\ vaults = [ledger |-> vaults.ledger, tracked |-> vaults.tracked,
                   depository |-> vaults.depository, wallet |-> vaults.wallet]
  BY DEF Init, L
<1> HIDE DEF M
<1>7. Fit(vaults) /\ Ok(vaults)
  <2>1. M \in Ledger /\ Sound(M)
    BY <1>4 DEF Grows, Sound
  <2>2. /\ vaults.tracked \in [Keys -> Int] /\ vaults.depository \in [Keys -> Nat]
        /\ vaults.wallet \in [Keys -> Int]
    BY <1>1, <1>6
  <2>3. vaults \in Vaults
    BY <1>6, <2>1, <2>2 DEF Vaults
  <2>4. Sane(vaults)
    BY <1>6, <2>1, <2>3 DEF Sane
  <2>5. \A e \in Lanes : Lane(vaults, e).amount = 0
    BY <1>1, <1>2, <1>3, <1>4, <1>6 DEF Lane
  <2>6. vaults.ledger.lender[1] = Lender /\ vaults.ledger.borrower[1] = Borrower
    BY <1>3, <1>4, <1>6 DEF Grows, SameParties
  <2>7. LienRow(vaults).user = Borrower /\ LienRow(vaults).asset = Collateral
    BY <1>3, <1>4, <1>6 DEF LienRow
  <2>8. /\ \A o \in Offers : ~ vaults.ledger.offerPrincipalLien[o].live
        /\ \A i \in Intents : vaults.ledger.intentCapital[i] = 0
        /\ \A p \in Asides, k \in Keys : vaults.ledger.setAside[p][1][k] = 0
    BY <1>2, <1>3, <1>4, <1>6
  <2>9. Kept(vaults)
    BY <2>5, <2>6, <2>7, <2>8 DEF Kept, Lanes
  <2> QED BY <1>5, <1>6, <2>4, <2>9 DEF Fit, Ok
<1>8. Stand(vaults, 0, 0, 0, Pledged, 0, 0, Pledged, 0, 0, 0)
  <2>1. \A a \in Assets : /\ <<Lender, a>> \in Keys /\ <<Borrower, a>> \in Keys /\ <<Diamond, a>> \in Keys
                         /\ <<Lender, a>> # B /\ (<<Borrower, a>> = B <=> a = Collateral)
    BY Cast DEF Keys
  <2>7. \A k \in Keys : vaults.tracked[k] - vaults.depository[k] = IF k = B THEN Pledged ELSE 0
    <3> HIDE DEF B
    <3>1. ASSUME NEW k \in Keys PROVE vaults.tracked[k] = IF k = B THEN Deposits[k] + Pledged ELSE Deposits[k]
      BY <1>1, <1>6
    <3>2. ASSUME NEW k \in Keys PROVE vaults.depository[k] = Deposits[k] /\ Deposits[k] \in Nat
      BY <1>1, <1>6
    <3> QED BY <1>1, <3>1, <3>2
  <2>2. \A a \in Assets : Held(vaults, Lender, a) = 0
    <3> HIDE DEF B
    <3> QED BY <2>1, <2>7, Cast DEF Held
  <2>3. \A a \in Assets : Held(vaults, Borrower, a) = IF a = Collateral THEN Pledged ELSE 0
    <3> HIDE DEF B
    <3> QED BY <2>1, <2>7, Cast DEF Held
  <2>4. \A a \in Assets : Held(vaults, Diamond, a) = 0
    BY <1>1, <1>6, <2>1, Cast DEF Held
  <2>5. LienAmount(vaults) = Pledged
    BY <1>4, <1>6 DEF LienAmount, LienRow
  <2>6. \A e \in Lanes : Lane(vaults, e).amount = 0
    BY <1>1, <1>2, <1>3, <1>4, <1>6 DEF Lane
  <2> QED BY <1>7, <2>2, <2>3, <2>4, <2>5, <2>6, Cast DEF Stand, Amt, Lanes
<1>9. /\ loan.status = "Active" /\ loan.collateral = Pledged /\ loan.custody = 0 /\ loan.snap = NoSnapshot
      /\ loan.lenderClaim = NoClaim /\ loan.borrowerClaim = NoClaim /\ loan.surplus = NoClaim /\ loan.held = 0
  BY DEF Init
<1>10. loan \in Loan
  BY <1>1, FallbackLoanAssumption DEF Init, Loan, Statuses, NoSnapshot, Snapshot, NoClaim, Claim
<1>11. Now \in State /\ Now.n = loan /\ Now.v = vaults /\ Now.n.status \in Open
  BY <1>7, <1>9, <1>10, FitTypes DEF Now, State, Open
<1>12. Coherent(loan)
  BY <1>9, <1>10 DEF Coherent, NoSnapshot, NoClaim
<1>13. Reserves(0, 0, 0, 0, 0, 0)
  BY DEF Reserves
<1>14. loan.surplus.amount = 0
  BY <1>9 DEF NoClaim
<1>15. Valid(Now)
  BY <1>8, <1>9, <1>11, <1>12, <1>13, <1>14, OpenValid
<1> QED BY <1>7, <1>15 DEF Inv

LEMMA NextInv == ASSUME Inv, [Next]_vars PROVE Inv'
<1>1. CASE UNCHANGED vars
  BY <1>1 DEF vars, Inv, Now
<1>2. CASE TriggerDefault
  BY <1>2, TriggerDefaultInv
<1>3. CASE TriggerLiquidation
  BY <1>3, TriggerLiquidationInv
<1>4. CASE TriggerInternalMatchLiquidation
  BY <1>4, TriggerInternalMatchLiquidationInv
<1>5. CASE SettlePeriodicInterest
  BY <1>5, SettlePeriodicInterestInv
<1>6. ASSUME NEW x \in 0..MaxInterest, RepayLoan(x) PROVE Inv'
  BY <1>6, RepayLoanInv
<1>7. ASSUME NEW x \in 1..MaxPledged, AddCollateral(x) PROVE Inv'
  BY <1>7, AddCollateralInv
<1>8. CASE ClaimAsLender
  BY <1>8, ClaimAsLenderInv
<1>9. CASE ClaimAsBorrower
  BY <1>9, ClaimAsBorrowerInv
<1>10. ASSUME NEW b \in BOOLEAN, SetLenderBackstopOptIn(b) PROVE Inv'
  BY <1>10, SetLenderBackstopOptInInv
<1>11. CASE ClaimAsLenderViaBackstop
  BY <1>11, ClaimAsLenderViaBackstopInv
<1>12. ASSUME NEW u \in {Lender, Borrower}, NEW a \in Assets, NEW x \in 1..Supply, Withdraw(u, a, x)
       PROVE  Inv'
  BY <1>12, WithdrawInv
<1>13. ASSUME NEW u \in {Lender, Borrower}, NEW x \in 1..Supply, WithdrawVPFI(u, x) PROVE Inv'
  BY <1>13, WithdrawVPFIInv
<1> QED BY <1>1, <1>2, <1>3, <1>4, <1>5, <1>6, <1>7, <1>8, <1>9, <1>10, <1>11, <1>12, <1>13 DEF Next

(* Whatever path the loan takes, and whatever the parties do to their      *)
(* vaults meanwhile, it stays valid.                                       *)
THEOREM LoanInvariant == Spec => []Inv
<1>1. Init => Inv
  BY InitInv
<1>2. Inv /\ [Next]_vars => Inv'
  BY NextInv
<1> QED BY <1>1, <1>2, PTL DEF Spec

(* No handler leaves an amount that is negative or a field that is not one *)
(* of its values.                                                          *)
THEOREM LoanTypeCorrect == Spec => []TypeOK
<1>1. Inv => TypeOK
  BY DEF Inv, Valid, State, Now, TypeOK
<1> QED BY <1>1, LoanInvariant, PTL

(* The aggregates the withdraw guard trusts are at all times the sums of   *)
(* the loan's lien and of its reservations.                                *)
THEOREM LoanLedgerStaysBalanced == Spec => []LedgerBalanced
<1>1. Inv => LedgerBalanced
  <2> SUFFICES ASSUME Inv PROVE LedgerBalanced
    OBVIOUS
  <2>1. Fit(vaults)
    BY NowIs DEF Inv, Valid, Settles, Stand
  <2> QED BY <2>1, FitTypes DEF Sound, LedgerBalanced, Inv, Ok
<1> QED BY <1>1, LoanInvariant, PTL

(* Of any asset that is neither the principal nor the collateral nothing   *)
(* is owed.                                                                *)
LEMMA OtherOwes ==
    ASSUME NEW S \in State, Coherent(S.n), NEW a \in Assets, a \notin {Principal, Collateral}
    PROVE  OwedToLender(S.n, a) = 0 /\ OwedToBorrower(S, a) = 0
<1>1. /\ S.n.lenderClaim.amount \in Nat /\ S.n.borrowerClaim.amount \in Nat /\ S.n.surplus.amount \in Nat
  BY DEF State, Loan, Claim
<1>2. OwedToLender(S.n, a) = 0
  BY <1>1 DEF OwedToLender, Coherent
<1>3. ~ (LaneOpen(S.n.borrowerClaim) /\ S.n.borrowerClaim.asset = a)
  BY <1>1 DEF LaneOpen, Coherent
<1>4. ~ (LaneOpen(S.n.surplus) /\ S.n.surplus.asset = a)
  BY <1>1, Cast DEF LaneOpen, Coherent
<1>5. OwedToBorrower(S, a) = 0
  BY <1>3, <1>4 DEF OwedToBorrower
<1> QED BY <1>2, <1>5

(* Nothing is stranded and nothing is short, in any asset, after any       *)
(* sequence of calls: a vault holds what its owner has deposited plus what *)
(* the claims will pay out of it, to the unit.                             *)
THEOREM VaultsAlwaysHoldWhatIsOwed == Spec => []VaultsHoldWhatIsOwed
<1>1. Inv => VaultsHoldWhatIsOwed
  <2> SUFFICES ASSUME Inv, NEW a \in Assets
               PROVE  /\ vaults.tracked[<<Lender, a>>] = vaults.depository[<<Lender, a>>] + OwedToLender(loan, a)
                      /\ vaults.tracked[<<Borrower, a>>] = vaults.depository[<<Borrower, a>>] + OwedToBorrower(Now, a)
                      /\ vaults.wallet[<<Diamond, a>>] = 0
    BY DEF VaultsHoldWhatIsOwed
  <2> DEFINE lp == OwedToLender(Now.n, Principal)
             lc == OwedToLender(Now.n, Collateral)
             bp == OwedToBorrower(Now, Principal)
             bc == OwedToBorrower(Now, Collateral)
  <2>1. Now \in State /\ Coherent(Now.n)
    BY DEF Inv, Valid
  <2>2. PICK rl, rh, rb : Stand(Now.v, lp, lc, bp, bc, 0, 0, bc, rl, rh, rb)
    BY DEF Inv, Valid, Settles
  <2>3. OwedToLender(Now.n, a) = Amt(a, lp, lc) /\ OwedToBorrower(Now, a) = Amt(a, bp, bc)
    BY <2>1, OtherOwes DEF Amt
  <2> HIDE DEF lp, lc, bp, bc
  <2>4. /\ Held(vaults, Lender, a) = Amt(a, lp, lc) /\ Held(vaults, Borrower, a) = Amt(a, bp, bc)
        /\ Held(vaults, Diamond, a) = 0 /\ vaults \in Vaults
    BY <2>2, NowIs, FitTypes DEF Stand, Amt
  <2>5. /\ vaults.tracked[<<Lender, a>>] \in Int /\ vaults.depository[<<Lender, a>>] \in Int
        /\ vaults.tracked[<<Borrower, a>>] \in Int /\ vaults.depository[<<Borrower, a>>] \in Int
    BY <2>4, Cast DEF Vaults, Keys
  <2>6. /\ vaults.tracked[<<Lender, a>>] = vaults.depository[<<Lender, a>>] + Amt(a, lp, lc)
        /\ vaults.tracked[<<Borrower, a>>] = vaults.depository[<<Borrower, a>>] + Amt(a, bp, bc)
        /\ vaults.wallet[<<Diamond, a>>] = 0
    BY <2>4, <2>5, Cast DEF Held
  <2> QED BY <2>3, <2>6, NowIs
<1> QED BY <1>1, LoanInvariant, PTL

(* A pending fallback never loses track of what is in custody, and no      *)
(* other loan has anything there: no call can meet a legacy snapshot.      *)
THEOREM CustodyStaysSnapshot == Spec => []CustodyIsSnapshot
<1>1. Inv => CustodyIsSnapshot
  BY NowIs DEF Inv, Valid, Coherent, CustodyIsSnapshot
<1> QED BY <1>1, LoanInvariant, PTL

(* While the loan is open no unit of its pledge can be withdrawn: all of   *)
(* it is under the lien.                                                   *)
THEOREM PledgeStaysUnderLien == Spec => []PledgeUnderLien
<1>1. Inv => PledgeUnderLien
  <2> SUFFICES ASSUME Inv, loan.status \in {"Active", "FallbackPending"} PROVE LienAmount(vaults) = loan.collateral
    BY DEF PledgeUnderLien
  <2>1. Valid(Now) /\ Now.n.status \in Open
    BY NowIs DEF Inv, Open
  <2>2. LienAmount(Now.v) = Now.n.collateral
    BY <2>1, OpenStand DEF Stand
  <2> QED BY <2>2, NowIs
<1> QED BY <1>1, LoanInvariant, PTL

-----------------------------------------------------------------------------
(* What a step may do to a pending fallback.                               *)

LEMMA LienIsOwed ==
    ASSUME NEW S, Valid(S)
    PROVE  LienAmount(S.v) = OwedToBorrower(S, Collateral) /\ LienAmount(S.v) \in Nat
<1>1. PICK rl, rh, rb : Stand(S.v, OwedToLender(S.n, Principal), OwedToLender(S.n, Collateral),
                              OwedToBorrower(S, Principal), OwedToBorrower(S, Collateral), 0, 0,
                              OwedToBorrower(S, Collateral), rl, rh, rb)
  BY DEF Valid, Settles
<1>2. LienAmount(S.v) = OwedToBorrower(S, Collateral)
  BY <1>1 DEF Stand
<1>3. LienAmount(S.v) \in Nat
  BY <1>1, StandTypes, <1>2
<1> QED BY <1>2, <1>3

LEMMA NextNow ==
    ASSUME Inv'
    PROVE  \E T : Valid(T) /\ T.v = vaults' /\ T.n = loan'
<1> DEFINE T == [v |-> vaults', n |-> loan']
<1>1. Valid(T) /\ T.v = vaults' /\ T.n = loan'
  BY DEF Inv, Now
<1> QED BY <1>1

(* What has been topped up is what is pledged beyond the custody.          *)
LEMMA TopUpIsSpare ==
    ASSUME NEW S, Valid(S), S.n.status = "FallbackPending"
    PROVE  TopUp(S) = Spare(S.n) /\ S.n.custody \in Nat /\ S.n.collateral \in Nat /\ S.n.custody <= S.n.collateral
<1>1. S \in State /\ OpenOver(S, S.n.held, S.n.surplus.amount, S.n.collateral) /\ S.n.collateral \in Nat
  BY PendingTypes
<1>2. S.n.custody \in Nat /\ S.n.custody <= S.n.collateral
  BY <1>1, CustodyTypes
<1>3. LienAmount(S.v) = S.n.collateral
  BY OpenStand DEF Open, Stand
<1> QED BY <1>1, <1>2, <1>3 DEF TopUp, Excess, Spare

LEMMA RepaidStep ==
    ASSUME Inv, NEW x \in 0..MaxInterest, RepayLoan(x)
    PROVE  loan'.status = "Repaid" /\ loan'.borrowerClaim = Pays(Collateral, loan.collateral)
<1>1. loan \in Loan
  BY NowIs DEF Inv, Valid, State
<1> DEFINE N == [loan EXCEPT !.lenderClaim = Pays(Principal, loan.principal + x),
                             !.borrowerClaim = Pays(Collateral, loan.collateral), !.status = "Repaid"]
<1>2. loan' = N \/ loan' = [N EXCEPT !.snap = NoSnapshot, !.custody = 0, !.optIn = FALSE]
  BY NowIs DEF RepayLoan, Becomes, Now
<1> QED BY <1>1, <1>2 DEF Loan

(* The steps that leave the loan and its rows in the ledger as they are,   *)
(* or only add to the pledge.                                              *)
LEMMA WithdrawnStep ==
    ASSUME Inv, NEW u \in {Lender, Borrower}, NEW a \in Assets, NEW x \in 1..Supply,
           Withdraw(u, a, x) \/ WithdrawVPFI(u, x)
    PROVE  loan' = loan
BY NowIs DEF Withdraw, WithdrawVPFI, Becomes, Now

LEMMA OptInStep ==
    ASSUME Inv, NEW b \in BOOLEAN, SetLenderBackstopOptIn(b)
    PROVE  /\ loan'.status = loan.status /\ loan'.collateral = loan.collateral
           /\ loan'.snap = loan.snap /\ loan'.custody = loan.custody
<1>1. loan \in Loan
  BY NowIs DEF Inv, Valid, State
<1>2. loan' = [loan EXCEPT !.optIn = b]
  BY DEF SetLenderBackstopOptIn, Becomes, Now
<1> QED BY <1>1, <1>2 DEF Loan

LEMMA AddedStep ==
    ASSUME Inv, NEW x \in 1..MaxPledged, AddCollateral(x)
    PROVE  /\ loan'.status \in Open /\ loan'.collateral >= loan.collateral
           /\ loan'.status = "FallbackPending" => loan'.snap = loan.snap /\ loan'.custody = loan.custody
<1>1. loan \in Loan /\ x \in Nat
  BY NowIs, FallbackLoanAssumption DEF Inv, Valid, State
<1> DEFINE N == [loan EXCEPT !.collateral = @ + x]
<1>2. \/ loan' = N /\ loan.status \in Open
      \/ loan' = [N EXCEPT !.status = "Active", !.snap = NoSnapshot, !.custody = 0,
                           !.lenderClaim = NoClaim, !.borrowerClaim = NoClaim, !.optIn = FALSE]
  BY ZenonT(60) DEF AddCollateral, Becomes, Topped, Cured, RequireVaultHeld, RequireSnapshotMatchesRow, Now, Open
<1>3. "Active" # "FallbackPending" /\ "Active" \in Open
  BY DEF Open
<1>4. loan.collateral + x >= loan.collateral
  BY <1>1 DEF Loan
<1> QED BY <1>1, <1>2, <1>3, <1>4 DEF Loan

LEMMA StepKeepsTopUp ==
    ASSUME Inv, [Next]_vars, loan.status = "FallbackPending"
    PROVE  LienAmount(vaults') >= TopUp(Now)
<1>1. Valid(Now) /\ Now.n.status = "FallbackPending" /\ Now.n.status \in Open
  BY NowIs DEF Inv, Open
<1>2. /\ TopUp(Now) = Spare(loan) /\ loan.custody \in Nat /\ loan.collateral \in Nat
      /\ Spare(loan) \in Int /\ loan.collateral >= Spare(loan)
  BY <1>1, TopUpIsSpare, NowIs DEF Spare
<1>3. PICK T : Valid(T) /\ T.v = vaults' /\ T.n = loan'
  BY NextInv, NextNow
<1>4. LienAmount(vaults') \in Nat /\ LienAmount(vaults') = OwedToBorrower(T, Collateral)
  BY <1>3, LienIsOwed
<1>5. ASSUME loan'.status \in Open, loan'.collateral >= loan.collateral
      PROVE  LienAmount(vaults') >= TopUp(Now)
  <2>1. LienAmount(vaults') = loan'.collateral
    BY <1>3, <1>5, OpenStand DEF Stand
  <2> QED BY <1>2, <1>4, <1>5, <2>1
<1>6. CASE UNCHANGED vars
  BY <1>1, <1>2, <1>5, <1>6, NowIs DEF vars
<1>7. CASE TriggerDefault \/ TriggerLiquidation \/ SettlePeriodicInterest
  BY <1>7 DEF TriggerDefault, TriggerLiquidation, SettlePeriodicInterest
<1>8. CASE TriggerInternalMatchLiquidation
  <2>1. PICK S \in InternalMatches(Now) : Becomes(S)
    BY <1>8 DEF TriggerInternalMatchLiquidation
  <2> QED BY <1>1, <1>2, <2>1, InternalMatchesFollow, NowIs DEF Followed, Becomes
<1>9. ASSUME NEW x \in 0..MaxInterest, RepayLoan(x)
      PROVE  LienAmount(vaults') >= TopUp(Now)
  <2>1. T.n.status = "Repaid" /\ T.n.borrowerClaim = Pays(Collateral, loan.collateral) /\ T \in State
    BY <1>3, <1>9, RepaidStep DEF Valid
  <2>2. T.n.surplus.amount \in Nat
    BY <2>1 DEF State, Loan, Claim
  <2>3. OwedToBorrower(T, Collateral) >= loan.collateral
    BY <1>2, <2>1, <2>2 DEF OwedToBorrower, LaneOpen, Pays, Closed
  <2> QED BY <1>2, <1>4, <2>3 DEF Spare
<1>10. ASSUME NEW x \in 1..MaxPledged, AddCollateral(x)
       PROVE  LienAmount(vaults') >= TopUp(Now)
  BY <1>5, <1>10, AddedStep
<1>11. CASE ClaimAsLender
  <2>1. PICK S \in LenderClaims(Now) : Becomes(S)
    BY <1>11 DEF ClaimAsLender
  <2>2. LenderMayClaim(Now.n)
    BY <1>11, NowIs DEF ClaimAsLender
  <2> QED BY <1>1, <1>2, <2>1, <2>2, LenderClaimsValid, NowIs DEF Becomes
<1>12. CASE ClaimAsBorrower
  BY <1>12 DEF ClaimAsBorrower, BorrowerMayClaim, Closed
<1>13. ASSUME NEW b \in BOOLEAN, SetLenderBackstopOptIn(b)
       PROVE  LienAmount(vaults') >= TopUp(Now)
  BY <1>1, <1>2, <1>5, <1>13, OptInStep, NowIs
<1>14. CASE ClaimAsLenderViaBackstop
  BY <1>4, <1>14 DEF ClaimAsLenderViaBackstop
<1>15. ASSUME NEW u \in {Lender, Borrower}, NEW a \in Assets, NEW x \in 1..Supply,
              Withdraw(u, a, x) \/ WithdrawVPFI(u, x)
       PROVE  LienAmount(vaults') >= TopUp(Now)
  BY <1>1, <1>2, <1>5, <1>15, WithdrawnStep, NowIs
<1>16. ASSUME NEW u \in {Lender, Borrower}, NEW x \in 1..Supply, WithdrawVPFI(u, x)
       PROVE  LienAmount(vaults') >= TopUp(Now)
  BY <1>15, <1>16, Cast
<1> QED BY <1>6, <1>7, <1>8, <1>9, <1>10, <1>11, <1>12, <1>13, <1>14, <1>15, <1>16 DEF Next

LEMMA StepKeepsLenderShare ==
    ASSUME Inv, [Next]_vars, loan.status = "FallbackPending", loan'.status = "FallbackPending"
    PROVE  ShareKept(loan, loan')
<1>1. Valid(Now) /\ Now.n.status = "FallbackPending" /\ Now.n.status \in Open
  BY NowIs DEF Inv, Open
<1>2. loan.custody \in Nat /\ loan.snap.lender \in Nat
  BY <1>1, TopUpIsSpare, PendingTypes, NowIs
<1>3. ASSUME loan'.snap = loan.snap, loan'.custody = loan.custody
      PROVE  ShareKept(loan, loan')
  <2>1. loan.snap.lender * loan.custody >= loan.snap.lender * loan.custody
    BY <1>2
  <2> QED BY <1>3, <2>1 DEF ShareKept
<1>4. CASE UNCHANGED vars
  BY <1>3, <1>4 DEF vars
<1>5. CASE TriggerDefault \/ TriggerLiquidation \/ SettlePeriodicInterest
  BY <1>5 DEF TriggerDefault, TriggerLiquidation, SettlePeriodicInterest
<1>6. CASE TriggerInternalMatchLiquidation
  <2>1. PICK S \in InternalMatches(Now) : Becomes(S)
    BY <1>6 DEF TriggerInternalMatchLiquidation
  <2> QED BY <1>1, <2>1, InternalMatchesFollow, NowIs DEF Followed, Becomes
<1>7. ASSUME NEW x \in 0..MaxInterest, RepayLoan(x) PROVE ShareKept(loan, loan')
  BY <1>7, RepaidStep
<1>8. ASSUME NEW x \in 1..MaxPledged, AddCollateral(x) PROVE ShareKept(loan, loan')
  BY <1>3, <1>8, AddedStep
<1>9. CASE ClaimAsLender
  <2>1. PICK S \in LenderClaims(Now) : Becomes(S)
    BY <1>9 DEF ClaimAsLender
  <2>2. LenderMayClaim(Now.n)
    BY <1>9, NowIs DEF ClaimAsLender
  <2> QED BY <1>1, <2>1, <2>2, LenderClaimsValid DEF Becomes
<1>10. CASE ClaimAsBorrower
  BY <1>10 DEF ClaimAsBorrower, BorrowerMayClaim, Closed
<1>11. ASSUME NEW b \in BOOLEAN, SetLenderBackstopOptIn(b) PROVE ShareKept(loan, loan')
  BY <1>3, <1>11, OptInStep
<1>12. CASE ClaimAsLenderViaBackstop
  <2>1. PICK S \in BackstopClaims(Now) : Becomes(S)
    BY <1>12 DEF ClaimAsLenderViaBackstop
  <2>2. TopUp(Now) = 0 /\ Principal # Vpfi
    BY <1>12 DEF ClaimAsLenderViaBackstop
  <2> QED BY <1>1, <2>1, <2>2, BackstopClaimsValid, NowIs DEF Becomes
<1>13. ASSUME NEW u \in {Lender, Borrower}, NEW a \in Assets, NEW x \in 1..Supply,
              Withdraw(u, a, x) \/ WithdrawVPFI(u, x)
       PROVE  ShareKept(loan, loan')
  BY <1>3, <1>13, WithdrawnStep
<1>14. ASSUME NEW u \in {Lender, Borrower}, NEW x \in 1..Supply, WithdrawVPFI(u, x) PROVE ShareKept(loan, loan')
  BY <1>13, <1>14, Cast
<1> QED BY <1>4, <1>5, <1>6, <1>7, <1>8, <1>9, <1>10, <1>11, <1>12, <1>13, <1>14 DEF Next

(* What a borrower adds to a pledge that is being sold is never sold: it   *)
(* is still under the lien after whatever call resolves the fallback.      *)
THEOREM TopUpStaysKept == Spec => TopUpKept
<1>1. Inv /\ [Next]_vars => [loan.status = "FallbackPending" => LienAmount(vaults') >= TopUp(Now)]_vars
  BY StepKeepsTopUp
<1> QED BY <1>1, LoanInvariant, PTL DEF Spec, TopUpKept

(* However often a pending fallback is matched in part, retried or cut     *)
(* short by what a token keeps, the lender's part of the custody never     *)
(* becomes smaller.                                                        *)
THEOREM LenderShareStaysKept == Spec => LenderShareKept
<1>1. Inv /\ [Next]_vars =>
         [loan.status = "FallbackPending" /\ loan'.status = "FallbackPending"
             => loan'.snap.lender * loan.custody >= loan.snap.lender * loan'.custody]_vars
  BY StepKeepsLenderShare DEF ShareKept
<1> QED BY <1>1, LoanInvariant, PTL DEF Spec, LenderShareKept

-----------------------------------------------------------------------------
(* How a loan ends.  The two sides' claims are records of the loan, so the *)
(* calls are followed here by what they do to it, and the vaults left out. *)

Shaped(S) ==
    /\ "v" \in DOMAIN S /\ "n" \in DOMAIN S
    /\ {"status", "principal", "collateral", "custody", "snap", "lenderClaim", "borrowerClaim",
        "surplus", "held", "optIn"} \subseteq DOMAIN S.n
    /\ {"asset", "amount", "claimed"} \subseteq DOMAIN S.n.lenderClaim

(* From S to T the loan is in the same state, and the lender's claim is on *)
(* the same asset and as much paid as it was.                              *)
GoesOn(S, T) ==
    /\ Shaped(T) /\ T.n.status = S.n.status
    /\ T.n.lenderClaim.asset = S.n.lenderClaim.asset /\ T.n.lenderClaim.claimed = S.n.lenderClaim.claimed

(* The lender has a claim, and has not been paid.                          *)
LenderAwaited(n) == n.lenderClaim.asset # NoAsset /\ ~ n.lenderClaim.claimed

LEMMA StateShaped ==
    ASSUME NEW S \in State
    PROVE  Shaped(S)
BY DEF State, Loan, Claim, Shaped

LEMMA GoesOnTwice ==
    ASSUME NEW R, NEW S, NEW T, GoesOn(R, S), GoesOn(S, T)
    PROVE  GoesOn(R, T)
BY DEF GoesOn

LEMMA VaultsGoOn ==
    ASSUME NEW S, Shaped(S), NEW V
    PROVE  GoesOn(S, [S EXCEPT !.v = V]) /\ [S EXCEPT !.v = V].n = S.n
BY DEF Shaped, GoesOn

LEMMA LenderBookedEnds ==
    ASSUME NEW S, Shaped(S), NEW x, NEW T \in LenderBooked(S, x)
    PROVE  Shaped(T) /\ T.n.status = S.n.status /\ LenderAwaited(T.n)
<1>1. PICK y : \E V : T = [S EXCEPT !.v = V, !.n.lenderClaim = Pays(Principal, y)]
  BY DEF LenderBooked
<1> QED BY <1>1, Cast DEF Shaped, Pays, LenderAwaited

LEMMA HeldExtraGoesOn ==
    ASSUME NEW S, Shaped(S), NEW x, NEW T \in HeldExtra(S, x)
    PROVE  GoesOn(S, T)
<1>1. \E V, c : T = [S EXCEPT !.v = V, !.n.surplus = c] \/ T = [S EXCEPT !.v = V]
  BY DEF HeldExtra, HoldBorrowerExtra
<1> QED BY <1>1 DEF Shaped, GoesOn

LEMMA BookTerminalEnds ==
    ASSUME NEW S, Shaped(S), NEW got, NEW p, NEW T \in BookTerminal(S, got, p)
    PROVE  Shaped(T) /\ T.n.status = S.n.status /\ LenderAwaited(T.n)
<1> DEFINE Taxed(t) == [S EXCEPT !.v = Transfer(S.v, Diamond, Outside, Principal, got - p.lender - p.extra + t)]
<1>1. PICK t, R : R \in LenderBooked(Taxed(t), p.lender - t) /\ T \in HeldExtra(R, p.extra)
  BY DEF BookTerminal
<1> DEFINE Q == Taxed(t)
<1>2. Shaped(Q) /\ Q.n = S.n
  BY VaultsGoOn DEF GoesOn
<1> HIDE DEF Q
<1>3. Shaped(R) /\ R.n.status = S.n.status /\ LenderAwaited(R.n)
  BY <1>1, <1>2, LenderBookedEnds DEF Q
<1> QED BY <1>1, <1>3, HeldExtraGoesOn DEF GoesOn, LenderAwaited

(* A sale that succeeds leaves the loan closed, with its lender awaited.   *)
Fresh(n) == n.status \in Closed /\ LenderAwaited(n)

LEMMA SaleSettledEnds ==
    ASSUME NEW S, Shaped(S), NEW q, NEW r, NEW T \in SaleSettled(S, q, r)
    PROVE  Fresh(T.n)
<1> DEFINE Yielded(got) == [S EXCEPT !.v = Swapped(S.v, r, got)]
<1>1. PICK d \in Debts(S.n), got \in 0..MaxProceeds :
         \E p \in Splits(d, got) : \E R \in BookTerminal(Yielded(got), got, p) : T = RecordUnsold(R, q, r)
  BY DEF SaleSettled
<1> DEFINE Q == Yielded(got)
<1>2. Shaped(Q)
  BY VaultsGoOn DEF GoesOn
<1> HIDE DEF Q
<1>3. PICK p \in Splits(d, got) : \E R \in BookTerminal(Q, got, p) : T = RecordUnsold(R, q, r)
  BY <1>1 DEF Q
<1>4. PICK R \in BookTerminal(Q, got, p) : T = RecordUnsold(R, q, r)
  BY <1>3
<1>5. Shaped(R) /\ LenderAwaited(R.n)
  BY <1>2, BookTerminalEnds
<1>6. T.n = [R.n EXCEPT !.borrowerClaim = PaysIfAny(Collateral, R.n.collateral - q),
                        !.collateral = R.n.collateral - q + r, !.status = "Defaulted"]
  BY <1>4, <1>5 DEF RecordUnsold, Shaped
<1>7. T.n.status = "Defaulted" /\ T.n.lenderClaim = R.n.lenderClaim
  BY <1>5, <1>6 DEF Shaped
<1> QED BY <1>5, <1>7 DEF LenderAwaited, Fresh, Closed

LEMMA EnterFallbackEnds ==
    ASSUME NEW S, Shaped(S), NEW T \in EnterFallback(S)
    PROVE  T.n.status = "FallbackPending"
<1> DEFINE Credited(y)  == [CustodyIntoVault(S, S.n.collateral, y) EXCEPT !.n.collateral = y]
           Claims(R, e) == [R EXCEPT !.n.snap = e, !.n.lenderClaim = Pays(Collateral, e.lender),
                                     !.n.borrowerClaim = PaysIfAny(Collateral, e.borrower),
                                     !.n.status = "FallbackPending"]
<1>0. T \in UNION {{RequireSnapshotMatchesRow(Claims(R, e)) : e \in Snapshots(R.n)} :
                     R \in {Credited(y) : y \in Delivered(Collateral, S.n.collateral)}}
  BY DEF EnterFallback
<1> HIDE DEF Claims, Credited
<1>1. PICK y \in Delivered(Collateral, S.n.collateral) :
         \E e \in Snapshots(Credited(y).n) : T = RequireSnapshotMatchesRow(Claims(Credited(y), e))
  BY <1>0
<1> USE DEF Claims, Credited
<1> DEFINE R == Credited(y)
<1>2. "v" \in DOMAIN R /\ "n" \in DOMAIN R /\ {"snap", "lenderClaim", "borrowerClaim", "status"} \subseteq DOMAIN R.n
  BY DEF CustodyIntoVault, Shaped
<1> HIDE DEF R
<1>3. PICK e : T = RequireSnapshotMatchesRow(Claims(R, e))
  BY <1>1 DEF R
<1> DEFINE Q == Claims(R, e)
<1>4. "v" \in DOMAIN Q /\ "n" \in DOMAIN Q /\ Q.n.status = "FallbackPending"
  BY <1>2
<1> HIDE DEF Q
<1>5. T = RequireSnapshotMatchesRow(Q)
  BY <1>3 DEF Q
<1> QED BY <1>4, <1>5 DEF RequireSnapshotMatchesRow

LEMMA SaleFailedEnds ==
    ASSUME NEW S, Shaped(S), NEW q, NEW r, NEW T \in SaleFailed(S, q, r)
    PROVE  T.n.status = "FallbackPending"
<1>1. PICK R : T \in EnterFallback(R) /\ \E V, x : R = [S EXCEPT !.v = V, !.n.collateral = x]
  BY DEF SaleFailed, GatherForFallback
<1>2. Shaped(R)
  BY <1>1 DEF Shaped
<1> QED BY <1>1, <1>2, EnterFallbackEnds

(* What an active loan may have become.                                    *)
LEMMA SaleEnds ==
    ASSUME NEW S, Shaped(S), NEW T \in Sale(S) \cup UnpricedFallback(S)
    PROVE  T.n.status = "FallbackPending" \/ Fresh(T.n)
<1>1. CASE T \in UnpricedFallback(S)
  BY <1>1, SaleFailedEnds DEF UnpricedFallback
<1>2. CASE T \in Sale(S)
  <2>1. PICK V, q, r : \/ T \in SaleSettled([S EXCEPT !.v = V], q, r)
                       \/ T \in SaleFailed([S EXCEPT !.v = V], q, r)
    BY <1>2 DEF Sale, OpenSale
  <2> DEFINE R == [S EXCEPT !.v = V]
  <2>2. Shaped(R)
    BY VaultsGoOn DEF GoesOn
  <2> HIDE DEF R
  <2> QED BY <2>1, <2>2, SaleSettledEnds, SaleFailedEnds DEF R
<1> QED BY <1>1, <1>2

LEMMA InKindEnds ==
    ASSUME NEW S, Shaped(S), NEW T \in InKind(S)
    PROVE  Fresh(T.n)
<1>1. \E V, y : T = [S EXCEPT !.v = V, !.n.collateral = y, !.n.status = "Defaulted",
                              !.n.lenderClaim = Pays(Collateral, y)]
  BY DEF InKind
<1>2. PICK y : T.n = [S.n EXCEPT !.collateral = y, !.status = "Defaulted", !.lenderClaim = Pays(Collateral, y)]
  BY <1>1 DEF Shaped
<1>3. T.n.status = "Defaulted" /\ T.n.lenderClaim = Pays(Collateral, y)
  BY <1>2 DEF Shaped
<1> QED BY <1>3, Cast DEF Pays, LenderAwaited, Fresh, Closed

LEMMA PeriodicSaleEnds ==
    ASSUME NEW S, Shaped(S), NEW q, NEW r, NEW T \in PeriodicSale(S, q, r)
    PROVE  T.n.status = S.n.status
<1>1. PICK got, p : T \in BookPeriodic(PeriodicSold(S, q, r, got), got, p)
  BY DEF PeriodicSale
<1> DEFINE R == PeriodicSold(S, q, r, got)
<1>2. \E V, W, x : R = [[S EXCEPT !.v = V] EXCEPT !.v = W, !.n.collateral = x]
  BY DEF PeriodicSold, OpenSale
<1>3. GoesOn(S, R)
  BY <1>2 DEF Shaped, GoesOn
<1> HIDE DEF R
<1> DEFINE Paid   == [R EXCEPT !.v = Transfer(R.v, Diamond, Outside, Principal, got - p.extra)]
           Share(y) == Reserve(DepositLocked(Transfer(R.v, Diamond, Outside, Principal,
                                                      got - p.lender - p.extra),
                                             Lender, Principal, p.lender, y),
                               "heldForLender", Lender, Principal, y)
           Parked(y) == [R EXCEPT !.v = Share(y), !.n.held = R.n.held + y]
           PaidExtra(Q) == [Q EXCEPT !.v = Transfer(Q.v, Diamond, Outside, Principal, p.extra)]
<1>4. PICK Q : /\ Q = Paid \/ \E y : Q = Parked(y)
               /\ T \in HeldExtra(Q, p.extra) \/ T = PaidExtra(Q)
  BY <1>1 DEF R, BookPeriodic
<1> HIDE DEF Share
<1>5. GoesOn(R, Q)
  BY <1>3, <1>4, ZenonT(60) DEF Shaped, GoesOn
<1>6. GoesOn(Q, PaidExtra(Q))
  BY <1>5, VaultsGoOn DEF GoesOn
<1> HIDE DEF PaidExtra
<1>7. GoesOn(Q, T)
  BY <1>4, <1>5, <1>6, HeldExtraGoesOn DEF GoesOn
<1> QED BY <1>3, <1>5, <1>7 DEF GoesOn

(* A match goes on with the loan, or closes it with the lender awaited.    *)
LEMMA LegsGoOn ==
    ASSUME NEW S, Shaped(S), NEW m
    PROVE  GoesOn(S, Legs(S, m))
<1>1. \E V, x, y, z : Legs(S, m) = [S EXCEPT !.v = V, !.n.custody = x, !.n.principal = y, !.n.collateral = z]
  BY DEF Legs
<1>2. PICK V, x, y, z : Legs(S, m) = [S EXCEPT !.v = V, !.n.custody = x, !.n.principal = y, !.n.collateral = z]
  BY <1>1
<1> DEFINE N == [S.n EXCEPT !.custody = x, !.principal = y, !.collateral = z]
<1>3. Legs(S, m) = [S EXCEPT !.v = V, !.n = N]
  BY <1>2 DEF Shaped
<1>4. N.status = S.n.status /\ N.lenderClaim = S.n.lenderClaim /\ DOMAIN N = DOMAIN S.n
  BY DEF Shaped
<1> HIDE DEF N
<1> QED BY <1>3, <1>4 DEF Shaped, GoesOn

LEMMA LenderHoldsGoesOn ==
    ASSUME NEW S, Shaped(S), NEW x
    PROVE  GoesOn(S, LenderHolds(S, x))
BY DEF LenderHolds, Shaped, GoesOn

LEMMA ClaimsOfSnapshotGoesOn ==
    ASSUME NEW S, Shaped(S), NEW s
    PROVE  GoesOn(S, ClaimsOfSnapshot(S, s))
<1> DEFINE C == [S.n.lenderClaim EXCEPT !.amount = s.lender]
           D == [S.n.borrowerClaim EXCEPT !.amount = s.borrower, !.claimed = (s.borrower = 0)]
           N == [S.n EXCEPT !.snap = s, !.lenderClaim = C, !.borrowerClaim = D]
           T == ClaimsOfSnapshot(S, s)
<1>1. {"asset", "amount", "claimed"} \subseteq DOMAIN C /\ C.asset = S.n.lenderClaim.asset /\ C.claimed = S.n.lenderClaim.claimed
  BY DEF Shaped
<1>2. T = [S EXCEPT !.n = N]
  BY ZenonT(60) DEF ClaimsOfSnapshot, Shaped
<1> HIDE DEF C, D
<1>3. N.lenderClaim = C /\ N.status = S.n.status /\ DOMAIN N = DOMAIN S.n
  BY DEF Shaped
<1> HIDE DEF N, T
<1>4. T.n = N /\ DOMAIN T = DOMAIN S
  BY <1>2 DEF Shaped
<1> QED BY <1>1, <1>3, <1>4 DEF Shaped, GoesOn, T

LEMMA MatchedInFullEnds ==
    ASSUME NEW S, Shaped(S), NEW x
    PROVE  LET T == MatchedInFull(S, x) IN Shaped(T) /\ T.n.status = "InternalMatched" /\ LenderAwaited(T.n)
<1> DEFINE R == LenderMatched(S, x)
           M == [R EXCEPT !.n.status = "InternalMatched", !.n.snap.active = FALSE, !.n.custody = 0]
           T == MatchedInFull(S, x)
<1>1. Shaped(R) /\ R.n.lenderClaim = Pays(Principal, x)
  BY DEF LenderMatched, Shaped, Pays
<1> HIDE DEF R
<1>2. M = [R EXCEPT !.n = [R.n EXCEPT !.status = "InternalMatched",
                                      !.snap = [R.n.snap EXCEPT !.active = FALSE], !.custody = 0]]
  BY <1>1 DEF Shaped
<1>3. Shaped(M) /\ M.n.status = "InternalMatched" /\ M.n.lenderClaim = Pays(Principal, x)
  BY <1>1, <1>2 DEF Shaped
<1> HIDE DEF M
<1>4. \/ T = [M EXCEPT !.n.borrowerClaim = Pays(Collateral, S.n.collateral)]
      \/ T = [M EXCEPT !.v = ReleaseLien(M.v), !.n.borrowerClaim = NoClaim]
  BY DEF MatchedInFull, M, R
<1>5. Shaped(T) /\ T.n.status = "InternalMatched" /\ T.n.lenderClaim = Pays(Principal, x)
  BY <1>3, <1>4 DEF Shaped
<1> QED BY <1>5, Cast DEF LenderAwaited, Pays

LEMMA MatchedOutEnds ==
    ASSUME NEW S, Shaped(S), NEW x, LenderAwaited(S.n)
    PROVE  LET T == MatchedOut(S, x) IN Shaped(T) /\ T.n.status = "InternalMatched" /\ LenderAwaited(T.n)
<1> DEFINE C == [S.n.lenderClaim EXCEPT !.amount = 0]
           N == [S.n EXCEPT !.status = "InternalMatched", !.snap = [S.n.snap EXCEPT !.active = FALSE],
                            !.principal = 0, !.borrowerClaim = Pays(Collateral, x), !.lenderClaim = C]
           T == MatchedOut(S, x)
<1>1. {"asset", "amount", "claimed"} \subseteq DOMAIN C /\ C.asset = S.n.lenderClaim.asset /\ C.claimed = S.n.lenderClaim.claimed
  BY DEF Shaped
<1>2. T = [S EXCEPT !.n = N]
  BY DEF MatchedOut, Shaped
<1> HIDE DEF C
<1>3. N.lenderClaim = C /\ N.status = "InternalMatched" /\ DOMAIN N = DOMAIN S.n
  BY DEF Shaped
<1> HIDE DEF N, T
<1>4. T.n = N /\ DOMAIN T = DOMAIN S
  BY <1>2 DEF Shaped
<1>5. Shaped(T) /\ T.n.status = "InternalMatched" /\ LenderAwaited(T.n)
  BY <1>1, <1>3, <1>4 DEF Shaped, LenderAwaited
<1> QED BY <1>5 DEF T

LEMMA MatchEnds ==
    ASSUME NEW S, Shaped(S), S.n.status = "FallbackPending" => LenderAwaited(S.n),
           NEW T \in InternalMatches(S)
    PROVE  GoesOn(S, T) \/ (Shaped(T) /\ T.n.status = "InternalMatched" /\ LenderAwaited(T.n))
<1>1. PICK m \in Matches(S.n) : T = Match(S, m)
  BY DEF InternalMatches
<1> DEFINE L == Legs(S, m)
           x == m.paid - m.fee
           H == LenderHolds(L, x)
           s == Rescaled(L.n.snap, L.n.custody, S.n.custody)
<1>2. \/ T = MatchedInFull(L, x)
      \/ T = H
      \/ S.n.status = "FallbackPending" /\ T = MatchedOut(H, TopUp(L))
      \/ T = ClaimsOfSnapshot(H, s)
  BY <1>1 DEF Match
<1>3. GoesOn(S, L)
  BY LegsGoOn
<1> HIDE DEF L, x, s
<1>4. GoesOn(S, H)
  BY <1>3, LenderHoldsGoesOn, GoesOnTwice DEF GoesOn
<1> HIDE DEF H
<1>5. GoesOn(S, ClaimsOfSnapshot(H, s))
  BY <1>4, ClaimsOfSnapshotGoesOn, GoesOnTwice DEF GoesOn
<1>6. CASE S.n.status = "FallbackPending" /\ T = MatchedOut(H, TopUp(L))
  BY <1>4, <1>6, MatchedOutEnds DEF GoesOn, LenderAwaited
<1>7. CASE T = MatchedInFull(L, x)
  BY <1>3, <1>7, MatchedInFullEnds DEF GoesOn
<1> QED BY <1>2, <1>4, <1>5, <1>6, <1>7

(* The parts of a claim go on with the loan; a retry that sells leaves the *)
(* lender awaited.                                                         *)
LEMMA RowGoesOn ==
    ASSUME NEW S, Shaped(S)
    PROVE  GoesOn(S, RequireSnapshotMatchesRow(S)) /\ RequireSnapshotMatchesRow(S).n = S.n
BY DEF Shaped, GoesOn, RequireSnapshotMatchesRow

LEMMA MarksGoOn ==
    ASSUME NEW S, Shaped(S)
    PROVE  GoesOn(S, Inactive(S)) /\ GoesOn(S, Tried(S))
<1>1. /\ Inactive(S) = [S EXCEPT !.n = [S.n EXCEPT !.snap = [S.n.snap EXCEPT !.active = FALSE]]]
      /\ Tried(S) = [S EXCEPT !.n = [S.n EXCEPT !.snap = [S.n.snap EXCEPT !.retried = TRUE]]]
  BY DEF Inactive, Tried, Shaped
<1> QED BY <1>1 DEF Shaped, GoesOn

LEMMA PulledGoesOn ==
    ASSUME NEW S, Shaped(S), NEW p
    PROVE  GoesOn(S, PulledForRetry(S, p))
<1> DEFINE R == RequireSnapshotMatchesRow(S)
<1>1. GoesOn(S, R)
  BY RowGoesOn
<1> HIDE DEF R
<1>2. \E V : PulledForRetry(S, p) = [R EXCEPT !.v = V, !.n.custody = 0]
  BY DEF PulledForRetry, RequireVaultHeld, R
<1> QED BY <1>1, <1>2 DEF Shaped, GoesOn

LEMMA CustodyIntoVaultGoesOn ==
    ASSUME NEW S, Shaped(S), NEW x, NEW y
    PROVE  GoesOn(S, CustodyIntoVault(S, x, y))
BY DEF CustodyIntoVault, Shaped, GoesOn

LEMMA AbsorbShortfallGoesOn ==
    ASSUME NEW S, Shaped(S), NEW x
    PROVE  GoesOn(S, AbsorbShortfall(S, x))
<1> DEFINE R == [S EXCEPT !.n.collateral = Excess(S.n.collateral, x)]
<1>1. GoesOn(S, R)
  BY DEF Shaped, GoesOn
<1> HIDE DEF R
<1>2. \E s : AbsorbShortfall(S, x) = ClaimsOfSnapshot(R, s)
  BY DEF AbsorbShortfall, R
<1> QED BY <1>1, <1>2, ClaimsOfSnapshotGoesOn, GoesOnTwice DEF GoesOn

LEMMA RetryFailedGoesOn ==
    ASSUME NEW S, Shaped(S), NEW T \in RetryFailed(S)
    PROVE  GoesOn(S, T)
<1> DEFINE Put(p, r) == CustodyIntoVault(PulledForRetry(S, p), p, r)
           Cut(p, r) == AbsorbShortfall(Put(p, r), S.n.custody - r)
<1>1. \/ T = RequireSnapshotMatchesRow(S)
      \/ \E p, r : T = RequireSnapshotMatchesRow(Put(p, r)) \/ T = RequireSnapshotMatchesRow(Cut(p, r))
  BY DEF RetryFailed, RequireVaultHeld
<1>2. ASSUME NEW p, NEW r PROVE GoesOn(S, Put(p, r)) /\ GoesOn(S, Cut(p, r))
  <2> DEFINE P == PulledForRetry(S, p)
  <2>1. GoesOn(S, P)
    BY PulledGoesOn
  <2> HIDE DEF P
  <2>2. GoesOn(S, CustodyIntoVault(P, p, r))
    BY <2>1, CustodyIntoVaultGoesOn, GoesOnTwice DEF GoesOn
  <2>3. GoesOn(S, Put(p, r))
    BY <2>2 DEF P
  <2> HIDE DEF Put
  <2>4. GoesOn(S, Cut(p, r))
    BY <2>3, AbsorbShortfallGoesOn, GoesOnTwice DEF GoesOn
  <2> QED BY <2>3, <2>4
<1> HIDE DEF Put, Cut
<1>3. ASSUME NEW R, GoesOn(S, R) PROVE GoesOn(S, RequireSnapshotMatchesRow(R))
  BY <1>3, RowGoesOn, GoesOnTwice DEF GoesOn
<1>4. GoesOn(S, S)
  BY DEF GoesOn
<1> QED BY <1>1, <1>2, <1>3, <1>4

LEMMA DistributedEnds ==
    ASSUME NEW S, Shaped(S), NEW got, NEW T \in DistributeRetryProceeds(S, got)
    PROVE  Shaped(T) /\ T.n.status = S.n.status /\ LenderAwaited(T.n)
<1>1. PICK l, t, b, y, z : T = Distributed(S, l, t, b, y, z)
  BY DEF DistributeRetryProceeds
<1>2. PICK V, c : T = [S EXCEPT !.v = V, !.n.lenderClaim = Pays(Principal, y), !.n.borrowerClaim = c]
  BY <1>1 DEF Distributed
<1> DEFINE N == [S.n EXCEPT !.lenderClaim = Pays(Principal, y), !.borrowerClaim = c]
<1>3. T = [S EXCEPT !.v = V, !.n = N]
  BY <1>2 DEF Shaped
<1>4. N.status = S.n.status /\ N.lenderClaim = Pays(Principal, y) /\ DOMAIN N = DOMAIN S.n
  BY DEF Shaped
<1> HIDE DEF N
<1>5. T.n = N /\ "v" \in DOMAIN T /\ "n" \in DOMAIN T
  BY <1>3 DEF Shaped
<1> QED BY <1>4, <1>5, Cast DEF Shaped, LenderAwaited, Pays

LEMMA RetrySucceededEnds ==
    ASSUME NEW S, Shaped(S), NEW T \in RetrySucceeded(S)
    PROVE  Shaped(T) /\ T.n.status = S.n.status /\ LenderAwaited(T.n)
<1> DEFINE P(p) == PulledForRetry(S, p)
           Y(p, got) == [P(p) EXCEPT !.v = Swapped(P(p).v, p, got)]
<1>1. PICK p \in Delivered(Collateral, S.n.custody), got \in 0..MaxProceeds :
         T \in DistributeRetryProceeds(Y(p, got), got)
  BY RetryYields
<1> DEFINE Q == P(p)
           R == [Q EXCEPT !.v = Swapped(Q.v, p, got)]
<1>2. GoesOn(S, Q)
  BY PulledGoesOn
<1> HIDE DEF Q
<1>3. GoesOn(S, R)
  BY <1>2, VaultsGoOn, GoesOnTwice DEF GoesOn
<1>4. T \in DistributeRetryProceeds(R, got)
  BY <1>1 DEF Q
<1> HIDE DEF R
<1> QED BY <1>3, <1>4, DistributedEnds DEF GoesOn

LEMMA DisposedGoesOn ==
    ASSUME NEW S, Shaped(S), NEW u, NEW y
    PROVE  GoesOn(S, Disposed(S, u, y))
<1> DEFINE R == RequireSnapshotMatchesRow(S)
<1>1. GoesOn(S, R)
  BY RowGoesOn
<1> HIDE DEF R
<1>2. \E V : Disposed(S, u, y) = R \/ Disposed(S, u, y) = [R EXCEPT !.v = V, !.n.custody = 0]
  BY DEF Disposed, RequireVaultHeld, R
<1> QED BY <1>1, <1>2 DEF Shaped, GoesOn

LEMMA DisposedToLenderGoesOn ==
    ASSUME NEW S, Shaped(S), NEW T \in DisposedToLender(S)
    PROVE  GoesOn(S, T)
<1>1. PICK y : T = [Disposed(S, Lender, y) EXCEPT !.n.lenderClaim.amount = y]
  BY DEF DisposedToLender
<1> DEFINE R == Disposed(S, Lender, y)
           C == [R.n.lenderClaim EXCEPT !.amount = y]
<1>2. GoesOn(S, R)
  BY DisposedGoesOn
<1> HIDE DEF R
<1>3. T = [R EXCEPT !.n = [R.n EXCEPT !.lenderClaim = C]]
  BY <1>1, <1>2 DEF R, GoesOn, Shaped
<1>4. C.asset = R.n.lenderClaim.asset /\ C.claimed = R.n.lenderClaim.claimed /\ DOMAIN C = DOMAIN R.n.lenderClaim
  BY <1>2 DEF GoesOn, Shaped
<1> HIDE DEF C
<1> QED BY <1>2, <1>3, <1>4 DEF GoesOn, Shaped

LEMMA FallbackDefaultedEnds ==
    ASSUME NEW S, Shaped(S)
    PROVE  LET T == FallbackDefaulted(S)
           IN  /\ Shaped(T) /\ T.n.lenderClaim = S.n.lenderClaim
               /\ T.n.status = IF S.n.status = "FallbackPending" THEN "Defaulted" ELSE S.n.status
<1> DEFINE R == IF S.n.status = "FallbackPending" THEN [S EXCEPT !.n.status = "Defaulted"] ELSE S
<1>1. /\ Shaped(R) /\ R.n.lenderClaim = S.n.lenderClaim
      /\ R.n.status = IF S.n.status = "FallbackPending" THEN "Defaulted" ELSE S.n.status
  BY DEF Shaped
<1>2. \E c : FallbackDefaulted(S) = R \/ FallbackDefaulted(S) = [R EXCEPT !.n.borrowerClaim = c]
  BY DEF FallbackDefaulted
<1> HIDE DEF R
<1> QED BY <1>1, <1>2 DEF Shaped

(* The lender has been paid; the loan is settled unless the borrower still *)
(* has something to come for.                                              *)
Paid(n) ==
    /\ n.lenderClaim.claimed
    /\ IF BorrowerSideOpen(n) THEN n.status \in Closed ELSE n.status = "Settled"

LEMMA SettledIfEnds ==
    ASSUME NEW S, Shaped(S), S.n.status \in Closed, S.n.lenderClaim.claimed
    PROVE  Paid(SettledIf(S, ~ BorrowerSideOpen(S.n)).n)
<1> DEFINE T == [S EXCEPT !.n.status = "Settled"]
<1>1. /\ T.n.status = "Settled" /\ T.n.lenderClaim = S.n.lenderClaim
      /\ T.n.borrowerClaim = S.n.borrowerClaim /\ T.n.surplus = S.n.surplus
  BY DEF Shaped
<1>2. BorrowerSideOpen(T.n) = BorrowerSideOpen(S.n)
  BY <1>1 DEF BorrowerSideOpen
<1>3. CASE BorrowerSideOpen(S.n)
  BY <1>3 DEF SettledIf, Paid
<1>4. CASE ~ BorrowerSideOpen(S.n)
  <2>1. SettledIf(S, ~ BorrowerSideOpen(S.n)) = T
    BY <1>4 DEF SettledIf
  <2> QED BY <1>1, <1>2, <1>4, <2>1 DEF Paid
<1> QED BY <1>3, <1>4

(* What the lender's own call does to the loan.                            *)
LEMMA LenderCollectsEnds ==
    ASSUME NEW S, Shaped(S)
    PROVE  LET T == LenderCollects(S)
           IN  Shaped(T) /\ T.n = [S.n EXCEPT !.lenderClaim = [S.n.lenderClaim EXCEPT !.claimed = TRUE]]
<1> DEFINE C == [S.n.lenderClaim EXCEPT !.claimed = TRUE]
           N == [S.n EXCEPT !.lenderClaim = C]
           T == LenderCollects(S)
<1>1. \E V : T = [S EXCEPT !.v = V, !.n = N]
  BY DEF LenderCollects, Shaped
<1>2. DOMAIN C = DOMAIN S.n.lenderClaim
  OBVIOUS
<1> HIDE DEF C
<1>3. N.lenderClaim = C /\ DOMAIN N = DOMAIN S.n
  BY DEF Shaped
<1> HIDE DEF N, T
<1>4. Shaped(T) /\ T.n = N
  BY <1>1, <1>2, <1>3 DEF Shaped
<1> QED BY <1>4 DEF T, N, C

LEMMA LenderPaidEnds ==
    ASSUME NEW S, Shaped(S), S.n.status \in Closed
    PROVE  Paid(LenderPaid(S).n)
<1> DEFINE T == LenderCollects(S)
<1>1. /\ Shaped(T)
      /\ T.n = [S.n EXCEPT !.lenderClaim = [S.n.lenderClaim EXCEPT !.claimed = TRUE]]
  BY LenderCollectsEnds
<1>2. T.n.status \in Closed /\ T.n.lenderClaim.claimed
  BY <1>1 DEF Shaped
<1>3. LenderPaid(S) = SettledIf(T, ~ BorrowerSideOpen(T.n))
  BY DEF LenderPaid
<1> HIDE DEF T
<1> QED BY <1>1, <1>2, <1>3, SettledIfEnds

(* A pending fallback, as the claims find it and as its match, its retry   *)
(* and its disposal may leave it.                                          *)
Pending(S) == Shaped(S) /\ S.n.status = "FallbackPending" /\ LenderAwaited(S.n)

Dispatched(S) == Shaped(S) /\ S.n.status \in {"FallbackPending", "InternalMatched"} /\ LenderAwaited(S.n)

LEMMA DispatchedGoesOn ==
    ASSUME NEW S, Dispatched(S), NEW T, GoesOn(S, T)
    PROVE  Dispatched(T)
BY DEF Dispatched, GoesOn, LenderAwaited

LEMMA AutoDispatchEnds ==
    ASSUME NEW S, Pending(S), NEW T \in AutoDispatch(S)
    PROVE  Dispatched(T)
BY MatchEnds DEF AutoDispatch, Pending, Dispatched, GoesOn, LenderAwaited

LEMMA RetryDispatched ==
    ASSUME NEW S, Dispatched(S), NEW T
    PROVE  /\ T \in RetrySucceeded(Tried(S)) => Dispatched(T)
           /\ T \in RetryFailed(Tried(S)) => Dispatched(T)
<1>1. Dispatched(Tried(S)) /\ Shaped(Tried(S))
  BY MarksGoOn, DispatchedGoesOn DEF Dispatched
<1> QED BY <1>1, RetrySucceededEnds, RetryFailedGoesOn, DispatchedGoesOn DEF Dispatched

LEMMA DisposedDispatched ==
    ASSUME NEW S, Dispatched(S)
    PROVE  /\ Dispatched(Inactive(S))
           /\ \A T \in DisposedToLender(S) : Dispatched(T)
           /\ \A u, y : Dispatched(Disposed(S, u, y))
<1>1. Shaped(S)
  BY DEF Dispatched
<1> QED BY <1>1, MarksGoOn, DisposedToLenderGoesOn, DisposedGoesOn, DispatchedGoesOn

LEMMA FallbackResolvedEnds ==
    ASSUME NEW S, Pending(S), NEW T \in FallbackResolved(S)
    PROVE  Dispatched(T)
<1>1. CASE ~ S.n.snap.active
  BY <1>1 DEF FallbackResolved, Pending, Dispatched
<1>2. CASE S.n.snap.active
  <2>1. PICK R \in AutoDispatch(S) :
           \/ T = R
           \/ \E Q : /\ \/ Q \in DisposedToLender(R)
                        \/ Q \in RetrySucceeded(Tried(R))
                        \/ \E P \in RetryFailed(Tried(R)) : Q \in DisposedToLender(P)
                     /\ T = Inactive(Q)
    BY <1>2 DEF FallbackResolved
  <2>2. Dispatched(R)
    BY AutoDispatchEnds
  <2>3. ASSUME NEW Q, T = Inactive(Q),
               \/ Q \in DisposedToLender(R)
               \/ Q \in RetrySucceeded(Tried(R))
               \/ \E P \in RetryFailed(Tried(R)) : Q \in DisposedToLender(P)
        PROVE  Dispatched(T)
    <3>1. Dispatched(Q)
      BY <2>2, <2>3, RetryDispatched, DisposedDispatched
    <3> QED BY <2>3, <3>1, DisposedDispatched
  <2> QED BY <2>1, <2>2, <2>3
<1> QED BY <1>1, <1>2

(* The lender of a pending loan is paid as it closes.                      *)
LEMMA PendingClaimEnds ==
    ASSUME NEW S, Pending(S), NEW T \in LenderClaims(S)
    PROVE  Paid(T.n)
<1>1. PICK R \in FallbackResolved(S) : T = LenderPaid(FallbackDefaulted(R))
  BY DEF LenderClaims, Pending
<1> DEFINE Q == FallbackDefaulted(R)
<1>2. Dispatched(R)
  BY FallbackResolvedEnds
<1>3. Shaped(Q) /\ Q.n.status \in Closed
  BY <1>2, FallbackDefaultedEnds DEF Dispatched, Closed
<1> HIDE DEF Q
<1>4. T = LenderPaid(Q)
  BY <1>1 DEF Q
<1> QED BY <1>3, <1>4, LenderPaidEnds

(* The backstop pays the lender, or sells for the claim, or leaves the     *)
(* loan to its match.                                                      *)
LEMMA AbsorbedEnds ==
    ASSUME NEW S, Dispatched(S)
    PROVE  Paid(Absorbed(S).n)
<1> DEFINE B == Inactive(Disposed(S, Outside, S.n.snap.lender))
           V == Release(Release(B.v, "lenderProceeds", Lender), "heldForLender", Lender)
           W == PaidOut(V, Lender, Principal, S.n.held)
           Q == [B EXCEPT !.v = W, !.n.lenderClaim.claimed = TRUE, !.n.optIn = FALSE]
           T == FallbackDefaulted(Q)
<1>1. Dispatched(B)
  BY DisposedDispatched
<1>2. Absorbed(S) = SettledIf(T, ~ BorrowerSideOpen(T.n))
  BY DEF Absorbed
<1> HIDE DEF B, W
<1> DEFINE C == [B.n.lenderClaim EXCEPT !.claimed = TRUE]
           N == [B.n EXCEPT !.lenderClaim = C, !.optIn = FALSE]
<1>3. Q = [B EXCEPT !.v = W, !.n = N]
  BY <1>1 DEF Dispatched, Shaped
<1>4. C.claimed /\ DOMAIN C = DOMAIN B.n.lenderClaim
  BY <1>1 DEF Dispatched, Shaped
<1> HIDE DEF C
<1>5. N.lenderClaim = C /\ N.status = B.n.status /\ DOMAIN N = DOMAIN B.n
  BY <1>1 DEF Dispatched, Shaped
<1> HIDE DEF N, Q
<1>6. Shaped(Q) /\ Q.n.lenderClaim.claimed /\ Q.n.status \in {"FallbackPending", "InternalMatched"}
  BY <1>1, <1>3, <1>4, <1>5 DEF Dispatched, Shaped
<1>7. Shaped(T) /\ T.n.lenderClaim.claimed /\ T.n.status \in Closed
  BY <1>6, FallbackDefaultedEnds DEF Closed
<1> HIDE DEF T
<1> QED BY <1>2, <1>7, SettledIfEnds

(* A pending loan stays so, or closes with the lender awaited or paid.     *)
MayEnd(n) == n.status = "FallbackPending" \/ Fresh(n) \/ Paid(n)

LEMMA DispatchedMayEnd ==
    ASSUME NEW S, Dispatched(S)
    PROVE  MayEnd(S.n)
BY DEF Dispatched, MayEnd, Fresh, Closed

LEMMA BackstopClaimsEnd ==
    ASSUME NEW S, Pending(S), NEW T \in BackstopClaims(S)
    PROVE  MayEnd(T.n)
<1>1. PICK R \in AutoDispatch(S) :
         \/ T = R \/ T = Absorbed(R)
         \/ \E Q \in RetrySucceeded(Tried(R)) : T = [Inactive(Q) EXCEPT !.n.status = "Defaulted"]
         \/ \E Q \in RetryFailed(Tried(R)) : T = Q \/ T = Absorbed(Q)
  BY DEF BackstopClaims
<1>2. Dispatched(R)
  BY AutoDispatchEnds
<1>3. ASSUME NEW Q, Dispatched(Q) PROVE MayEnd(Q.n) /\ MayEnd(Absorbed(Q).n)
  BY <1>3, DispatchedMayEnd, AbsorbedEnds DEF MayEnd
<1>4. ASSUME NEW Q \in RetrySucceeded(Tried(R)), T = [Inactive(Q) EXCEPT !.n.status = "Defaulted"]
      PROVE  MayEnd(T.n)
  <2> DEFINE P == Inactive(Q)
  <2>1. Dispatched(P)
    BY <1>2, RetryDispatched, DisposedDispatched
  <2> HIDE DEF P
  <2>2. T.n.status = "Defaulted" /\ T.n.lenderClaim = P.n.lenderClaim
    BY <1>4, <2>1 DEF P, Dispatched, Shaped
  <2> QED BY <2>1, <2>2 DEF Dispatched, LenderAwaited, MayEnd, Fresh, Closed
<1>5. ASSUME NEW Q \in RetryFailed(Tried(R)) PROVE Dispatched(Q)
  BY <1>2, RetryDispatched
<1> QED BY <1>1, <1>2, <1>3, <1>4, <1>5

(* Once the loan is closed a claim pays its own side and leaves the other  *)
(* side's records as they are.                                             *)
LEMMA ClosedClaimEnds ==
    ASSUME NEW S \in State, S.n.status \in Closed, NEW T \in LenderClaims(S)
    PROVE  /\ T = LenderPaid(S) /\ LenderSideOpen(S.n) /\ Paid(T.n)
           /\ T.n.borrowerClaim = S.n.borrowerClaim /\ T.n.surplus = S.n.surplus
<1>1. T = LenderPaid(S) /\ LenderSideOpen(S.n)
  BY DEF LenderClaims, Closed
<1>2. Shaped(S)
  BY StateShaped
<1> DEFINE R == LenderCollects(S)
<1>3. Shaped(R) /\ R.n.borrowerClaim = S.n.borrowerClaim /\ R.n.surplus = S.n.surplus
  BY <1>2, LenderCollectsEnds DEF Shaped
<1>4. LenderPaid(S) = SettledIf(R, ~ BorrowerSideOpen(R.n))
  BY DEF LenderPaid
<1> HIDE DEF R
<1>5. T.n.borrowerClaim = S.n.borrowerClaim /\ T.n.surplus = S.n.surplus
  BY <1>1, <1>3, <1>4 DEF SettledIf, Shaped
<1> QED BY <1>1, <1>2, <1>5, LenderPaidEnds

LEMMA BorrowerClaimEnds ==
    ASSUME NEW S \in State, S.n.status \in Closed
    PROVE  LET T == BorrowerClaims(S)
           IN  /\ ~ BorrowerSideOpen(T.n)
               /\ T.n.lenderClaim = S.n.lenderClaim /\ T.n.held = S.n.held
               /\ T.n.status = IF S.n.lenderClaim.claimed \/ ~ LenderSideOpen(S.n)
                               THEN "Settled" ELSE S.n.status
<1> DEFINE C == [S.n.borrowerClaim EXCEPT !.claimed = TRUE]
           D == [S.n.surplus EXCEPT !.claimed = S.n.surplus.claimed \/ LaneOpen(S.n.surplus)]
           N == [S.n EXCEPT !.borrowerClaim = C, !.surplus = D]
           p == S.n.lenderClaim.claimed \/ ~ LenderSideOpen(S.n)
           T == BorrowerClaims(S)
<1>1. S.n \in Loan /\ S.n.borrowerClaim \in Claim /\ S.n.surplus \in Claim
  BY DEF State, Loan
<1>2. PICK R : T = SettledIf(R, p) /\ \E V : R = [S EXCEPT !.v = V, !.n = N]
  <2> DEFINE Told(V) == [S EXCEPT !.v = V, !.n.borrowerClaim.claimed = TRUE,
                                  !.n.surplus.claimed = S.n.surplus.claimed \/ LaneOpen(S.n.surplus)]
  <2>1. PICK V : T = SettledIf(Told(V), p)
    BY DEF BorrowerClaims
  <2>2. Told(V) = [S EXCEPT !.v = V, !.n = N]
    BY <1>1 DEF State, Loan
  <2> HIDE DEF Told
  <2> QED BY <2>1, <2>2
<1>3. ~ LaneOpen(C) /\ ~ LaneOpen(D)
  BY <1>1 DEF Claim, LaneOpen
<1> HIDE DEF C, D
<1>4. /\ N.borrowerClaim = C /\ N.surplus = D /\ N.lenderClaim = S.n.lenderClaim
      /\ N.held = S.n.held /\ N.status = S.n.status
      /\ {"borrowerClaim", "surplus", "lenderClaim", "held", "status"} \subseteq DOMAIN N
  BY <1>1 DEF Loan
<1> HIDE DEF N
<1>5. R.n = N /\ "n" \in DOMAIN R
  BY <1>2 DEF State
<1> HIDE DEF p, T
<1>6. \/ p /\ T.n = [N EXCEPT !.status = "Settled"]
      \/ ~ p /\ T.n = N
  BY <1>2, <1>5 DEF SettledIf
<1>7. /\ T.n.borrowerClaim = C /\ T.n.surplus = D /\ T.n.lenderClaim = S.n.lenderClaim /\ T.n.held = S.n.held
      /\ T.n.status = IF p THEN "Settled" ELSE S.n.status
  BY <1>4, <1>6
<1> QED BY <1>3, <1>7 DEF BorrowerSideOpen, p, T

-----------------------------------------------------------------------------
(* What LoanSettlement sees of a state.                                    *)

Over(n) == n.status \in Closed \cup {"Settled"}

PhaseOf(n) == CASE n.status = "Active"          -> "running"
                [] n.status = "FallbackPending" -> "pending"
                [] n.status \in Closed          -> "closed"
                [] n.status = "Settled"         -> "settled"

CollectedOf(n) ==
    {s \in {"lender", "borrower"} :
        /\ Over(n)
        /\ s = "lender" => n.lenderClaim.claimed \/ ~ LenderSideOpen(n)
        /\ s = "borrower" => ~ BorrowerSideOpen(n)}

DueOf(S) ==
    [s \in {"lender", "borrower"} |-> [a \in Assets |->
        IF ~ Over(S.n) THEN 0
        ELSE IF s = "lender" THEN OwedToLender(S.n, a) ELSE OwedToBorrower(S, a)]]

LEMMA Seen ==
    /\ Phase = PhaseOf(loan) /\ Collected = CollectedOf(loan) /\ ToPay = DueOf(Now)
    /\ Phase' = PhaseOf(loan') /\ Collected' = CollectedOf(loan') /\ ToPay' = DueOf(Now')
<1>1. Now.n = loan /\ (Now').n = loan'
  BY DEF Now
<1> QED BY <1>1 DEF Phase, Collected, ToPay, PhaseOf, CollectedOf, DueOf, HasClosed, Over

LEMMA PhaseFacts ==
    ASSUME NEW n
    PROVE  /\ n.status = "Active" => PhaseOf(n) = "running"
           /\ n.status = "FallbackPending" => PhaseOf(n) = "pending"
           /\ n.status \in Closed => PhaseOf(n) = "closed"
           /\ n.status = "Settled" => PhaseOf(n) = "settled"
BY DEF PhaseOf, Closed

LEMMA NothingDueYet ==
    ASSUME NEW S, S.n.status \in Open
    PROVE  CollectedOf(S.n) = {} /\ DueOf(S) = [s \in Settlement!Sides |-> Settlement!Nothing]
<1>1. ~ Over(S.n)
  BY DEF Over, Open, Closed
<1> QED BY <1>1 DEF CollectedOf, DueOf, Settlement!Sides, Settlement!Nothing

(* Both sides have collected when the loan is settled, and not before.     *)
LEMMA AllCollected ==
    ASSUME NEW n, Over(n)
    PROVE  /\ "lender" \in CollectedOf(n) <=> n.lenderClaim.claimed \/ ~ LenderSideOpen(n)
           /\ "borrower" \in CollectedOf(n) <=> ~ BorrowerSideOpen(n)
           /\ CollectedOf(n) \in SUBSET Settlement!Sides
           /\ CollectedOf(n) = Settlement!Sides <=>
                 (n.lenderClaim.claimed \/ ~ LenderSideOpen(n)) /\ ~ BorrowerSideOpen(n)
BY DEF CollectedOf, Settlement!Sides

LEMMA DueTypes ==
    ASSUME NEW S \in State, LienAmount(S.v) \in Nat
    PROVE  DueOf(S) \in [Settlement!Sides -> [Assets -> Nat]]
<1>1. /\ S.n.lenderClaim.amount \in Nat /\ S.n.borrowerClaim.amount \in Nat /\ S.n.surplus.amount \in Nat
      /\ S.n.held \in Nat /\ S.n.collateral \in Nat
  BY DEF State, Loan, Claim
<1>2. \A a \in Assets : OwedToLender(S.n, a) \in Nat
  BY <1>1 DEF OwedToLender
<1>3. \A a \in Assets : OwedToBorrower(S, a) \in Nat
  BY <1>1 DEF OwedToBorrower
<1> QED BY <1>2, <1>3 DEF DueOf, Settlement!Sides

(* A side that has collected is owed nothing.                              *)
LEMMA NothingLeft ==
    ASSUME NEW S \in State, Over(S.n), NEW s \in CollectedOf(S.n)
    PROVE  DueOf(S)[s] = Settlement!Nothing
<1>1. /\ S.n.lenderClaim.amount \in Nat /\ S.n.held \in Nat /\ s \in {"lender", "borrower"}
      /\ S.n.status \notin Open
  BY DEF State, Loan, Claim, CollectedOf, Over, Open, Closed
<1>2. CASE s = "lender"
  <2>1. S.n.lenderClaim.claimed \/ ~ LenderSideOpen(S.n)
    BY <1>2, AllCollected
  <2>2. \A a \in Assets : OwedToLender(S.n, a) = 0
    BY <1>1, <2>1 DEF OwedToLender, LenderSideOpen
  <2> QED BY <1>2, <2>2 DEF DueOf, Settlement!Nothing
<1>3. CASE s = "borrower"
  <2>1. ~ BorrowerSideOpen(S.n)
    BY <1>3, AllCollected
  <2>2. \A a \in Assets : OwedToBorrower(S, a) = 0
    BY <1>1, <2>1 DEF OwedToBorrower, BorrowerSideOpen, Open
  <2> QED BY <1>3, <2>2 DEF DueOf, Settlement!Nothing
<1> QED BY <1>1, <1>2, <1>3

(* A loan that is open before and after a step is suspended, resumed or    *)
(* left as it is.                                                          *)
LEMMA OpenStep ==
    ASSUME loan.status \in Open, loan'.status \in Open
    PROVE  [Settlement!Next]_Settlement!vars
<1>1. Collected = Collected' /\ ToPay = ToPay'
  <2>1. Now.n = loan /\ (Now').n = loan'
    BY DEF Now
  <2> QED BY <2>1, Seen, NothingDueYet
<1>2. Phase \in {"running", "pending"} /\ Phase' \in {"running", "pending"}
  BY Seen, PhaseFacts DEF Open
<1>3. CASE Phase' = Phase
  BY <1>1, <1>3 DEF Settlement!vars
<1>4. CASE Phase = "running" /\ Phase' = "pending"
  BY <1>1, <1>4 DEF Settlement!Next, Settlement!Suspend
<1>5. CASE Phase = "pending" /\ Phase' = "running"
  BY <1>1, <1>5 DEF Settlement!Next, Settlement!Resume
<1> QED BY <1>2, <1>3, <1>4, <1>5

(* What the next state is worth, with its loan valid.                      *)
LEMMA NextDue ==
    ASSUME Inv'
    PROVE  /\ Now' \in State /\ (Now').n = loan' /\ (Now').v = vaults'
           /\ ToPay' \in [Settlement!Sides -> [Assets -> Nat]]
<1>1. Valid(Now') /\ (Now').n = loan' /\ (Now').v = vaults'
  BY DEF Inv, Now
<1>2. Now' \in State /\ LienAmount((Now').v) \in Nat
  <2> DEFINE T == Now'
  <2>1. Valid(T)
    BY <1>1
  <2> HIDE DEF T
  <2>2. T \in State /\ LienAmount(T.v) \in Nat
    BY <2>1, LienIsOwed DEF Valid
  <2> QED BY <2>2 DEF T
<1>3. DueOf(Now') \in [Settlement!Sides -> [Assets -> Nat]]
  BY <1>2, DueTypes
<1> QED BY <1>1, <1>2, <1>3, Seen

LEMMA CloseStep ==
    ASSUME Inv', loan.status \in Open,
           Fresh(loan') \/ (loan.status = "FallbackPending" /\ Paid(loan'))
    PROVE  Settlement!Close
<1>1. Over(loan')
  BY DEF Fresh, Paid, Over
<1>2. Phase \in {"running", "pending"} /\ (Phase = "running" => Fresh(loan'))
  BY Seen, PhaseFacts DEF Open
<1>3. Collected' \in SUBSET Settlement!Sides
  BY <1>1, Seen, AllCollected
<1>4. Phase = "running" => "lender" \notin Collected'
  BY <1>1, <1>2, Seen, AllCollected DEF Fresh, LenderAwaited, LenderSideOpen
<1>5. ToPay' \in [Settlement!Sides -> [Assets -> Nat]] /\ Now' \in State /\ (Now').n = loan'
  BY NextDue
<1>6. \A s \in Collected' : ToPay'[s] = Settlement!Nothing
  BY <1>1, <1>5, Seen, NothingLeft
<1>7. Phase' = IF Collected' = Settlement!Sides THEN "settled" ELSE "closed"
  <2>1. CASE Fresh(loan')
    <3>1. Collected' # Settlement!Sides /\ loan'.status \in Closed
      BY <1>1, <2>1, Seen, AllCollected DEF Fresh, LenderAwaited, LenderSideOpen
    <3> QED BY <3>1, Seen, PhaseFacts
  <2>2. CASE Paid(loan')
    BY <1>1, <2>2, Seen, PhaseFacts, AllCollected DEF Paid
  <2> QED BY <2>1, <2>2
<1> QED BY <1>2, <1>3, <1>4, <1>5, <1>6, <1>7 DEF Settlement!Close

(* A step that leaves the claims and the lien as they are is no step of    *)
(* the settlement.                                                         *)
SameEnd(S, T) ==
    /\ T.n.status = S.n.status /\ T.n.collateral = S.n.collateral /\ T.n.held = S.n.held
    /\ T.n.lenderClaim = S.n.lenderClaim /\ T.n.borrowerClaim = S.n.borrowerClaim
    /\ T.n.surplus = S.n.surplus /\ LienAmount(T.v) = LienAmount(S.v)

LEMMA SameEndSeen ==
    ASSUME NEW S, NEW T, SameEnd(S, T)
    PROVE  PhaseOf(T.n) = PhaseOf(S.n) /\ CollectedOf(T.n) = CollectedOf(S.n) /\ DueOf(T) = DueOf(S)
<1>1. PhaseOf(T.n) = PhaseOf(S.n)
  BY DEF SameEnd, PhaseOf
<1>2. BorrowerSideOpen(T.n) = BorrowerSideOpen(S.n) /\ LenderSideOpen(T.n) = LenderSideOpen(S.n)
  BY DEF SameEnd, BorrowerSideOpen, LenderSideOpen
<1>3. Over(T.n) = Over(S.n)
  BY DEF SameEnd, Over
<1>4. CollectedOf(T.n) = CollectedOf(S.n)
  BY <1>2, <1>3 DEF SameEnd, CollectedOf
<1>5. \A a \in Assets : OwedToLender(T.n, a) = OwedToLender(S.n, a)
  BY DEF SameEnd, OwedToLender
<1>6. \A a \in Assets : OwedToBorrower(T, a) = OwedToBorrower(S, a)
  BY <1>2 DEF SameEnd, OwedToBorrower
<1>7. DueOf(T) = DueOf(S)
  BY <1>3, <1>5, <1>6 DEF DueOf
<1> QED BY <1>1, <1>4, <1>7

LEMMA SameStep ==
    ASSUME SameEnd(Now, Now')
    PROVE  UNCHANGED Settlement!vars
<1>1. Now.n = loan /\ (Now').n = loan'
  BY DEF Now
<1> QED BY <1>1, Seen, SameEndSeen DEF Settlement!vars

(* A claim on a closed loan collects its own side's due and no more.       *)
LEMMA LenderCollected ==
    ASSUME NEW S \in State, NEW T \in State, S.n.status \in Closed,
           ~ S.n.lenderClaim.claimed, LenderSideOpen(S.n), Paid(T.n),
           T.n.borrowerClaim = S.n.borrowerClaim, T.n.surplus = S.n.surplus,
           LienAmount(T.v) = LienAmount(S.v)
    PROVE  /\ "lender" \notin CollectedOf(S.n) /\ CollectedOf(T.n) = CollectedOf(S.n) \cup {"lender"}
           /\ DueOf(T) = [DueOf(S) EXCEPT !["lender"] = Settlement!Nothing]
<1>1. Over(S.n) /\ Over(T.n) /\ S.n.status \notin Open /\ T.n.status \notin Open
  BY DEF Paid, Over, Closed, Open
<1>2. BorrowerSideOpen(T.n) = BorrowerSideOpen(S.n) /\ T.n.lenderClaim.claimed
  BY DEF BorrowerSideOpen, Paid
<1>3. "lender" \notin CollectedOf(S.n) /\ CollectedOf(T.n) = CollectedOf(S.n) \cup {"lender"}
  BY <1>1, <1>2 DEF CollectedOf
<1>4. DueOf(T)["lender"] = Settlement!Nothing
  BY <1>1, <1>3, NothingLeft
<1>5. \A a \in Assets : OwedToBorrower(T, a) = OwedToBorrower(S, a)
  <2>1. CASE BorrowerSideOpen(S.n)
    <3>1. T.n.status \in Closed
      BY <1>2, <2>1 DEF Paid
    <3> QED BY <1>1, <1>2, <3>1 DEF OwedToBorrower, Open
  <2>2. CASE ~ BorrowerSideOpen(S.n)
    BY <1>1, <1>2, <2>2 DEF OwedToBorrower, BorrowerSideOpen, Open
  <2> QED BY <2>1, <2>2
<1>6. DueOf(T)["borrower"] = DueOf(S)["borrower"]
  BY <1>1, <1>5 DEF DueOf
<1> QED BY <1>3, <1>4, <1>6 DEF DueOf

LEMMA BorrowerCollected ==
    ASSUME NEW S \in State, NEW T \in State, S.n.status \in Closed, BorrowerSideOpen(S.n),
           ~ BorrowerSideOpen(T.n), T.n.lenderClaim = S.n.lenderClaim, T.n.held = S.n.held,
           T.n.status = IF S.n.lenderClaim.claimed \/ ~ LenderSideOpen(S.n) THEN "Settled" ELSE S.n.status
    PROVE  /\ "borrower" \notin CollectedOf(S.n) /\ CollectedOf(T.n) = CollectedOf(S.n) \cup {"borrower"}
           /\ DueOf(T) = [DueOf(S) EXCEPT !["borrower"] = Settlement!Nothing]
<1>1. Over(S.n) /\ Over(T.n)
  BY DEF Over
<1>2. LenderSideOpen(T.n) = LenderSideOpen(S.n)
  BY DEF LenderSideOpen
<1>3. "borrower" \notin CollectedOf(S.n) /\ CollectedOf(T.n) = CollectedOf(S.n) \cup {"borrower"}
  BY <1>1, <1>2 DEF CollectedOf
<1>4. DueOf(T)["borrower"] = Settlement!Nothing
  BY <1>1, <1>3, NothingLeft
<1>5. \A a \in Assets : OwedToLender(T.n, a) = OwedToLender(S.n, a)
  <2>1. S.n.lenderClaim.amount \in Nat /\ S.n.held \in Nat
    BY DEF State, Loan, Claim
  <2>2. CASE S.n.lenderClaim.claimed
    BY <2>2 DEF OwedToLender
  <2>3. CASE ~ S.n.lenderClaim.claimed /\ ~ LenderSideOpen(S.n)
    BY <2>1, <2>3 DEF OwedToLender, LenderSideOpen
  <2>4. CASE ~ S.n.lenderClaim.claimed /\ LenderSideOpen(S.n)
    BY <2>4 DEF OwedToLender
  <2> QED BY <2>2, <2>3, <2>4
<1>6. DueOf(T)["lender"] = DueOf(S)["lender"]
  BY <1>1, <1>5 DEF DueOf
<1> QED BY <1>3, <1>4, <1>6 DEF DueOf

LEMMA ClaimAsLenderStep ==
    ASSUME Inv, Inv', ClaimAsLender
    PROVE  Settlement!Close \/ Settlement!Collect("lender")
<1>1. PICK T \in LenderClaims(Now) : Becomes(T)
  BY DEF ClaimAsLender
<1>2. Ok(T.v) /\ vaults' = T.v /\ loan' = T.n
  BY <1>1 DEF Becomes
<1>3. LenderMayClaim(loan) /\ Valid(Now) /\ Now \in State /\ Now.n = loan
  BY NowIs DEF ClaimAsLender, Inv, Valid
<1>4. Now' \in State /\ (Now').n = loan' /\ (Now').v = vaults'
  BY NextDue
<1>5. CASE loan.status = "FallbackPending"
  <2>1. LenderAwaited(loan)
    BY <1>3, <1>5, Cast DEF Valid, Coherent, LenderAwaited, LenderMayClaim
  <2>2. Pending(Now)
    BY <1>3, <1>5, <2>1, StateShaped DEF Pending
  <2>3. Paid(loan')
    BY <1>2, <2>2, PendingClaimEnds
  <2> QED BY <1>5, <2>3, CloseStep DEF Open
<1>6. CASE loan.status \in Closed
  <2>1. /\ LenderSideOpen(loan) /\ Paid(loan')
        /\ loan'.borrowerClaim = loan.borrowerClaim /\ loan'.surplus = loan.surplus
    BY <1>2, <1>3, <1>6, ClosedClaimEnds
  <2>2. LienAmount(vaults') = LienAmount(vaults)
    <3>1. Ready(Now) /\ T = LenderPaid(Now)
      BY <1>3, <1>6, ValidReady, ClosedClaimEnds DEF LenderMayClaim
    <3> QED BY <1>2, <3>1, LenderPaidValid, NowIs
  <2>3. /\ "lender" \notin Collected /\ Collected' = Collected \cup {"lender"}
        /\ ToPay' = [ToPay EXCEPT !["lender"] = Settlement!Nothing]
    <3> DEFINE N == Now'
    <3>1. N \in State /\ N.n = loan' /\ N.v = vaults'
      BY <1>4
    <3>2. ToPay' = DueOf(N)
      BY Seen
    <3> HIDE DEF N
    <3>3. /\ "lender" \notin CollectedOf(loan) /\ CollectedOf(loan') = CollectedOf(loan) \cup {"lender"}
          /\ DueOf(N) = [DueOf(Now) EXCEPT !["lender"] = Settlement!Nothing]
      BY <1>3, <1>6, <2>1, <2>2, <3>1, LenderCollected, NowIs DEF LenderMayClaim
    <3> QED BY <3>2, <3>3, Seen
  <2>4. Phase = "closed" /\ Phase' = IF Collected' = Settlement!Sides THEN "settled" ELSE "closed"
    <3>1. Over(loan')
      BY <2>1 DEF Paid, Over
    <3> QED BY <1>6, <2>1, <3>1, Seen, PhaseFacts, AllCollected DEF Paid
  <2> QED BY <2>3, <2>4 DEF Settlement!Collect
<1> QED BY <1>3, <1>5, <1>6 DEF LenderMayClaim

LEMMA ClaimAsBorrowerStep ==
    ASSUME Inv, Inv', ClaimAsBorrower
    PROVE  Settlement!Collect("borrower")
<1> DEFINE T == BorrowerClaims(Now)
<1>1. vaults' = T.v /\ loan' = T.n /\ loan.status \in Closed /\ BorrowerSideOpen(loan)
  BY DEF ClaimAsBorrower, Becomes, BorrowerMayClaim
<1>2. Now \in State /\ Now.n = loan
  BY NowIs DEF Inv, Valid
<1>3. /\ ~ BorrowerSideOpen(loan') /\ loan'.lenderClaim = loan.lenderClaim /\ loan'.held = loan.held
      /\ loan'.status = IF loan.lenderClaim.claimed \/ ~ LenderSideOpen(loan) THEN "Settled" ELSE loan.status
  BY <1>1, <1>2, BorrowerClaimEnds
<1> HIDE DEF T
<1>4. /\ "borrower" \notin Collected /\ Collected' = Collected \cup {"borrower"}
      /\ ToPay' = [ToPay EXCEPT !["borrower"] = Settlement!Nothing]
  <2> DEFINE N == Now'
  <2>1. N \in State /\ N.n = loan' /\ N.v = vaults'
    BY NextDue
  <2>2. ToPay' = DueOf(N)
    BY Seen
  <2> HIDE DEF N
  <2>3. /\ "borrower" \notin CollectedOf(loan) /\ CollectedOf(loan') = CollectedOf(loan) \cup {"borrower"}
        /\ DueOf(N) = [DueOf(Now) EXCEPT !["borrower"] = Settlement!Nothing]
    BY <1>1, <1>2, <1>3, <2>1, BorrowerCollected
  <2> QED BY <2>2, <2>3, Seen
<1>5. Phase = "closed" /\ Phase' = IF Collected' = Settlement!Sides THEN "settled" ELSE "closed"
  <2>1. Over(loan') /\ LenderSideOpen(loan') = LenderSideOpen(loan)
    BY <1>1, <1>3 DEF Over, LenderSideOpen
  <2> QED BY <1>1, <1>3, <2>1, Seen, PhaseFacts, AllCollected
<1> QED BY <1>4, <1>5 DEF Settlement!Collect

(* What the calls on an open loan may make of it.                          *)
LEMMA MatchedMayEnd ==
    ASSUME Inv, loan.status \in Open, NEW T \in InternalMatches(Now)
    PROVE  T.n.status = loan.status \/ Fresh(T.n)
<1>1. Now \in State /\ Now.n = loan /\ Coherent(loan)
  BY NowIs DEF Inv, Valid
<1>2. Shaped(Now)
  BY <1>1, StateShaped
<1>3. loan.status = "FallbackPending" => LenderAwaited(loan)
  BY <1>1, Cast DEF Coherent, LenderAwaited, Open
<1> QED BY <1>1, <1>2, <1>3, MatchEnds DEF GoesOn, Fresh, Closed

LEMMA ActiveStep ==
    ASSUME Inv, Inv', loan.status = "Active",
           NEW T \in InternalMatches(Now) \cup UnpricedFallback(Now) \cup Sale(Now) \cup InKind(Now),
           Becomes(T)
    PROVE  [Settlement!Next]_Settlement!vars
<1>1. Shaped(Now) /\ loan' = T.n /\ loan.status \in Open
  BY NowIs, StateShaped DEF Inv, Valid, Becomes, Open
<1>2. T.n.status \in Open \/ Fresh(T.n)
  BY <1>1, MatchedMayEnd, SaleEnds, InKindEnds DEF Open
<1>3. CASE T.n.status \in Open
  BY <1>1, <1>3, OpenStep
<1>4. CASE Fresh(T.n)
  BY <1>1, <1>4, CloseStep DEF Settlement!Next
<1> QED BY <1>2, <1>3, <1>4

LEMMA MatchStep ==
    ASSUME Inv, Inv', TriggerInternalMatchLiquidation
    PROVE  [Settlement!Next]_Settlement!vars
<1>1. PICK T \in InternalMatches(Now) : Becomes(T)
  BY DEF TriggerInternalMatchLiquidation
<1>2. loan.status \in Open /\ loan' = T.n
  BY <1>1 DEF TriggerInternalMatchLiquidation, Open, Becomes
<1>3. CASE loan'.status \in Open
  BY <1>2, <1>3, OpenStep
<1>4. CASE Fresh(loan')
  BY <1>2, <1>4, CloseStep DEF Settlement!Next
<1> QED BY <1>1, <1>2, <1>3, <1>4, MatchedMayEnd

LEMMA BackstopStep ==
    ASSUME Inv, Inv', ClaimAsLenderViaBackstop
    PROVE  [Settlement!Next]_Settlement!vars
<1>1. PICK T \in BackstopClaims(Now) : Becomes(T)
  BY DEF ClaimAsLenderViaBackstop
<1>2. loan.status = "FallbackPending" /\ loan.status \in Open /\ loan' = T.n
  BY <1>1 DEF ClaimAsLenderViaBackstop, Open, Becomes
<1>3. Now \in State /\ Now.n = loan /\ Coherent(loan)
  BY NowIs DEF Inv, Valid
<1>4. LenderAwaited(loan)
  BY <1>2, <1>3, Cast DEF Coherent, LenderAwaited
<1>5. Pending(Now)
  BY <1>2, <1>3, <1>4, StateShaped DEF Pending
<1>6. MayEnd(loan')
  BY <1>2, <1>5, BackstopClaimsEnd
<1>7. CASE loan'.status = "FallbackPending"
  BY <1>2, <1>7, OpenStep
<1>8. CASE Fresh(loan') \/ Paid(loan')
  BY <1>2, <1>8, CloseStep DEF Settlement!Next
<1> QED BY <1>6, <1>7, <1>8 DEF MayEnd

LEMMA RepaidSettles ==
    ASSUME Inv, Inv', NEW x \in 0..MaxInterest, RepayLoan(x)
    PROVE  Settlement!Close
<1>1. loan \in Loan /\ loan.status \in Open
  BY NowIs DEF Inv, Valid, State, RepayLoan, Open
<1> DEFINE N == [loan EXCEPT !.lenderClaim = Pays(Principal, loan.principal + x),
                             !.borrowerClaim = Pays(Collateral, loan.collateral), !.status = "Repaid"]
<1>2. loan' = N \/ loan' = [N EXCEPT !.snap = NoSnapshot, !.custody = 0, !.optIn = FALSE]
  BY NowIs DEF RepayLoan, Becomes, Now
<1>3. loan'.status = "Repaid" /\ loan'.lenderClaim = Pays(Principal, loan.principal + x)
  BY <1>1, <1>2 DEF Loan
<1>4. Fresh(loan')
  BY <1>3, Cast DEF Fresh, LenderAwaited, Pays, Closed
<1> QED BY <1>1, <1>4, CloseStep

LEMMA SettlesInit == ASSUME Init PROVE Settlement!Init
<1>1. Now.n = loan /\ loan.status = "Active" /\ loan.status \in Open
  BY NowIs DEF Init, Open
<1> QED BY <1>1, Seen, PhaseFacts, NothingDueYet DEF Settlement!Init

LEMMA SettlesStep ==
    ASSUME Inv, [Next]_vars
    PROVE  [Settlement!Next]_Settlement!vars
<1>0. Inv'
  BY NextInv
<1>1. Now.n = loan /\ Now.v = vaults /\ (Now').n = loan' /\ (Now').v = vaults' /\ loan \in Loan
  BY NowIs DEF Now, Inv, Valid, State
<1>2. ASSUME SameEnd(Now, Now') PROVE [Settlement!Next]_Settlement!vars
  BY <1>2, SameStep
<1>3. CASE UNCHANGED vars
  BY <1>1, <1>2, <1>3 DEF vars, SameEnd
<1>4. CASE TriggerDefault
  BY <1>0, <1>4, ActiveStep DEF TriggerDefault
<1>5. CASE TriggerLiquidation
  BY <1>0, <1>5, ActiveStep DEF TriggerLiquidation
<1>6. CASE TriggerInternalMatchLiquidation
  BY <1>0, <1>6, MatchStep
<1>7. CASE SettlePeriodicInterest
  <2>1. PICK s \in Openings(loan) : \E T \in PeriodicSale(Now, s[1], s[2]) : Becomes(T)
    BY <1>7 DEF SettlePeriodicInterest
  <2>2. loan.status = "Active" /\ Shaped(Now)
    BY <1>7, StateShaped DEF SettlePeriodicInterest, Inv, Valid
  <2>3. loan'.status = loan.status
    BY <1>1, <2>1, <2>2, PeriodicSaleEnds DEF Becomes
  <2> QED BY <2>2, <2>3, OpenStep DEF Open
<1>8. ASSUME NEW x \in 0..MaxInterest, RepayLoan(x) PROVE [Settlement!Next]_Settlement!vars
  BY <1>0, <1>8, RepaidSettles DEF Settlement!Next
<1>9. ASSUME NEW x \in 1..MaxPledged, AddCollateral(x) PROVE [Settlement!Next]_Settlement!vars
  BY <1>9, AddedStep, OpenStep DEF AddCollateral, Open
<1>10. CASE ClaimAsLender
  BY <1>0, <1>10, ClaimAsLenderStep DEF Settlement!Next, Settlement!Sides
<1>11. CASE ClaimAsBorrower
  BY <1>0, <1>11, ClaimAsBorrowerStep DEF Settlement!Next, Settlement!Sides
<1>12. ASSUME NEW b \in BOOLEAN, SetLenderBackstopOptIn(b) PROVE [Settlement!Next]_Settlement!vars
  <2>1. loan' = [loan EXCEPT !.optIn = b] /\ vaults' = vaults
    BY <1>12 DEF SetLenderBackstopOptIn, Becomes, Now
  <2>2. SameEnd(Now, Now')
    BY <1>1, <2>1 DEF SameEnd, Loan
  <2> QED BY <1>2, <2>2
<1>13. CASE ClaimAsLenderViaBackstop
  BY <1>0, <1>13, BackstopStep
<1>14. ASSUME loan' = loan, LienAmount(vaults') = LienAmount(vaults)
       PROVE  [Settlement!Next]_Settlement!vars
  BY <1>1, <1>2, <1>14 DEF SameEnd
<1>15. ASSUME NEW u \in {Lender, Borrower}, NEW a \in Assets, NEW x \in 1..Supply, Withdraw(u, a, x)
       PROVE  [Settlement!Next]_Settlement!vars
  BY <1>14, <1>15, WithdrawnStep, WithdrawInv
<1>16. ASSUME NEW u \in {Lender, Borrower}, NEW x \in 1..Supply, WithdrawVPFI(u, x)
       PROVE  [Settlement!Next]_Settlement!vars
  BY <1>14, <1>16, WithdrawnStep, WithdrawVPFIInv, Cast
<1> QED BY <1>3, <1>4, <1>5, <1>6, <1>7, <1>8, <1>9, <1>10, <1>11, <1>12, <1>13, <1>15, <1>16 DEF Next

(* Whatever way a loan ends, for any assets, amounts and tokens, it ends   *)
(* as LoanSettlement says: it closes once, what each side is due is fixed  *)
(* then, and is collected by that side once and in full, in either order,  *)
(* whatever the parties do to their vaults meanwhile.                      *)
THEOREM LoanSettlesOnce == Spec => SettlesOnce
<1>1. Init => Settlement!Init
  BY SettlesInit
<1>2. Inv /\ [Next]_vars => [Settlement!Next]_Settlement!vars
  BY SettlesStep
<1> QED BY <1>1, <1>2, LoanInvariant, PTL DEF Spec, SettlesOnce, Settlement!Spec

=============================================================================
