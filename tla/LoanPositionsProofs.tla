------------------------- MODULE LoanPositionsProofs -------------------------
(***************************************************************************)
(* A loan whose positions change hands keeps its books: for any parties,   *)
(* assets, amounts and whatever tokens keep of their transfers, the vaults *)
(* follow the positions, what is owed is reserved, and a barred wallet is  *)
(* paid nothing.                                                           *)
(***************************************************************************)
EXTENDS LoanPositions, VaultProofs

LEMMA Basics ==
    /\ Loans = {1} /\ 1 \in Loans
    /\ Parties \subseteq Users /\ Outside \in Users /\ NoUser \notin Parties
    /\ "lenderProceeds" \in Lanes /\ "heldForLender" \in Lanes /\ "borrowerProceeds" \in Lanes
BY LoanPositionsAssumption, EncumbranceAssumption DEF Loans, Lanes

-----------------------------------------------------------------------------
(* What the operations of the ledger do to the rows of a loan and to the   *)
(* aggregates.                                                             *)

Comes(L, M) == M \in Ledger /\ (M.ok => L.ok) /\ SameParties(L, M)

LEMMA AtInt ==
    ASSUME NEW k, NEW u, NEW a, NEW x \in Int
    PROVE  At(k, u, a, x) \in Int
BY DEF At

LEMMA RowsAreNat ==
    ASSUME NEW L \in Ledger
    PROVE  /\ \A e \in Lanes : L.reserved[e][1].amount \in Nat /\ L.reserved[e][1].amount \in Int
           /\ L.loanCollateralLien[1] \in Lien
           /\ L.loanCollateralLien[1].amount \in Nat /\ L.loanCollateralLien[1].amount \in Int
           /\ \A k \in Keys : L.encumbered[k] \in Int
BY Basics DEF Ledger, Reservation, Lien

LEMMA LienFields ==
    ASSUME NEW r \in Lien, NEW v
    PROVE  /\ [r EXCEPT !.user = v] = [user |-> v, asset |-> r.asset, amount |-> r.amount, live |-> r.live]
           /\ [r EXCEPT !.amount = v] = [user |-> r.user, asset |-> r.asset, amount |-> v, live |-> r.live]
BY DEF Lien

LEMMA LowerByEffect ==
    ASSUME NEW L \in Ledger, NEW u, NEW a, NEW x \in Nat
    PROVE  /\ Lower(L, u, a, x) \in Ledger /\ SameRows(L, Lower(L, u, a, x))
           /\ Lower(L, u, a, x).ok => L.ok
           /\ \A k \in Keys : Lower(L, u, a, x).encumbered[k] = L.encumbered[k] - At(k, u, a, x)
<1>1. x \in Int
  OBVIOUS
<1>2. \A k \in Keys : Lower(L, u, a, x).encumbered[k] = L.encumbered[k] - At(k, u, a, x)
  BY <1>1, LowerEffect
<1>3. Lower(L, u, a, x) \in Ledger /\ SameRows(L, Lower(L, u, a, x)) /\ (Lower(L, u, a, x).ok => L.ok)
  BY LowerRows
<1> QED BY <1>2, <1>3

LEMMA MigrateEffect ==
    ASSUME NEW L \in Ledger, NEW e \in Lanes, NEW u \in Users
    PROVE  LET M == MigrateReserved(L, e, 1, u)
               r == L.reserved[e][1]
           IN  /\ Comes(L, M) /\ SameRows(L, M)
               /\ \A k \in Keys : M.encumbered[k] =
                     L.encumbered[k] - At(k, Party(L, e, 1), r.asset, r.amount) + At(k, u, r.asset, r.amount)
<1> DEFINE r == L.reserved[e][1]
           p == Party(L, e, 1)
           D == Lower(L, p, r.asset, r.amount)
           M == MigrateReserved(L, e, 1, u)
<1>1. r.amount \in Nat /\ r.amount \in Int /\ \A k \in Keys : L.encumbered[k] \in Int
  BY Basics DEF Ledger, Reservation
<1>2. CASE r.amount = 0 \/ u = p
  <2>1. M = L
    BY <1>2 DEF MigrateReserved
  <2>2. Comes(L, L) /\ SameRows(L, L)
    BY DEF Comes, SameRows, SameParties
  <2> HIDE DEF M, p, r
  <2> QED BY <1>1, <1>2, <2>1, <2>2 DEF At, p, r, M
<1>3. CASE ~ (r.amount = 0 \/ u = p)
  <2>1. M = Raise(D, u, r.asset, r.amount)
    BY <1>3 DEF MigrateReserved
  <2> HIDE DEF p, r, M
  <2>2. /\ D \in Ledger /\ SameRows(L, D) /\ (D.ok => L.ok)
        /\ \A k \in Keys : D.encumbered[k] = L.encumbered[k] - At(k, p, r.asset, r.amount)
    BY ONLY <1>1, LowerByEffect
  <2> HIDE DEF D
  <2>3. /\ M \in Ledger /\ SameRows(D, M) /\ M.ok = D.ok
        /\ \A k \in Keys : M.encumbered[k] = D.encumbered[k] + At(k, u, r.asset, r.amount)
    BY <1>1, <2>1, <2>2, RaiseEffect
  <2>4. Comes(L, M) /\ SameRows(L, M)
    BY <2>2, <2>3 DEF Comes, SameRows, SameParties
  <2>5. \A k \in Keys : At(k, p, r.asset, r.amount) \in Int /\ At(k, u, r.asset, r.amount) \in Int
    BY <1>1 DEF At
  <2>6. \A k \in Keys : M.encumbered[k] =
            L.encumbered[k] - At(k, p, r.asset, r.amount) + At(k, u, r.asset, r.amount)
    BY <2>2, <2>3
  <2> QED BY <2>4, <2>6 DEF p, r, M
<1> QED BY <1>2, <1>3

LEMMA TakeEffect ==
    ASSUME NEW L \in Ledger, NEW e \in Lanes, NEW u, NEW x \in Nat, x <= L.reserved[e][1].amount
    PROVE  LET M == TakeReserved(L, e, 1, u, x)
               r == L.reserved[e][1]
           IN  /\ Comes(L, M) /\ M.loanCollateralLien = L.loanCollateralLien
               /\ M.reserved[e][1].amount = r.amount - x
               /\ M.reserved[e][1].amount # 0 => M.reserved[e][1].asset = r.asset
               /\ \A d \in Lanes : d # e => M.reserved[d][1] = L.reserved[d][1]
               /\ \A k \in Keys : M.encumbered[k] = L.encumbered[k] - At(k, u, r.asset, x)
<1> DEFINE r == L.reserved[e][1]
           n == IF x = r.amount THEN NoReservation ELSE [r EXCEPT !.amount = Excess(@, x)]
           S == SetReserved(L, e, 1, n)
           M == TakeReserved(L, e, 1, u, x)
<1>1. r \in Reservation /\ r.amount \in Nat /\ \A k \in Keys : L.encumbered[k] \in Int
  BY Basics DEF Ledger, Reservation
<1>2. CASE x = 0
  <2>1. M = L
    BY <1>2 DEF TakeReserved
  <2> HIDE DEF M
  <2> QED BY <1>1, <1>2, <2>1 DEF Comes, SameParties, At, M
<1>3. CASE x # 0
  <2>1. M = Lower(S, u, r.asset, x)
    BY <1>3 DEF TakeReserved
  <2>2. n \in Reservation /\ n.amount = r.amount - x /\ (n.amount # 0 => n.asset = r.asset)
    BY <1>1 DEF Reservation, NoReservation, Excess
  <2> HIDE DEF n, M, r
  <2>3. /\ S \in Ledger /\ S.reserved[e][1] = n /\ S.loanCollateralLien = L.loanCollateralLien
        /\ \A d \in Lanes : d # e => S.reserved[d][1] = L.reserved[d][1]
        /\ SameParties(L, S) /\ S.ok = L.ok /\ S.encumbered = L.encumbered
    BY <2>2, Basics, SetReservedEffect
  <2> HIDE DEF S
  <2>4. /\ M \in Ledger /\ SameRows(S, M) /\ (M.ok => S.ok)
        /\ \A k \in Keys : M.encumbered[k] = S.encumbered[k] - At(k, u, r.asset, x)
    BY ONLY <2>1, <2>3, x \in Nat, LowerByEffect
  <2>5. /\ Comes(L, M) /\ M.loanCollateralLien = L.loanCollateralLien /\ M.reserved[e][1] = n
        /\ \A d \in Lanes : d # e => M.reserved[d][1] = L.reserved[d][1]
    BY <2>3, <2>4 DEF Comes, SameRows, SameParties
  <2>6. \A k \in Keys : M.encumbered[k] = L.encumbered[k] - At(k, u, r.asset, x)
    BY <2>3, <2>4
  <2> QED BY <2>2, <2>5, <2>6 DEF M, r
<1> QED BY <1>2, <1>3

LEMMA EncumberRows ==
    ASSUME NEW L \in Ledger, NEW e \in Lanes, NEW u, NEW a \in Assets, NEW x \in Nat
    PROVE  LET M == Encumber(L, e, 1, u, a, x)
               r == L.reserved[e][1]
           IN  /\ Comes(L, M) /\ M.loanCollateralLien = L.loanCollateralLien
               /\ M.reserved[e][1].amount = r.amount + x
               /\ x = 0 => M.reserved[e][1].asset = r.asset
               /\ x # 0 => M.reserved[e][1].asset = a
               /\ \A d \in Lanes : d # e => M.reserved[d][1] = L.reserved[d][1]
<1> DEFINE r == L.reserved[e][1]
           n == [asset |-> a, amount |-> r.amount + x]
           S == SetReserved(L, e, 1, n)
           U == Raise(S, u, a, x)
           g == r.amount = 0 \/ r.asset = a
           M == Encumber(L, e, 1, u, a, x)
<1>1. r \in Reservation /\ r.amount \in Nat /\ L.ok \in BOOLEAN
  BY Basics DEF Ledger, Reservation
<1>2. CASE x = 0
  <2>1. M = L
    BY <1>2 DEF Encumber
  <2> HIDE DEF M
  <2> QED BY <1>1, <1>2, <2>1 DEF Comes, SameParties, M
<1>3. CASE x # 0
  <2>1. M = Require(U, g) /\ g \in BOOLEAN
    BY <1>3 DEF Encumber
  <2>2. n \in Reservation /\ n.amount = r.amount + x /\ n.asset = a
    BY <1>1 DEF Reservation
  <2> HIDE DEF n, M, r, g
  <2>3. /\ S \in Ledger /\ S.reserved[e][1] = n /\ S.loanCollateralLien = L.loanCollateralLien
        /\ \A d \in Lanes : d # e => S.reserved[d][1] = L.reserved[d][1]
        /\ SameParties(L, S) /\ S.ok = L.ok
    BY <2>2, Basics, SetReservedEffect
  <2> HIDE DEF S
  <2>4. U \in Ledger /\ SameRows(S, U) /\ U.ok = S.ok
    BY <2>3, RaiseEffect
  <2> HIDE DEF U
  <2>5. M \in Ledger /\ SameRows(U, M) /\ M.ok = (U.ok /\ g)
    BY <2>1, <2>4, RequireEffect
  <2>6. /\ Comes(L, M) /\ M.loanCollateralLien = L.loanCollateralLien /\ M.reserved[e][1] = n
        /\ \A d \in Lanes : d # e => M.reserved[d][1] = L.reserved[d][1]
    BY <1>1, <2>3, <2>4, <2>5 DEF Comes, SameRows, SameParties
  <2> QED BY <1>3, <2>2, <2>6 DEF M, r
<1> QED BY <1>2, <1>3

LEMMA EncumberSum ==
    ASSUME NEW L \in Ledger, NEW e \in Lanes, NEW u, NEW a \in Assets, NEW x \in Nat
    PROVE  \A k \in Keys : Encumber(L, e, 1, u, a, x).encumbered[k] = L.encumbered[k] + At(k, u, a, x)
<1> DEFINE r == L.reserved[e][1]
           n == [asset |-> a, amount |-> r.amount + x]
           S == SetReserved(L, e, 1, n)
           U == Raise(S, u, a, x)
           g == r.amount = 0 \/ r.asset = a
           M == Encumber(L, e, 1, u, a, x)
<1>1. r.amount \in Nat /\ \A k \in Keys : L.encumbered[k] \in Int
  BY Basics DEF Ledger, Reservation
<1>2. CASE x = 0
  <2>1. M = L /\ \A k : At(k, u, a, x) = 0
    BY <1>2 DEF Encumber, At
  <2> QED BY <1>1, <2>1
<1>3. CASE x # 0
  <2>1. M = Require(U, g) /\ g \in BOOLEAN
    BY <1>3 DEF Encumber
  <2>2. n \in Reservation
    BY <1>1 DEF Reservation
  <2> HIDE DEF n, M, r, g
  <2>3. S \in Ledger /\ S.encumbered = L.encumbered
    BY <2>2, Basics, SetReservedEffect
  <2> HIDE DEF S
  <2>4. U \in Ledger /\ \A k \in Keys : U.encumbered[k] = S.encumbered[k] + At(k, u, a, x)
    BY <2>3, RaiseEffect
  <2> HIDE DEF U
  <2>5. M.encumbered = U.encumbered
    BY <2>1, <2>4, RequireEffect
  <2> QED BY <2>3, <2>4, <2>5 DEF M
<1> QED BY <1>2, <1>3

LEMMA SetLienUp ==
    ASSUME NEW L \in Ledger, NEW r \in Lien, NEW u, NEW a, NEW x \in Nat
    PROVE  LET M == Raise(SetLien(L, 1, r), u, a, x)
           IN  /\ Comes(L, M) /\ M.reserved = L.reserved /\ M.loanCollateralLien[1] = r
               /\ \A k \in Keys : M.encumbered[k] = L.encumbered[k] + At(k, u, a, x)
<1> DEFINE S == SetLien(L, 1, r)
           M == Raise(S, u, a, x)
<1>1. /\ S \in Ledger /\ S.loanCollateralLien[1] = r /\ S.reserved = L.reserved
      /\ SameParties(L, S) /\ S.ok = L.ok /\ S.encumbered = L.encumbered
  BY Basics, SetLienEffect
<1> HIDE DEF S
<1>2. /\ M \in Ledger /\ SameRows(S, M) /\ M.ok = S.ok
      /\ \A k \in Keys : M.encumbered[k] = S.encumbered[k] + At(k, u, a, x)
  BY <1>1, RaiseEffect
<1>3. Comes(L, M) /\ M.reserved = L.reserved /\ M.loanCollateralLien[1] = r
  BY <1>1, <1>2 DEF Comes, SameRows, SameParties
<1> QED BY <1>1, <1>2, <1>3 DEF S

LEMMA SetLienDown ==
    ASSUME NEW L \in Ledger, NEW r \in Lien, NEW u, NEW a, NEW x \in Nat
    PROVE  LET M == Lower(SetLien(L, 1, r), u, a, x)
           IN  /\ Comes(L, M) /\ M.reserved = L.reserved /\ M.loanCollateralLien[1] = r
               /\ \A k \in Keys : M.encumbered[k] = L.encumbered[k] - At(k, u, a, x)
<1> DEFINE S == SetLien(L, 1, r)
           M == Lower(S, u, a, x)
<1>1. /\ S \in Ledger /\ S.loanCollateralLien[1] = r /\ S.reserved = L.reserved
      /\ SameParties(L, S) /\ S.ok = L.ok /\ S.encumbered = L.encumbered
  BY Basics, SetLienEffect
<1> HIDE DEF S
<1>2. /\ M \in Ledger /\ SameRows(S, M) /\ (M.ok => S.ok)
      /\ \A k \in Keys : M.encumbered[k] = S.encumbered[k] - At(k, u, a, x)
  BY ONLY <1>1, x \in Nat, LowerByEffect
<1>3. Comes(L, M) /\ M.reserved = L.reserved /\ M.loanCollateralLien[1] = r
  BY <1>1, <1>2 DEF Comes, SameRows, SameParties
<1> QED BY <1>1, <1>2, <1>3 DEF S

LEMMA DecrementEffect ==
    ASSUME NEW L \in Ledger, NEW x \in Nat
    PROVE  LET M == DecrementCollateralLien(L, 1, x)
               r == L.loanCollateralLien[1]
           IN  /\ Comes(L, M) /\ M.reserved = L.reserved
               /\ M.ok /\ r.live => /\ x <= r.amount
                                    /\ M.loanCollateralLien[1] = [r EXCEPT !.amount = r.amount - x]
               /\ r.live => \A k \in Keys :
                     M.encumbered[k] = L.encumbered[k] - At(k, r.user, r.asset, x)
<1> DEFINE r == L.loanCollateralLien[1]
           n == [r EXCEPT !.amount = Excess(@, x)]
           D == Lower(SetLien(L, 1, n), r.user, r.asset, x)
           p == x <= r.amount
           M == DecrementCollateralLien(L, 1, x)
<1>0. r \in Lien /\ r.amount \in Nat /\ L.ok \in BOOLEAN
  BY Basics DEF Ledger, Lien
<1>1. CASE ~ r.live
  <2>1. M = L
    BY <1>1 DEF DecrementCollateralLien
  <2> HIDE DEF M, r
  <2>2. Comes(L, L)
    BY DEF Comes, SameParties
  <2> QED BY <1>1, <2>1, <2>2 DEF M, r
<1>2. CASE r.live
  <2>1. M = Require(D, p) /\ p \in BOOLEAN
    BY <1>2 DEF DecrementCollateralLien
  <2>2. n \in Lien /\ (p => n = [r EXCEPT !.amount = r.amount - x])
    BY <1>0 DEF Lien, Excess
  <2> HIDE DEF n, r, M, p
  <2>3. /\ Comes(L, D) /\ D.reserved = L.reserved /\ D.loanCollateralLien[1] = n
        /\ \A k \in Keys : D.encumbered[k] = L.encumbered[k] - At(k, r.user, r.asset, x)
    BY <2>2, SetLienDown
  <2> HIDE DEF D
  <2>4. M \in Ledger /\ SameRows(D, M) /\ M.encumbered = D.encumbered /\ M.ok = (D.ok /\ p)
    BY <2>1, <2>3, RequireEffect DEF Comes
  <2>5. Comes(L, M) /\ M.reserved = L.reserved /\ M.loanCollateralLien[1] = n /\ (M.ok => p)
    BY <2>3, <2>4 DEF Comes, SameRows, SameParties
  <2>6. \A k \in Keys : M.encumbered[k] = L.encumbered[k] - At(k, r.user, r.asset, x)
    BY <2>3, <2>4
  <2> QED BY <2>2, <2>5, <2>6 DEF M, r, p
<1> QED BY <1>1, <1>2

LEMMA IncrementEffect ==
    ASSUME NEW L \in Ledger, NEW a \in Assets, NEW x \in Nat, x # 0
    PROVE  LET M == IncrementCollateralLien(L, 1, a, x)
               r == L.loanCollateralLien[1]
           IN  /\ Comes(L, M) /\ M.reserved = L.reserved
               /\ r.live =>
                     /\ M.loanCollateralLien[1] = [r EXCEPT !.amount = r.amount + x]
                     /\ \A k \in Keys : M.encumbered[k] = L.encumbered[k] + At(k, r.user, r.asset, x)
<1> DEFINE r == L.loanCollateralLien[1]
           M == IncrementCollateralLien(L, 1, a, x)
<1>0. r \in Lien /\ r.amount \in Nat /\ L.borrower[1] \in Users \cup {NoUser}
  BY Basics DEF Ledger, Lien
<1>1. CASE ~ r.live
  <2> DEFINE n == [user |-> L.borrower[1], asset |-> a, amount |-> x, live |-> TRUE]
  <2>1. M = Raise(SetLien(L, 1, n), L.borrower[1], a, x)
    BY <1>1, x # 0 DEF IncrementCollateralLien, RecreateCollateralLien
  <2>2. n \in Lien
    BY <1>0 DEF Lien
  <2> HIDE DEF n, M, r
  <2>3. Comes(L, M) /\ M.reserved = L.reserved
    BY <2>1, <2>2, SetLienUp
  <2> QED BY <1>1, <2>3 DEF M, r
<1>2. CASE r.live
  <2> DEFINE n == [r EXCEPT !.amount = r.amount + x]
  <2>1. M = Raise(SetLien(L, 1, n), r.user, r.asset, x)
    BY <1>2, x # 0 DEF IncrementCollateralLien
  <2>2. n \in Lien
    BY <1>0 DEF Lien
  <2> HIDE DEF n, M, r
  <2>3. /\ Comes(L, M) /\ M.reserved = L.reserved /\ M.loanCollateralLien[1] = n
        /\ \A k \in Keys : M.encumbered[k] = L.encumbered[k] + At(k, r.user, r.asset, x)
    BY <2>1, <2>2, SetLienUp
  <2> QED BY <2>3 DEF M, r, n
<1> QED BY <1>1, <1>2

LEMMA ReleaseEffect ==
    ASSUME NEW L \in Ledger
    PROVE  LET M == ReleaseCollateralLien(L, 1)
               r == L.loanCollateralLien[1]
           IN  /\ Comes(L, M) /\ M.reserved = L.reserved /\ ~ M.loanCollateralLien[1].live
               /\ r.live => \A k \in Keys :
                     M.encumbered[k] = L.encumbered[k] - At(k, r.user, r.asset, r.amount)
<1> DEFINE r == L.loanCollateralLien[1]
           n == [r EXCEPT !.live = FALSE, !.amount = 0]
           M == ReleaseCollateralLien(L, 1)
<1>0. r \in Lien /\ r.amount \in Nat
  BY Basics DEF Ledger, Lien
<1>1. CASE ~ r.live
  <2>1. M = L
    BY <1>1 DEF ReleaseCollateralLien
  <2>2. Comes(L, L)
    BY DEF Comes, SameParties
  <2> HIDE DEF M
  <2> QED BY <1>1, <2>1, <2>2 DEF M
<1>2. CASE r.live
  <2>1. M = Lower(SetLien(L, 1, n), r.user, r.asset, r.amount)
    BY <1>2 DEF ReleaseCollateralLien
  <2>2. n \in Lien /\ ~ n.live
    BY <1>0 DEF Lien
  <2> HIDE DEF n, M, r
  <2>3. /\ Comes(L, M) /\ M.reserved = L.reserved /\ M.loanCollateralLien[1] = n
        /\ \A k \in Keys : M.encumbered[k] = L.encumbered[k] - At(k, r.user, r.asset, r.amount)
    BY <1>0, <2>1, <2>2, SetLienDown
  <2> QED BY <2>2, <2>3 DEF M, r
<1> QED BY <1>1, <1>2

LEMMA RekeyLenderEffect ==
    ASSUME NEW L \in Ledger, NEW u \in Users
    PROVE  LET M == RekeyLienToHolder(L, 1, u, TRUE)
               r == L.reserved["heldForLender"][1]
               d == L.reserved["lenderProceeds"][1]
               p == L.lender[1]
           IN  /\ Comes(L, M) /\ SameRows(L, M)
               /\ \A k \in Keys : M.encumbered[k] =
                     L.encumbered[k] - At(k, p, r.asset, r.amount) + At(k, u, r.asset, r.amount)
                                     - At(k, p, d.asset, d.amount) + At(k, u, d.asset, d.amount)
<1> DEFINE H == MigrateReserved(L, "heldForLender", 1, u)
           M == RekeyLienToHolder(L, 1, u, TRUE)
           r == L.reserved["heldForLender"][1]
           d == L.reserved["lenderProceeds"][1]
           p == L.lender[1]
<1>0. r.amount \in Int /\ d.amount \in Int /\ \A k \in Keys : L.encumbered[k] \in Int
  BY RowsAreNat, Basics
<1>1. M = MigrateReserved(H, "lenderProceeds", 1, u)
  BY DEF RekeyLienToHolder
<1>2. Party(L, "heldForLender", 1) = p
  BY DEF Party
<1> HIDE DEF M, H, p
<1>3. /\ Comes(L, H) /\ SameRows(L, H)
      /\ \A k \in Keys : H.encumbered[k] =
            L.encumbered[k] - At(k, p, r.asset, r.amount) + At(k, u, r.asset, r.amount)
  BY <1>2, Basics, MigrateEffect DEF H
<1>4. Party(H, "lenderProceeds", 1) = p /\ H.reserved["lenderProceeds"][1] = d
  BY <1>3 DEF Party, SameRows, SameParties, p
<1>5. /\ Comes(H, M) /\ SameRows(H, M)
      /\ \A k \in Keys : M.encumbered[k] =
            H.encumbered[k] - At(k, p, d.asset, d.amount) + At(k, u, d.asset, d.amount)
  <2>1. H \in Ledger
    BY <1>3 DEF Comes
  <2> HIDE DEF d
  <2> QED BY ONLY <1>1, <1>4, <2>1, u \in Users, Basics, MigrateEffect
<1>6. Comes(L, M) /\ SameRows(L, M)
  BY <1>3, <1>5 DEF Comes, SameRows, SameParties
<1> HIDE DEF r, d
<1>7. \A k \in Keys : M.encumbered[k] =
            L.encumbered[k] - At(k, p, r.asset, r.amount) + At(k, u, r.asset, r.amount)
                            - At(k, p, d.asset, d.amount) + At(k, u, d.asset, d.amount)
  BY <1>0, <1>3, <1>5, AtInt
<1> QED BY <1>6, <1>7 DEF M, r, d, p

LEMMA RekeyBorrowerEffect ==
    ASSUME NEW L \in Ledger, NEW u \in Users
    PROVE  LET M == RekeyLienToHolder(L, 1, u, FALSE)
               s == L.reserved["borrowerProceeds"][1]
               r == L.loanCollateralLien[1]
               q == L.borrower[1]
           IN  /\ Comes(L, M) /\ M.reserved = L.reserved
               /\ r.live =>
                     /\ M.loanCollateralLien[1] = [r EXCEPT !.user = u]
                     /\ \A k \in Keys : M.encumbered[k] =
                           L.encumbered[k] - At(k, q, s.asset, s.amount) + At(k, u, s.asset, s.amount)
                                           - At(k, r.user, r.asset, r.amount) + At(k, u, r.asset, r.amount)
<1> DEFINE H == MigrateReserved(L, "borrowerProceeds", 1, u)
           M == RekeyLienToHolder(L, 1, u, FALSE)
           s == L.reserved["borrowerProceeds"][1]
           r == L.loanCollateralLien[1]
           q == L.borrower[1]
           n == [r EXCEPT !.user = u]
           D == Lower(SetLien(H, 1, n), r.user, r.asset, r.amount)
<1>1. Party(L, "borrowerProceeds", 1) = q
  BY DEF Party
<1>2. r \in Lien /\ n \in Lien /\ r.amount \in Nat
  <2>1. r \in Lien
    BY Basics DEF Ledger
  <2> HIDE DEF r
  <2> QED BY <2>1 DEF Lien
<1> HIDE DEF H, q, s
<1>3. /\ Comes(L, H) /\ SameRows(L, H)
      /\ \A k \in Keys : H.encumbered[k] =
            L.encumbered[k] - At(k, q, s.asset, s.amount) + At(k, u, s.asset, s.amount)
  BY <1>1, Basics, MigrateEffect DEF H, s
<1>4. H \in Ledger /\ H.loanCollateralLien[1] = r
  BY <1>3 DEF Comes, SameRows
<1>4a. /\ r.amount \in Int /\ s.amount \in Int
       /\ \A k \in Keys : L.encumbered[k] \in Int /\ H.encumbered[k] \in Int
  BY <1>4, RowsAreNat, Basics DEF s
<1>5. CASE ~ r.live \/ r.user = u
  <2>1. M = H
    BY <1>4, <1>5 DEF RekeyLienToHolder, H
  <2> HIDE DEF M
  <2>2. Comes(L, M) /\ M.reserved = L.reserved /\ M.loanCollateralLien[1] = r
    BY <1>3, <1>4, <2>1 DEF SameRows
  <2>3. r.live => n = r
    BY <1>2, <1>5 DEF Lien
  <2> HIDE DEF r, n
  <2>4. r.live => \A k \in Keys : M.encumbered[k] =
            L.encumbered[k] - At(k, q, s.asset, s.amount) + At(k, u, s.asset, s.amount)
                            - At(k, r.user, r.asset, r.amount) + At(k, u, r.asset, r.amount)
    <3> SUFFICES ASSUME r.live, NEW k \in Keys
                 PROVE  M.encumbered[k] =
            L.encumbered[k] - At(k, q, s.asset, s.amount) + At(k, u, s.asset, s.amount)
                            - At(k, r.user, r.asset, r.amount) + At(k, u, r.asset, r.amount)
      OBVIOUS
    <3>1. r.user = u
      BY <1>5
    <3> QED BY <1>3, <1>4a, <2>1, <3>1, AtInt
  <2> QED BY <2>2, <2>3, <2>4 DEF M, r, n, q, s
<1>6. CASE ~ (~ r.live \/ r.user = u)
  <2>1. M = Raise(D, u, r.asset, r.amount)
    BY <1>4, <1>6 DEF RekeyLienToHolder, H
  <2> HIDE DEF M, r, n
  <2>2. /\ Comes(H, D) /\ D.reserved = H.reserved /\ D.loanCollateralLien[1] = n
        /\ \A k \in Keys : D.encumbered[k] = H.encumbered[k] - At(k, r.user, r.asset, r.amount)
    BY <1>2, <1>4, SetLienDown
  <2> HIDE DEF D
  <2>3. /\ M \in Ledger /\ SameRows(D, M) /\ M.ok = D.ok
        /\ \A k \in Keys : M.encumbered[k] = D.encumbered[k] + At(k, u, r.asset, r.amount)
    BY <1>2, <2>1, <2>2, RaiseEffect DEF Comes
  <2>4. Comes(L, M) /\ M.reserved = L.reserved /\ M.loanCollateralLien[1] = n
    BY <1>3, <2>2, <2>3 DEF Comes, SameRows, SameParties
  <2>5. \A k \in Keys : M.encumbered[k] =
            L.encumbered[k] - At(k, q, s.asset, s.amount) + At(k, u, s.asset, s.amount)
                            - At(k, r.user, r.asset, r.amount) + At(k, u, r.asset, r.amount)
    BY <1>3, <1>4a, <2>2, <2>3, AtInt
  <2> QED BY <2>4, <2>5 DEF M, r, n, q, s
<1> QED BY <1>5, <1>6

LEMMA CapLenderEffect ==
    ASSUME NEW L \in Ledger, NEW u, NEW a, NEW y \in Nat
    PROVE  LET M == CapLenderHeldReservations(L, 1, u, a, y)
               r == L.reserved["heldForLender"][1]
           IN  /\ Comes(L, M)
               /\ /\ L.reserved["lenderProceeds"][1].amount = 0
                  /\ y <= r.amount
                  /\ r.amount # 0 => r.asset = a
                  => /\ M.loanCollateralLien = L.loanCollateralLien
                     /\ M.reserved["heldForLender"][1].amount = y
                     /\ y # 0 => M.reserved["heldForLender"][1].asset = a
                     /\ M.reserved["lenderProceeds"] [1] = L.reserved["lenderProceeds"][1]
                     /\ M.reserved["borrowerProceeds"][1] = L.reserved["borrowerProceeds"][1]
                     /\ \A k \in Keys : M.encumbered[k] = L.encumbered[k] - At(k, u, a, r.amount - y)
<1> DEFINE r      == L.reserved["heldForLender"][1]
           d      == L.reserved["lenderProceeds"][1]
           active == ReservedOf(L, "heldForLender", 1, a)
           over   == Excess(active + ReservedOf(L, "lenderProceeds", 1, a), y)
           first  == AtMost(over, active)
           T      == TakeReserved(L, "heldForLender", 1, u, first)
           M      == CapLenderHeldReservations(L, 1, u, a, y)
<1>1. M = TakeReserved(T, "lenderProceeds", 1, u, over - first)
  BY DEF CapLenderHeldReservations
<1>2. r.amount \in Nat /\ d.amount \in Nat
  BY Basics DEF Ledger, Reservation
<1>3. first \in Nat /\ first <= r.amount /\ over - first \in Nat /\ over - first <= d.amount
  <2> DEFINE parked == ReservedOf(L, "lenderProceeds", 1, a)
  <2>1. active \in {0, r.amount} /\ parked \in {0, d.amount}
    BY DEF ReservedOf
  <2>2. over = Excess(active + parked, y) /\ first = AtMost(over, active)
    OBVIOUS
  <2> HIDE DEF r, d, active, parked, over, first
  <2> QED BY <1>2, <2>1, <2>2 DEF Excess, AtMost
<1>4. d.amount = 0 /\ y <= r.amount /\ (r.amount # 0 => r.asset = a)
         => first = r.amount - y /\ over - first = 0
  <2> DEFINE parked == ReservedOf(L, "lenderProceeds", 1, a)
  <2> SUFFICES ASSUME d.amount = 0, y <= r.amount, r.amount # 0 => r.asset = a
               PROVE  first = r.amount - y /\ over - first = 0
    OBVIOUS
  <2>1. active = r.amount /\ parked = 0
    BY <1>2 DEF ReservedOf
  <2>2. over = Excess(active + parked, y) /\ first = AtMost(over, active)
    OBVIOUS
  <2> HIDE DEF r, d, active, parked, over, first
  <2> QED BY <1>2, <2>1, <2>2 DEF Excess, AtMost
<1> HIDE DEF M, first, over, active
<1>5. /\ Comes(L, T) /\ T.loanCollateralLien = L.loanCollateralLien
      /\ T.reserved["heldForLender"][1].amount = r.amount - first
      /\ T.reserved["heldForLender"][1].amount # 0 => T.reserved["heldForLender"][1].asset = r.asset
      /\ \A e \in Lanes : e # "heldForLender" => T.reserved[e][1] = L.reserved[e][1]
      /\ \A k \in Keys : T.encumbered[k] = L.encumbered[k] - At(k, u, r.asset, first)
  BY <1>3, Basics, TakeEffect
<1>6. T.reserved["lenderProceeds"][1] = d
  BY <1>5, Basics
<1> HIDE DEF T
<1>7. Comes(T, M)
  BY <1>1, <1>3, <1>5, <1>6, Basics, TakeEffect DEF Comes
<1>8. Comes(L, M)
  BY <1>5, <1>7 DEF Comes, SameParties
<1> HIDE DEF r, d
<1>9. ASSUME d.amount = 0, y <= r.amount, r.amount # 0 => r.asset = a
      PROVE  /\ M.loanCollateralLien = L.loanCollateralLien
             /\ M.reserved["heldForLender"][1].amount = y
             /\ y # 0 => M.reserved["heldForLender"][1].asset = a
             /\ M.reserved["lenderProceeds"] [1] = L.reserved["lenderProceeds"][1]
             /\ M.reserved["borrowerProceeds"][1] = L.reserved["borrowerProceeds"][1]
             /\ \A k \in Keys : M.encumbered[k] = L.encumbered[k] - At(k, u, a, r.amount - y)
  <2>1. M = T /\ first = r.amount - y
    BY <1>1, <1>4, <1>9 DEF TakeReserved
  <2>2. "borrowerProceeds" # "heldForLender" /\ "lenderProceeds" # "heldForLender"
    OBVIOUS
  <2>3. \A k \in Keys : At(k, u, r.asset, first) = At(k, u, a, r.amount - y)
    BY <1>2, <1>9, <2>1 DEF At
  <2>4. T.reserved["heldForLender"][1].amount = y /\ (y # 0 => T.reserved["heldForLender"][1].asset = a)
    BY <1>2, <1>5, <1>9, <2>1
  <2> QED BY <1>5, <2>1, <2>2, <2>3, <2>4, Basics
<1> QED BY <1>8, <1>9 DEF M, r, d

LEMMA CapBorrowerEffect ==
    ASSUME NEW L \in Ledger, NEW u, NEW y \in Nat
    PROVE  LET M == CapBorrowerHeldReservation(L, 1, u, y)
               r == L.reserved["borrowerProceeds"][1]
           IN  /\ Comes(L, M) /\ M.loanCollateralLien = L.loanCollateralLien
               /\ y <= r.amount =>
                     /\ M.reserved["borrowerProceeds"][1].amount = y
                     /\ y # 0 => M.reserved["borrowerProceeds"][1].asset = r.asset
                     /\ \A k \in Keys : M.encumbered[k] = L.encumbered[k] - At(k, u, r.asset, r.amount - y)
               /\ M.reserved["lenderProceeds"][1] = L.reserved["lenderProceeds"][1]
               /\ M.reserved["heldForLender"][1] = L.reserved["heldForLender"][1]
<1> DEFINE r == L.reserved["borrowerProceeds"][1]
           x == Excess(r.amount, y)
           M == CapBorrowerHeldReservation(L, 1, u, y)
<1>1. M = TakeReserved(L, "borrowerProceeds", 1, u, x)
  BY DEF CapBorrowerHeldReservation
<1>2. r.amount \in Nat /\ x \in Nat /\ x <= r.amount /\ (y <= r.amount => x = r.amount - y)
  <2>1. r \in Reservation
    BY Basics DEF Ledger, Lanes
  <2>2. r.amount \in Nat
    BY <2>1 DEF Reservation
  <2> HIDE DEF r
  <2> QED BY <2>2 DEF Excess
<1> HIDE DEF M, x
<1>3. /\ Comes(L, M) /\ M.loanCollateralLien = L.loanCollateralLien
      /\ M.reserved["borrowerProceeds"][1].amount = r.amount - x
      /\ M.reserved["borrowerProceeds"][1].amount # 0 => M.reserved["borrowerProceeds"][1].asset = r.asset
      /\ \A e \in Lanes : e # "borrowerProceeds" => M.reserved[e][1] = L.reserved[e][1]
      /\ \A k \in Keys : M.encumbered[k] = L.encumbered[k] - At(k, u, r.asset, x)
  BY <1>1, <1>2, Basics, TakeEffect
<1>4. "lenderProceeds" # "borrowerProceeds" /\ "heldForLender" # "borrowerProceeds"
  OBVIOUS
<1> HIDE DEF r
<1>5. y <= r.amount => M.reserved["borrowerProceeds"][1].amount = y /\ x = r.amount - y
  BY <1>2, <1>3
<1>6. /\ M.reserved["lenderProceeds"][1] = L.reserved["lenderProceeds"][1]
      /\ M.reserved["heldForLender"][1] = L.reserved["heldForLender"][1]
  BY <1>3, <1>4, Basics
<1> QED BY <1>3, <1>5, <1>6 DEF M, r

-----------------------------------------------------------------------------
(* What moving tokens does to the vaults.                                  *)

(* From V to W a revert is not forgotten and no promise of the depository  *)
(* changes.                                                                *)
Moves(V, W) == W \in Vaults /\ (Ok(W) => Ok(V)) /\ W.depository = V.depository

(* Nor does the ledger, but for a revert.                                  *)
KeepsLedger(V, W) == SameRows(V.ledger, W.ledger) /\ W.ledger.encumbered = V.ledger.encumbered

LEMMA OnEffect ==
    ASSUME NEW V \in Vaults, NEW L, Comes(V.ledger, L)
    PROVE  /\ Moves(V, On(V, L)) /\ On(V, L).ledger = L
           /\ On(V, L).tracked = V.tracked /\ On(V, L).wallet = V.wallet
BY DEF Vaults, On, Comes, Moves, Ok

LEMMA GuardedEffect ==
    ASSUME NEW V \in Vaults, NEW g \in BOOLEAN
    PROVE  LET W == Guarded(V, g)
           IN  /\ Moves(V, W) /\ KeepsLedger(V, W) /\ (Ok(W) => g)
               /\ W.tracked = V.tracked /\ W.wallet = V.wallet
<1> DEFINE L == Require(V.ledger, g)
<1>1. V.ledger \in Ledger
  BY DEF Vaults
<1>2. /\ L \in Ledger /\ SameRows(V.ledger, L) /\ L.encumbered = V.ledger.encumbered
      /\ L.ok = (V.ledger.ok /\ g)
  BY <1>1, RequireEffect
<1> HIDE DEF L
<1>3. Comes(V.ledger, L) /\ (L.ok => g)
  BY <1>2 DEF Comes, SameRows
<1>4. Guarded(V, g) = On(V, L)
  BY DEF Guarded, L
<1> QED BY <1>2, <1>3, <1>4, OnEffect DEF KeepsLedger, Ok

Plus(f, u, a, x)  == [f EXCEPT ![<<u, a>>] = @ + x]
Minus(f, u, a, x) == [f EXCEPT ![<<u, a>>] = @ - x]

LEMMA BalanceUp ==
    ASSUME NEW f \in [Keys -> Int], NEW u, NEW a, NEW x \in Int,
           NEW g, g = Plus(f, u, a, x)
    PROVE  g \in [Keys -> Int] /\ \A k \in Keys : g[k] = f[k] + At(k, u, a, x)
<1>1. CASE <<u, a>> \in Keys
  BY <1>1 DEF At, Plus
<1>2. CASE <<u, a>> \notin Keys
  <2>1. g = f
    BY <1>2 DEF Plus
  <2>2. \A k \in Keys : At(k, u, a, x) = 0 /\ f[k] \in Int
    <3> TAKE k \in Keys
    <3>1. k # <<u, a>>
      BY <1>2
    <3> QED BY <3>1 DEF At
  <2>3. \A k \in Keys : g[k] = f[k] + At(k, u, a, x)
    BY <2>1, <2>2
  <2> QED BY <2>1, <2>3
<1> QED BY <1>1, <1>2

LEMMA BalanceDown ==
    ASSUME NEW f \in [Keys -> Int], NEW u, NEW a, NEW x \in Int,
           NEW g, g = Minus(f, u, a, x)
    PROVE  g \in [Keys -> Int] /\ \A k \in Keys : g[k] = f[k] - At(k, u, a, x)
<1>1. CASE <<u, a>> \in Keys
  BY <1>1 DEF At, Minus
<1>2. CASE <<u, a>> \notin Keys
  <2>1. g = f
    BY <1>2 DEF Minus
  <2>2. \A k \in Keys : At(k, u, a, x) = 0 /\ f[k] \in Int
    <3> TAKE k \in Keys
    <3>1. k # <<u, a>>
      BY <1>2
    <3> QED BY <3>1 DEF At
  <2>3. \A k \in Keys : g[k] = f[k] - At(k, u, a, x)
    BY <2>1, <2>2
  <2> QED BY <2>1, <2>3
<1> QED BY <1>1, <1>2

LEMMA DepositEffect ==
    ASSUME NEW V \in Vaults, NEW p, NEW u, NEW a, NEW x \in Int
    PROVE  LET W == VaultDepositERC20From(V, p, u, a, x)
           IN  /\ Moves(V, W) /\ KeepsLedger(V, W)
               /\ \A k \in Keys : W.tracked[k] = V.tracked[k] + At(k, u, a, x)
               /\ \A k \in Keys : k # <<p, a>> => W.wallet[k] = V.wallet[k]
<1> DEFINE U == [V EXCEPT !.wallet[<<p, a>>] = @ - x, !.tracked[<<u, a>>] = @ + x]
           g == x <= V.wallet[<<p, a>>]
           W == VaultDepositERC20From(V, p, u, a, x)
<1>0. V.tracked \in [Keys -> Int] /\ V.wallet \in [Keys -> Int]
  BY DEF Vaults
<1>1. /\ U.wallet = Minus(V.wallet, p, a, x)
      /\ U.tracked = Plus(V.tracked, u, a, x)
      /\ U.ledger = V.ledger /\ U.depository = V.depository
  BY DEF Vaults, Plus, Minus
<1> HIDE DEF U
<1>1a. U.tracked \in [Keys -> Int] /\ \A k \in Keys : U.tracked[k] = V.tracked[k] + At(k, u, a, x)
  BY <1>0, <1>1, BalanceUp
<1>1b. U.wallet \in [Keys -> Int] /\ \A k \in Keys : U.wallet[k] = V.wallet[k] - At(k, p, a, x)
  BY <1>0, <1>1, BalanceDown
<1>1c. \A k \in Keys : k # <<p, a>> => U.wallet[k] = V.wallet[k]
  BY <1>0, <1>1 DEF Minus
<1>2. /\ U.wallet \in [Keys -> Int] /\ U.tracked \in [Keys -> Int]
      /\ \A k \in Keys : U.tracked[k] = V.tracked[k] + At(k, u, a, x)
      /\ \A k \in Keys : k # <<p, a>> => U.wallet[k] = V.wallet[k]
  BY <1>1a, <1>1b, <1>1c
<1>2a. U \in Vaults
  BY <1>1, <1>2 DEF Vaults, U
<1>3. W = Guarded(U, g) /\ g \in BOOLEAN
  BY DEF VaultDepositERC20From, U
<1> HIDE DEF g, W
<1>4. /\ Moves(U, W) /\ KeepsLedger(U, W)
      /\ W.tracked = U.tracked /\ W.wallet = U.wallet
  BY <1>2a, <1>3, GuardedEffect
<1> QED BY <1>1, <1>2, <1>4 DEF W, Moves, KeepsLedger, Ok

LEMMA WithdrawEffect ==
    ASSUME NEW V \in Vaults, NEW u, NEW a, NEW v, NEW x \in Int
    PROVE  LET W == VaultWithdrawERC20(V, u, a, v, x)
           IN  /\ Moves(V, W) /\ KeepsLedger(V, W) /\ (Ok(W) => x <= Free(V, u, a))
               /\ \A k \in Keys : W.tracked[k] = V.tracked[k] - At(k, u, a, x)
               /\ \A k \in Keys : W.wallet[k] = V.wallet[k] + At(k, v, a, x)
<1> DEFINE U == [V EXCEPT !.tracked[<<u, a>>] = @ - x, !.wallet[<<v, a>>] = @ + x]
           g == x <= Free(V, u, a)
           W == VaultWithdrawERC20(V, u, a, v, x)
<1>0. V.tracked \in [Keys -> Int] /\ V.wallet \in [Keys -> Int]
  BY DEF Vaults
<1>1. /\ U.wallet = Plus(V.wallet, v, a, x)
      /\ U.tracked = Minus(V.tracked, u, a, x)
      /\ U.ledger = V.ledger /\ U.depository = V.depository
  BY DEF Vaults, Plus, Minus
<1> HIDE DEF U
<1>1a. U.tracked \in [Keys -> Int] /\ \A k \in Keys : U.tracked[k] = V.tracked[k] - At(k, u, a, x)
  BY <1>0, <1>1, BalanceDown
<1>1b. U.wallet \in [Keys -> Int] /\ \A k \in Keys : U.wallet[k] = V.wallet[k] + At(k, v, a, x)
  BY <1>0, <1>1, BalanceUp
<1>2. /\ U.wallet \in [Keys -> Int] /\ U.tracked \in [Keys -> Int]
      /\ \A k \in Keys : U.tracked[k] = V.tracked[k] - At(k, u, a, x)
      /\ \A k \in Keys : U.wallet[k] = V.wallet[k] + At(k, v, a, x)
  BY <1>1a, <1>1b
<1>2a. U \in Vaults
  BY <1>1, <1>2 DEF Vaults, U
<1>3. W = Guarded(U, g) /\ g \in BOOLEAN
  BY DEF VaultWithdrawERC20, U
<1> HIDE DEF g, W
<1>4. /\ Moves(U, W) /\ KeepsLedger(U, W) /\ (Ok(W) => g)
      /\ W.tracked = U.tracked /\ W.wallet = U.wallet
  BY <1>2a, <1>3, GuardedEffect
<1> QED BY <1>1, <1>2, <1>4 DEF W, Moves, KeepsLedger, Ok, g

(* Between vaults, by way of Outside.                                      *)
LEMMA MoveEffect ==
    ASSUME NEW V \in Vaults, NEW p, NEW u, NEW a, NEW x \in Int, NEW y \in Int
    PROVE  LET W == MoveERC20(V, p, u, a, x, y)
           IN  /\ Moves(V, W) /\ KeepsLedger(V, W)
               /\ \A k \in Keys : W.tracked[k] = V.tracked[k] - At(k, p, a, x) + At(k, u, a, y)
               /\ \A k \in Keys : k[1] # Outside => W.wallet[k] = V.wallet[k]
<1> DEFINE U == VaultWithdrawERC20(V, p, a, Outside, x)
           W == MoveERC20(V, p, u, a, x, y)
<1>1. W = VaultDepositERC20From(U, Outside, u, a, y)
  BY DEF MoveERC20
<1> HIDE DEF W
<1>2. /\ Moves(V, U) /\ KeepsLedger(V, U)
      /\ \A k \in Keys : U.tracked[k] = V.tracked[k] - At(k, p, a, x)
      /\ \A k \in Keys : U.wallet[k] = V.wallet[k] + At(k, Outside, a, x)
  BY WithdrawEffect
<1> HIDE DEF U
<1>3. /\ Moves(U, W) /\ KeepsLedger(U, W)
      /\ \A k \in Keys : W.tracked[k] = U.tracked[k] + At(k, u, a, y)
      /\ \A k \in Keys : k # <<Outside, a>> => W.wallet[k] = U.wallet[k]
  BY <1>1, <1>2, DepositEffect DEF Moves
<1>4. Moves(V, W) /\ KeepsLedger(V, W)
  BY <1>2, <1>3 DEF Moves, KeepsLedger, SameRows, SameParties
<1>5. \A k \in Keys : W.tracked[k] = V.tracked[k] - At(k, p, a, x) + At(k, u, a, y)
  BY <1>2, <1>3
<1>6. \A k \in Keys : k[1] # Outside => W.wallet[k] = V.wallet[k]
  <2> SUFFICES ASSUME NEW k \in Keys, k[1] # Outside PROVE W.wallet[k] = V.wallet[k]
    OBVIOUS
  <2>1. k # <<Outside, a>> /\ V.wallet[k] \in Int
    BY DEF Vaults
  <2> QED BY <1>2, <1>3, <2>1 DEF At
<1> QED BY <1>4, <1>5, <1>6 DEF W

-----------------------------------------------------------------------------
(* The books of an open loan.                                              *)

Row(r, a, x) == r.amount = x /\ (x # 0 => r.asset = a)

(* The vaults and the ledger of a loan of pa against ca, with c pledged, h *)
(* held for the lender and s for the borrower, and no claim yet.           *)
Book(V, pa, ca, c, h, s) ==
    LET L == V.ledger
        p == L.lender[1]
        q == L.borrower[1]
        Due(k) == At(k, q, ca, c) + At(k, p, pa, h) + At(k, q, pa, s)
    IN  /\ p \in Parties /\ q \in Parties
        /\ L.loanCollateralLien[1] = [user |-> q, asset |-> ca, amount |-> c, live |-> TRUE]
        /\ L.reserved["lenderProceeds"][1].amount = 0
        /\ Row(L.reserved["heldForLender"][1], pa, h)
        /\ Row(L.reserved["borrowerProceeds"][1], pa, s)
        /\ \A k \in Keys : L.encumbered[k] = Due(k)
        /\ \A k \in Keys : V.tracked[k] = V.depository[k] + Due(k)

WalletsKept(V, W) == \A k \in Keys : k[1] \in Parties => W.wallet[k] = V.wallet[k]

Through(V, W) == Moves(V, W) /\ WalletsKept(V, W)

LEMMA ThroughTwice ==
    ASSUME NEW V, NEW W, NEW X, Through(V, W), Through(W, X)
    PROVE  Through(V, X)
BY DEF Through, Moves, WalletsKept

LEMMA OnThrough ==
    ASSUME NEW V \in Vaults, NEW L, Comes(V.ledger, L)
    PROVE  Through(V, On(V, L)) /\ On(V, L).ledger = L /\ On(V, L).tracked = V.tracked
BY OnEffect DEF Through, WalletsKept

LEMMA MoveThrough ==
    ASSUME NEW V \in Vaults, NEW p, NEW u, NEW a, NEW x \in Int, NEW y \in Int
    PROVE  LET W == MoveERC20(V, p, u, a, x, y)
           IN  /\ Through(V, W) /\ KeepsLedger(V, W)
               /\ \A k \in Keys : W.tracked[k] = V.tracked[k] - At(k, p, a, x) + At(k, u, a, y)
BY MoveEffect, LoanPositionsAssumption DEF Through, WalletsKept

LEMMA DepositThrough ==
    ASSUME NEW V \in Vaults, NEW u, NEW a, NEW x \in Int
    PROVE  LET W == VaultDepositERC20From(V, Outside, u, a, x)
           IN  /\ Through(V, W) /\ KeepsLedger(V, W)
               /\ \A k \in Keys : W.tracked[k] = V.tracked[k] + At(k, u, a, x)
BY DepositEffect, LoanPositionsAssumption DEF Through, WalletsKept

(* Sides that change vaults.                                               *)
LEMMA RelocateLender ==
    ASSUME NEW V \in Vaults, NEW u \in Parties, NEW pa, NEW ca,
           NEW c \in Nat, NEW h \in Nat, NEW s \in Nat, NEW y \in 0..h,
           Ok(V) => Book(V, pa, ca, c, h, s)
    PROVE  LET p == V.ledger.lender[1]
               R == On(V, RekeyLienToHolder(V.ledger, 1, u, TRUE))
               M == MoveERC20(R, p, u, pa, h, y)
               C == On(M, CapLenderHeldReservations(M.ledger, 1, u, pa, y))
               W == On(C, SetLender(C.ledger, 1, u))
           IN  Through(V, W) /\ (Ok(W) => Book(W, pa, ca, c, y, s))
<1> DEFINE p == V.ledger.lender[1]
           q == V.ledger.borrower[1]
           r == V.ledger.reserved["heldForLender"][1]
           d == V.ledger.reserved["lenderProceeds"][1]
           R == On(V, RekeyLienToHolder(V.ledger, 1, u, TRUE))
           M == MoveERC20(R, p, u, pa, h, y)
           C == On(M, CapLenderHeldReservations(M.ledger, 1, u, pa, y))
           W == On(C, SetLender(C.ledger, 1, u))
<1>0. V.ledger \in Ledger /\ u \in Users /\ y \in Nat /\ y \in Int /\ h \in Int /\ h - y \in Int
  BY Basics DEF Vaults
<1>1. /\ Through(V, R) /\ R.tracked = V.tracked /\ Comes(V.ledger, R.ledger) /\ SameRows(V.ledger, R.ledger)
      /\ \A k \in Keys : R.ledger.encumbered[k] =
            V.ledger.encumbered[k] - At(k, p, r.asset, r.amount) + At(k, u, r.asset, r.amount)
                                   - At(k, p, d.asset, d.amount) + At(k, u, d.asset, d.amount)
  <2>1. LET K == RekeyLienToHolder(V.ledger, 1, u, TRUE)
        IN  /\ Comes(V.ledger, K) /\ SameRows(V.ledger, K)
            /\ \A k \in Keys : K.encumbered[k] =
                  V.ledger.encumbered[k] - At(k, p, r.asset, r.amount) + At(k, u, r.asset, r.amount)
                                         - At(k, p, d.asset, d.amount) + At(k, u, d.asset, d.amount)
    BY <1>0, RekeyLenderEffect
  <2>2. R.ledger = RekeyLienToHolder(V.ledger, 1, u, TRUE) /\ Through(V, R) /\ R.tracked = V.tracked
    BY <2>1, OnThrough
  <2> QED BY <2>1, <2>2
<1> HIDE DEF R
<1>2. R \in Vaults
  BY <1>1 DEF Through, Moves
<1>3. /\ Through(R, M) /\ KeepsLedger(R, M)
      /\ \A k \in Keys : M.tracked[k] = R.tracked[k] - At(k, p, pa, h) + At(k, u, pa, y)
  BY <1>0, <1>2, MoveThrough
<1> HIDE DEF M
<1>4. M \in Vaults /\ M.ledger \in Ledger
  BY <1>3 DEF Through, Moves, Vaults
<1>5. Through(M, C) /\ C.ledger = CapLenderHeldReservations(M.ledger, 1, u, pa, y) /\ C.tracked = M.tracked
  BY <1>0, <1>4, CapLenderEffect, OnThrough
<1> HIDE DEF C
<1>6. C \in Vaults /\ C.ledger \in Ledger /\ Comes(M.ledger, C.ledger)
  BY <1>0, <1>4, <1>5, CapLenderEffect DEF Through, Moves, Vaults
<1>7. LET N == SetLender(C.ledger, 1, u)
      IN  /\ N \in Ledger /\ N.ok = C.ledger.ok /\ N.borrower = C.ledger.borrower /\ N.lender[1] = u
          /\ N.loanCollateralLien = C.ledger.loanCollateralLien /\ N.reserved = C.ledger.reserved
          /\ N.encumbered = C.ledger.encumbered
  BY <1>0, <1>6, Basics, SetLenderEffect
<1> DEFINE N == SetLender(C.ledger, 1, u)
<1> HIDE DEF N
<1>8. /\ W \in Vaults /\ W.ledger = N /\ W.depository = C.depository /\ W.wallet = C.wallet
      /\ W.tracked = C.tracked
  BY <1>6, <1>7 DEF On, Vaults, N
<1>9. Through(C, W)
  BY <1>7, <1>8 DEF Through, Moves, WalletsKept, Ok, N
<1> HIDE DEF W
<1>10. Through(V, W)
  BY <1>1, <1>3, <1>5, <1>9, ThroughTwice
<1>11. ASSUME Ok(W) PROVE Book(W, pa, ca, c, y, s)
  <2>1. Book(V, pa, ca, c, h, s)
    BY <1>10, <1>11 DEF Through, Moves
  <2>2. /\ p \in Parties /\ q \in Parties
        /\ V.ledger.loanCollateralLien[1] = [user |-> q, asset |-> ca, amount |-> c, live |-> TRUE]
        /\ d.amount = 0 /\ Row(r, pa, h) /\ Row(V.ledger.reserved["borrowerProceeds"][1], pa, s)
    BY <2>1 DEF Book
  <2>3. /\ M.ledger.loanCollateralLien = V.ledger.loanCollateralLien /\ M.ledger.reserved = V.ledger.reserved
        /\ M.ledger.encumbered = R.ledger.encumbered /\ SameParties(V.ledger, M.ledger)
    BY <1>1, <1>3 DEF KeepsLedger, SameRows, SameParties
  <2>4. /\ C.ledger.loanCollateralLien = M.ledger.loanCollateralLien
        /\ C.ledger.reserved["heldForLender"][1].amount = y
        /\ y # 0 => C.ledger.reserved["heldForLender"][1].asset = pa
        /\ C.ledger.reserved["lenderProceeds"][1] = M.ledger.reserved["lenderProceeds"][1]
        /\ C.ledger.reserved["borrowerProceeds"][1] = M.ledger.reserved["borrowerProceeds"][1]
        /\ \A k \in Keys : C.ledger.encumbered[k] = M.ledger.encumbered[k] - At(k, u, pa, h - y)
    <3>1. /\ M.ledger.reserved["lenderProceeds"][1].amount = 0
          /\ M.ledger.reserved["heldForLender"][1].amount = h
          /\ h # 0 => M.ledger.reserved["heldForLender"][1].asset = pa
      BY <2>2, <2>3 DEF Row
    <3> QED BY <1>0, <1>4, <1>5, <3>1, CapLenderEffect, SMTT(60)
  <2>5. W.ledger.lender[1] = u /\ W.ledger.borrower[1] = q
    BY <1>6, <1>7, <1>8, <2>3 DEF Comes, SameParties, N
  <2>6. /\ W.ledger.loanCollateralLien[1] = [user |-> q, asset |-> ca, amount |-> c, live |-> TRUE]
        /\ W.ledger.reserved["lenderProceeds"][1].amount = 0
        /\ Row(W.ledger.reserved["heldForLender"][1], pa, y)
        /\ Row(W.ledger.reserved["borrowerProceeds"][1], pa, s)
    BY <1>7, <1>8, <2>2, <2>3, <2>4 DEF Row, N
  <2>7. ASSUME NEW k \in Keys
        PROVE  /\ W.ledger.encumbered[k] = At(k, q, ca, c) + At(k, u, pa, y) + At(k, q, pa, s)
               /\ W.tracked[k] = W.depository[k] + (At(k, q, ca, c) + At(k, u, pa, y) + At(k, q, pa, s))
    <3>1. /\ V.ledger.encumbered[k] = At(k, q, ca, c) + At(k, p, pa, h) + At(k, q, pa, s)
          /\ V.tracked[k] = V.depository[k] + (At(k, q, ca, c) + At(k, p, pa, h) + At(k, q, pa, s))
      BY <2>1 DEF Book
    <3>2. /\ W.ledger.encumbered[k] = R.ledger.encumbered[k] - At(k, u, pa, h - y)
          /\ W.tracked[k] = V.tracked[k] - At(k, p, pa, h) + At(k, u, pa, y)
      BY <1>1, <1>3, <1>5, <1>7, <1>8, <2>3, <2>4 DEF N
    <3>3. /\ At(k, p, r.asset, r.amount) = At(k, p, pa, h) /\ At(k, u, r.asset, r.amount) = At(k, u, pa, h)
          /\ At(k, p, d.asset, d.amount) = 0 /\ At(k, u, d.asset, d.amount) = 0
      BY <2>2 DEF Row, At
    <3> HIDE DEF p, q, r, d
    <3>4. R.ledger.encumbered[k] = V.ledger.encumbered[k] - At(k, p, pa, h) + At(k, u, pa, h) - 0 + 0
      BY <1>1, <3>3
    <3>5. At(k, u, pa, h - y) = At(k, u, pa, h) - At(k, u, pa, y)
      BY <1>0 DEF At
    <3>6. /\ At(k, q, ca, c) \in Int /\ At(k, p, pa, h) \in Int /\ At(k, q, pa, s) \in Int
          /\ At(k, u, pa, h) \in Int /\ At(k, u, pa, y) \in Int
      BY <1>0, AtInt
    <3>7. W.depository[k] = V.depository[k] /\ V.depository[k] \in Int
      BY <1>10 DEF Through, Moves, Vaults
    <3> QED BY <3>1, <3>2, <3>4, <3>5, <3>6, <3>7
  <2> HIDE DEF p, q
  <2>8. q \in Parties
    BY <2>2
  <2> QED BY <2>5, <2>6, <2>7, <2>8 DEF Book
<1> QED BY <1>10, <1>11 DEF W, C, M, R

LEMMA LowerLienThrough ==
    ASSUME NEW V \in Vaults, NEW x \in Nat
    PROVE  LET W == LowerLien(V, x)
               r == V.ledger.loanCollateralLien[1]
           IN  /\ Through(V, W) /\ Comes(V.ledger, W.ledger) /\ W.ledger.reserved = V.ledger.reserved
               /\ W.tracked = V.tracked
               /\ Ok(W) /\ r.live => /\ x <= r.amount
                                     /\ W.ledger.loanCollateralLien[1] = [r EXCEPT !.amount = r.amount - x]
               /\ r.live => \A k \in Keys :
                     W.ledger.encumbered[k] = V.ledger.encumbered[k] - At(k, r.user, r.asset, x)
<1> DEFINE L == V.ledger
           D == DecrementCollateralLien(L, 1, x)
           r == L.loanCollateralLien[1]
           W == LowerLien(V, x)
<1>1. L \in Ledger
  BY DEF Vaults
<1> HIDE DEF L
<1>2. /\ Comes(L, D) /\ D.reserved = L.reserved
      /\ D.ok /\ r.live => /\ x <= r.amount
                           /\ D.loanCollateralLien[1] = [r EXCEPT !.amount = r.amount - x]
      /\ r.live => \A k \in Keys : D.encumbered[k] = L.encumbered[k] - At(k, r.user, r.asset, x)
  BY <1>1, DecrementEffect
<1>3. W = On(V, D)
  BY DEF LowerLien, L
<1> HIDE DEF D, W
<1>4. Through(V, W) /\ W.ledger = D /\ W.tracked = V.tracked
  BY <1>2, <1>3, OnThrough DEF L
<1> QED BY <1>2, <1>4 DEF Ok, W, L, r

LEMMA RelocateBorrower ==
    ASSUME NEW V \in Vaults, NEW u \in Parties, NEW pa, NEW ca,
           NEW c \in Nat, NEW h \in Nat, NEW s \in Nat, NEW y \in 0..c, NEW z \in 0..s,
           Ok(V) => Book(V, pa, ca, c, h, s)
    PROVE  LET q == V.ledger.borrower[1]
               R == On(V, RekeyLienToHolder(V.ledger, 1, u, FALSE))
               M == LowerLien(MoveERC20(R, q, u, ca, c, y), c - y)
               X == MoveERC20(M, q, u, pa, s, z)
               C == IF s = 0 THEN M ELSE On(X, CapBorrowerHeldReservation(X.ledger, 1, u, z))
               W == On(C, SetBorrower(C.ledger, 1, u))
           IN  Through(V, W) /\ (Ok(W) => Book(W, pa, ca, y, h, z))
<1> DEFINE p == V.ledger.lender[1]
           q == V.ledger.borrower[1]
           r == V.ledger.loanCollateralLien[1]
           d == V.ledger.reserved["borrowerProceeds"][1]
           R == On(V, RekeyLienToHolder(V.ledger, 1, u, FALSE))
           Y == MoveERC20(R, q, u, ca, c, y)
           M == LowerLien(Y, c - y)
           X == MoveERC20(M, q, u, pa, s, z)
           B == On(X, CapBorrowerHeldReservation(X.ledger, 1, u, z))
           C == IF s = 0 THEN M ELSE B
           N == SetBorrower(C.ledger, 1, u)
           W == On(C, N)
<1>0. /\ V.ledger \in Ledger /\ u \in Users /\ y \in Nat /\ y \in Int /\ z \in Nat /\ z \in Int
      /\ c - y \in Nat /\ s - z \in Nat /\ c \in Int /\ h \in Int /\ s \in Int
  BY Basics DEF Vaults
<1>1. /\ Through(V, R) /\ R.tracked = V.tracked /\ Comes(V.ledger, R.ledger)
      /\ R.ledger.reserved = V.ledger.reserved
      /\ r.live =>
            /\ R.ledger.loanCollateralLien[1] = [r EXCEPT !.user = u]
            /\ \A k \in Keys : R.ledger.encumbered[k] =
                  V.ledger.encumbered[k] - At(k, q, d.asset, d.amount) + At(k, u, d.asset, d.amount)
                                         - At(k, r.user, r.asset, r.amount) + At(k, u, r.asset, r.amount)
  <2> DEFINE K == RekeyLienToHolder(V.ledger, 1, u, FALSE)
  <2>1. /\ Comes(V.ledger, K) /\ K.reserved = V.ledger.reserved
        /\ r.live =>
            /\ K.loanCollateralLien[1] = [r EXCEPT !.user = u]
            /\ \A k \in Keys : K.encumbered[k] =
                  V.ledger.encumbered[k] - At(k, q, d.asset, d.amount) + At(k, u, d.asset, d.amount)
                                         - At(k, r.user, r.asset, r.amount) + At(k, u, r.asset, r.amount)
    BY <1>0, RekeyBorrowerEffect
  <2> HIDE DEF K
  <2>2. R.ledger = K /\ Through(V, R) /\ R.tracked = V.tracked
    BY <2>1, OnThrough DEF K
  <2> QED BY <2>1, <2>2
<1> HIDE DEF R
<1>2. R \in Vaults
  BY <1>1 DEF Through, Moves
<1>3. /\ Through(R, Y) /\ KeepsLedger(R, Y)
      /\ \A k \in Keys : Y.tracked[k] = R.tracked[k] - At(k, q, ca, c) + At(k, u, ca, y)
  BY <1>0, <1>2, MoveThrough
<1> HIDE DEF Y
<1>4. Y \in Vaults /\ Y.ledger \in Ledger
  BY <1>3 DEF Through, Moves, Vaults
<1> DEFINE ry == Y.ledger.loanCollateralLien[1]
<1>5. /\ Through(Y, M) /\ Comes(Y.ledger, M.ledger) /\ M.ledger.reserved = Y.ledger.reserved
      /\ M.tracked = Y.tracked
      /\ Ok(M) /\ ry.live => M.ledger.loanCollateralLien[1] = [ry EXCEPT !.amount = ry.amount - (c - y)]
      /\ ry.live => \A k \in Keys :
            M.ledger.encumbered[k] = Y.ledger.encumbered[k] - At(k, ry.user, ry.asset, c - y)
  BY <1>0, <1>4, LowerLienThrough
<1> HIDE DEF M
<1>6. M \in Vaults
  BY <1>5 DEF Through, Moves
<1>7. /\ Through(M, X) /\ KeepsLedger(M, X)
      /\ \A k \in Keys : X.tracked[k] = M.tracked[k] - At(k, q, pa, s) + At(k, u, pa, z)
  BY <1>0, <1>6, MoveThrough
<1> HIDE DEF X
<1>8. X \in Vaults /\ X.ledger \in Ledger
  BY <1>7 DEF Through, Moves, Vaults
<1> DEFINE dx == X.ledger.reserved["borrowerProceeds"][1]
<1>9. /\ Through(X, B) /\ B.tracked = X.tracked /\ Comes(X.ledger, B.ledger)
      /\ B.ledger.loanCollateralLien = X.ledger.loanCollateralLien
      /\ z <= dx.amount =>
            /\ B.ledger.reserved["borrowerProceeds"][1].amount = z
            /\ z # 0 => B.ledger.reserved["borrowerProceeds"][1].asset = dx.asset
            /\ \A k \in Keys :
                  B.ledger.encumbered[k] = X.ledger.encumbered[k] - At(k, u, dx.asset, dx.amount - z)
      /\ B.ledger.reserved["lenderProceeds"][1] = X.ledger.reserved["lenderProceeds"][1]
      /\ B.ledger.reserved["heldForLender"][1] = X.ledger.reserved["heldForLender"][1]
  <2> DEFINE K == CapBorrowerHeldReservation(X.ledger, 1, u, z)
  <2>1. /\ Comes(X.ledger, K) /\ K.loanCollateralLien = X.ledger.loanCollateralLien
        /\ z <= dx.amount =>
            /\ K.reserved["borrowerProceeds"][1].amount = z
            /\ z # 0 => K.reserved["borrowerProceeds"][1].asset = dx.asset
            /\ \A k \in Keys : K.encumbered[k] = X.ledger.encumbered[k] - At(k, u, dx.asset, dx.amount - z)
        /\ K.reserved["lenderProceeds"][1] = X.ledger.reserved["lenderProceeds"][1]
        /\ K.reserved["heldForLender"][1] = X.ledger.reserved["heldForLender"][1]
    BY <1>0, <1>8, CapBorrowerEffect
  <2> HIDE DEF K
  <2>2. B.ledger = K /\ Through(X, B) /\ B.tracked = X.tracked
    BY <1>8, <2>1, OnThrough DEF K
  <2> QED BY <2>1, <2>2
<1> HIDE DEF B
<1>10. Through(M, C)
  <2>1. Through(M, M)
    BY <1>6 DEF Through, Moves, WalletsKept
  <2>2. Through(M, B)
    BY <1>7, <1>9, ThroughTwice
  <2> QED BY <2>1, <2>2
<1>11. C \in Vaults /\ C.ledger \in Ledger
  BY <1>10 DEF Through, Moves, Vaults
<1>11a. SameParties(V.ledger, C.ledger)
  <2>1. SameParties(V.ledger, R.ledger) /\ SameParties(X.ledger, B.ledger)
    BY <1>1, <1>9 DEF Comes
  <2>2. SameParties(R.ledger, Y.ledger) /\ SameParties(M.ledger, X.ledger)
    BY <1>3, <1>7 DEF KeepsLedger, SameRows, SameParties
  <2>3. SameParties(Y.ledger, M.ledger)
    BY <1>5 DEF Comes
  <2> QED BY <2>1, <2>2, <2>3 DEF SameParties
<1> HIDE DEF C
<1>12. /\ N \in Ledger /\ N.ok = C.ledger.ok /\ N.lender = C.ledger.lender /\ N.borrower[1] = u
       /\ N.loanCollateralLien = C.ledger.loanCollateralLien /\ N.reserved = C.ledger.reserved
       /\ N.encumbered = C.ledger.encumbered
  BY <1>0, <1>11, Basics, SetBorrowerEffect
<1> HIDE DEF N
<1>13. /\ W \in Vaults /\ W.ledger = N /\ W.depository = C.depository /\ W.wallet = C.wallet
       /\ W.tracked = C.tracked
  BY <1>11, <1>12 DEF On, Vaults
<1>14. Through(C, W)
  BY <1>12, <1>13 DEF Through, Moves, WalletsKept, Ok
<1> HIDE DEF W
<1>15. Through(V, W)
  BY <1>1, <1>3, <1>5, <1>10, <1>14, ThroughTwice
<1>16. ASSUME Ok(W) PROVE Book(W, pa, ca, y, h, z)
  <2>1. Book(V, pa, ca, c, h, s) /\ Ok(M)
    BY <1>15, <1>10, <1>14, <1>16 DEF Through, Moves
  <2>2. /\ p \in Parties /\ q \in Parties
        /\ r = [user |-> q, asset |-> ca, amount |-> c, live |-> TRUE]
        /\ V.ledger.reserved["lenderProceeds"][1].amount = 0
        /\ Row(V.ledger.reserved["heldForLender"][1], pa, h) /\ Row(d, pa, s)
    BY <2>1 DEF Book
  <2>3. ry = [user |-> u, asset |-> ca, amount |-> c, live |-> TRUE] /\ Y.ledger.reserved = V.ledger.reserved
    <3>1. R.ledger.loanCollateralLien[1] = [user |-> u, asset |-> ca, amount |-> c, live |-> TRUE]
      <4> HIDE DEF r, p, q, d
      <4>1. r.live /\ [r EXCEPT !.user = u] = [user |-> u, asset |-> ca, amount |-> c, live |-> TRUE]
        <5>1. r = [user |-> q, asset |-> ca, amount |-> c, live |-> TRUE]
          BY <2>2
        <5>2. [r EXCEPT !.user = u] = [user |-> u, asset |-> ca, amount |-> c, live |-> TRUE]
          <6>1. r \in Lien
            BY <1>0, RowsAreNat DEF r
          <6>2. [r EXCEPT !.user = u] = [user |-> u, asset |-> r.asset, amount |-> r.amount, live |-> r.live]
            BY <6>1, LienFields
          <6> QED BY <5>1, <6>2
        <5> QED BY ONLY <5>1, <5>2
      <4> QED BY <1>1, <4>1
    <3> QED BY <1>1, <1>3, <3>1 DEF KeepsLedger, SameRows
  <2>4. /\ M.ledger.loanCollateralLien[1] = [user |-> u, asset |-> ca, amount |-> y, live |-> TRUE]
        /\ \A k \in Keys : M.ledger.encumbered[k] = Y.ledger.encumbered[k] - At(k, u, ca, c - y)
    <3>1. c - (c - y) = y
      BY <1>0
    <3> HIDE DEF ry
    <3> QED BY <1>5, <2>1, <2>3, <3>1
  <2>5. dx = d
    BY <1>5, <1>7, <2>3 DEF KeepsLedger, SameRows
  <2>6. /\ C.ledger.loanCollateralLien[1] = [user |-> u, asset |-> ca, amount |-> y, live |-> TRUE]
        /\ C.ledger.reserved["lenderProceeds"][1].amount = 0
        /\ Row(C.ledger.reserved["heldForLender"][1], pa, h)
        /\ Row(C.ledger.reserved["borrowerProceeds"][1], pa, z)
        /\ \A k \in Keys : /\ C.ledger.encumbered[k] = M.ledger.encumbered[k] - At(k, u, pa, s - z)
                           /\ C.tracked[k] = M.tracked[k] - At(k, q, pa, s) + At(k, u, pa, z)
    <3>0. /\ X.ledger.loanCollateralLien = M.ledger.loanCollateralLien
          /\ X.ledger.reserved = V.ledger.reserved /\ M.ledger.reserved = V.ledger.reserved
          /\ X.ledger.encumbered = M.ledger.encumbered
      BY <1>5, <1>7, <2>3 DEF KeepsLedger, SameRows
    <3>1. CASE s = 0
      <4>1. C = M /\ z = 0
        BY <1>0, <3>1 DEF C
      <4>2. \A k \in Keys : M.ledger.encumbered[k] \in Int /\ M.tracked[k] \in Int
        BY <1>6 DEF Vaults, Ledger
      <4>3. ASSUME NEW k \in Keys
            PROVE  /\ M.ledger.encumbered[k] = M.ledger.encumbered[k] - At(k, u, pa, s - z)
                   /\ M.tracked[k] = M.tracked[k] - At(k, q, pa, s) + At(k, u, pa, z)
        <5>1. At(k, u, pa, s - z) = 0 /\ At(k, q, pa, s) = 0 /\ At(k, u, pa, z) = 0
          BY <3>1, <4>1 DEF At
        <5> QED BY <4>2, <5>1
      <4> HIDE DEF q, d, p
      <4> QED BY <2>2, <2>4, <3>0, <3>1, <4>1, <4>3 DEF d
    <3>2. CASE s # 0
      <4>1. C = B
        BY <3>2 DEF C
      <4>2. dx.amount = s /\ dx.asset = pa
        BY <2>2, <2>5, <3>2 DEF Row
      <4> HIDE DEF dx
      <4>3. z <= dx.amount
        BY <4>2
      <4>4. /\ B.ledger.reserved["borrowerProceeds"][1].amount = z
            /\ z # 0 => B.ledger.reserved["borrowerProceeds"][1].asset = pa
            /\ \A k \in Keys : B.ledger.encumbered[k] = X.ledger.encumbered[k] - At(k, u, pa, s - z)
        BY <1>9, <4>2, <4>3
      <4> QED BY <1>7, <1>9, <2>2, <2>4, <3>0, <4>1, <4>4 DEF Row
    <3> QED BY <3>1, <3>2
  <2>7. W.ledger.lender[1] = p /\ W.ledger.borrower[1] = u
    BY <1>11a, <1>12, <1>13 DEF SameParties
  <2>8. ASSUME NEW k \in Keys
        PROVE  /\ W.ledger.encumbered[k] = At(k, u, ca, y) + At(k, p, pa, h) + At(k, u, pa, z)
               /\ W.tracked[k] = W.depository[k] + (At(k, u, ca, y) + At(k, p, pa, h) + At(k, u, pa, z))
    <3>1. /\ V.ledger.encumbered[k] = At(k, q, ca, c) + At(k, p, pa, h) + At(k, q, pa, s)
          /\ V.tracked[k] = V.depository[k] + (At(k, q, ca, c) + At(k, p, pa, h) + At(k, q, pa, s))
      BY <2>1 DEF Book
    <3>2. At(k, q, d.asset, d.amount) = At(k, q, pa, s) /\ At(k, u, d.asset, d.amount) = At(k, u, pa, s)
      BY <2>2 DEF Row, At
    <3>3. R.ledger.encumbered[k] = V.ledger.encumbered[k] - At(k, q, pa, s) + At(k, u, pa, s)
                                                          - At(k, q, ca, c) + At(k, u, ca, c)
      <4>1. r.live /\ r.user = q /\ r.asset = ca /\ r.amount = c
        BY <2>2
      <4> HIDE DEF p, q, r, d
      <4>2. R.ledger.encumbered[k] =
                V.ledger.encumbered[k] - At(k, q, d.asset, d.amount) + At(k, u, d.asset, d.amount)
                                       - At(k, r.user, r.asset, r.amount) + At(k, u, r.asset, r.amount)
        BY <1>1, <4>1
      <4> QED BY <3>2, <4>1, <4>2
    <3> HIDE DEF p, q, r, d
    <3>4. W.ledger.encumbered[k] = R.ledger.encumbered[k] - At(k, u, ca, c - y) - At(k, u, pa, s - z)
      <4>1. W.ledger.encumbered[k] = C.ledger.encumbered[k] /\ Y.ledger.encumbered[k] = R.ledger.encumbered[k]
        BY <1>3, <1>12, <1>13 DEF KeepsLedger
      <4> QED BY <2>4, <2>6, <4>1
    <3>4a. W.tracked[k] = V.tracked[k] - At(k, q, ca, c) + At(k, u, ca, y) - At(k, q, pa, s) + At(k, u, pa, z)
      <4>1. W.tracked[k] = C.tracked[k] /\ M.tracked[k] = Y.tracked[k] /\ R.tracked[k] = V.tracked[k]
        BY <1>1, <1>5, <1>13
      <4>2. Y.tracked[k] = R.tracked[k] - At(k, q, ca, c) + At(k, u, ca, y)
        BY <1>3
      <4>3. C.tracked[k] = M.tracked[k] - At(k, q, pa, s) + At(k, u, pa, z)
        BY <2>6
      <4>4. V.tracked[k] \in Int
        BY DEF Vaults
      <4>5. Y.tracked[k] = V.tracked[k] - At(k, q, ca, c) + At(k, u, ca, y)
        BY <4>1, <4>2
      <4> QED BY <1>0, <4>1, <4>3, <4>4, <4>5, AtInt
    <3>5. /\ At(k, u, ca, c - y) = At(k, u, ca, c) - At(k, u, ca, y)
          /\ At(k, u, pa, s - z) = At(k, u, pa, s) - At(k, u, pa, z)
      BY <1>0 DEF At
    <3>6. /\ At(k, q, ca, c) \in Int /\ At(k, p, pa, h) \in Int /\ At(k, q, pa, s) \in Int
          /\ At(k, u, ca, c) \in Int /\ At(k, u, ca, y) \in Int
          /\ At(k, u, pa, s) \in Int /\ At(k, u, pa, z) \in Int
      BY <1>0, AtInt
    <3>7. W.depository[k] = V.depository[k] /\ V.depository[k] \in Int
      BY <1>15 DEF Through, Moves, Vaults
    <3> QED BY <3>1, <3>3, <3>4, <3>4a, <3>5, <3>6, <3>7
  <2> HIDE DEF p
  <2>9. p \in Parties
    BY <2>2
  <2> QED BY <1>12, <1>13, <2>6, <2>7, <2>8, <2>9 DEF Book
<1> QED BY <1>15, <1>16 DEF W, N, C, B, X, M, Y, R

(* More is pledged.                                                        *)
LEMMA TopUpBook ==
    ASSUME NEW V \in Vaults, NEW pa, NEW ca \in Assets,
           NEW c \in Nat, NEW h \in Nat, NEW s \in Nat, NEW x \in Nat, x # 0,
           Ok(V) => Book(V, pa, ca, c, h, s)
    PROVE  LET D == VaultDepositERC20From(V, Outside, V.ledger.borrower[1], ca, x)
               W == On(D, IncrementCollateralLien(D.ledger, 1, ca, x))
           IN  Through(V, W) /\ (Ok(W) => Book(W, pa, ca, c + x, h, s))
<1> DEFINE p == V.ledger.lender[1]
           q == V.ledger.borrower[1]
           D == VaultDepositERC20From(V, Outside, q, ca, x)
           r == D.ledger.loanCollateralLien[1]
           I == IncrementCollateralLien(D.ledger, 1, ca, x)
           W == On(D, I)
<1>0. x \in Int /\ c \in Int /\ h \in Int /\ s \in Int
  OBVIOUS
<1>1. /\ Through(V, D) /\ KeepsLedger(V, D)
      /\ \A k \in Keys : D.tracked[k] = V.tracked[k] + At(k, q, ca, x)
  BY <1>0, DepositThrough
<1> HIDE DEF D
<1>2. D \in Vaults /\ D.ledger \in Ledger
  BY <1>1 DEF Through, Moves, Vaults
<1>3. /\ Comes(D.ledger, I) /\ I.reserved = D.ledger.reserved
      /\ r.live =>
            /\ I.loanCollateralLien[1] = [r EXCEPT !.amount = r.amount + x]
            /\ \A k \in Keys : I.encumbered[k] = D.ledger.encumbered[k] + At(k, r.user, r.asset, x)
  BY <1>2, x # 0, IncrementEffect
<1> HIDE DEF I
<1>4. Through(D, W) /\ W.ledger = I /\ W.tracked = D.tracked
  BY <1>2, <1>3, OnThrough
<1> HIDE DEF W
<1>5. Through(V, W)
  BY <1>1, <1>4, ThroughTwice
<1>6. ASSUME Ok(W) PROVE Book(W, pa, ca, c + x, h, s)
  <2>1. Book(V, pa, ca, c, h, s)
    BY <1>5, <1>6 DEF Through, Moves
  <2>2. /\ p \in Parties /\ q \in Parties
        /\ r = [user |-> q, asset |-> ca, amount |-> c, live |-> TRUE]
        /\ D.ledger.reserved = V.ledger.reserved /\ D.ledger.encumbered = V.ledger.encumbered
    BY <1>1, <2>1 DEF Book, KeepsLedger, SameRows
  <2>3. W.ledger.lender[1] = p /\ W.ledger.borrower[1] = q
    BY <1>1, <1>3, <1>4 DEF Comes, KeepsLedger, SameRows, SameParties
  <2>4. W.ledger.loanCollateralLien[1] = [user |-> q, asset |-> ca, amount |-> c + x, live |-> TRUE]
    <3>1. r \in Lien
      BY <1>2, RowsAreNat
    <3> HIDE DEF r
    <3>2. [r EXCEPT !.amount = r.amount + x] =
              [user |-> r.user, asset |-> r.asset, amount |-> r.amount + x, live |-> r.live]
      BY <3>1, LienFields
    <3> QED BY <1>3, <1>4, <2>2, <3>2
  <2>5. ASSUME NEW k \in Keys
        PROVE  /\ W.ledger.encumbered[k] = At(k, q, ca, c + x) + At(k, p, pa, h) + At(k, q, pa, s)
               /\ W.tracked[k] = W.depository[k] + (At(k, q, ca, c + x) + At(k, p, pa, h) + At(k, q, pa, s))
    <3>1. /\ V.ledger.encumbered[k] = At(k, q, ca, c) + At(k, p, pa, h) + At(k, q, pa, s)
          /\ V.tracked[k] = V.depository[k] + (At(k, q, ca, c) + At(k, p, pa, h) + At(k, q, pa, s))
      BY <2>1 DEF Book
    <3> HIDE DEF r
    <3>2. /\ W.ledger.encumbered[k] = V.ledger.encumbered[k] + At(k, q, ca, x)
          /\ W.tracked[k] = V.tracked[k] + At(k, q, ca, x)
      BY <1>1, <1>3, <1>4, <2>2
    <3> HIDE DEF p, q
    <3>3. At(k, q, ca, c + x) = At(k, q, ca, c) + At(k, q, ca, x)
      BY <1>0 DEF At
    <3>4. /\ At(k, q, ca, c) \in Int /\ At(k, p, pa, h) \in Int /\ At(k, q, pa, s) \in Int
          /\ At(k, q, ca, x) \in Int
      BY <1>0, AtInt
    <3>5. W.depository[k] = V.depository[k] /\ V.depository[k] \in Int
      BY <1>5 DEF Through, Moves, Vaults
    <3> QED BY <3>1, <3>2, <3>3, <3>4, <3>5
  <2>6. W.ledger.reserved = V.ledger.reserved
    BY <1>3, <1>4, <2>2
  <2> HIDE DEF p, q
  <2>7. /\ V.ledger.reserved["lenderProceeds"][1].amount = 0
        /\ Row(V.ledger.reserved["heldForLender"][1], pa, h)
        /\ Row(V.ledger.reserved["borrowerProceeds"][1], pa, s)
    BY <2>1 DEF Book
  <2> QED BY <2>2, <2>3, <2>4, <2>5, <2>6, <2>7 DEF Book
<1> QED BY <1>5, <1>6 DEF W, I, D

(* Part of the pledge leaves.                                              *)
LEMMA SellBook ==
    ASSUME NEW V \in Vaults, NEW pa, NEW ca, NEW v,
           NEW c \in Nat, NEW h \in Nat, NEW s \in Nat, NEW x \in Nat, x <= c,
           Ok(V) => Book(V, pa, ca, c, h, s)
    PROVE  LET W == VaultWithdrawERC20(LowerLien(V, x), V.ledger.borrower[1], ca, v, x)
           IN  /\ Moves(V, W) /\ (Ok(W) => Book(W, pa, ca, c - x, h, s))
               /\ v = Outside => WalletsKept(V, W)
<1> DEFINE p == V.ledger.lender[1]
           q == V.ledger.borrower[1]
           r == V.ledger.loanCollateralLien[1]
           D == LowerLien(V, x)
           W == VaultWithdrawERC20(D, q, ca, v, x)
<1>0. x \in Int /\ c \in Int /\ h \in Int /\ s \in Int /\ c - x \in Int /\ V.ledger \in Ledger
  BY DEF Vaults
<1>1. /\ Through(V, D) /\ Comes(V.ledger, D.ledger) /\ D.ledger.reserved = V.ledger.reserved
      /\ D.tracked = V.tracked
      /\ Ok(D) /\ r.live => D.ledger.loanCollateralLien[1] = [r EXCEPT !.amount = r.amount - x]
      /\ r.live => \A k \in Keys :
            D.ledger.encumbered[k] = V.ledger.encumbered[k] - At(k, r.user, r.asset, x)
  BY LowerLienThrough
<1> HIDE DEF D
<1>2. D \in Vaults
  BY <1>1 DEF Through, Moves
<1>3. /\ Moves(D, W) /\ KeepsLedger(D, W)
      /\ \A k \in Keys : W.tracked[k] = D.tracked[k] - At(k, q, ca, x)
      /\ \A k \in Keys : W.wallet[k] = D.wallet[k] + At(k, v, ca, x)
  BY <1>0, <1>2, WithdrawEffect
<1> HIDE DEF W
<1>4. Moves(V, W)
  BY <1>1, <1>3 DEF Through, Moves
<1>5. v = Outside => WalletsKept(V, W)
  <2> SUFFICES ASSUME v = Outside, NEW k \in Keys, k[1] \in Parties
               PROVE  W.wallet[k] = V.wallet[k]
    BY DEF WalletsKept
  <2>1. At(k, v, ca, x) = 0
    BY LoanPositionsAssumption DEF At
  <2>2. D.wallet[k] \in Int
    BY <1>2 DEF Vaults
  <2> QED BY <1>1, <1>3, <2>1, <2>2 DEF Through, WalletsKept
<1>6. ASSUME Ok(W) PROVE Book(W, pa, ca, c - x, h, s)
  <2>1. Book(V, pa, ca, c, h, s) /\ Ok(D)
    BY <1>3, <1>4, <1>6 DEF Moves
  <2>2. /\ p \in Parties /\ q \in Parties
        /\ r = [user |-> q, asset |-> ca, amount |-> c, live |-> TRUE]
    BY <2>1 DEF Book
  <2>3. W.ledger.lender[1] = p /\ W.ledger.borrower[1] = q
    BY <1>1, <1>3 DEF Comes, KeepsLedger, SameRows, SameParties
  <2>4. W.ledger.loanCollateralLien[1] = [user |-> q, asset |-> ca, amount |-> c - x, live |-> TRUE]
    <3>1. r \in Lien
      BY <1>0, RowsAreNat
    <3> HIDE DEF r
    <3>2. [r EXCEPT !.amount = r.amount - x] =
              [user |-> r.user, asset |-> r.asset, amount |-> r.amount - x, live |-> r.live]
      BY <3>1, LienFields
    <3> QED BY <1>1, <1>3, <2>1, <2>2, <3>2 DEF KeepsLedger, SameRows
  <2>5. ASSUME NEW k \in Keys
        PROVE  /\ W.ledger.encumbered[k] = At(k, q, ca, c - x) + At(k, p, pa, h) + At(k, q, pa, s)
               /\ W.tracked[k] = W.depository[k] + (At(k, q, ca, c - x) + At(k, p, pa, h) + At(k, q, pa, s))
    <3>1. /\ V.ledger.encumbered[k] = At(k, q, ca, c) + At(k, p, pa, h) + At(k, q, pa, s)
          /\ V.tracked[k] = V.depository[k] + (At(k, q, ca, c) + At(k, p, pa, h) + At(k, q, pa, s))
      BY <2>1 DEF Book
    <3> HIDE DEF r
    <3>2. /\ W.ledger.encumbered[k] = V.ledger.encumbered[k] - At(k, q, ca, x)
          /\ W.tracked[k] = V.tracked[k] - At(k, q, ca, x)
      BY <1>1, <1>3, <2>2 DEF KeepsLedger
    <3> HIDE DEF p, q
    <3>3. At(k, q, ca, c - x) = At(k, q, ca, c) - At(k, q, ca, x)
      BY <1>0 DEF At
    <3>4. /\ At(k, q, ca, c) \in Int /\ At(k, p, pa, h) \in Int /\ At(k, q, pa, s) \in Int
          /\ At(k, q, ca, x) \in Int
      BY <1>0, AtInt
    <3>5. W.depository[k] = V.depository[k] /\ V.depository[k] \in Int
      BY <1>4 DEF Moves, Vaults
    <3> QED BY <3>1, <3>2, <3>3, <3>4, <3>5
  <2>6. W.ledger.reserved = V.ledger.reserved
    BY <1>1, <1>3 DEF KeepsLedger, SameRows
  <2> HIDE DEF p, q
  <2>7. /\ V.ledger.reserved["lenderProceeds"][1].amount = 0
        /\ Row(V.ledger.reserved["heldForLender"][1], pa, h)
        /\ Row(V.ledger.reserved["borrowerProceeds"][1], pa, s)
    BY <2>1 DEF Book
  <2> QED BY <2>2, <2>3, <2>4, <2>5, <2>6, <2>7 DEF Book
<1> QED BY <1>4, <1>5, <1>6 DEF W, D

(* What a deposit and a reservation of it do, in any lane.                 *)
LEMMA ReserveThrough ==
    ASSUME NEW V \in Vaults, NEW e \in Lanes, NEW u, NEW a \in Assets, NEW x \in Nat, NEW g \in BOOLEAN
    PROVE  LET D == Guarded(VaultDepositERC20From(V, Outside, u, a, x), g)
               W == Reserve(D, e, u, a, x)
               r == V.ledger.reserved[e][1]
           IN  /\ Through(V, W) /\ Comes(V.ledger, W.ledger)
               /\ W.ledger.loanCollateralLien = V.ledger.loanCollateralLien
               /\ W.ledger.reserved[e][1].amount = r.amount + x
               /\ r.amount = 0 \/ r.asset = a => Row(W.ledger.reserved[e][1], a, r.amount + x)
               /\ \A d \in Lanes : d # e => W.ledger.reserved[d][1] = V.ledger.reserved[d][1]
<1> DEFINE C == VaultDepositERC20From(V, Outside, u, a, x)
           D == Guarded(C, g)
           E == Encumber(D.ledger, e, 1, u, a, x)
           W == Reserve(D, e, u, a, x)
           r == V.ledger.reserved[e][1]
           rd == D.ledger.reserved[e][1]
<1>0. x \in Int /\ r.amount \in Nat
  BY RowsAreNat DEF Vaults
<1>1. /\ Through(V, C) /\ KeepsLedger(V, C)
      /\ \A k \in Keys : C.tracked[k] = V.tracked[k] + At(k, u, a, x)
  BY <1>0, DepositThrough
<1> HIDE DEF C
<1>2. C \in Vaults
  BY <1>1 DEF Through, Moves
<1>3. Moves(C, D) /\ KeepsLedger(C, D) /\ D.tracked = C.tracked /\ D.wallet = C.wallet
  BY <1>2, GuardedEffect
<1> HIDE DEF D
<1>4. Through(V, D) /\ KeepsLedger(V, D) /\ Comes(V.ledger, D.ledger)
  BY <1>1, <1>3 DEF Through, Moves, WalletsKept, KeepsLedger, SameRows, SameParties, Comes, Vaults, Ok
<1>5. D \in Vaults /\ D.ledger \in Ledger
  BY <1>3 DEF Moves, Vaults
<1>6. /\ Comes(D.ledger, E) /\ E.loanCollateralLien = D.ledger.loanCollateralLien
      /\ E.reserved[e][1].amount = rd.amount + x
      /\ x = 0 => E.reserved[e][1].asset = rd.asset
      /\ x # 0 => E.reserved[e][1].asset = a
      /\ \A d \in Lanes : d # e => E.reserved[d][1] = D.ledger.reserved[d][1]
  <2> DEFINE M == Encumber(D.ledger, e, 1, u, a, x)
  <2>1. D.ledger \in Ledger
    BY <1>5
  <2>2. /\ Comes(D.ledger, M) /\ M.loanCollateralLien = D.ledger.loanCollateralLien
        /\ M.reserved[e][1].amount = rd.amount + x
        /\ x = 0 => M.reserved[e][1].asset = rd.asset
        /\ x # 0 => M.reserved[e][1].asset = a
        /\ \A d \in Lanes : d # e => M.reserved[d][1] = D.ledger.reserved[d][1]
    BY <2>1, EncumberRows
  <2> HIDE DEF M, rd
  <2> QED BY <2>2 DEF M
<1> HIDE DEF E
<1>7. W = On(D, E)
  BY DEF Reserve, E
<1> HIDE DEF W
<1>8. Through(D, W) /\ W.ledger = E /\ W.tracked = D.tracked
  BY <1>5, <1>6, <1>7, OnThrough
<1>9. Through(V, W) /\ Comes(V.ledger, W.ledger)
  BY <1>4, <1>6, <1>8, ThroughTwice DEF Comes, SameParties
<1>10. rd = r
  BY <1>4 DEF KeepsLedger, SameRows
<1>11. /\ W.ledger.reserved[e][1].amount = r.amount + x
       /\ r.amount = 0 \/ r.asset = a => Row(W.ledger.reserved[e][1], a, r.amount + x)
  <2> HIDE DEF rd, r
  <2> QED BY <1>0, <1>6, <1>8, <1>10 DEF Row
<1>12. /\ W.ledger.loanCollateralLien = V.ledger.loanCollateralLien
       /\ \A d \in Lanes : d # e => W.ledger.reserved[d][1] = V.ledger.reserved[d][1]
  BY <1>1, <1>3, <1>4, <1>6, <1>8 DEF KeepsLedger, SameRows
<1> QED BY <1>9, <1>11, <1>12 DEF W, D, C

LEMMA ReserveSums ==
    ASSUME NEW V \in Vaults, NEW e \in Lanes, NEW u, NEW a \in Assets, NEW x \in Nat, NEW g \in BOOLEAN
    PROVE  LET D == Guarded(VaultDepositERC20From(V, Outside, u, a, x), g)
               W == Reserve(D, e, u, a, x)
           IN  \A k \in Keys : /\ W.ledger.encumbered[k] = V.ledger.encumbered[k] + At(k, u, a, x)
                               /\ W.tracked[k] = V.tracked[k] + At(k, u, a, x)
<1> DEFINE C == VaultDepositERC20From(V, Outside, u, a, x)
           D == Guarded(C, g)
           E == Encumber(D.ledger, e, 1, u, a, x)
           W == Reserve(D, e, u, a, x)
<1>1. /\ Through(V, C) /\ KeepsLedger(V, C)
      /\ \A k \in Keys : C.tracked[k] = V.tracked[k] + At(k, u, a, x)
  BY x \in Int, DepositThrough
<1> HIDE DEF C
<1>2. C \in Vaults
  BY <1>1 DEF Through, Moves
<1>3. Moves(C, D) /\ KeepsLedger(C, D) /\ D.tracked = C.tracked
  BY <1>2, GuardedEffect
<1> HIDE DEF D
<1>4. D \in Vaults /\ D.ledger \in Ledger
  BY <1>3 DEF Moves, Vaults
<1>5. Comes(D.ledger, E)
  BY <1>4, EncumberRows
<1>6. \A k \in Keys : E.encumbered[k] = D.ledger.encumbered[k] + At(k, u, a, x)
  BY <1>4, EncumberSum
<1> HIDE DEF E
<1>7. W = On(D, E)
  BY DEF Reserve, E
<1>8. W.ledger = E /\ W.tracked = D.tracked
  BY <1>4, <1>5, <1>7, OnThrough
<1> HIDE DEF W
<1>9. \A k \in Keys : /\ W.ledger.encumbered[k] = V.ledger.encumbered[k] + At(k, u, a, x)
                      /\ W.tracked[k] = V.tracked[k] + At(k, u, a, x)
  BY <1>1, <1>3, <1>6, <1>8 DEF KeepsLedger
<1> QED BY <1>9 DEF W, D, C

LEMMA GuardedTrue ==
    ASSUME NEW V \in Vaults
    PROVE  Guarded(V, TRUE) = V
<1>1. V.ledger \in Ledger /\ V.ledger.ok \in BOOLEAN
  BY DEF Vaults, Ledger
<1>2. (V.ledger.ok /\ TRUE) = V.ledger.ok
  BY <1>1
<1>3. Require(V.ledger, TRUE) = V.ledger
  BY <1>1, <1>2 DEF Require, Ledger
<1> QED BY <1>3 DEF Guarded, On, Vaults

(* Something is put aside for the lender, or for the borrower.             *)
LEMMA ParkBook ==
    ASSUME NEW V \in Vaults, NEW pa \in Assets, NEW ca,
           NEW c \in Nat, NEW h \in Nat, NEW s \in Nat, NEW x \in Nat,
           Ok(V) => Book(V, pa, ca, c, h, s)
    PROVE  LET p == V.ledger.lender[1]
               W == Reserve(VaultDepositERC20From(V, Outside, p, pa, x), "heldForLender", p, pa, x)
           IN  Through(V, W) /\ (Ok(W) => Book(W, pa, ca, c, h + x, s))
<1> DEFINE p == V.ledger.lender[1]
           q == V.ledger.borrower[1]
           D == VaultDepositERC20From(V, Outside, p, pa, x)
           W == Reserve(D, "heldForLender", p, pa, x)
           g == TRUE
           U == Reserve(Guarded(D, g), "heldForLender", p, pa, x)
           r == V.ledger.reserved["heldForLender"][1]
<1>0. x \in Int /\ c \in Int /\ h \in Int /\ s \in Int
  OBVIOUS
<1>1. D = Guarded(D, g) /\ g \in BOOLEAN
  BY <1>0, DepositThrough, GuardedTrue DEF Through, Moves
<1>1a. W = U
  BY <1>1
<1>1b. g \in BOOLEAN
  OBVIOUS
<1> HIDE DEF p, g, W
<1>2. /\ Through(V, W) /\ Comes(V.ledger, W.ledger)
      /\ W.ledger.loanCollateralLien = V.ledger.loanCollateralLien
      /\ r.amount = 0 \/ r.asset = pa => Row(W.ledger.reserved["heldForLender"][1], pa, r.amount + x)
      /\ \A d \in Lanes : d # "heldForLender" => W.ledger.reserved[d][1] = V.ledger.reserved[d][1]
  <2> HIDE DEF r
  <2>1. Through(V, U) /\ Comes(V.ledger, U.ledger)
    BY <1>1b, Basics, ReserveThrough
  <2>2. /\ U.ledger.loanCollateralLien = V.ledger.loanCollateralLien
        /\ r.amount = 0 \/ r.asset = pa => Row(U.ledger.reserved["heldForLender"][1], pa, r.amount + x)
        /\ \A d \in Lanes : d # "heldForLender" => U.ledger.reserved[d][1] = V.ledger.reserved[d][1]
    BY <1>1b, Basics, ReserveThrough DEF r
  <2> QED BY <1>1a, <2>1, <2>2
<1>2a. \A k \in Keys : /\ W.ledger.encumbered[k] = V.ledger.encumbered[k] + At(k, p, pa, x)
                       /\ W.tracked[k] = V.tracked[k] + At(k, p, pa, x)
  <2>1. \A k \in Keys : /\ U.ledger.encumbered[k] = V.ledger.encumbered[k] + At(k, p, pa, x)
                       /\ U.tracked[k] = V.tracked[k] + At(k, p, pa, x)
    BY <1>1b, Basics, ReserveSums
  <2> QED BY <1>1a, <2>1
<1> HIDE DEF D
<1>3. ASSUME Ok(W) PROVE Book(W, pa, ca, c, h + x, s)
  <2>1. Book(V, pa, ca, c, h, s)
    BY <1>2, <1>3 DEF Through, Moves
  <2>2. /\ p \in Parties /\ q \in Parties
        /\ V.ledger.loanCollateralLien[1] = [user |-> q, asset |-> ca, amount |-> c, live |-> TRUE]
        /\ V.ledger.reserved["lenderProceeds"][1].amount = 0
        /\ Row(r, pa, h) /\ r.amount = h
        /\ Row(V.ledger.reserved["borrowerProceeds"][1], pa, s)
    BY <2>1 DEF Book, Row, p
  <2>3. W.ledger.lender[1] = p /\ W.ledger.borrower[1] = q
    BY <1>2 DEF Comes, SameParties, p
  <2>4. /\ W.ledger.reserved["lenderProceeds"][1] = V.ledger.reserved["lenderProceeds"][1]
        /\ W.ledger.reserved["borrowerProceeds"][1] = V.ledger.reserved["borrowerProceeds"][1]
        /\ Row(W.ledger.reserved["heldForLender"][1], pa, h + x)
    <3>1. "lenderProceeds" # "heldForLender" /\ "borrowerProceeds" # "heldForLender"
      OBVIOUS
    <3>2. r.amount = 0 \/ r.asset = pa
      BY <2>2 DEF Row
    <3> HIDE DEF r
    <3> QED BY <1>2, <2>2, <3>1, <3>2, Basics
  <2>5. ASSUME NEW k \in Keys
        PROVE  /\ W.ledger.encumbered[k] = At(k, q, ca, c) + At(k, p, pa, h + x) + At(k, q, pa, s)
               /\ W.tracked[k] = W.depository[k] + (At(k, q, ca, c) + At(k, p, pa, h + x) + At(k, q, pa, s))
    <3>1. /\ V.ledger.encumbered[k] = At(k, q, ca, c) + At(k, p, pa, h) + At(k, q, pa, s)
          /\ V.tracked[k] = V.depository[k] + (At(k, q, ca, c) + At(k, p, pa, h) + At(k, q, pa, s))
      BY <2>1 DEF Book, p
    <3> HIDE DEF q
    <3>2. At(k, p, pa, h + x) = At(k, p, pa, h) + At(k, p, pa, x)
      BY <1>0 DEF At
    <3>3. /\ At(k, q, ca, c) \in Int /\ At(k, p, pa, h) \in Int /\ At(k, q, pa, s) \in Int
          /\ At(k, p, pa, x) \in Int
      BY <1>0, AtInt
    <3>4. W.depository[k] = V.depository[k] /\ V.depository[k] \in Int
      BY <1>2 DEF Through, Moves, Vaults
    <3> QED BY <1>2a, <3>1, <3>2, <3>3, <3>4
  <2> HIDE DEF q, r
  <2> QED BY <1>2, <2>2, <2>3, <2>4, <2>5 DEF Book
<1> QED BY <1>2, <1>3 DEF W, D, p

LEMMA ExtraBook ==
    ASSUME NEW V \in Vaults, NEW pa \in Assets, NEW ca, NEW g \in BOOLEAN,
           NEW c \in Nat, NEW h \in Nat, NEW s \in Nat, NEW x \in Nat,
           Ok(V) => Book(V, pa, ca, c, h, s)
    PROVE  LET q == V.ledger.borrower[1]
               W == Reserve(Guarded(VaultDepositERC20From(V, Outside, q, pa, x), g),
                            "borrowerProceeds", q, pa, x)
           IN  Through(V, W) /\ (Ok(W) => Book(W, pa, ca, c, h, s + x))
<1> DEFINE p == V.ledger.lender[1]
           q == V.ledger.borrower[1]
           D == Guarded(VaultDepositERC20From(V, Outside, q, pa, x), g)
           W == Reserve(D, "borrowerProceeds", q, pa, x)
           r == V.ledger.reserved["borrowerProceeds"][1]
<1>0. x \in Int /\ c \in Int /\ h \in Int /\ s \in Int
  OBVIOUS
<1> HIDE DEF q
<1>2. /\ Through(V, W) /\ Comes(V.ledger, W.ledger)
      /\ W.ledger.loanCollateralLien = V.ledger.loanCollateralLien
      /\ r.amount = 0 \/ r.asset = pa => Row(W.ledger.reserved["borrowerProceeds"][1], pa, r.amount + x)
      /\ \A d \in Lanes : d # "borrowerProceeds" => W.ledger.reserved[d][1] = V.ledger.reserved[d][1]
  BY Basics, ReserveThrough
<1>2a. \A k \in Keys : /\ W.ledger.encumbered[k] = V.ledger.encumbered[k] + At(k, q, pa, x)
                       /\ W.tracked[k] = V.tracked[k] + At(k, q, pa, x)
  BY Basics, ReserveSums
<1> HIDE DEF D, W
<1>3. ASSUME Ok(W) PROVE Book(W, pa, ca, c, h, s + x)
  <2>1. Book(V, pa, ca, c, h, s)
    BY <1>2, <1>3 DEF Through, Moves
  <2>2. /\ p \in Parties /\ q \in Parties
        /\ V.ledger.loanCollateralLien[1] = [user |-> q, asset |-> ca, amount |-> c, live |-> TRUE]
        /\ V.ledger.reserved["lenderProceeds"][1].amount = 0
        /\ Row(V.ledger.reserved["heldForLender"][1], pa, h)
        /\ Row(r, pa, s) /\ r.amount = s
    BY <2>1 DEF Book, Row, q
  <2>3. W.ledger.lender[1] = p /\ W.ledger.borrower[1] = q
    BY <1>2 DEF Comes, SameParties, q
  <2>4. /\ W.ledger.reserved["lenderProceeds"][1] = V.ledger.reserved["lenderProceeds"][1]
        /\ W.ledger.reserved["heldForLender"][1] = V.ledger.reserved["heldForLender"][1]
        /\ Row(W.ledger.reserved["borrowerProceeds"][1], pa, s + x)
    <3>1. "lenderProceeds" # "borrowerProceeds" /\ "heldForLender" # "borrowerProceeds"
      OBVIOUS
    <3>2. r.amount = 0 \/ r.asset = pa
      BY <2>2 DEF Row
    <3> HIDE DEF r
    <3> QED BY <1>2, <2>2, <3>1, <3>2, Basics
  <2>5. ASSUME NEW k \in Keys
        PROVE  /\ W.ledger.encumbered[k] = At(k, q, ca, c) + At(k, p, pa, h) + At(k, q, pa, s + x)
               /\ W.tracked[k] = W.depository[k] + (At(k, q, ca, c) + At(k, p, pa, h) + At(k, q, pa, s + x))
    <3>1. /\ V.ledger.encumbered[k] = At(k, q, ca, c) + At(k, p, pa, h) + At(k, q, pa, s)
          /\ V.tracked[k] = V.depository[k] + (At(k, q, ca, c) + At(k, p, pa, h) + At(k, q, pa, s))
      BY <2>1 DEF Book, q
    <3> HIDE DEF p
    <3>2. At(k, q, pa, s + x) = At(k, q, pa, s) + At(k, q, pa, x)
      BY <1>0 DEF At
    <3>3. /\ At(k, q, ca, c) \in Int /\ At(k, p, pa, h) \in Int /\ At(k, q, pa, s) \in Int
          /\ At(k, q, pa, x) \in Int
      BY <1>0, AtInt
    <3>4. W.depository[k] = V.depository[k] /\ V.depository[k] \in Int
      BY <1>2 DEF Through, Moves, Vaults
    <3> QED BY <1>2a, <3>1, <3>2, <3>3, <3>4
  <2> HIDE DEF p, r
  <2> QED BY <1>2, <2>2, <2>3, <2>4, <2>5 DEF Book
<1> QED BY <1>2, <1>3 DEF W, D, q

(* Outside pays somebody.                                                  *)
LEMMA PayBook ==
    ASSUME NEW V \in Vaults, NEW u, NEW a, NEW x \in Nat
    PROVE  LET W == Pay(V, u, a, x)
           IN  /\ Moves(V, W) /\ W.ledger = V.ledger /\ W.tracked = V.tracked
               /\ \A k \in Keys : k[1] \notin {Outside, u} => W.wallet[k] = V.wallet[k]
<1> DEFINE f == Minus(V.wallet, Outside, a, x)
           W == Pay(V, u, a, x)
<1>1. V.wallet \in [Keys -> Int] /\ x \in Int
  BY DEF Vaults
<1>2. f \in [Keys -> Int] /\ \A k \in Keys : f[k] = V.wallet[k] - At(k, Outside, a, x)
  BY <1>1, BalanceDown
<1>3. /\ W.wallet = Plus(f, u, a, x) /\ W.ledger = V.ledger
      /\ W.tracked = V.tracked /\ W.depository = V.depository
  BY DEF Pay, Plus, Minus, Vaults
<1> HIDE DEF f
<1> DEFINE g == Plus(f, u, a, x)
<1>4. g \in [Keys -> Int] /\ \A k \in Keys : g[k] = f[k] + At(k, u, a, x)
  BY <1>1, <1>2, BalanceUp
<1> HIDE DEF g
<1>5. W \in Vaults /\ W.wallet = g /\ W.ledger = V.ledger /\ W.tracked = V.tracked /\ W.depository = V.depository
  BY <1>3, <1>4 DEF Vaults, Pay, g
<1> HIDE DEF W
<1>6. ASSUME NEW k \in Keys, k[1] \notin {Outside, u} PROVE W.wallet[k] = V.wallet[k]
  <2>1. At(k, u, a, x) = 0 /\ At(k, Outside, a, x) = 0
    BY <1>6 DEF At
  <2> QED BY <1>1, <1>2, <1>4, <1>5, <2>1
<1> QED BY <1>5, <1>6 DEF Moves, Ok, W

-----------------------------------------------------------------------------
(* What is remembered of the sanctions list.                               *)

(* Listed, and confirmed to be while the list could be read.               *)
Barred(F, w) == w \in F.confirmed /\ w \in F.listed

(* From F to G the list does not change, and a barred wallet stays barred. *)
Remembers(F, G) ==
    /\ G \in Locks /\ G.listed = F.listed /\ G.up = F.up
    /\ \A w : Barred(F, w) => Barred(G, w)

LEMMA RemembersTwice ==
    ASSUME NEW F, NEW G, NEW H, Remembers(F, G), Remembers(G, H)
    PROVE  Remembers(F, H)
BY DEF Remembers

LEMMA ScreenedLock ==
    ASSUME NEW F \in Locks, NEW w
    PROVE  Remembers(F, Screened(F, w)) /\ Screened(F, w).marker = F.marker
<1> DEFINE c == IF ~ F.up THEN F.confirmed ELSE IF w \in F.listed THEN F.confirmed \cup {w} ELSE F.confirmed \ {w}
<1>1. c \in SUBSET Parties /\ \A b : Barred(F, b) => b \in c
  BY DEF Locks, Barred
<1>2. Screened(F, w) = [F EXCEPT !.confirmed = c]
  BY DEF Screened
<1> HIDE DEF c
<1> QED BY <1>1, <1>2 DEF Locks, Remembers, Barred

LEMMA RecordLock ==
    ASSUME NEW F \in Locks, NEW side \in Sides, NEW w
    PROVE  LET G == RecordFrozenClaimant(F, side, w)
           IN  /\ Remembers(F, G)
               /\ \A e \in Sides : e # side => G.marker[e] = F.marker[e]
               /\ ~ F.up /\ w \in F.confirmed => G.marker[side] # NoUser
<1> DEFINE G == Screened(F, w)
           p == F.marker[side]
           c == G.confirmed \ ({p} \ {w})
           moot == p = NoUser \/ p = w \/ ProvenClean(F, p)
           Mark(q) == [G EXCEPT !.marker[side] = q, !.confirmed = c]
           H == RecordFrozenClaimant(F, side, w)
<1>1. Remembers(F, G) /\ G.marker = F.marker /\ G \in Locks
  BY ScreenedLock DEF Remembers
<1>2. Remembers(F, F)
  BY DEF Remembers
<1>3. ~ F.up => G.confirmed = F.confirmed
  BY DEF Screened, Locks
<1>4. MustFreeze(F, w) <=> w \in G.confirmed
  BY DEF MustFreeze
<1>5. ProvenClean(F, p) => p \notin F.listed
  BY DEF ProvenClean
<1>6. w \in F.confirmed => w \in Parties
  BY DEF Locks
<1> HIDE DEF G
<1>7. ASSUME moot, NEW q \in Parties \cup {NoUser}
      PROVE  /\ Remembers(F, Mark(q)) /\ Mark(q).marker[side] = q
             /\ \A e \in Sides : e # side => Mark(q).marker[e] = F.marker[e]
  <2>1. c \in SUBSET Parties
    BY <1>1 DEF Locks
  <2>2. \A b : Barred(F, b) => b \in c
    <3> SUFFICES ASSUME NEW b, Barred(F, b) PROVE b \in c
      OBVIOUS
    <3>1. b \in G.confirmed /\ b \in F.listed /\ b \in Parties
      BY <1>1 DEF Remembers, Barred, Locks
    <3>2. b = p => p = w
      BY <1>5, <1>7, <3>1, Basics
    <3> QED BY <3>1, <3>2
  <2> HIDE DEF c
  <2>3. /\ Mark(q) \in Locks /\ Mark(q).confirmed = c /\ Mark(q).listed = G.listed /\ Mark(q).up = G.up
        /\ Mark(q).marker = [G.marker EXCEPT ![side] = q]
    BY <1>1, <2>1 DEF Locks
  <2>4. Remembers(F, Mark(q))
    BY <1>1, <2>2, <2>3 DEF Remembers, Barred
  <2>5. G.marker \in [Sides -> Parties \cup {NoUser}]
    BY <1>1 DEF Locks
  <2> QED BY <1>1, <2>3, <2>4, <2>5
<1> HIDE DEF p, c
<1>8. CASE w = NoUser
  <2>1. H = F
    BY <1>8 DEF RecordFrozenClaimant
  <2>2. w \notin F.confirmed
    BY <1>6, <1>8, Basics
  <2> QED BY <1>2, <2>1, <2>2
<1>9. CASE w # NoUser /\ ~ moot
  <2>1. H = G
    BY <1>9 DEF RecordFrozenClaimant, G, p
  <2> QED BY <1>1, <1>9, <2>1 DEF p
<1>10. CASE w # NoUser /\ moot /\ MustFreeze(F, w)
  <2>1. w \in Parties
    BY <1>1, <1>4, <1>10 DEF Locks
  <2>2. H = Mark(w)
    <3>1. ~ (w = NoUser) /\ ~ (w # NoUser /\ ~ moot)
      BY <1>10
    <3>2. ~ (moot /\ ProvenClean(F, w))
      BY <1>4, <1>10 DEF ProvenClean, Screened, Locks, G
    <3> QED BY <1>10, <3>1, <3>2 DEF RecordFrozenClaimant, G, p, c
  <2> HIDE DEF H, Mark
  <2> QED BY <1>7, <1>10, <2>1, <2>2 DEF H
<1>11. CASE w # NoUser /\ moot /\ ProvenClean(F, w)
  <2>1. ~ MustFreeze(F, w)
    BY <1>4, <1>11 DEF ProvenClean, Screened, Locks, G
  <2>2. H = Mark(NoUser)
    BY <1>11, <2>1 DEF RecordFrozenClaimant, G, p, c
  <2>3. F.up
    BY <1>11 DEF ProvenClean
  <2> HIDE DEF H, Mark
  <2> QED BY <1>7, <1>11, <2>2, <2>3 DEF H
<1>12. CASE w # NoUser /\ moot /\ ~ MustFreeze(F, w) /\ ~ ProvenClean(F, w)
  <2>1. H = F
    BY <1>12 DEF RecordFrozenClaimant, p
  <2>2. ~ F.up => w \notin F.confirmed
    BY <1>3, <1>4, <1>12
  <2> QED BY <1>2, <2>1, <2>2
<1> QED BY <1>8, <1>9, <1>10, <1>11, <1>12

LEMMA RecordBothLock ==
    ASSUME NEW F \in Locks, NEW holder
    PROVE  LET G == RecordBoth(F, holder)
           IN  /\ Remembers(F, G)
               /\ \A side \in Sides : ~ F.up /\ Barred(F, holder[side]) => G.marker[side] # NoUser
<1> DEFINE H == RecordFrozenClaimant(F, "lender", holder["lender"])
           G == RecordFrozenClaimant(H, "borrower", holder["borrower"])
<1>1. "lender" \in Sides /\ "borrower" \in Sides /\ Sides = {"lender", "borrower"} /\ "lender" # "borrower"
  BY DEF Sides
<1>2. /\ Remembers(F, H)
      /\ ~ F.up /\ holder["lender"] \in F.confirmed => H.marker["lender"] # NoUser
  BY <1>1, RecordLock
<1> HIDE DEF H
<1>3. H \in Locks
  BY <1>2 DEF Remembers
<1>4. /\ Remembers(H, G)
      /\ G.marker["lender"] = H.marker["lender"]
      /\ ~ H.up /\ holder["borrower"] \in H.confirmed => G.marker["borrower"] # NoUser
  BY <1>1, <1>3, RecordLock
<1> HIDE DEF G
<1>5. Remembers(F, G)
  BY <1>2, <1>4, RemembersTwice
<1>6. \A side \in Sides : ~ F.up /\ Barred(F, holder[side]) => G.marker[side] # NoUser
  BY <1>1, <1>2, <1>4 DEF Remembers, Barred
<1>7. RecordBoth(F, holder) = G
  BY DEF RecordBoth, G, H
<1> QED BY <1>5, <1>6, <1>7

LEMMA ReleasedLock ==
    ASSUME NEW F \in Locks, NEW side \in Sides
    PROVE  Released(F, side) \in Locks
BY DEF Released, Locks

-----------------------------------------------------------------------------
(* An open loan through consolidation and servicing.                       *)

State == [v : Vaults, n : Loan, f : Locks]

(* The terms and the claims of a loan, which servicing leaves alone.       *)
SameTerms(m, n) ==
    /\ n \in Loan
    /\ n.status = m.status /\ n.principalAsset = m.principalAsset
    /\ n.collateralAsset = m.collateralAsset /\ n.principal = m.principal
    /\ n.lenderClaim = m.lenderClaim /\ n.borrowerClaim = m.borrowerClaim
    /\ n.surplus.claimed = m.surplus.claimed /\ n.holder = m.holder

BookOf(S) ==
    Book(S.v, S.n.principalAsset, S.n.collateralAsset, S.n.collateral, S.n.held, S.n.surplus.amount)

(* An open loan: nothing is claimed of it yet, somebody holds each of its  *)
(* positions, and its books are right unless the call reverts.             *)
IsOpen(S) ==
    /\ S \in State
    /\ S.n.status = "Active"
    /\ S.n.lenderClaim = NoClaim /\ S.n.borrowerClaim = NoClaim /\ ~ S.n.surplus.claimed
    /\ S.n.holder \in [Sides -> Parties]
    /\ Ok(S.v) => BookOf(S)

(* What a part of a call leaves alone: the terms, the depository, and the  *)
(* wallets of those who are barred.                                        *)
Frame(S, T) ==
    /\ SameTerms(S.n, T.n) /\ Moves(S.v, T.v) /\ Remembers(S.f, T.f)
    /\ \A w \in Parties : Barred(S.f, w) =>
          \A a \in Assets : T.v.wallet[<<w, a>>] = S.v.wallet[<<w, a>>]

Leads(S, T) == IsOpen(T) /\ Frame(S, T)

LEMMA LeadsTwice ==
    ASSUME NEW S, NEW T, NEW U, Leads(S, T), Leads(T, U)
    PROVE  Leads(S, U)
BY DEF Leads, Frame, SameTerms, Moves, Remembers

LEMMA LeadsSelf ==
    ASSUME NEW S, IsOpen(S)
    PROVE  Leads(S, S)
BY DEF Leads, Frame, SameTerms, Moves, Remembers, IsOpen, State

LEMMA AmountsSet ==
    ASSUME NEW n \in Loan, NEW x \in Nat
    PROVE  /\ SameTerms(n, [n EXCEPT !.collateral = x]) /\ [n EXCEPT !.collateral = x].collateral = x
           /\ [n EXCEPT !.collateral = x].held = n.held /\ [n EXCEPT !.collateral = x].surplus = n.surplus
           /\ SameTerms(n, [n EXCEPT !.held = x]) /\ [n EXCEPT !.held = x].held = x
           /\ [n EXCEPT !.held = x].collateral = n.collateral /\ [n EXCEPT !.held = x].surplus = n.surplus
           /\ SameTerms(n, [n EXCEPT !.surplus.amount = x]) /\ [n EXCEPT !.surplus.amount = x].surplus.amount = x
           /\ [n EXCEPT !.surplus.amount = x].collateral = n.collateral
           /\ [n EXCEPT !.surplus.amount = x].held = n.held
<1>1. SameTerms(n, [n EXCEPT !.collateral = x]) /\ SameTerms(n, [n EXCEPT !.held = x])
  BY DEF Loan, SameTerms
<1>2. n.surplus \in Claim /\ [n.surplus EXCEPT !.amount = x] \in Claim
      /\ [n.surplus EXCEPT !.amount = x].amount = x /\ [n.surplus EXCEPT !.amount = x].claimed = n.surplus.claimed
  BY DEF Loan, Claim
<1>3. [n EXCEPT !.surplus.amount = x] = [n EXCEPT !.surplus = [n.surplus EXCEPT !.amount = x]]
  BY DEF Loan
<1> DEFINE c == [n.surplus EXCEPT !.amount = x]
<1> HIDE DEF c
<1>4. /\ SameTerms(n, [n EXCEPT !.surplus = c]) /\ [n EXCEPT !.surplus = c].surplus = c
      /\ [n EXCEPT !.surplus = c].collateral = n.collateral /\ [n EXCEPT !.surplus = c].held = n.held
  BY <1>2 DEF Loan, SameTerms, c
<1>5. /\ SameTerms(n, [n EXCEPT !.surplus.amount = x]) /\ [n EXCEPT !.surplus.amount = x].surplus.amount = x
      /\ [n EXCEPT !.surplus.amount = x].collateral = n.collateral
      /\ [n EXCEPT !.surplus.amount = x].held = n.held
  BY <1>2, <1>3, <1>4 DEF c
<1>6. /\ [n EXCEPT !.collateral = x].collateral = x
      /\ [n EXCEPT !.collateral = x].held = n.held /\ [n EXCEPT !.collateral = x].surplus = n.surplus
      /\ [n EXCEPT !.held = x].held = x
      /\ [n EXCEPT !.held = x].collateral = n.collateral /\ [n EXCEPT !.held = x].surplus = n.surplus
  BY DEF Loan
<1> QED BY <1>1, <1>5, <1>6

LEMMA LoanFields ==
    ASSUME NEW n \in Loan
    PROVE  /\ n.collateral \in Nat /\ n.held \in Nat /\ n.surplus.amount \in Nat /\ n.principal \in Nat
           /\ n.principalAsset \in Assets /\ n.collateralAsset \in Assets
           /\ n.surplus.claimed \in BOOLEAN
           /\ n.holder \in [Sides -> Parties \cup {NoUser}]
BY DEF Loan, Claim

LEMMA LeadsBy ==
    ASSUME NEW S, IsOpen(S), NEW T, T \in State, SameTerms(S.n, T.n), Through(S.v, T.v),
           Remembers(S.f, T.f), Ok(T.v) => BookOf(T)
    PROVE  Leads(S, T)
<1>1. IsOpen(T)
  BY DEF IsOpen, SameTerms
<1>2. \A w \in Parties, a \in Assets : <<w, a>> \in Keys /\ <<w, a>>[1] \in Parties
  BY Basics DEF Keys
<1>3. \A w \in Parties, a \in Assets : T.v.wallet[<<w, a>>] = S.v.wallet[<<w, a>>]
  BY <1>2 DEF Through, WalletsKept
<1> QED BY <1>1, <1>3 DEF Leads, Frame, Through

LEMMA DeliveredSet ==
    ASSUME NEW a \in Assets, NEW x \in Nat
    PROVE  Delivered(a, x) \subseteq 0..x /\ Delivered(a, x) \subseteq Nat
BY LoanPositionsAssumption DEF Delivered, Excess

LEMMA LenderRelocated ==
    ASSUME NEW S, IsOpen(S), NEW T \in Relocated(S, "lender")
    PROVE  Leads(S, T)
<1> DEFINE p == S.v.ledger.lender[1]
           u == S.n.holder["lender"]
           a == S.n.principalAsset
           x == S.n.held
           R == On(S.v, RekeyLienToHolder(S.v.ledger, 1, u, TRUE))
           K == [S EXCEPT !.v = R]
           M(y) == MoveERC20(R, p, u, a, x, y)
           C(y) == On(M(y), CapLenderHeldReservations(M(y).ledger, 1, u, a, y))
           W(y) == On(C(y), SetLender(C(y).ledger, 1, u))
<1>1. /\ S \in State /\ S.v \in Vaults /\ S.n \in Loan /\ S.f \in Locks /\ u \in Parties
      /\ Ok(S.v) => BookOf(S)
  BY DEF IsOpen, State, Sides
<1>2. K.v = R /\ K.n = S.n /\ K.f = S.f /\ K = [v |-> R, n |-> S.n, f |-> S.f]
  <2> HIDE DEF R
  <2> QED BY <1>1 DEF State
<1>3. PICK U \in MoveHeld(K, p, u) : T = [U EXCEPT !.v = On(U.v, SetLender(U.v.ledger, 1, u))]
  BY DEF Relocated, Stored, Lender
<1>4. PICK y \in Delivered(a, x) : U = [K EXCEPT !.v = C(y), !.n.held = y]
  <2> HIDE DEF K, R
  <2> QED BY <1>2, <1>3 DEF MoveHeld
<1>5. U = [v |-> C(y), n |-> [S.n EXCEPT !.held = y], f |-> S.f]
  <2> HIDE DEF K, C
  <2> QED BY <1>2, <1>4
<1>6. T = [v |-> W(y), n |-> [S.n EXCEPT !.held = y], f |-> S.f]
  <2> HIDE DEF C
  <2> QED BY <1>3, <1>5
<1> DEFINE V == W(y)
           n == [S.n EXCEPT !.held = y]
<1>7. x \in Nat /\ a \in Assets /\ S.n.collateral \in Nat /\ S.n.surplus.amount \in Nat
  BY <1>1, LoanFields
<1>8. y \in 0..x /\ y \in Nat
  BY <1>7, DeliveredSet
<1>9. /\ Through(S.v, V)
      /\ Ok(V) => Book(V, a, S.n.collateralAsset, S.n.collateral, y, S.n.surplus.amount)
  BY <1>1, <1>7, <1>8, RelocateLender DEF BookOf
<1>10. SameTerms(S.n, n) /\ n.held = y /\ n.collateral = S.n.collateral /\ n.surplus = S.n.surplus
  BY <1>1, <1>8, AmountsSet
<1> HIDE DEF W, n
<1>11. T.v = V /\ T.n = n /\ T.f = S.f
  BY <1>6 DEF n
<1>12. T \in State
  BY <1>1, <1>6, <1>9, <1>10 DEF State, Through, Moves, SameTerms, n
<1>13. Ok(T.v) => BookOf(T)
  BY <1>9, <1>10, <1>11 DEF BookOf, SameTerms
<1>14. Remembers(S.f, T.f)
  BY <1>1, <1>11 DEF Remembers
<1> QED BY <1>9, <1>10, <1>11, <1>12, <1>13, <1>14, LeadsBy

LEMMA BorrowerRelocated ==
    ASSUME NEW S, IsOpen(S), NEW T \in Relocated(S, "borrower")
    PROVE  Leads(S, T)
<1> DEFINE q == S.v.ledger.borrower[1]
           u == S.n.holder["borrower"]
           pa == S.n.principalAsset
           ca == S.n.collateralAsset
           c == S.n.collateral
           s == S.n.surplus.amount
           R == On(S.v, RekeyLienToHolder(S.v.ledger, 1, u, FALSE))
           K == [S EXCEPT !.v = R]
           M(y) == LowerLien(MoveERC20(R, q, u, ca, c, y), c - y)
           X(y, z) == MoveERC20(M(y), q, u, pa, s, z)
           B(y, z) == On(X(y, z), CapBorrowerHeldReservation(X(y, z).ledger, 1, u, z))
           C(y, z) == IF s = 0 THEN M(y) ELSE B(y, z)
           W(y, z) == On(C(y, z), SetBorrower(C(y, z).ledger, 1, u))
<1>1. /\ S \in State /\ S.v \in Vaults /\ S.n \in Loan /\ S.f \in Locks /\ u \in Parties
      /\ ~ S.n.surplus.claimed
      /\ Ok(S.v) => BookOf(S)
  BY DEF IsOpen, State, Sides
<1>2. K.v = R /\ K.n = S.n /\ K.f = S.f /\ K = [v |-> R, n |-> S.n, f |-> S.f]
  <2> HIDE DEF R
  <2> QED BY <1>1 DEF State
<1>3. /\ c \in Nat /\ s \in Nat /\ pa \in Assets /\ ca \in Assets /\ S.n.held \in Nat
  BY <1>1, LoanFields
<1>4. PICK D \in MoveCollateral(K, q, u) : \E U \in MoveSurplus(D, q, u) :
          T = [U EXCEPT !.v = On(U.v, SetBorrower(U.v.ledger, 1, u))]
  <2>1. PICK U \in UNION {MoveSurplus(D, q, u) : D \in MoveCollateral(K, q, u)} :
            T = [U EXCEPT !.v = On(U.v, SetBorrower(U.v.ledger, 1, u))]
    BY ZenonT(60) DEF Relocated, Stored, Borrower
  <2> QED BY <2>1
<1>5. PICK U \in MoveSurplus(D, q, u) : T = [U EXCEPT !.v = On(U.v, SetBorrower(U.v.ledger, 1, u))]
  BY <1>4
<1>6. PICK y \in Delivered(ca, c) : D = [K EXCEPT !.v = M(y), !.n.collateral = y]
  <2> HIDE DEF K, R
  <2> QED BY <1>2, <1>4 DEF MoveCollateral
<1> DEFINE m == [S.n EXCEPT !.collateral = y]
<1>7. D = [v |-> M(y), n |-> m, f |-> S.f]
  <2> HIDE DEF K, M
  <2> QED BY <1>2, <1>6
<1>8. y \in 0..c /\ y \in Nat
  BY <1>3, DeliveredSet
<1>9. SameTerms(S.n, m) /\ m.collateral = y /\ m.held = S.n.held /\ m.surplus = S.n.surplus
  BY <1>1, <1>8, AmountsSet, ZenonT(60)
<1> HIDE DEF m
<1>10. \E z \in 0..s : U = [v |-> C(y, z), n |-> [m EXCEPT !.surplus.amount = z], f |-> S.f]
  <2>1. D.n.surplus.amount = s /\ D.n.principalAsset = pa /\ ~ D.n.surplus.claimed /\ D.v = M(y) /\ D.n = m
    BY <1>1, <1>7, <1>9 DEF SameTerms
  <2>2. CASE s = 0
    <3>1. U = D
      BY <1>5, <2>1, <2>2 DEF MoveSurplus, Unless
    <3>2. m \in Loan /\ m.surplus.amount = 0
      BY <1>9, <2>2 DEF SameTerms
    <3>3. m = [m EXCEPT !.surplus.amount = 0]
      BY <3>2 DEF Loan, Claim
    <3>4. C(y, 0) = M(y) /\ 0 \in 0..s
      BY <2>2
    <3> HIDE DEF M, C
    <3> QED BY <1>7, <3>1, <3>3, <3>4
  <2>3. CASE s # 0
    <3>1. PICK z \in Delivered(pa, s) : U = [D EXCEPT !.v = B(y, z), !.n.surplus.amount = z]
      <4> HIDE DEF M
      <4> QED BY <1>5, <2>1, <2>3 DEF MoveSurplus, Unless
    <3>2. C(y, z) = B(y, z) /\ z \in 0..s
      BY <1>3, <2>3, DeliveredSet
    <3> HIDE DEF M, C, B
    <3> QED BY <1>7, <3>1, <3>2
  <2> QED BY <2>2, <2>3
<1>11. PICK z \in 0..s : U = [v |-> C(y, z), n |-> [m EXCEPT !.surplus.amount = z], f |-> S.f]
  BY <1>10
<1> DEFINE V == W(y, z)
           n == [m EXCEPT !.surplus.amount = z]
<1>12. T = [v |-> V, n |-> n, f |-> S.f]
  <2> HIDE DEF C
  <2> QED BY <1>5, <1>11
<1>13. z \in Nat
  BY <1>3
<1>14. /\ Through(S.v, V)
       /\ Ok(V) => Book(V, pa, ca, y, S.n.held, z)
  <2> DEFINE h == S.n.held
  <2>1. Ok(S.v) => Book(S.v, pa, ca, c, h, s)
    BY <1>1 DEF BookOf
  <2>2. h \in Nat
    BY <1>3
  <2> HIDE DEF u, pa, ca, c, s, h
  <2>3. /\ Through(S.v, W(y, z))
        /\ Ok(W(y, z)) => Book(W(y, z), pa, ca, y, h, z)
    BY <1>1, <1>3, <1>8, <2>1, <2>2, RelocateBorrower, ZenonT(60)
  <2> QED BY <2>3 DEF h
<1>15. SameTerms(m, n) /\ n.held = S.n.held /\ n.collateral = y /\ n.surplus.amount = z
  <2>1. m \in Loan
    BY <1>9 DEF SameTerms
  <2>2. SameTerms(m, n) /\ n.held = m.held /\ n.collateral = m.collateral /\ n.surplus.amount = z
    BY <1>13, <2>1, AmountsSet
  <2> QED BY <1>9, <2>2
<1> HIDE DEF W, n
<1>16. SameTerms(S.n, n)
  BY <1>9, <1>15 DEF SameTerms
<1>17. T.v = V /\ T.n = n /\ T.f = S.f
  BY <1>12
<1>18. T \in State
  BY <1>1, <1>12, <1>14, <1>16 DEF State, Through, Moves, SameTerms
<1>19. Ok(T.v) => BookOf(T)
  BY <1>14, <1>15, <1>16, <1>17 DEF BookOf, SameTerms
<1>20. Remembers(S.f, T.f)
  BY <1>1, <1>17 DEF Remembers
<1> QED BY <1>14, <1>16, <1>17, <1>18, <1>19, <1>20, LeadsBy

LEMMA ConsolidatedLeads ==
    ASSUME NEW S, IsOpen(S), NEW side \in Sides, NEW T \in Consolidated(S, side)
    PROVE  Leads(S, T)
<1>1. T = S \/ T \in Relocated(S, side)
  BY DEF Consolidated, Unless
<1>2. side = "lender" \/ side = "borrower"
  BY DEF Sides
<1> QED BY <1>1, <1>2, LeadsSelf, LenderRelocated, BorrowerRelocated

LEMMA BothLead ==
    ASSUME NEW S, IsOpen(S), NEW T \in BothConsolidated(S)
    PROVE  Leads(S, T)
<1>1. PICK U \in Consolidated(S, "borrower") : T \in Consolidated(U, "lender")
  BY DEF BothConsolidated
<1>2. Leads(S, U)
  BY <1>1, ConsolidatedLeads DEF Sides
<1>3. Leads(U, T)
  BY <1>1, <1>2, ConsolidatedLeads DEF Sides, Leads
<1> QED BY <1>2, <1>3, LeadsTwice

LEMMA ScreenedLeads ==
    ASSUME NEW S, IsOpen(S), NEW u
    PROVE  LET T == [S EXCEPT !.f = Screened(@, u)]
           IN  /\ Leads(S, T) /\ T.v = S.v /\ T.n = S.n /\ T.f = Screened(S.f, u)
               /\ ~ MustFreeze(S.f, u) => ~ Barred(T.f, u)
<1> DEFINE G == Screened(S.f, u)
           T == [S EXCEPT !.f = G]
<1>1. S \in State /\ S.v \in Vaults /\ S.n \in Loan /\ S.f \in Locks
  BY DEF IsOpen, State
<1>2. Remembers(S.f, G)
  BY <1>1, ScreenedLock
<1>3. ~ MustFreeze(S.f, u) => ~ Barred(G, u)
  BY DEF MustFreeze, Barred
<1>4. [S EXCEPT !.f = Screened(@, u)] = T
  BY <1>1 DEF State
<1> HIDE DEF G
<1>5. T.v = S.v /\ T.n = S.n /\ T.f = G /\ T \in State
  BY <1>1, <1>2 DEF State, Remembers
<1> HIDE DEF T
<1>6. SameTerms(S.n, T.n) /\ Through(S.v, T.v)
  BY <1>1, <1>5 DEF SameTerms, Through, Moves, WalletsKept
<1>7. BookOf(T) <=> BookOf(S)
  BY <1>5 DEF BookOf
<1>8. Ok(T.v) => BookOf(T)
  BY <1>5, <1>7 DEF IsOpen
<1>9. Leads(S, T)
  BY <1>2, <1>5, <1>6, <1>8, LeadsBy
<1> QED BY <1>3, <1>4, <1>5, <1>9 DEF G

LEMMA PaidLeads ==
    ASSUME NEW S, IsOpen(S), NEW u \in Parties, ~ Barred(S.f, u), NEW x \in Nat
    PROVE  Leads(S, [S EXCEPT !.v = Pay(@, u, S.n.principalAsset, x)])
<1> DEFINE a == S.n.principalAsset
           W == Pay(S.v, u, a, x)
           T == [S EXCEPT !.v = W]
<1>1. S \in State /\ S.v \in Vaults /\ S.n \in Loan /\ S.f \in Locks /\ (Ok(S.v) => BookOf(S))
  BY DEF IsOpen, State
<1>2. /\ Moves(S.v, W) /\ W.ledger = S.v.ledger /\ W.tracked = S.v.tracked
      /\ \A k \in Keys : k[1] \notin {Outside, u} => W.wallet[k] = S.v.wallet[k]
  BY <1>1, PayBook
<1>3. [S EXCEPT !.v = Pay(@, u, S.n.principalAsset, x)] = T
  BY <1>1 DEF State
<1> HIDE DEF W
<1>4. T.v = W /\ T.n = S.n /\ T.f = S.f /\ T \in State
  BY <1>1, <1>2 DEF State, Moves
<1> HIDE DEF T
<1>5. Ok(T.v) => BookOf(T)
  BY <1>1, <1>2, <1>4 DEF BookOf, Book, Moves
<1>6. IsOpen(T)
  BY <1>4, <1>5 DEF IsOpen
<1>7. SameTerms(S.n, T.n) /\ Moves(S.v, T.v) /\ Remembers(S.f, T.f)
  BY <1>1, <1>2, <1>4 DEF SameTerms, Remembers
<1>8. ASSUME NEW w \in Parties, Barred(S.f, w), NEW b \in Assets
      PROVE  T.v.wallet[<<w, b>>] = S.v.wallet[<<w, b>>]
  <2>1. w # u /\ w # Outside /\ <<w, b>> \in Keys /\ <<w, b>>[1] = w
    BY <1>8, Basics, LoanPositionsAssumption DEF Keys
  <2> QED BY <1>2, <1>4, <2>1
<1> QED BY <1>3, <1>6, <1>7, <1>8 DEF Leads, Frame

LEMMA ParkedLeads ==
    ASSUME NEW S, IsOpen(S), NEW y \in Nat
    PROVE  Leads(S, Parked(S, y))
<1> DEFINE a == S.n.principalAsset
           p == S.v.ledger.lender[1]
           W == Reserve(VaultDepositERC20From(S.v, Outside, p, a, y), "heldForLender", p, a, y)
           m == [S.n EXCEPT !.held = @ + y]
           G == RecordFrozenClaimant(S.f, "lender", S.n.holder["lender"])
           T == [v |-> W, n |-> m, f |-> G]
<1>1. S.v \in Vaults /\ S.n \in Loan /\ S.f \in Locks /\ (Ok(S.v) => BookOf(S))
  BY DEF IsOpen, State
<1>2. a \in Assets /\ S.n.collateral \in Nat /\ S.n.held \in Nat /\ S.n.surplus.amount \in Nat /\ S.n.held + y \in Nat
  BY <1>1, LoanFields
<1>3. /\ Through(S.v, W)
      /\ Ok(W) => Book(W, a, S.n.collateralAsset, S.n.collateral, S.n.held + y, S.n.surplus.amount)
  BY <1>1, <1>2, ParkBook DEF BookOf
<1>4. SameTerms(S.n, m) /\ m.held = S.n.held + y /\ m.collateral = S.n.collateral /\ m.surplus = S.n.surplus
  <2>1. m = [S.n EXCEPT !.held = S.n.held + y]
    OBVIOUS
  <2> QED BY <1>1, <1>2, <2>1, AmountsSet
<1>5. Remembers(S.f, G)
  BY <1>1, RecordLock DEF Sides
<1>6. Parked(S, y) = T
  BY DEF Parked, Lender
<1> HIDE DEF W, m, G
<1>7. T \in State
  BY <1>3, <1>4, <1>5 DEF State, Through, Moves, SameTerms, Remembers
<1>8. Ok(T.v) => BookOf(T)
  BY <1>3, <1>4 DEF BookOf, SameTerms
<1> QED BY <1>3, <1>4, <1>5, <1>6, <1>7, <1>8, LeadsBy

LEMMA HeldExtraLeads ==
    ASSUME NEW S, IsOpen(S), NEW y \in Nat
    PROVE  Leads(S, HoldBorrowerExtra(S, y))
<1> DEFINE a == S.n.principalAsset
           q == S.v.ledger.borrower[1]
           g == ~ S.n.surplus.claimed
           W == Reserve(Guarded(VaultDepositERC20From(S.v, Outside, q, a, y), g), "borrowerProceeds", q, a, y)
           m == [S.n EXCEPT !.surplus.amount = @ + y]
           G == RecordFrozenClaimant(S.f, "borrower", S.n.holder["borrower"])
           T == [v |-> W, n |-> m, f |-> G]
<1>1. S.v \in Vaults /\ S.n \in Loan /\ S.f \in Locks /\ (Ok(S.v) => BookOf(S)) /\ g \in BOOLEAN
  BY DEF IsOpen, State
<1>2. /\ a \in Assets /\ S.n.collateral \in Nat /\ S.n.held \in Nat /\ S.n.surplus.amount \in Nat
      /\ S.n.surplus.amount + y \in Nat
  BY <1>1, LoanFields
<1>3. /\ Through(S.v, W)
      /\ Ok(W) => Book(W, a, S.n.collateralAsset, S.n.collateral, S.n.held, S.n.surplus.amount + y)
  <2> HIDE DEF g
  <2> QED BY <1>1, <1>2, ExtraBook DEF BookOf
<1>4. /\ SameTerms(S.n, m) /\ m.surplus.amount = S.n.surplus.amount + y /\ m.collateral = S.n.collateral
      /\ m.held = S.n.held
  <2>1. m = [S.n EXCEPT !.surplus.amount = S.n.surplus.amount + y]
    OBVIOUS
  <2> QED BY <1>1, <1>2, <2>1, AmountsSet, ZenonT(60)
<1>5. Remembers(S.f, G)
  BY <1>1, RecordLock DEF Sides
<1>6. HoldBorrowerExtra(S, y) = IF y = 0 THEN S ELSE T
  BY DEF HoldBorrowerExtra, Borrower
<1> HIDE DEF W, m, G
<1>7. T \in State
  BY <1>3, <1>4, <1>5 DEF State, Through, Moves, SameTerms, Remembers
<1>8. Ok(T.v) => BookOf(T)
  BY <1>3, <1>4 DEF BookOf, SameTerms
<1>9. Leads(S, T)
  BY <1>3, <1>4, <1>5, <1>7, <1>8, LeadsBy
<1> QED BY <1>6, <1>9, LeadsSelf

LEMMA FreezeOrPayLeads ==
    ASSUME NEW S, IsOpen(S), NEW x \in Nat, NEW arrivals, arrivals \subseteq Nat,
           NEW T \in FreezeOrPayLender(S, x, arrivals)
    PROVE  Leads(S, T)
<1> DEFINE u == S.n.holder["lender"]
           K == [S EXCEPT !.f = Screened(@, u)]
<1>1. /\ Leads(S, K) /\ K.v = S.v /\ K.n = S.n /\ K.f = Screened(S.f, u)
      /\ ~ MustFreeze(S.f, u) => ~ Barred(K.f, u)
  BY ScreenedLeads
<1>2. u \in Parties
  BY DEF IsOpen, Sides
<1>3. T \in IF MustFreeze(S.f, u) THEN {Parked(K, y) : y \in arrivals}
            ELSE {[K EXCEPT !.v = Pay(@, u, S.n.principalAsset, x)]}
  BY DEF FreezeOrPayLender
<1> HIDE DEF K
<1>4. CASE MustFreeze(S.f, u)
  <2>1. PICK y \in arrivals : T = Parked(K, y)
    BY <1>3, <1>4
  <2>2. Leads(K, T)
    BY <1>1, <2>1, ParkedLeads DEF Leads
  <2> QED BY <1>1, <2>2, LeadsTwice
<1>5. CASE ~ MustFreeze(S.f, u)
  <2>1. T = [K EXCEPT !.v = Pay(@, u, K.n.principalAsset, x)]
    BY <1>1, <1>3, <1>5
  <2>2. Leads(K, [K EXCEPT !.v = Pay(@, u, K.n.principalAsset, x)])
    BY <1>1, <1>2, <1>5, PaidLeads DEF Leads
  <2> QED BY <1>1, <2>1, <2>2, LeadsTwice
<1> QED BY <1>4, <1>5

LEMMA ExtraLeads ==
    ASSUME NEW S, IsOpen(S), NEW x \in Nat, NEW T \in PayOrHoldExtra(S, x)
    PROVE  Leads(S, T)
<1> DEFINE u == S.n.holder["borrower"]
           K == [S EXCEPT !.f = Screened(@, u)]
           Held == {HoldBorrowerExtra(K, y) : y \in Delivered(S.n.principalAsset, x)}
           P == [K EXCEPT !.v = Pay(@, u, S.n.principalAsset, x)]
<1>1. /\ Leads(S, K) /\ K.v = S.v /\ K.n = S.n /\ K.f = Screened(S.f, u)
      /\ ~ MustFreeze(S.f, u) => ~ Barred(K.f, u)
  BY ScreenedLeads
<1>2. u \in Parties /\ S.n.principalAsset \in Assets
  BY LoanFields DEF IsOpen, Sides, State
<1>3. T = S \/ T \in Held \/ (~ MustFreeze(S.f, u) /\ T = P)
  <2> DEFINE f == MustFreeze(S.f, u)
  <2>1. T \in CASE x = 0        -> {S}
               [] x > 0 /\ f   -> Held
               [] x > 0 /\ ~ f -> Held \cup {P}
    BY DEF PayOrHoldExtra
  <2> HIDE DEF Held, P, f
  <2>2. x = 0 \/ (x > 0 /\ f) \/ (x > 0 /\ ~ f)
    OBVIOUS
  <2> QED BY <2>1, <2>2 DEF f
<1>4. Leads(S, S)
  BY LeadsSelf
<1>5. ASSUME T \in Held PROVE Leads(S, T)
  <2>1. PICK y \in Delivered(S.n.principalAsset, x) : T = HoldBorrowerExtra(K, y)
    BY <1>5
  <2>2. y \in Nat
    BY <1>2, DeliveredSet
  <2> HIDE DEF K
  <2>3. Leads(K, T)
    BY <1>1, <2>1, <2>2, HeldExtraLeads DEF Leads
  <2> QED BY <1>1, <2>3, LeadsTwice
<1>6. ASSUME ~ MustFreeze(S.f, u), T = P PROVE Leads(S, T)
  <2> HIDE DEF K
  <2>1. T = [K EXCEPT !.v = Pay(@, u, K.n.principalAsset, x)]
    BY <1>1, <1>6
  <2>2. Leads(K, [K EXCEPT !.v = Pay(@, u, K.n.principalAsset, x)])
    BY <1>1, <1>2, <1>6, PaidLeads DEF Leads
  <2> QED BY <1>1, <2>1, <2>2, LeadsTwice
<1> QED BY <1>3, <1>4, <1>5, <1>6

PledgeAt(S, W, t) == [S EXCEPT !.v = W, !.n.collateral = t]

LEMMA PledgeSet ==
    ASSUME NEW S \in State, NEW W, NEW t
    PROVE  PledgeAt(S, W, t) = [v |-> W, n |-> [S.n EXCEPT !.collateral = t], f |-> S.f]
<1>1. [S EXCEPT !.v = W, !.n.collateral = t] = [[S EXCEPT !.v = W] EXCEPT !.n.collateral = t]
  OBVIOUS
<1> DEFINE K == [S EXCEPT !.v = W]
<1>2. [K EXCEPT !.n.collateral = t] = [K EXCEPT !.n = [K.n EXCEPT !.collateral = t]]
  <2> HIDE DEF K
  <2> QED OBVIOUS
<1>3. K = [v |-> W, n |-> S.n, f |-> S.f]
  BY DEF State
<1> DEFINE m == [S.n EXCEPT !.collateral = t]
<1>4. [K EXCEPT !.n = [K.n EXCEPT !.collateral = t]] = [K EXCEPT !.n = m]
  BY <1>3
<1>5. [K EXCEPT !.n = m] = [v |-> W, n |-> m, f |-> S.f]
  <2> HIDE DEF K, m
  <2> QED BY <1>3
<1> QED BY <1>1, <1>2, <1>4, <1>5 DEF PledgeAt

LEMMA TopUpLeads ==
    ASSUME NEW S, IsOpen(S), NEW x \in Nat, x # 0
    PROVE  LET a == S.n.collateralAsset
               V == VaultDepositERC20From(S.v, Outside, Borrower(S), a, x)
           IN  Leads(S, [S EXCEPT !.v = On(V, IncrementCollateralLien(V.ledger, 1, a, x)),
                                  !.n.collateral = @ + x])
<1> DEFINE a == S.n.collateralAsset
           D == VaultDepositERC20From(S.v, Outside, S.v.ledger.borrower[1], a, x)
           W == On(D, IncrementCollateralLien(D.ledger, 1, a, x))
           m == [S.n EXCEPT !.collateral = S.n.collateral + x]
           T == [v |-> W, n |-> m, f |-> S.f]
<1>1. /\ S \in State /\ S.v \in Vaults /\ S.n \in Loan /\ S.f \in Locks
      /\ (Ok(S.v) => BookOf(S))
  BY DEF IsOpen, State
<1>2. a \in Assets /\ S.n.collateral \in Nat /\ S.n.held \in Nat /\ S.n.surplus.amount \in Nat /\ S.n.collateral + x \in Nat
  BY <1>1, LoanFields
<1>3. /\ Through(S.v, W)
      /\ Ok(W) => Book(W, S.n.principalAsset, a, S.n.collateral + x, S.n.held, S.n.surplus.amount)
  BY <1>1, <1>2, TopUpBook DEF BookOf
<1>4. SameTerms(S.n, m) /\ m.collateral = S.n.collateral + x /\ m.held = S.n.held /\ m.surplus = S.n.surplus
  BY <1>1, <1>2, AmountsSet
<1>5. [S EXCEPT !.v = W, !.n.collateral = @ + x] = T
  <2> HIDE DEF W
  <2>1. [S EXCEPT !.v = W] = [v |-> W, n |-> S.n, f |-> S.f]
    BY <1>1 DEF State
  <2>2. [S EXCEPT !.v = W, !.n.collateral = @ + x] = PledgeAt(S, W, S.n.collateral + x)
    BY <1>1, <2>1 DEF State, PledgeAt
  <2> DEFINE t == S.n.collateral + x
  <2> HIDE DEF t
  <2>4. PledgeAt(S, W, t) = [v |-> W, n |-> [S.n EXCEPT !.collateral = t], f |-> S.f]
    BY <1>1, PledgeSet
  <2> QED BY <2>2, <2>4 DEF t
<1> HIDE DEF W, m
<1>6. T \in State
  BY <1>1, <1>3, <1>4 DEF State, Through, Moves, SameTerms
<1>7. Ok(T.v) => BookOf(T)
  BY <1>3, <1>4 DEF BookOf, SameTerms
<1>8. Remembers(S.f, S.f)
  BY <1>1 DEF Remembers
<1>9. Leads(S, T)
  BY <1>3, <1>4, <1>6, <1>7, <1>8, LeadsBy
<1> QED BY <1>5, <1>9 DEF W, D, Borrower

LEMMA SoldOpen ==
    ASSUME NEW S, IsOpen(S), NEW x \in Nat, x <= S.n.collateral, NEW u
    PROVE  LET T == [S EXCEPT !.v = VaultWithdrawERC20(LowerLien(@, x), Borrower(S), S.n.collateralAsset, u, x),
                              !.n.collateral = @ - x]
           IN  IsOpen(T) /\ (u = Outside => Leads(S, T))
<1> DEFINE a == S.n.collateralAsset
           W == VaultWithdrawERC20(LowerLien(S.v, x), S.v.ledger.borrower[1], a, u, x)
           m == [S.n EXCEPT !.collateral = S.n.collateral - x]
           T == [v |-> W, n |-> m, f |-> S.f]
<1>1. /\ S \in State /\ S.v \in Vaults /\ S.n \in Loan /\ S.f \in Locks
      /\ (Ok(S.v) => BookOf(S))
  BY DEF IsOpen, State
<1>2. a \in Assets /\ S.n.collateral \in Nat /\ S.n.held \in Nat /\ S.n.surplus.amount \in Nat /\ S.n.collateral - x \in Nat
  BY <1>1, LoanFields
<1>3. /\ Moves(S.v, W) /\ (u = Outside => WalletsKept(S.v, W))
      /\ Ok(W) => Book(W, S.n.principalAsset, a, S.n.collateral - x, S.n.held, S.n.surplus.amount)
  BY <1>1, <1>2, SellBook DEF BookOf
<1>4. SameTerms(S.n, m) /\ m.collateral = S.n.collateral - x /\ m.held = S.n.held /\ m.surplus = S.n.surplus
  BY <1>1, <1>2, AmountsSet
<1>5. [S EXCEPT !.v = VaultWithdrawERC20(LowerLien(@, x), Borrower(S), S.n.collateralAsset, u, x),
                !.n.collateral = @ - x] = T
  <2>1. [S EXCEPT !.v = W, !.n.collateral = @ - x] = T
    <3> HIDE DEF W
    <3>1. [S EXCEPT !.v = W] = [v |-> W, n |-> S.n, f |-> S.f]
      BY <1>1 DEF State
    <3>2. [S EXCEPT !.v = W, !.n.collateral = @ - x] = PledgeAt(S, W, S.n.collateral - x)
      BY <1>1, <3>1 DEF State, PledgeAt
    <3> DEFINE t == S.n.collateral - x
    <3> HIDE DEF t
    <3>4. PledgeAt(S, W, t) = [v |-> W, n |-> [S.n EXCEPT !.collateral = t], f |-> S.f]
      BY <1>1, PledgeSet
    <3> QED BY <3>2, <3>4 DEF t
  <2> QED BY <2>1 DEF Borrower
<1> HIDE DEF W, m
<1>6. T \in State
  BY <1>1, <1>3, <1>4 DEF State, Moves, SameTerms
<1>7. Ok(T.v) => BookOf(T)
  BY <1>3, <1>4 DEF BookOf, SameTerms
<1>8. Remembers(S.f, S.f)
  BY <1>1 DEF Remembers
<1>9. IsOpen(T)
  BY <1>4, <1>6, <1>7 DEF IsOpen, SameTerms
<1>10. u = Outside => Leads(S, T)
  BY <1>3, <1>4, <1>6, <1>7, <1>8, LeadsBy DEF Through
<1> QED BY <1>5, <1>9, <1>10

-----------------------------------------------------------------------------
(* The books of a loan that is repaid, and the invariant.                  *)

(* As Book, with d due to the lender, of which e is reserved, and a pledge *)
(* that is live or not.                                                    *)
Accounts(V, pa, ca, c, h, s, d, e, live) ==
    LET L == V.ledger
        p == L.lender[1]
        q == L.borrower[1]
        Kept(k) == At(k, q, ca, c) + At(k, p, pa, h) + At(k, q, pa, s)
    IN  /\ p \in Parties /\ q \in Parties
        /\ L.loanCollateralLien[1].live = live
        /\ live => L.loanCollateralLien[1] = [user |-> q, asset |-> ca, amount |-> c, live |-> TRUE]
        /\ Row(L.reserved["lenderProceeds"][1], pa, e)
        /\ Row(L.reserved["heldForLender"][1], pa, h)
        /\ Row(L.reserved["borrowerProceeds"][1], pa, s)
        /\ \A k \in Keys : L.encumbered[k] = Kept(k) + At(k, p, pa, e)
        /\ \A k \in Keys : V.tracked[k] = V.depository[k] + Kept(k) + At(k, p, pa, d)

Unclaimed(claim, x) == IF claim.claimed THEN 0 ELSE x

DueOf(n)    == Unclaimed(n.lenderClaim, n.lenderClaim.amount)
HeldOf(n)   == Unclaimed(n.lenderClaim, n.held)
PledgeOf(n) == Unclaimed(n.borrowerClaim, n.collateral)
ExtraOf(n)  == Unclaimed(n.borrowerClaim, n.surplus.amount)

(* A loan nobody owes any more: who has not claimed can, in one call.      *)
IsClosed(S) ==
    /\ S \in State
    /\ S.n.status \in {"Repaid", "Settled"}
    /\ S.n.lenderClaim.written /\ S.n.borrowerClaim.amount = S.n.collateral
    /\ S.n.status = "Settled" => S.n.lenderClaim.claimed
    /\ S.n.surplus.claimed => S.n.borrowerClaim.claimed
    /\ S.n.borrowerClaim.claimed => S.n.surplus.claimed \/ S.n.surplus.amount = 0
    /\ Accounts(S.v, S.n.principalAsset, S.n.collateralAsset, PledgeOf(S.n), HeldOf(S.n), ExtraOf(S.n),
                DueOf(S.n), IF S.n.principalAsset = Vpfi THEN DueOf(S.n) ELSE 0,
                ~ S.n.borrowerClaim.claimed)

Good(S) == Ok(S.v) /\ (IsOpen(S) \/ IsClosed(S))

Inv == Good([v |-> vaults, n |-> loan, f |-> lock])

(* What a barred wallet has after a call from R it had deposited before.   *)
Quiet(R, S) ==
    \A w \in Parties : Barred(R.f, w) => \A a \in Assets :
        S.v.wallet[<<w, a>>] + S.v.depository[<<w, a>>] <= R.v.depository[<<w, a>>]

Lands(S) == Becomes(S) /\ Good(S) /\ Quiet(Now, S)

LEMMA PursesTyped ==
    /\ Purses \in [Keys -> Int]
    /\ \A w \in Parties, a \in Assets : <<w, a>> \in Keys /\ Purses[<<w, a>>] = 0
<1>1. Supply \in Int /\ \A w \in Parties, a \in Assets : <<w, a>> \in Keys /\ <<w, a>>[1] # Outside
  BY Basics, LoanPositionsAssumption DEF Keys
<1> QED BY <1>1 DEF Purses

LEMMA NowGood ==
    ASSUME Inv
    PROVE  /\ Now \in State /\ Ok(Now.v) /\ Now.n = loan /\ Now.f = lock
           /\ Now.v.ledger = vaults.ledger /\ Now.v.tracked = vaults.tracked
           /\ Now.v.depository = vaults.depository /\ Now.v.wallet = Purses
           /\ Now.v = [vaults EXCEPT !.wallet = Purses] /\ vaults \in Vaults
           /\ IsOpen(Now) \/ IsClosed(Now)
           /\ loan.status = "Active" => IsOpen(Now)
           /\ loan.status # "Active" => IsClosed(Now)
<1> DEFINE S == [v |-> vaults, n |-> loan, f |-> lock]
<1>1. Good(S) /\ S \in State /\ vaults \in Vaults /\ loan \in Loan /\ lock \in Locks
  BY DEF Inv, Good, IsOpen, IsClosed, State
<1>2. /\ Now \in State /\ Now.n = loan /\ Now.f = lock /\ Now.v = [vaults EXCEPT !.wallet = Purses]
      /\ Now.v.ledger = vaults.ledger /\ Now.v.tracked = vaults.tracked
      /\ Now.v.depository = vaults.depository /\ Now.v.wallet = Purses
  BY <1>1, PursesTyped DEF Now, State, Vaults
<1>3. Ok(Now.v)
  BY <1>1, <1>2 DEF Good, Ok
<1>4. IsOpen(S) => IsOpen(Now)
  BY <1>2 DEF IsOpen, BookOf, Book, Ok
<1>5. IsClosed(S) => IsClosed(Now)
  BY <1>2 DEF IsClosed, Accounts
<1>6. IsOpen(Now) => loan.status = "Active"
  BY <1>2 DEF IsOpen
<1>7. IsClosed(Now) => loan.status # "Active"
  BY <1>2 DEF IsClosed
<1>8. IsOpen(Now) \/ IsClosed(Now)
  BY <1>1, <1>4, <1>5 DEF Good
<1> QED BY <1>1, <1>2, <1>3, <1>6, <1>7, <1>8

LEMMA LandsWell ==
    ASSUME NEW S, Becomes(S), Good(S)
    PROVE  Inv'
<1>1. S \in State
  BY DEF Good, IsOpen, IsClosed
<1>2. S = [v |-> S.v, n |-> S.n, f |-> S.f]
  BY <1>1 DEF State
<1>3. [v |-> vaults', n |-> loan', f |-> lock'] = S
  BY <1>2 DEF Becomes
<1> QED BY <1>3 DEF Inv

LEMMA FrameQuiet ==
    ASSUME Inv, NEW S, S \in State, Moves(Now.v, S.v),
           \A w \in Parties : Barred(lock, w) =>
               \A a \in Assets : S.v.wallet[<<w, a>>] = Purses[<<w, a>>]
    PROVE  Quiet(Now, S)
<1>1. S.v.depository = vaults.depository /\ Now.f = lock /\ Now.v.depository = vaults.depository
  BY NowGood DEF Moves
<1>2. \A k \in Keys : vaults.depository[k] \in Int
  BY NowGood DEF Vaults
<1> QED BY <1>1, <1>2, PursesTyped DEF Quiet

LEMMA OpenLands ==
    ASSUME Inv, NEW S, Leads(Now, S), Becomes(S)
    PROVE  Lands(S)
<1>1. IsOpen(S) /\ Ok(S.v) /\ S \in State /\ Frame(Now, S)
  BY DEF Leads, Becomes, IsOpen
<1>2. Good(S)
  BY <1>1 DEF Good
<1>3. Quiet(Now, S)
  <2>1. \A w \in Parties : Barred(lock, w) => \A a \in Assets : S.v.wallet[<<w, a>>] = Purses[<<w, a>>]
    BY <1>1, NowGood DEF Frame
  <2> QED BY <1>1, <2>1, FrameQuiet DEF Frame
<1> QED BY <1>2, <1>3 DEF Lands

-----------------------------------------------------------------------------
(* The calls on an open loan.                                              *)

LEMMA ConsolidateLands ==
    ASSUME Inv, NEW side \in Sides, ConsolidateToHolder(side)
    PROVE  \E S : Lands(S)
<1>1. IsOpen(Now)
  BY NowGood DEF ConsolidateToHolder
<1>2. PICK S \in Consolidated(Now, side) : Becomes(S)
  BY DEF ConsolidateToHolder
<1>3. Leads(Now, S)
  BY <1>1, <1>2, ConsolidatedLeads
<1> QED BY <1>2, <1>3, OpenLands

LEMMA AddLands ==
    ASSUME Inv, NEW x \in Nat \ {0}, AddCollateral(x)
    PROVE  \E S : Lands(S)
<1> DEFINE a(S) == S.n.collateralAsset
           V(S) == VaultDepositERC20From(S.v, Outside, Borrower(S), a(S), x)
           T(S) == [S EXCEPT !.v = On(V(S), IncrementCollateralLien(V(S).ledger, 1, a(S), x)),
                             !.n.collateral = @ + x]
<1>1. IsOpen(Now)
  BY NowGood DEF AddCollateral
<1>2. PICK S \in Consolidated(Now, "borrower") : Becomes(T(S))
  BY DEF AddCollateral
<1>3. Leads(Now, S)
  BY <1>1, <1>2, ConsolidatedLeads DEF Sides
<1>4. Leads(S, T(S))
  BY <1>3, TopUpLeads DEF Leads
<1> HIDE DEF T
<1>5. Leads(Now, T(S))
  BY <1>3, <1>4, LeadsTwice
<1> QED BY <1>2, <1>5, OpenLands

LEMMA WithdrawPartLands ==
    ASSUME Inv, NEW x \in Nat, PartialWithdrawCollateral(x)
    PROVE  \E S : Becomes(S) /\ Good(S)
<1> DEFINE u == loan.holder["borrower"]
           T(S) == [S EXCEPT !.v = VaultWithdrawERC20(LowerLien(@, x), Borrower(S), S.n.collateralAsset, u, x),
                             !.n.collateral = @ - x]
<1>1. IsOpen(Now)
  BY NowGood DEF PartialWithdrawCollateral
<1>2. PICK S \in Consolidated(Now, "borrower") : x < S.n.collateral /\ Becomes(T(S))
  BY DEF PartialWithdrawCollateral
<1>3. IsOpen(S) /\ S.n.collateral \in Nat
  BY <1>1, <1>2, ConsolidatedLeads, LoanFields DEF Sides, Leads, IsOpen, State
<1>4. IsOpen(T(S))
  <2> HIDE DEF u
  <2>1. x <= S.n.collateral
    BY <1>2, <1>3
  <2> QED BY <1>3, <2>1, SoldOpen
<1> HIDE DEF T
<1> QED BY <1>2, <1>4 DEF Good, Becomes

LEMMA PrincipalLess ==
    ASSUME NEW S, IsOpen(S), NEW x \in Nat, x <= S.n.principal
    PROVE  LET T == [S EXCEPT !.n.principal = @ - x]
           IN  IsOpen(T) /\ T.v = S.v
<1> DEFINE t == S.n.principal - x
           m == [S.n EXCEPT !.principal = t]
           T == [S EXCEPT !.n = m]
<1>1. S \in State /\ S.n \in Loan
  BY DEF IsOpen, State
<1>2. t \in Nat
  BY <1>1, LoanFields
<1> HIDE DEF t
<1>3. /\ m \in Loan /\ m.status = S.n.status /\ m.principalAsset = S.n.principalAsset
      /\ m.collateralAsset = S.n.collateralAsset /\ m.lenderClaim = S.n.lenderClaim
      /\ m.borrowerClaim = S.n.borrowerClaim /\ m.surplus = S.n.surplus /\ m.holder = S.n.holder
      /\ m.held = S.n.held /\ m.collateral = S.n.collateral
  BY <1>1, <1>2 DEF Loan
<1>4. [S EXCEPT !.n.principal = @ - x] = [S EXCEPT !.n = [S.n EXCEPT !.principal = S.n.principal - x]]
  BY <1>1 DEF State, Loan
<1> HIDE DEF m
<1>5. T.v = S.v /\ T.n = m /\ T.f = S.f /\ T \in State
  BY <1>1, <1>3 DEF State
<1>6. IsOpen(T)
  BY <1>3, <1>5 DEF IsOpen, BookOf
<1> QED BY <1>4, <1>5, <1>6 DEF m, t

LEMMA RepayPartLands ==
    ASSUME Inv, NEW x \in Nat, NEW i \in Nat, RepayPartial(x, i)
    PROVE  \E S : Lands(S)
<1> DEFINE U(T) == [T EXCEPT !.n.principal = @ - x]
<1>1. IsOpen(Now) /\ Now.n = loan /\ loan.principal \in Nat
  BY NowGood, LoanFields DEF RepayPartial, IsOpen, State
<1>2. PICK S \in BothConsolidated(Now) : \E T \in FreezeOrPayLender(S, x + i, {x + i}) : Becomes(U(T))
  BY DEF RepayPartial
<1>3. PICK T \in FreezeOrPayLender(S, x + i, {x + i}) : Becomes(U(T))
  BY <1>2
<1>4. Leads(Now, S)
  BY <1>1, <1>2, BothLead
<1>5. Leads(S, T)
  <2>1. x + i \in Nat /\ {x + i} \subseteq Nat
    OBVIOUS
  <2> QED BY <1>3, <1>4, <2>1, FreezeOrPayLeads DEF Leads
<1>6. Leads(Now, T)
  BY <1>4, <1>5, LeadsTwice
<1>7. x <= T.n.principal
  BY <1>1, <1>6 DEF Leads, Frame, SameTerms, RepayPartial
<1>8. IsOpen(U(T)) /\ U(T).v = T.v
  BY <1>6, <1>7, PrincipalLess DEF Leads
<1> HIDE DEF U
<1>9. Good(U(T))
  BY <1>3, <1>8 DEF Good, Becomes
<1>10. Quiet(Now, U(T))
  <2>1. \A w \in Parties : Barred(lock, w) => \A a \in Assets : U(T).v.wallet[<<w, a>>] = Purses[<<w, a>>]
    BY <1>6, <1>8, NowGood DEF Leads, Frame
  <2>2. Moves(Now.v, U(T).v) /\ U(T) \in State
    BY <1>6, <1>8 DEF Leads, Frame, IsOpen
  <2> QED BY <2>1, <2>2, FrameQuiet
<1> QED BY <1>3, <1>9, <1>10 DEF Lands

LEMMA SettleLands ==
    ASSUME Inv, NEW y \in Nat, NEW i \in Nat, NEW e \in Nat, SettlePeriodicInterest(y, i, e)
    PROVE  \E S : Lands(S)
<1> DEFINE Sold(S) == [S EXCEPT !.v = VaultWithdrawERC20(LowerLien(@, y), Borrower(S),
                                                         S.n.collateralAsset, Outside, y),
                                !.n.collateral = @ - y]
<1>1. IsOpen(Now)
  BY NowGood DEF SettlePeriodicInterest
<1>2. PICK S \in BothConsolidated(Now) :
          /\ y <= S.n.collateral
          /\ \E T \in FreezeOrPayLender(Sold(S), i, Delivered(S.n.principalAsset, i)) :
                \E U \in PayOrHoldExtra(T, e) : Becomes(U)
  BY DEF SettlePeriodicInterest
<1>3. Leads(Now, S)
  BY <1>1, <1>2, BothLead
<1>4. Leads(S, Sold(S))
  BY <1>2, <1>3, SoldOpen DEF Leads
<1> HIDE DEF Sold
<1>5. PICK T \in FreezeOrPayLender(Sold(S), i, Delivered(S.n.principalAsset, i)) :
          \E U \in PayOrHoldExtra(T, e) : Becomes(U)
  BY <1>2
<1>6. PICK U \in PayOrHoldExtra(T, e) : Becomes(U)
  BY <1>5
<1>7. Leads(Sold(S), T)
  <2>1. S.n.principalAsset \in Assets
    BY <1>3, LoanFields DEF Leads, IsOpen, State
  <2>2. Delivered(S.n.principalAsset, i) \subseteq Nat
    BY <2>1, DeliveredSet
  <2> QED BY <1>4, <1>5, <2>2, FreezeOrPayLeads DEF Leads
<1>8. Leads(T, U)
  BY <1>6, <1>7, ExtraLeads DEF Leads
<1>9. Leads(Now, U)
  BY <1>3, <1>4, <1>7, <1>8, LeadsTwice
<1> QED BY <1>6, <1>9, OpenLands

-----------------------------------------------------------------------------
(* Calls that touch no money.                                              *)

(* The vaults and the amounts of the loan stay, its holders and the list   *)
(* need not.                                                               *)
LEMMA IdleLands ==
    ASSUME Inv, NEW S, S \in State, S.v = Now.v, Becomes(S),
           S.n = loan \/ \E side \in Sides, to \in Parties : S.n = [loan EXCEPT !.holder[side] = to]
    PROVE  Lands(S)
<1> DEFINE Same(n) ==
               /\ n \in Loan /\ n.status = loan.status /\ n.principalAsset = loan.principalAsset
               /\ n.collateralAsset = loan.collateralAsset /\ n.lenderClaim = loan.lenderClaim
               /\ n.borrowerClaim = loan.borrowerClaim /\ n.surplus = loan.surplus
               /\ n.held = loan.held /\ n.collateral = loan.collateral
               /\ loan.holder \in [Sides -> Parties] => n.holder \in [Sides -> Parties]
<1>1. Same(S.n)
  <2>1. loan \in Loan
    BY NowGood DEF State
  <2>2. ASSUME NEW side \in Sides, NEW to \in Parties, S.n = [loan EXCEPT !.holder[side] = to]
        PROVE  Same(S.n)
    <3> DEFINE h == [loan.holder EXCEPT ![side] = to]
    <3>1. /\ h \in [Sides -> Parties \cup {NoUser}]
          /\ loan.holder \in [Sides -> Parties] => h \in [Sides -> Parties]
      BY <2>1, LoanFields
    <3>2. [loan EXCEPT !.holder[side] = to] = [loan EXCEPT !.holder = h]
      OBVIOUS
    <3> DEFINE m == [loan EXCEPT !.holder = h]
    <3>3. S.n = m
      BY <2>2, <3>2
    <3> HIDE DEF h
    <3>4. m \in Loan /\ m.holder = h
      BY <2>1, <3>1 DEF Loan
    <3>5. /\ m.status = loan.status /\ m.principalAsset = loan.principalAsset
          /\ m.collateralAsset = loan.collateralAsset /\ m.lenderClaim = loan.lenderClaim
          /\ m.borrowerClaim = loan.borrowerClaim /\ m.surplus = loan.surplus
          /\ m.held = loan.held /\ m.collateral = loan.collateral
      BY <2>1 DEF Loan
    <3> HIDE DEF m
    <3> QED BY <3>1, <3>3, <3>4, <3>5
  <2> QED BY <2>1, <2>2
<1>2. IsOpen(Now) => IsOpen(S)
  BY <1>1, NowGood DEF IsOpen, BookOf
<1>3. IsClosed(Now) => IsClosed(S)
  BY <1>1, NowGood DEF IsClosed, DueOf, HeldOf, PledgeOf, ExtraOf
<1>4. Good(S)
  BY <1>2, <1>3, NowGood DEF Good
<1>5. Quiet(Now, S)
  BY NowGood, FrameQuiet DEF Moves, State
<1> QED BY <1>4, <1>5 DEF Lands

LEMMA TransferLands ==
    ASSUME Inv, NEW side \in Sides, NEW to \in Parties, TransferFrom(side, to)
    PROVE  \E S : Lands(S)
<1> DEFINE from == loan.holder[side]
           h == [loan EXCEPT !.holder[side] = to]
           S == [Now EXCEPT !.n.holder[side] = to, !.f = Moved(@, from, to)]
           G == Moved(lock, from, to)
           T == [v |-> Now.v, n |-> h, f |-> G]
<1>1. Becomes(S)
  BY DEF TransferFrom
<1>2. /\ Now \in State /\ Now.v \in Vaults /\ Now.n = loan /\ loan \in Loan
      /\ Now.f = lock /\ lock \in Locks
  BY NowGood DEF State
<1>3. G \in Locks
  BY <1>2, ScreenedLock DEF Moved, Remembers
<1>4. h \in Loan
  <2> DEFINE g == [loan.holder EXCEPT ![side] = to]
  <2>1. g \in [Sides -> Parties \cup {NoUser}]
    BY <1>2, LoanFields
  <2>2. h = [loan EXCEPT !.holder = g]
    OBVIOUS
  <2> HIDE DEF g
  <2> QED BY <1>2, <2>1, <2>2 DEF Loan
<1>5. S = T
  <2> DEFINE N == Now
             M(F) == Moved(F, from, to)
             K == [N EXCEPT !.n.holder[side] = to]
  <2>1. S = [K EXCEPT !.f = M(K.f)]
    <3> HIDE DEF N, M
    <3>1. [N EXCEPT !.n.holder[side] = to, !.f = M(@)] = [K EXCEPT !.f = M(K.f)]
      OBVIOUS
    <3> QED BY <3>1 DEF N, M
  <2>2. K = [N EXCEPT !.n = [N.n EXCEPT !.holder[side] = to]]
    <3> HIDE DEF N
    <3> QED OBVIOUS
  <2>3. [N.n EXCEPT !.holder[side] = to] = h
    BY <1>2
  <2>4. [N EXCEPT !.n = h] = [v |-> N.v, n |-> h, f |-> lock]
    <3> HIDE DEF h
    <3> QED BY <1>2 DEF State
  <2> HIDE DEF N, K, h
  <2>5. K = [v |-> N.v, n |-> h, f |-> lock]
    BY <2>2, <2>3, <2>4
  <2>6. [K EXCEPT !.f = M(K.f)] = [v |-> N.v, n |-> h, f |-> M(lock)]
    <3> HIDE DEF M
    <3> QED BY <2>5
  <2> QED BY <2>1, <2>6 DEF N
<1> HIDE DEF S, G, h
<1>6. T \in State /\ T.v = Now.v /\ T.n = h
  BY <1>2, <1>3, <1>4 DEF State
<1>7. Becomes(T)
  BY <1>1, <1>5
<1> QED BY <1>6, <1>7, IdleLands DEF h

LEMMA ListLands ==
    ASSUME Inv, NEW G \in Locks, Becomes([Now EXCEPT !.f = G])
    PROVE  \E S : Lands(S)
<1> DEFINE S == [Now EXCEPT !.f = G]
<1>1. Now \in State /\ Now.n = loan
  BY NowGood
<1>2. S \in State /\ S.v = Now.v /\ S.n = loan
  BY <1>1 DEF State
<1> HIDE DEF S
<1> QED BY <1>2, IdleLands DEF S

LEMMA ListNextLands ==
    ASSUME Inv, ListNext
    PROVE  \E S : Lands(S)
<1>1. Now.f = lock /\ lock \in Locks
  BY NowGood DEF State
<1>2. ASSUME NEW w \in Parties, RefreshSanctionsFlag(w) PROVE \E S : Lands(S)
  <2>1. Becomes([Now EXCEPT !.f = Screened(Now.f, w)])
    BY <1>2 DEF RefreshSanctionsFlag
  <2>2. Screened(Now.f, w) \in Locks
    BY <1>1, ScreenedLock DEF Remembers
  <2> QED BY <2>1, <2>2, ListLands
<1>3. ASSUME NEW w \in Parties, NEW on \in BOOLEAN, SetListed(w, on) PROVE \E S : Lands(S)
  <2> DEFINE l == IF on THEN lock.listed \cup {w} ELSE lock.listed \ {w}
             G == [lock EXCEPT !.listed = l]
  <2>1. l \in SUBSET Parties
    BY <1>1 DEF Locks
  <2>2. [Now EXCEPT !.f.listed = IF on THEN @ \cup {w} ELSE @ \ {w}] = [Now EXCEPT !.f = G]
    BY <1>1 DEF Now
  <2> HIDE DEF l
  <2>3. G \in Locks
    BY <1>1, <2>1 DEF Locks
  <2> HIDE DEF G
  <2>4. Becomes([Now EXCEPT !.f = G])
    BY <1>3, <2>2 DEF SetListed
  <2> QED BY <2>3, <2>4, ListLands
<1>4. ASSUME NEW on \in BOOLEAN, SetReachable(on) PROVE \E S : Lands(S)
  <2> DEFINE G == [lock EXCEPT !.up = on]
  <2>1. [Now EXCEPT !.f.up = on] = [Now EXCEPT !.f = G]
    BY <1>1 DEF Now
  <2>2. G \in Locks
    BY <1>1 DEF Locks
  <2> HIDE DEF G
  <2>3. Becomes([Now EXCEPT !.f = G])
    BY <1>4, <2>1 DEF SetReachable
  <2> QED BY <2>2, <2>3, ListLands
<1>5. Listable \subseteq Parties
  BY LoanPositionsAssumption
<1> QED BY <1>2, <1>3, <1>4, <1>5 DEF ListNext

-----------------------------------------------------------------------------
(* What one has in the own vault.                                          *)

(* An open loan owes nothing but what is held.                             *)
LEMMA BookIsAccounts ==
    ASSUME NEW V, V \in Vaults, NEW pa, NEW ca, NEW c \in Nat, NEW h \in Nat, NEW s \in Nat
    PROVE  Book(V, pa, ca, c, h, s) <=> Accounts(V, pa, ca, c, h, s, 0, 0, TRUE)
<1> DEFINE p == V.ledger.lender[1]
           q == V.ledger.borrower[1]
           Kept(k) == At(k, q, ca, c) + At(k, p, pa, h) + At(k, q, pa, s)
<1>1. ASSUME NEW k \in Keys PROVE Kept(k) \in Int /\ V.depository[k] \in Int /\ At(k, p, pa, 0) = 0
  <2>1. At(k, q, ca, c) \in Int /\ At(k, p, pa, h) \in Int /\ At(k, q, pa, s) \in Int
    BY AtInt
  <2>2. V.depository[k] \in Int
    BY DEF Vaults
  <2> QED BY <2>1, <2>2 DEF At
<1>2. \A k \in Keys : Kept(k) + At(k, p, pa, 0) = Kept(k)
                      /\ V.depository[k] + Kept(k) + At(k, p, pa, 0) = V.depository[k] + Kept(k)
  <2> SUFFICES ASSUME NEW k \in Keys
               PROVE  Kept(k) + At(k, p, pa, 0) = Kept(k)
                      /\ V.depository[k] + Kept(k) + At(k, p, pa, 0) = V.depository[k] + Kept(k)
    OBVIOUS
  <2> DEFINE z == Kept(k)
  <2>1. z \in Int /\ V.depository[k] \in Int /\ At(k, p, pa, 0) = 0
    BY <1>1
  <2> HIDE DEF z
  <2>2. z + At(k, p, pa, 0) = z /\ V.depository[k] + z + At(k, p, pa, 0) = V.depository[k] + z
    BY <2>1
  <2> QED BY <2>2 DEF z
<1> HIDE DEF Kept
<1> DEFINE rows == /\ p \in Parties /\ q \in Parties
                   /\ V.ledger.loanCollateralLien[1] = [user |-> q, asset |-> ca, amount |-> c, live |-> TRUE]
                   /\ V.ledger.reserved["lenderProceeds"][1].amount = 0
                   /\ Row(V.ledger.reserved["heldForLender"][1], pa, h)
                   /\ Row(V.ledger.reserved["borrowerProceeds"][1], pa, s)
<1>3. Book(V, pa, ca, c, h, s) <=> /\ rows
                                   /\ \A k \in Keys : V.ledger.encumbered[k] = Kept(k)
                                   /\ \A k \in Keys : V.tracked[k] = V.depository[k] + Kept(k)
  BY DEF Book, Kept
<1>4. Accounts(V, pa, ca, c, h, s, 0, 0, TRUE) <=>
          /\ rows
          /\ \A k \in Keys : V.ledger.encumbered[k] = Kept(k) + At(k, p, pa, 0)
          /\ \A k \in Keys : V.tracked[k] = V.depository[k] + Kept(k) + At(k, p, pa, 0)
  <2>1. V.ledger.loanCollateralLien[1] = [user |-> q, asset |-> ca, amount |-> c, live |-> TRUE]
            => V.ledger.loanCollateralLien[1].live = TRUE
    OBVIOUS
  <2>2. Row(V.ledger.reserved["lenderProceeds"][1], pa, 0) <=> V.ledger.reserved["lenderProceeds"][1].amount = 0
    BY DEF Row
  <2> QED BY <2>1, <2>2 DEF Accounts, Kept
<1> HIDE DEF rows
<1> QED BY <1>2, <1>3, <1>4

LEMMA DropDepository ==
    ASSUME NEW V \in Vaults, NEW u, NEW a, NEW x \in Nat
    PROVE  LET W == [V EXCEPT !.depository[<<u, a>>] = Excess(@, x)]
           IN  /\ W \in Vaults /\ W.ledger = V.ledger /\ W.tracked = V.tracked /\ W.wallet = V.wallet
               /\ (<<u, a>> \in Keys => x <= V.depository[<<u, a>>]) =>
                      \A k \in Keys : W.depository[k] = V.depository[k] - At(k, u, a, x)
<1> DEFINE f == [V.depository EXCEPT ![<<u, a>>] = Excess(@, x)]
           W == [V EXCEPT !.depository[<<u, a>>] = Excess(@, x)]
<1>1. V.depository \in [Keys -> Nat]
  BY DEF Vaults
<1>2. f \in [Keys -> Nat]
  <2>1. \A n \in Nat : Excess(n, x) \in Nat
    BY DEF Excess
  <2> DEFINE z == <<u, a>>
             y == Excess(V.depository[z], x)
  <2>2. z \in Keys => y \in Nat
    BY <1>1, <2>1
  <2>3. f = [V.depository EXCEPT ![z] = y]
    OBVIOUS
  <2> HIDE DEF y, z, f
  <2> QED BY <1>1, <2>2, <2>3
<1>3. ASSUME <<u, a>> \in Keys => x <= V.depository[<<u, a>>], NEW k \in Keys
      PROVE  f[k] = V.depository[k] - At(k, u, a, x)
  <2>1. CASE k = <<u, a>>
    BY <1>1, <1>3, <2>1 DEF Excess, At
  <2>2. CASE k # <<u, a>>
    BY <1>1, <2>2 DEF At
  <2> QED BY <2>1, <2>2
<1>4. W = [V EXCEPT !.depository = f]
  OBVIOUS
<1> HIDE DEF f
<1>5. [V EXCEPT !.depository = f] \in Vaults /\ [V EXCEPT !.depository = f].depository = f
  BY <1>2 DEF Vaults
<1>6. /\ [V EXCEPT !.depository = f].ledger = V.ledger /\ [V EXCEPT !.depository = f].tracked = V.tracked
      /\ [V EXCEPT !.depository = f].wallet = V.wallet
  BY DEF Vaults
<1> QED BY <1>3, <1>4, <1>5, <1>6

(* From V to W, u takes x of the own deposits.                             *)
TakesOwn(V, W, u, a, x) ==
    /\ W \in Vaults /\ KeepsLedger(V, W)
    /\ \A k \in Keys : /\ W.tracked[k] = V.tracked[k] - At(k, u, a, x)
                       /\ W.depository[k] = V.depository[k] - At(k, u, a, x)
                       /\ W.wallet[k] = V.wallet[k] + At(k, u, a, x)

LEMMA OwnAccounts ==
    ASSUME NEW V \in Vaults, NEW W, NEW u, NEW a, NEW x \in Nat, TakesOwn(V, W, u, a, x),
           NEW pa, NEW ca, NEW c \in Nat, NEW h \in Nat, NEW s \in Nat, NEW d \in Nat, NEW e \in Nat,
           NEW live, Accounts(V, pa, ca, c, h, s, d, e, live)
    PROVE  Accounts(W, pa, ca, c, h, s, d, e, live)
<1> DEFINE p == V.ledger.lender[1]
           q == V.ledger.borrower[1]
           Kept(k) == At(k, q, ca, c) + At(k, p, pa, h) + At(k, q, pa, s)
<1>1. W.ledger.lender[1] = p /\ W.ledger.borrower[1] = q
  BY DEF TakesOwn, KeepsLedger, SameRows, SameParties
<1>2. /\ W.ledger.loanCollateralLien = V.ledger.loanCollateralLien /\ W.ledger.reserved = V.ledger.reserved
      /\ W.ledger.encumbered = V.ledger.encumbered
  BY DEF TakesOwn, KeepsLedger, SameRows
<1>3. ASSUME NEW k \in Keys
      PROVE  W.tracked[k] = W.depository[k] + Kept(k) + At(k, p, pa, d)
  <2>1. V.tracked[k] = V.depository[k] + Kept(k) + At(k, p, pa, d)
    BY DEF Accounts
  <2>2. W.tracked[k] = V.tracked[k] - At(k, u, a, x) /\ W.depository[k] = V.depository[k] - At(k, u, a, x)
    BY DEF TakesOwn
  <2>3. Kept(k) \in Int /\ At(k, p, pa, d) \in Int /\ At(k, u, a, x) \in Int /\ V.depository[k] \in Int
    <3>1. At(k, q, ca, c) \in Int /\ At(k, p, pa, h) \in Int /\ At(k, q, pa, s) \in Int
      BY AtInt
    <3>2. At(k, p, pa, d) \in Int /\ At(k, u, a, x) \in Int /\ V.depository[k] \in Int
      BY AtInt DEF Vaults
    <3> QED BY <3>1, <3>2
  <2> HIDE DEF Kept
  <2> QED BY <2>1, <2>2, <2>3
<1> QED BY <1>1, <1>2, <1>3 DEF Accounts

LEMMA Amounts ==
    ASSUME NEW n \in Loan
    PROVE  /\ PledgeOf(n) \in Nat /\ HeldOf(n) \in Nat /\ ExtraOf(n) \in Nat /\ DueOf(n) \in Nat
           /\ n.lenderClaim = NoClaim /\ n.borrowerClaim = NoClaim =>
                 /\ PledgeOf(n) = n.collateral /\ HeldOf(n) = n.held
                 /\ ExtraOf(n) = n.surplus.amount /\ DueOf(n) = 0
<1>1. /\ n.collateral \in Nat /\ n.held \in Nat /\ n.surplus.amount \in Nat /\ n.lenderClaim.amount \in Nat
      /\ n.lenderClaim.claimed \in BOOLEAN /\ n.borrowerClaim.claimed \in BOOLEAN
  BY DEF Loan, Claim
<1> QED BY <1>1 DEF PledgeOf, HeldOf, ExtraOf, DueOf, Unclaimed, NoClaim

(* The accounts of a loan in any status.                                   *)
AccountsOf(V, n) ==
    Accounts(V, n.principalAsset, n.collateralAsset, PledgeOf(n), HeldOf(n), ExtraOf(n),
             DueOf(n), IF n.principalAsset = Vpfi THEN DueOf(n) ELSE 0, ~ n.borrowerClaim.claimed)

LEMMA OpenAccounts ==
    ASSUME NEW V \in Vaults, NEW n \in Loan, n.lenderClaim = NoClaim, n.borrowerClaim = NoClaim
    PROVE  AccountsOf(V, n) <=>
           Book(V, n.principalAsset, n.collateralAsset, n.collateral, n.held, n.surplus.amount)
<1>1. /\ PledgeOf(n) = n.collateral /\ HeldOf(n) = n.held
      /\ ExtraOf(n) = n.surplus.amount /\ DueOf(n) = 0
  BY Amounts
<1>2. (~ n.borrowerClaim.claimed) = TRUE
  BY DEF NoClaim
<1>3. (IF n.principalAsset = Vpfi THEN DueOf(n) ELSE 0) = 0
  BY <1>1
<1>4. AccountsOf(V, n) <=>
          Accounts(V, n.principalAsset, n.collateralAsset, n.collateral, n.held, n.surplus.amount, 0, 0, TRUE)
  BY <1>1, <1>2, <1>3 DEF AccountsOf
<1>5. n.collateral \in Nat /\ n.held \in Nat /\ n.surplus.amount \in Nat
  BY LoanFields
<1> QED BY <1>4, <1>5, BookIsAccounts

LEMMA NowAccounts ==
    ASSUME Inv
    PROVE  AccountsOf(Now.v, loan) /\ Now.v \in Vaults /\ loan \in Loan
<1>1. Now.v \in Vaults /\ loan \in Loan /\ Now.n = loan /\ Ok(Now.v)
  BY NowGood DEF State
<1>2. CASE IsOpen(Now)
  BY <1>1, <1>2, OpenAccounts DEF IsOpen, BookOf
<1>3. CASE IsClosed(Now)
  BY <1>1, <1>3 DEF IsClosed, AccountsOf
<1> QED BY <1>1, <1>2, <1>3, NowGood

LEMMA OwnLands ==
    ASSUME Inv, NEW W, NEW u, NEW a, NEW x \in Nat, Ok(W) => TakesOwn(Now.v, W, u, a, x),
           Becomes([Now EXCEPT !.v = W])
    PROVE  \E S : Lands(S)
<1> DEFINE S == [Now EXCEPT !.v = W]
           V == Now.v
<1>1. /\ Now \in State /\ V \in Vaults /\ Now.n = loan /\ Now.f = lock /\ loan \in Loan
      /\ V.wallet = Purses /\ lock \in Locks
  BY NowGood DEF State
<1>2. S = [v |-> W, n |-> loan, f |-> lock]
  BY <1>1 DEF State
<1>3. Ok(W) /\ TakesOwn(V, W, u, a, x)
  BY <1>2 DEF Becomes
<1>4. S \in State /\ S.v = W /\ S.n = loan /\ S.f = lock
  BY <1>1, <1>2, <1>3 DEF State, TakesOwn
<1> HIDE DEF S, V
<1>5. AccountsOf(W, loan)
  <2>1. AccountsOf(V, loan)
    BY NowAccounts DEF V
  <2>2. PledgeOf(loan) \in Nat /\ HeldOf(loan) \in Nat /\ ExtraOf(loan) \in Nat /\ DueOf(loan) \in Nat
    BY <1>1, Amounts
  <2> DEFINE e == IF loan.principalAsset = Vpfi THEN DueOf(loan) ELSE 0
             live == ~ loan.borrowerClaim.claimed
  <2>3. e \in Nat
    BY <2>2
  <2>4. Accounts(V, loan.principalAsset, loan.collateralAsset, PledgeOf(loan), HeldOf(loan), ExtraOf(loan),
                 DueOf(loan), e, live)
    BY <2>1 DEF AccountsOf
  <2> HIDE DEF e, live
  <2>5. Accounts(W, loan.principalAsset, loan.collateralAsset, PledgeOf(loan), HeldOf(loan), ExtraOf(loan),
                 DueOf(loan), e, live)
    BY <1>1, <1>3, <2>2, <2>3, <2>4, OwnAccounts
  <2> QED BY <2>5 DEF AccountsOf, e, live
<1>6. IsOpen(Now) => IsOpen(S)
  <2> SUFFICES ASSUME IsOpen(Now) PROVE IsOpen(S)
    OBVIOUS
  <2>1. loan.lenderClaim = NoClaim /\ loan.borrowerClaim = NoClaim
    BY <1>1 DEF IsOpen
  <2>2. BookOf(S)
    BY <1>1, <1>3, <1>4, <1>5, <2>1, OpenAccounts DEF BookOf, TakesOwn
  <2> QED BY <1>1, <1>4, <2>2 DEF IsOpen
<1>7. IsClosed(Now) => IsClosed(S)
  BY <1>1, <1>4, <1>5 DEF IsClosed, AccountsOf
<1>8. Good(S)
  BY <1>3, <1>4, <1>6, <1>7, NowGood DEF Good
<1>9. ASSUME NEW w \in Parties, NEW b \in Assets
      PROVE  S.v.wallet[<<w, b>>] + S.v.depository[<<w, b>>] <= Now.v.depository[<<w, b>>]
  <2> DEFINE k == <<w, b>>
  <2>1. k \in Keys /\ Purses[k] = 0
    BY PursesTyped
  <2>2. V.depository[k] \in Int /\ At(k, u, a, x) \in Int
    BY <1>1, <2>1, AtInt DEF Vaults
  <2>3. W.wallet[k] = 0 + At(k, u, a, x) /\ W.depository[k] = V.depository[k] - At(k, u, a, x)
    BY <1>1, <1>3, <2>1 DEF TakesOwn
  <2> HIDE DEF k
  <2>4. W.wallet[k] + W.depository[k] <= V.depository[k]
    BY <2>2, <2>3
  <2> QED BY <1>4, <2>4 DEF k, V
<1>10. Lands(S)
  BY <1>8, <1>9 DEF Lands, Quiet, S
<1> QED BY <1>10

LEMMA WithdrawLands ==
    ASSUME Inv, NEW u \in Parties, NEW a \in Assets, NEW x \in Nat, Withdraw(u, a, x)
    PROVE  \E S : Lands(S)
<1> DEFINE V == Now.v
           g == x <= WithdrawableNow(V, u, a)
           V1 == Guarded(V, g)
           D == [V1 EXCEPT !.depository[<<u, a>>] = Excess(@, x)]
           b == x <= V1.depository[<<u, a>>]
           V2 == Guarded(D, b)
           W == VaultWithdrawERC20(V2, u, a, u, x)
<1>0. V \in Vaults /\ x \in Int /\ g \in BOOLEAN /\ b \in BOOLEAN
  BY NowGood DEF State
<1>1. Becomes([Now EXCEPT !.v = W])
  <2>1. WithdrawFromVault(V, u, a, u, x) = W
    BY DEF WithdrawFromVault, Debit
  <2>2. [Now EXCEPT !.v = WithdrawFromVault(@, u, a, u, x)] = [Now EXCEPT !.v = WithdrawFromVault(V, u, a, u, x)]
    OBVIOUS
  <2> HIDE DEF W
  <2> QED BY <2>1, <2>2 DEF Withdraw
<1> HIDE DEF V, g
<1>2. Moves(V, V1) /\ KeepsLedger(V, V1) /\ V1.tracked = V.tracked /\ V1.wallet = V.wallet
  BY <1>0, GuardedEffect
<1> HIDE DEF V1
<1>3. /\ D \in Vaults /\ D.ledger = V1.ledger /\ D.tracked = V1.tracked /\ D.wallet = V1.wallet
      /\ b => \A k \in Keys : D.depository[k] = V1.depository[k] - At(k, u, a, x)
  BY <1>2, DropDepository DEF Moves
<1> HIDE DEF D, b
<1>4. /\ Moves(D, V2) /\ KeepsLedger(D, V2) /\ (Ok(V2) => b) /\ V2.tracked = D.tracked /\ V2.wallet = D.wallet
  BY <1>0, <1>3, GuardedEffect
<1> HIDE DEF V2
<1>5. /\ Moves(V2, W) /\ KeepsLedger(V2, W)
      /\ \A k \in Keys : W.tracked[k] = V2.tracked[k] - At(k, u, a, x)
      /\ \A k \in Keys : W.wallet[k] = V2.wallet[k] + At(k, u, a, x)
  BY <1>0, <1>4, WithdrawEffect DEF Moves
<1> HIDE DEF W
<1>6. ASSUME Ok(W) PROVE TakesOwn(V, W, u, a, x)
  <2>1. b
    BY <1>4, <1>5, <1>6 DEF Moves
  <2>2. W \in Vaults /\ KeepsLedger(V, W)
    BY <1>2, <1>3, <1>4, <1>5 DEF Moves, KeepsLedger, SameRows, SameParties
  <2> QED BY <1>2, <1>3, <1>4, <1>5, <2>1, <2>2 DEF Moves, TakesOwn
<1> QED BY <1>1, <1>6, OwnLands DEF V

(* All the VPFI of a vault that is free was deposited by its owner.        *)
LEMMA FreeIsDeposited ==
    ASSUME Inv, NEW u, <<u, Vpfi>> \in Keys
    PROVE  Free(Now.v, u, Vpfi) = Now.v.depository[<<u, Vpfi>>]
<1> DEFINE V == Now.v
           k == <<u, Vpfi>>
           p == V.ledger.lender[1]
           q == V.ledger.borrower[1]
           pa == loan.principalAsset
           ca == loan.collateralAsset
           d == DueOf(loan)
           e == IF pa = Vpfi THEN d ELSE 0
           z == At(k, q, ca, PledgeOf(loan)) + At(k, p, pa, HeldOf(loan)) + At(k, q, pa, ExtraOf(loan))
<1>1. V \in Vaults /\ loan \in Loan /\ AccountsOf(V, loan)
  BY NowAccounts
<1>2. PledgeOf(loan) \in Int /\ HeldOf(loan) \in Int /\ ExtraOf(loan) \in Int /\ d \in Int /\ d \in Nat
  BY <1>1, Amounts
<1>3. V.depository[k] \in Nat /\ V.depository[k] \in Int
  BY <1>1 DEF Vaults
<1> HIDE DEF V
<1>4. V.ledger.encumbered[k] = z + At(k, p, pa, e) /\ V.tracked[k] = V.depository[k] + z + At(k, p, pa, d)
  BY <1>1 DEF AccountsOf, Accounts
<1>5. At(k, p, pa, e) = At(k, p, pa, d)
  BY DEF At
<1>6. z \in Int /\ At(k, p, pa, d) \in Int
  <2> HIDE DEF k, p, q, pa, ca, d
  <2>1. /\ At(k, q, ca, PledgeOf(loan)) \in Int /\ At(k, p, pa, HeldOf(loan)) \in Int
        /\ At(k, q, pa, ExtraOf(loan)) \in Int /\ At(k, p, pa, d) \in Int
    BY <1>2, AtInt
  <2> QED BY <2>1
<1>7. Free(V, u, Vpfi) = Excess(V.tracked[k], V.ledger.encumbered[k])
  BY DEF Free, FreeBalance
<1> HIDE DEF k, z, p, pa, d, e
<1>8. Excess(V.tracked[k], V.ledger.encumbered[k]) = V.depository[k]
  BY <1>3, <1>4, <1>5, <1>6 DEF Excess
<1> QED BY <1>7, <1>8 DEF V, k

LEMMA WithdrawVPFILands ==
    ASSUME Inv, NEW u \in Parties, NEW x \in Nat, WithdrawVPFI(u, x)
    PROVE  \E S : Lands(S)
<1> DEFINE V == Now.v
           V1 == VaultWithdrawERC20(V, u, Vpfi, u, x)
           W == [V1 EXCEPT !.depository[<<u, Vpfi>>] = Excess(@, x)]
<1>0. V \in Vaults /\ x \in Int
  BY NowGood DEF State
<1>1. Becomes([Now EXCEPT !.v = W])
  <2>1. Spend(V1, u, Vpfi, x) = W
    BY DEF Spend
  <2>2. [Now EXCEPT !.v = Spend(VaultWithdrawERC20(@, u, Vpfi, u, x), u, Vpfi, x)]
            = [Now EXCEPT !.v = Spend(V1, u, Vpfi, x)]
    OBVIOUS
  <2> HIDE DEF W
  <2> QED BY <2>1, <2>2 DEF WithdrawVPFI
<1>2. <<u, Vpfi>> \in Keys => Free(V, u, Vpfi) = V.depository[<<u, Vpfi>>]
  BY FreeIsDeposited
<1> HIDE DEF V
<1>3. /\ Moves(V, V1) /\ KeepsLedger(V, V1) /\ (Ok(V1) => x <= Free(V, u, Vpfi))
      /\ \A k \in Keys : V1.tracked[k] = V.tracked[k] - At(k, u, Vpfi, x)
      /\ \A k \in Keys : V1.wallet[k] = V.wallet[k] + At(k, u, Vpfi, x)
  BY <1>0, WithdrawEffect
<1> HIDE DEF V1
<1>4. /\ W \in Vaults /\ W.ledger = V1.ledger /\ W.tracked = V1.tracked /\ W.wallet = V1.wallet
      /\ (<<u, Vpfi>> \in Keys => x <= V1.depository[<<u, Vpfi>>]) =>
             \A k \in Keys : W.depository[k] = V1.depository[k] - At(k, u, Vpfi, x)
  BY <1>3, DropDepository DEF Moves
<1> HIDE DEF W
<1>5. ASSUME Ok(W) PROVE TakesOwn(V, W, u, Vpfi, x)
  <2>1. <<u, Vpfi>> \in Keys => x <= V1.depository[<<u, Vpfi>>]
    BY <1>2, <1>3, <1>4, <1>5 DEF Ok, Moves
  <2>2. W \in Vaults /\ KeepsLedger(V, W)
    BY <1>3, <1>4 DEF KeepsLedger, SameRows, SameParties
  <2> QED BY <1>3, <1>4, <2>1, <2>2 DEF Moves, TakesOwn
<1> QED BY <1>1, <1>5, OwnLands DEF V

-----------------------------------------------------------------------------
(* Repayment and the claims.                                               *)

LEMMA DueBook ==
    ASSUME NEW V \in Vaults, NEW pa \in Assets, NEW ca,
           NEW c \in Nat, NEW h \in Nat, NEW s \in Nat, NEW x \in Nat,
           Ok(V) => Book(V, pa, ca, c, h, s)
    PROVE  LET p == V.ledger.lender[1]
               D == VaultDepositERC20From(V, Outside, p, pa, x)
               W == IF pa = Vpfi THEN Reserve(D, "lenderProceeds", p, pa, x) ELSE D
           IN  /\ Through(V, W)
               /\ Ok(W) => Accounts(W, pa, ca, c, h, s, x, IF pa = Vpfi THEN x ELSE 0, TRUE)
<1> DEFINE p == V.ledger.lender[1]
           q == V.ledger.borrower[1]
           D == VaultDepositERC20From(V, Outside, p, pa, x)
           g == TRUE
           U == Reserve(Guarded(D, g), "lenderProceeds", p, pa, x)
           W == IF pa = Vpfi THEN Reserve(D, "lenderProceeds", p, pa, x) ELSE D
           r == V.ledger.reserved["lenderProceeds"][1]
           e == IF pa = Vpfi THEN x ELSE 0
           Kept(k) == At(k, q, ca, c) + At(k, p, pa, h) + At(k, q, pa, s)
<1>0. x \in Int /\ e \in Int /\ g \in BOOLEAN /\ r.amount \in Nat
  <2>1. V.ledger \in Ledger
    BY DEF Vaults
  <2>2. r.amount \in Nat
    BY <2>1, RowsAreNat, Basics
  <2> QED BY <2>2
<1>1. /\ Through(V, D) /\ KeepsLedger(V, D)
      /\ \A k \in Keys : D.tracked[k] = V.tracked[k] + At(k, p, pa, x)
  BY <1>0, DepositThrough
<1>2. D = Guarded(D, g)
  BY <1>1, GuardedTrue DEF Through, Moves
<1>3. W = IF pa = Vpfi THEN U ELSE D
  BY <1>2
<1> HIDE DEF g, p, W
<1>4. /\ Through(V, U) /\ Comes(V.ledger, U.ledger)
      /\ U.ledger.loanCollateralLien = V.ledger.loanCollateralLien
      /\ r.amount = 0 \/ r.asset = pa => Row(U.ledger.reserved["lenderProceeds"][1], pa, r.amount + x)
      /\ \A d \in Lanes : d # "lenderProceeds" => U.ledger.reserved[d][1] = V.ledger.reserved[d][1]
  BY <1>0, Basics, ReserveThrough
<1>5. \A k \in Keys : /\ U.ledger.encumbered[k] = V.ledger.encumbered[k] + At(k, p, pa, x)
                      /\ U.tracked[k] = V.tracked[k] + At(k, p, pa, x)
  BY <1>0, Basics, ReserveSums
<1> HIDE DEF U, D
<1>6. Through(V, W)
  BY <1>1, <1>3, <1>4
<1>7. ASSUME Ok(W) PROVE Accounts(W, pa, ca, c, h, s, x, e, TRUE)
  <2>1. Book(V, pa, ca, c, h, s)
    BY <1>6, <1>7 DEF Through, Moves
  <2>2. /\ p \in Parties /\ q \in Parties
        /\ V.ledger.loanCollateralLien[1] = [user |-> q, asset |-> ca, amount |-> c, live |-> TRUE]
        /\ r.amount = 0
        /\ Row(V.ledger.reserved["heldForLender"][1], pa, h)
        /\ Row(V.ledger.reserved["borrowerProceeds"][1], pa, s)
        /\ \A k \in Keys : V.ledger.encumbered[k] = Kept(k) /\ V.tracked[k] = V.depository[k] + Kept(k)
    BY <2>1 DEF Book, p
  <2>3. /\ W.ledger.lender[1] = p /\ W.ledger.borrower[1] = q
        /\ W.ledger.loanCollateralLien = V.ledger.loanCollateralLien
        /\ W.ledger.reserved["heldForLender"][1] = V.ledger.reserved["heldForLender"][1]
        /\ W.ledger.reserved["borrowerProceeds"][1] = V.ledger.reserved["borrowerProceeds"][1]
    <3>1. "lenderProceeds" # "heldForLender" /\ "lenderProceeds" # "borrowerProceeds"
      OBVIOUS
    <3>2. CASE pa = Vpfi
      BY <1>3, <1>4, <3>1, <3>2, Basics DEF Comes, SameParties, p
    <3>3. CASE pa # Vpfi
      BY <1>1, <1>3, <3>3 DEF KeepsLedger, SameRows, SameParties, p
    <3> QED BY <3>2, <3>3
  <2>4. Row(W.ledger.reserved["lenderProceeds"][1], pa, e)
    <3>1. CASE pa = Vpfi
      <4>1. Row(U.ledger.reserved["lenderProceeds"][1], pa, r.amount + x) /\ r.amount + x = x
        BY <1>0, <1>4, <2>2
      <4> QED BY <1>3, <3>1, <4>1
    <3>2. CASE pa # Vpfi
      <4>1. W.ledger.reserved = V.ledger.reserved
        BY <1>1, <1>3, <3>2 DEF KeepsLedger, SameRows
      <4> QED BY <2>2, <3>2, <4>1 DEF Row
    <3> QED BY <3>1, <3>2
  <2>5. ASSUME NEW k \in Keys
        PROVE  /\ W.ledger.encumbered[k] = Kept(k) + At(k, p, pa, e)
               /\ W.tracked[k] = W.depository[k] + Kept(k) + At(k, p, pa, x)
    <3>1. /\ V.ledger.encumbered[k] = Kept(k) /\ V.tracked[k] = V.depository[k] + Kept(k)
      BY <2>2
    <3>2. Kept(k) \in Int
      <4> HIDE DEF q
      <4>1. At(k, q, ca, c) \in Int /\ At(k, p, pa, h) \in Int /\ At(k, q, pa, s) \in Int
        BY AtInt
      <4> QED BY <4>1
    <3>3. At(k, p, pa, x) \in Int /\ At(k, p, pa, e) \in Int
      BY <1>0, AtInt
    <3>4. W.depository[k] = V.depository[k] /\ V.depository[k] \in Int
      BY <1>6 DEF Through, Moves, Vaults
    <3>5. W.tracked[k] = V.tracked[k] + At(k, p, pa, x)
      BY <1>1, <1>3, <1>5
    <3>6. W.ledger.encumbered[k] = V.ledger.encumbered[k] + At(k, p, pa, e)
      <4>1. CASE pa = Vpfi
        BY <1>3, <1>5, <4>1
      <4>2. CASE pa # Vpfi
        <5>1. W.ledger.encumbered = V.ledger.encumbered /\ At(k, p, pa, e) = 0
          BY <1>1, <1>3, <4>2 DEF KeepsLedger, At
        <5> QED BY <3>1, <3>2, <5>1
      <4> QED BY <4>1, <4>2
    <3> HIDE DEF Kept, e
    <3> QED BY <3>1, <3>2, <3>3, <3>4, <3>5, <3>6
  <2>6. W.ledger.loanCollateralLien[1].live = TRUE
    BY <2>2, <2>3
  <2> HIDE DEF e, q, r
  <2> QED BY <2>2, <2>3, <2>4, <2>5, <2>6 DEF Accounts
<1> QED BY <1>6, <1>7 DEF W, D, p

LEMMA RepayLands ==
    ASSUME Inv, NEW i \in Nat, RepayLoan(i)
    PROVE  \E S : Lands(S)
<1> DEFINE Due(S) == S.n.principal + i
           D(S) == VaultDepositERC20From(S.v, Outside, Lender(S), S.n.principalAsset, Due(S))
           W(S) == IF S.n.principalAsset = Vpfi
                   THEN Reserve(D(S), "lenderProceeds", Lender(S), S.n.principalAsset, Due(S)) ELSE D(S)
           m(S) == [S.n EXCEPT !.lenderClaim = Pays(Due(S)), !.borrowerClaim = Pays(S.n.collateral),
                               !.status = "Repaid"]
           G(S) == RecordBoth(S.f, S.n.holder)
           T(S) == [v |-> W(S), n |-> m(S), f |-> G(S)]
<1>1. IsOpen(Now)
  BY NowGood DEF RepayLoan
<1>2. PICK S \in BothConsolidated(Now) : Becomes(T(S))
  BY DEF RepayLoan
<1>3. Leads(Now, S) /\ IsOpen(S) /\ S.v \in Vaults /\ S.n \in Loan /\ S.f \in Locks /\ (Ok(S.v) => BookOf(S))
  BY <1>1, <1>2, BothLead DEF Leads, IsOpen, State
<1> DEFINE a == S.n.principalAsset
           due == S.n.principal + i
           n == m(S)
<1>4. /\ a \in Assets /\ S.n.collateral \in Nat /\ S.n.held \in Nat /\ S.n.surplus.amount \in Nat
      /\ due \in Nat
  BY <1>3, LoanFields
<1>5. /\ Through(S.v, W(S))
      /\ Ok(W(S)) => Accounts(W(S), a, S.n.collateralAsset, S.n.collateral, S.n.held, S.n.surplus.amount,
                              due, IF a = Vpfi THEN due ELSE 0, TRUE)
  BY <1>3, <1>4, DueBook DEF BookOf, Lender
<1>6. Remembers(S.f, G(S))
  BY <1>3, RecordBothLock
<1>7. /\ n \in Loan /\ n.status = "Repaid" /\ n.principalAsset = a /\ n.collateralAsset = S.n.collateralAsset
      /\ n.lenderClaim = Pays(due) /\ n.borrowerClaim = Pays(S.n.collateral)
      /\ n.collateral = S.n.collateral /\ n.held = S.n.held /\ n.surplus = S.n.surplus
  <2>1. Pays(due) \in Claim /\ Pays(S.n.collateral) \in Claim
    BY <1>4 DEF Pays, Claim
  <2> HIDE DEF due
  <2>2. n = [S.n EXCEPT !.lenderClaim = Pays(due), !.borrowerClaim = Pays(S.n.collateral), !.status = "Repaid"]
    BY DEF due
  <2> QED BY <1>3, <2>1, <2>2 DEF Loan
<1> HIDE DEF due, n, W, G
<1>8. T(S).v = W(S) /\ T(S).n = n /\ T(S).f = G(S) /\ Ok(W(S))
  BY <1>2 DEF n, Becomes
<1>9. T(S) \in State
  BY <1>5, <1>6, <1>7, <1>8 DEF State, Through, Moves, Remembers, n
<1>10. ~ S.n.surplus.claimed
  BY <1>3 DEF IsOpen
<1>11. /\ PledgeOf(n) = n.collateral /\ HeldOf(n) = n.held /\ ExtraOf(n) = n.surplus.amount /\ DueOf(n) = due
       /\ (~ n.borrowerClaim.claimed) = TRUE /\ n.lenderClaim.written
       /\ n.borrowerClaim.amount = n.collateral
  BY <1>7 DEF PledgeOf, HeldOf, ExtraOf, DueOf, Unclaimed, Pays
<1> HIDE DEF T
<1>12. IsClosed(T(S))
  BY <1>5, <1>7, <1>8, <1>9, <1>10, <1>11 DEF IsClosed
<1>13. Good(T(S))
  BY <1>8, <1>12 DEF Good
<1>14. Quiet(Now, T(S))
  <2>1. Moves(Now.v, T(S).v)
    BY <1>3, <1>5, <1>8 DEF Leads, Frame, Through, Moves
  <2>2. ASSUME NEW w \in Parties, Barred(lock, w), NEW b \in Assets
        PROVE  T(S).v.wallet[<<w, b>>] = Purses[<<w, b>>]
    <3>1. S.v.wallet[<<w, b>>] = Purses[<<w, b>>]
      BY <1>3, <2>2, NowGood DEF Leads, Frame
    <3>2. <<w, b>> \in Keys /\ <<w, b>>[1] \in Parties
      BY PursesTyped
    <3> QED BY <1>5, <1>8, <3>1, <3>2 DEF Through, WalletsKept
  <2> QED BY <1>9, <2>1, <2>2, FrameQuiet
<1> QED BY <1>2, <1>13, <1>14 DEF Lands

LEMMA PayOutEffect ==
    ASSUME NEW V \in Vaults, NEW p, NEW u, NEW a, NEW x \in Nat
    PROVE  LET W == PayOut(V, p, u, a, x)
           IN  /\ Moves(V, W) /\ KeepsLedger(V, W)
               /\ \A k \in Keys : W.tracked[k] = V.tracked[k] - At(k, p, a, x)
               /\ \A k \in Keys : k[1] # u => W.wallet[k] = V.wallet[k]
<1>1. CASE x > 0
  <2> DEFINE W == VaultWithdrawERC20(V, p, a, u, x)
  <2>1. /\ Moves(V, W) /\ KeepsLedger(V, W)
        /\ \A k \in Keys : W.tracked[k] = V.tracked[k] - At(k, p, a, x)
        /\ \A k \in Keys : W.wallet[k] = V.wallet[k] + At(k, u, a, x)
    BY WithdrawEffect
  <2> HIDE DEF W
  <2>2. ASSUME NEW k \in Keys, k[1] # u PROVE W.wallet[k] = V.wallet[k]
    <3>1. At(k, u, a, x) = 0 /\ V.wallet[k] \in Int
      BY <2>2 DEF At, Vaults
    <3> QED BY <2>1, <3>1
  <2>3. PayOut(V, p, u, a, x) = W
    BY <1>1 DEF PayOut, W
  <2> QED BY <2>1, <2>2, <2>3
<1>2. CASE x = 0
  <2>1. PayOut(V, p, u, a, x) = V
    BY <1>2 DEF PayOut
  <2>2. \A k \in Keys : V.tracked[k] = V.tracked[k] - At(k, p, a, x)
    BY <1>2 DEF At, Vaults
  <2> QED BY <2>1, <2>2 DEF Moves, KeepsLedger, SameRows, SameParties
<1> QED BY <1>1, <1>2

LEMMA ReleaseReservedEffect ==
    ASSUME NEW L \in Ledger, NEW e \in Lanes, NEW u, NEW a, NEW x \in Nat, Row(L.reserved[e][1], a, x)
    PROVE  LET M == ReleaseReserved(L, e, 1, u)
           IN  /\ Comes(L, M) /\ M.loanCollateralLien = L.loanCollateralLien
               /\ Row(M.reserved[e][1], a, 0)
               /\ \A d \in Lanes : d # e => M.reserved[d][1] = L.reserved[d][1]
               /\ \A k \in Keys : M.encumbered[k] = L.encumbered[k] - At(k, u, a, x)
<1> DEFINE r == L.reserved[e][1]
           M == TakeReserved(L, e, 1, u, x)
<1>1. r.amount = x /\ (x # 0 => r.asset = a)
  BY DEF Row
<1>2. x <= r.amount /\ r.amount - x = 0
  BY <1>1
<1>3. /\ Comes(L, M) /\ M.loanCollateralLien = L.loanCollateralLien
      /\ M.reserved[e][1].amount = r.amount - x
      /\ \A d \in Lanes : d # e => M.reserved[d][1] = L.reserved[d][1]
      /\ \A k \in Keys : M.encumbered[k] = L.encumbered[k] - At(k, u, r.asset, x)
  BY <1>2, TakeEffect
<1>4. ReleaseReserved(L, e, 1, u) = M
  BY <1>1 DEF ReleaseReserved
<1>5. \A k \in Keys : At(k, u, r.asset, x) = At(k, u, a, x)
  BY <1>1 DEF At
<1> HIDE DEF M, r
<1>6. Row(M.reserved[e][1], a, 0)
  BY <1>2, <1>3 DEF Row
<1>7. \A k \in Keys : M.encumbered[k] = L.encumbered[k] - At(k, u, a, x)
  BY <1>3, <1>5
<1> QED BY <1>3, <1>4, <1>6, <1>7

(* The vaults once the lender's side, or the borrower's, is paid to u.     *)
PaidLender(V, u, pa, d, h) ==
    LET p == V.ledger.lender[1]
        L == ReleaseReserved(ReleaseReserved(V.ledger, "lenderProceeds", 1, p), "heldForLender", 1, p)
    IN  PayOut(PayOut(On(V, L), p, u, pa, d), p, u, pa, h)

PaidBorrower(V, u, pa, ca, c, s) ==
    LET q == V.ledger.borrower[1]
        L == ReleaseReserved(ReleaseCollateralLien(V.ledger, 1), "borrowerProceeds", 1, q)
    IN  PayOut(PayOut(On(V, L), q, u, ca, c), q, u, pa, s)

PaysTheLender(V, u, pa, ca, c, h, s, d, live) ==
    LET W == PaidLender(V, u, pa, d, h)
    IN  /\ Moves(V, W) /\ Accounts(W, pa, ca, c, 0, s, 0, 0, live)
        /\ \A k \in Keys : k[1] # u => W.wallet[k] = V.wallet[k]

LEMMA LenderPaid ==
    ASSUME NEW V \in Vaults, NEW u, NEW pa, NEW ca, NEW c \in Nat, NEW h \in Nat, NEW s \in Nat,
           NEW d \in Nat, NEW e \in Nat, NEW live, Accounts(V, pa, ca, c, h, s, d, e, live)
    PROVE  PaysTheLender(V, u, pa, ca, c, h, s, d, live)
<1> DEFINE p == V.ledger.lender[1]
           q == V.ledger.borrower[1]
           K == V.ledger
           M == ReleaseReserved(K, "lenderProceeds", 1, p)
           L == ReleaseReserved(M, "heldForLender", 1, p)
           V1 == On(V, L)
           V2 == PayOut(V1, p, u, pa, d)
           W == PayOut(V2, p, u, pa, h)
           Kept(k) == At(k, q, ca, c) + At(k, p, pa, h) + At(k, q, pa, s)
<1>0. K \in Ledger /\ "lenderProceeds" # "heldForLender" /\ "borrowerProceeds" # "heldForLender"
      /\ "borrowerProceeds" # "lenderProceeds"
  BY DEF Vaults
<1>1. /\ p \in Parties /\ q \in Parties
      /\ K.loanCollateralLien[1].live = live
      /\ live => K.loanCollateralLien[1] = [user |-> q, asset |-> ca, amount |-> c, live |-> TRUE]
      /\ Row(K.reserved["lenderProceeds"][1], pa, e)
      /\ Row(K.reserved["heldForLender"][1], pa, h)
      /\ Row(K.reserved["borrowerProceeds"][1], pa, s)
      /\ \A k \in Keys : K.encumbered[k] = Kept(k) + At(k, p, pa, e)
      /\ \A k \in Keys : V.tracked[k] = V.depository[k] + Kept(k) + At(k, p, pa, d)
  BY DEF Accounts
<1>1a. K.lender[1] = p /\ K.borrower[1] = q
  OBVIOUS
<1> HIDE DEF p, q, K
<1>2. /\ Comes(K, M) /\ M.loanCollateralLien = K.loanCollateralLien
      /\ Row(M.reserved["lenderProceeds"][1], pa, 0)
      /\ \A f \in Lanes : f # "lenderProceeds" => M.reserved[f][1] = K.reserved[f][1]
      /\ \A k \in Keys : M.encumbered[k] = K.encumbered[k] - At(k, p, pa, e)
  <2>1. Row(K.reserved["lenderProceeds"][1], pa, e)
    BY <1>1
  <2>2. K \in Ledger /\ "lenderProceeds" \in Lanes
    BY <1>0, Basics
  <2> QED BY <2>1, <2>2, ReleaseReservedEffect
<1> HIDE DEF M
<1>3. Row(M.reserved["heldForLender"][1], pa, h) /\ M \in Ledger
  BY <1>0, <1>1, <1>2, Basics DEF Comes
<1>4. /\ Comes(M, L) /\ L.loanCollateralLien = M.loanCollateralLien
      /\ Row(L.reserved["heldForLender"][1], pa, 0)
      /\ \A f \in Lanes : f # "heldForLender" => L.reserved[f][1] = M.reserved[f][1]
      /\ \A k \in Keys : L.encumbered[k] = M.encumbered[k] - At(k, p, pa, h)
  BY <1>3, Basics, ReleaseReservedEffect, SMTT(60)
<1> HIDE DEF L
<1>5. Comes(K, L)
  BY <1>2, <1>4 DEF Comes, SameParties
<1>6. /\ Moves(V, V1) /\ V1.ledger = L /\ V1.tracked = V.tracked /\ V1.wallet = V.wallet
  BY <1>5, OnEffect DEF K
<1> HIDE DEF V1
<1>7. /\ Moves(V1, V2) /\ KeepsLedger(V1, V2)
      /\ \A k \in Keys : V2.tracked[k] = V1.tracked[k] - At(k, p, pa, d)
      /\ \A k \in Keys : k[1] # u => V2.wallet[k] = V1.wallet[k]
  BY <1>6, PayOutEffect DEF Moves
<1> HIDE DEF V2
<1>8. /\ Moves(V2, W) /\ KeepsLedger(V2, W)
      /\ \A k \in Keys : W.tracked[k] = V2.tracked[k] - At(k, p, pa, h)
      /\ \A k \in Keys : k[1] # u => W.wallet[k] = V2.wallet[k]
  BY <1>7, PayOutEffect DEF Moves
<1> HIDE DEF W
<1>9. Moves(V, W)
  BY <1>6, <1>7, <1>8 DEF Moves
<1>10. /\ W.ledger.loanCollateralLien = K.loanCollateralLien /\ W.ledger.reserved = L.reserved
       /\ W.ledger.encumbered = L.encumbered /\ W.ledger.lender[1] = p /\ W.ledger.borrower[1] = q
  BY <1>1a, <1>2, <1>4, <1>5, <1>6, <1>7, <1>8 DEF KeepsLedger, SameRows, SameParties, Comes
<1>11. /\ Row(W.ledger.reserved["lenderProceeds"][1], pa, 0)
       /\ Row(W.ledger.reserved["heldForLender"][1], pa, 0)
       /\ Row(W.ledger.reserved["borrowerProceeds"][1], pa, s)
  BY <1>0, <1>1, <1>2, <1>4, <1>10, Basics
<1>12. ASSUME NEW k \in Keys
       PROVE  /\ W.ledger.encumbered[k]
                    = At(k, q, ca, c) + At(k, p, pa, 0) + At(k, q, pa, s) + At(k, p, pa, 0)
              /\ W.tracked[k] = W.depository[k]
                    + (At(k, q, ca, c) + At(k, p, pa, 0) + At(k, q, pa, s)) + At(k, p, pa, 0)
  <2>1. /\ At(k, q, ca, c) \in Int /\ At(k, p, pa, h) \in Int /\ At(k, q, pa, s) \in Int
        /\ At(k, p, pa, e) \in Int /\ At(k, p, pa, d) \in Int
    BY AtInt
  <2>2. At(k, p, pa, 0) = 0
    BY DEF At
  <2>3. W.depository[k] = V.depository[k] /\ V.depository[k] \in Int
    BY <1>9 DEF Moves, Vaults
  <2>4. W.ledger.encumbered[k] = K.encumbered[k] - At(k, p, pa, e) - At(k, p, pa, h)
    BY <1>2, <1>4, <1>10
  <2>5. W.tracked[k] = V.tracked[k] - At(k, p, pa, d) - At(k, p, pa, h)
    BY <1>6, <1>7, <1>8
  <2> QED BY <1>1, <2>1, <2>2, <2>3, <2>4, <2>5
<1>13. Accounts(W, pa, ca, c, 0, s, 0, 0, live)
  BY <1>1, <1>10, <1>11, <1>12 DEF Accounts
<1>14. \A k \in Keys : k[1] # u => W.wallet[k] = V.wallet[k]
  BY <1>6, <1>7, <1>8
<1>15. PaidLender(V, u, pa, d, h) = W
  BY DEF PaidLender, W, V2, V1, L, M, K, p
<1> QED BY <1>9, <1>13, <1>14, <1>15 DEF PaysTheLender

PledgedBooks(V, pa, ca, c, h, s, d, e) == Accounts(V, pa, ca, c, h, s, d, e, TRUE)

FreedBooks(V, pa, ca, h, d, e) == Accounts(V, pa, ca, 0, h, 0, d, e, FALSE)

PaysTheBorrower(V, u, pa, ca, c, h, s, d, e) ==
    LET W == PaidBorrower(V, u, pa, ca, c, s)
    IN  /\ Moves(V, W) /\ FreedBooks(W, pa, ca, h, d, e)
        /\ \A k \in Keys : k[1] # u => W.wallet[k] = V.wallet[k]

LEMMA BorrowerPaid ==
    ASSUME NEW V \in Vaults, NEW u, NEW pa, NEW ca, NEW c \in Nat, NEW h \in Nat, NEW s \in Nat,
           NEW d \in Nat, NEW e \in Nat, PledgedBooks(V, pa, ca, c, h, s, d, e)
    PROVE  PaysTheBorrower(V, u, pa, ca, c, h, s, d, e)
<1> DEFINE p == V.ledger.lender[1]
           q == V.ledger.borrower[1]
           K == V.ledger
           r == K.loanCollateralLien[1]
           M == ReleaseCollateralLien(K, 1)
           L == ReleaseReserved(M, "borrowerProceeds", 1, q)
           V1 == On(V, L)
           V2 == PayOut(V1, q, u, ca, c)
           W == PayOut(V2, q, u, pa, s)
           Kept(k) == At(k, q, ca, c) + At(k, p, pa, h) + At(k, q, pa, s)
<1>0. K \in Ledger /\ "lenderProceeds" # "borrowerProceeds" /\ "heldForLender" # "borrowerProceeds"
  BY DEF Vaults
<1>1. /\ p \in Parties /\ q \in Parties
      /\ r = [user |-> q, asset |-> ca, amount |-> c, live |-> TRUE]
      /\ Row(K.reserved["lenderProceeds"][1], pa, e)
      /\ Row(K.reserved["heldForLender"][1], pa, h)
      /\ Row(K.reserved["borrowerProceeds"][1], pa, s)
      /\ \A k \in Keys : K.encumbered[k] = Kept(k) + At(k, p, pa, e)
      /\ \A k \in Keys : V.tracked[k] = V.depository[k] + Kept(k) + At(k, p, pa, d)
  BY DEF PledgedBooks, Accounts
<1>1a. K.lender[1] = p /\ K.borrower[1] = q
  OBVIOUS
<1> HIDE DEF p, q, K
<1>2. /\ Comes(K, M) /\ M.reserved = K.reserved /\ ~ M.loanCollateralLien[1].live
      /\ \A k \in Keys : M.encumbered[k] = K.encumbered[k] - At(k, q, ca, c)
  <2>1. /\ Comes(K, M) /\ M.reserved = K.reserved /\ ~ M.loanCollateralLien[1].live
        /\ r.live => \A k \in Keys : M.encumbered[k] = K.encumbered[k] - At(k, r.user, r.asset, r.amount)
    BY <1>0, ReleaseEffect
  <2> HIDE DEF M, r
  <2> QED BY <1>1, <2>1
<1> HIDE DEF M
<1>3. Row(M.reserved["borrowerProceeds"][1], pa, s) /\ M \in Ledger
  BY <1>1, <1>2 DEF Comes
<1>4. /\ Comes(M, L) /\ L.loanCollateralLien = M.loanCollateralLien
      /\ Row(L.reserved["borrowerProceeds"][1], pa, 0)
      /\ \A f \in Lanes : f # "borrowerProceeds" => L.reserved[f][1] = M.reserved[f][1]
      /\ \A k \in Keys : L.encumbered[k] = M.encumbered[k] - At(k, q, pa, s)
  BY <1>3, Basics, ReleaseReservedEffect
<1> HIDE DEF L
<1>5. Comes(K, L)
  BY <1>2, <1>4 DEF Comes, SameParties
<1>6. /\ Moves(V, V1) /\ V1.ledger = L /\ V1.tracked = V.tracked /\ V1.wallet = V.wallet
  BY <1>5, OnEffect DEF K
<1> HIDE DEF V1
<1>7. /\ Moves(V1, V2) /\ KeepsLedger(V1, V2)
      /\ \A k \in Keys : V2.tracked[k] = V1.tracked[k] - At(k, q, ca, c)
      /\ \A k \in Keys : k[1] # u => V2.wallet[k] = V1.wallet[k]
  BY <1>6, PayOutEffect DEF Moves
<1> HIDE DEF V2
<1>8. /\ Moves(V2, W) /\ KeepsLedger(V2, W)
      /\ \A k \in Keys : W.tracked[k] = V2.tracked[k] - At(k, q, pa, s)
      /\ \A k \in Keys : k[1] # u => W.wallet[k] = V2.wallet[k]
  BY <1>7, PayOutEffect DEF Moves
<1> HIDE DEF W
<1>9. Moves(V, W)
  BY <1>6, <1>7, <1>8 DEF Moves
<1>10. /\ W.ledger.loanCollateralLien = M.loanCollateralLien /\ W.ledger.reserved = L.reserved
       /\ W.ledger.encumbered = L.encumbered /\ W.ledger.lender[1] = p /\ W.ledger.borrower[1] = q
  BY <1>1a, <1>4, <1>5, <1>6, <1>7, <1>8 DEF KeepsLedger, SameRows, SameParties, Comes
<1>11. /\ Row(W.ledger.reserved["lenderProceeds"][1], pa, e)
       /\ Row(W.ledger.reserved["heldForLender"][1], pa, h)
       /\ Row(W.ledger.reserved["borrowerProceeds"][1], pa, 0)
  BY <1>0, <1>1, <1>2, <1>4, <1>10, Basics
<1>12. ASSUME NEW k \in Keys
       PROVE  /\ W.ledger.encumbered[k]
                    = At(k, q, ca, 0) + At(k, p, pa, h) + At(k, q, pa, 0) + At(k, p, pa, e)
              /\ W.tracked[k] = W.depository[k]
                    + (At(k, q, ca, 0) + At(k, p, pa, h) + At(k, q, pa, 0)) + At(k, p, pa, d)
  <2>1. /\ At(k, q, ca, c) \in Int /\ At(k, p, pa, h) \in Int /\ At(k, q, pa, s) \in Int
        /\ At(k, p, pa, e) \in Int /\ At(k, p, pa, d) \in Int
    BY AtInt
  <2>2. At(k, q, pa, 0) = 0 /\ At(k, q, ca, 0) = 0
    BY DEF At
  <2>3. W.depository[k] = V.depository[k] /\ V.depository[k] \in Int
    BY <1>9 DEF Moves, Vaults
  <2>4. W.ledger.encumbered[k] = K.encumbered[k] - At(k, q, ca, c) - At(k, q, pa, s)
    BY <1>2, <1>4, <1>10
  <2>5. W.tracked[k] = V.tracked[k] - At(k, q, ca, c) - At(k, q, pa, s)
    BY <1>6, <1>7, <1>8
  <2> QED BY <1>1, <2>1, <2>2, <2>3, <2>4, <2>5
<1>12a. W.ledger.loanCollateralLien[1].live = FALSE
  <2>1. W.ledger \in Ledger /\ W.ledger.loanCollateralLien[1].live \in BOOLEAN
    BY <1>9, RowsAreNat DEF Moves, Vaults, Lien
  <2> QED BY <1>2, <1>10, <2>1
<1>13. FreedBooks(W, pa, ca, h, d, e)
  BY <1>1, <1>10, <1>11, <1>12, <1>12a DEF FreedBooks, Accounts
<1>14. \A k \in Keys : k[1] # u => W.wallet[k] = V.wallet[k]
  BY <1>6, <1>7, <1>8
<1>15. PaidBorrower(V, u, pa, ca, c, s) = W
  BY DEF PaidBorrower, W, V2, V1, L, M, K, q
<1> QED BY <1>9, <1>13, <1>14, <1>15 DEF PaysTheBorrower

(* Who may claim is not barred: a barred holder is recorded, when the list *)
(* cannot be read, and its side is not released until it is proven clean.  *)
LEMMA ClaimantClean ==
    ASSUME NEW F \in Locks, NEW holder, NEW side \in Sides,
           ~ IsSanctioned(F, holder[side]), MayRelease(RecordBoth(F, holder), side)
    PROVE  ~ Barred(F, holder[side]) /\ Released(RecordBoth(F, holder), side) \in Locks
<1> DEFINE G == RecordBoth(F, holder)
<1>1. /\ Remembers(F, G)
      /\ ~ F.up /\ Barred(F, holder[side]) => G.marker[side] # NoUser
  BY RecordBothLock
<1>2. G.marker[side] = NoUser \/ ProvenClean(G, G.marker[side])
  BY DEF MayRelease
<1> HIDE DEF G
<1>3. ~ Barred(F, holder[side])
  BY <1>1, <1>2 DEF Remembers, ProvenClean, IsSanctioned, Barred
<1>4. Released(G, side) \in Locks
  BY <1>1, ReleasedLock DEF Remembers
<1> QED BY <1>3, <1>4 DEF G

(* A claim's result has the books, and pays nobody but its caller.         *)
LEMMA ClaimLands ==
    ASSUME Inv, NEW W, NEW n, NEW G, NEW side \in Sides,
           Becomes([v |-> W, n |-> n, f |-> G]), IsClosed([v |-> W, n |-> n, f |-> G]),
           Moves(Now.v, W), ~ Barred(lock, loan.holder[side]),
           \A k \in Keys : k[1] # loan.holder[side] => W.wallet[k] = Now.v.wallet[k]
    PROVE  \E S : Lands(S)
<1> DEFINE S == [v |-> W, n |-> n, f |-> G]
<1>1. S.v = W /\ S \in State /\ Ok(W)
  BY DEF IsClosed, Becomes
<1>2. Good(S)
  BY <1>1 DEF Good
<1>3. ASSUME NEW w \in Parties, Barred(lock, w), NEW b \in Assets
      PROVE  W.wallet[<<w, b>>] = Purses[<<w, b>>]
  <2>1. w # loan.holder[side] /\ <<w, b>> \in Keys /\ <<w, b>>[1] = w /\ Now.v.wallet = Purses
    BY <1>3, PursesTyped, NowGood
  <2> QED BY <2>1
<1>4. Quiet(Now, S)
  <2> HIDE DEF S
  <2> QED BY <1>1, <1>3, FrameQuiet
<1>5. Lands(S)
  BY <1>2, <1>4 DEF Lands
<1> QED BY <1>5

(* What the claims do to the loan.                                         *)
LEMMA LenderClaimed ==
    ASSUME NEW m \in Loan, NEW last \in BOOLEAN
    PROVE  LET n == Settled([m EXCEPT !.lenderClaim.claimed = TRUE, !.holder["lender"] = NoUser], last)
           IN  /\ n \in Loan /\ n.status = IF last THEN "Settled" ELSE m.status
               /\ n.principalAsset = m.principalAsset /\ n.collateralAsset = m.collateralAsset
               /\ n.collateral = m.collateral /\ n.held = m.held /\ n.surplus = m.surplus
               /\ n.borrowerClaim = m.borrowerClaim
               /\ n.lenderClaim.claimed /\ n.lenderClaim.written = m.lenderClaim.written
<1> DEFINE c == [m.lenderClaim EXCEPT !.claimed = TRUE]
           h == [m.holder EXCEPT !["lender"] = NoUser]
           t == IF last THEN "Settled" ELSE m.status
           k == [m EXCEPT !.lenderClaim = c, !.holder = h]
           n == [k EXCEPT !.status = t]
<1>1. c \in Claim /\ c.claimed /\ c.written = m.lenderClaim.written
  BY DEF Loan, Claim
<1>2. h \in [Sides -> Parties \cup {NoUser}]
  BY LoanFields
<1>3. t \in {"Active", "Repaid", "Settled"}
  BY DEF Loan
<1>4. [m EXCEPT !.lenderClaim.claimed = TRUE, !.holder["lender"] = NoUser] = k
  <2>1. [m EXCEPT !.lenderClaim.claimed = TRUE] = [m EXCEPT !.lenderClaim = c]
    OBVIOUS
  <2> DEFINE j == [m EXCEPT !.lenderClaim.claimed = TRUE]
  <2>2. [m EXCEPT !.lenderClaim.claimed = TRUE, !.holder["lender"] = NoUser] = [j EXCEPT !.holder["lender"] = NoUser]
    OBVIOUS
  <2> HIDE DEF j, c
  <2>3. [j EXCEPT !.holder["lender"] = NoUser] = [j EXCEPT !.holder = [j.holder EXCEPT !["lender"] = NoUser]]
    OBVIOUS
  <2>4. j = [m EXCEPT !.lenderClaim = c]
    BY <2>1 DEF j
  <2>5. j.holder = m.holder
    BY <2>4 DEF Loan
  <2>6. [j EXCEPT !.holder = [j.holder EXCEPT !["lender"] = NoUser]] = [j EXCEPT !.holder = h]
    BY <2>5
  <2> HIDE DEF h
  <2>7. [j EXCEPT !.holder = h] = k
    BY <2>4
  <2> QED BY <2>2, <2>3, <2>6, <2>7
<1> HIDE DEF c, h
<1>5. /\ k \in Loan /\ k.status = m.status
      /\ k.principalAsset = m.principalAsset /\ k.collateralAsset = m.collateralAsset
      /\ k.collateral = m.collateral /\ k.held = m.held /\ k.surplus = m.surplus
      /\ k.borrowerClaim = m.borrowerClaim /\ k.lenderClaim = c
  BY <1>1, <1>2 DEF Loan
<1> HIDE DEF k
<1>6. Settled(k, last) = n
  BY <1>5 DEF Settled
<1> HIDE DEF t
<1>7. /\ n \in Loan /\ n.status = t
      /\ n.principalAsset = k.principalAsset /\ n.collateralAsset = k.collateralAsset
      /\ n.collateral = k.collateral /\ n.held = k.held /\ n.surplus = k.surplus
      /\ n.borrowerClaim = k.borrowerClaim /\ n.lenderClaim = k.lenderClaim
  BY <1>3, <1>5 DEF Loan
<1> HIDE DEF n
<1>8. Settled([m EXCEPT !.lenderClaim.claimed = TRUE, !.holder["lender"] = NoUser], last) = n
  BY <1>4, <1>6
<1>9. n.lenderClaim.claimed /\ n.lenderClaim.written = m.lenderClaim.written
  BY <1>1, <1>5, <1>7
<1> QED BY <1>5, <1>7, <1>8, <1>9 DEF t

BorrowerBurned(m, x) ==
    [m EXCEPT !.borrowerClaim.claimed = TRUE, !.surplus.claimed = x, !.holder["borrower"] = NoUser]

LEMMA BorrowerClaimed ==
    ASSUME NEW m \in Loan, NEW last \in BOOLEAN, NEW x \in BOOLEAN
    PROVE  LET n == Settled(BorrowerBurned(m, x), last)
           IN  /\ n \in Loan /\ n.status = IF last THEN "Settled" ELSE m.status
               /\ n.principalAsset = m.principalAsset /\ n.collateralAsset = m.collateralAsset
               /\ n.collateral = m.collateral /\ n.held = m.held /\ n.lenderClaim = m.lenderClaim
               /\ n.borrowerClaim.claimed /\ n.borrowerClaim.amount = m.borrowerClaim.amount
               /\ n.surplus.claimed = x /\ n.surplus.amount = m.surplus.amount
<1> DEFINE c == [m.borrowerClaim EXCEPT !.claimed = TRUE]
           s == [m.surplus EXCEPT !.claimed = x]
           h == [m.holder EXCEPT !["borrower"] = NoUser]
           t == IF last THEN "Settled" ELSE m.status
           k == [m EXCEPT !.borrowerClaim = c, !.surplus = s, !.holder = h]
           n == [k EXCEPT !.status = t]
<1>1. /\ c \in Claim /\ c.claimed /\ c.amount = m.borrowerClaim.amount
      /\ s \in Claim /\ s.claimed = x /\ s.amount = m.surplus.amount
  BY DEF Loan, Claim
<1>2. h \in [Sides -> Parties \cup {NoUser}]
  BY LoanFields
<1>3. t \in {"Active", "Repaid", "Settled"}
  BY DEF Loan
<1>4. [m EXCEPT !.borrowerClaim.claimed = TRUE, !.surplus.claimed = x, !.holder["borrower"] = NoUser] = k
  <2> DEFINE i == [m EXCEPT !.borrowerClaim.claimed = TRUE]
             j == [i EXCEPT !.surplus.claimed = x]
  <2>1. i = [m EXCEPT !.borrowerClaim = c]
    OBVIOUS
  <2>2. [m EXCEPT !.borrowerClaim.claimed = TRUE, !.surplus.claimed = x, !.holder["borrower"] = NoUser]
            = [j EXCEPT !.holder["borrower"] = NoUser]
    OBVIOUS
  <2> HIDE DEF i, c
  <2>3. j = [i EXCEPT !.surplus = [i.surplus EXCEPT !.claimed = x]]
    OBVIOUS
  <2>4. i.surplus = m.surplus /\ i.holder = m.holder
    BY <2>1 DEF Loan
  <2>5. j = [i EXCEPT !.surplus = s]
    BY <2>3, <2>4
  <2> HIDE DEF j, s
  <2>6. [j EXCEPT !.holder["borrower"] = NoUser] = [j EXCEPT !.holder = [j.holder EXCEPT !["borrower"] = NoUser]]
    OBVIOUS
  <2>7. j.holder = m.holder
    BY <2>1, <2>4, <2>5 DEF Loan
  <2>8. [j EXCEPT !.holder = [j.holder EXCEPT !["borrower"] = NoUser]] = [j EXCEPT !.holder = h]
    BY <2>7
  <2> HIDE DEF h
  <2>9. [j EXCEPT !.holder = h] = k
    BY <2>1, <2>5
  <2> QED BY <2>2, <2>6, <2>8, <2>9
<1> HIDE DEF c, s, h
<1>5. /\ k \in Loan /\ k.status = m.status
      /\ k.principalAsset = m.principalAsset /\ k.collateralAsset = m.collateralAsset
      /\ k.collateral = m.collateral /\ k.held = m.held /\ k.surplus = s
      /\ k.borrowerClaim = c /\ k.lenderClaim = m.lenderClaim
  BY <1>1, <1>2 DEF Loan
<1> HIDE DEF k
<1>6. Settled(k, last) = n
  BY <1>5 DEF Settled
<1> HIDE DEF t
<1>7. /\ n \in Loan /\ n.status = t
      /\ n.principalAsset = k.principalAsset /\ n.collateralAsset = k.collateralAsset
      /\ n.collateral = k.collateral /\ n.held = k.held /\ n.surplus = k.surplus
      /\ n.borrowerClaim = k.borrowerClaim /\ n.lenderClaim = k.lenderClaim
  BY <1>3, <1>5 DEF Loan
<1> HIDE DEF n
<1>8. Settled(BorrowerBurned(m, x), last) = n
  BY <1>4, <1>6 DEF BorrowerBurned
<1>9. /\ n.borrowerClaim.claimed /\ n.borrowerClaim.amount = m.borrowerClaim.amount
      /\ n.surplus.claimed = x /\ n.surplus.amount = m.surplus.amount
  BY <1>1, <1>5, <1>7
<1> QED BY <1>5, <1>7, <1>8, <1>9 DEF t

LEMMA LenderLands ==
    ASSUME Inv, ClaimAsLender
    PROVE  \E S : Lands(S)
<1> DEFINE u == loan.holder["lender"]
           V == Now.v
           p == V.ledger.lender[1]
           F == RecordBoth(lock, loan.holder)
           L == ReleaseReserved(ReleaseReserved(V.ledger, "lenderProceeds", 1, p), "heldForLender", 1, p)
           a == loan.principalAsset
           last == ~ BorrowerSideOpen(loan)
           W == PayOut(PayOut(On(V, L), p, u, a, loan.lenderClaim.amount), p, u, a, loan.held)
           n == Settled([loan EXCEPT !.lenderClaim.claimed = TRUE, !.holder["lender"] = NoUser], last)
           G == Released(F, "lender")
           S == [v |-> W, n |-> n, f |-> G]
           e == IF a = Vpfi THEN DueOf(loan) ELSE 0
           live == ~ loan.borrowerClaim.claimed
<1>1. /\ V \in Vaults /\ loan \in Loan /\ lock \in Locks /\ V.ledger = vaults.ledger /\ Now.n = loan
      /\ IsClosed(Now) /\ "lender" \in Sides
  BY NowGood DEF ClaimAsLender, State, Sides
<1>2. Becomes(S)
  <2>1. p = Lender(Now)
    BY DEF Lender
  <2>2. L = ReleaseReserved(ReleaseReserved(vaults.ledger, "lenderProceeds", 1, Lender(Now)), "heldForLender", 1, Lender(Now))
    BY <1>1, <2>1
  <2> HIDE DEF L, p
  <2> QED BY <2>1, <2>2 DEF ClaimAsLender
<1>3. /\ loan.status = "Repaid" /\ ~ loan.lenderClaim.claimed
      /\ ~ IsSanctioned(lock, u) /\ MayRelease(F, "lender")
  BY DEF ClaimAsLender
<1>4. ~ Barred(lock, u) /\ G \in Locks
  BY <1>1, <1>3, ClaimantClean
<1>5. DueOf(loan) = loan.lenderClaim.amount /\ HeldOf(loan) = loan.held
  BY <1>3 DEF DueOf, HeldOf, Unclaimed
<1>6. /\ PledgeOf(loan) \in Nat /\ HeldOf(loan) \in Nat /\ ExtraOf(loan) \in Nat /\ DueOf(loan) \in Nat /\ e \in Nat
  BY <1>1, Amounts
<1>7. Accounts(V, a, loan.collateralAsset, PledgeOf(loan), HeldOf(loan), ExtraOf(loan), DueOf(loan), e, live)
  BY NowAccounts DEF AccountsOf
<1> HIDE DEF V, a, e, live
<1>8. /\ Moves(V, W)
      /\ Accounts(W, a, loan.collateralAsset, PledgeOf(loan), 0, ExtraOf(loan), 0, 0, live)
      /\ \A k \in Keys : k[1] # u => W.wallet[k] = V.wallet[k]
  <2> DEFINE c == PledgeOf(loan)
             h == loan.held
             s == ExtraOf(loan)
             d == loan.lenderClaim.amount
             b == loan.collateralAsset
  <2>1. V \in Vaults /\ c \in Nat /\ h \in Nat /\ s \in Nat /\ d \in Nat /\ e \in Nat
    BY <1>1, <1>5, <1>6
  <2>2. Accounts(V, a, b, c, h, s, d, e, live)
    BY <1>5, <1>7
  <2> HIDE DEF c, h, s, d, b, u
  <2> DEFINE P == PaidLender(V, u, a, d, h)
  <2>3. /\ Moves(V, P) /\ Accounts(P, a, b, c, 0, s, 0, 0, live)
        /\ \A k \in Keys : k[1] # u => P.wallet[k] = V.wallet[k]
    <3>1. PaysTheLender(V, u, a, b, c, h, s, d, live)
      BY <2>1, <2>2, LenderPaid
    <3> QED BY <3>1 DEF PaysTheLender
  <2>4. W = P
    BY DEF PaidLender, d, h
  <2> HIDE DEF P, W
  <2> QED BY <2>3, <2>4 DEF c, s, b, u
<1>9. last \in BOOLEAN
  OBVIOUS
<1> HIDE DEF last
<1>10. /\ n \in Loan /\ n.status = IF last THEN "Settled" ELSE loan.status
       /\ n.principalAsset = loan.principalAsset /\ n.collateralAsset = loan.collateralAsset
       /\ n.collateral = loan.collateral /\ n.held = loan.held /\ n.surplus = loan.surplus
       /\ n.borrowerClaim = loan.borrowerClaim
       /\ n.lenderClaim.claimed /\ n.lenderClaim.written = loan.lenderClaim.written
  BY <1>1, <1>9, LenderClaimed
<1> HIDE DEF W, n, G
<1>11. /\ PledgeOf(n) = PledgeOf(loan) /\ ExtraOf(n) = ExtraOf(loan) /\ HeldOf(n) = 0 /\ DueOf(n) = 0
  BY <1>10 DEF PledgeOf, ExtraOf, HeldOf, DueOf, Unclaimed
<1>12. (IF n.principalAsset = Vpfi THEN DueOf(n) ELSE 0) = 0
  BY <1>11
<1>13. /\ loan.lenderClaim.written /\ loan.borrowerClaim.amount = loan.collateral
       /\ loan.surplus.claimed => loan.borrowerClaim.claimed
       /\ loan.borrowerClaim.claimed => loan.surplus.claimed \/ loan.surplus.amount = 0
  BY <1>1 DEF IsClosed
<1>14. /\ S \in State /\ S.v = W /\ S.n = n
  BY <1>4, <1>8, <1>10 DEF State, Moves
<1>15. AccountsOf(W, n)
  BY <1>8, <1>10, <1>11, <1>12 DEF AccountsOf, a, live
<1>16. IsClosed(S)
  <2> HIDE DEF S
  <2> QED BY <1>3, <1>10, <1>13, <1>14, <1>15 DEF IsClosed, AccountsOf
<1> QED BY <1>1, <1>2, <1>4, <1>8, <1>16, ClaimLands DEF V

LEMMA BorrowerLands ==
    ASSUME Inv, ClaimAsBorrower
    PROVE  \E S : Lands(S)
<1> DEFINE u == loan.holder["borrower"]
           V == Now.v
           q == V.ledger.borrower[1]
           F == RecordBoth(lock, loan.holder)
           L == ReleaseReserved(ReleaseCollateralLien(V.ledger, 1), "borrowerProceeds", 1, q)
           Lane(claim) == IF LaneOpen(claim) THEN claim.amount ELSE 0
           x == LaneOpen(loan.surplus)
           last == loan.lenderClaim.claimed \/ ~ LenderSideOpen(loan)
           a == loan.principalAsset
           ca == loan.collateralAsset
           W == PayOut(PayOut(On(V, L), q, u, ca, Lane(loan.borrowerClaim)), q, u, a, Lane(loan.surplus))
           n == Settled([loan EXCEPT !.borrowerClaim.claimed = TRUE, !.surplus.claimed = x,
                                     !.holder["borrower"] = NoUser], last)
           G == Released(F, "borrower")
           S == [v |-> W, n |-> n, f |-> G]
           e == IF a = Vpfi THEN DueOf(loan) ELSE 0
<1>1. /\ V \in Vaults /\ loan \in Loan /\ lock \in Locks /\ V.ledger = vaults.ledger /\ Now.n = loan
      /\ IsClosed(Now) /\ "borrower" \in Sides
  BY NowGood DEF ClaimAsBorrower, State, Sides
<1>2. Becomes(S)
  <2>1. q = Borrower(Now)
    BY DEF Borrower
  <2>2. L = ReleaseReserved(ReleaseCollateralLien(vaults.ledger, 1), "borrowerProceeds", 1, Borrower(Now))
    BY <1>1, <2>1
  <2> HIDE DEF L, q
  <2> QED BY <2>1, <2>2 DEF ClaimAsBorrower
<1>3. /\ loan.status = "Repaid" /\ BorrowerSideOpen(loan)
      /\ ~ IsSanctioned(lock, u) /\ MayRelease(F, "borrower")
  BY DEF ClaimAsBorrower
<1>4. ~ Barred(lock, u) /\ G \in Locks
  BY <1>1, <1>3, ClaimantClean
<1>5. /\ loan.lenderClaim.written /\ loan.borrowerClaim.amount = loan.collateral
      /\ loan.surplus.claimed => loan.borrowerClaim.claimed
      /\ loan.borrowerClaim.claimed => loan.surplus.claimed \/ loan.surplus.amount = 0
  BY <1>1 DEF IsClosed
<1>6. loan.collateral \in Nat /\ loan.surplus.amount \in Nat
  BY <1>1, LoanFields
<1>7. ~ loan.borrowerClaim.claimed /\ ~ loan.surplus.claimed
  BY <1>3, <1>5, <1>6 DEF BorrowerSideOpen, LaneOpen
<1>8. /\ PledgeOf(loan) = loan.collateral /\ ExtraOf(loan) = loan.surplus.amount
      /\ Lane(loan.borrowerClaim) = PledgeOf(loan) /\ Lane(loan.surplus) = ExtraOf(loan)
  BY <1>5, <1>6, <1>7 DEF PledgeOf, ExtraOf, Unclaimed, LaneOpen
<1>9. /\ PledgeOf(loan) \in Nat /\ HeldOf(loan) \in Nat /\ ExtraOf(loan) \in Nat /\ DueOf(loan) \in Nat /\ e \in Nat
  BY <1>1, Amounts
<1>10. Accounts(V, a, ca, PledgeOf(loan), HeldOf(loan), ExtraOf(loan), DueOf(loan), e, TRUE)
  <2>1. (~ loan.borrowerClaim.claimed) = TRUE
    BY <1>7
  <2> QED BY <2>1, NowAccounts DEF AccountsOf
<1> HIDE DEF V, a, ca, e, Lane
<1>11. /\ Moves(V, W)
       /\ Accounts(W, a, ca, 0, HeldOf(loan), 0, DueOf(loan), e, FALSE)
       /\ \A k \in Keys : k[1] # u => W.wallet[k] = V.wallet[k]
  <2> DEFINE c == PledgeOf(loan)
             h == HeldOf(loan)
             s == ExtraOf(loan)
             d == DueOf(loan)
             P == PaidBorrower(V, u, a, ca, c, s)
  <2>1. V \in Vaults /\ c \in Nat /\ h \in Nat /\ s \in Nat /\ d \in Nat /\ e \in Nat
    BY <1>1, <1>9
  <2>2. PledgedBooks(V, a, ca, c, h, s, d, e)
    BY <1>10 DEF PledgedBooks
  <2>3. W = P
    <3>1. P = PayOut(PayOut(On(V, L), q, u, ca, c), q, u, a, s)
      BY DEF PaidBorrower
    <3> HIDE DEF L, q, u, P
    <3> QED BY <1>8, <3>1
  <2> HIDE DEF c, h, s, d, u, W
  <2>4. /\ Moves(V, P) /\ FreedBooks(P, a, ca, h, d, e)
        /\ \A k \in Keys : k[1] # u => P.wallet[k] = V.wallet[k]
    <3>1. PaysTheBorrower(V, u, a, ca, c, h, s, d, e)
      BY <2>1, <2>2, BorrowerPaid
    <3> QED BY <3>1 DEF PaysTheBorrower
  <2> HIDE DEF P
  <2> QED BY <2>3, <2>4 DEF FreedBooks, h, d, u
<1>12. last \in BOOLEAN /\ x \in BOOLEAN /\ (x <=> loan.surplus.amount # 0) /\ (last => loan.lenderClaim.claimed)
  <2>1. loan.lenderClaim.claimed \in BOOLEAN
    BY <1>1 DEF Loan, Claim
  <2> QED BY <1>5, <1>6, <1>7, <2>1 DEF LaneOpen, LenderSideOpen
<1> HIDE DEF last, x
<1>13. /\ n \in Loan /\ n.status = IF last THEN "Settled" ELSE loan.status
       /\ n.principalAsset = loan.principalAsset /\ n.collateralAsset = loan.collateralAsset
       /\ n.collateral = loan.collateral /\ n.held = loan.held /\ n.lenderClaim = loan.lenderClaim
       /\ n.borrowerClaim.claimed /\ n.borrowerClaim.amount = loan.borrowerClaim.amount
       /\ n.surplus.claimed = x /\ n.surplus.amount = loan.surplus.amount
  <2>1. loan \in Loan /\ last \in BOOLEAN /\ x \in BOOLEAN
    BY <1>1, <1>12
  <2>2. n = Settled(BorrowerBurned(loan, x), last)
    BY DEF BorrowerBurned
  <2> HIDE DEF n
  <2> QED BY <2>1, <2>2, BorrowerClaimed
<1> HIDE DEF W, n, G
<1>14. /\ PledgeOf(n) = 0 /\ ExtraOf(n) = 0 /\ HeldOf(n) = HeldOf(loan) /\ DueOf(n) = DueOf(loan)
       /\ (~ n.borrowerClaim.claimed) = FALSE
  BY <1>13 DEF PledgeOf, ExtraOf, HeldOf, DueOf, Unclaimed
<1>15. (IF n.principalAsset = Vpfi THEN DueOf(n) ELSE 0) = e
  BY <1>13, <1>14 DEF e, a
<1>16. /\ S \in State /\ S.v = W /\ S.n = n
  BY <1>4, <1>11, <1>13 DEF State, Moves
<1>17. AccountsOf(W, n)
  BY <1>11, <1>13, <1>14, <1>15 DEF AccountsOf, a, ca
<1>18. IsClosed(S)
  <2> HIDE DEF S
  <2> QED BY <1>3, <1>5, <1>12, <1>13, <1>16, <1>17 DEF IsClosed, AccountsOf
<1> QED BY <1>1, <1>2, <1>4, <1>11, <1>18, ClaimLands DEF V

-----------------------------------------------------------------------------
(* A step of the specification.                                            *)

PartialWithdrawNext == \E x \in 1..MaxPledged : PartialWithdrawCollateral(x)

LEMMA NextLands ==
    ASSUME Inv, Next
    PROVE  (\E S : Lands(S)) \/ (PartialWithdrawNext /\ \E S : Becomes(S) /\ Good(S))
<1>1. /\ 1..MaxPledged \subseteq Nat \ {0} /\ 1..Lent \subseteq Nat /\ 0..MaxInterest \subseteq Nat
      /\ 1..MaxInterest \subseteq Nat
  BY LoanPositionsAssumption
<1>2. CASE PositionNext
  BY <1>2, ConsolidateLands, TransferLands DEF PositionNext
<1>3. CASE ServicingNext
  <2>1. CASE \E x \in 1..MaxPledged : AddCollateral(x) \/ PartialWithdrawCollateral(x)
    <3>1. PICK x \in 1..MaxPledged : AddCollateral(x) \/ PartialWithdrawCollateral(x)
      BY <2>1
    <3>2. x \in Nat \ {0} /\ x \in Nat
      BY <1>1
    <3> QED BY <3>1, <3>2, AddLands, WithdrawPartLands DEF PartialWithdrawNext
  <2>2. CASE \E x \in 1..Lent, i \in 0..MaxInterest : RepayPartial(x, i)
    BY <1>1, <2>2, RepayPartLands
  <2>3. CASE \E y \in 1..MaxPledged, i \in 1..MaxInterest, e \in 0..MaxInterest : SettlePeriodicInterest(y, i, e)
    BY <1>1, <2>3, SettleLands
  <2> QED BY <1>3, <2>1, <2>2, <2>3 DEF ServicingNext
<1>4. CASE ClosingNext
  BY <1>1, <1>4, RepayLands, LenderLands, BorrowerLands DEF ClosingNext
<1>5. CASE WithdrawNext
  BY <1>1, <1>5, WithdrawLands, WithdrawVPFILands DEF WithdrawNext
<1>6. CASE ListNext
  BY <1>6, ListNextLands
<1> QED BY <1>2, <1>3, <1>4, <1>5, <1>6 DEF Next
-----------------------------------------------------------------------------
(* The loan at the start.                                                  *)

LEMMA FirstLedger ==
    ASSUME NEW p \in Parties, NEW q \in Parties, NEW a \in Assets, NEW x \in Nat
    PROVE  LET M == CreateCollateralLien(SetBorrower(SetLender(EmptyLedger, 1, p), 1, q), 1, a, x)
           IN  /\ M \in Ledger /\ M.ok /\ M.lender[1] = p /\ M.borrower[1] = q
               /\ M.loanCollateralLien[1] = [user |-> q, asset |-> a, amount |-> x, live |-> TRUE]
               /\ \A e \in Lanes : M.reserved[e][1] = NoReservation
               /\ \A k \in Keys : M.encumbered[k] = At(k, q, a, x)
<1> DEFINE L == SetBorrower(SetLender(EmptyLedger, 1, p), 1, q)
           r == [user |-> q, asset |-> a, amount |-> x, live |-> TRUE]
           S == SetLien(L, 1, r)
           R == Raise(S, q, a, x)
           M == Require(R, TRUE)
<1>1. /\ L \in Ledger /\ L.ok /\ L.lender[1] = p /\ L.borrower[1] = q
      /\ ~ L.loanCollateralLien[1].live
      /\ \A e \in Lanes : L.reserved[e][1] = NoReservation
      /\ \A k \in Keys : L.encumbered[k] = 0
  <2>1. EmptyLedger \in Ledger
    BY DEF EmptyLedger, Ledger, NoLien, NoReservation, Lien, Reservation
  <2>2. /\ [EmptyLedger.lender EXCEPT ![1] = p] \in [Loans -> Users \cup {NoUser}]
        /\ [EmptyLedger.lender EXCEPT ![1] = p][1] = p
        /\ [EmptyLedger.borrower EXCEPT ![1] = q] \in [Loans -> Users \cup {NoUser}]
        /\ [EmptyLedger.borrower EXCEPT ![1] = q][1] = q
    BY Basics DEF EmptyLedger
  <2>3. L = [EmptyLedger EXCEPT !.lender = [EmptyLedger.lender EXCEPT ![1] = p],
                                !.borrower = [EmptyLedger.borrower EXCEPT ![1] = q]]
    BY DEF SetLender, SetBorrower, EmptyLedger
  <2>4. /\ EmptyLedger.ok /\ ~ EmptyLedger.loanCollateralLien[1].live
        /\ \A e \in Lanes : EmptyLedger.reserved[e][1] = NoReservation
        /\ \A k \in Keys : EmptyLedger.encumbered[k] = 0
    BY Basics DEF EmptyLedger, NoLien
  <2>5. /\ L.ok = EmptyLedger.ok /\ L.loanCollateralLien = EmptyLedger.loanCollateralLien
        /\ L.reserved = EmptyLedger.reserved /\ L.encumbered = EmptyLedger.encumbered
        /\ L.lender[1] = p /\ L.borrower[1] = q
    BY <2>2, <2>3 DEF EmptyLedger
  <2>6. L \in Ledger
    BY <2>1, <2>2, <2>3 DEF Ledger
  <2> HIDE DEF L
  <2> QED BY <2>4, <2>5, <2>6
<1>2. CreateCollateralLien(L, 1, a, x) = M
  <2>1. (~ L.loanCollateralLien[1].live) = TRUE
    BY <1>1
  <2>2. r = [user |-> L.borrower[1], asset |-> a, amount |-> x, live |-> TRUE] /\ L.borrower[1] = q
    BY <1>1
  <2> HIDE DEF L, r
  <2> QED BY <2>1, <2>2 DEF CreateCollateralLien, RecreateCollateralLien
<1>3. r \in Lien
  BY Basics DEF Lien
<1> HIDE DEF L, r
<1>4. /\ S \in Ledger /\ S.loanCollateralLien[1] = r /\ S.reserved = L.reserved
      /\ S.lender = L.lender /\ S.borrower = L.borrower /\ S.ok = L.ok /\ S.encumbered = L.encumbered
  <2>1. L \in Ledger /\ 1 \in Loans
    BY <1>1, Basics
  <2>2. /\ S \in Ledger /\ S.loanCollateralLien[1] = r /\ S.reserved = L.reserved
        /\ SameParties(L, S) /\ S.ok = L.ok /\ S.encumbered = L.encumbered
    BY <1>3, <2>1, SetLienEffect
  <2> QED BY <2>2 DEF SameParties
<1> HIDE DEF S
<1>5. /\ R \in Ledger /\ SameRows(S, R) /\ R.ok = S.ok
      /\ \A k \in Keys : R.encumbered[k] = S.encumbered[k] + At(k, q, a, x)
  BY <1>4, RaiseEffect
<1> HIDE DEF R
<1>6. M \in Ledger /\ SameRows(R, M) /\ M.encumbered = R.encumbered /\ M.ok = (R.ok /\ TRUE)
  BY <1>5, RequireEffect
<1> HIDE DEF M
<1>7. /\ M.loanCollateralLien[1] = r /\ M.reserved = L.reserved
      /\ M.lender = L.lender /\ M.borrower = L.borrower
  BY <1>4, <1>5, <1>6 DEF SameRows, SameParties
<1>8. M.ok
  BY <1>1, <1>4, <1>5, <1>6
<1>9. \A k \in Keys : M.encumbered[k] = At(k, q, a, x)
  <2>1. \A k \in Keys : At(k, q, a, x) \in Int
    BY AtInt
  <2> QED BY <1>1, <1>4, <1>5, <1>6, <2>1
<1> QED BY <1>1, <1>2, <1>6, <1>7, <1>8, <1>9 DEF L, r

LEMMA InitInv == Init => Inv
<1> SUFFICES ASSUME Init PROVE Inv
  OBVIOUS
<1> DEFINE S == [v |-> vaults, n |-> loan, f |-> lock]
<1>1. PICK m \in Markets, p \in Parties, q \in Parties :
        LET L == SetBorrower(SetLender(EmptyLedger, 1, p), 1, q)
        IN  /\ p # q
            /\ vaults = [ledger |-> CreateCollateralLien(L, 1, m[2], Pledged),
                         tracked |-> [Deposits EXCEPT ![<<q, m[2]>>] = @ + Pledged],
                         depository |-> Deposits,
                         wallet |-> Purses]
            /\ loan = [status |-> "Active", principalAsset |-> m[1], collateralAsset |-> m[2],
                       principal |-> Lent, collateral |-> Pledged, held |-> 0,
                       surplus |-> NoClaim, lenderClaim |-> NoClaim, borrowerClaim |-> NoClaim,
                       holder |-> [side \in Sides |-> IF side = "lender" THEN p ELSE q]]
            /\ lock = Unlocked
  BY DEF Init
<1> DEFINE a == m[2]
           M == CreateCollateralLien(SetBorrower(SetLender(EmptyLedger, 1, p), 1, q), 1, a, Pledged)
           T == [Deposits EXCEPT ![<<q, a>>] = @ + Pledged]
<1>2. /\ a \in Assets /\ m[1] \in Assets /\ Pledged \in Nat /\ Lent \in Nat /\ <<q, a>> \in Keys
      /\ Deposits \in [Keys -> Nat]
  BY LoanPositionsAssumption, Basics DEF Keys
<1>3. vaults = [ledger |-> M, tracked |-> T, depository |-> Deposits, wallet |-> Purses]
  BY <1>1
<1>4. /\ loan.status = "Active" /\ loan.principalAsset = m[1] /\ loan.collateralAsset = a
      /\ loan.collateral = Pledged /\ loan.held = 0 /\ loan.surplus = NoClaim
      /\ loan.lenderClaim = NoClaim /\ loan.borrowerClaim = NoClaim
      /\ loan.holder \in [Sides -> Parties] /\ loan \in Loan
  <2>1. /\ [side \in Sides |-> IF side = "lender" THEN p ELSE q] \in [Sides -> Parties]
        /\ [side \in Sides |-> IF side = "lender" THEN p ELSE q] \in [Sides -> Parties \cup {NoUser}]
    OBVIOUS
  <2>2. NoClaim \in Claim
    BY DEF NoClaim, Claim
  <2> QED BY <1>1, <1>2, <2>1, <2>2 DEF Loan
<1>5. lock \in Locks
  BY <1>1 DEF Unlocked, Locks
<1>6. /\ M \in Ledger /\ M.ok /\ M.lender[1] = p /\ M.borrower[1] = q
      /\ M.loanCollateralLien[1] = [user |-> q, asset |-> a, amount |-> Pledged, live |-> TRUE]
      /\ \A e \in Lanes : M.reserved[e][1] = NoReservation
      /\ \A k \in Keys : M.encumbered[k] = At(k, q, a, Pledged)
  <2> HIDE DEF a
  <2> QED BY <1>2, FirstLedger
<1> HIDE DEF M, a
<1>7. T \in [Keys -> Int] /\ \A k \in Keys : T[k] = Deposits[k] + At(k, q, a, Pledged)
  BY <1>2 DEF At
<1> HIDE DEF T
<1>8. vaults \in Vaults /\ vaults.ledger = M /\ vaults.tracked = T /\ vaults.depository = Deposits
  BY <1>2, <1>3, <1>6, <1>7, PursesTyped DEF Vaults
<1>9. Book(vaults, m[1], a, Pledged, 0, 0)
  <2>1. \A e \in Lanes : M.reserved[e][1].amount = 0
    BY <1>6 DEF NoReservation
  <2>2. \A k : At(k, p, m[1], 0) = 0 /\ At(k, q, m[1], 0) = 0
    BY DEF At
  <2>3. \A k \in Keys : At(k, q, a, Pledged) \in Int /\ Deposits[k] \in Int
    BY <1>2, AtInt
  <2>4. Row(M.reserved["heldForLender"][1], m[1], 0) /\ Row(M.reserved["borrowerProceeds"][1], m[1], 0)
    BY <2>1, Basics DEF Row
  <2>5. ASSUME NEW k \in Keys
        PROVE  LET Due == At(k, q, a, Pledged) + At(k, p, m[1], 0) + At(k, q, m[1], 0)
               IN  M.encumbered[k] = Due /\ T[k] = Deposits[k] + Due
    BY <1>6, <1>7, <2>2, <2>3
  <2> QED BY <1>6, <1>8, <2>1, <2>4, <2>5, Basics DEF Book
<1>10. BookOf(S)
  BY <1>4, <1>9 DEF BookOf, NoClaim
<1>11. ~ loan.surplus.claimed
  BY <1>4 DEF NoClaim
<1>12. IsOpen(S)
  BY <1>4, <1>5, <1>8, <1>10, <1>11 DEF IsOpen, State
<1> QED BY <1>6, <1>8, <1>12 DEF Inv, Good, Ok

-----------------------------------------------------------------------------
(* The invariant of the specification.                                     *)

LEMMA InvHolds == Spec => []Inv
<1>1. Inv /\ [Next]_vars => Inv'
  <2> SUFFICES ASSUME Inv, [Next]_vars PROVE Inv'
    OBVIOUS
  <2>1. CASE Next
    BY <2>1, NextLands, LandsWell DEF Lands
  <2>2. CASE UNCHANGED vars
    BY <2>2 DEF vars, Inv
  <2> QED BY <2>1, <2>2
<1> QED BY InitInv, <1>1, PTL DEF Spec

(* Every loan, vault and registry is of its type, whatever the calls.      *)
THEOREM Types == Spec => []TypeOK
<1>1. Inv => TypeOK
  BY DEF Inv, Good, IsOpen, IsClosed, State, TypeOK
<1> QED BY InvHolds, <1>1, PTL

(* What the loan owes out of a vault, read off the accounts.               *)
LEMMA OwedOfAccounts ==
    ASSUME Inv, NEW u \in Parties, NEW a \in Assets
    PROVE  LET k == <<u, a>>
               pa == loan.principalAsset
               ca == loan.collateralAsset
           IN  /\ LenderClaimOwed(u, a) = At(k, Lender(Now), pa, DueOf(loan))
               /\ HeldOwed(u, a) = At(k, Lender(Now), pa, HeldOf(loan))
               /\ PledgeOwed(u, a) = At(k, Borrower(Now), ca, PledgeOf(loan))
               /\ SurplusOwed(u, a) = At(k, Borrower(Now), pa, ExtraOf(loan))
<1> DEFINE p == Lender(Now)
           q == Borrower(Now)
<1>1. /\ loan.surplus.amount \in Nat
      /\ loan.lenderClaim.claimed \in BOOLEAN /\ loan.borrowerClaim.claimed \in BOOLEAN
      /\ loan.surplus.claimed \in BOOLEAN
  BY NowGood DEF State, Loan, Claim
<1>2. \A b, x : \A y : At(<<u, a>>, y, b, x) = IF u = y /\ a = b THEN x ELSE 0
  BY DEF At
<1>3. CASE IsOpen(Now)
  <2>1. /\ loan.lenderClaim = NoClaim /\ loan.borrowerClaim = NoClaim /\ ~ loan.surplus.claimed
        /\ loan.status = "Active"
    BY <1>3, NowGood DEF IsOpen
  <2>2. /\ DueOf(loan) = 0 /\ HeldOf(loan) = loan.held /\ PledgeOf(loan) = loan.collateral
        /\ ExtraOf(loan) = loan.surplus.amount
    BY <2>1 DEF DueOf, HeldOf, PledgeOf, ExtraOf, Unclaimed, NoClaim
  <2>3. ~ loan.lenderClaim.claimed /\ ~ loan.borrowerClaim.claimed
    BY <2>1 DEF NoClaim
  <2> QED BY <1>1, <1>2, <2>1, <2>2, <2>3
          DEF LenderClaimOwed, HeldOwed, PledgeOwed, SurplusOwed, LaneOpen
<1>4. CASE IsClosed(Now)
  <2>1. /\ loan.status \in {"Repaid", "Settled"}
        /\ loan.status = "Settled" => loan.lenderClaim.claimed
        /\ loan.surplus.claimed => loan.borrowerClaim.claimed
        /\ loan.borrowerClaim.claimed => loan.surplus.claimed \/ loan.surplus.amount = 0
    BY <1>4, NowGood DEF IsClosed
  <2>2. /\ DueOf(loan) = IF loan.lenderClaim.claimed THEN 0 ELSE loan.lenderClaim.amount
        /\ HeldOf(loan) = IF loan.lenderClaim.claimed THEN 0 ELSE loan.held
        /\ PledgeOf(loan) = IF loan.borrowerClaim.claimed THEN 0 ELSE loan.collateral
        /\ ExtraOf(loan) = IF loan.borrowerClaim.claimed THEN 0 ELSE loan.surplus.amount
    BY DEF DueOf, HeldOf, PledgeOf, ExtraOf, Unclaimed
  <2>3. LenderClaimOwed(u, a) = At(<<u, a>>, p, loan.principalAsset, DueOf(loan))
    BY <1>1, <1>2, <2>1, <2>2 DEF LenderClaimOwed
  <2>4. /\ HeldOwed(u, a) = At(<<u, a>>, p, loan.principalAsset, HeldOf(loan))
        /\ PledgeOwed(u, a) = At(<<u, a>>, q, loan.collateralAsset, PledgeOf(loan))
    BY <1>1, <1>2, <2>2 DEF HeldOwed, PledgeOwed
  <2>5. SurplusOwed(u, a) = At(<<u, a>>, q, loan.principalAsset, ExtraOf(loan))
    BY <1>1, <1>2, <2>1, <2>2 DEF SurplusOwed, LaneOpen
  <2> QED BY <2>3, <2>4, <2>5
<1> QED BY <1>3, <1>4, NowGood

LEMMA BooksOfAccounts ==
    ASSUME Inv, NEW u \in Parties, NEW a \in Assets
    PROVE  /\ vaults.tracked[<<u, a>>] = vaults.depository[<<u, a>>]
                 + LenderClaimOwed(u, a) + HeldOwed(u, a) + PledgeOwed(u, a) + SurplusOwed(u, a)
           /\ vaults.ledger.encumbered[<<u, a>>] =
                 HeldOwed(u, a) + PledgeOwed(u, a) + SurplusOwed(u, a)
                     + (IF a = Vpfi THEN LenderClaimOwed(u, a) ELSE 0)
<1> DEFINE k == <<u, a>>
           p == Lender(Now)
           q == Borrower(Now)
           pa == loan.principalAsset
           ca == loan.collateralAsset
           D == At(k, p, pa, DueOf(loan))
           H == At(k, p, pa, HeldOf(loan))
           P == At(k, q, ca, PledgeOf(loan))
           X == At(k, q, pa, ExtraOf(loan))
           e == IF pa = Vpfi THEN DueOf(loan) ELSE 0
<1>1. k \in Keys
  BY Basics DEF Keys
<1>2. /\ vaults.tracked[k] = vaults.depository[k] + (P + H + X) + D
      /\ vaults.ledger.encumbered[k] = (P + H + X) + At(k, p, pa, e)
  <2>1. AccountsOf(Now.v, loan) /\ p = Now.v.ledger.lender[1] /\ q = Now.v.ledger.borrower[1]
    BY NowAccounts DEF Lender, Borrower
  <2>2. /\ Now.v.ledger = vaults.ledger /\ Now.v.tracked = vaults.tracked
        /\ Now.v.depository = vaults.depository
    BY NowGood
  <2> HIDE DEF p, q, k
  <2> QED BY <1>1, <2>1, <2>2 DEF AccountsOf, Accounts
<1>3. At(k, p, pa, e) = IF a = Vpfi THEN D ELSE 0
  BY DEF At
<1>4. D \in Int /\ H \in Int /\ P \in Int /\ X \in Int /\ vaults.depository[k] \in Int
  <2>1. loan \in Loan /\ vaults \in Vaults
    BY NowGood DEF State
  <2>2. DueOf(loan) \in Int /\ HeldOf(loan) \in Int /\ PledgeOf(loan) \in Int /\ ExtraOf(loan) \in Int
    BY <2>1, Amounts
  <2> QED BY <1>1, <2>1, <2>2, AtInt DEF Vaults
<1>5. LenderClaimOwed(u, a) = D /\ HeldOwed(u, a) = H /\ PledgeOwed(u, a) = P /\ SurplusOwed(u, a) = X
  BY OwedOfAccounts
<1> HIDE DEF D, H, P, X, e, p, pa
<1> QED BY <1>2, <1>3, <1>4, <1>5

(* However often the positions of a loan are sold, whatever its tokens     *)
(* keep of a transfer and whatever was parked, the vault of each stored    *)
(* party holds what the loan pays out of it beside the owner's deposits.   *)
THEOREM PositionsFollowed == Spec => []VaultsFollowPositions
<1>1. Inv => VaultsFollowPositions
  BY BooksOfAccounts DEF VaultsFollowPositions
<1> QED BY InvHolds, <1>1, PTL

(* All that is owed out of a vault is reserved there, and nothing more: no *)
(* former holder can withdraw it, and no owner is kept from a deposit.     *)
THEOREM OwedIsReserved == Spec => []ReservedIsOwed
<1>1. Inv => ReservedIsOwed
  BY BooksOfAccounts DEF ReservedIsOwed
<1> QED BY InvHolds, <1>1, PTL

(* A wallet that is listed and was confirmed gets nothing of the loan, in  *)
(* any call but the partial withdrawal of collateral, with the list within *)
(* reach or not.                                                           *)
THEOREM BarredGetNothing == Spec => NothingNewWhileBarred
<1> DEFINE Kept ==
       \/ \E x \in 1..MaxPledged : PartialWithdrawCollateral(x)
       \/ \A w \in lock.confirmed \cap lock.listed : \A a \in Assets :
             vaults'.wallet[<<w, a>>] + vaults'.depository[<<w, a>>] <= vaults.depository[<<w, a>>]
<1>1. ASSUME Inv, Next
      PROVE  Kept
  <2>1. CASE PartialWithdrawNext
    BY <2>1 DEF PartialWithdrawNext
  <2>2. CASE \E S : Lands(S)
    <3>1. PICK S : Lands(S)
      BY <2>2
    <3>2. vaults' = S.v /\ Quiet(Now, S)
      BY <3>1 DEF Lands, Becomes
    <3>3. /\ Now.f = lock /\ Now.v.depository = vaults.depository
          /\ \A w \in lock.confirmed \cap lock.listed : w \in Parties /\ Barred(lock, w)
      <4>1. Now.f = lock /\ Now.v.depository = vaults.depository /\ Now \in State
        BY <1>1, NowGood
      <4> QED BY <4>1 DEF State, Locks, Barred
    <3> QED BY <3>2, <3>3 DEF Quiet
  <2> QED BY <1>1, <2>1, <2>2, NextLands
<1>2. Inv /\ [Next]_vars => [Kept]_vars
  BY <1>1
<1> QED BY InvHolds, <1>2, PTL DEF Spec, NothingNewWhileBarred

=============================================================================
