-------------------------- MODULE LedgerSumsProofs --------------------------
(***************************************************************************)
(* What a proof about a ledger needs to know of Total: it is a number, it  *)
(* bounds each of its terms, and changing one term changes it by exactly   *)
(* that difference.  Natural induction is used in the form of a minimal    *)
(* element (a set, not a predicate), which first-order provers can apply.  *)
(***************************************************************************)
EXTENDS LedgerSums, WellFoundedInduction, TLAPS

(* A set of naturals that holds 0 and the successor of each of its members *)
(* is all of Nat.                                                          *)
LEMMA SetInduction ==
    ASSUME NEW S \in SUBSET Nat, 0 \in S, \A n \in S : n + 1 \in S
    PROVE  S = Nat
<1>1. SUFFICES ASSUME Nat \ S # {} PROVE FALSE
  OBVIOUS
<1>2. \E x \in Nat \ S : \A y \in Nat \ S : ~ (<<y, x>> \in OpToRel(<, Nat))
  <2>1. IsWellFoundedOn(OpToRel(<, Nat), Nat)
    BY NatLessThanWellFounded
  <2>2. Nat \ S \subseteq Nat
    OBVIOUS
  <2> QED BY ONLY <1>1, <2>1, <2>2, WFMin
<1>3. PICK x \in Nat \ S : \A y \in Nat \ S : ~ (<<y, x>> \in OpToRel(<, Nat))
  BY <1>2
<1>4. x - 1 \in Nat \ S
  <2>1. x \in Nat /\ x # 0 /\ x - 1 \in Nat
    OBVIOUS
  <2>2. x - 1 \in S => (x - 1) + 1 \in S
    OBVIOUS
  <2> QED BY <2>1, <2>2
<1>5. <<x - 1, x>> \in OpToRel(<, Nat)
  BY <1>4 DEF OpToRel
<1> QED BY <1>3, <1>4, <1>5

(* The running totals exist, so the recursive function in Total is one of  *)
(* them: f[1] + ... + f[n] is well defined for every n.                    *)
LEMMA RunningExists ==
    ASSUME NEW f, NEW n \in Nat
    PROVE  \E g : Running(f, n, g)
<1> DEFINE S == {m \in Nat : \E g : Running(f, m, g)}
<1>1. 0 \in S
  <2> DEFINE g == [i \in 0..0 |-> 0]
  <2>1. Running(f, 0, g)
    BY DEF Running
  <2> QED BY <2>1
<1>2. ASSUME NEW m \in S PROVE m + 1 \in S
  <2>1. PICK g : Running(f, m, g)
    OBVIOUS
  <2> DEFINE h == [i \in 0..(m + 1) |-> IF i = m + 1 THEN g[m] + f[m + 1] ELSE g[i]]
  <2>2. h = [i \in 0..(m + 1) |-> IF i = 0 THEN 0 ELSE h[i - 1] + f[i]]
    <3>1. m \in Nat
      OBVIOUS
    <3>2. ASSUME NEW i \in 0..(m + 1)
          PROVE  h[i] = IF i = 0 THEN 0 ELSE h[i - 1] + f[i]
      <4>1. CASE i = m + 1
        BY <3>1, <4>1
      <4>2. CASE i # m + 1
        <5>1. i \in 0..m /\ (i # 0 => i - 1 \in 0..m /\ i - 1 # m + 1)
          BY <3>1, <4>2
        <5>2. g[i] = IF i = 0 THEN 0 ELSE g[i - 1] + f[i]
          BY <2>1, <5>1 DEF Running
        <5> QED BY <3>1, <4>2, <5>1, <5>2
      <4> QED BY <4>1, <4>2
    <3> HIDE DEF h
    <3>3. h = [i \in 0..(m + 1) |-> h[i]]
      BY DEF h
    <3> QED BY <3>2, <3>3
  <2> HIDE DEF h
  <2>3. Running(f, m + 1, h)
    BY <2>2 DEF Running
  <2> QED BY <2>3
<1> HIDE DEF S
<1>3. S \in SUBSET Nat
  BY DEF S
<1>4. S = Nat
  BY <1>1, <1>2, <1>3, SetInduction
<1> QED BY <1>4 DEF S

LEMMA TotalIsRunning ==
    ASSUME NEW f, NEW n \in Nat
    PROVE  \E g : /\ \A i \in 0..n : g[i] = IF i = 0 THEN 0 ELSE g[i - 1] + f[i]
                  /\ Total(f, n) = g[n]
<1> DEFINE run == CHOOSE g : Running(f, n, g)
<1>1. Running(f, n, run)
  BY RunningExists
<1>2. Total(f, n) = run[n]
  BY DEF Total, Running
<1> HIDE DEF run
<1>3. \A i \in 0..n : run[i] = IF i = 0 THEN 0 ELSE run[i - 1] + f[i]
  BY <1>1 DEF Running
<1> QED BY <1>2, <1>3

(* Two tables that differ at k only have totals that differ by f[k] and    *)
(* h[k]; with h[k] = f[k] it says equal tables have equal totals.          *)
LEMMA TotalUpdate ==
    ASSUME NEW n \in Nat, NEW f, NEW h, NEW k \in 1..n,
           \A i \in 1..n : f[i] \in Int /\ h[i] \in Int,
           \A i \in 1..n : i # k => h[i] = f[i]
    PROVE  /\ Total(f, n) \in Int
           /\ Total(h, n) = Total(f, n) - f[k] + h[k]
<1>1. PICK F : /\ \A i \in 0..n : F[i] = IF i = 0 THEN 0 ELSE F[i - 1] + f[i]
               /\ Total(f, n) = F[n]
  BY TotalIsRunning
<1>2. PICK H : /\ \A i \in 0..n : H[i] = IF i = 0 THEN 0 ELSE H[i - 1] + h[i]
               /\ Total(h, n) = H[n]
  BY TotalIsRunning
<1> DEFINE Q(i) == /\ F[i] \in Int
                   /\ H[i] = IF i < k THEN F[i] ELSE F[i] - f[k] + h[k]
           S == {i \in Nat : i <= n => Q(i)}
<1>3. 0 \in S
  BY <1>1, <1>2
<1>4. ASSUME NEW i \in S PROVE i + 1 \in S
  <2>1. SUFFICES ASSUME i + 1 <= n PROVE Q(i + 1)
    OBVIOUS
  <2>2. i + 1 \in 1..n /\ i + 1 \in 0..n /\ i + 1 # 0 /\ (i + 1) - 1 = i /\ i \in Nat
    BY <2>1
  <2>3. Q(i)
    BY <2>1, <2>2
  <2>4. F[i + 1] = F[i] + f[i + 1] /\ H[i + 1] = H[i] + h[i + 1]
    BY <1>1, <1>2, <2>2
  <2>5. CASE i + 1 = k
    BY <2>2, <2>3, <2>4, <2>5
  <2>6. CASE i + 1 # k
    <3>1. h[i + 1] = f[i + 1]
      BY <2>2, <2>6
    <3> QED BY <2>2, <2>3, <2>4, <2>6, <3>1
  <2> QED BY <2>5, <2>6
<1>5. S = Nat
  <2> HIDE DEF S
  <2>1. S \in SUBSET Nat
    BY DEF S
  <2> QED BY <1>3, <1>4, <2>1, SetInduction
<1>6. Q(n)
  BY <1>5
<1> QED BY <1>1, <1>2, <1>6

LEMMA TotalSame ==
    ASSUME NEW n \in Nat, NEW f, NEW h,
           \A i \in 1..n : f[i] \in Int /\ h[i] = f[i]
    PROVE  Total(h, n) = Total(f, n)
<1>1. CASE n = 0
  <2>1. \A x : Total(x, 0) = 0
    BY TotalIsRunning, <1>1
  <2> QED BY <1>1, <2>1
<1>2. CASE n # 0
  <2>1. n \in 1..n
    BY <1>2
  <2>2. Total(f, n) \in Int /\ Total(h, n) = Total(f, n) - f[n] + h[n]
    BY <2>1, TotalUpdate
  <2> QED BY <2>1, <2>2
<1> QED BY <1>1, <1>2

(* A total of naturals is a natural and is no less than any of its terms.  *)
LEMMA TotalBounds ==
    ASSUME NEW n \in Nat, NEW f, \A i \in 1..n : f[i] \in Nat
    PROVE  /\ Total(f, n) \in Nat
           /\ \A k \in 1..n : f[k] <= Total(f, n)
<1>1. PICK F : /\ \A i \in 0..n : F[i] = IF i = 0 THEN 0 ELSE F[i - 1] + f[i]
               /\ Total(f, n) = F[n]
  BY TotalIsRunning
<1> DEFINE Q(i) == F[i] \in Nat /\ \A k \in 1..i : f[k] <= F[i]
           S == {i \in Nat : i <= n => Q(i)}
<1>2. 0 \in S
  BY <1>1
<1>3. ASSUME NEW i \in S PROVE i + 1 \in S
  <2>1. SUFFICES ASSUME i + 1 <= n PROVE Q(i + 1)
    OBVIOUS
  <2>2. i + 1 \in 1..n /\ i + 1 \in 0..n /\ i + 1 # 0 /\ (i + 1) - 1 = i /\ i \in Nat
    BY <2>1
  <2>3. Q(i)
    BY <2>1, <2>2
  <2>4. F[i + 1] = F[i] + f[i + 1] /\ f[i + 1] \in Nat
    BY <1>1, <2>2
  <2>5. ASSUME NEW k \in 1..(i + 1) PROVE f[k] <= F[i + 1]
    <3>1. CASE k = i + 1
      BY <2>3, <2>4, <3>1
    <3>2. CASE k # i + 1
      <4>1. k \in 1..i /\ k \in 1..n
        BY <2>1, <2>2, <3>2
      <4>2. f[k] <= F[i] /\ f[k] \in Nat
        BY <2>3, <4>1
      <4> QED BY <2>3, <2>4, <4>2
    <3> QED BY <3>1, <3>2
  <2> QED BY <2>3, <2>4, <2>5
<1>4. S = Nat
  <2> HIDE DEF S
  <2>1. S \in SUBSET Nat
    BY DEF S
  <2> QED BY <1>2, <1>3, <2>1, SetInduction
<1> QED BY <1>1, <1>4

(* A total of zeros is zero.                                               *)
LEMMA TotalZero ==
    ASSUME NEW n \in Nat, NEW f, \A i \in 1..n : f[i] = 0
    PROVE  Total(f, n) = 0
<1> DEFINE S(g) == {i \in Nat : i <= n => g[i] = 0}
<1>1. PICK g : /\ \A i \in 0 .. n : g[i] = IF i = 0 THEN 0 ELSE g[i - 1] + f[i]
               /\ Total(f, n) = g[n]
  BY TotalIsRunning
<1>2. S(g) = Nat
  <2>1. 0 \in S(g)
    BY <1>1
  <2>2. ASSUME NEW m \in S(g) PROVE m + 1 \in S(g)
    <3>1. CASE m + 1 <= n
      <4>1. g[m + 1] = g[m] + f[m + 1]
        BY <1>1, <2>2, <3>1
      <4> QED BY <2>2, <3>1, <4>1
    <3> QED BY <2>2, <3>1
  <2>3. S(g) \in SUBSET Nat
    OBVIOUS
  <2> HIDE DEF S
  <2> QED BY <2>1, <2>2, <2>3, SetInduction
<1>3. n \in S(g)
  BY <1>2
<1> QED BY <1>1, <1>3

=============================================================================
