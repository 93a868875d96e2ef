----------------------------- MODULE LedgerSums -----------------------------
(***************************************************************************)
(* Sums over the identifiers of a ledger.  The protocol numbers its loans  *)
(* and offers 1, 2, 3, ..., so a table keyed by such an identifier is a    *)
(* function f on 1..n and the total it stands for is Total(f, n).  The sum *)
(* is a recursive function, not a RECURSIVE operator, so that the modules  *)
(* which use it can be proved about.                                       *)
(***************************************************************************)
EXTENDS Integers

(* g holds the running totals of f over 0..n. *)
Running(f, n, g) ==
    g = [i \in 0..n |-> IF i = 0 THEN 0 ELSE g[i - 1] + f[i]]

(* f[1] + ... + f[n]. *)
Total(f, n) ==
    LET run[i \in 0..n] == IF i = 0 THEN 0 ELSE run[i - 1] + f[i]
    IN  run[n]

(* The amount by which x exceeds y, and 0 when it does not: the ternary    *)
(* `x > y ? x - y : 0` the contracts use wherever a deduction saturates.   *)
Excess(x, y) == IF x > y THEN x - y ELSE 0

=============================================================================
