---------------------------- MODULE MCFallbackLoan ----------------------------
(***************************************************************************)
(* Instances of FallbackLoan for TLC.                                      *)
(***************************************************************************)
EXTENDS FallbackLoan

CONSTANTS dai, vpfi, weth

MCNoIntent == <<>>

(* weth may keep a unit of each transfer, or no token keeps anything.      *)
MCWithheld        == [a \in Assets |-> IF a = weth THEN 1 ELSE 0]
MCNothingWithheld == [a \in Assets |-> 0]

(* A unit of VPFI in both vaults; one of what is lent in the lender's and  *)
(* one of what is pledged in the borrower's; nothing.                      *)
MCVpfiDeposits == [k \in Keys |-> IF k \in {<<Lender, vpfi>>, <<Borrower, vpfi>>} THEN 1 ELSE 0]
MCDeposits     == [k \in Keys |-> IF k \in {<<Lender, Principal>>, <<Borrower, Collateral>>} THEN 1 ELSE 0]
MCNoDeposits   == [k \in Keys |-> 0]

=============================================================================
