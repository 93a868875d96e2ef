--------------------------- MODULE MCLoanPositions ---------------------------
(***************************************************************************)
(* Instances of LoanPositions for TLC.                                     *)
(***************************************************************************)
EXTENDS LoanPositions

CONSTANTS vpfi, weth, ana, ben

MCNoIntent == <<>>

(* weth may keep a unit of each transfer, VPFI keeps nothing.              *)
MCWithheld == [a \in Assets |-> IF a = weth THEN 1 ELSE 0]

MCMarkets == {<<vpfi, weth>>, <<weth, vpfi>>}

MCDeposits == [k \in Keys |-> IF k = <<ana, vpfi>> THEN 1 ELSE 0]

(* No call reads a wallet as the last one left it.                         *)
WithoutWallets == <<[vaults EXCEPT !.wallet = Purses], loan, lock>>

=============================================================================
