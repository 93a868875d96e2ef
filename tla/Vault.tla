-------------------------------- MODULE Vault --------------------------------
(***************************************************************************)
(* The users' vaults (facets/VaultFactoryFacet.sol) and what a user may    *)
(* take out of the own vault at will (facets/VaultDepositoryFacet.sol,     *)
(* libraries/LibDepositoryLedger.sol), on top of the encumbrance ledger.   *)
(*                                                                         *)
(* V is the money side of the protocol: the ledger, the balance the        *)
(* protocol tracks in each vault, the part of it the depository promises   *)
(* its owner, and the users' wallets.  A deposit must be delivered in full *)
(* (LibDelivery.pullExact), and a vault holds at least its tracked         *)
(* balance: tokens sent to it directly are not counted.  Loans whose       *)
(* collateral is an ERC-721 or ERC-1155, and the queue of payouts of       *)
(* protected accounts, are not modelled.                                   *)
(***************************************************************************)
EXTENDS Encumbrance

Vaults == [ledger     : Ledger,
           tracked    : [Keys -> Int],   \* protocolTrackedVaultBalance
           depository : [Keys -> Nat],   \* depositoryHolding
           wallet     : [Keys -> Int]]   \* ERC-20 balances outside the protocol

Ok(V) == V.ledger.ok

On(V, L) == [V EXCEPT !.ledger = L]

Guarded(V, p) == On(V, Require(V.ledger, p))

(* What of the tracked balance nothing is owed out of.                     *)
Free(V, u, a) == FreeBalance(V.ledger, u, a, V.tracked[<<u, a>>])

VaultDepositERC20From(V, payer, u, a, x) ==
    Guarded([V EXCEPT !.wallet[<<payer, a>>] = @ - x, !.tracked[<<u, a>>] = @ + x],
            x <= V.wallet[<<payer, a>>])

VaultDepositERC20(V, u, a, x) == VaultDepositERC20From(V, u, u, a, x)

(* _assertWithdrawAllowed, then the transfer.                              *)
VaultWithdrawERC20(V, u, a, to, x) ==
    Guarded([V EXCEPT !.tracked[<<u, a>>] = @ - x, !.wallet[<<to, a>>] = @ + x],
            x <= Free(V, u, a))

(* A withdraw that is skipped when there is nothing to move.               *)
Refund(V, u, a, x) == IF x > 0 THEN VaultWithdrawERC20(V, u, a, u, x) ELSE V

-----------------------------------------------------------------------------
(* LibDepositoryLedger: credit, debit, spend.                              *)

Credit(V, u, a, x) == [V EXCEPT !.depository[<<u, a>>] = @ + x]

Debit(V, u, a, x) ==
    Guarded([V EXCEPT !.depository[<<u, a>>] = Excess(@, x)], x <= V.depository[<<u, a>>])

(* Mutant: a spend of more than is recorded is not cut off at zero.        *)
SpendUnsaturated(V, u, a, x) == [V EXCEPT !.depository[<<u, a>>] = @ - x]

Spend(V, u, a, x) == [V EXCEPT !.depository[<<u, a>>] = Excess(@, x)]

(* depositToVault.                                                         *)
DepositToVault(V, u, a, x) == Credit(VaultDepositERC20(V, u, a, x), u, a, x)

WithdrawableNow(V, u, a) == AtMost(V.depository[<<u, a>>], Free(V, u, a))

(* withdrawFromVault.                                                      *)
WithdrawFromVault(V, u, a, to, x) ==
    VaultWithdrawERC20(Debit(Guarded(V, x <= WithdrawableNow(V, u, a)), u, a, x), u, a, to, x)

-----------------------------------------------------------------------------
(* Whatever the rows of the ledger say is owed out of a vault is in it.    *)
Solvent(V) == \A k \in Keys : V.ledger.encumbered[k] \in 0..V.tracked[k]

(* What the depository promises a user is not owed to anybody else.        *)
Promised(V) == \A k \in Keys : V.depository[k] <= Free(V, k[1], k[2])

=============================================================================
