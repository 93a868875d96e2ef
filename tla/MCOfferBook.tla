----------------------------- MODULE MCOfferBook -----------------------------
(***************************************************************************)
(* Instances of OfferBook for TLC.                                         *)
(***************************************************************************)
EXTENDS OfferBook

CONSTANTS ann, bob, dai, weth

Term(x, xMax, c, cMax) == [amount |-> x, amountMax |-> xMax, collateral |-> c, collateralMax |-> cMax]

MCPairs == {<<dai, weth>>}

(* A single-value offer, one to be filled in parts, and a range on both    *)
(* sides.                                                                  *)
MCTerms == {Term(1, 1, 1, 1), Term(1, 3, 2, 2), Term(1, 2, 1, 3)}

MCIntentOwner == <<ann>>
MCIntentLend  == <<dai>>
MCIntentColl  == <<weth>>

MCEndowment == [k \in Keys |-> CASE k = <<ann, dai>>  -> 3
                                 [] k = <<bob, weth>> -> 3
                                 [] OTHER             -> 0]

(* No intents; terms that are filled in parts, with and without a range of *)
(* collateral, and enough tokens for three fills.                          *)
MCNoIntent == <<>>

MCFillTerms == {Term(1, 3, 3, 3), Term(2, 3, 2, 2), Term(1, 2, 1, 3)}

MCFillEndowment == [k \in Keys |-> CASE k = <<ann, dai>>  -> 4
                                     [] k = <<bob, weth>> -> 4
                                     [] OTHER             -> 0]

=============================================================================
