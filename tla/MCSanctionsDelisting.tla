------------------------ MODULE MCSanctionsDelisting ------------------------
(***************************************************************************)
(* Instances of SanctionsDelisting for TLC.                                *)
(***************************************************************************)
EXTENDS SanctionsDelisting, TLC

CONSTANTS alice, bob, bot, attestor

(* One publication, and the next one.                                      *)
Two == {<<1, 1>>, <<2, 1>>}

One == {<<1, 1>>}

(* Nothing tells the accounts apart.                                       *)
AnyAccount == Permutations({alice, bob})

=============================================================================
