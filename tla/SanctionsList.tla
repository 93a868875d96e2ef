---------------------------- MODULE SanctionsList ----------------------------
(***************************************************************************)
(* The sanctions list of one chain (compliance/SanctionsList.sol): the     *)
(* addresses it lists, the OFAC publication they come from, and how many   *)
(* of that publication's changes are still to be made.  A publication is a *)
(* date and a file: only the date orders two of them.                      *)
(*                                                                         *)
(* An update names the version of the list its diff was made from, so it   *)
(* applies to the list it was made for or not at all; here it is made from *)
(* the list as it is.  The adder's daily cap and the refusal of a date in  *)
(* the future are calls not made.                                          *)
(***************************************************************************)
EXTENDS Integers, FiniteSets

CONSTANTS Accounts, Publications

ASSUME ListAssumption == /\ IsFiniteSet(Accounts)
                         /\ Publications \subseteq (Nat \ {0}) \X Nat

NoPublication == <<0, 0>>

Date(p) == p[1]

Lists == [listed : SUBSET Accounts, publication : Publications, additions : Nat,
          delistings : Nat, rollback : Publications \cup {NoPublication}]

(* The update finishes the recorded publication: it makes no more changes  *)
(* than that publication declared outstanding.                             *)
Repeats(L, add, remove, p) ==
    /\ p = L.publication
    /\ Cardinality(add) <= L.additions
    /\ Cardinality(remove) <= L.delistings

(* _checkPublicationOrder: anything that is neither newer nor a repeat     *)
(* takes the owner's authorization of exactly this publication.            *)
Ordered(L, add, remove, p) ==
    \/ Date(p) > Date(L.publication)
    \/ Repeats(L, add, remove, p)
    \/ p = L.rollback

UpdateAccepted(L, add, remove, p, additionsLeft, delistingsLeft) ==
    /\ add \cap L.listed = {} /\ remove \subseteq L.listed
    /\ Ordered(L, add, remove, p)
    /\ Repeats(L, add, remove, p) =>
          /\ additionsLeft = L.additions - Cardinality(add)
          /\ delistingsLeft = L.delistings - Cardinality(remove)

(* Whatever the update used, no authorization outlives it.                 *)
Updated(L, add, remove, p, additionsLeft, delistingsLeft) ==
    [listed |-> (L.listed \cup add) \ remove, publication |-> p,
     additions |-> additionsLeft, delistings |-> delistingsLeft, rollback |-> NoPublication]

(* Only a publication that is not newer needs one.                         *)
RollbackAuthorized(L, p) == [L EXCEPT !.rollback = p]

MayAuthorize(L, p) == p = NoPublication \/ (p \in Publications /\ Date(p) <= Date(L.publication))

=============================================================================
