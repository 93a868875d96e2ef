---------------------------- MODULE SanctionsLock ----------------------------
(***************************************************************************)
(* What the protocol remembers of a sanctions list it may fail to reach    *)
(* (libraries/LibSanctionedLock.sol and the screens of LibVaipakam.sol).   *)
(*                                                                         *)
(* A value F has the list and whether it answers, which are the world's;   *)
(* the registry of the wallets a readable list has confirmed; and, for the *)
(* two sides of a loan, the claimant its proceeds were frozen for.  Some   *)
(* screens fail open (an unreachable list refuses nobody), others closed   *)
(* (they fall back on the registry, or refuse everybody).  Bans inherited  *)
(* from a wallet that was recovered, and a protocol without a list, are    *)
(* not modelled.                                                           *)
(***************************************************************************)
CONSTANTS Wallets, Nobody

Sides == {"lender", "borrower"}

Locks == [listed    : SUBSET Wallets,
          up        : BOOLEAN,
          confirmed : SUBSET Wallets,                       \* sanctionsConfirmedFlagged
          marker    : [Sides -> Wallets \cup {Nobody}]]     \* sanctionsLocked<Side>Claimant

Unlocked == [listed |-> {}, up |-> TRUE, confirmed |-> {}, marker |-> [side \in Sides |-> Nobody]]

(* The screen of a caller fails open; the one of a release fails closed.   *)
IsSanctioned(F, w) == F.up /\ w \in F.listed

ProvenClean(F, w) == F.up /\ w \notin F.listed

(* A list that can be read is mirrored in the registry.                    *)
Screened(F, w) ==
    [F EXCEPT !.confirmed = IF ~ F.up THEN @ ELSE IF w \in F.listed THEN @ \cup {w} ELSE @ \ {w}]

(* Mutant: an unreachable list freezes nobody, confirmed or not.           *)
MustFreezeFailOpen(F, w) == IsSanctioned(F, w)

(* mustFreezeParty, which leaves Screened(F, w).                           *)
MustFreeze(F, w) == w \in Screened(F, w).confirmed

(* The first claimant frozen stays recorded until it is proven clean: then *)
(* it gives way to a later one, or to nobody once the holder is clean too. *)
RecordFrozenClaimant(F, side, w) ==
    LET G    == Screened(F, w)
        p    == F.marker[side]
        moot == p = Nobody \/ p = w \/ ProvenClean(F, p)
        Mark(q) == [G EXCEPT !.marker[side] = q, !.confirmed = @ \ ({p} \ {w})]
    IN  CASE w = Nobody                             -> F
          [] w # Nobody /\ ~ moot                    -> G
          [] w # Nobody /\ moot /\ MustFreeze(F, w)  -> Mark(w)
          [] w # Nobody /\ moot /\ ProvenClean(F, w) -> Mark(Nobody)
          [] w # Nobody /\ moot /\ ~ MustFreeze(F, w) /\ ~ ProvenClean(F, w) -> F

(* recordSanctionsFrozenClaimantBoth, of the holders of both positions.    *)
RecordBoth(F, holder) ==
    RecordFrozenClaimant(RecordFrozenClaimant(F, "lender", holder["lender"]),
                         "borrower", holder["borrower"])

(* assertPositionMoveNotSanctioned: a position moves between wallets that  *)
(* are neither listed nor, while the list is out of reach, confirmed.      *)
MayMove(F, from, to) == ~ MustFreeze(F, from) /\ ~ MustFreeze(F, to)

Moved(F, from, to) == Screened(Screened(F, from), to)

(* The gate of a claim: a side frozen for somebody is paid when they are   *)
(* proven clean, whoever holds the position now.                           *)
MayRelease(F, side) == F.marker[side] = Nobody \/ ProvenClean(F, F.marker[side])

Released(F, side) ==
    [F EXCEPT !.marker[side] = Nobody, !.confirmed = @ \ {F.marker[side]}]

=============================================================================
