---------------------------- MODULE LoanSettlement ----------------------------
(***************************************************************************)
(* What the protocol promises the two sides of a loan about its end,       *)
(* whatever path the loan takes to it: it closes once; from then on what   *)
(* each side will be paid is fixed, whoever comes first; each side is paid *)
(* all of it, once; and the loan is settled with the last of them.  A loan *)
(* whose fallback is pending is open, and may be running again.            *)
(***************************************************************************)
EXTENDS Integers

CONSTANT Assets

VARIABLES phase,      \* running, pending, closed or settled
          collected,  \* the sides with nothing left to come for
          owed        \* what each side will be paid of each asset

vars == <<phase, collected, owed>>

Sides == {"lender", "borrower"}

Nothing == [a \in Assets |-> 0]

Init == phase = "running" /\ collected = {} /\ owed = [s \in Sides |-> Nothing]

Suspend == phase = "running" /\ phase' = "pending" /\ UNCHANGED <<collected, owed>>

Resume == phase = "pending" /\ phase' = "running" /\ UNCHANGED <<collected, owed>>

(* A loan that was running has something for its lender to come for; the   *)
(* lender of a pending one may be paid as it closes.                       *)
Close ==
    /\ phase \in {"running", "pending"}
    /\ collected' \in SUBSET Sides
    /\ phase = "running" => "lender" \notin collected'
    /\ owed' \in [Sides -> [Assets -> Nat]]
    /\ \A s \in collected' : owed'[s] = Nothing
    /\ phase' = IF collected' = Sides THEN "settled" ELSE "closed"

Collect(s) ==
    /\ phase = "closed" /\ s \notin collected
    /\ collected' = collected \cup {s}
    /\ owed' = [owed EXCEPT ![s] = Nothing]
    /\ phase' = IF collected' = Sides THEN "settled" ELSE "closed"

Next == Suspend \/ Resume \/ Close \/ \E s \in Sides : Collect(s)

Spec == Init /\ [][Next]_vars

=============================================================================
