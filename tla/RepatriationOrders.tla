------------------------- MODULE RepatriationOrders -------------------------
(***************************************************************************)
(* What the repatriation protocol promises, without messages.  A Base      *)
(* orders a mirror to send it an amount of what the mirror has spare.  The *)
(* mirror decides the order once, to pay it or to void it; the Base hears  *)
(* of exactly that decision, later.  From the order until it hears that    *)
(* the order is void the Base counts the amount as charged, so it never    *)
(* offers the same tokens twice.                                           *)
(***************************************************************************)
EXTENDS Integers

CONSTANTS Bases, Ids, Amounts

VARIABLES order,    \* what the mirror has made of each order
          heard,    \* what its Base knows of it
          amount,   \* of each order
          charged,  \* by each Base
          gone      \* from the mirror

vars == <<order, heard, amount, charged, gone>>

Orders == Bases \X Ids

Phases == {"none", "issued", "paid", "void"}

TypeOK == /\ order \in [Orders -> Phases]
          /\ heard \in [Orders -> Phases]
          /\ amount \in [Orders -> Nat]
          /\ charged \in [Bases -> Int]
          /\ gone \in Int

Init == /\ order = [o \in Orders |-> "none"]
        /\ heard = [o \in Orders |-> "none"]
        /\ amount = [o \in Orders |-> 0]
        /\ charged = [b \in Bases |-> 0]
        /\ gone = 0

Issue(o, x) == /\ order[o] = "none"
               /\ order' = [order EXCEPT ![o] = "issued"]
               /\ heard' = [heard EXCEPT ![o] = "issued"]
               /\ amount' = [amount EXCEPT ![o] = x]
               /\ charged' = [charged EXCEPT ![o[1]] = @ + x]
               /\ UNCHANGED gone

Pay(o) == /\ order[o] = "issued"
          /\ order' = [order EXCEPT ![o] = "paid"]
          /\ gone' = gone + amount[o]
          /\ UNCHANGED <<heard, amount, charged>>

Void(o) == /\ order[o] = "issued"
           /\ order' = [order EXCEPT ![o] = "void"]
           /\ UNCHANGED <<heard, amount, charged, gone>>

Decided(o) == order[o] \in {"paid", "void"}

Hear(o) == /\ Decided(o) /\ heard[o] = "issued"
           /\ heard' = [heard EXCEPT ![o] = order[o]]
           /\ charged' = IF order[o] = "void"
                         THEN [charged EXCEPT ![o[1]] = @ - amount[o]] ELSE charged
           /\ UNCHANGED <<order, amount, gone>>

Next == \E o \in Orders : (\E x \in Amounts : Issue(o, x)) \/ Pay(o) \/ Void(o) \/ Hear(o)

Spec == Init /\ [][Next]_vars

(* A decision does not stay unheard.                                       *)
EveryDecisionIsHeard == \A o \in Orders : Decided(o) ~> (heard[o] = order[o])

=============================================================================
