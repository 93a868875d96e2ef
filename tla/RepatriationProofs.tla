------------------------- MODULE RepatriationProofs -------------------------
(***************************************************************************)
(* Proofs about Repatriation, for any number of Bases, orders and days and *)
(* any amounts.  Inv is inductive.  Its parts say what a message in flight *)
(* still says of its sender (MessagesTrue), that the two records of an     *)
(* order agree (RecordsTrue, OneOutcome), that no Base promises more than  *)
(* it was told of (Covered), and, for a mirror that serves one Base only,  *)
(* how the two ledgers add up (LedgersMeet).  Transit, on top of it, is    *)
(* what the tokens on their way need.                                      *)
(***************************************************************************)
EXTENDS Repatriation, LedgerSumsProofs, FiniteSetTheorems

MessageTrue(p) ==
    LET o == <<p.base, p.id>>
        k == <<p.base, p.day>>
    IN  /\ p.type = "instruct" => auth[o].status # "none" /\ p.amount = auth[o].amount
        /\ p.type = "cancel" => auth[o].status # "none"
        /\ p.type = "ack" => instr[o].state = "tombstoned"
        /\ p.type = "return" => instr[o].state = "executed" /\ p.amount = auth[o].amount
        /\ p.type = "broadcast" =>
              stamp[k].stamped /\ stamp[k].commit = p.commit /\ stamp[k].keep = p.keep
        /\ p.type = "report" => /\ p.credited <= mirror.credited
                                /\ p.retired <= mirror.retired
                                /\ p.released <= mirror.released

MessagesTrue == \A p \in msgs : MessageTrue(p)

RecordsTrue ==
    \A o \in Bases \X Ids :
        /\ instr[o].state # "none" => auth[o].status # "none"
        /\ instr[o].state \in {"pending", "executed"} => instr[o].amount = auth[o].amount

Covered ==
    \A b \in Bases :
        base[b].consumed + base[b].draw + base[b].keeper <= base[b].reported + base[b].released

StampsTrue ==
    /\ \A k \in Bases \X Days : ~ stamp[k].stamped => stamp[k].commit = 0 /\ stamp[k].keep = 0
    /\ \A d \in applied : \E b \in Bases : stamp[<<b, d>>].stamped

BucketBacked == mirror.bucket + mirror.paidOut + mirror.out >= mirror.credited

DaysMeet(b) ==
    base[b].consumed + base[b].keeper
        = mirror.outstanding + mirror.retired + mirror.keeper + Unapplied(b)

OrdersMeet(b) == base[b].draw = mirror.out + Unexecuted(b)

LedgersMeet == \A b \in Bases : Bases = {b} => DaysMeet(b) /\ OrdersMeet(b)

Inv == /\ TypeOK /\ MessagesTrue /\ RecordsTrue /\ OneOutcome /\ BooksLag
       /\ DrawIsCharged /\ Covered /\ StampsTrue /\ BucketBacked /\ LedgersMeet

-----------------------------------------------------------------------------
(* Which operations change what.                                           *)

LEMMA Frames ==
    /\ \A x : Absorb(x) => UNCHANGED <<base, auth, stamp, instr, bound, era, closed, applied, msgs>>
    /\ \A x : SettleClaim(x) =>
          UNCHANGED <<base, auth, stamp, instr, bound, era, closed, applied, msgs>>
    /\ \A x : ReleaseCommitment(x) =>
          UNCHANGED <<base, auth, stamp, instr, bound, era, closed, applied, msgs>>
    /\ \A d : CloseDay(d) => UNCHANGED <<base, auth, stamp, mirror, instr, bound, era, applied>>
    /\ \A b, d : OnBroadcast(b, d) =>
          UNCHANGED <<base, auth, stamp, instr, bound, era, closed, msgs>>
    /\ \A b, i : OnInstruction(b, i) =>
          UNCHANGED <<base, auth, stamp, mirror, bound, era, closed, applied, msgs>>
    /\ \A b, i : OnCancelInstruction(b, i) =>
          UNCHANGED <<base, auth, stamp, mirror, bound, era, closed, applied, msgs>>
    /\ \A b, i : ExecuteRepatriation(b, i) =>
          UNCHANGED <<base, auth, stamp, bound, era, closed, applied>>
    /\ \A b, i : SendCancelAck(b, i) =>
          UNCHANGED <<base, auth, stamp, mirror, instr, bound, era, closed, applied>>
    /\ \A b : SetBaseChainId(b) =>
          UNCHANGED <<base, auth, stamp, mirror, instr, era, closed, applied, msgs>>
    /\ \A b : SetBaseRewardDeployment(b) =>
          UNCHANGED <<base, auth, stamp, mirror, instr, bound, closed, applied, msgs>>
    /\ \A p : OnChainReport(p) =>
          UNCHANGED <<auth, stamp, mirror, instr, bound, era, closed, applied>>
    /\ \A b, d, x, k : FinalizeDay(b, d, x, k) =>
          UNCHANGED <<auth, mirror, instr, bound, era, closed, applied, msgs>>
    /\ \A b, d : BroadcastDay(b, d) =>
          UNCHANGED <<base, auth, stamp, mirror, instr, bound, era, closed, applied>>
    /\ \A b, i, x : AuthorizeRepatriation(b, i, x) =>
          UNCHANGED <<stamp, mirror, instr, bound, era, closed, applied, msgs>>
    /\ \A b, i : SendInstruction(b, i) =>
          UNCHANGED <<base, auth, stamp, mirror, instr, bound, era, closed, applied>>
    /\ \A b, i : RequestCancel(b, i) =>
          UNCHANGED <<base, auth, stamp, mirror, instr, bound, era, closed, applied>>
    /\ \A b, i, short : OnReturn(b, i, short) =>
          UNCHANGED <<stamp, mirror, instr, bound, era, closed, applied>>
    /\ \A b, i : OnCancelAck(b, i) =>
          UNCHANGED <<stamp, mirror, instr, bound, era, closed, applied, msgs>>
<1>1. \A x : Absorb(x) => UNCHANGED <<base, auth, stamp, instr, bound, era, closed, applied, msgs>>
  BY DEF Absorb
<1>2. \A x : SettleClaim(x) =>
          UNCHANGED <<base, auth, stamp, instr, bound, era, closed, applied, msgs>>
  BY DEF SettleClaim
<1>3. \A x : ReleaseCommitment(x) =>
          UNCHANGED <<base, auth, stamp, instr, bound, era, closed, applied, msgs>>
  BY DEF ReleaseCommitment
<1>4. \A d : CloseDay(d) => UNCHANGED <<base, auth, stamp, mirror, instr, bound, era, applied>>
  BY DEF CloseDay
<1>5. \A b, d : OnBroadcast(b, d) => UNCHANGED <<base, auth, stamp, instr, bound, era, closed, msgs>>
  BY DEF OnBroadcast
<1>6. \A b, i : OnInstruction(b, i) =>
          UNCHANGED <<base, auth, stamp, mirror, bound, era, closed, applied, msgs>>
  BY DEF OnInstruction
<1>7. \A b, i : OnCancelInstruction(b, i) =>
          UNCHANGED <<base, auth, stamp, mirror, bound, era, closed, applied, msgs>>
  BY DEF OnCancelInstruction
<1>8. \A b, i : ExecuteRepatriation(b, i) =>
          UNCHANGED <<base, auth, stamp, bound, era, closed, applied>>
  BY DEF ExecuteRepatriation
<1>9. \A b, i : SendCancelAck(b, i) =>
          UNCHANGED <<base, auth, stamp, mirror, instr, bound, era, closed, applied>>
  BY DEF SendCancelAck
<1>10. \A b : SetBaseChainId(b) =>
          UNCHANGED <<base, auth, stamp, mirror, instr, era, closed, applied, msgs>>
  BY DEF SetBaseChainId
<1>11. \A p : OnChainReport(p) =>
          UNCHANGED <<auth, stamp, mirror, instr, bound, era, closed, applied>>
  BY DEF OnChainReport
<1>12. \A b, d, x, k : FinalizeDay(b, d, x, k) =>
          UNCHANGED <<auth, mirror, instr, bound, era, closed, applied, msgs>>
  BY DEF FinalizeDay
<1>13. \A b, d : BroadcastDay(b, d) =>
          UNCHANGED <<base, auth, stamp, mirror, instr, bound, era, closed, applied>>
  BY DEF BroadcastDay
<1>14. \A b, i, x : AuthorizeRepatriation(b, i, x) =>
          UNCHANGED <<stamp, mirror, instr, bound, era, closed, applied, msgs>>
  BY DEF AuthorizeRepatriation
<1>15. \A b, i : SendInstruction(b, i) =>
          UNCHANGED <<base, auth, stamp, mirror, instr, bound, era, closed, applied>>
  BY DEF SendInstruction
<1>16. \A b, i : RequestCancel(b, i) =>
          UNCHANGED <<base, auth, stamp, mirror, instr, bound, era, closed, applied>>
  BY DEF RequestCancel
<1>17. \A b, i, short : OnReturn(b, i, short) =>
          UNCHANGED <<stamp, mirror, instr, bound, era, closed, applied>>
  BY DEF OnReturn
<1>18. \A b, i : OnCancelAck(b, i) =>
          UNCHANGED <<stamp, mirror, instr, bound, era, closed, applied, msgs>>
  BY DEF OnCancelAck
<1>19. \A b : SetBaseRewardDeployment(b) =>
          UNCHANGED <<base, auth, stamp, mirror, instr, bound, closed, applied, msgs>>
  BY DEF SetBaseRewardDeployment
<1> QED BY <1>1, <1>2, <1>3, <1>4, <1>5, <1>6, <1>7, <1>8, <1>9,
           <1>10, <1>11, <1>12, <1>13, <1>14, <1>15, <1>16, <1>17, <1>18, <1>19

LEMMA MirrorSteps ==
    ASSUME [Next]_vars
    PROVE  \/ UNCHANGED mirror
           \/ \E x \in Amounts : Absorb(x)
           \/ \E x \in Amounts : SettleClaim(x)
           \/ \E x \in Amounts : ReleaseCommitment(x)
           \/ \E b \in Bases, d \in Days : OnBroadcast(b, d)
           \/ \E b \in Bases, i \in Ids : ExecuteRepatriation(b, i)
<1>1. CASE UNCHANGED vars
  BY <1>1 DEF vars
<1>2. CASE MirrorNext
  BY <1>2, Frames DEF MirrorNext
<1>3. CASE BaseNext
  BY <1>3, Frames DEF BaseNext
<1> QED BY <1>1, <1>2, <1>3 DEF Next

LEMMA AppliedSteps ==
    ASSUME [Next]_vars
    PROVE  \/ UNCHANGED applied
           \/ \E b \in Bases, d \in Days : OnBroadcast(b, d)
<1>1. CASE UNCHANGED vars
  BY <1>1 DEF vars
<1>2. CASE MirrorNext
  BY <1>2, Frames DEF MirrorNext
<1>3. CASE BaseNext
  BY <1>3, Frames DEF BaseNext
<1> QED BY <1>1, <1>2, <1>3 DEF Next

LEMMA InstrSteps ==
    ASSUME [Next]_vars
    PROVE  \/ UNCHANGED instr
           \/ \E b \in Bases, i \in Ids : OnInstruction(b, i)
           \/ \E b \in Bases, i \in Ids : OnCancelInstruction(b, i)
           \/ \E b \in Bases, i \in Ids : ExecuteRepatriation(b, i)
<1>1. CASE UNCHANGED vars
  BY <1>1 DEF vars
<1>2. CASE MirrorNext
  BY <1>2, Frames DEF MirrorNext
<1>3. CASE BaseNext
  BY <1>3, Frames DEF BaseNext
<1> QED BY <1>1, <1>2, <1>3 DEF Next

LEMMA StampSteps ==
    ASSUME [Next]_vars
    PROVE  \/ UNCHANGED stamp
           \/ \E b \in Bases, d \in Days, x, k \in 0 .. MaxAmount : FinalizeDay(b, d, x, k)
<1>1. CASE UNCHANGED vars
  BY <1>1 DEF vars
<1>2. CASE MirrorNext
  BY <1>2, Frames DEF MirrorNext
<1>3. CASE BaseNext
  BY <1>3, Frames DEF BaseNext
<1> QED BY <1>1, <1>2, <1>3 DEF Next

LEMMA OrderSteps ==
    ASSUME [Next]_vars
    PROVE  \/ UNCHANGED <<auth, base>>
           \/ \E p \in msgs : OnChainReport(p)
           \/ \E b \in Bases, d \in Days, x, k \in 0 .. MaxAmount : FinalizeDay(b, d, x, k)
           \/ \E b \in Bases, i \in Ids, x \in Amounts : AuthorizeRepatriation(b, i, x)
           \/ \E b \in Bases, i \in Ids, short \in 0 .. MaxShort : OnReturn(b, i, short)
           \/ \E b \in Bases, i \in Ids : OnCancelAck(b, i)
<1>1. CASE UNCHANGED vars
  BY <1>1 DEF vars
<1>2. CASE MirrorNext
  BY <1>2, Frames DEF MirrorNext
<1>3. CASE BaseNext
  BY <1>3, Frames DEF BaseNext
<1> QED BY <1>1, <1>2, <1>3 DEF Next

LEMMA AuthSteps ==
    ASSUME [Next]_vars
    PROVE  \/ UNCHANGED auth
           \/ \E b \in Bases, i \in Ids, x \in Amounts : AuthorizeRepatriation(b, i, x)
           \/ \E b \in Bases, i \in Ids, short \in 0 .. MaxShort : OnReturn(b, i, short)
           \/ \E b \in Bases, i \in Ids : OnCancelAck(b, i)
<1>1. CASE UNCHANGED vars
  BY <1>1 DEF vars
<1>2. CASE MirrorNext
  BY <1>2, Frames DEF MirrorNext
<1>3. CASE BaseNext
  BY <1>3, Frames DEF BaseNext
<1> QED BY <1>1, <1>2, <1>3 DEF Next

LEMMA MsgSteps ==
    ASSUME [Next]_vars
    PROVE  \/ msgs' \subseteq msgs
           \/ \E d \in Days : CloseDay(d)
           \/ \E b \in Bases, i \in Ids : ExecuteRepatriation(b, i)
           \/ \E b \in Bases, i \in Ids : SendCancelAck(b, i)
           \/ \E b \in Bases, d \in Days : BroadcastDay(b, d)
           \/ \E b \in Bases, i \in Ids : SendInstruction(b, i)
           \/ \E b \in Bases, i \in Ids : RequestCancel(b, i)
<1>1. CASE UNCHANGED vars
  BY <1>1 DEF vars
<1>2. CASE MirrorNext
  BY <1>2, Frames DEF MirrorNext
<1>3. \A p : OnChainReport(p) => msgs' \subseteq msgs
  BY DEF OnChainReport
<1>4. \A b, i, short : OnReturn(b, i, short) => msgs' \subseteq msgs
  BY DEF OnReturn
<1>5. CASE BaseNext
  BY <1>3, <1>4, <1>5, Frames DEF BaseNext
<1> QED BY <1>1, <1>2, <1>5 DEF Next

LEMMA OutcomeSteps ==
    ASSUME [Next]_vars
    PROVE  \/ UNCHANGED <<auth, instr, msgs>>
           \/ \E d \in Days : CloseDay(d)
           \/ \E b \in Bases, i \in Ids : OnInstruction(b, i)
           \/ \E b \in Bases, i \in Ids : OnCancelInstruction(b, i)
           \/ \E b \in Bases, i \in Ids : ExecuteRepatriation(b, i)
           \/ \E b \in Bases, i \in Ids : SendCancelAck(b, i)
           \/ \E p \in msgs : OnChainReport(p)
           \/ \E b \in Bases, d \in Days : BroadcastDay(b, d)
           \/ \E b \in Bases, i \in Ids, x \in Amounts : AuthorizeRepatriation(b, i, x)
           \/ \E b \in Bases, i \in Ids : SendInstruction(b, i)
           \/ \E b \in Bases, i \in Ids : RequestCancel(b, i)
           \/ \E b \in Bases, i \in Ids, short \in 0 .. MaxShort : OnReturn(b, i, short)
           \/ \E b \in Bases, i \in Ids : OnCancelAck(b, i)
<1>1. CASE UNCHANGED vars
  BY <1>1 DEF vars
<1>2. CASE MirrorNext
  BY <1>2, Frames DEF MirrorNext
<1>3. CASE BaseNext
  BY <1>3, Frames DEF BaseNext
<1> QED BY <1>1, <1>2, <1>3 DEF Next

-----------------------------------------------------------------------------
(* The state keeps its types.                                              *)

LEMMA InitType == Init => TypeOK
BY RepatriationAssumption DEF Init, TypeOK, Books, Auths, Stamps, Ledgers, Instrs, Messages

LEMMA LedgerTypes ==
    ASSUME NEW m \in Ledgers, NEW x \in Nat
    PROVE  /\ Credited(m, x) \in Ledgers
           /\ Consumed(m, x) \in Ledgers
           /\ ReleasedOf(m, x) \in Ledgers
           /\ x <= Fundable(m) => Repatriated(m, x) \in Ledgers /\ x <= m.bucket
<1> DEFINE done == Smaller(x, m.outstanding)
<1>1. /\ m.bucket \in Nat /\ m.credited \in Nat /\ m.paidOut \in Nat /\ m.outstanding \in Nat
      /\ m.retired \in Nat /\ m.released \in Nat /\ m.keeper \in Nat /\ m.out \in Nat
  BY DEF Ledgers
<1>2. /\ m.bucket + x \in Nat /\ m.credited + x \in Nat /\ m.paidOut + x \in Nat /\ m.out + x \in Nat
      /\ Excess(m.bucket, x) \in Nat
      /\ m.outstanding - done \in Nat /\ m.retired + done \in Nat /\ m.released + done \in Nat
  BY <1>1 DEF Excess, Smaller
<1> HIDE DEF done
<1>3. Credited(m, x) \in Ledgers
  BY <1>2 DEF Credited, Ledgers
<1>4. Consumed(m, x) \in Ledgers
  BY <1>2 DEF Consumed, Ledgers, done
<1>5. ReleasedOf(m, x) \in Ledgers
  BY <1>2 DEF ReleasedOf, Ledgers, done
<1>6. ASSUME x <= Fundable(m) PROVE x <= m.bucket
  BY <1>1, <1>6 DEF Fundable, Excess
<1>7. ASSUME x <= Fundable(m) PROVE Repatriated(m, x) \in Ledgers
  <2>1. m.bucket - x \in Nat
    BY <1>1, <1>6, <1>7
  <2> QED BY <1>2, <2>1 DEF Repatriated, Ledgers
<1> QED BY <1>3, <1>4, <1>5, <1>6, <1>7

LEMMA BookFields ==
    ASSUME NEW B \in Books
    PROVE  /\ B.reported \in Nat /\ B.consumed \in Nat /\ B.outstanding \in Nat /\ B.retired \in Nat
           /\ B.released \in Nat /\ B.draw \in Nat /\ B.keeper \in Nat /\ B.relocated \in Nat
           /\ Avail(B) \in Nat
BY DEF Books, Avail, Excess

LEMMA BookTypes ==
    ASSUME NEW B \in Books
    PROVE  /\ \A x, k \in Nat : Funded(B, x, k) \in Books
           /\ \A p : p.credited \in Nat /\ p.retired \in Nat /\ p.released \in Nat
                   => Informed(B, p) \in Books
<1>1. ASSUME NEW x \in Nat, NEW k \in Nat PROVE Funded(B, x, k) \in Books
  <2>1. B.consumed + x \in Nat /\ B.outstanding + x \in Nat /\ B.keeper + k \in Nat
    BY BookFields
  <2> QED BY <2>1 DEF Funded, Books
<1>2. ASSUME NEW p, p.credited \in Nat, p.retired \in Nat, p.released \in Nat
      PROVE  Informed(B, p) \in Books
  <2> DEFINE retired  == Larger(B.retired, Smaller(p.retired, B.consumed))
             released == Larger(B.released, Smaller(p.released, retired))
             reported == Larger(B.reported, p.credited)
  <2>1. retired \in Nat /\ reported \in Nat
    BY <1>2, BookFields DEF Larger, Smaller
  <2> HIDE DEF retired, reported
  <2>2. released \in Nat /\ Excess(B.outstanding, retired - B.retired) \in Nat
    BY <1>2, <2>1, BookFields DEF Larger, Smaller, Excess
  <2> HIDE DEF released
  <2>3. Informed(B, p) = [B EXCEPT !.reported = reported, !.retired = retired,
                            !.outstanding = Excess(B.outstanding, retired - B.retired),
                            !.released = released]
    BY DEF Informed, retired, released, reported, Books
  <2> QED BY <2>1, <2>2, <2>3 DEF Books
<1> QED BY <1>1, <1>2

(* A report carries numbers.                                               *)
LEMMA ReportTypes ==
    ASSUME TypeOK, NEW p \in msgs, p.type = "report"
    PROVE  p.base \in Bases /\ p.day \in Days
             /\ p.credited \in Nat /\ p.retired \in Nat /\ p.released \in Nat
BY DEF TypeOK, Messages

LEMMA InstructionTypes ==
    ASSUME TypeOK, NEW p \in msgs
    PROVE  /\ p.type = "instruct" => p.amount \in Nat
           /\ p.type = "broadcast" => p.commit \in Nat /\ p.keep \in Nat
BY DEF TypeOK, Messages

LEMMA MirrorType ==
    ASSUME TypeOK, MirrorNext PROVE TypeOK'
<1> USE DEF TypeOK
<1>1. ASSUME NEW x \in Amounts, Absorb(x) \/ SettleClaim(x) \/ ReleaseCommitment(x)
      PROVE  TypeOK'
  <2>1. x \in Nat
    BY RepatriationAssumption DEF Amounts
  <2>2. mirror' \in Ledgers
    BY <1>1, <2>1, LedgerTypes DEF Absorb, SettleClaim, ReleaseCommitment
  <2> QED BY <1>1, <2>2 DEF Absorb, SettleClaim, ReleaseCommitment
<1>2. ASSUME NEW d \in Days, CloseDay(d) PROVE TypeOK'
  <2>1. bound \in Bases
    BY <1>2 DEF CloseDay
  <2>2. Report(bound, d, mirror) \in Messages
    BY <2>1 DEF Report, Messages, Ledgers
  <2> QED BY <1>2, <2>2 DEF CloseDay
<1>3. ASSUME NEW b \in Bases, NEW d \in Days, OnBroadcast(b, d) PROVE TypeOK'
  <2>1. PICK p \in msgs :
          /\ p.type = "broadcast"
          /\ mirror' = [mirror EXCEPT !.outstanding = @ + p.commit, !.keeper = @ + p.keep]
    BY <1>3 DEF OnBroadcast
  <2>2. p.commit \in Nat /\ p.keep \in Nat
    BY <2>1, InstructionTypes
  <2>3. mirror.outstanding + p.commit \in Nat /\ mirror.keeper + p.keep \in Nat
    BY <2>2 DEF Ledgers
  <2>4. mirror' \in Ledgers
    BY <2>1, <2>3 DEF Ledgers
  <2> QED BY <1>3, <2>4 DEF OnBroadcast
<1>4. ASSUME NEW b \in Bases, NEW i \in Ids, OnInstruction(b, i) PROVE TypeOK'
  <2>1. PICK p \in msgs :
          /\ p.type = "instruct"
          /\ instr' = [instr EXCEPT ![<<b, i>>] = [state |-> "pending", amount |-> p.amount]]
    BY <1>4 DEF OnInstruction
  <2>2. p.amount \in Nat
    BY <2>1, InstructionTypes
  <2>3. instr' \in [Bases \X Ids -> Instrs]
    BY <2>1, <2>2 DEF Instrs
  <2> QED BY <1>4, <2>3 DEF OnInstruction
<1>5. ASSUME NEW b \in Bases, NEW i \in Ids, OnCancelInstruction(b, i) PROVE TypeOK'
  <2>1. instr' \in [Bases \X Ids -> Instrs]
    BY <1>5 DEF OnCancelInstruction, Instrs
  <2> QED BY <1>5, <2>1 DEF OnCancelInstruction
<1>6. ASSUME NEW b \in Bases, NEW i \in Ids, ExecuteRepatriation(b, i) PROVE TypeOK'
  <2> DEFINE x == instr[<<b, i>>].amount
  <2>1. x \in Nat
    BY DEF Instrs
  <2>2. mirror' \in Ledgers
    BY <1>6, <2>1, LedgerTypes DEF ExecuteRepatriation
  <2>3. instr' \in [Bases \X Ids -> Instrs]
    BY <1>6 DEF ExecuteRepatriation, Instrs
  <2>4. Return(b, i, x) \in Messages
    BY <2>1 DEF Return, Messages
  <2> QED BY <1>6, <2>2, <2>3, <2>4 DEF ExecuteRepatriation
<1>7. ASSUME NEW b \in Bases, NEW i \in Ids, SendCancelAck(b, i) PROVE TypeOK'
  <2>1. Ack(b, i) \in Messages
    BY DEF Ack, Messages
  <2> QED BY <1>7, <2>1 DEF SendCancelAck
<1>8. ASSUME NEW b \in Bases \cup {NoBase}, SetBaseChainId(b) PROVE TypeOK'
  BY <1>8 DEF SetBaseChainId
<1>9. ASSUME NEW b \in Bases, SetBaseRewardDeployment(b) PROVE TypeOK'
  BY <1>9 DEF SetBaseRewardDeployment
<1> QED BY <1>1, <1>2, <1>3, <1>4, <1>5, <1>6, <1>7, <1>8, <1>9 DEF MirrorNext

LEMMA BaseType ==
    ASSUME TypeOK, BaseNext PROVE TypeOK'
<1> USE DEF TypeOK
<1>1. ASSUME NEW p \in msgs, OnChainReport(p) PROVE TypeOK'
  <2>1. p.base \in Bases /\ Informed(base[p.base], p) \in Books
    BY <1>1, ReportTypes, BookTypes DEF OnChainReport
  <2> QED BY <1>1, <2>1 DEF OnChainReport
<1>2. ASSUME NEW b \in Bases, NEW d \in Days, NEW x \in 0 .. MaxAmount, NEW k \in 0 .. MaxAmount,
             FinalizeDay(b, d, x, k)
      PROVE  TypeOK'
  <2>1. x \in Nat /\ k \in Nat
    BY RepatriationAssumption
  <2>2. Funded(base[b], x, k) \in Books
    BY <2>1, BookTypes
  <2>3. [stamped |-> TRUE, commit |-> x, keep |-> k] \in Stamps
    BY <2>1 DEF Stamps
  <2> QED BY <1>2, <2>2, <2>3 DEF FinalizeDay
<1>3. ASSUME NEW b \in Bases, NEW d \in Days, BroadcastDay(b, d) PROVE TypeOK'
  <2>1. Broadcast(b, d, stamp[<<b, d>>]) \in Messages
    BY DEF Broadcast, Messages, Stamps
  <2> QED BY <1>3, <2>1 DEF BroadcastDay
<1>4. ASSUME NEW b \in Bases, NEW i \in Ids, NEW x \in Amounts, AuthorizeRepatriation(b, i, x)
      PROVE  TypeOK'
  <2>1. x \in Nat
    BY RepatriationAssumption DEF Amounts
  <2>2. [base[b] EXCEPT !.draw = @ + x] \in Books
    <3>1. base[b].draw + x \in Nat
      BY <2>1 DEF Books
    <3> QED BY <3>1 DEF Books
  <2>3. [status |-> "pending", amount |-> x, shortfall |-> 0] \in Auths
    BY <2>1 DEF Auths
  <2>4. base' \in [Bases -> Books]
    BY <1>4, <2>2 DEF AuthorizeRepatriation
  <2> QED BY <1>4, <2>3, <2>4 DEF AuthorizeRepatriation
<1>5. ASSUME NEW b \in Bases, NEW i \in Ids, SendInstruction(b, i) \/ RequestCancel(b, i)
      PROVE  TypeOK'
  <2>1. Instruction(b, i, auth[<<b, i>>].amount) \in Messages /\ Cancel(b, i) \in Messages
    BY DEF Instruction, Cancel, Messages, Auths
  <2> QED BY <1>5, <2>1 DEF SendInstruction, RequestCancel
<1>6. ASSUME NEW b \in Bases, NEW i \in Ids, NEW short \in 0 .. MaxShort, OnReturn(b, i, short)
      PROVE  TypeOK'
  <2> DEFINE x == auth[<<b, i>>].amount
  <2>1. x \in Nat /\ short \in Nat /\ x - short \in Nat /\ x - (x - short) \in Nat
    BY <1>6, RepatriationAssumption DEF OnReturn, Auths
  <2>2. Settled(auth[<<b, i>>], x - short) \in Auths
    <3>1. auth[<<b, i>>] \in Auths
      OBVIOUS
    <3>2. Settled(auth[<<b, i>>], x - short)
            = [auth[<<b, i>>] EXCEPT !.status = "settled", !.shortfall = x - (x - short)]
      BY <3>1 DEF Settled, Auths
    <3> QED BY <2>1, <3>1, <3>2 DEF Auths
  <2>3. [base[b] EXCEPT !.relocated = @ + (x - short)] \in Books
    <3>1. base[b].relocated + (x - short) \in Nat
      BY <2>1 DEF Books
    <3> QED BY <3>1 DEF Books
  <2>4. base' \in [Bases -> Books]
    BY <1>6, <2>3 DEF OnReturn
  <2> QED BY <1>6, <2>2, <2>4 DEF OnReturn
<1>7. ASSUME NEW b \in Bases, NEW i \in Ids, OnCancelAck(b, i) PROVE TypeOK'
  <2>1. [base[b] EXCEPT !.draw = Excess(@, auth[<<b, i>>].amount)] \in Books
    <3>1. Excess(base[b].draw, auth[<<b, i>>].amount) \in Nat
      BY DEF Books, Auths, Excess
    <3> QED BY <3>1 DEF Books
  <2>2. base' \in [Bases -> Books]
    BY <1>7, <2>1 DEF OnCancelAck
  <2>3. auth' \in [Bases \X Ids -> Auths]
    BY <1>7, ZenonT(60) DEF OnCancelAck, Auths
  <2> QED BY <1>7, <2>2, <2>3 DEF OnCancelAck
<1> QED BY <1>1, <1>2, <1>3, <1>4, <1>5, <1>6, <1>7 DEF BaseNext

LEMMA TypeStep == ASSUME TypeOK, [Next]_vars PROVE TypeOK'
<1>1. CASE UNCHANGED vars
  BY <1>1 DEF TypeOK, vars
<1> QED BY <1>1, MirrorType, BaseType DEF Next

(* Every figure of every book stays a natural number: nothing a mirror or  *)
(* a Base deducts ever exceeds what it deducts it from.                    *)
THEOREM TypeCorrect == Spec => []TypeOK
<1> QED BY InitType, TypeStep, PTL DEF Spec

-----------------------------------------------------------------------------
(* What each step does to the figures it changes, field by field.          *)

LEMMA LedgerFields ==
    ASSUME NEW m \in Ledgers
    PROVE  /\ m.bucket \in Nat /\ m.credited \in Nat /\ m.paidOut \in Nat /\ m.outstanding \in Nat
           /\ m.retired \in Nat /\ m.released \in Nat /\ m.keeper \in Nat /\ m.out \in Nat
BY DEF Ledgers

LEMMA CreditedEffect ==
    ASSUME NEW m \in Ledgers, NEW x \in Nat
    PROVE  LET n == Credited(m, x)
           IN  /\ n.bucket = m.bucket + x /\ n.credited = m.credited + x /\ n.paidOut = m.paidOut
               /\ n.outstanding = m.outstanding /\ n.retired = m.retired /\ n.released = m.released
               /\ n.keeper = m.keeper /\ n.out = m.out
BY DEF Credited, Ledgers

LEMMA ConsumedEffect ==
    ASSUME NEW m \in Ledgers, NEW x \in Nat
    PROVE  LET n == Consumed(m, x)
           IN  /\ n.bucket = Excess(m.bucket, x) /\ n.credited = m.credited /\ n.paidOut = m.paidOut + x
               /\ n.outstanding = m.outstanding - Smaller(x, m.outstanding)
               /\ n.retired = m.retired + Smaller(x, m.outstanding) /\ n.released = m.released
               /\ n.keeper = m.keeper /\ n.out = m.out
BY DEF Consumed, Ledgers

LEMMA ReleasedEffect ==
    ASSUME NEW m \in Ledgers, NEW x \in Nat
    PROVE  LET n == ReleasedOf(m, x)
           IN  /\ n.bucket = m.bucket /\ n.credited = m.credited /\ n.paidOut = m.paidOut
               /\ n.outstanding = m.outstanding - Smaller(x, m.outstanding)
               /\ n.retired = m.retired + Smaller(x, m.outstanding)
               /\ n.released = m.released + Smaller(x, m.outstanding)
               /\ n.keeper = m.keeper /\ n.out = m.out
BY DEF ReleasedOf, Ledgers

LEMMA RepatriatedEffect ==
    ASSUME NEW m \in Ledgers, NEW x \in Nat
    PROVE  LET n == Repatriated(m, x)
           IN  /\ n.bucket = m.bucket - x /\ n.credited = m.credited /\ n.paidOut = m.paidOut
               /\ n.outstanding = m.outstanding /\ n.retired = m.retired /\ n.released = m.released
               /\ n.keeper = m.keeper /\ n.out = m.out + x
BY DEF Repatriated, Ledgers

LEMMA FundedEffect ==
    ASSUME NEW B \in Books, NEW x \in Nat, NEW k \in Nat
    PROVE  LET C == Funded(B, x, k)
           IN  /\ C.reported = B.reported /\ C.consumed = B.consumed + x
               /\ C.outstanding = B.outstanding + x /\ C.retired = B.retired
               /\ C.released = B.released /\ C.draw = B.draw /\ C.keeper = B.keeper + k
               /\ C.relocated = B.relocated
BY DEF Funded, Books

LEMMA InformedEffect ==
    ASSUME NEW B \in Books, NEW p
    PROVE  LET C == Informed(B, p)
               retired == Larger(B.retired, Smaller(p.retired, B.consumed))
           IN  /\ C.reported = Larger(B.reported, p.credited) /\ C.consumed = B.consumed
               /\ C.retired = retired /\ C.outstanding = Excess(B.outstanding, retired - B.retired)
               /\ C.released = Larger(B.released, Smaller(p.released, retired))
               /\ C.draw = B.draw /\ C.keeper = B.keeper /\ C.relocated = B.relocated
BY DEF Informed, Books

(* The mirror's lifetime counters never fall.                              *)
LEMMA CountersGrow ==
    ASSUME TypeOK, [Next]_vars
    PROVE  /\ mirror.credited <= mirror'.credited
           /\ mirror.retired <= mirror'.retired
           /\ mirror.released <= mirror'.released
<1> DEFINE Grown == /\ mirror.credited <= mirror'.credited
                    /\ mirror.retired <= mirror'.retired
                    /\ mirror.released <= mirror'.released
<1>0. mirror \in Ledgers
  BY DEF TypeOK
<1>1. ASSUME NEW x \in Amounts, Absorb(x) \/ SettleClaim(x) \/ ReleaseCommitment(x)
      PROVE  Grown
  <2>1. x \in Nat
    BY RepatriationAssumption DEF Amounts
  <2>2. CASE Absorb(x)
    BY <1>0, <2>1, <2>2, CreditedEffect, LedgerFields DEF Absorb
  <2>3. CASE SettleClaim(x)
    BY <1>0, <2>1, <2>3, ConsumedEffect, LedgerFields DEF SettleClaim, Smaller
  <2>4. CASE ReleaseCommitment(x)
    BY <1>0, <2>1, <2>4, ReleasedEffect, LedgerFields DEF ReleaseCommitment, Smaller
  <2> QED BY <1>1, <2>2, <2>3, <2>4
<1>2. ASSUME NEW b \in Bases, NEW d \in Days, OnBroadcast(b, d) PROVE Grown
  BY <1>0, <1>2, LedgerFields DEF OnBroadcast, Ledgers
<1>3. ASSUME NEW b \in Bases, NEW i \in Ids, ExecuteRepatriation(b, i) PROVE Grown
  <2>1. instr[<<b, i>>].amount \in Nat
    BY DEF TypeOK, Instrs
  <2> QED BY <1>0, <1>3, <2>1, RepatriatedEffect, LedgerFields DEF ExecuteRepatriation
<1>4. CASE UNCHANGED mirror
  BY <1>0, <1>4, LedgerFields
<1> QED BY <1>1, <1>2, <1>3, <1>4, MirrorSteps

(* Where a message of a kind comes from and what it is about.              *)
LEMMA MessageTypes ==
    ASSUME TypeOK, NEW p \in msgs
    PROVE  /\ p.type \in {"instruct", "cancel", "ack", "return", "broadcast", "report"}
           /\ p.base \in Bases
           /\ p.type \in {"instruct", "cancel", "ack", "return"} => p.id \in Ids
           /\ p.type \in {"broadcast", "report"} => p.day \in Days
BY DEF TypeOK, Messages

(* An order that was issued keeps its amount and stays issued; a decision  *)
(* of the mirror and a stamp of a Base are final.                          *)
LEMMA AuthsKept ==
    ASSUME TypeOK, [Next]_vars, NEW o \in Bases \X Ids, auth[o].status # "none"
    PROVE  auth'[o].status # "none" /\ auth'[o].amount = auth[o].amount
<1>1. ASSUME NEW b \in Bases, NEW i \in Ids, NEW x \in Amounts, AuthorizeRepatriation(b, i, x)
      PROVE  auth'[o] = auth[o]
  BY <1>1 DEF AuthorizeRepatriation, TypeOK
<1>2. ASSUME NEW b \in Bases, NEW i \in Ids, NEW short \in 0 .. MaxShort, OnReturn(b, i, short)
      PROVE  auth'[o].status # "none" /\ auth'[o].amount = auth[o].amount
  BY <1>2 DEF OnReturn, Settled, TypeOK, Auths
<1>3. ASSUME NEW b \in Bases, NEW i \in Ids, OnCancelAck(b, i)
      PROVE  auth'[o].status # "none" /\ auth'[o].amount = auth[o].amount
  BY <1>3 DEF OnCancelAck, TypeOK, Auths
<1>4. CASE UNCHANGED auth
  BY <1>4
<1> QED BY <1>1, <1>2, <1>3, <1>4, AuthSteps

LEMMA DecisionsKept ==
    ASSUME TypeOK, [Next]_vars, NEW o \in Bases \X Ids, instr[o].state \in {"executed", "tombstoned"}
    PROVE  instr'[o] = instr[o]
<1>1. ASSUME NEW b \in Bases, NEW i \in Ids, OnInstruction(b, i) PROVE instr'[o] = instr[o]
  BY <1>1 DEF OnInstruction, TypeOK
<1>2. ASSUME NEW b \in Bases, NEW i \in Ids, OnCancelInstruction(b, i) PROVE instr'[o] = instr[o]
  BY <1>2 DEF OnCancelInstruction, TypeOK
<1>3. ASSUME NEW b \in Bases, NEW i \in Ids, ExecuteRepatriation(b, i) PROVE instr'[o] = instr[o]
  BY <1>3 DEF ExecuteRepatriation, TypeOK
<1>4. CASE UNCHANGED instr
  BY <1>4
<1> QED BY <1>1, <1>2, <1>3, <1>4, InstrSteps

LEMMA StampsKept ==
    ASSUME TypeOK, [Next]_vars, NEW k \in Bases \X Days, stamp[k].stamped
    PROVE  stamp'[k] = stamp[k]
<1>1. ASSUME NEW b \in Bases, NEW d \in Days, NEW x \in 0 .. MaxAmount, NEW y \in 0 .. MaxAmount,
             FinalizeDay(b, d, x, y)
      PROVE  stamp'[k] = stamp[k]
  BY <1>1 DEF FinalizeDay, TypeOK
<1>2. CASE UNCHANGED stamp
  BY <1>2
<1> QED BY <1>1, <1>2, StampSteps

-----------------------------------------------------------------------------
(* Messages stay true however long they are on their way.                  *)

LEMMA OldMessagesStayTrue ==
    ASSUME TypeOK, MessagesTrue, RecordsTrue, TypeOK', [Next]_vars, NEW p \in msgs
    PROVE  MessageTrue(p)'
<1> DEFINE o == <<p.base, p.id>>
           k == <<p.base, p.day>>
<1>0. MessageTrue(p)
  BY DEF MessagesTrue
<1>1. CASE p.type \in {"instruct", "cancel"}
  <2>1. o \in Bases \X Ids
    BY <1>1, MessageTypes
  <2>2. auth'[o].status # "none" /\ auth'[o].amount = auth[o].amount
    BY <1>0, <1>1, <2>1, AuthsKept DEF MessageTrue
  <2> QED BY <1>0, <1>1, <2>2 DEF MessageTrue
<1>2. CASE p.type = "ack"
  <2>1. o \in Bases \X Ids
    BY <1>2, MessageTypes
  <2>2. instr'[o] = instr[o]
    BY <1>0, <1>2, <2>1, DecisionsKept DEF MessageTrue
  <2> QED BY <1>0, <1>2, <2>2 DEF MessageTrue
<1>3. CASE p.type = "return"
  <2>1. o \in Bases \X Ids
    BY <1>3, MessageTypes
  <2>2. instr[o].state = "executed"
    BY <1>0, <1>3 DEF MessageTrue
  <2>3. instr'[o] = instr[o]
    BY <2>1, <2>2, DecisionsKept
  <2>4. auth'[o].amount = auth[o].amount
    BY <2>1, <2>2, AuthsKept DEF RecordsTrue
  <2> QED BY <1>0, <1>3, <2>3, <2>4 DEF MessageTrue
<1>4. CASE p.type = "broadcast"
  <2>1. k \in Bases \X Days
    BY <1>4, MessageTypes
  <2>2. stamp'[k] = stamp[k]
    BY <1>0, <1>4, <2>1, StampsKept DEF MessageTrue
  <2> QED BY <1>0, <1>4, <2>2 DEF MessageTrue
<1>5. CASE p.type = "report"
  <2>1. p.credited \in Nat /\ p.retired \in Nat /\ p.released \in Nat
    BY <1>5, ReportTypes
  <2>2. mirror \in Ledgers /\ mirror' \in Ledgers
    BY DEF TypeOK
  <2>3. /\ p.credited <= mirror'.credited
        /\ p.retired <= mirror'.retired
        /\ p.released <= mirror'.released
    BY <1>0, <1>5, <2>1, <2>2, CountersGrow, LedgerFields DEF MessageTrue
  <2> QED BY <1>5, <2>3 DEF MessageTrue
<1> QED BY <1>1, <1>2, <1>3, <1>4, <1>5, MessageTypes

LEMMA MessagesStep ==
    ASSUME TypeOK, MessagesTrue, RecordsTrue, TypeOK', [Next]_vars
    PROVE  MessagesTrue'
<1>0. \A p \in msgs : MessageTrue(p)'
  BY OldMessagesStayTrue
<1>1. ASSUME NEW d \in Days, CloseDay(d) PROVE MessagesTrue'
  <2> DEFINE p == Report(bound, d, mirror)
  <2>1. mirror \in Ledgers
    BY DEF TypeOK
  <2>2. MessageTrue(p)'
    BY <1>1, <2>1, LedgerFields DEF CloseDay, Report, MessageTrue
  <2> QED BY <1>0, <1>1, <2>2 DEF CloseDay, MessagesTrue
<1>2. ASSUME NEW b \in Bases, NEW i \in Ids, ExecuteRepatriation(b, i) PROVE MessagesTrue'
  <2>1. instr'[<<b, i>>].state = "executed"
    BY <1>2 DEF ExecuteRepatriation, TypeOK, Instrs
  <2>5. <<b, i>> \in Bases \X Ids /\ instr[<<b, i>>].state = "pending" /\ auth' = auth
    BY <1>2 DEF ExecuteRepatriation
  <2>2. instr[<<b, i>>].amount = auth'[<<b, i>>].amount
    BY <2>5 DEF RecordsTrue
  <2>3. PICK p : p = Return(b, i, instr[<<b, i>>].amount)
    OBVIOUS
  <2>4. MessageTrue(p)'
    BY <2>1, <2>2, <2>3 DEF Return, MessageTrue
  <2> QED BY <1>0, <1>2, <2>3, <2>4 DEF ExecuteRepatriation, MessagesTrue
<1>3. ASSUME NEW b \in Bases, NEW i \in Ids, SendCancelAck(b, i) PROVE MessagesTrue'
  <2>1. MessageTrue(Ack(b, i))'
    BY <1>3 DEF SendCancelAck, Ack, MessageTrue
  <2> QED BY <1>0, <1>3, <2>1 DEF SendCancelAck, MessagesTrue
<1>4. ASSUME NEW b \in Bases, NEW d \in Days, BroadcastDay(b, d) PROVE MessagesTrue'
  <2>1. MessageTrue(Broadcast(b, d, stamp[<<b, d>>]))'
    BY <1>4 DEF BroadcastDay, Broadcast, MessageTrue
  <2> QED BY <1>0, <1>4, <2>1 DEF BroadcastDay, MessagesTrue
<1>5. ASSUME NEW b \in Bases, NEW i \in Ids, SendInstruction(b, i) PROVE MessagesTrue'
  <2>1. MessageTrue(Instruction(b, i, auth[<<b, i>>].amount))'
    BY <1>5 DEF SendInstruction, Pending, Instruction, MessageTrue
  <2> QED BY <1>0, <1>5, <2>1 DEF SendInstruction, MessagesTrue
<1>6. ASSUME NEW b \in Bases, NEW i \in Ids, RequestCancel(b, i) PROVE MessagesTrue'
  <2>1. MessageTrue(Cancel(b, i))'
    BY <1>6 DEF RequestCancel, Pending, Cancel, MessageTrue
  <2> QED BY <1>0, <1>6, <2>1 DEF RequestCancel, MessagesTrue
<1>7. CASE msgs' \subseteq msgs
  BY <1>0, <1>7 DEF MessagesTrue
<1> QED BY <1>1, <1>2, <1>3, <1>4, <1>5, <1>6, <1>7, MsgSteps

-----------------------------------------------------------------------------
(* The two records of an order agree.                                      *)

LEMMA RecordsStep ==
    ASSUME TypeOK, MessagesTrue, RecordsTrue, [Next]_vars
    PROVE  RecordsTrue'
<1> SUFFICES ASSUME NEW o \in Bases \X Ids
             PROVE  /\ instr'[o].state # "none" => auth'[o].status # "none"
                    /\ instr'[o].state \in {"pending", "executed"} => instr'[o].amount = auth'[o].amount
  BY DEF RecordsTrue
<1>0. /\ instr[o].state # "none" => auth[o].status # "none"
      /\ instr[o].state \in {"pending", "executed"} => instr[o].amount = auth[o].amount
  BY DEF RecordsTrue
<1>1. ASSUME NEW b \in Bases, NEW i \in Ids, OnInstruction(b, i), o = <<b, i>>
      PROVE  /\ auth'[o].status # "none"
             /\ instr'[o].amount = auth'[o].amount
  <2>1. PICK p \in msgs :
          /\ p.type = "instruct" /\ p.base = b /\ p.id = i
          /\ instr' = [instr EXCEPT ![<<b, i>>] = [state |-> "pending", amount |-> p.amount]]
    BY <1>1 DEF OnInstruction
  <2>2. auth[o].status # "none" /\ p.amount = auth[o].amount
    BY <1>1, <2>1 DEF MessagesTrue, MessageTrue
  <2>3. instr'[o] = [state |-> "pending", amount |-> p.amount]
    BY <1>1, <2>1 DEF TypeOK
  <2> QED BY <1>1, <2>2, <2>3 DEF OnInstruction
<1>2. ASSUME NEW b \in Bases, NEW i \in Ids, OnCancelInstruction(b, i), o = <<b, i>>
      PROVE  auth'[o].status # "none" /\ instr'[o].state = "tombstoned"
  <2>1. auth[o].status # "none"
    BY <1>2 DEF OnCancelInstruction, Cancel, MessagesTrue, MessageTrue
  <2>2. instr'[o].state = "tombstoned"
    BY <1>2 DEF OnCancelInstruction, TypeOK, Instrs
  <2> QED BY <1>2, <2>1, <2>2 DEF OnCancelInstruction
<1>3. ASSUME NEW b \in Bases, NEW i \in Ids, ExecuteRepatriation(b, i), o = <<b, i>>
      PROVE  auth'[o].status # "none" /\ instr'[o].amount = auth'[o].amount
  <2>1. instr'[o].amount = instr[o].amount /\ instr[o].state = "pending" /\ auth' = auth
    BY <1>3 DEF ExecuteRepatriation, TypeOK, Instrs
  <2> QED BY <1>0, <2>1
<1>4. CASE instr'[o] = instr[o]
  <2>1. CASE auth[o].status # "none"
    BY <1>0, <1>4, <2>1, AuthsKept
  <2>2. CASE auth[o].status = "none"
    <3>1. instr[o].state = "none"
      BY <1>0, <2>2
    <3> QED BY <1>4, <3>1
  <2> QED BY <2>1, <2>2
<1>5. ASSUME NEW b \in Bases, NEW i \in Ids, o # <<b, i>>,
             OnInstruction(b, i) \/ OnCancelInstruction(b, i) \/ ExecuteRepatriation(b, i)
      PROVE  instr'[o] = instr[o]
  <2>1. ASSUME NEW v, instr' = [instr EXCEPT ![<<b, i>>] = v] PROVE instr'[o] = instr[o]
    BY <1>5, <2>1 DEF TypeOK
  <2>2. \E v : instr' = [instr EXCEPT ![<<b, i>>] = v]
    BY <1>5 DEF OnInstruction, OnCancelInstruction, ExecuteRepatriation
  <2> QED BY <2>1, <2>2
<1>6. CASE UNCHANGED instr
  BY <1>4, <1>6
<1> QED BY <1>1, <1>2, <1>3, <1>4, <1>5, <1>6, InstrSteps

-----------------------------------------------------------------------------
(* Every order has one outcome.                                            *)

Outcome(o) ==
    /\ auth[o].status = "settled" => instr[o].state = "executed"
    /\ auth[o].status = "released" => instr[o].state = "tombstoned"
    /\ (instr[o].state = "executed" /\ auth[o].status = "pending")
         <=> Return(o[1], o[2], auth[o].amount) \in msgs

(* The mirror pays a return only for an order that it decided to pay.      *)
LEMMA ReturnsAreExecuted ==
    ASSUME MessagesTrue, NEW b, NEW i, NEW x, Return(b, i, x) \in msgs
    PROVE  instr[<<b, i>>].state = "executed" /\ x = auth[<<b, i>>].amount
BY DEF MessagesTrue, MessageTrue, Return

LEMMA PairParts ==
    ASSUME NEW o \in Bases \X Ids
    PROVE  o = <<o[1], o[2]>> /\ o[1] \in Bases /\ o[2] \in Ids
OBVIOUS

LEMMA OutcomeOfOther ==
    ASSUME TypeOK, NEW o \in Bases \X Ids, Outcome(o), NEW b \in Bases, NEW i \in Ids,
           o # <<b, i>>,
           \/ \E x \in Amounts : AuthorizeRepatriation(b, i, x)
           \/ OnInstruction(b, i)
           \/ OnCancelInstruction(b, i)
           \/ ExecuteRepatriation(b, i)
           \/ \E short \in 0 .. MaxShort : OnReturn(b, i, short)
           \/ OnCancelAck(b, i)
    PROVE  Outcome(o)'
<1>1. o[1] # b \/ o[2] # i
  BY PairParts
<1>2. auth'[o] = auth[o]
  <2>1. ASSUME NEW v, auth' = [auth EXCEPT ![<<b, i>>] = v] PROVE auth'[o] = auth[o]
    BY <2>1 DEF TypeOK
  <2>2. auth' = auth \/ \E v : auth' = [auth EXCEPT ![<<b, i>>] = v]
    BY DEF AuthorizeRepatriation, OnInstruction, OnCancelInstruction, ExecuteRepatriation,
           OnReturn, OnCancelAck
  <2> QED BY <2>1, <2>2
<1>3. instr'[o] = instr[o]
  <2>1. ASSUME NEW v, instr' = [instr EXCEPT ![<<b, i>>] = v] PROVE instr'[o] = instr[o]
    BY <2>1 DEF TypeOK
  <2>2. instr' = instr \/ \E v : instr' = [instr EXCEPT ![<<b, i>>] = v]
    BY DEF AuthorizeRepatriation, OnInstruction, OnCancelInstruction, ExecuteRepatriation,
           OnReturn, OnCancelAck
  <2> QED BY <2>1, <2>2
<1>4. ASSUME NEW x PROVE Return(o[1], o[2], x) \in msgs' <=> Return(o[1], o[2], x) \in msgs
  <2>1. ASSUME NEW y PROVE Return(o[1], o[2], x) # Return(b, i, y)
    BY <1>1 DEF Return
  <2>2. \/ msgs' = msgs
        \/ \E y : msgs' = msgs \cup {Return(b, i, y)}
        \/ \E y : msgs' = msgs \ {Return(b, i, y)}
    BY DEF AuthorizeRepatriation, OnInstruction, OnCancelInstruction, ExecuteRepatriation,
           OnReturn, OnCancelAck
  <2> QED BY <2>1, <2>2
<1> QED BY <1>2, <1>3, <1>4 DEF Outcome

LEMMA OutcomeAtRest ==
    ASSUME TypeOK, UNCHANGED <<auth, instr>>, NEW o \in Bases \X Ids, Outcome(o),
           \/ msgs' = msgs
           \/ \E p : p.type # "return" /\ (msgs' = msgs \cup {p} \/ msgs' = msgs \ {p})
    PROVE  Outcome(o)'
<1>1. ASSUME NEW x PROVE Return(o[1], o[2], x) \in msgs' <=> Return(o[1], o[2], x) \in msgs
  BY DEF Return
<1> QED BY <1>1 DEF Outcome

LEMMA OneOutcomeStep ==
    ASSUME TypeOK, MessagesTrue, RecordsTrue, OneOutcome, [Next]_vars
    PROVE  OneOutcome'
<1> SUFFICES ASSUME NEW o \in Bases \X Ids PROVE Outcome(o)'
  BY DEF OneOutcome, Outcome
<1>0. /\ Outcome(o)
      /\ instr[o].state # "none" => auth[o].status # "none"
      /\ instr[o].state \in {"pending", "executed"} => instr[o].amount = auth[o].amount
      /\ auth[o] \in Auths /\ instr[o] \in Instrs
  BY DEF OneOutcome, Outcome, RecordsTrue, TypeOK
<1>1. ASSUME NEW b \in Bases, NEW i \in Ids, NEW x \in Amounts, AuthorizeRepatriation(b, i, x),
             o = <<b, i>>
      PROVE  Outcome(o)'
  <2>1. instr[o].state = "none" /\ instr' = instr /\ msgs' = msgs
    BY <1>0, <1>1 DEF AuthorizeRepatriation, Instrs
  <2>2. auth'[o].status = "pending"
    BY <1>1 DEF AuthorizeRepatriation, TypeOK
  <2>3. \A y : Return(b, i, y) \notin msgs
    BY <1>1, <2>1, ReturnsAreExecuted
  <2> QED BY <1>1, <2>1, <2>2, <2>3 DEF Outcome
<1>2. ASSUME NEW b \in Bases, NEW i \in Ids, OnInstruction(b, i) \/ OnCancelInstruction(b, i),
             o = <<b, i>>
      PROVE  Outcome(o)'
  <2>1. instr[o].state \notin {"executed", "tombstoned"} /\ auth' = auth /\ msgs' = msgs
    BY <1>2 DEF OnInstruction, OnCancelInstruction
  <2>2. instr'[o].state \in {"pending", "tombstoned"}
    <3>1. CASE OnInstruction(b, i)
      <4>1. PICK p \in msgs :
              instr' = [instr EXCEPT ![<<b, i>>] = [state |-> "pending", amount |-> p.amount]]
        BY <3>1 DEF OnInstruction
      <4>2. instr'[o] = [state |-> "pending", amount |-> p.amount]
        BY <1>2, <4>1 DEF TypeOK
      <4> QED BY <4>2
    <3>2. CASE OnCancelInstruction(b, i)
      BY <1>2, <3>2 DEF OnCancelInstruction, TypeOK, Instrs
    <3> QED BY <1>2, <3>1, <3>2
  <2>3. auth[o].status \notin {"settled", "released"}
    BY <1>0, <2>1 DEF Outcome
  <2>4. Return(b, i, auth[o].amount) \notin msgs
    BY <1>2, <2>1, ReturnsAreExecuted
  <2> QED BY <1>2, <2>1, <2>2, <2>3, <2>4 DEF Outcome
<1>3. ASSUME NEW b \in Bases, NEW i \in Ids, ExecuteRepatriation(b, i), o = <<b, i>>
      PROVE  Outcome(o)'
  <2>1. instr[o].state = "pending" /\ auth' = auth
    BY <1>3 DEF ExecuteRepatriation
  <2>2. auth[o].status = "pending" /\ instr[o].amount = auth[o].amount
    BY <1>0, <2>1 DEF Outcome, Auths
  <2>3. instr'[o].state = "executed"
    BY <1>3 DEF ExecuteRepatriation, TypeOK, Instrs
  <2>4. Return(b, i, auth[o].amount) \in msgs'
    BY <1>3, <2>2 DEF ExecuteRepatriation
  <2> QED BY <1>3, <2>1, <2>2, <2>3, <2>4 DEF Outcome
<1>4. ASSUME NEW b \in Bases, NEW i \in Ids, NEW short \in 0 .. MaxShort, OnReturn(b, i, short),
             o = <<b, i>>
      PROVE  Outcome(o)'
  <2>1. instr[o].state = "executed" /\ instr' = instr
    BY <1>4, ReturnsAreExecuted DEF OnReturn
  <2>2. auth'[o].status = "settled" /\ auth'[o].amount = auth[o].amount
    BY <1>4 DEF OnReturn, Settled, TypeOK, Auths
  <2>3. Return(b, i, auth[o].amount) \notin msgs'
    BY <1>4 DEF OnReturn
  <2> QED BY <1>4, <2>1, <2>2, <2>3 DEF Outcome
<1>5. ASSUME NEW b \in Bases, NEW i \in Ids, OnCancelAck(b, i), o = <<b, i>>
      PROVE  Outcome(o)'
  <2>4. MessageTrue(Ack(b, i))
    BY <1>5 DEF OnCancelAck, MessagesTrue
  <2>1. instr[o].state = "tombstoned" /\ instr' = instr /\ msgs' = msgs
    BY <1>5, <2>4 DEF OnCancelAck, Ack, MessageTrue
  <2>2. auth'[o].status = "released"
    BY <1>5 DEF OnCancelAck, TypeOK, Auths
  <2>3. \A y : Return(b, i, y) \notin msgs
    BY <1>5, <2>1, ReturnsAreExecuted
  <2> QED BY <1>5, <2>1, <2>2, <2>3 DEF Outcome
<1>6. CASE UNCHANGED <<auth, instr>> /\ (msgs' = msgs
             \/ \E p : p.type # "return" /\ (msgs' = msgs \cup {p} \/ msgs' = msgs \ {p}))
  BY <1>0, <1>6, OutcomeAtRest
<1>7. ASSUME NEW d \in Days, CloseDay(d) PROVE Outcome(o)'
  <2>1. Report(bound, d, mirror).type # "return"
    BY DEF Report
  <2> QED BY <1>6, <1>7, <2>1 DEF CloseDay
<1>8. ASSUME NEW b \in Bases, NEW i \in Ids,
             SendCancelAck(b, i) \/ SendInstruction(b, i) \/ RequestCancel(b, i)
      PROVE  Outcome(o)'
  <2>1. Ack(b, i).type # "return" /\ Cancel(b, i).type # "return"
          /\ \A x : Instruction(b, i, x).type # "return"
    BY DEF Ack, Cancel, Instruction
  <2>2. UNCHANGED <<auth, instr>> /\ \E p : p.type # "return" /\ msgs' = msgs \cup {p}
    BY <1>8, <2>1 DEF SendCancelAck, SendInstruction, RequestCancel
  <2> QED BY <1>6, <2>2
<1>9. ASSUME NEW b \in Bases, NEW d \in Days, BroadcastDay(b, d) PROVE Outcome(o)'
  <2>1. Broadcast(b, d, stamp[<<b, d>>]).type # "return"
    BY DEF Broadcast
  <2> QED BY <1>6, <1>9, <2>1 DEF BroadcastDay
<1>10. ASSUME NEW p \in msgs, OnChainReport(p) PROVE Outcome(o)'
  BY <1>6, <1>10 DEF OnChainReport
<1> QED BY <1>0, <1>1, <1>2, <1>3, <1>4, <1>5, <1>6, <1>7, <1>8, <1>9, <1>10, OutcomeOfOther, OutcomeSteps

-----------------------------------------------------------------------------
(* A Base's copy of the mirror's counters stays behind them.               *)

Lags(B, m) ==
    /\ B.outstanding + B.retired = B.consumed
    /\ B.reported <= m.credited
    /\ B.retired <= m.retired
    /\ B.released <= Smaller(B.retired, m.released)

LEMMA InformedLags ==
    ASSUME NEW B \in Books, NEW m \in Ledgers, Lags(B, m), NEW p,
           p.credited \in Nat, p.retired \in Nat, p.released \in Nat,
           p.credited <= m.credited, p.retired <= m.retired, p.released <= m.released
    PROVE  Lags(Informed(B, p), m)
<1> DEFINE C == Informed(B, p)
           retired == Larger(B.retired, Smaller(p.retired, B.consumed))
<1>1. /\ C.reported = Larger(B.reported, p.credited) /\ C.consumed = B.consumed
      /\ C.retired = retired /\ C.outstanding = Excess(B.outstanding, retired - B.retired)
      /\ C.released = Larger(B.released, Smaller(p.released, retired))
  BY InformedEffect
<1>2. /\ B.outstanding + B.retired = B.consumed /\ B.reported <= m.credited
      /\ B.retired <= m.retired /\ B.released <= B.retired /\ B.released <= m.released
  BY BookFields, LedgerFields DEF Lags, Smaller
<1>3. /\ retired \in Nat /\ B.retired <= retired /\ retired <= B.consumed /\ retired <= m.retired
  BY <1>2, BookFields, LedgerFields DEF Larger, Smaller
<1> HIDE DEF C, retired
<1>4. C.outstanding + C.retired = C.consumed
  BY <1>1, <1>2, <1>3, BookFields DEF Excess
<1>5. C.reported <= m.credited
  BY <1>1, <1>2 DEF Larger
<1>6. C.released <= Smaller(C.retired, m.released)
  BY <1>1, <1>2, <1>3, BookFields, LedgerFields DEF Larger, Smaller
<1>7. Lags(C, m)
  BY <1>1, <1>3, <1>4, <1>5, <1>6 DEF Lags
<1> QED BY <1>7 DEF C

LEMMA FundedLags ==
    ASSUME NEW B \in Books, NEW m \in Ledgers, Lags(B, m), NEW x \in Nat, NEW k \in Nat
    PROVE  Lags(Funded(B, x, k), m)
<1> DEFINE C == Funded(B, x, k)
<1>1. /\ C.reported = B.reported /\ C.consumed = B.consumed + x
      /\ C.outstanding = B.outstanding + x /\ C.retired = B.retired /\ C.released = B.released
  BY FundedEffect
<1> HIDE DEF C
<1>2. Lags(C, m)
  BY <1>1, BookFields DEF Lags
<1> QED BY <1>2 DEF C

(* Which books a step may touch, and how.                                  *)
BookStep(b) ==
    \/ base'[b] = base[b]
    \/ \E p \in msgs : p.type = "report" /\ p.base = b /\ base'[b] = Informed(base[b], p)
    \/ \E x, k \in 0 .. MaxAmount :
          /\ x <= Avail(base[b]) /\ k <= Avail(Funded(base[b], x, 0))
          /\ base'[b] = Funded(base[b], x, k)
    \/ \E x \in Amounts : x <= Avail(base[b]) /\ base'[b] = [base[b] EXCEPT !.draw = @ + x]
    \/ \E y : base'[b] = [base[b] EXCEPT !.relocated = y]
    \/ \E y \in Nat : base'[b] = [base[b] EXCEPT !.draw = Excess(@, y)]

LEMMA BookSteps ==
    ASSUME TypeOK, [Next]_vars, NEW b \in Bases
    PROVE  BookStep(b)
<1>0. \A c : \A v : base' = [base EXCEPT ![c] = v] => base'[b] = IF b = c THEN v ELSE base[b]
  BY DEF TypeOK
<1>1. ASSUME NEW p \in msgs, OnChainReport(p) PROVE BookStep(b)
  BY <1>0, <1>1 DEF OnChainReport, BookStep
<1>2. ASSUME NEW c \in Bases, NEW d \in Days, NEW x \in 0 .. MaxAmount, NEW k \in 0 .. MaxAmount,
             FinalizeDay(c, d, x, k)
      PROVE  BookStep(b)
  BY <1>0, <1>2 DEF FinalizeDay, BookStep
<1>3. ASSUME NEW c \in Bases, NEW i \in Ids, NEW x \in Amounts, AuthorizeRepatriation(c, i, x)
      PROVE  BookStep(b)
  BY <1>0, <1>3 DEF AuthorizeRepatriation, BookStep
<1>4. ASSUME NEW c \in Bases, NEW i \in Ids, NEW short \in 0 .. MaxShort, OnReturn(c, i, short)
      PROVE  BookStep(b)
  BY <1>0, <1>4 DEF OnReturn, BookStep
<1>5. ASSUME NEW c \in Bases, NEW i \in Ids, OnCancelAck(c, i) PROVE BookStep(b)
  <2>1. auth[<<c, i>>].amount \in Nat
    BY DEF TypeOK, Auths
  <2> QED BY <1>0, <1>5, <2>1 DEF OnCancelAck, BookStep
<1>6. CASE UNCHANGED base
  BY <1>6 DEF BookStep
<1> QED BY <1>1, <1>2, <1>3, <1>4, <1>5, <1>6, OrderSteps

LEMMA BooksLagStep ==
    ASSUME TypeOK, MessagesTrue, BooksLag, TypeOK', [Next]_vars
    PROVE  BooksLag'
<1> SUFFICES ASSUME NEW b \in Bases PROVE Lags(base'[b], mirror')
  BY DEF BooksLag, Lags
<1>1. Lags(base[b], mirror) /\ base[b] \in Books /\ base'[b] \in Books
        /\ mirror \in Ledgers /\ mirror' \in Ledgers
  BY DEF BooksLag, Lags, TypeOK
<1>2. Lags(base'[b], mirror)
  <2>1. CASE base'[b] = base[b]
    BY <1>1, <2>1
  <2>2. ASSUME NEW p \in msgs, p.type = "report", p.base = b, base'[b] = Informed(base[b], p)
        PROVE  Lags(base'[b], mirror)
    <3>1. p.credited \in Nat /\ p.retired \in Nat /\ p.released \in Nat
      BY <2>2, ReportTypes
    <3>2. p.credited <= mirror.credited /\ p.retired <= mirror.retired /\ p.released <= mirror.released
      BY <2>2 DEF MessagesTrue, MessageTrue
    <3> QED BY <1>1, <2>2, <3>1, <3>2, InformedLags
  <2>3. ASSUME NEW x \in 0 .. MaxAmount, NEW k \in 0 .. MaxAmount, base'[b] = Funded(base[b], x, k)
        PROVE  Lags(base'[b], mirror)
    <3>1. x \in Nat /\ k \in Nat
      BY RepatriationAssumption
    <3> QED BY <1>1, <2>3, <3>1, FundedLags
  <2>4. ASSUME NEW y, base'[b] = [base[b] EXCEPT !.draw = y] \/ base'[b] = [base[b] EXCEPT !.relocated = y]
        PROVE  Lags(base'[b], mirror)
    BY <1>1, <2>4 DEF Lags, Books
  <2> QED BY <2>1, <2>2, <2>3, <2>4, BookSteps DEF BookStep
<1> QED BY <1>1, <1>2, CountersGrow, BookFields, LedgerFields DEF Lags, Smaller

-----------------------------------------------------------------------------
(* No Base promises more than it was told of.                              *)

Promised(B) == B.consumed + B.draw + B.keeper

LEMMA CoveredStep ==
    ASSUME TypeOK, BooksLag, Covered, TypeOK', [Next]_vars
    PROVE  Covered'
<1> SUFFICES ASSUME NEW b \in Bases
             PROVE  Promised(base'[b]) <= base'[b].reported + base'[b].released
  BY DEF Covered, Promised
<1> DEFINE B == base[b]
<1>1. B \in Books /\ base'[b] \in Books /\ Promised(B) <= B.reported + B.released
  BY DEF Covered, Promised, TypeOK
<1>2. /\ B.reported \in Nat /\ B.consumed \in Nat /\ B.released \in Nat /\ B.draw \in Nat
      /\ B.keeper \in Nat
  BY <1>1, BookFields
<1> HIDE DEF B
<1>3. CASE base'[b] = base[b]
  BY <1>1, <1>3 DEF B
<1>4. ASSUME NEW p \in msgs, p.type = "report", base'[b] = Informed(B, p)
      PROVE  Promised(base'[b]) <= base'[b].reported + base'[b].released
  <2>1. p.credited \in Nat /\ p.released \in Nat /\ base'[b].released \in Nat
    BY <1>1, <1>4, ReportTypes, BookFields
  <2>2. base'[b].reported >= B.reported /\ base'[b].released >= B.released
    <3>1. /\ base'[b].reported = Larger(B.reported, p.credited)
          /\ \E y : base'[b].released = Larger(B.released, y)
      BY <1>1, <1>4, InformedEffect
    <3> QED BY <1>2, <2>1, <3>1 DEF Larger
  <2>3. Promised(base'[b]) = Promised(B)
    BY <1>1, <1>4, InformedEffect DEF Promised
  <2>4. Promised(B) \in Nat /\ base'[b].reported \in Nat
    BY <1>1, <1>2, BookFields DEF Promised
  <2> QED BY <1>1, <1>2, <2>1, <2>2, <2>3, <2>4
<1>5. ASSUME NEW x \in 0 .. MaxAmount, NEW k \in 0 .. MaxAmount,
             x <= Avail(B), k <= Avail(Funded(B, x, 0)), base'[b] = Funded(B, x, k)
      PROVE  Promised(base'[b]) <= base'[b].reported + base'[b].released
  <2>1. x \in Nat /\ k \in Nat
    BY RepatriationAssumption
  <2> DEFINE C == Funded(B, x, 0)
  <2>2. /\ C.reported = B.reported /\ C.consumed = B.consumed + x /\ C.released = B.released
        /\ C.draw = B.draw /\ C.keeper = B.keeper + 0
    BY <1>1, <2>1, FundedEffect
  <2> HIDE DEF C
  <2>3. B.consumed + x + B.draw + B.keeper <= B.reported + B.released
    BY <1>1, <1>2, <1>5, <2>1 DEF Promised, Avail, Excess
  <2>4. k <= Excess(Excess(Excess(B.reported, Excess(B.consumed + x, B.released)), B.draw), B.keeper)
    BY <1>2, <1>5, <2>2 DEF Avail, C
  <2>5. B.consumed + x + B.draw + (B.keeper + k) <= B.reported + B.released
    BY <1>2, <2>1, <2>3, <2>4 DEF Excess
  <2> QED BY <1>1, <1>5, <2>1, <2>5, FundedEffect DEF Promised
<1>6. ASSUME NEW x \in Amounts, x <= Avail(B), base'[b] = [B EXCEPT !.draw = @ + x]
      PROVE  Promised(base'[b]) <= base'[b].reported + base'[b].released
  <2>1. x \in Nat
    BY RepatriationAssumption DEF Amounts
  <2>2. B.consumed + (B.draw + x) + B.keeper <= B.reported + B.released
    BY <1>1, <1>2, <1>6, <2>1 DEF Promised, Avail, Excess
  <2> QED BY <1>1, <1>6, <2>2 DEF Promised, Books
<1>7. ASSUME NEW y, base'[b] = [B EXCEPT !.relocated = y]
      PROVE  Promised(base'[b]) <= base'[b].reported + base'[b].released
  BY <1>1, <1>7 DEF Promised, Books
<1>8. ASSUME NEW y \in Nat, base'[b] = [B EXCEPT !.draw = Excess(@, y)]
      PROVE  Promised(base'[b]) <= base'[b].reported + base'[b].released
  <2>1. B.consumed + Excess(B.draw, y) + B.keeper <= B.reported + B.released
    BY <1>1, <1>2 DEF Promised, Excess
  <2> QED BY <1>1, <1>8, <2>1 DEF Promised, Books
<1> QED BY <1>3, <1>4, <1>5, <1>6, <1>7, <1>8, BookSteps DEF BookStep, B

-----------------------------------------------------------------------------
(* What a Base has charged is the total of its open and settled orders.    *)

LEMMA ChargeTypes ==
    ASSUME TypeOK, NEW b \in Bases
    PROVE  /\ \A i \in Ids : OrdersCharged(b)[i] \in Nat /\ OrdersToCome(b)[i] \in Nat
           /\ \A d \in Days : DaysToCome(b)[d] \in Nat
BY DEF TypeOK, Auths, Stamps, OrdersCharged, OrdersToCome, DaysToCome

(* A step that writes the record of one order leaves the others alone.     *)
LEMMA OneRecord ==
    ASSUME TypeOK, NEW b \in Bases, NEW i \in Ids, NEW v,
           auth' = [auth EXCEPT ![<<b, i>>] = v]
    PROVE  /\ auth'[<<b, i>>] = v
           /\ \A o \in Bases \X Ids : o # <<b, i>> => auth'[o] = auth[o]
BY DEF TypeOK

LEMMA OneBook ==
    ASSUME TypeOK, NEW b \in Bases, NEW v, base' = [base EXCEPT ![b] = v]
    PROVE  base'[b] = v /\ \A c \in Bases : c # b => base'[c] = base[c]
BY DEF TypeOK

LEMMA DrawIsChargedStep ==
    ASSUME TypeOK, DrawIsCharged, TypeOK', [Next]_vars
    PROVE  DrawIsCharged'
<1> SUFFICES ASSUME NEW b \in Bases
             PROVE  base'[b].draw = Total(OrdersCharged(b)', MaxAuths)
  BY DEF DrawIsCharged
<1>0. /\ base[b] \in Books /\ base[b].draw \in Nat
      /\ base[b].draw = Total(OrdersCharged(b), MaxAuths)
      /\ MaxAuths \in Nat
      /\ \A i \in 1 .. MaxAuths : OrdersCharged(b)[i] \in Nat /\ OrdersCharged(b)'[i] \in Nat
  <2>1. \A i \in Ids : OrdersCharged(b)'[i] \in Nat
    BY DEF TypeOK, Auths, OrdersCharged
  <2> QED BY <2>1, ChargeTypes, BookFields, RepatriationAssumption DEF DrawIsCharged, Ids, TypeOK
<1>1. ASSUME base'[b].draw = base[b].draw,
             \A i \in Ids : OrdersCharged(b)'[i] = OrdersCharged(b)[i]
      PROVE  base'[b].draw = Total(OrdersCharged(b)', MaxAuths)
  <2>1. \A i \in 1 .. MaxAuths : OrdersCharged(b)'[i] = OrdersCharged(b)[i]
    BY <1>1 DEF Ids
  <2>2. PICK F, G : F = OrdersCharged(b) /\ G = OrdersCharged(b)'
    OBVIOUS
  <2>3. Total(F, MaxAuths) = Total(G, MaxAuths)
    BY <1>0, <2>1, <2>2, TotalSame
  <2> QED BY <1>0, <1>1, <2>2, <2>3
<1>2. ASSUME base'[b].draw = base[b].draw, \A i \in Ids : auth'[<<b, i>>] = auth[<<b, i>>]
      PROVE  base'[b].draw = Total(OrdersCharged(b)', MaxAuths)
  BY <1>1, <1>2 DEF OrdersCharged
<1>total. ASSUME NEW i \in 1 .. MaxAuths,
              \A j \in 1 .. MaxAuths : j # i => OrdersCharged(b)'[j] = OrdersCharged(b)[j]
       PROVE  Total(OrdersCharged(b)', MaxAuths)
                = Total(OrdersCharged(b), MaxAuths) - OrdersCharged(b)[i] + OrdersCharged(b)'[i]
  <2>1. PICK F, G : F = OrdersCharged(b) /\ G = OrdersCharged(b)'
    OBVIOUS
  <2>2. \A j \in 1 .. MaxAuths : F[j] \in Int /\ G[j] \in Int
    BY <1>0, <2>1
  <2>3. \A j \in 1 .. MaxAuths : j # i => G[j] = F[j]
    BY <1>total, <2>1
  <2>4. MaxAuths \in Nat
    BY <1>0
  <2>5. Total(G, MaxAuths) = Total(F, MaxAuths) - F[i] + G[i]
    BY <2>2, <2>3, <2>4, TotalUpdate
  <2> QED BY <2>1, <2>5
<1>3. ASSUME NEW c \in Bases, NEW i \in Ids, NEW x \in Amounts, AuthorizeRepatriation(c, i, x)
      PROVE  base'[b].draw = Total(OrdersCharged(b)', MaxAuths)
  <2>1. CASE c = b
    <3>1. x \in Nat /\ i \in 1 .. MaxAuths
      BY RepatriationAssumption DEF Amounts, Ids
    <3>2. base'[b].draw = base[b].draw + x
      <4>1. base'[b] = [base[b] EXCEPT !.draw = @ + x]
        BY <1>3, <2>1, OneBook DEF AuthorizeRepatriation
      <4> QED BY <1>0, <4>1 DEF Books
    <3>3. auth'[<<b, i>>] = [status |-> "pending", amount |-> x, shortfall |-> 0]
            /\ \A o \in Bases \X Ids : o # <<b, i>> => auth'[o] = auth[o]
      BY <1>3, <2>1, OneRecord, ZenonT(60) DEF AuthorizeRepatriation
    <3>4. OrdersCharged(b)[i] = 0 /\ OrdersCharged(b)'[i] = x
      BY <1>3, <2>1, <3>3 DEF AuthorizeRepatriation, OrdersCharged
    <3>5. \A j \in 1 .. MaxAuths : j # i => OrdersCharged(b)'[j] = OrdersCharged(b)[j]
      BY <3>3 DEF OrdersCharged, Ids
    <3>6. Total(OrdersCharged(b)', MaxAuths)
            = Total(OrdersCharged(b), MaxAuths) - OrdersCharged(b)[i] + OrdersCharged(b)'[i]
      BY <1>total, <3>1, <3>5
    <3> QED BY <1>0, <3>1, <3>2, <3>4, <3>6
  <2>2. CASE c # b
    <3>1. base'[b].draw = base[b].draw
      BY <1>3, <2>2, OneBook DEF AuthorizeRepatriation
    <3>2. \A j \in Ids : auth'[<<b, j>>] = auth[<<b, j>>]
      BY <1>3, <2>2, OneRecord DEF AuthorizeRepatriation
    <3> QED BY <1>2, <3>1, <3>2
  <2> QED BY <2>1, <2>2
<1>4. ASSUME NEW c \in Bases, NEW i \in Ids, NEW short \in 0 .. MaxShort, OnReturn(c, i, short)
      PROVE  base'[b].draw = Total(OrdersCharged(b)', MaxAuths)
  <2> DEFINE y == auth[<<c, i>>].amount - short
  <2>1. base'[b].draw = base[b].draw
    BY <1>0, <1>4, OneBook DEF OnReturn, TypeOK, Books
  <2>2. /\ auth'[<<c, i>>] = Settled(auth[<<c, i>>], y)
        /\ \A o \in Bases \X Ids : o # <<c, i>> => auth'[o] = auth[o]
    BY <1>4, OneRecord, ZenonT(60) DEF OnReturn
  <2>3. /\ auth'[<<c, i>>].status = "settled" /\ auth[<<c, i>>].status = "pending"
        /\ auth'[<<c, i>>].amount = auth[<<c, i>>].amount
    BY <1>4, <2>2 DEF OnReturn, Pending, Settled, TypeOK, Auths
  <2>4. \A j \in Ids : OrdersCharged(b)'[j] = OrdersCharged(b)[j]
    BY <2>2, <2>3 DEF OrdersCharged
  <2> QED BY <1>1, <2>1, <2>4
<1>5. ASSUME NEW c \in Bases, NEW i \in Ids, OnCancelAck(c, i)
      PROVE  base'[b].draw = Total(OrdersCharged(b)', MaxAuths)
  <2>1. CASE c = b
    <3> DEFINE x == auth[<<b, i>>].amount
    <3>1. x \in Nat /\ i \in 1 .. MaxAuths /\ auth[<<b, i>>] \in Auths
      BY DEF Ids, TypeOK, Auths
    <3>2. base'[b].draw = Excess(base[b].draw, x)
      <4>1. base'[b] = [base[b] EXCEPT !.draw = Excess(@, x)]
        BY <1>5, <2>1, OneBook DEF OnCancelAck
      <4> QED BY <1>0, <4>1 DEF Books
    <3>3. /\ auth'[<<b, i>>] = [auth[<<b, i>>] EXCEPT !.status = "released"]
          /\ \A o \in Bases \X Ids : o # <<b, i>> => auth'[o] = auth[o]
      BY <1>5, <2>1, OneRecord, ZenonT(60) DEF OnCancelAck
    <3>4. auth'[<<b, i>>].status = "released" /\ auth[<<b, i>>].status = "pending"
      BY <1>5, <2>1, <3>1, <3>3 DEF OnCancelAck, Pending, Auths
    <3>5. OrdersCharged(b)[i] = x /\ OrdersCharged(b)'[i] = 0
      BY <3>4 DEF OrdersCharged
    <3>6. \A j \in 1 .. MaxAuths : j # i => OrdersCharged(b)'[j] = OrdersCharged(b)[j]
      BY <3>3 DEF OrdersCharged, Ids
    <3>7. Total(OrdersCharged(b)', MaxAuths)
            = Total(OrdersCharged(b), MaxAuths) - OrdersCharged(b)[i] + OrdersCharged(b)'[i]
      <4>1. i \in 1 .. MaxAuths
        BY <3>1
      <4> HIDE DEF x
      <4> QED BY <1>total, <3>6, <4>1
    <3>8. x <= base[b].draw
      BY <1>0, <3>1, <3>5, TotalBounds
    <3> QED BY <1>0, <3>1, <3>2, <3>5, <3>7, <3>8 DEF Excess
  <2>2. CASE c # b
    <3>1. base'[b].draw = base[b].draw
      BY <1>5, <2>2, OneBook DEF OnCancelAck
    <3>2. \A j \in Ids : auth'[<<b, j>>] = auth[<<b, j>>]
      BY <1>5, <2>2, OneRecord DEF OnCancelAck
    <3> QED BY <1>2, <3>1, <3>2
  <2> QED BY <2>1, <2>2
<1>6. ASSUME NEW p \in msgs, OnChainReport(p)
      PROVE  base'[b].draw = Total(OrdersCharged(b)', MaxAuths)
  <2>1. p.base \in Bases
    BY <1>6, ReportTypes DEF OnChainReport
  <2>2. base'[b] = base[b] \/ base'[b] = Informed(base[b], p)
    BY <1>6, <2>1, OneBook DEF OnChainReport
  <2> QED BY <1>0, <1>2, <1>6, <2>2, InformedEffect DEF OnChainReport
<1>7. ASSUME NEW c \in Bases, NEW d \in Days, NEW x \in 0 .. MaxAmount, NEW k \in 0 .. MaxAmount,
             FinalizeDay(c, d, x, k)
      PROVE  base'[b].draw = Total(OrdersCharged(b)', MaxAuths)
  <2>1. base'[b] = base[b] \/ base'[b] = Funded(base[b], x, k)
    BY <1>7, OneBook DEF FinalizeDay
  <2>2. x \in Nat /\ k \in Nat
    BY RepatriationAssumption
  <2> QED BY <1>0, <1>2, <1>7, <2>1, <2>2, FundedEffect DEF FinalizeDay
<1>8. CASE UNCHANGED <<auth, base>>
  BY <1>2, <1>8
<1> QED BY <1>3, <1>4, <1>5, <1>6, <1>7, <1>8, OrderSteps

-----------------------------------------------------------------------------
(* How the ledgers of a mirror and of the one Base it serves add up.       *)

LEMMA StampsStep ==
    ASSUME TypeOK, MessagesTrue, StampsTrue, [Next]_vars
    PROVE  StampsTrue'
<1>1. ASSUME NEW k \in Bases \X Days, ~ stamp'[k].stamped
      PROVE  stamp'[k].commit = 0 /\ stamp'[k].keep = 0
  <2>1. ~ stamp[k].stamped
    BY <1>1, StampsKept
  <2>2. ASSUME NEW b \in Bases, NEW d \in Days, NEW x \in 0 .. MaxAmount, NEW y \in 0 .. MaxAmount,
               FinalizeDay(b, d, x, y)
        PROVE  stamp'[k] = stamp[k]
    <3>1. stamp' = [stamp EXCEPT ![<<b, d>>] = [stamped |-> TRUE, commit |-> x, keep |-> y]]
      BY <2>2 DEF FinalizeDay
    <3>2. k # <<b, d>>
      BY <1>1, <3>1 DEF TypeOK
    <3> QED BY <3>1, <3>2 DEF TypeOK
  <2>3. stamp'[k] = stamp[k]
    BY <2>2, StampSteps
  <2> QED BY <2>1, <2>3 DEF StampsTrue
<1>2. ASSUME NEW d \in applied' PROVE \E b \in Bases : stamp'[<<b, d>>].stamped
  <2>1. d \in Days \/ d \in applied
    BY <1>2, AppliedSteps DEF OnBroadcast
  <2>2. d \in Days
    BY <2>1 DEF TypeOK
  <2>3. ASSUME NEW b \in Bases, NEW e \in Days, OnBroadcast(b, e), d = e
        PROVE  stamp[<<b, d>>].stamped
    <3>1. PICK p \in msgs : p.type = "broadcast" /\ p.base = b /\ p.day = d
      BY <2>3 DEF OnBroadcast
    <3> QED BY <3>1 DEF MessagesTrue, MessageTrue
  <2>4. d \in applied \/ \E b \in Bases : OnBroadcast(b, d)
    BY <1>2, AppliedSteps DEF OnBroadcast
  <2>5. \E b \in Bases : stamp[<<b, d>>].stamped
    BY <2>2, <2>3, <2>4 DEF StampsTrue
  <2> QED BY <2>2, <2>5, StampsKept
<1> QED BY <1>1, <1>2 DEF StampsTrue

LEMMA BucketStep ==
    ASSUME TypeOK, BucketBacked, [Next]_vars
    PROVE  BucketBacked'
<1>0. mirror \in Ledgers /\ BucketBacked
  BY DEF TypeOK
<1>1. ASSUME NEW x \in Amounts, Absorb(x) \/ SettleClaim(x) \/ ReleaseCommitment(x)
      PROVE  BucketBacked'
  <2>1. x \in Nat
    BY RepatriationAssumption DEF Amounts
  <2>2. CASE Absorb(x)
    BY <1>0, <2>1, <2>2, CreditedEffect, LedgerFields DEF Absorb, BucketBacked
  <2>3. CASE SettleClaim(x)
    BY <1>0, <2>1, <2>3, ConsumedEffect, LedgerFields DEF SettleClaim, BucketBacked, Excess
  <2>4. CASE ReleaseCommitment(x)
    BY <1>0, <2>1, <2>4, ReleasedEffect, LedgerFields DEF ReleaseCommitment, BucketBacked
  <2> QED BY <1>1, <2>2, <2>3, <2>4
<1>2. ASSUME NEW b \in Bases, NEW d \in Days, OnBroadcast(b, d) PROVE BucketBacked'
  BY <1>0, <1>2 DEF OnBroadcast, Ledgers, BucketBacked
<1>3. ASSUME NEW b \in Bases, NEW i \in Ids, ExecuteRepatriation(b, i) PROVE BucketBacked'
  <2>1. instr[<<b, i>>].amount \in Nat
    BY DEF TypeOK, Instrs
  <2> QED BY <1>0, <1>3, <2>1, RepatriatedEffect, LedgerFields DEF ExecuteRepatriation, BucketBacked
<1>4. CASE UNCHANGED mirror
  BY <1>0, <1>4 DEF BucketBacked
<1> QED BY <1>1, <1>2, <1>3, <1>4, MirrorSteps

LEMMA DaysMeetStep ==
    ASSUME TypeOK, MessagesTrue, StampsTrue, TypeOK', [Next]_vars,
           NEW b \in Bases, Bases = {b}, DaysMeet(b)
    PROVE  DaysMeet(b)'
<1>0. /\ mirror \in Ledgers /\ base[b] \in Books
      /\ MaxDays \in Nat
      /\ \A d \in 1 .. MaxDays : DaysToCome(b)[d] \in Nat /\ DaysToCome(b)'[d] \in Nat
      /\ Unapplied(b) \in Nat
      /\ base[b].consumed + base[b].keeper
           = mirror.outstanding + mirror.retired + mirror.keeper + Unapplied(b)
  <2>1. \A d \in Days : DaysToCome(b)'[d] \in Nat
    BY DEF TypeOK, Stamps, DaysToCome
  <2>2. MaxDays \in Nat /\ \A d \in 1 .. MaxDays : DaysToCome(b)[d] \in Nat
    BY ChargeTypes, RepatriationAssumption DEF Days
  <2>3. Unapplied(b) \in Nat
    BY <2>2, TotalBounds DEF Unapplied
  <2> QED BY <2>1, <2>2, <2>3 DEF Days, TypeOK, DaysMeet
<1>1. /\ mirror.outstanding \in Nat /\ mirror.retired \in Nat /\ mirror.keeper \in Nat
      /\ base[b].consumed \in Nat /\ base[b].keeper \in Nat
  BY <1>0, LedgerFields, BookFields
<1>total. ASSUME NEW d \in 1 .. MaxDays,
              \A e \in 1 .. MaxDays : e # d => DaysToCome(b)'[e] = DaysToCome(b)[e]
       PROVE  Unapplied(b)' = Unapplied(b) - DaysToCome(b)[d] + DaysToCome(b)'[d]
  <2>1. \A e \in 1 .. MaxDays : DaysToCome(b)[e] \in Int /\ DaysToCome(b)'[e] \in Int
    BY <1>0
  <2>2. MaxDays \in Nat
    BY <1>0
  <2>3. Total(DaysToCome(b)', MaxDays)
          = Total(DaysToCome(b), MaxDays) - DaysToCome(b)[d] + DaysToCome(b)'[d]
    BY <1>total, <2>1, <2>2, TotalUpdate
  <2> QED BY <2>3 DEF Unapplied
<1>2. ASSUME UNCHANGED <<stamp, applied>>,
             mirror'.outstanding + mirror'.retired + mirror'.keeper
               = mirror.outstanding + mirror.retired + mirror.keeper,
             base'[b].consumed = base[b].consumed, base'[b].keeper = base[b].keeper
      PROVE  DaysMeet(b)'
  <2>1. Unapplied(b)' = Unapplied(b)
    BY <1>2 DEF Unapplied, DaysToCome
  <2> QED BY <1>0, <1>2, <2>1 DEF DaysMeet
<1>3. ASSUME NEW x \in Amounts, Absorb(x) \/ SettleClaim(x) \/ ReleaseCommitment(x)
      PROVE  DaysMeet(b)'
  <2>1. x \in Nat
    BY RepatriationAssumption DEF Amounts
  <2>2. mirror'.outstanding + mirror'.retired + mirror'.keeper
          = mirror.outstanding + mirror.retired + mirror.keeper
    <3>1. CASE Absorb(x)
      BY <1>0, <2>1, <3>1, CreditedEffect DEF Absorb
    <3>2. CASE SettleClaim(x)
      <4>1. /\ mirror'.outstanding = mirror.outstanding - Smaller(x, mirror.outstanding)
            /\ mirror'.retired = mirror.retired + Smaller(x, mirror.outstanding)
            /\ mirror'.keeper = mirror.keeper
        BY <1>0, <2>1, <3>2, ConsumedEffect DEF SettleClaim
      <4> QED BY <1>1, <2>1, <4>1 DEF Smaller
    <3>3. CASE ReleaseCommitment(x)
      <4>1. /\ mirror'.outstanding = mirror.outstanding - Smaller(x, mirror.outstanding)
            /\ mirror'.retired = mirror.retired + Smaller(x, mirror.outstanding)
            /\ mirror'.keeper = mirror.keeper
        BY <1>0, <2>1, <3>3, ReleasedEffect DEF ReleaseCommitment
      <4> QED BY <1>1, <2>1, <4>1 DEF Smaller
    <3> QED BY <1>3, <3>1, <3>2, <3>3
  <2> QED BY <1>2, <1>3, <2>2 DEF Absorb, SettleClaim, ReleaseCommitment
<1>4. ASSUME NEW d \in Days, OnBroadcast(b, d) PROVE DaysMeet(b)'
  <2>1. PICK p \in msgs :
          /\ p.type = "broadcast" /\ p.base = b /\ p.day = d
          /\ mirror' = [mirror EXCEPT !.outstanding = @ + p.commit, !.keeper = @ + p.keep]
    BY <1>4 DEF OnBroadcast
  <2>2. stamp[<<b, d>>].commit = p.commit /\ stamp[<<b, d>>].keep = p.keep
    BY <2>1 DEF MessagesTrue, MessageTrue
  <2>3. p.commit \in Nat /\ p.keep \in Nat /\ d \in 1 .. MaxDays
    BY <2>1, InstructionTypes DEF Days
  <2>4. /\ mirror'.outstanding = mirror.outstanding + p.commit /\ mirror'.retired = mirror.retired
        /\ mirror'.keeper = mirror.keeper + p.keep
    BY <1>0, <2>1 DEF Ledgers
  <2>5. d \notin applied /\ applied' = applied \cup {d} /\ stamp' = stamp /\ base' = base
    BY <1>4 DEF OnBroadcast
  <2>6. DaysToCome(b)[d] = p.commit + p.keep /\ DaysToCome(b)'[d] = 0
    BY <2>2, <2>5 DEF DaysToCome
  <2>7. \A e \in 1 .. MaxDays : e # d => DaysToCome(b)'[e] = DaysToCome(b)[e]
    BY <2>5 DEF DaysToCome, Days
  <2>8. Unapplied(b)' = Unapplied(b) - DaysToCome(b)[d] + DaysToCome(b)'[d]
    BY <2>3, <2>7, <1>total
  <2> QED BY <1>0, <1>1, <2>3, <2>4, <2>5, <2>6, <2>8 DEF DaysMeet
<1>5. ASSUME NEW d \in Days, NEW x \in 0 .. MaxAmount, NEW k \in 0 .. MaxAmount,
             FinalizeDay(b, d, x, k)
      PROVE  DaysMeet(b)'
  <2>1. x \in Nat /\ k \in Nat /\ d \in 1 .. MaxDays
    BY RepatriationAssumption DEF Days
  <2>2. base'[b] = Funded(base[b], x, k)
    BY <1>5, OneBook DEF FinalizeDay
  <2>3. base'[b].consumed = base[b].consumed + x /\ base'[b].keeper = base[b].keeper + k
    BY <1>0, <2>1, <2>2, FundedEffect
  <2>4. /\ stamp' = [stamp EXCEPT ![<<b, d>>] = [stamped |-> TRUE, commit |-> x, keep |-> k]]
        /\ ~ stamp[<<b, d>>].stamped /\ applied' = applied /\ mirror' = mirror
    BY <1>5 DEF FinalizeDay
  <2>5. d \notin applied /\ DaysToCome(b)[d] = 0
    BY <2>4 DEF StampsTrue, DaysToCome
  <2>6. DaysToCome(b)'[d] = x + k
    BY <2>4, <2>5 DEF DaysToCome, TypeOK
  <2>7. \A e \in 1 .. MaxDays : e # d => DaysToCome(b)'[e] = DaysToCome(b)[e]
    BY <2>4 DEF DaysToCome, Days, TypeOK
  <2>8. Unapplied(b)' = Unapplied(b) - DaysToCome(b)[d] + DaysToCome(b)'[d]
    BY <2>1, <2>7, <1>total
  <2> QED BY <1>0, <1>1, <2>1, <2>3, <2>4, <2>5, <2>6, <2>8 DEF DaysMeet
<1>6. ASSUME NEW i \in Ids, ExecuteRepatriation(b, i) PROVE DaysMeet(b)'
  <2>1. instr[<<b, i>>].amount \in Nat
    BY DEF TypeOK, Instrs
  <2> QED BY <1>0, <1>2, <1>6, <2>1, RepatriatedEffect DEF ExecuteRepatriation
<1>7. ASSUME UNCHANGED <<stamp, applied, mirror>>,
             \/ \E p \in msgs : OnChainReport(p)
             \/ \E i \in Ids : \/ \E x \in Amounts : AuthorizeRepatriation(b, i, x)
                               \/ \E short \in 0 .. MaxShort : OnReturn(b, i, short)
                               \/ OnCancelAck(b, i)
      PROVE  DaysMeet(b)'
  <2>1. \/ \E p : base'[b] = Informed(base[b], p)
        \/ \E y : base'[b] = [base[b] EXCEPT !.draw = y] \/ base'[b] = [base[b] EXCEPT !.relocated = y]
    <3>1. ASSUME NEW p \in msgs, OnChainReport(p) PROVE base'[b] = Informed(base[b], p)
      BY <3>1, OneBook, ReportTypes DEF OnChainReport
    <3>2. ASSUME NEW i \in Ids, NEW x \in Amounts, AuthorizeRepatriation(b, i, x)
          PROVE  \E y : base'[b] = [base[b] EXCEPT !.draw = y]
      BY <3>2, OneBook DEF AuthorizeRepatriation
    <3>3. ASSUME NEW i \in Ids, NEW short \in 0 .. MaxShort, OnReturn(b, i, short)
          PROVE  \E y : base'[b] = [base[b] EXCEPT !.relocated = y]
      BY <3>3, OneBook DEF OnReturn
    <3>4. ASSUME NEW i \in Ids, OnCancelAck(b, i)
          PROVE  \E y : base'[b] = [base[b] EXCEPT !.draw = y]
      BY <3>4, OneBook DEF OnCancelAck
    <3> QED BY <1>7, <3>1, <3>2, <3>3, <3>4
  <2>2. base'[b].consumed = base[b].consumed /\ base'[b].keeper = base[b].keeper
    <3>1. ASSUME NEW p, base'[b] = Informed(base[b], p)
          PROVE  base'[b].consumed = base[b].consumed /\ base'[b].keeper = base[b].keeper
      BY <1>0, <3>1, InformedEffect
    <3>2. ASSUME NEW y, base'[b] = [base[b] EXCEPT !.draw = y] \/ base'[b] = [base[b] EXCEPT !.relocated = y]
          PROVE  base'[b].consumed = base[b].consumed /\ base'[b].keeper = base[b].keeper
      BY <1>0, <3>2 DEF Books
    <3> QED BY <2>1, <3>1, <3>2
  <2> QED BY <1>2, <1>7, <2>2
<1>8. CASE UNCHANGED <<stamp, applied, mirror, base>>
  BY <1>2, <1>8
<1>9. \A c \in Bases : c = b
  OBVIOUS
<1>11. CASE MirrorNext
  <2>1. ASSUME NEW c \in Bases, NEW d \in Days, OnBroadcast(c, d) PROVE DaysMeet(b)'
    BY <1>4, <1>9, <2>1
  <2>2. ASSUME NEW c \in Bases, NEW i \in Ids, ExecuteRepatriation(c, i) PROVE DaysMeet(b)'
    BY <1>6, <1>9, <2>2
  <2> QED BY <1>3, <1>8, <1>11, <2>1, <2>2
        DEF MirrorNext, CloseDay, OnInstruction, OnCancelInstruction, SendCancelAck, SetBaseChainId,
            SetBaseRewardDeployment
<1>12. CASE BaseNext
  <2>1. ASSUME NEW c \in Bases, NEW d \in Days, NEW x \in 0 .. MaxAmount, NEW k \in 0 .. MaxAmount,
               FinalizeDay(c, d, x, k)
        PROVE  DaysMeet(b)'
    BY <1>5, <1>9, <2>1
  <2>2. ASSUME NEW c \in Bases, NEW i \in Ids,
               \/ \E x \in Amounts : AuthorizeRepatriation(c, i, x)
               \/ \E short \in 0 .. MaxShort : OnReturn(c, i, short)
               \/ OnCancelAck(c, i)
        PROVE  DaysMeet(b)'
    <3>1. UNCHANGED <<stamp, applied, mirror>>
      BY <2>2 DEF AuthorizeRepatriation, OnReturn, OnCancelAck
    <3> QED BY <1>7, <1>9, <2>2, <3>1
  <2>3. ASSUME NEW p \in msgs, OnChainReport(p) PROVE DaysMeet(b)'
    <3>1. UNCHANGED <<stamp, applied, mirror>>
      BY <2>3 DEF OnChainReport
    <3> QED BY <1>7, <2>3, <3>1
  <2> QED BY <1>8, <1>12, <2>1, <2>2, <2>3
        DEF BaseNext, BroadcastDay, SendInstruction, RequestCancel
<1> QED BY <1>8, <1>11, <1>12 DEF Next, vars

LEMMA OrdersMeetStep ==
    ASSUME TypeOK, MessagesTrue, RecordsTrue, OneOutcome, TypeOK', [Next]_vars,
           NEW b \in Bases, Bases = {b}, OrdersMeet(b)
    PROVE  OrdersMeet(b)'
<1>0. /\ mirror \in Ledgers /\ base[b] \in Books
      /\ MaxAuths \in Nat
      /\ \A i \in 1 .. MaxAuths : OrdersToCome(b)[i] \in Nat /\ OrdersToCome(b)'[i] \in Nat
      /\ Unexecuted(b) \in Nat /\ \A i \in 1 .. MaxAuths : OrdersToCome(b)[i] <= Unexecuted(b)
      /\ base[b].draw = mirror.out + Unexecuted(b)
  <2>1. \A i \in Ids : OrdersToCome(b)'[i] \in Nat
    BY DEF TypeOK, Auths, OrdersToCome
  <2>2. MaxAuths \in Nat /\ \A i \in 1 .. MaxAuths : OrdersToCome(b)[i] \in Nat
    BY ChargeTypes, RepatriationAssumption DEF Ids
  <2>3. Unexecuted(b) \in Nat /\ \A i \in 1 .. MaxAuths : OrdersToCome(b)[i] <= Unexecuted(b)
    BY <2>2, TotalBounds DEF Unexecuted
  <2> QED BY <2>1, <2>2, <2>3 DEF Ids, TypeOK, OrdersMeet
<1>1. mirror.out \in Nat /\ base[b].draw \in Nat
  BY <1>0, LedgerFields, BookFields
<1>total. ASSUME NEW i \in 1 .. MaxAuths,
                 \A j \in 1 .. MaxAuths : j # i => OrdersToCome(b)'[j] = OrdersToCome(b)[j]
          PROVE  Unexecuted(b)' = Unexecuted(b) - OrdersToCome(b)[i] + OrdersToCome(b)'[i]
  <2>1. \A j \in 1 .. MaxAuths : OrdersToCome(b)[j] \in Int /\ OrdersToCome(b)'[j] \in Int
    BY <1>0
  <2>2. MaxAuths \in Nat
    BY <1>0
  <2>3. Total(OrdersToCome(b)', MaxAuths)
          = Total(OrdersToCome(b), MaxAuths) - OrdersToCome(b)[i] + OrdersToCome(b)'[i]
    BY <1>total, <2>1, <2>2, TotalUpdate
  <2> QED BY <2>3 DEF Unexecuted
<1>same. ASSUME \A j \in Ids : OrdersToCome(b)'[j] = OrdersToCome(b)[j],
                base'[b].draw = base[b].draw, mirror'.out = mirror.out
         PROVE  OrdersMeet(b)'
  <2>1. Total(OrdersToCome(b)', MaxAuths) = Total(OrdersToCome(b), MaxAuths)
    BY <1>0, <1>same, TotalSame DEF Ids
  <2> QED BY <1>0, <1>same, <2>1 DEF OrdersMeet, Unexecuted
<1>2. ASSUME NEW i \in Ids, NEW x \in Amounts, AuthorizeRepatriation(b, i, x)
      PROVE  OrdersMeet(b)'
  <2>1. x \in Nat /\ i \in 1 .. MaxAuths
    BY RepatriationAssumption DEF Amounts, Ids
  <2>2. base'[b].draw = base[b].draw + x
    <3>1. base'[b] = [base[b] EXCEPT !.draw = @ + x]
      BY <1>2, OneBook DEF AuthorizeRepatriation
    <3> QED BY <1>0, <3>1 DEF Books
  <2>3. /\ auth'[<<b, i>>] = [status |-> "pending", amount |-> x, shortfall |-> 0]
        /\ \A o \in Bases \X Ids : o # <<b, i>> => auth'[o] = auth[o]
    BY <1>2, OneRecord DEF AuthorizeRepatriation
  <2>4. auth[<<b, i>>].status = "none" /\ instr' = instr /\ mirror' = mirror
    BY <1>2 DEF AuthorizeRepatriation
  <2>5. instr[<<b, i>>].state = "none"
    BY <2>4 DEF RecordsTrue
  <2>6. OrdersToCome(b)[i] = 0 /\ OrdersToCome(b)'[i] = x
    BY <2>3, <2>4, <2>5 DEF OrdersToCome
  <2>7. \A j \in 1 .. MaxAuths : j # i => OrdersToCome(b)'[j] = OrdersToCome(b)[j]
    BY <2>3, <2>4 DEF OrdersToCome, Ids
  <2>8. Unexecuted(b)' = Unexecuted(b) - OrdersToCome(b)[i] + OrdersToCome(b)'[i]
    BY <1>total, <2>1, <2>7
  <2> QED BY <1>0, <1>1, <2>1, <2>2, <2>4, <2>6, <2>8 DEF OrdersMeet
<1>3. ASSUME NEW i \in Ids, ExecuteRepatriation(b, i) PROVE OrdersMeet(b)'
  <2> DEFINE o == <<b, i>>
             x == instr[o].amount
  <2>1. /\ instr[o].state = "pending" /\ auth' = auth /\ base' = base
        /\ mirror' = Repatriated(mirror, x)
        /\ instr' = [instr EXCEPT ![o].state = "executed"]
    BY <1>3 DEF ExecuteRepatriation
  <2>2. x \in Nat /\ i \in 1 .. MaxAuths
    BY DEF TypeOK, Instrs, Ids
  <2>3. auth[o].status = "pending" /\ x = auth[o].amount
    BY <2>1 DEF TypeOK, Auths, RecordsTrue, OneOutcome
  <2>4. instr'[o].state = "executed" /\ \A q \in Bases \X Ids : q # o => instr'[q] = instr[q]
    BY <2>1 DEF TypeOK, Instrs
  <2>5. mirror'.out = mirror.out + x
    BY <1>0, <2>1, <2>2, RepatriatedEffect
  <2>6. OrdersToCome(b)[i] = x /\ OrdersToCome(b)'[i] = 0
    BY <2>1, <2>3, <2>4 DEF OrdersToCome
  <2>7. \A j \in 1 .. MaxAuths : j # i => OrdersToCome(b)'[j] = OrdersToCome(b)[j]
    BY <2>1, <2>4 DEF OrdersToCome, Ids
  <2>8. Unexecuted(b)' = Unexecuted(b) - OrdersToCome(b)[i] + OrdersToCome(b)'[i]
    BY <1>total, <2>2, <2>7
  <2> HIDE DEF x
  <2> QED BY <1>0, <1>1, <2>1, <2>2, <2>5, <2>6, <2>8 DEF OrdersMeet
<1>4. ASSUME NEW i \in Ids, NEW short \in 0 .. MaxShort, OnReturn(b, i, short)
      PROVE  OrdersMeet(b)'
  <2> DEFINE y == auth[<<b, i>>].amount - short
  <2>1. instr[<<b, i>>].state = "executed" /\ instr' = instr /\ mirror' = mirror
    BY <1>4, ReturnsAreExecuted DEF OnReturn
  <2>2. /\ auth'[<<b, i>>] = Settled(auth[<<b, i>>], y)
        /\ \A o \in Bases \X Ids : o # <<b, i>> => auth'[o] = auth[o]
    BY <1>4, OneRecord DEF OnReturn
  <2>3. \A j \in Ids : OrdersToCome(b)'[j] = OrdersToCome(b)[j]
    BY <2>1, <2>2 DEF OrdersToCome
  <2>4. base'[b].draw = base[b].draw
    <3>1. base'[b] = [base[b] EXCEPT !.relocated = @ + y]
      BY <1>4, OneBook DEF OnReturn
    <3> QED BY <1>0, <3>1 DEF Books
  <2> QED BY <1>same, <2>1, <2>3, <2>4
<1>5. ASSUME NEW i \in Ids, OnCancelAck(b, i) PROVE OrdersMeet(b)'
  <2> DEFINE x == auth[<<b, i>>].amount
  <2>0. MessageTrue(Ack(b, i)) /\ auth[<<b, i>>] \in Auths
    BY <1>5 DEF OnCancelAck, MessagesTrue, TypeOK
  <2>1. /\ instr[<<b, i>>].state = "tombstoned" /\ auth[<<b, i>>].status = "pending"
        /\ instr' = instr /\ mirror' = mirror
    BY <1>5, <2>0 DEF OnCancelAck, Pending, Ack, MessageTrue
  <2>2. x \in Nat /\ i \in 1 .. MaxAuths
    BY <2>0 DEF Auths, Ids
  <2>3. /\ auth'[<<b, i>>] = [auth[<<b, i>>] EXCEPT !.status = "released"]
        /\ \A o \in Bases \X Ids : o # <<b, i>> => auth'[o] = auth[o]
    BY <1>5, OneRecord DEF OnCancelAck
  <2>4. auth'[<<b, i>>].status = "released"
    BY <2>0, <2>3 DEF Auths
  <2>5. base'[b].draw = Excess(base[b].draw, x)
    <3>1. base'[b] = [base[b] EXCEPT !.draw = Excess(@, x)]
      BY <1>5, OneBook DEF OnCancelAck
    <3> QED BY <1>0, <3>1 DEF Books
  <2>6. OrdersToCome(b)[i] = x /\ OrdersToCome(b)'[i] = 0
    BY <2>1, <2>4 DEF OrdersToCome
  <2>7. \A j \in 1 .. MaxAuths : j # i => OrdersToCome(b)'[j] = OrdersToCome(b)[j]
    BY <2>1, <2>3 DEF OrdersToCome, Ids
  <2>8. Unexecuted(b)' = Unexecuted(b) - OrdersToCome(b)[i] + OrdersToCome(b)'[i]
    BY <1>total, <2>2, <2>7
  <2> HIDE DEF x
  <2>9. x <= Unexecuted(b)
    BY <1>0, <2>2, <2>6
  <2> QED BY <1>0, <1>1, <2>1, <2>2, <2>5, <2>6, <2>8, <2>9 DEF OrdersMeet, Excess
<1>6. ASSUME NEW i \in Ids, OnInstruction(b, i) \/ OnCancelInstruction(b, i)
      PROVE  OrdersMeet(b)'
  <2>1. instr[<<b, i>>].state # "executed" /\ auth' = auth /\ base' = base /\ mirror' = mirror
    BY <1>6 DEF OnInstruction, OnCancelInstruction
  <2>2. /\ instr'[<<b, i>>].state # "executed"
        /\ \A o \in Bases \X Ids : o # <<b, i>> => instr'[o] = instr[o]
    <3>1. CASE OnInstruction(b, i)
      <4>1. PICK p \in msgs :
              instr' = [instr EXCEPT ![<<b, i>>] = [state |-> "pending", amount |-> p.amount]]
        BY <3>1 DEF OnInstruction
      <4> QED BY <4>1 DEF TypeOK
    <3>2. CASE OnCancelInstruction(b, i)
      BY <3>2 DEF OnCancelInstruction, TypeOK, Instrs
    <3> QED BY <1>6, <3>1, <3>2
  <2>3. \A j \in Ids : OrdersToCome(b)'[j] = OrdersToCome(b)[j]
    BY <2>1, <2>2 DEF OrdersToCome
  <2> QED BY <1>same, <2>1, <2>3
<1>7. ASSUME UNCHANGED <<auth, instr>>, base'[b].draw = base[b].draw, mirror'.out = mirror.out
      PROVE  OrdersMeet(b)'
  BY <1>same, <1>7 DEF OrdersToCome
<1>8. ASSUME NEW x \in Amounts, Absorb(x) \/ SettleClaim(x) \/ ReleaseCommitment(x)
      PROVE  OrdersMeet(b)'
  <2>1. x \in Nat
    BY RepatriationAssumption DEF Amounts
  <2>2. mirror'.out = mirror.out
    BY <1>0, <1>8, <2>1, CreditedEffect, ConsumedEffect, ReleasedEffect
      DEF Absorb, SettleClaim, ReleaseCommitment
  <2> QED BY <1>7, <1>8, <2>2 DEF Absorb, SettleClaim, ReleaseCommitment
<1>9. \A c \in Bases : c = b
  OBVIOUS
<1>10. CASE MirrorNext
  <2>1. ASSUME NEW c \in Bases, NEW d \in Days, OnBroadcast(c, d) PROVE OrdersMeet(b)'
    <3>1. UNCHANGED <<auth, instr, base>>
      BY <2>1 DEF OnBroadcast
    <3>2. \E y, z : mirror' = [mirror EXCEPT !.outstanding = y, !.keeper = z]
      BY <2>1 DEF OnBroadcast
    <3>3. mirror'.out = mirror.out
      BY <1>0, <3>2 DEF Ledgers
    <3> QED BY <1>7, <3>1, <3>3
  <2>2. ASSUME NEW c \in Bases, NEW i \in Ids,
               OnInstruction(c, i) \/ OnCancelInstruction(c, i) \/ ExecuteRepatriation(c, i)
        PROVE  OrdersMeet(b)'
    BY <1>3, <1>6, <1>9, <2>2
  <2>3. CASE UNCHANGED <<auth, instr, base, mirror>>
    BY <1>7, <2>3
  <2> QED BY <1>8, <1>10, <2>1, <2>2, <2>3 DEF MirrorNext, CloseDay, SendCancelAck, SetBaseChainId,
                SetBaseRewardDeployment
<1>11. CASE BaseNext
  <2>1. ASSUME NEW p \in msgs, OnChainReport(p) PROVE OrdersMeet(b)'
    <3>1. UNCHANGED <<auth, instr, mirror>>
      BY <2>1 DEF OnChainReport
    <3>2. base'[b] = Informed(base[b], p)
      BY <2>1, <1>9, OneBook, ReportTypes DEF OnChainReport
    <3>3. base'[b].draw = base[b].draw
      BY <1>0, <3>2, InformedEffect
    <3> QED BY <1>7, <3>1, <3>3
  <2>2. ASSUME NEW c \in Bases, NEW d \in Days, NEW x \in 0 .. MaxAmount, NEW k \in 0 .. MaxAmount,
               FinalizeDay(c, d, x, k)
        PROVE  OrdersMeet(b)'
    <3>1. UNCHANGED <<auth, instr, mirror>>
      BY <2>2 DEF FinalizeDay
    <3>2. base'[b] = Funded(base[b], x, k)
      BY <2>2, <1>9, OneBook DEF FinalizeDay
    <3>3. x \in Nat /\ k \in Nat
      BY RepatriationAssumption
    <3>4. base'[b].draw = base[b].draw
      BY <1>0, <3>2, <3>3, FundedEffect
    <3> QED BY <1>7, <3>1, <3>4
  <2>3. ASSUME NEW c \in Bases, NEW i \in Ids,
               \/ \E x \in Amounts : AuthorizeRepatriation(c, i, x)
               \/ \E short \in 0 .. MaxShort : OnReturn(c, i, short)
               \/ OnCancelAck(c, i)
        PROVE  OrdersMeet(b)'
    BY <1>2, <1>4, <1>5, <1>9, <2>3
  <2>4. CASE UNCHANGED <<auth, instr, base, mirror>>
    BY <1>7, <2>4
  <2> QED BY <1>11, <2>1, <2>2, <2>3, <2>4 DEF BaseNext, BroadcastDay, SendInstruction, RequestCancel
<1> QED BY <1>7, <1>10, <1>11 DEF Next, vars

-----------------------------------------------------------------------------
(* The invariant.                                                          *)

LEMMA InitInv == Init => Inv
<1> SUFFICES ASSUME Init PROVE Inv
  OBVIOUS
<1>1. TypeOK
  BY InitType
<1>2. MessagesTrue /\ RecordsTrue /\ OneOutcome
  BY DEF Init, MessagesTrue, RecordsTrue, OneOutcome
<1>3. BooksLag /\ Covered
  BY DEF Init, BooksLag, Covered, Smaller
<1>4. StampsTrue /\ BucketBacked
  BY DEF Init, StampsTrue, BucketBacked
<1>5. ASSUME NEW n \in Nat, NEW f, \A i \in 1 .. n : f[i] = 0 PROVE Total(f, n) = 0
  BY <1>5, TotalZero
<1>6. ASSUME NEW b \in Bases
      PROVE  /\ Total(OrdersCharged(b), MaxAuths) = 0
             /\ Unapplied(b) = 0 /\ Unexecuted(b) = 0
  <2>1. /\ \A i \in 1 .. MaxAuths : OrdersCharged(b)[i] = 0 /\ OrdersToCome(b)[i] = 0
        /\ \A d \in 1 .. MaxDays : DaysToCome(b)[d] = 0
    BY DEF Init, OrdersCharged, OrdersToCome, DaysToCome, Ids, Days
  <2> QED BY <1>5, <2>1, RepatriationAssumption DEF Unapplied, Unexecuted
<1>7. DrawIsCharged
  BY <1>6 DEF Init, DrawIsCharged
<1>8. LedgersMeet
  BY <1>6 DEF Init, LedgersMeet, DaysMeet, OrdersMeet
<1> QED BY <1>1, <1>2, <1>3, <1>4, <1>7, <1>8 DEF Inv

LEMMA InvStep == ASSUME Inv, [Next]_vars PROVE Inv'
<1> USE DEF Inv
<1>1. TypeOK'
  BY TypeStep
<1>2. MessagesTrue' /\ RecordsTrue' /\ OneOutcome'
  BY <1>1, MessagesStep, RecordsStep, OneOutcomeStep
<1>3. BooksLag' /\ DrawIsCharged' /\ Covered'
  BY <1>1, BooksLagStep, DrawIsChargedStep, CoveredStep
<1>4. StampsTrue' /\ BucketBacked'
  BY StampsStep, BucketStep
<1>5. LedgersMeet'
  BY <1>1, DaysMeetStep, OrdersMeetStep DEF LedgersMeet
<1> QED BY <1>1, <1>2, <1>3, <1>4, <1>5

LEMMA InvHolds == Spec => []Inv
<1> QED BY InitInv, InvStep, PTL DEF Spec

(* A Base and its mirror agree on the one outcome of every order, and what *)
(* the mirror sent is in flight until the Base has booked it.              *)
THEOREM OneOutcomeHolds == Spec => []OneOutcome
<1>1. Inv => OneOutcome
  BY DEF Inv
<1> QED BY <1>1, InvHolds, PTL

(* No Base's copy of the mirror's books ever runs ahead of them.           *)
THEOREM BooksStayBehind == Spec => []BooksLag
<1>1. Inv => BooksLag
  BY DEF Inv
<1> QED BY <1>1, InvHolds, PTL

(* A charge is the total of the orders that are open or were paid.         *)
THEOREM DrawStaysCharged == Spec => []DrawIsCharged
<1>1. Inv => DrawIsCharged
  BY DEF Inv
<1> QED BY <1>1, InvHolds, PTL

LEMMA InvOffers == Inv => OfferedIsThere
<1> SUFFICES ASSUME Inv, NEW b \in Bases, Bases = {b}
             PROVE  mirror.bucket + Dust(mirror) >=
                      mirror.outstanding + mirror.keeper + Unapplied(b) + Unexecuted(b) + Avail(base[b])
  BY DEF OfferedIsThere
<1> DEFINE B == base[b]
<1>1. B \in Books /\ mirror \in Ledgers
  BY DEF Inv, TypeOK
<1>2. /\ mirror.bucket \in Nat /\ mirror.credited \in Nat /\ mirror.paidOut \in Nat
      /\ mirror.outstanding \in Nat /\ mirror.retired \in Nat /\ mirror.released \in Nat
      /\ mirror.keeper \in Nat /\ mirror.out \in Nat
      /\ B.reported \in Nat /\ B.consumed \in Nat /\ B.outstanding \in Nat /\ B.retired \in Nat
      /\ B.released \in Nat /\ B.draw \in Nat /\ B.keeper \in Nat
  BY <1>1, LedgerFields, BookFields
<1>3. Unapplied(b) \in Nat /\ Unexecuted(b) \in Nat
  BY ChargeTypes, TotalBounds, RepatriationAssumption DEF Inv, Unapplied, Unexecuted, Ids, Days
<1>4. mirror.bucket + mirror.paidOut + mirror.out >= mirror.credited
  BY DEF Inv, BucketBacked
<1>5. /\ B.consumed + B.keeper
           = mirror.outstanding + mirror.retired + mirror.keeper + Unapplied(b)
      /\ B.draw = mirror.out + Unexecuted(b)
  BY DEF Inv, LedgersMeet, DaysMeet, OrdersMeet
<1>6. /\ B.outstanding + B.retired = B.consumed /\ B.reported <= mirror.credited
      /\ B.released <= B.retired /\ B.released <= mirror.released
  BY <1>2 DEF Inv, BooksLag, Smaller
<1>7. B.consumed + B.draw + B.keeper <= B.reported + B.released
  BY DEF Inv, Covered
<1> HIDE DEF B
<1>8. B.consumed + B.draw + B.keeper + Avail(B) <= B.reported + B.released
  BY <1>2, <1>6, <1>7 DEF Avail, Excess
<1>9. Avail(B) \in Nat
  BY <1>1, BookFields
<1>10. B.consumed + B.draw + B.keeper + Avail(B) <= mirror.credited + mirror.released
  BY <1>2, <1>6, <1>8, <1>9
<1>11. mirror.bucket + Dust(mirror)
         >= mirror.outstanding + mirror.keeper + Unapplied(b) + Unexecuted(b) + Avail(B)
  BY <1>2, <1>3, <1>4, <1>5, <1>9, <1>10 DEF Dust
<1> QED BY <1>11 DEF B

(* The bucket of a mirror that serves one Base covers all it was told and  *)
(* all it may still be told, whatever messages are late.                   *)
THEOREM OfferStaysCovered == Spec => []OfferedIsThere
<1> QED BY InvOffers, InvHolds, PTL

-----------------------------------------------------------------------------
(* Sums over a finite set.  SumOver takes the elements in an order of its  *)
(* own; these lemmas say that the order does not matter, so that a sum     *)
(* follows the terms that a step changes, adds or takes away.              *)

Picked(s) == CHOOSE x \in s : TRUE

(* g holds, for every part of S, the sum of f over that part. *)
PartSums(f, S, g) ==
    g = [s \in SUBSET S |-> IF s = {} THEN 0 ELSE f[Picked(s)] + g[s \ {Picked(s)}]]

LEMMA PickedIsIn == ASSUME NEW s, s # {} PROVE Picked(s) \in s
BY DEF Picked

(* Induction over the parts of a finite set. *)
LEMMA PartsInduction ==
    ASSUME NEW S, IsFiniteSet(S), NEW G, {} \in G,
           \A s \in SUBSET S : s # {} /\ (\A y \in s : s \ {y} \in G) => s \in G
    PROVE  SUBSET S \subseteq G
<1> DEFINE N == {n \in Nat : \A s \in SUBSET S : Cardinality(s) = n => s \in G}
<1>1. \A s \in SUBSET S : IsFiniteSet(s) /\ Cardinality(s) \in Nat
  BY FS_Subset, FS_CardinalityType
<1>2. 0 \in N
  BY <1>1, FS_EmptySet
<1>3. ASSUME NEW n \in N PROVE n + 1 \in N
  <2>1. SUFFICES ASSUME NEW s \in SUBSET S, Cardinality(s) = n + 1 PROVE s \in G
    OBVIOUS
  <2>2. s # {}
    BY <2>1, FS_EmptySet
  <2>3. ASSUME NEW y \in s PROVE s \ {y} \in G
    <3>1. s \ {y} \in SUBSET S /\ Cardinality(s \ {y}) = n
      BY <1>1, <2>1, FS_RemoveElement
    <3> QED BY <3>1
  <2> QED BY <2>2, <2>3
<1>4. N = Nat
  <2>1. N \in SUBSET Nat
    OBVIOUS
  <2> HIDE DEF N
  <2> QED BY <1>2, <1>3, <2>1, SetInduction
<1> QED BY <1>1, <1>4

LEMMA PartSumsExist ==
    ASSUME NEW S, IsFiniteSet(S), NEW f
    PROVE  \E g : PartSums(f, S, g)
<1> DEFINE Holds(n, g) == \A s \in SUBSET S : Cardinality(s) <= n =>
                 g[s] = IF s = {} THEN 0 ELSE f[Picked(s)] + g[s \ {Picked(s)}]
           N == {n \in Nat : \E g : Holds(n, g)}
<1>1. \A s \in SUBSET S : IsFiniteSet(s) /\ Cardinality(s) \in Nat
  BY FS_Subset, FS_CardinalityType
<1>2. 0 \in N
  <2> DEFINE g == [s \in SUBSET S |-> 0]
  <2>1. ASSUME NEW s \in SUBSET S, Cardinality(s) <= 0 PROVE s = {} /\ g[s] = 0
    BY <1>1, <2>1, FS_EmptySet
  <2>2. Holds(0, g)
    BY <2>1
  <2> QED BY <2>2
<1>3. ASSUME NEW n \in N PROVE n + 1 \in N
  <2>1. PICK g : Holds(n, g)
    OBVIOUS
  <2> DEFINE h == [s \in SUBSET S |-> IF Cardinality(s) <= n THEN g[s]
                                      ELSE f[Picked(s)] + g[s \ {Picked(s)}]]
  <2>2. ASSUME NEW s \in SUBSET S, Cardinality(s) <= n + 1
        PROVE  h[s] = IF s = {} THEN 0 ELSE f[Picked(s)] + h[s \ {Picked(s)}]
    <3>1. CASE s = {}
      <4>1. Cardinality(s) <= n
        BY <1>1, <3>1, FS_EmptySet
      <4> QED BY <2>1, <3>1, <4>1
    <3>2. CASE s # {}
      <4> DEFINE t == s \ {Picked(s)}
      <4>1. t \in SUBSET S /\ Cardinality(t) <= n
        BY <1>1, <2>2, <3>2, PickedIsIn, FS_RemoveElement
      <4>2. h[t] = g[t]
        BY <4>1
      <4>3. h[s] = f[Picked(s)] + g[t]
        BY <2>1, <3>2
      <4> QED BY <3>2, <4>2, <4>3
    <3> QED BY <3>1, <3>2
  <2> HIDE DEF h
  <2>3. Holds(n + 1, h) /\ n + 1 \in Nat
    BY <2>2, SMTT(60)
  <2> HIDE DEF Holds
  <2> QED BY <2>3
<1>4. N = Nat
  <2>1. N \in SUBSET Nat
    OBVIOUS
  <2> HIDE DEF N
  <2> QED BY <1>2, <1>3, <2>1, SetInduction
<1>5. PICK g : Holds(Cardinality(S), g)
  BY <1>1, <1>4
<1> DEFINE k == [s \in SUBSET S |-> g[s]]
<1>6. ASSUME NEW s \in SUBSET S
      PROVE  k[s] = IF s = {} THEN 0 ELSE f[Picked(s)] + k[s \ {Picked(s)}]
  <2>1. Cardinality(s) <= Cardinality(S) /\ s \ {Picked(s)} \in SUBSET S
    BY FS_Subset
  <2>2. g[s] = IF s = {} THEN 0 ELSE f[Picked(s)] + g[s \ {Picked(s)}]
    BY <1>5, <2>1
  <2>3. k[s] = g[s] /\ k[s \ {Picked(s)}] = g[s \ {Picked(s)}]
    BY <2>1
  <2> HIDE DEF k
  <2> QED BY <2>2, <2>3
<1>7. k = [s \in SUBSET S |-> k[s]]
  OBVIOUS
<1> HIDE DEF k
<1> QED BY <1>6, <1>7 DEF PartSums

LEMMA PartSumsOf ==
    ASSUME NEW S, NEW f, NEW g, PartSums(f, S, g), NEW s \in SUBSET S
    PROVE  g[s] = IF s = {} THEN 0 ELSE f[Picked(s)] + g[s \ {Picked(s)}]
BY DEF PartSums

(* A sum of integers is one, and its terms may be taken in any order.      *)
LEMMA PartSumsTypes ==
    ASSUME NEW S, IsFiniteSet(S), NEW f, NEW g, PartSums(f, S, g), \A x \in S : f[x] \in Int
    PROVE  \A s \in SUBSET S : g[s] \in Int
<1> DEFINE G == {s \in SUBSET S : g[s] \in Int}
<1>1. {} \in G
  <2>1. g[{}] = 0
    BY PartSumsOf
  <2> QED BY <2>1
<1>2. ASSUME NEW s \in SUBSET S, s # {}, \A y \in s : s \ {y} \in G PROVE s \in G
  <2>1. Picked(s) \in s /\ g[s] = f[Picked(s)] + g[s \ {Picked(s)}]
    BY <1>2, PickedIsIn, PartSumsOf
  <2>2. g[s \ {Picked(s)}] \in Int /\ f[Picked(s)] \in Int
    BY <1>2, <2>1
  <2>3. g[s] \in Int
    BY <2>1, <2>2
  <2> QED BY <2>3
<1> HIDE DEF G
<1>3. SUBSET S \subseteq G
  BY <1>1, <1>2, PartsInduction
<1> QED BY <1>3 DEF G

LEMMA PartSumsRemove ==
    ASSUME NEW S, IsFiniteSet(S), NEW f, NEW g, PartSums(f, S, g), \A x \in S : f[x] \in Int,
           NEW A \in SUBSET S, NEW z \in A
    PROVE  g[A] = f[z] + g[A \ {z}]
<1> DEFINE G == {s \in SUBSET S : \A y \in s : g[s] = f[y] + g[s \ {y}]}
<1>1. {} \in G
  OBVIOUS
<1>2. ASSUME NEW s \in SUBSET S, s # {}, \A y \in s : s \ {y} \in G PROVE s \in G
  <2> DEFINE x == Picked(s)
  <2>1. x \in s /\ g[s] = f[x] + g[s \ {x}]
    BY <1>2, PickedIsIn, PartSumsOf
  <2> HIDE DEF x
  <2>2. ASSUME NEW y \in s, y # x PROVE g[s] = f[y] + g[s \ {y}]
    <3> DEFINE r == s \ {x, y}
    <3>1. (s \ {x}) \ {y} = r /\ (s \ {y}) \ {x} = r /\ y \in s \ {x} /\ x \in s \ {y}
      BY <2>1, <2>2
    <3>2. g[s \ {x}] = f[y] + g[r] /\ g[s \ {y}] = f[x] + g[r]
      BY <1>2, <2>1, <3>1
    <3>3. g[r] \in Int /\ f[x] \in Int /\ f[y] \in Int
      BY <2>1, PartSumsTypes
    <3> HIDE DEF r
    <3> QED BY <2>1, <3>2, <3>3
  <2> QED BY <2>1, <2>2
<1> HIDE DEF G
<1>3. SUBSET S \subseteq G
  BY <1>1, <1>2, PartsInduction
<1> QED BY <1>3 DEF G

(* A sum depends on its terms only.                                        *)
LEMMA PartSumsAgree ==
    ASSUME NEW S, NEW f, NEW g, PartSums(f, S, g), NEW T, NEW h, NEW k, PartSums(h, T, k),
           NEW A \in SUBSET S, A \in SUBSET T, IsFiniteSet(A), \A x \in A : f[x] = h[x]
    PROVE  g[A] = k[A]
<1> DEFINE G == {s \in SUBSET A : g[s] = k[s]}
<1>1. {} \in G
  BY PartSumsOf
<1>2. ASSUME NEW s \in SUBSET A, s # {}, \A y \in s : s \ {y} \in G PROVE s \in G
  <2>1. s \in SUBSET S /\ s \in SUBSET T /\ Picked(s) \in s
    BY <1>2, PickedIsIn
  <2>2. g[s] = f[Picked(s)] + g[s \ {Picked(s)}] /\ k[s] = h[Picked(s)] + k[s \ {Picked(s)}]
    BY <1>2, <2>1, PartSumsOf
  <2> QED BY <1>2, <2>1, <2>2
<1> HIDE DEF G
<1>3. SUBSET A \subseteq G
  BY <1>1, <1>2, PartsInduction
<1> QED BY <1>3 DEF G

(* SumOver takes such a sum.                                               *)
LEMMA SumOverIsPartSum ==
    ASSUME NEW S, IsFiniteSet(S), NEW f
    PROVE  \E g : PartSums(f, S, g) /\ SumOver(f, S) = g[S]
<1> DEFINE c == CHOOSE g : PartSums(f, S, g)
<1>1. PartSums(f, S, c)
  BY PartSumsExist
<1>2. SumOver(f, S) = c[S]
  BY DEF SumOver, MapThenSumSet, MapThenFoldSet, PartSums, Picked
<1> QED BY <1>1, <1>2

LEMMA SumTypes ==
    ASSUME NEW S, IsFiniteSet(S), NEW f, \A x \in S : f[x] \in Int
    PROVE  SumOver(f, S) \in Int
BY SumOverIsPartSum, PartSumsTypes

(* A sum changes by as much as one of its terms does.                      *)
LEMMA SumChanges ==
    ASSUME NEW S, IsFiniteSet(S), NEW f, NEW h, NEW y \in S,
           \A x \in S : f[x] \in Int /\ h[x] \in Int, \A x \in S : x # y => h[x] = f[x]
    PROVE  SumOver(f, S) \in Int /\ SumOver(h, S) = SumOver(f, S) - f[y] + h[y]
<1>1. PICK g, k : PartSums(f, S, g) /\ SumOver(f, S) = g[S] /\ PartSums(h, S, k) /\ SumOver(h, S) = k[S]
  BY SumOverIsPartSum
<1>2. g[S] = f[y] + g[S \ {y}] /\ k[S] = h[y] + k[S \ {y}]
  BY <1>1, PartSumsRemove
<1>3. IsFiniteSet(S \ {y}) /\ S \ {y} \in SUBSET S
  BY FS_RemoveElement
<1>4. g[S \ {y}] = k[S \ {y}]
  BY <1>1, <1>3, PartSumsAgree
<1>5. g[S \ {y}] \in Int /\ f[y] \in Int /\ h[y] \in Int
  BY <1>1, <1>3, PartSumsTypes
<1> QED BY <1>1, <1>2, <1>4, <1>5

(* A sum over a larger set has one more term.                              *)
LEMMA SumGrows ==
    ASSUME NEW S, IsFiniteSet(S), NEW f, NEW h, NEW y \in S,
           \A x \in S : h[x] \in Int, \A x \in S \ {y} : h[x] = f[x]
    PROVE  SumOver(f, S \ {y}) \in Int /\ SumOver(h, S) = SumOver(f, S \ {y}) + h[y]
<1>1. IsFiniteSet(S \ {y}) /\ S \ {y} \in SUBSET S
  BY FS_RemoveElement
<1>2. PICK g, k : /\ PartSums(f, S \ {y}, g) /\ SumOver(f, S \ {y}) = g[S \ {y}]
                  /\ PartSums(h, S, k) /\ SumOver(h, S) = k[S]
  BY <1>1, SumOverIsPartSum
<1>3. k[S] = h[y] + k[S \ {y}]
  BY <1>2, PartSumsRemove
<1>4. g[S \ {y}] = k[S \ {y}]
  BY <1>1, <1>2, PartSumsAgree
<1>5. k[S \ {y}] \in Int /\ h[y] \in Int
  BY <1>1, <1>2, PartSumsTypes
<1> QED BY <1>2, <1>3, <1>4, <1>5

LEMMA SumOfZeros ==
    ASSUME NEW S, IsFiniteSet(S), NEW f, \A x \in S : f[x] = 0
    PROVE  SumOver(f, S) = 0
<1>1. PICK g : PartSums(f, S, g) /\ SumOver(f, S) = g[S]
  BY SumOverIsPartSum
<1> DEFINE G == {s \in SUBSET S : g[s] = 0}
<1>2. {} \in G
  BY <1>1, PartSumsOf
<1>3. ASSUME NEW s \in SUBSET S, s # {}, \A y \in s : s \ {y} \in G PROVE s \in G
  <2>1. Picked(s) \in s /\ g[s] = f[Picked(s)] + g[s \ {Picked(s)}]
    BY <1>1, <1>3, PickedIsIn, PartSumsOf
  <2>2. g[s \ {Picked(s)}] = 0 /\ f[Picked(s)] = 0
    BY <1>3, <2>1
  <2>3. g[s] = 0
    BY <2>1, <2>2
  <2> QED BY <2>3
<1> HIDE DEF G
<1>4. SUBSET S \subseteq G
  BY <1>2, <1>3, PartsInduction
<1> QED BY <1>1, <1>4 DEF G

-----------------------------------------------------------------------------
(* What is in transit.  A return is one of finitely many messages, and an  *)
(* order that waits has no shortfall yet.                                  *)

Transit ==
    /\ IsFiniteSet(msgs)
    /\ \A o \in Bases \X Ids : auth[o].status \in {"none", "pending"} => auth[o].shortfall = 0
    /\ NothingLostInTransit

LEMMA KeysAreFinite == IsFiniteSet(Bases) /\ IsFiniteSet(Bases \X Ids)
<1>1. IsFiniteSet(Ids)
  BY FS_Interval, RepatriationAssumption DEF Ids
<1> QED BY <1>1, FS_Product, RepatriationAssumption

LEMMA FinitelyManyMessages ==
    ASSUME IsFiniteSet(msgs), [Next]_vars
    PROVE  IsFiniteSet(msgs')
<1>1. msgs' \subseteq msgs \/ \E p : msgs' = msgs \cup {p}
  BY MsgSteps DEF CloseDay, ExecuteRepatriation, SendCancelAck, BroadcastDay, SendInstruction, RequestCancel
<1>2. ASSUME NEW p, msgs' = msgs \cup {p} PROVE IsFiniteSet(msgs')
  BY <1>2, FS_AddElement
<1>3. ASSUME msgs' \subseteq msgs PROVE IsFiniteSet(msgs')
  BY <1>3, FS_Subset
<1> QED BY <1>1, <1>2, <1>3

(* Only an execution takes tokens from the mirror, only a return books     *)
(* them, and only these two change what is on its way.                     *)
LEMMA OutSteps ==
    ASSUME TypeOK, [Next]_vars
    PROVE  mirror'.out = mirror.out \/ \E b \in Bases, i \in Ids : ExecuteRepatriation(b, i)
<1>1. mirror \in Ledgers /\ Amounts \subseteq Nat
  BY RepatriationAssumption DEF TypeOK, Amounts
<1>2. ASSUME NEW x \in Amounts, Absorb(x) \/ SettleClaim(x) \/ ReleaseCommitment(x)
      PROVE  mirror'.out = mirror.out
  <2>1. x \in Nat
    BY <1>1
  <2>2. mirror' \in {Credited(mirror, x), Consumed(mirror, x), ReleasedOf(mirror, x)}
    BY <1>2 DEF Absorb, SettleClaim, ReleaseCommitment
  <2> QED BY <1>1, <2>1, <2>2, CreditedEffect, ConsumedEffect, ReleasedEffect
<1>3. ASSUME NEW b \in Bases, NEW d \in Days, OnBroadcast(b, d) PROVE mirror'.out = mirror.out
  <2>1. PICK p : mirror' = [mirror EXCEPT !.outstanding = @ + p.commit, !.keeper = @ + p.keep]
    BY <1>3 DEF OnBroadcast
  <2> QED BY <1>1, <2>1 DEF Ledgers
<1> QED BY <1>2, <1>3, MirrorSteps

LEMMA BookedSteps ==
    ASSUME TypeOK, [Next]_vars, \A o \in Bases \X Ids : auth[o].status = "none" => auth[o].shortfall = 0
    PROVE  \/ /\ \A b \in Bases : base'[b].relocated = base[b].relocated
              /\ \A o \in Bases \X Ids : auth'[o].shortfall = auth[o].shortfall
           \/ \E b \in Bases, i \in Ids, short \in 0 .. MaxShort : OnReturn(b, i, short)
<1> DEFINE Kept == /\ \A b \in Bases : base'[b].relocated = base[b].relocated
                   /\ \A o \in Bases \X Ids : auth'[o].shortfall = auth[o].shortfall
<1>0. \A b \in Bases : base[b] \in Books
  BY DEF TypeOK
<1>1. ASSUME NEW p \in msgs, OnChainReport(p) PROVE Kept
  <2>1. p.base \in Bases
    BY <1>1, ReportTypes DEF OnChainReport
  <2>2. \A b \in Bases : base'[b] = base[b] \/ base'[b] = Informed(base[b], p)
    BY <1>1, <2>1, OneBook DEF OnChainReport
  <2>3. auth' = auth
    BY <1>1 DEF OnChainReport
  <2> QED BY <1>0, <2>2, <2>3, InformedEffect
<1>2. ASSUME NEW b \in Bases, NEW d \in Days, NEW x \in 0 .. MaxAmount, NEW k \in 0 .. MaxAmount,
             FinalizeDay(b, d, x, k)
      PROVE  Kept
  <2>1. \A c \in Bases : base'[c] = base[c] \/ base'[c] = Funded(base[c], x, k)
    BY <1>2, OneBook DEF FinalizeDay
  <2>2. auth' = auth /\ x \in Nat /\ k \in Nat
    BY <1>2, RepatriationAssumption DEF FinalizeDay
  <2> QED BY <1>0, <2>1, <2>2, FundedEffect
<1>3. ASSUME NEW b \in Bases, NEW i \in Ids, NEW x \in Amounts, AuthorizeRepatriation(b, i, x) PROVE Kept
  <2>1. base' = [base EXCEPT ![b] = [base[b] EXCEPT !.draw = @ + x]]
    BY <1>3 DEF AuthorizeRepatriation
  <2>2. \A c \in Bases : base'[c] = base[c] \/ base'[c] = [base[c] EXCEPT !.draw = @ + x]
    BY <2>1, OneBook
  <2>3. /\ auth'[<<b, i>>] = [status |-> "pending", amount |-> x, shortfall |-> 0]
        /\ \A o \in Bases \X Ids : o # <<b, i>> => auth'[o] = auth[o]
    BY <1>3, OneRecord, ZenonT(60) DEF AuthorizeRepatriation
  <2>4. auth[<<b, i>>].shortfall = 0
    BY <1>3 DEF AuthorizeRepatriation
  <2>5. \A o \in Bases \X Ids : auth'[o].shortfall = auth[o].shortfall
    BY <2>3, <2>4
  <2>6. \A c \in Bases : base'[c].relocated = base[c].relocated
    BY <1>0, <2>2 DEF Books
  <2> QED BY <2>5, <2>6
<1>4. ASSUME NEW b \in Bases, NEW i \in Ids, OnCancelAck(b, i) PROVE Kept
  <2> DEFINE z == Excess(base[b].draw, auth[<<b, i>>].amount)
  <2>1. base' = [base EXCEPT ![b] = [base[b] EXCEPT !.draw = z]]
    BY <1>4 DEF OnCancelAck
  <2> HIDE DEF z
  <2>2. \A c \in Bases : base'[c] = base[c] \/ base'[c] = [base[c] EXCEPT !.draw = z]
    BY <2>1, OneBook
  <2>3. /\ auth'[<<b, i>>] = [auth[<<b, i>>] EXCEPT !.status = "released"]
        /\ \A o \in Bases \X Ids : o # <<b, i>> => auth'[o] = auth[o]
    BY <1>4, OneRecord DEF OnCancelAck
  <2>4. auth[<<b, i>>] \in Auths
    BY DEF TypeOK
  <2>5. auth'[<<b, i>>].shortfall = auth[<<b, i>>].shortfall
    BY <2>3, <2>4 DEF Auths
  <2>6. \A o \in Bases \X Ids : auth'[o].shortfall = auth[o].shortfall
    BY <2>3, <2>5
  <2>7. \A c \in Bases : base'[c].relocated = base[c].relocated
    BY <1>0, <2>2 DEF Books
  <2> QED BY <2>6, <2>7
<1>5. ASSUME UNCHANGED <<auth, base>> PROVE Kept
  BY <1>5
<1> HIDE DEF Kept
<1>6. Kept \/ \E b \in Bases, i \in Ids, short \in 0 .. MaxShort : OnReturn(b, i, short)
  BY <1>1, <1>2, <1>3, <1>4, <1>5, OrderSteps
<1> QED BY <1>6 DEF Kept

LEMMA ReturnsSteps ==
    ASSUME [Next]_vars
    PROVE  \/ Returns' = Returns
           \/ \E b \in Bases, i \in Ids : ExecuteRepatriation(b, i)
           \/ \E b \in Bases, i \in Ids, short \in 0 .. MaxShort : OnReturn(b, i, short)
<1>1. ASSUME NEW p, p.type # "return", msgs' = msgs \cup {p} \/ msgs' = msgs \ {p} PROVE Returns' = Returns
  BY <1>1 DEF Returns
<1>2. CASE UNCHANGED vars
  BY <1>2 DEF vars, Returns
<1>3. ASSUME NEW d, CloseDay(d) PROVE Returns' = Returns
  <2>1. Report(bound, d, mirror).type # "return"
    BY DEF Report
  <2> QED BY <1>1, <1>3, <2>1 DEF CloseDay
<1>4. ASSUME NEW b, NEW i, SendCancelAck(b, i) PROVE Returns' = Returns
  <2>1. Ack(b, i).type # "return"
    BY DEF Ack
  <2> QED BY <1>1, <1>4, <2>1 DEF SendCancelAck
<1>5. ASSUME NEW b, NEW d, BroadcastDay(b, d) PROVE Returns' = Returns
  <2>1. Broadcast(b, d, stamp[<<b, d>>]).type # "return"
    BY DEF Broadcast
  <2> QED BY <1>1, <1>5, <2>1 DEF BroadcastDay
<1>6. ASSUME NEW b, NEW i, SendInstruction(b, i) PROVE Returns' = Returns
  <2>1. Instruction(b, i, auth[<<b, i>>].amount).type # "return"
    BY DEF Instruction
  <2> QED BY <1>1, <1>6, <2>1 DEF SendInstruction
<1>7. ASSUME NEW b, NEW i, RequestCancel(b, i) PROVE Returns' = Returns
  <2>1. Cancel(b, i).type # "return"
    BY DEF Cancel
  <2> QED BY <1>1, <1>7, <2>1 DEF RequestCancel
<1>8. ASSUME NEW p, OnChainReport(p) PROVE Returns' = Returns
  BY <1>1, <1>8 DEF OnChainReport
<1>9. ASSUME msgs' = msgs PROVE Returns' = Returns
  BY <1>9 DEF Returns
<1>10. CASE MirrorNext
  BY <1>3, <1>4, <1>9, <1>10, Frames DEF MirrorNext
<1>11. CASE BaseNext
  BY <1>5, <1>6, <1>7, <1>8, <1>9, <1>11, Frames DEF BaseNext
<1> QED BY <1>2, <1>10, <1>11 DEF Next

LEMMA BookedTypes ==
    ASSUME TypeOK
    PROVE  /\ SumOver([b \in Bases |-> base[b].relocated], Bases) \in Int
           /\ SumOver([o \in Bases \X Ids |-> auth[o].shortfall], Bases \X Ids) \in Int
           /\ \A b \in Bases : base[b].relocated \in Nat
           /\ \A o \in Bases \X Ids : auth[o].shortfall \in Nat
<1> DEFINE B == [b \in Bases |-> base[b].relocated]
           A == [o \in Bases \X Ids |-> auth[o].shortfall]
<1>1. /\ \A b \in Bases : base[b].relocated \in Nat
      /\ \A o \in Bases \X Ids : auth[o].shortfall \in Nat
  BY DEF TypeOK, Books, Auths
<1>2. (\A b \in Bases : B[b] \in Int) /\ (\A o \in Bases \X Ids : A[o] \in Int)
  BY <1>1
<1> HIDE DEF A, B
<1>3. SumOver(B, Bases) \in Int /\ SumOver(A, Bases \X Ids) \in Int
  BY <1>2, KeysAreFinite, SumTypes
<1> QED BY <1>1, <1>3 DEF A, B

(* An executed order leaves the mirror and is in flight.                   *)
LEMMA ExecuteInTransit ==
    ASSUME TypeOK, MessagesTrue, TypeOK', IsFiniteSet(msgs), IsFiniteSet(msgs'), NothingLostInTransit,
           NEW b \in Bases, NEW i \in Ids, ExecuteRepatriation(b, i)
    PROVE  NothingLostInTransit'
<1> DEFINE x == instr[<<b, i>>].amount
           p == Return(b, i, x)
           f == [q \in Returns |-> q.amount]
           h == [q \in Returns' |-> q.amount]
<1>1. x \in Nat /\ mirror'.out = mirror.out + x /\ mirror.out \in Nat /\ UNCHANGED <<base, auth>>
  <2>1. x \in Nat /\ mirror \in Ledgers
    BY DEF TypeOK, Instrs
  <2> QED BY <2>1, LedgerFields, RepatriatedEffect DEF ExecuteRepatriation
<1>2. msgs' = msgs \cup {p} /\ instr[<<b, i>>].state = "pending"
  BY DEF ExecuteRepatriation
<1>3. p \notin msgs
  <2> HIDE DEF x
  <2> QED BY <1>2, ReturnsAreExecuted
<1>4. p.type = "return" /\ p.amount = x
  BY DEF Return
<1> HIDE DEF x, p
<1>5. p \in Returns' /\ Returns' \ {p} = Returns
  BY <1>2, <1>3, <1>4 DEF Returns
<1>6. IsFiniteSet(Returns') /\ \A q \in Returns' : q.amount \in Int
  <2>1. \A q \in Returns' : q.amount \in Nat
    BY DEF TypeOK, Messages, Returns
  <2>2. Returns' \in SUBSET msgs'
    BY DEF Returns
  <2> QED BY <2>1, <2>2, FS_Subset
<1>7. SumOver(f, Returns) \in Int /\ SumOver(h, Returns') = SumOver(f, Returns) + x
  <2>1. /\ h[p] = x /\ \A q \in Returns' : h[q] \in Int
        /\ \A q \in Returns' \ {p} : h[q] = f[q]
    BY <1>4, <1>5, <1>6
  <2> HIDE DEF f, h
  <2>2. /\ SumOver(f, Returns' \ {p}) \in Int
        /\ SumOver(h, Returns') = SumOver(f, Returns' \ {p}) + h[p]
    BY <1>5, <1>6, <2>1, SumGrows
  <2> QED BY <1>5, <2>1, <2>2
<1> DEFINE B == SumOver([c \in Bases |-> base[c].relocated], Bases)
           A == SumOver([o \in Bases \X Ids |-> auth[o].shortfall], Bases \X Ids)
<1>8. B' = B /\ A' = A
  BY <1>1
<1>9. B \in Int /\ A \in Int
  BY BookedTypes
<1>10. mirror.out = B + A + SumOver(f, Returns)
  BY DEF NothingLostInTransit
<1> HIDE DEF A, B, f, h
<1>11. mirror'.out = B + A + SumOver(h, Returns')
  BY <1>1, <1>7, <1>9, <1>10
<1> QED BY <1>8, <1>11 DEF NothingLostInTransit, h, A, B

(* A return that is booked, and what is missing of it, was in flight.      *)
LEMMA ReturnInTransit ==
    ASSUME TypeOK, TypeOK', IsFiniteSet(msgs), NothingLostInTransit,
           NEW b \in Bases, NEW i \in Ids, NEW short \in 0 .. MaxShort, OnReturn(b, i, short),
           auth[<<b, i>>].shortfall = 0
    PROVE  NothingLostInTransit'
<1> DEFINE x == auth[<<b, i>>].amount
           p == Return(b, i, x)
           f == [q \in Returns |-> q.amount]
           h == [q \in Returns' |-> q.amount]
           B == [c \in Bases |-> base[c].relocated]
           C == [c \in Bases |-> base'[c].relocated]
           A == [o \in Bases \X Ids |-> auth[o].shortfall]
           D == [o \in Bases \X Ids |-> auth'[o].shortfall]
<1>1. /\ x \in Nat /\ short \in Nat /\ auth[<<b, i>>] \in Auths /\ base[b] \in Books
      /\ p \in msgs /\ msgs' = msgs \ {p} /\ mirror' = mirror
      /\ auth' = [auth EXCEPT ![<<b, i>>] = Settled(auth[<<b, i>>], x - short)]
      /\ base' = [base EXCEPT ![b] = [base[b] EXCEPT !.relocated = @ + (x - short)]]
  BY RepatriationAssumption DEF OnReturn, TypeOK, Auths
<1>2. p.type = "return" /\ p.amount = x
  BY DEF Return
<1>3. /\ auth'[<<b, i>>] = Settled(auth[<<b, i>>], x - short)
      /\ \A o \in Bases \X Ids : o # <<b, i>> => auth'[o] = auth[o]
  <2> HIDE DEF x
  <2> QED BY <1>1, OneRecord, ZenonT(60)
<1>4. auth'[<<b, i>>].shortfall = short
  <2>1. \A a \in Auths : Settled(a, x - short).shortfall = a.amount - (x - short)
    BY DEF Settled, Auths
  <2>2. auth'[<<b, i>>].shortfall = x - (x - short)
    BY <1>1, <1>3, <2>1
  <2> HIDE DEF x
  <2> QED BY <1>1, <2>2
<1> HIDE DEF x, p
<1>5. /\ base'[b] = [base[b] EXCEPT !.relocated = @ + (x - short)]
      /\ \A c \in Bases : c # b => base'[c] = base[c]
  BY <1>1, OneBook
<1>6. base'[b].relocated = base[b].relocated + (x - short)
  BY <1>1, <1>5 DEF Books
<1>7. SumOver(C, Bases) = SumOver(B, Bases) + (x - short) /\ SumOver(B, Bases) \in Int
  <2>1. \A c \in Bases : base[c].relocated \in Nat /\ base'[c].relocated \in Nat
    BY DEF TypeOK, Books
  <2>2. \A c \in Bases : c # b => base'[c].relocated = base[c].relocated
    BY <1>5
  <2>3. PICK g, k : g = B /\ k = C
    OBVIOUS
  <2>4. /\ \A c \in Bases : g[c] = base[c].relocated /\ k[c] = base'[c].relocated
        /\ SumOver(B, Bases) = SumOver(g, Bases) /\ SumOver(C, Bases) = SumOver(k, Bases)
    BY <2>3
  <2> HIDE DEF B, C
  <2>5. (\A c \in Bases : g[c] \in Int /\ k[c] \in Int) /\ (\A c \in Bases : c # b => k[c] = g[c])
    BY <2>1, <2>2, <2>4
  <2>6. SumOver(g, Bases) \in Int /\ SumOver(k, Bases) = SumOver(g, Bases) - g[b] + k[b]
    BY <2>5, KeysAreFinite, SumChanges
  <2>7. g[b] \in Int /\ k[b] = g[b] + (x - short)
    BY <1>6, <2>4, <2>5
  <2> QED BY <1>1, <2>4, <2>6, <2>7
<1>8. SumOver(D, Bases \X Ids) = SumOver(A, Bases \X Ids) + short /\ SumOver(A, Bases \X Ids) \in Int
  <2>1. \A o \in Bases \X Ids : auth[o].shortfall \in Nat /\ auth'[o].shortfall \in Nat
    BY DEF TypeOK, Auths
  <2>2. \A o \in Bases \X Ids : o # <<b, i>> => auth'[o].shortfall = auth[o].shortfall
    BY <1>3
  <2>3. PICK g, k : g = A /\ k = D
    OBVIOUS
  <2>4. /\ \A o \in Bases \X Ids : g[o] = auth[o].shortfall /\ k[o] = auth'[o].shortfall
        /\ SumOver(A, Bases \X Ids) = SumOver(g, Bases \X Ids)
        /\ SumOver(D, Bases \X Ids) = SumOver(k, Bases \X Ids)
    BY <2>3
  <2> HIDE DEF A, D
  <2>5. /\ \A o \in Bases \X Ids : g[o] \in Int /\ k[o] \in Int
        /\ \A o \in Bases \X Ids : o # <<b, i>> => k[o] = g[o]
    BY <2>1, <2>2, <2>4
  <2>6. <<b, i>> \in Bases \X Ids
    OBVIOUS
  <2>7. /\ SumOver(g, Bases \X Ids) \in Int
        /\ SumOver(k, Bases \X Ids) = SumOver(g, Bases \X Ids) - g[<<b, i>>] + k[<<b, i>>]
    <3>1. PICK S, o : S = Bases \X Ids /\ o = <<b, i>>
      OBVIOUS
    <3>2. /\ IsFiniteSet(S) /\ o \in S
          /\ \A n \in S : g[n] \in Int /\ k[n] \in Int
          /\ \A n \in S : n # o => k[n] = g[n]
      BY <2>5, <2>6, <3>1, KeysAreFinite
    <3>3. SumOver(g, S) \in Int /\ SumOver(k, S) = SumOver(g, S) - g[o] + k[o]
      BY <3>2, SumChanges
    <3> QED BY <3>1, <3>3
  <2>8. g[<<b, i>>] = 0 /\ k[<<b, i>>] = short
    BY <1>4, <2>4, <2>6
  <2> QED BY <1>1, <2>4, <2>7, <2>8
<1>9. p \in Returns /\ Returns \ {p} = Returns'
  BY <1>1, <1>2 DEF Returns
<1>10. SumOver(h, Returns') \in Int /\ SumOver(f, Returns) = SumOver(h, Returns') + x
  <2>1. \A q \in Returns : q.amount \in Nat
    BY DEF TypeOK, Messages, Returns
  <2>2. Returns \in SUBSET msgs
    BY DEF Returns
  <2>3. IsFiniteSet(Returns)
    BY <2>2, FS_Subset
  <2>4. /\ f[p] = x /\ \A q \in Returns : f[q] \in Int
        /\ \A q \in Returns \ {p} : f[q] = h[q]
    BY <1>2, <1>9, <2>1
  <2> HIDE DEF f, h
  <2>5. /\ SumOver(h, Returns \ {p}) \in Int
        /\ SumOver(f, Returns) = SumOver(h, Returns \ {p}) + f[p]
    BY <1>9, <2>3, <2>4, SumGrows
  <2> QED BY <1>9, <2>4, <2>5
<1>11. mirror.out = SumOver(B, Bases) + SumOver(A, Bases \X Ids) + SumOver(f, Returns)
  BY DEF NothingLostInTransit
<1> HIDE DEF A, B, C, D, f, h
<1>12. mirror'.out = SumOver(C, Bases) + SumOver(D, Bases \X Ids) + SumOver(h, Returns')
  BY <1>1, <1>7, <1>8, <1>10, <1>11
<1> QED BY <1>12 DEF NothingLostInTransit, C, D, h

LEMMA ShortfallStep ==
    ASSUME TypeOK, [Next]_vars,
           \A o \in Bases \X Ids : auth[o].status \in {"none", "pending"} => auth[o].shortfall = 0
    PROVE  \A o \in Bases \X Ids : auth'[o].status \in {"none", "pending"} => auth'[o].shortfall = 0
<1> SUFFICES ASSUME NEW o \in Bases \X Ids, auth'[o].status \in {"none", "pending"}
             PROVE  auth'[o].shortfall = 0
  OBVIOUS
<1>1. ASSUME NEW b \in Bases, NEW i \in Ids, NEW x \in Amounts, AuthorizeRepatriation(b, i, x)
      PROVE  auth'[o].shortfall = 0
  <2>1. \/ auth'[o] = [status |-> "pending", amount |-> x, shortfall |-> 0]
        \/ auth'[o] = auth[o]
    BY <1>1, OneRecord DEF AuthorizeRepatriation
  <2> QED BY <2>1
<1>2. ASSUME NEW b \in Bases, NEW i \in Ids, NEW short \in 0 .. MaxShort, OnReturn(b, i, short)
      PROVE  auth'[o].shortfall = 0
  <2> DEFINE y == auth[<<b, i>>].amount - short
  <2>1. auth'[<<b, i>>] = Settled(auth[<<b, i>>], y) /\ \A n \in Bases \X Ids : n # <<b, i>> => auth'[n] = auth[n]
    BY <1>2, OneRecord, ZenonT(60) DEF OnReturn
  <2>2. auth[<<b, i>>] \in Auths
    BY DEF TypeOK
  <2>3. auth'[<<b, i>>].status = "settled"
    BY <2>1, <2>2 DEF Settled, Auths
  <2>4. auth'[o] = auth[o]
    BY <2>1, <2>3
  <2> QED BY <2>4
<1>3. ASSUME NEW b \in Bases, NEW i \in Ids, OnCancelAck(b, i) PROVE auth'[o].shortfall = 0
  <2>1. auth'[<<b, i>>] = [auth[<<b, i>>] EXCEPT !.status = "released"] /\ \A n \in Bases \X Ids : n # <<b, i>> => auth'[n] = auth[n]
    BY <1>3, OneRecord, ZenonT(60) DEF OnCancelAck
  <2>2. auth[<<b, i>>] \in Auths
    BY DEF TypeOK
  <2>3. auth'[<<b, i>>].status = "released"
    BY <2>1, <2>2 DEF Auths
  <2>4. auth'[o] = auth[o]
    BY <2>1, <2>3
  <2> QED BY <2>4
<1>4. CASE UNCHANGED auth
  BY <1>4
<1> QED BY <1>1, <1>2, <1>3, <1>4, AuthSteps

LEMMA TransitInit == Init => Transit
<1> SUFFICES ASSUME Init PROVE Transit
  OBVIOUS
<1>1. IsFiniteSet(msgs) /\ Returns = {} /\ mirror.out = 0
  BY FS_EmptySet DEF Init, Returns
<1>2. \A o \in Bases \X Ids : auth[o].shortfall = 0
  BY DEF Init
<1>3. \A b \in Bases : base[b].relocated = 0
  BY DEF Init
<1> DEFINE B == [b \in Bases |-> base[b].relocated]
           A == [o \in Bases \X Ids |-> auth[o].shortfall]
           f == [q \in Returns |-> q.amount]
<1>4. (\A b \in Bases : B[b] = 0) /\ (\A o \in Bases \X Ids : A[o] = 0) /\ (\A q \in Returns : f[q] = 0)
  BY <1>1, <1>2, <1>3
<1> HIDE DEF A, B, f
<1>5. SumOver(B, Bases) = 0 /\ SumOver(A, Bases \X Ids) = 0 /\ SumOver(f, Returns) = 0
  BY <1>1, <1>4, FS_EmptySet, KeysAreFinite, SumOfZeros
<1>6. mirror.out = SumOver(B, Bases) + SumOver(A, Bases \X Ids) + SumOver(f, Returns)
  BY <1>1, <1>5
<1>7. NothingLostInTransit
  BY <1>6 DEF NothingLostInTransit, A, B, f
<1> QED BY <1>1, <1>2, <1>7 DEF Transit

LEMMA TransitStep == ASSUME Inv, Inv', Transit, [Next]_vars PROVE Transit'
<1>1. /\ TypeOK /\ TypeOK' /\ MessagesTrue /\ IsFiniteSet(msgs) /\ NothingLostInTransit
      /\ \A o \in Bases \X Ids : auth[o].status \in {"none", "pending"} => auth[o].shortfall = 0
  BY DEF Inv, Transit
<1>2. IsFiniteSet(msgs')
  BY <1>1, FinitelyManyMessages
<1>3. \A o \in Bases \X Ids : auth'[o].status \in {"none", "pending"} => auth'[o].shortfall = 0
  BY <1>1, ShortfallStep
<1>4. ASSUME NEW b \in Bases, NEW i \in Ids, ExecuteRepatriation(b, i) PROVE NothingLostInTransit'
  BY <1>1, <1>2, <1>4, ExecuteInTransit
<1>5. ASSUME NEW b \in Bases, NEW i \in Ids, NEW short \in 0 .. MaxShort, OnReturn(b, i, short)
      PROVE  NothingLostInTransit'
  <2>1. auth[<<b, i>>].shortfall = 0
    BY <1>1, <1>5 DEF OnReturn, Pending
  <2> QED BY <1>1, <1>5, <2>1, ReturnInTransit
<1>6. ASSUME mirror'.out = mirror.out, \A b \in Bases : base'[b].relocated = base[b].relocated,
             \A o \in Bases \X Ids : auth'[o].shortfall = auth[o].shortfall, Returns' = Returns
      PROVE  NothingLostInTransit'
  <2>1. /\ [b \in Bases |-> base'[b].relocated] = [b \in Bases |-> base[b].relocated]
        /\ [o \in Bases \X Ids |-> auth'[o].shortfall] = [o \in Bases \X Ids |-> auth[o].shortfall]
        /\ [p \in Returns' |-> p.amount] = [p \in Returns |-> p.amount]
    BY <1>6
  <2> QED BY <1>1, <1>6, <2>1 DEF NothingLostInTransit
<1>7. NothingLostInTransit'
  BY <1>1, <1>4, <1>5, <1>6, OutSteps, BookedSteps, ReturnsSteps
<1> QED BY <1>2, <1>3, <1>7 DEF Transit

(* What left the mirror is at every moment booked by a Base, noted as a    *)
(* shortfall of the order it was for, or in flight: the return is sent     *)
(* with the execution, and a delivery that fails keeps it in flight.       *)
THEOREM NothingGetsLost == Spec => []NothingLostInTransit
<1>1. Transit => NothingLostInTransit
  BY DEF Transit
<1> QED BY <1>1, TransitInit, TransitStep, InvHolds, PTL DEF Spec


-----------------------------------------------------------------------------
(* The protocol implements RepatriationOrders.                             *)

LEMMA Phases ==
    ASSUME NEW o
    PROVE  /\ instr[o].state = "executed" => Decision(o) = "paid"
           /\ instr[o].state = "tombstoned" => Decision(o) = "void"
           /\ instr[o].state \notin {"executed", "tombstoned"} /\ auth[o].status = "none"
                => Decision(o) = "none"
           /\ instr[o].state \notin {"executed", "tombstoned"} /\ auth[o].status # "none"
                => Decision(o) = "issued"
           /\ auth[o].status = "none" => Told(o) = "none"
           /\ auth[o].status = "pending" => Told(o) = "issued"
           /\ auth[o].status = "settled" => Told(o) = "paid"
           /\ auth[o].status = "released" => Told(o) = "void"
<1>1. instr[o].state = "executed" => Decision(o) = "paid"
  BY DEF Decision
<1>2. instr[o].state = "tombstoned" => Decision(o) = "void"
  BY DEF Decision
<1>3. instr[o].state \notin {"executed", "tombstoned"} /\ auth[o].status = "none"
        => Decision(o) = "none"
  BY DEF Decision
<1>4. instr[o].state \notin {"executed", "tombstoned"} /\ auth[o].status # "none"
        => Decision(o) = "issued"
  BY DEF Decision
<1>5. auth[o].status = "none" => Told(o) = "none"
  BY DEF Told
<1>6. auth[o].status = "pending" => Told(o) = "issued"
  BY DEF Told
<1>7. auth[o].status = "settled" => Told(o) = "paid"
  BY DEF Told
<1>8. auth[o].status = "released" => Told(o) = "void"
  BY DEF Told
<1> QED BY <1>1, <1>2, <1>3, <1>4, <1>5, <1>6, <1>7, <1>8

LEMMA PhasesNext ==
    ASSUME NEW o
    PROVE  /\ instr'[o].state = "executed" => Decision(o)' = "paid"
           /\ instr'[o].state = "tombstoned" => Decision(o)' = "void"
           /\ instr'[o].state \notin {"executed", "tombstoned"} /\ auth'[o].status = "none"
                => Decision(o)' = "none"
           /\ instr'[o].state \notin {"executed", "tombstoned"} /\ auth'[o].status # "none"
                => Decision(o)' = "issued"
           /\ auth'[o].status = "none" => Told(o)' = "none"
           /\ auth'[o].status = "pending" => Told(o)' = "issued"
           /\ auth'[o].status = "settled" => Told(o)' = "paid"
           /\ auth'[o].status = "released" => Told(o)' = "void"
<1>1. instr'[o].state = "executed" => Decision(o)' = "paid"
  BY DEF Decision
<1>2. instr'[o].state = "tombstoned" => Decision(o)' = "void"
  BY DEF Decision
<1>3. instr'[o].state \notin {"executed", "tombstoned"} /\ auth'[o].status = "none"
        => Decision(o)' = "none"
  BY DEF Decision
<1>4. instr'[o].state \notin {"executed", "tombstoned"} /\ auth'[o].status # "none"
        => Decision(o)' = "issued"
  BY DEF Decision
<1>5. auth'[o].status = "none" => Told(o)' = "none"
  BY DEF Told
<1>6. auth'[o].status = "pending" => Told(o)' = "issued"
  BY DEF Told
<1>7. auth'[o].status = "settled" => Told(o)' = "paid"
  BY DEF Told
<1>8. auth'[o].status = "released" => Told(o)' = "void"
  BY DEF Told
<1> QED BY <1>1, <1>2, <1>3, <1>4, <1>5, <1>6, <1>7, <1>8

LEMMA OrdersInit == Init => Orders!Init
<1> SUFFICES ASSUME Init PROVE Orders!Init
  OBVIOUS
<1>1. \A o \in Bases \X Ids : instr[o].state = "none" /\ auth[o].status = "none" /\ auth[o].amount = 0
  BY DEF Init
<1>2. \A o \in Bases \X Ids : Decision(o) = "none" /\ Told(o) = "none"
  BY <1>1, Phases
<1>3. mirror.out = 0 /\ \A b \in Bases : base[b].draw = 0
  BY DEF Init
<1> QED BY <1>1, <1>2, <1>3 DEF Orders!Init, Orders!Orders

(* A step that leaves the records, the charges and the outflow as they     *)
(* are is no step of the orders.                                           *)
LEMMA OrdersStutter ==
    ASSUME \A o \in Bases \X Ids : /\ Decision(o)' = Decision(o) /\ Told(o)' = Told(o)
                                  /\ auth'[o].amount = auth[o].amount,
           \A b \in Bases : base'[b].draw = base[b].draw,
           mirror'.out = mirror.out
    PROVE  UNCHANGED Orders!vars
BY DEF Orders!vars

LEMMA AuthorizeIssues ==
    ASSUME Inv, NEW b \in Bases, NEW i \in Ids, NEW x \in Amounts, AuthorizeRepatriation(b, i, x)
    PROVE  Orders!Issue(<<b, i>>, x)
<1> DEFINE o == <<b, i>>
<1>1. auth[o].status = "none" /\ instr' = instr /\ mirror' = mirror
  BY DEF AuthorizeRepatriation
<1>2. instr[o].state = "none"
  BY <1>1 DEF Inv, RecordsTrue
<1>3. /\ auth'[o] = [status |-> "pending", amount |-> x, shortfall |-> 0]
      /\ \A q \in Bases \X Ids : q # o => auth'[q] = auth[q]
  BY OneRecord, ZenonT(60) DEF Inv, AuthorizeRepatriation
<1>4. /\ base'[b].draw = base[b].draw + x
      /\ \A c \in Bases : c # b => base'[c].draw = base[c].draw
  <2>1. base'[b] = [base[b] EXCEPT !.draw = @ + x] /\ \A c \in Bases : c # b => base'[c] = base[c]
    BY OneBook DEF Inv, AuthorizeRepatriation
  <2> QED BY <2>1 DEF Inv, TypeOK, Books
<1>5. Decision(o) = "none" /\ Decision(o)' = "issued" /\ Told(o)' = "issued"
  BY <1>1, <1>2, <1>3, Phases, PhasesNext
<1>6. \A q \in Bases \X Ids : q # o => Decision(q)' = Decision(q) /\ Told(q)' = Told(q)
  BY <1>1, <1>3 DEF Decision, Told
<1>7. [q \in Bases \X Ids |-> Decision(q)]' = [[q \in Bases \X Ids |-> Decision(q)] EXCEPT ![o] = "issued"]
  BY <1>5, <1>6
<1>8. [q \in Bases \X Ids |-> Told(q)]' = [[q \in Bases \X Ids |-> Told(q)] EXCEPT ![o] = "issued"]
  BY <1>5, <1>6
<1>9. [q \in Bases \X Ids |-> auth[q].amount]' = [[q \in Bases \X Ids |-> auth[q].amount] EXCEPT ![o] = x]
  <2>1. auth'[o].amount = x /\ \A q \in Bases \X Ids : q # o => auth'[q].amount = auth[q].amount
    BY <1>3
  <2> QED BY <2>1
<1>10. [c \in Bases |-> base[c].draw]' = [[c \in Bases |-> base[c].draw] EXCEPT ![o[1]] = @ + x]
  BY <1>4
<1> QED BY <1>1, <1>5, <1>7, <1>8, <1>9, <1>10 DEF Orders!Issue

LEMMA ExecutePays ==
    ASSUME Inv, NEW b \in Bases, NEW i \in Ids, ExecuteRepatriation(b, i)
    PROVE  Orders!Pay(<<b, i>>)
<1> DEFINE o == <<b, i>>
<1>1. /\ instr[o].state = "pending" /\ auth' = auth /\ base' = base
      /\ mirror' = Repatriated(mirror, instr[o].amount)
      /\ instr' = [instr EXCEPT ![o].state = "executed"]
  BY DEF ExecuteRepatriation
<1>2. auth[o].status # "none" /\ instr[o].amount = auth[o].amount /\ instr[o].amount \in Nat
        /\ mirror \in Ledgers
  BY <1>1 DEF Inv, RecordsTrue, TypeOK, Instrs
<1>3. instr'[o].state = "executed" /\ \A q \in Bases \X Ids : q # o => instr'[q] = instr[q]
  BY <1>1 DEF Inv, TypeOK, Instrs
<1>4. mirror'.out = mirror.out + auth[o].amount
  BY <1>1, <1>2, RepatriatedEffect
<1>5. Decision(o) = "issued" /\ Decision(o)' = "paid"
  BY <1>1, <1>2, <1>3, Phases, PhasesNext
<1>6. \A q \in Bases \X Ids : Told(q)' = Told(q) /\ (q # o => Decision(q)' = Decision(q))
  BY <1>1, <1>3 DEF Decision, Told
<1> QED BY <1>1, <1>4, <1>5, <1>6 DEF Orders!Pay

LEMMA CancelVoids ==
    ASSUME Inv, NEW b \in Bases, NEW i \in Ids, OnCancelInstruction(b, i)
    PROVE  Orders!Void(<<b, i>>)
<1> DEFINE o == <<b, i>>
<1>1. /\ Cancel(b, i) \in msgs /\ instr[o].state \notin {"executed", "tombstoned"}
      /\ instr' = [instr EXCEPT ![o].state = "tombstoned"]
      /\ auth' = auth /\ base' = base /\ mirror' = mirror
  BY DEF OnCancelInstruction
<1>2. auth[o].status # "none"
  <2>1. MessageTrue(Cancel(b, i))
    BY <1>1 DEF Inv, MessagesTrue
  <2> QED BY <2>1 DEF MessageTrue, Cancel
<1>3. instr'[o].state = "tombstoned" /\ \A q \in Bases \X Ids : q # o => instr'[q] = instr[q]
  BY <1>1 DEF Inv, TypeOK, Instrs
<1>4. Decision(o) = "issued" /\ Decision(o)' = "void"
  BY <1>1, <1>2, <1>3, Phases, PhasesNext
<1>5. \A q \in Bases \X Ids : Told(q)' = Told(q) /\ (q # o => Decision(q)' = Decision(q))
  BY <1>1, <1>3 DEF Decision, Told
<1> QED BY <1>1, <1>4, <1>5 DEF Orders!Void

LEMMA ReturnIsHeard ==
    ASSUME Inv, NEW b \in Bases, NEW i \in Ids, NEW short \in 0 .. MaxShort, OnReturn(b, i, short)
    PROVE  Orders!Hear(<<b, i>>)
<1> DEFINE o == <<b, i>>
           y == auth[o].amount - short
<1>1. instr[o].state = "executed" /\ auth[o].status = "pending" /\ instr' = instr /\ mirror' = mirror
  BY ReturnsAreExecuted DEF Inv, OnReturn, Pending
<1>2. auth'[o] = Settled(auth[o], y) /\ \A q \in Bases \X Ids : q # o => auth'[q] = auth[q]
  BY OneRecord DEF Inv, OnReturn
<1>3. auth'[o].status = "settled" /\ auth'[o].amount = auth[o].amount
  BY <1>2 DEF Inv, TypeOK, Auths, Settled
<1>4. \A c \in Bases : base'[c].draw = base[c].draw
  <2>1. /\ base'[b] = [base[b] EXCEPT !.relocated = @ + y]
        /\ \A c \in Bases : c # b => base'[c] = base[c]
    BY OneBook DEF Inv, OnReturn
  <2> QED BY <2>1 DEF Inv, TypeOK, Books
<1>5. Decision(o) = "paid" /\ Told(o) = "issued" /\ Told(o)' = "paid"
  BY <1>1, <1>3, Phases, PhasesNext
<1>6. \A q \in Bases \X Ids : Decision(q)' = Decision(q) /\ (q # o => Told(q)' = Told(q))
  <2>1. Decision(o)' = "paid"
    BY <1>1, PhasesNext
  <2> QED BY <1>1, <1>2, <1>5, <2>1 DEF Decision, Told
<1> QED BY <1>1, <1>2, <1>3, <1>4, <1>5, <1>6 DEF Orders!Hear, Orders!Decided

LEMMA AckIsHeard ==
    ASSUME Inv, NEW b \in Bases, NEW i \in Ids, OnCancelAck(b, i)
    PROVE  Orders!Hear(<<b, i>>)
<1> DEFINE o == <<b, i>>
           x == auth[o].amount
<1>1. /\ instr[o].state = "tombstoned" /\ auth[o].status = "pending" /\ auth[o] \in Auths
      /\ instr' = instr /\ mirror' = mirror
  <2>1. MessageTrue(Ack(b, i))
    BY DEF Inv, MessagesTrue, OnCancelAck
  <2> QED BY <2>1 DEF MessageTrue, Ack, OnCancelAck, Pending, Inv, TypeOK
<1>2. /\ auth'[o] = [auth[o] EXCEPT !.status = "released"]
      /\ \A q \in Bases \X Ids : q # o => auth'[q] = auth[q]
  BY OneRecord DEF Inv, OnCancelAck
<1>3. auth'[o].status = "released" /\ auth'[o].amount = auth[o].amount
  BY <1>1, <1>2 DEF Auths
<1>4. x \in Nat /\ x <= base[b].draw /\ base[b] \in Books
  <2>1. OrdersCharged(b)[i] = x
    BY <1>1 DEF OrdersCharged
  <2>2. base[b].draw = Total(OrdersCharged(b), MaxAuths)
    BY DEF Inv, DrawIsCharged
  <2>3. MaxAuths \in Nat /\ i \in 1 .. MaxAuths
          /\ \A j \in 1 .. MaxAuths : OrdersCharged(b)[j] \in Nat
    BY ChargeTypes, RepatriationAssumption DEF Inv, Ids
  <2>4. OrdersCharged(b)[i] <= base[b].draw
    BY <2>2, <2>3, TotalBounds
  <2> QED BY <1>1, <2>1, <2>4 DEF Inv, TypeOK, Auths
<1>5. /\ base'[b].draw = base[b].draw - x
      /\ \A c \in Bases : c # b => base'[c].draw = base[c].draw
  <2>1. /\ base'[b] = [base[b] EXCEPT !.draw = Excess(@, x)]
        /\ \A c \in Bases : c # b => base'[c] = base[c]
    BY OneBook DEF Inv, OnCancelAck
  <2>2. base'[b].draw = Excess(base[b].draw, x)
    BY <1>4, <2>1 DEF Books
  <2> HIDE DEF x
  <2>3. Excess(base[b].draw, x) = base[b].draw - x
    BY <1>4, BookFields DEF Excess
  <2> QED BY <2>1, <2>2, <2>3
<1>6. Decision(o) = "void" /\ Told(o) = "issued" /\ Told(o)' = "void"
  BY <1>1, <1>3, Phases, PhasesNext
<1>7. \A q \in Bases \X Ids : Decision(q)' = Decision(q) /\ (q # o => Told(q)' = Told(q))
  <2>1. Decision(o)' = "void"
    BY <1>1, PhasesNext
  <2> QED BY <1>1, <1>2, <1>6, <2>1 DEF Decision, Told
<1> QED BY <1>1, <1>2, <1>3, <1>5, <1>6, <1>7, ZenonT(60) DEF Orders!Hear, Orders!Decided

LEMMA OrdersStep ==
    ASSUME Inv, [Next]_vars
    PROVE  Orders!Next \/ UNCHANGED Orders!vars
<1>1. ASSUME NEW b \in Bases, NEW i \in Ids,
             \/ \E x \in Amounts : AuthorizeRepatriation(b, i, x)
             \/ ExecuteRepatriation(b, i)
             \/ OnCancelInstruction(b, i)
             \/ \E short \in 0 .. MaxShort : OnReturn(b, i, short)
             \/ OnCancelAck(b, i)
      PROVE  Orders!Next
  <2>1. <<b, i>> \in Orders!Orders
    BY DEF Orders!Orders
  <2>2. \/ \E x \in Amounts : Orders!Issue(<<b, i>>, x)
        \/ Orders!Pay(<<b, i>>) \/ Orders!Void(<<b, i>>) \/ Orders!Hear(<<b, i>>)
    BY <1>1, AuthorizeIssues, ExecutePays, CancelVoids, ReturnIsHeard, AckIsHeard
  <2> QED BY <2>1, <2>2 DEF Orders!Next
<1>2. ASSUME NEW b \in Bases, NEW i \in Ids, OnInstruction(b, i) PROVE UNCHANGED Orders!vars
  <2> DEFINE o == <<b, i>>
  <2>1. /\ instr[o].state = "none" /\ auth' = auth /\ base' = base /\ mirror' = mirror
        /\ \E p \in msgs :
             /\ p.type = "instruct" /\ p.base = b /\ p.id = i
             /\ instr' = [instr EXCEPT ![o] = [state |-> "pending", amount |-> p.amount]]
    BY <1>2 DEF OnInstruction
  <2>2. PICK p \in msgs :
             /\ p.type = "instruct" /\ p.base = b /\ p.id = i
             /\ instr' = [instr EXCEPT ![o] = [state |-> "pending", amount |-> p.amount]]
    BY <2>1
  <2>3. auth[o].status # "none"
    BY <2>2 DEF Inv, MessagesTrue, MessageTrue
  <2>4. instr'[o].state = "pending" /\ \A q \in Bases \X Ids : q # o => instr'[q] = instr[q]
    BY <2>2 DEF Inv, TypeOK
  <2>5. Decision(o) = "issued" /\ Decision(o)' = "issued"
    BY <2>1, <2>3, <2>4, Phases, PhasesNext
  <2>6. \A q \in Bases \X Ids : Told(q)' = Told(q) /\ Decision(q)' = Decision(q)
    BY <2>1, <2>4, <2>5 DEF Decision, Told
  <2> QED BY <2>1, <2>6, OrdersStutter
<1>3. ASSUME UNCHANGED <<auth, instr>>, \A b \in Bases : base'[b].draw = base[b].draw,
             mirror'.out = mirror.out
      PROVE  UNCHANGED Orders!vars
  BY <1>3, OrdersStutter DEF Decision, Told
<1>4. ASSUME NEW x \in Amounts, Absorb(x) \/ SettleClaim(x) \/ ReleaseCommitment(x)
      PROVE  UNCHANGED Orders!vars
  <2>1. x \in Nat /\ mirror \in Ledgers
    BY RepatriationAssumption DEF Amounts, Inv, TypeOK
  <2>2. mirror'.out = mirror.out
    BY <1>4, <2>1, CreditedEffect, ConsumedEffect, ReleasedEffect
      DEF Absorb, SettleClaim, ReleaseCommitment
  <2> QED BY <1>3, <1>4, <2>2 DEF Absorb, SettleClaim, ReleaseCommitment
<1>5. ASSUME NEW b \in Bases, NEW d \in Days, OnBroadcast(b, d) PROVE UNCHANGED Orders!vars
  <2>1. UNCHANGED <<auth, instr, base>> /\ mirror \in Ledgers
          /\ \E y, z : mirror' = [mirror EXCEPT !.outstanding = y, !.keeper = z]
    BY <1>5 DEF OnBroadcast, Inv, TypeOK
  <2>2. mirror'.out = mirror.out
    BY <2>1 DEF Ledgers
  <2> QED BY <1>3, <2>1, <2>2
<1>6. ASSUME NEW p \in msgs, OnChainReport(p) PROVE UNCHANGED Orders!vars
  <2>1. UNCHANGED <<auth, instr, mirror>> /\ p.base \in Bases
    BY <1>6, ReportTypes DEF OnChainReport, Inv
  <2>2. base'[p.base] = Informed(base[p.base], p) /\ \A c \in Bases : c # p.base => base'[c] = base[c]
    BY <1>6, <2>1, OneBook DEF OnChainReport, Inv
  <2>3. base'[p.base].draw = base[p.base].draw
    <3>1. base[p.base] \in Books
      BY <2>1 DEF Inv, TypeOK
    <3> QED BY <2>2, <3>1, InformedEffect
  <2> QED BY <1>3, <2>1, <2>2, <2>3
<1>7. ASSUME NEW b \in Bases, NEW d \in Days, NEW x \in 0 .. MaxAmount, NEW k \in 0 .. MaxAmount,
             FinalizeDay(b, d, x, k)
      PROVE  UNCHANGED Orders!vars
  <2>1. UNCHANGED <<auth, instr, mirror>> /\ x \in Nat /\ k \in Nat
    BY <1>7, RepatriationAssumption DEF FinalizeDay
  <2>2. base'[b] = Funded(base[b], x, k) /\ \A c \in Bases : c # b => base'[c] = base[c]
    BY <1>7, OneBook DEF FinalizeDay, Inv
  <2>3. base'[b].draw = base[b].draw
    BY <2>1, <2>2, FundedEffect DEF Inv, TypeOK
  <2> QED BY <1>3, <2>1, <2>2, <2>3
<1>8. CASE UNCHANGED <<auth, instr, base, mirror>>
  BY <1>3, <1>8
<1>9. CASE MirrorNext
  BY <1>1, <1>2, <1>4, <1>5, <1>8, <1>9 DEF MirrorNext, CloseDay, SendCancelAck, SetBaseChainId,
            SetBaseRewardDeployment
<1>10. CASE BaseNext
  BY <1>1, <1>6, <1>7, <1>8, <1>10 DEF BaseNext, BroadcastDay, SendInstruction, RequestCancel
<1> QED BY <1>8, <1>9, <1>10 DEF Next, vars

(* Whatever messages are lost, late, repeated or out of order, each order  *)
(* is decided once and its Base hears that decision and no other.          *)
THEOREM OrdersImplemented == Spec => OrdersAreDecidedOnce
<1>1. Init => Orders!Init
  BY OrdersInit
<1>2. Inv /\ [Next]_vars => [Orders!Next]_Orders!vars
  BY OrdersStep
<1> QED BY <1>1, <1>2, InvHolds, PTL DEF Spec, OrdersAreDecidedOnce, Orders!Spec

=============================================================================
