---------------------------- MODULE Repatriation ----------------------------
(***************************************************************************)
(* Mode-A repatriation (facets/RepatriationFacet.sol) and the recycle      *)
(* ledger it draws on (libraries/LibVpfiRecycle.sol): a mirror chain       *)
(* absorbs VPFI into a bucket, a Base on another chain instructs what the  *)
(* bucket pays (a day's claims, a keeper's share, a return of the surplus) *)
(* and knows of it only by reports.  The chains share nothing but          *)
(* messages, which the lanes deliver late, in any order, again after a     *)
(* failure, or not at all.                                                 *)
(*                                                                         *)
(* A message that anybody may send again (an instruction, a cancel, an     *)
(* acknowledgement, a broadcast) stays in msgs, so it may be delivered any *)
(* number of times.  A report and a return are sent once: they leave msgs  *)
(* when a delivery succeeds, and a delivery that reverts stays             *)
(* re-executable.  A pause, a transport not armed and a lane without       *)
(* capacity only refuse a call, so they are steps not taken.               *)
(***************************************************************************)
EXTENDS LedgerSums, FiniteSets, FiniteSetsExt

CONSTANTS Bases,       \* the Base deployments, one on a chain, that may issue
          NoBase,      \* the binding of a detached mirror
          MaxAuths,    \* authorizations of one Base
          MaxDays,     \* reward days
          MaxFunded,   \* the last of them for which a Base instructs any funding
          MaxAmount,   \* of one absorption, commitment, claim or authorization
          MaxAbsorbed, \* by the mirror in all
          MaxDust,     \* claims in all above what was committed to them
          MaxShort     \* what a transport may keep of one return

ASSUME RepatriationAssumption ==
    /\ IsFiniteSet(Bases) /\ NoBase \notin Bases
    /\ MaxAuths \in Nat /\ MaxDays \in Nat /\ MaxFunded \in Nat /\ MaxAmount \in Nat
    /\ MaxAbsorbed \in Nat /\ MaxDust \in Nat /\ MaxShort \in Nat

Ids == 1 .. MaxAuths
Days == 1 .. MaxDays
Amounts == 1 .. MaxAmount

VARIABLES base,     \* each Base's books on the mirror
          auth,     \* repatAuthorizations of each Base
          stamp,    \* chainDayRecycledFunding of each Base and day
          mirror,   \* the mirror's recycle ledger
          instr,    \* repatInstructionState and -Amount, by issuer and id
          bound,    \* the mirror's baseChainId
          era,      \* the mirror's baseRewardDeployment
          closed,   \* days the mirror has reported
          applied,  \* days whose broadcast the mirror has applied
          msgs

vars == <<base, auth, stamp, mirror, instr, bound, era, closed, applied, msgs>>

Books == [reported : Nat, consumed : Nat, outstanding : Nat, retired : Nat,
          released : Nat, draw : Nat, keeper : Nat, relocated : Nat]

Auths == [status : {"none", "pending", "settled", "released"}, amount : Nat, shortfall : Nat]

Stamps == [stamped : BOOLEAN, commit : Nat, keep : Nat]

Ledgers == [bucket : Nat, credited : Nat, paidOut : Nat, outstanding : Nat,
            retired : Nat, released : Nat, keeper : Nat, out : Nat]

Instrs == [state : {"none", "pending", "executed", "tombstoned"}, amount : Nat]

Instruction(b, i, x) == [type |-> "instruct", base |-> b, id |-> i, amount |-> x]
Cancel(b, i) == [type |-> "cancel", base |-> b, id |-> i]
Ack(b, i) == [type |-> "ack", base |-> b, id |-> i]
Return(b, i, x) == [type |-> "return", base |-> b, id |-> i, amount |-> x]
Broadcast(b, d, S) == [type |-> "broadcast", base |-> b, day |-> d, commit |-> S.commit, keep |-> S.keep]
Report(b, d, m) == [type |-> "report", base |-> b, day |-> d, credited |-> m.credited,
                    retired |-> m.retired, released |-> m.released]

Messages ==
    [type : {"instruct", "return"}, base : Bases, id : Ids, amount : Nat]
      \cup [type : {"cancel", "ack"}, base : Bases, id : Ids]
      \cup [type : {"broadcast"}, base : Bases, day : Days, commit : Nat, keep : Nat]
      \cup [type : {"report"}, base : Bases, day : Days, credited : Nat, retired : Nat, released : Nat]

(* All the variables have their types, and only the stated messages are in *)
(* flight.                                                                 *)
TypeOK == /\ base \in [Bases -> Books]
          /\ auth \in [Bases \X Ids -> Auths]
          /\ stamp \in [Bases \X Days -> Stamps]
          /\ mirror \in Ledgers
          /\ instr \in [Bases \X Ids -> Instrs]
          /\ bound \in Bases \cup {NoBase}
          /\ era \in Bases
          /\ closed \subseteq Days
          /\ applied \subseteq Days
          /\ msgs \subseteq Messages

Init ==
    /\ base = [b \in Bases |-> [reported |-> 0, consumed |-> 0, outstanding |-> 0, retired |-> 0,
                                released |-> 0, draw |-> 0, keeper |-> 0, relocated |-> 0]]
    /\ auth = [o \in Bases \X Ids |-> [status |-> "none", amount |-> 0, shortfall |-> 0]]
    /\ stamp = [k \in Bases \X Days |-> [stamped |-> FALSE, commit |-> 0, keep |-> 0]]
    /\ mirror = [bucket |-> 0, credited |-> 0, paidOut |-> 0, outstanding |-> 0,
                 retired |-> 0, released |-> 0, keeper |-> 0, out |-> 0]
    /\ instr = [o \in Bases \X Ids |-> [state |-> "none", amount |-> 0]]
    /\ bound \in Bases
    /\ era \in Bases
    /\ closed = {}
    /\ applied = {}
    /\ msgs = {}

-----------------------------------------------------------------------------
(* The mirror's ledger.                                                    *)

Smaller(x, y) == IF x < y THEN x ELSE y

Larger(x, y) == IF x > y THEN x ELSE y

(* What was paid to claims beyond the commitments that were made for them. *)
Dust(m) == m.paidOut - (m.retired - m.released)

Fundable(m) == Excess(m.bucket, m.outstanding + m.keeper)

Credited(m, x) == [m EXCEPT !.bucket = @ + x, !.credited = @ + x]

(* A commitment retires by what is left of it, not by what was asked.      *)
Consumed(m, x) ==
    LET done == Smaller(x, m.outstanding)
    IN  [m EXCEPT !.bucket = Excess(@, x), !.outstanding = @ - done,
                  !.retired = @ + done, !.paidOut = @ + x]

ReleasedOf(m, x) ==
    LET done == Smaller(x, m.outstanding)
    IN  [m EXCEPT !.outstanding = @ - done, !.retired = @ + done, !.released = @ + done]

Repatriated(m, x) == [m EXCEPT !.bucket = @ - x, !.out = @ + x]

(* _credit: fees, forfeits and expired rewards are absorbed.               *)
Absorb(x) ==
    /\ mirror.credited + x <= MaxAbsorbed
    /\ mirror' = Credited(mirror, x)
    /\ UNCHANGED <<base, auth, stamp, instr, bound, era, closed, applied, msgs>>

SettleClaim(x) ==
    /\ Dust(Consumed(mirror, x)) <= MaxDust
    /\ mirror' = Consumed(mirror, x)
    /\ UNCHANGED <<base, auth, stamp, instr, bound, era, closed, applied, msgs>>

ReleaseCommitment(x) ==
    /\ mirror' = ReleasedOf(mirror, x)
    /\ UNCHANGED <<base, auth, stamp, instr, bound, era, closed, applied, msgs>>

(* The report carries the ledger's lifetime counters of this moment.       *)
CloseDay(d) ==
    /\ d \notin closed
    /\ bound # NoBase
    /\ closed' = closed \cup {d}
    /\ msgs' = msgs \cup {Report(bound, d, mirror)}
    /\ UNCHANGED <<base, auth, stamp, mirror, instr, bound, era, applied>>

(* rewardRole of a configured chain that is not the canonical one.         *)
RewardRole == IF bound = NoBase THEN "Detached" ELSE "Mirror"

(* The role gate of the broadcasts' ingress: no canonical and no           *)
(* unconfigured chain, but a detached mirror as well as a bound one.       *)
BroadcastIngressGates == RewardRole \in {"Mirror", "Detached"}

(* Of whom a broadcast is taken: of the deployment the mirror has          *)
(* configured for it.  baseChainId has no say.  While it is set to zero no *)
(* broadcast is taken, a step not taken; era is then the last one set.     *)
EraAuthenticated(b) == era = b

(* A broadcast is applied once for a day: a second one of the same content *)
(* changes nothing, and one of another content, or of another era than the *)
(* day's, reverts.                                                         *)
OnBroadcast(b, d) ==
    /\ BroadcastIngressGates
    /\ EraAuthenticated(b)
    /\ d \notin applied
    /\ \E p \in msgs :
        /\ p.type = "broadcast" /\ p.base = b /\ p.day = d
        /\ mirror' = [mirror EXCEPT !.outstanding = @ + p.commit, !.keeper = @ + p.keep]
    /\ applied' = applied \cup {d}
    /\ UNCHANGED <<base, auth, stamp, instr, bound, era, closed, msgs>>

(* Mutant: a re-delivered instruction writes its record again.             *)
OnInstructionAgain(b, i) ==
    /\ bound = b
    /\ \E p \in msgs :
        /\ p.type = "instruct" /\ p.base = b /\ p.id = i
        /\ instr' = [instr EXCEPT ![<<b, i>>] = [state |-> "pending", amount |-> p.amount]]
    /\ UNCHANGED <<base, auth, stamp, mirror, bound, era, closed, applied, msgs>>

(* An obligation is taken on once, and only from the bound Base.           *)
OnInstruction(b, i) ==
    /\ bound = b
    /\ instr[<<b, i>>].state = "none"
    /\ \E p \in msgs :
        /\ p.type = "instruct" /\ p.base = b /\ p.id = i
        /\ instr' = [instr EXCEPT ![<<b, i>>] = [state |-> "pending", amount |-> p.amount]]
    /\ UNCHANGED <<base, auth, stamp, mirror, bound, era, closed, applied, msgs>>

(* Mutant: a cancel also overwrites the record of an executed instruction. *)
OnCancelInstructionLate(b, i) ==
    /\ Cancel(b, i) \in msgs
    /\ instr' = [instr EXCEPT ![<<b, i>>].state = "tombstoned"]
    /\ UNCHANGED <<base, auth, stamp, mirror, bound, era, closed, applied, msgs>>

(* Mutant: a cancel is accepted from the bound Base only.                  *)
OnCancelInstructionBound(b, i) ==
    /\ bound = b
    /\ Cancel(b, i) \in msgs
    /\ instr[<<b, i>>].state \notin {"executed", "tombstoned"}
    /\ instr' = [instr EXCEPT ![<<b, i>>].state = "tombstoned"]
    /\ UNCHANGED <<base, auth, stamp, mirror, bound, era, closed, applied, msgs>>

(* A cancel stops what was not executed, known or not, from any issuer.    *)
OnCancelInstruction(b, i) ==
    /\ Cancel(b, i) \in msgs
    /\ instr[<<b, i>>].state \notin {"executed", "tombstoned"}
    /\ instr' = [instr EXCEPT ![<<b, i>>].state = "tombstoned"]
    /\ UNCHANGED <<base, auth, stamp, mirror, bound, era, closed, applied, msgs>>

(* Mutant: the surplus is not measured again when the order is executed.   *)
ExecuteRepatriationUnchecked(b, i) ==
    LET x == instr[<<b, i>>].amount
    IN  /\ instr[<<b, i>>].state = "pending"
        /\ instr' = [instr EXCEPT ![<<b, i>>].state = "executed"]
        /\ mirror' = Repatriated(mirror, x)
        /\ msgs' = msgs \cup {Return(b, i, x)}
        /\ UNCHANGED <<base, auth, stamp, bound, era, closed, applied>>

(* The surplus is what the mirror's own ledger has to spare now.           *)
ExecuteRepatriation(b, i) ==
    LET x == instr[<<b, i>>].amount
    IN  /\ instr[<<b, i>>].state = "pending"
        /\ x <= Fundable(mirror)
        /\ instr' = [instr EXCEPT ![<<b, i>>].state = "executed"]
        /\ mirror' = Repatriated(mirror, x)
        /\ msgs' = msgs \cup {Return(b, i, x)}
        /\ UNCHANGED <<base, auth, stamp, bound, era, closed, applied>>

(* Mutant: acknowledgements go to the Base the mirror is bound to.         *)
SendCancelAckBound(b, i) ==
    /\ bound = b
    /\ instr[<<b, i>>].state = "tombstoned"
    /\ Ack(b, i) \notin msgs
    /\ msgs' = msgs \cup {Ack(b, i)}
    /\ UNCHANGED <<base, auth, stamp, mirror, instr, bound, era, closed, applied>>

SendCancelAck(b, i) ==
    /\ instr[<<b, i>>].state = "tombstoned"
    /\ Ack(b, i) \notin msgs
    /\ msgs' = msgs \cup {Ack(b, i)}
    /\ UNCHANGED <<base, auth, stamp, mirror, instr, bound, era, closed, applied>>

(* A mirror is bound to another Base only after it was detached.           *)
SetBaseChainId(b) ==
    /\ b # bound
    /\ bound = NoBase \/ b = NoBase
    /\ bound' = b
    /\ UNCHANGED <<base, auth, stamp, mirror, instr, era, closed, applied, msgs>>

(* Only a mirror that is detached exchanges one deployment for another.    *)
SetBaseRewardDeployment(b) ==
    /\ b # era
    /\ RewardRole # "Mirror"
    /\ era' = b
    /\ UNCHANGED <<base, auth, stamp, mirror, instr, bound, closed, applied, msgs>>

-----------------------------------------------------------------------------
(* A Base.                                                                 *)

(* Mutant: a commitment that was paid counts as available again.           *)
AvailOfRetired(B) ==
    Excess(Excess(Excess(B.reported, Excess(B.consumed, B.retired)), B.draw), B.keeper)

(* mirrorAvailRecycled: what the Base believes the mirror can still be     *)
(* asked for.                                                              *)
Avail(B) ==
    Excess(Excess(Excess(B.reported, Excess(B.consumed, B.released)), B.draw), B.keeper)

(* Mutant: the report that arrives last is believed.                       *)
InformedByLatest(B, p) ==
    [B EXCEPT !.reported = p.credited, !.retired = p.retired,
              !.outstanding = Excess(@, Excess(p.retired, B.retired)), !.released = p.released]

(* recordChainRecycledCumulative, recordChainCommitRetirement: the Base    *)
(* believes no figure that is lower than one it has, and none above what   *)
(* it instructed.                                                          *)
Informed(B, p) ==
    LET retired  == Larger(B.retired, Smaller(p.retired, B.consumed))
        released == Larger(B.released, Smaller(p.released, retired))
    IN  [B EXCEPT !.reported = Larger(@, p.credited),
                  !.retired = retired,
                  !.outstanding = Excess(@, retired - B.retired),
                  !.released = released]

OnChainReport(p) ==
    /\ p.type = "report"
    /\ base' = [base EXCEPT ![p.base] = Informed(@, p)]
    /\ msgs' = msgs \ {p}
    /\ UNCHANGED <<auth, stamp, mirror, instr, bound, era, closed, applied>>

Funded(B, x, k) ==
    [B EXCEPT !.consumed = @ + x, !.outstanding = @ + x, !.keeper = @ + k]

(* _stampOne, then resolveKeeperEarmarks, then the broadcast: the day's    *)
(* local commitment and then the keeper's share, each within what is       *)
(* available when it is charged.                                           *)
FinalizeDay(b, d, x, k) ==
    /\ ~ stamp[<<b, d>>].stamped
    /\ d <= MaxFunded
    /\ x <= Avail(base[b])
    /\ k <= Avail(Funded(base[b], x, 0))
    /\ base' = [base EXCEPT ![b] = Funded(@, x, k)]
    /\ stamp' = [stamp EXCEPT ![<<b, d>>] = [stamped |-> TRUE, commit |-> x, keep |-> k]]
    /\ UNCHANGED <<auth, mirror, instr, bound, era, closed, applied, msgs>>

BroadcastDay(b, d) ==
    /\ stamp[<<b, d>>].stamped
    /\ Broadcast(b, d, stamp[<<b, d>>]) \notin msgs
    /\ msgs' = msgs \cup {Broadcast(b, d, stamp[<<b, d>>])}
    /\ UNCHANGED <<base, auth, stamp, mirror, instr, bound, era, closed, applied>>

(* The draw is charged before any instruction leaves.                      *)
AuthorizeRepatriation(b, i, x) ==
    /\ auth[<<b, i>>].status = "none"
    /\ \A j \in 1 .. (i - 1) : auth[<<b, j>>].status # "none"
    /\ x <= Avail(base[b])
    /\ base' = [base EXCEPT ![b].draw = @ + x]
    /\ auth' = [auth EXCEPT ![<<b, i>>] = [status |-> "pending", amount |-> x, shortfall |-> 0]]
    /\ UNCHANGED <<stamp, mirror, instr, bound, era, closed, applied, msgs>>

Pending(b, i) == auth[<<b, i>>].status = "pending"

SendInstruction(b, i) ==
    LET p == Instruction(b, i, auth[<<b, i>>].amount)
    IN  /\ Pending(b, i)
        /\ p \notin msgs
        /\ msgs' = msgs \cup {p}
        /\ UNCHANGED <<base, auth, stamp, mirror, instr, bound, era, closed, applied>>

RequestCancel(b, i) ==
    /\ Pending(b, i)
    /\ Cancel(b, i) \notin msgs
    /\ msgs' = msgs \cup {Cancel(b, i)}
    /\ UNCHANGED <<base, auth, stamp, mirror, instr, bound, era, closed, applied>>

(* Mutant: what did not arrive is forgotten.                               *)
SettledAsReceived(A, y) == [A EXCEPT !.status = "settled"]

(* A return settles at the declared amount; what did not arrive is noted.  *)
Settled(A, y) == [A EXCEPT !.status = "settled", !.shortfall = A.amount - y]

OnReturn(b, i, short) ==
    LET x == auth[<<b, i>>].amount
    IN  /\ Return(b, i, x) \in msgs
        /\ Pending(b, i)
        /\ short < x
        /\ auth' = [auth EXCEPT ![<<b, i>>] = Settled(@, x - short)]
        /\ base' = [base EXCEPT ![b].relocated = @ + (x - short)]
        /\ msgs' = msgs \ {Return(b, i, x)}
        /\ UNCHANGED <<stamp, mirror, instr, bound, era, closed, applied>>

(* Mutant: an acknowledgement is applied as often as it arrives.           *)
OnCancelAckAgain(b, i) ==
    /\ Ack(b, i) \in msgs
    /\ auth' = [auth EXCEPT ![<<b, i>>].status = "released"]
    /\ base' = [base EXCEPT ![b].draw = Excess(@, auth[<<b, i>>].amount)]
    /\ UNCHANGED <<stamp, mirror, instr, bound, era, closed, applied, msgs>>

(* The only way a charge is released.                                      *)
OnCancelAck(b, i) ==
    /\ Ack(b, i) \in msgs
    /\ Pending(b, i)
    /\ auth' = [auth EXCEPT ![<<b, i>>].status = "released"]
    /\ base' = [base EXCEPT ![b].draw = Excess(@, auth[<<b, i>>].amount)]
    /\ UNCHANGED <<stamp, mirror, instr, bound, era, closed, applied, msgs>>

-----------------------------------------------------------------------------
MirrorNext ==
    \/ \E x \in Amounts : Absorb(x) \/ SettleClaim(x) \/ ReleaseCommitment(x)
    \/ \E d \in Days : CloseDay(d)
    \/ \E b \in Bases : \E d \in Days : OnBroadcast(b, d)
    \/ \E b \in Bases : \E i \in Ids :
          OnInstruction(b, i) \/ OnCancelInstruction(b, i)
            \/ ExecuteRepatriation(b, i) \/ SendCancelAck(b, i)
    \/ \E b \in Bases \cup {NoBase} : SetBaseChainId(b)
    \/ \E b \in Bases : SetBaseRewardDeployment(b)

BaseNext ==
    \/ \E p \in msgs : OnChainReport(p)
    \/ \E b \in Bases : \E d \in Days :
          \/ \E x, k \in 0 .. MaxAmount : FinalizeDay(b, d, x, k)
          \/ BroadcastDay(b, d)
    \/ \E b \in Bases : \E i \in Ids :
          \/ \E x \in Amounts : AuthorizeRepatriation(b, i, x)
          \/ SendInstruction(b, i)
          \/ RequestCancel(b, i)
          \/ \E short \in 0 .. MaxShort : OnReturn(b, i, short)
          \/ OnCancelAck(b, i)

Next == MirrorNext \/ BaseNext

Spec == Init /\ [][Next]_vars

(* The lanes deliver in the end: a cancel to the mirror, a return and an   *)
(* acknowledgement to the Base (CCIP leaves a failed delivery executable   *)
(* and anybody may execute it), and somebody sends the acknowledgement     *)
(* that anybody may send.  Nobody has to send, deliver or execute an       *)
(* instruction.                                                            *)
Fairness ==
    \A b \in Bases : \A i \in Ids :
        /\ WF_vars(OnCancelInstruction(b, i))
        /\ WF_vars(SendCancelAck(b, i))
        /\ WF_vars(OnCancelAck(b, i))
        /\ WF_vars(\E short \in 0 .. MaxShort : OnReturn(b, i, short))

FairSpec == Spec /\ Fairness

-----------------------------------------------------------------------------
(* Properties.                                                             *)

(* What a Base has promised that the mirror does not know of yet.          *)
DaysToCome(b) == [d \in Days |-> IF d \in applied THEN 0
                                 ELSE stamp[<<b, d>>].commit + stamp[<<b, d>>].keep]

OrdersToCome(b) ==
    [i \in Ids |-> IF auth[<<b, i>>].status = "pending" /\ instr[<<b, i>>].state # "executed"
                   THEN auth[<<b, i>>].amount ELSE 0]

Unapplied(b) == Total(DaysToCome(b), MaxDays)

Unexecuted(b) == Total(OrdersToCome(b), MaxAuths)

(* A mirror that serves one Base can meet all it was told and all it may   *)
(* still be told at once: its bucket covers the open commitments, the      *)
(* keeper's share, the days and orders still on their way and what the     *)
(* Base holds available, whatever reports are late, reordered or missing.  *)
(* Only claims paid beyond their commitments can eat into it.              *)
OfferedIsThere ==
    \A b \in Bases : Bases = {b} =>
        mirror.bucket + Dust(mirror) >=
            mirror.outstanding + mirror.keeper + Unapplied(b) + Unexecuted(b) + Avail(base[b])

(* Every order has one end, and both chains agree on it: settled only by a *)
(* return the mirror sent, released only when the mirror can no longer     *)
(* pay, and what was sent is on its way to the Base that still waits for   *)
(* it (3.6a constraint 5c).                                                *)
OneOutcome ==
    \A o \in Bases \X Ids :
        /\ auth[o].status = "settled" => instr[o].state = "executed"
        /\ auth[o].status = "released" => instr[o].state = "tombstoned"
        /\ (instr[o].state = "executed" /\ auth[o].status = "pending")
             <=> Return(o[1], o[2], auth[o].amount) \in msgs

(* The charge of a Base is the sum of its orders that are pending or       *)
(* settled: nothing is released twice, or for an order that was paid.      *)
OrdersCharged(b) ==
    [i \in Ids |-> IF auth[<<b, i>>].status \in {"pending", "settled"}
                   THEN auth[<<b, i>>].amount ELSE 0]

DrawIsCharged == \A b \in Bases : base[b].draw = Total(OrdersCharged(b), MaxAuths)

SumOver(f, S) == MapThenSumSet(LAMBDA x : f[x], S)

Returns == {p \in msgs : p.type = "return"}

(* Tokens are not made or lost on the way: what left the mirror is booked  *)
(* by the Bases, noted as a shortfall, or in flight.                       *)
NothingLostInTransit ==
    mirror.out = SumOver([b \in Bases |-> base[b].relocated], Bases)
                   + SumOver([o \in Bases \X Ids |-> auth[o].shortfall], Bases \X Ids)
                   + SumOver([p \in Returns |-> p.amount], Returns)

(* A Base's copy of the mirror's books never runs ahead of them, and what  *)
(* it counts as outstanding is what it instructed less what it was told is *)
(* retired (the identity LibVpfiRecycle keeps at every instant).           *)
BooksLag ==
    \A b \in Bases :
        /\ base[b].outstanding + base[b].retired = base[b].consumed
        /\ base[b].reported <= mirror.credited
        /\ base[b].retired <= mirror.retired
        /\ base[b].released <= Smaller(base[b].retired, mirror.released)

(* A cancelled order is always resolved, also by a mirror that has since   *)
(* left the Base: the charge is settled by a return or released.           *)
CancelResolves ==
    \A o \in Bases \X Ids :
        (Cancel(o[1], o[2]) \in msgs) ~> (auth[o].status \in {"settled", "released"})

(* The protocol implements RepatriationOrders: the mirror's record decides,*)
(* the Base hears the decision and nothing else, and the charge moves only *)
(* with what the Base has heard.                                           *)
Decision(o) == CASE instr[o].state = "executed"   -> "paid"
                 [] instr[o].state = "tombstoned" -> "void"
                 [] OTHER -> IF auth[o].status = "none" THEN "none" ELSE "issued"

Told(o) == CASE auth[o].status = "none"     -> "none"
             [] auth[o].status = "pending"  -> "issued"
             [] auth[o].status = "settled"  -> "paid"
             [] auth[o].status = "released" -> "void"

Orders == INSTANCE RepatriationOrders WITH
    order   <- [o \in Bases \X Ids |-> Decision(o)],
    heard   <- [o \in Bases \X Ids |-> Told(o)],
    amount  <- [o \in Bases \X Ids |-> auth[o].amount],
    charged <- [b \in Bases |-> base[b].draw],
    gone    <- mirror.out

OrdersAreDecidedOnce == Orders!Spec

(* What the mirror decided reaches the Base that asked, whatever the       *)
(* mirror is bound to by then.                                             *)
DecisionsAreHeard == Orders!EveryDecisionIsHeard

=============================================================================
