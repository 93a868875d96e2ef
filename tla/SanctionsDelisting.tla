------------------------- MODULE SanctionsDelisting -------------------------
(***************************************************************************)
(* The delisting timelock (compliance/SanctionsDelistingTimelock.sol), the *)
(* list it delists from, and the attestor on the oracle's chain            *)
(* (compliance/SanctionsClearanceAttestor.sol).  A bot proposes to delist  *)
(* what the recorded publication calls for; the Safe has a window to veto; *)
(* then a current oracle must not flag any of the addresses.  Where the    *)
(* oracle is on this chain it is read when the proposal executes.  Where   *)
(* it is not, the timelock sends the attestor a request after the window,  *)
(* the attestor reads the oracle when the request arrives, and anybody     *)
(* sends the reply it owes: each may be late, overtaken by a renewal, or   *)
(* never come.                                                             *)
(*                                                                         *)
(* A clearance request travels once and its reading is taken once, so one  *)
(* record, replyOf[r], follows request r from this chain to the attestor   *)
(* and back; its readAt and epoch are history that no message carries.  A  *)
(* reply may arrive any number of times.  Fees, gas and malformed messages *)
(* only refuse a call.                                                     *)
(***************************************************************************)
EXTENDS SanctionsList, LedgerSums

CONSTANTS Proposers,
          NoProposer,     \* of an id that was not issued
          Attestors,
          NoAttestor,     \* the cross-chain route is off
          HasSecondary,   \* the list has the oracle on this chain
          Delays,         \* the owner's choices of the window,
          ClearanceAges,  \* of how long a request is usable,
          OracleAges,     \* and of how old the oracle's data may be
          Ahead,          \* of the oracle's clock over this chain's
          MaxProposals,
          MaxRequests,
          MaxTime,
          MaxEpochs,      \* changes of the clearance source
          MaxRemovals,    \* of one proposer
          MaxAdditions,   \* additions a publication may declare outstanding,
          MaxDelistings,  \* and delistings
          Flaggings       \* sets of accounts the oracle may come to flag

ASSUME DelistingAssumption ==
    /\ NoProposer \notin Proposers /\ NoAttestor \notin Attestors
    /\ HasSecondary \in BOOLEAN
    /\ Delays \subseteq Nat \ {0} /\ ClearanceAges \subseteq Nat /\ OracleAges \subseteq Nat
    /\ Ahead \in Nat /\ MaxProposals \in Nat /\ MaxRequests \in Nat /\ MaxTime \in Nat
    /\ MaxEpochs \in Nat /\ MaxRemovals \in Nat /\ MaxAdditions \in Nat /\ MaxDelistings \in Nat
    /\ Flaggings \subseteq SUBSET Accounts

Ids == 1 .. MaxProposals
Requests == 1 .. MaxRequests

VARIABLES now,
          oracle,             \* what it flags and when it was last updated
          list,
          isProposer,
          authGeneration,     \* how often each proposer lost its authority
          limits,             \* delay, clearanceMaxAge, oracleMaxAge
          source,             \* clearanceAttestor, clearanceEpoch
          proposals,
          proposalOf,         \* the pending proposal naming an account, or 0
          reservedDelistings,
          vetoed,
          clearanceOf,        \* each proposal's current request and answer
          proposalOfRequest,  \* the proposal of a live request, or 0
          requestCount,
          replyOf             \* each request on its way there and back

world == <<now, oracle>>
roles == <<isProposer, authGeneration>>
settings == <<limits, source>>
book == <<proposals, proposalOf, reservedDelistings>>
clearances == <<clearanceOf, proposalOfRequest, requestCount, replyOf>>

vars == <<world, list, roles, settings, book, vetoed, clearances>>

Oracles == [flagged : SUBSET Accounts, updatedAt : Nat]

Limits == [delay : Nat, clearanceMaxAge : Nat, oracleMaxAge : Nat]

Sources == [attestor : Attestors \cup {NoAttestor}, epoch : Nat]

Proposals == [status : {"none", "pending", "cancelled", "executed"},
              proposer : Proposers \cup {NoProposer}, generation : Nat,
              publication : Publications \cup {NoPublication}, eta : Nat,
              accounts : SUBSET Accounts]

Clearances == [state : {"none", "requested", "cleared", "flagged"}, requestId : Nat,
               requestedAt : Nat, oracleUpdatedAt : Nat, epoch : Nat]

Replies == [state : {"none", "sent", "owed", "replied"}, to : Attestors \cup {NoAttestor},
            epoch : Nat, accounts : SUBSET Accounts, flagged : BOOLEAN,
            oracleUpdatedAt : Nat, readAt : Nat]

(* All the variables have their types.                                     *)
TypeOK ==
    /\ now \in Nat
    /\ oracle \in Oracles
    /\ list \in Lists
    /\ isProposer \subseteq Proposers
    /\ authGeneration \in [Proposers -> Nat]
    /\ limits \in Limits
    /\ source \in Sources
    /\ proposals \in [Ids -> Proposals]
    /\ proposalOf \in [Accounts -> Ids \cup {0}]
    /\ reservedDelistings \in Nat
    /\ vetoed \subseteq Accounts
    /\ clearanceOf \in [Ids -> Clearances]
    /\ proposalOfRequest \in [Requests -> Ids \cup {0}]
    /\ requestCount \in 0 .. MaxRequests
    /\ replyOf \in [Requests -> Replies]

(* The timelock is deployed over a list that is in use.                    *)
Init ==
    /\ now = 1
    /\ oracle \in [flagged : Flaggings, updatedAt : 0 .. 1]
    /\ list \in [listed : {Accounts}, publication : Publications, additions : 0 .. MaxAdditions,
                 delistings : 0 .. MaxDelistings, rollback : {NoPublication}]
    /\ isProposer = {}
    /\ authGeneration = [k \in Proposers |-> 0]
    /\ limits \in [delay : Delays, clearanceMaxAge : ClearanceAges, oracleMaxAge : OracleAges]
    /\ source = [attestor |-> NoAttestor, epoch |-> 0]
    /\ proposals = [id \in Ids |-> [status |-> "none", proposer |-> NoProposer, generation |-> 0,
                                    publication |-> NoPublication, eta |-> 0, accounts |-> {}]]
    /\ proposalOf = [a \in Accounts |-> 0]
    /\ reservedDelistings = 0
    /\ vetoed = {}
    /\ clearanceOf = [id \in Ids |-> [state |-> "none", requestId |-> 0, requestedAt |-> 0,
                                      oracleUpdatedAt |-> 0, epoch |-> 0]]
    /\ proposalOfRequest = [r \in Requests |-> 0]
    /\ requestCount = 0
    /\ replyOf = [r \in Requests |-> [state |-> "none", to |-> NoAttestor, epoch |-> 0,
                                      accounts |-> {}, flagged |-> FALSE,
                                      oracleUpdatedAt |-> 0, readAt |-> 0]]

-----------------------------------------------------------------------------
(* The world: time passes and the oracle is updated.                       *)

Tick ==
    /\ now < MaxTime
    /\ now' = now + 1
    /\ UNCHANGED <<oracle, list, roles, settings, book, vetoed, clearances>>

UpdateOracle(S) ==
    /\ oracle' = [flagged |-> S, updatedAt |-> now]
    /\ UNCHANGED <<now, list, roles, settings, book, vetoed, clearances>>

-----------------------------------------------------------------------------
(* The list's own updaters: an adder, or the Safe, which may also delist.  *)

ApplyUpdate(add, remove, p, additionsLeft, delistingsLeft) ==
    /\ UpdateAccepted(list, add, remove, p, additionsLeft, delistingsLeft)
    /\ list' = Updated(list, add, remove, p, additionsLeft, delistingsLeft)
    /\ UNCHANGED <<world, roles, settings, book, vetoed, clearances>>

AuthorizePublicationRollback(p) ==
    /\ MayAuthorize(list, p)
    /\ list' = RollbackAuthorized(list, p)
    /\ UNCHANGED <<world, roles, settings, book, vetoed, clearances>>

-----------------------------------------------------------------------------
(* The owner's settings.                                                   *)

(* Mutant: a removal ends the authority only for as long as it lasts.      *)
RemoveProposerForNow(k) ==
    /\ k \in isProposer
    /\ isProposer' = isProposer \ {k}
    /\ UNCHANGED <<world, list, authGeneration, settings, book, vetoed, clearances>>

(* Removing a proposer voids what it proposed, for good.                   *)
RemoveProposer(k) ==
    /\ k \in isProposer
    /\ authGeneration[k] < MaxRemovals
    /\ isProposer' = isProposer \ {k}
    /\ authGeneration' = [authGeneration EXCEPT ![k] = @ + 1]
    /\ UNCHANGED <<world, list, settings, book, vetoed, clearances>>

AppointProposer(k) ==
    /\ isProposer' = isProposer \cup {k}
    /\ UNCHANGED <<world, list, authGeneration, settings, book, vetoed, clearances>>

(* Pending proposals keep their eta.                                       *)
SetDelay(x) ==
    /\ limits' = [limits EXCEPT !.delay = x]
    /\ UNCHANGED <<world, list, roles, source, book, vetoed, clearances>>

(* Read when a request is used, so it applies to those that exist.         *)
SetClearanceMaxAge(x) ==
    /\ limits' = [limits EXCEPT !.clearanceMaxAge = x]
    /\ UNCHANGED <<world, list, roles, source, book, vetoed, clearances>>

SetOracleMaxAge(x) ==
    /\ limits' = [limits EXCEPT !.oracleMaxAge = x]
    /\ UNCHANGED <<world, list, roles, source, book, vetoed, clearances>>

(* Every call voids what was asked of the source so far.                   *)
SetClearanceSource(a) ==
    /\ source.epoch < MaxEpochs
    /\ source' = [attestor |-> a, epoch |-> source.epoch + 1]
    /\ UNCHANGED <<world, list, roles, limits, book, vetoed, clearances>>

-----------------------------------------------------------------------------
(* Proposals.                                                              *)

Pending(id) == proposals[id].status = "pending"

HoldsAuthority(P) ==
    /\ P.proposer \in isProposer
    /\ P.generation = authGeneration[P.proposer]

Propose(id, k, S) ==
    LET n == Cardinality(S)
    IN  /\ proposals[id].status = "none"
        /\ \A j \in 1 .. (id - 1) : proposals[j].status # "none"
        /\ k \in isProposer
        /\ S # {} /\ S \subseteq list.listed /\ S \cap vetoed = {}
        /\ reservedDelistings + n <= list.delistings
        /\ \A a \in S : proposalOf[a] = 0
        /\ reservedDelistings' = reservedDelistings + n
        /\ proposalOf' = [a \in Accounts |-> IF a \in S THEN id ELSE proposalOf[a]]
        /\ proposals' = [proposals EXCEPT ![id] =
              [status |-> "pending", proposer |-> k, generation |-> authGeneration[k],
               publication |-> list.publication, eta |-> now + limits.delay, accounts |-> S]]
        /\ UNCHANGED <<world, list, roles, settings, vetoed, clearances>>

(* The proposer has checked its accounts against the publication the list  *)
(* now records; the window does not start again.                           *)
Reconfirm(id) ==
    /\ Pending(id)
    /\ HoldsAuthority(proposals[id])
    /\ proposals[id].publication # list.publication
    /\ proposals' = [proposals EXCEPT ![id].publication = list.publication]
    /\ UNCHANGED <<world, list, roles, settings, proposalOf, reservedDelistings, vetoed, clearances>>

(* Mutant: a closed proposal keeps the accounts it named.                  *)
CloseKeeping(id, status) ==
    /\ Pending(id)
    /\ proposals' = [proposals EXCEPT ![id].status = status]
    /\ UNCHANGED proposalOf
    /\ reservedDelistings' = reservedDelistings - Cardinality(proposals[id].accounts)

(* Mutant: a proposal that is closed is closed, and released, again.       *)
CloseAgain(id, status) ==
    /\ proposals' = [proposals EXCEPT ![id].status = status]
    /\ proposalOf' = [a \in Accounts |-> IF a \in proposals[id].accounts THEN 0 ELSE proposalOf[a]]
    /\ reservedDelistings' = reservedDelistings - Cardinality(proposals[id].accounts)

(* The status, and _release.                                               *)
Close(id, status) ==
    /\ Pending(id)
    /\ proposals' = [proposals EXCEPT ![id].status = status]
    /\ proposalOf' = [a \in Accounts |-> IF a \in proposals[id].accounts THEN 0 ELSE proposalOf[a]]
    /\ reservedDelistings' = reservedDelistings - Cardinality(proposals[id].accounts)

(* The Safe's or the owner's cancel is a veto of every account named.      *)
CancelByVetoer(id) ==
    /\ Close(id, "cancelled")
    /\ vetoed' = vetoed \cup proposals[id].accounts
    /\ UNCHANGED <<world, list, roles, settings, clearances>>

CancelByItsProposer(id) ==
    /\ HoldsAuthority(proposals[id])
    /\ Close(id, "cancelled")
    /\ UNCHANGED <<world, list, roles, settings, vetoed, clearances>>

(* Anybody clears away what nobody has the authority to execute.           *)
Discard(id) ==
    /\ ~ HoldsAuthority(proposals[id])
    /\ Close(id, "cancelled")
    /\ UNCHANGED <<world, list, roles, settings, vetoed, clearances>>

SetVetoed(a, on) ==
    /\ vetoed' = IF on THEN vetoed \cup {a} ELSE vetoed \ {a}
    /\ UNCHANGED <<world, list, roles, settings, book, clearances>>

-----------------------------------------------------------------------------
(* Clearances.                                                             *)

CrossChain == ~ HasSecondary /\ source.attestor # NoAttestor

Current(c) == c.state # "none" /\ c.epoch = source.epoch

Usable(c) == Current(c) /\ now <= c.requestedAt + limits.clearanceMaxAge

(* Mutant: a renewed request keeps the answer of the one it replaces.      *)
RequestClearanceKeeping(id) ==
    LET r == requestCount + 1
        c == clearanceOf[id]
    IN  /\ Pending(id) /\ now >= proposals[id].eta
        /\ CrossChain /\ ~ Usable(c)
        /\ r \in Requests
        /\ requestCount' = r
        /\ clearanceOf' = [clearanceOf EXCEPT ![id] =
              [c EXCEPT !.state = IF @ = "none" THEN "requested" ELSE @,
                        !.requestId = r, !.requestedAt = now, !.epoch = source.epoch]]
        /\ proposalOfRequest' = [q \in Requests |->
              IF q = r THEN id ELSE IF q = c.requestId THEN 0 ELSE proposalOfRequest[q]]
        /\ replyOf' = [replyOf EXCEPT ![r].state = "sent", ![r].to = source.attestor,
                                      ![r].epoch = source.epoch, ![r].accounts = proposals[id].accounts]
        /\ UNCHANGED <<world, list, roles, settings, book, vetoed>>

(* A request is renewed only when it is no longer usable, so nobody can    *)
(* keep voiding an answer that is on its way.                              *)
RequestClearance(id) ==
    LET r == requestCount + 1
        c == clearanceOf[id]
    IN  /\ Pending(id) /\ now >= proposals[id].eta
        /\ CrossChain /\ ~ Usable(c)
        /\ r \in Requests
        /\ requestCount' = r
        /\ clearanceOf' = [clearanceOf EXCEPT ![id] =
              [state |-> "requested", requestId |-> r, requestedAt |-> now,
               oracleUpdatedAt |-> 0, epoch |-> source.epoch]]
        /\ proposalOfRequest' = [q \in Requests |->
              IF q = r THEN id ELSE IF q = c.requestId THEN 0 ELSE proposalOfRequest[q]]
        /\ replyOf' = [replyOf EXCEPT ![r].state = "sent", ![r].to = source.attestor,
                                      ![r].epoch = source.epoch, ![r].accounts = proposals[id].accounts]
        /\ UNCHANGED <<world, list, roles, settings, book, vetoed>>

(* The attestor reads the oracle when the request arrives, once.           *)
AttestorReads(r) ==
    /\ replyOf[r].state = "sent"
    /\ replyOf' = [replyOf EXCEPT
          ![r].state = "owed",
          ![r].flagged = replyOf[r].accounts \cap oracle.flagged # {},
          ![r].oracleUpdatedAt = IF oracle.updatedAt = 0 THEN 0 ELSE oracle.updatedAt + Ahead,
          ![r].readAt = now]
    /\ UNCHANGED <<world, list, roles, settings, book, vetoed, clearanceOf, proposalOfRequest, requestCount>>

SendReply(r) ==
    /\ replyOf[r].state = "owed"
    /\ replyOf' = [replyOf EXCEPT ![r].state = "replied"]
    /\ UNCHANGED <<world, list, roles, settings, book, vetoed, clearanceOf, proposalOfRequest, requestCount>>

(* A flagged answer stays; a clear one keeps the freshest time it was told,*)
(* which is never later than this chain's clock.                           *)
Answered(c, R) ==
    LET told == IF R.oracleUpdatedAt > now THEN now ELSE R.oracleUpdatedAt
    IN  CASE R.flagged -> [c EXCEPT !.state = "flagged"]
          [] ~ R.flagged /\ c.state = "flagged" -> c
          [] ~ R.flagged /\ c.state # "flagged" ->
                [c EXCEPT !.state = "cleared", !.oracleUpdatedAt = IF told > @ THEN told ELSE @]

(* onCrossChainMessage: an answer from another attestor reverts; one to an *)
(* unknown or superseded request, or for a closed proposal, is ignored.    *)
OnAnswer(r) ==
    LET id == proposalOfRequest[r]
    IN  /\ replyOf[r].state = "replied"
        /\ replyOf[r].to = source.attestor
        /\ id # 0
        /\ clearanceOf[id].requestId = r /\ clearanceOf[id].epoch = source.epoch
        /\ Pending(id)
        /\ replyOf[r].accounts = proposals[id].accounts
        /\ clearanceOf' = [clearanceOf EXCEPT ![id] = Answered(@, replyOf[r])]
        /\ UNCHANGED <<world, list, roles, settings, book, vetoed, proposalOfRequest, requestCount, replyOf>>

Fresh(updatedAt) == updatedAt # 0 /\ now <= updatedAt + limits.oracleMaxAge

(* _requireCleared, by the list's own oracle or by an answer.              *)
ClearedHere(S) == HasSecondary /\ Fresh(oracle.updatedAt) /\ S \cap oracle.flagged = {}

ClearedByAnswer(c) == /\ CrossChain
                      /\ Usable(c)
                      /\ c.state = "cleared"
                      /\ Fresh(c.oracleUpdatedAt)

Execute(id) ==
    LET P == proposals[id]
        left == list.delistings - Cardinality(P.accounts)
    IN  /\ Pending(id)
        /\ now >= P.eta
        /\ HoldsAuthority(P)
        /\ P.publication = list.publication
        /\ list.additions = 0
        /\ left >= 0
        /\ P.accounts \cap vetoed = {}
        /\ ClearedHere(P.accounts) \/ ClearedByAnswer(clearanceOf[id])
        /\ UpdateAccepted(list, {}, P.accounts, P.publication, 0, left)
        /\ list' = Updated(list, {}, P.accounts, P.publication, 0, left)
        /\ Close(id, "executed")
        /\ UNCHANGED <<world, roles, settings, vetoed, clearances>>

-----------------------------------------------------------------------------
ListNext ==
    \/ \E add, remove \in SUBSET Accounts : \E p \in Publications : \E x \in 0 .. MaxAdditions : \E y \in 0 .. MaxDelistings :
          ApplyUpdate(add, remove, p, x, y)
    \/ \E p \in Publications \cup {NoPublication} : AuthorizePublicationRollback(p)

OwnerNext ==
    \/ \E k \in Proposers : RemoveProposer(k) \/ AppointProposer(k)
    \/ \E x \in Delays : SetDelay(x)
    \/ \E x \in ClearanceAges : SetClearanceMaxAge(x)
    \/ \E x \in OracleAges : SetOracleMaxAge(x)
    \/ \E a \in Attestors \cup {NoAttestor} : SetClearanceSource(a)

ProposalNext ==
    \/ \E id \in Ids :
          \/ \E k \in Proposers : \E S \in SUBSET Accounts : Propose(id, k, S)
          \/ Reconfirm(id) \/ Discard(id)
          \/ CancelByVetoer(id) \/ CancelByItsProposer(id)
          \/ RequestClearance(id)
          \/ Execute(id)
    \/ \E a \in Accounts : \E on \in BOOLEAN : SetVetoed(a, on)

AnswerNext == \E r \in Requests : AttestorReads(r) \/ SendReply(r) \/ OnAnswer(r)

Next ==
    \/ Tick
    \/ \E S \in Flaggings : UpdateOracle(S)
    \/ ListNext \/ OwnerNext \/ ProposalNext \/ AnswerNext

Spec == Init /\ [][Next]_vars

-----------------------------------------------------------------------------
(* Properties.                                                             *)

(* Where the oracle is on another chain, a proposal executes only on a     *)
(* reading that was taken there after its window ended, within the time a  *)
(* request is usable, under the source that is configured now, for exactly *)
(* its accounts, of an oracle that was current and flagged none of them.   *)
(* No clock of the two chains is compared: the reading is late enough      *)
(* because the request was (note 3 of the timelock).                       *)
Evidence(id, r) ==
    LET R == replyOf[r]
    IN  /\ R.state = "replied" /\ R.to = source.attestor /\ R.epoch = source.epoch
        /\ R.accounts = proposals[id].accounts /\ ~ R.flagged
        /\ proposals[id].eta <= R.readAt
        /\ R.readAt <= now /\ now <= R.readAt + limits.clearanceMaxAge
        /\ R.oracleUpdatedAt # 0 /\ now <= R.oracleUpdatedAt + limits.oracleMaxAge

Executes(id) == Pending(id) /\ proposals'[id].status = "executed"

ExecutedOnEvidence ==
    [][\A id \in Ids : ~ HasSecondary /\ Executes(id) => \E r \in Requests : Evidence(id, r)]_vars

(* A proposal whose proposer lost its authority stays void: no appointment *)
(* revives it, and it never executes.                                      *)
VoidStaysVoid ==
    [][\A id \in Ids : Pending(id) /\ ~ HoldsAuthority(proposals[id]) =>
          /\ proposals'[id].status # "executed"
          /\ ~ HoldsAuthority(proposals[id])']_vars

(* An account is in at most one pending proposal, the one proposalOf names,*)
(* and what the timelock counts as reserved is what those proposals name,  *)
(* so a share of the publication is neither lost nor used twice.           *)
Named == [id \in Ids |-> IF Pending(id) THEN Cardinality(proposals[id].accounts) ELSE 0]

ReservedIsNamed ==
    /\ reservedDelistings = Total(Named, MaxProposals)
    /\ \A a \in Accounts : \A id \in Ids :
          proposalOf[a] = id <=> Pending(id) /\ a \in proposals[id].accounts

=============================================================================
