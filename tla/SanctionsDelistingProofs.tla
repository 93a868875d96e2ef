---------------------- MODULE SanctionsDelistingProofs ----------------------
(***************************************************************************)
(* Proofs about SanctionsDelisting, for any accounts, proposers, limits    *)
(* and numbers of proposals and requests.  Inv is inductive: beside the    *)
(* types and the reserved shares it says that a proposer without the role  *)
(* has outgrown its proposals (LostIsOutgrown), that a reply still says    *)
(* what it was asked (RepliesTrue), and that a proposal's clearance stands *)
(* for a reading taken after its request (ClearancesTrue).                 *)
(***************************************************************************)
EXTENDS SanctionsDelisting, LedgerSumsProofs, FiniteSetTheorems

LostIsOutgrown ==
    \A id \in Ids : Pending(id) =>
        LET k == proposals[id].proposer
        IN  /\ k \in Proposers
            /\ proposals[id].generation <= authGeneration[k]
            /\ k \notin isProposer => proposals[id].generation < authGeneration[k]

RepliesTrue ==
    \A r \in Requests :
        /\ r > requestCount => replyOf[r].state = "none"
        /\ replyOf[r].state # "none" =>
              /\ replyOf[r].epoch <= source.epoch
              /\ replyOf[r].epoch = source.epoch => replyOf[r].to = source.attestor

(* What stands behind a request that is on its way or answered.            *)
Asked(c, P, R) ==
    /\ P.status # "none"
    /\ R.state # "none" /\ R.accounts = P.accounts /\ R.epoch = c.epoch
    /\ P.eta <= c.requestedAt /\ c.requestedAt <= now
    /\ R.state # "sent" => c.requestedAt <= R.readAt /\ R.readAt <= now

Told(c, R) == R.state = "replied" /\ ~ R.flagged /\ c.oracleUpdatedAt <= R.oracleUpdatedAt

ClearancesTrue ==
    \A id \in Ids :
        LET c == clearanceOf[id]
        IN  /\ c.state = "none" => c.requestId = 0
            /\ c.state = "requested" => c.oracleUpdatedAt = 0
            /\ c.state # "none" =>
                  /\ c.requestId \in 1 .. requestCount
                  /\ Asked(c, proposals[id], replyOf[c.requestId])
                  /\ c.state = "cleared" => Told(c, replyOf[c.requestId])

Inv == TypeOK /\ ReservedIsNamed /\ LostIsOutgrown /\ RepliesTrue /\ ClearancesTrue

-----------------------------------------------------------------------------
(* Which actions touch which part of the state.                            *)

LEMMA BookSteps ==
    ASSUME [Next]_vars
    PROVE  \/ UNCHANGED book
           \/ \E id \in Ids :
                 \/ \E k \in Proposers : \E S \in SUBSET Accounts : Propose(id, k, S)
                 \/ Reconfirm(id)
                 \/ \E s \in {"cancelled", "executed"} : Close(id, s)
<1> USE DEF vars, book
<1>1. CASE UNCHANGED vars
  BY <1>1
<1>2. CASE Tick \/ \E S \in Flaggings : UpdateOracle(S)
  BY <1>2 DEF Tick, UpdateOracle
<1>3. CASE ListNext
  BY <1>3 DEF ListNext, ApplyUpdate, AuthorizePublicationRollback
<1>4. CASE OwnerNext
  BY <1>4 DEF OwnerNext, RemoveProposer, AppointProposer, SetDelay, SetClearanceMaxAge,
              SetOracleMaxAge, SetClearanceSource
<1>5. CASE ProposalNext
  BY <1>5 DEF ProposalNext, Discard, CancelByVetoer, CancelByItsProposer, RequestClearance,
              Execute, SetVetoed
<1>6. CASE AnswerNext
  BY <1>6 DEF AnswerNext, AttestorReads, SendReply, OnAnswer
<1>7. QED
  BY <1>1, <1>2, <1>3, <1>4, <1>5, <1>6 DEF Next

LEMMA RoleSteps ==
    ASSUME [Next]_vars
    PROVE  UNCHANGED roles \/ \E k \in Proposers : RemoveProposer(k) \/ AppointProposer(k)
<1> USE DEF vars, roles
<1>1. CASE UNCHANGED vars
  BY <1>1
<1>2. CASE Tick \/ \E S \in Flaggings : UpdateOracle(S)
  BY <1>2 DEF Tick, UpdateOracle
<1>3. CASE ListNext
  BY <1>3 DEF ListNext, ApplyUpdate, AuthorizePublicationRollback
<1>4. CASE OwnerNext
  BY <1>4 DEF OwnerNext, SetDelay, SetClearanceMaxAge, SetOracleMaxAge, SetClearanceSource
<1>5. CASE ProposalNext
  BY <1>5, ZenonT(60) DEF ProposalNext, Propose, Reconfirm, Discard, CancelByVetoer, CancelByItsProposer,
              RequestClearance, Execute, SetVetoed
<1>6. CASE AnswerNext
  BY <1>6 DEF AnswerNext, AttestorReads, SendReply, OnAnswer
<1>7. QED
  BY <1>1, <1>2, <1>3, <1>4, <1>5, <1>6 DEF Next

LEMMA ClearanceSteps ==
    ASSUME [Next]_vars
    PROVE  \/ UNCHANGED clearances
           \/ \E id \in Ids : RequestClearance(id)
           \/ \E r \in Requests : AttestorReads(r) \/ SendReply(r) \/ OnAnswer(r)
<1> USE DEF vars, clearances
<1>1. CASE UNCHANGED vars
  BY <1>1
<1>2. CASE Tick \/ \E S \in Flaggings : UpdateOracle(S)
  BY <1>2 DEF Tick, UpdateOracle
<1>3. CASE ListNext
  BY <1>3 DEF ListNext, ApplyUpdate, AuthorizePublicationRollback
<1>4. CASE OwnerNext
  BY <1>4 DEF OwnerNext, RemoveProposer, AppointProposer, SetDelay, SetClearanceMaxAge,
              SetOracleMaxAge, SetClearanceSource
<1>5. CASE ProposalNext
  BY <1>5 DEF ProposalNext, Propose, Reconfirm, Discard, CancelByVetoer, CancelByItsProposer,
              Execute, SetVetoed
<1>6. CASE AnswerNext
  BY <1>6 DEF AnswerNext
<1>7. QED
  BY <1>1, <1>2, <1>3, <1>4, <1>5, <1>6 DEF Next

LEMMA SourceSteps ==
    ASSUME [Next]_vars
    PROVE  \/ UNCHANGED source
           \/ \E a \in Attestors \cup {NoAttestor} : SetClearanceSource(a)
<1> USE DEF vars, settings
<1>1. CASE UNCHANGED vars
  BY <1>1
<1>2. CASE Tick \/ \E S \in Flaggings : UpdateOracle(S)
  BY <1>2 DEF Tick, UpdateOracle
<1>3. CASE ListNext
  BY <1>3 DEF ListNext, ApplyUpdate, AuthorizePublicationRollback
<1>4. CASE OwnerNext
  BY <1>4 DEF OwnerNext, RemoveProposer, AppointProposer, SetDelay, SetClearanceMaxAge,
              SetOracleMaxAge
<1>5. CASE ProposalNext
  BY <1>5, ZenonT(60) DEF ProposalNext, Propose, Reconfirm, Discard, CancelByVetoer, CancelByItsProposer,
              RequestClearance, Execute, SetVetoed
<1>6. CASE AnswerNext
  BY <1>6 DEF AnswerNext, AttestorReads, SendReply, OnAnswer
<1>7. QED
  BY <1>1, <1>2, <1>3, <1>4, <1>5, <1>6 DEF Next

LEMMA ClockSteps ==
    ASSUME [Next]_vars
    PROVE  UNCHANGED now \/ Tick
<1> USE DEF vars, world
<1>1. CASE UNCHANGED vars
  BY <1>1
<1>2. CASE Tick \/ \E S \in Flaggings : UpdateOracle(S)
  BY <1>2 DEF UpdateOracle
<1>3. CASE ListNext
  BY <1>3 DEF ListNext, ApplyUpdate, AuthorizePublicationRollback
<1>4. CASE OwnerNext
  BY <1>4 DEF OwnerNext, RemoveProposer, AppointProposer, SetDelay, SetClearanceMaxAge,
              SetOracleMaxAge, SetClearanceSource
<1>5. CASE ProposalNext
  BY <1>5 DEF ProposalNext, Propose, Reconfirm, Discard, CancelByVetoer, CancelByItsProposer,
              RequestClearance, Execute, SetVetoed
<1>6. CASE AnswerNext
  BY <1>6 DEF AnswerNext, AttestorReads, SendReply, OnAnswer
<1>7. QED
  BY <1>1, <1>2, <1>3, <1>4, <1>5, <1>6 DEF Next

-----------------------------------------------------------------------------
(* The state keeps its types and the shares add up.                        *)

LEMMA SizeOfAccounts == \A S \in SUBSET Accounts : IsFiniteSet(S) /\ Cardinality(S) \in Nat
BY ListAssumption, FS_Subset, FS_CardinalityType

LEMMA InitType == Init => TypeOK
<1> SUFFICES ASSUME Init PROVE TypeOK
  OBVIOUS
<1>1. list \in Lists /\ oracle \in Oracles /\ limits \in Limits /\ source \in Sources
  <2>1. list \in [listed : {Accounts}, publication : Publications, additions : 0 .. MaxAdditions,
                  delistings : 0 .. MaxDelistings, rollback : {NoPublication}]
    BY DEF Init
  <2>2. list \in Lists
    BY <2>1 DEF Lists
  <2>3. oracle \in [flagged : Flaggings, updatedAt : 0 .. 1]
    BY DEF Init
  <2>4. Flaggings \subseteq SUBSET Accounts
    BY DelistingAssumption
  <2>5. oracle \in Oracles
    BY <2>3, <2>4 DEF Oracles
  <2>6. limits \in [delay : Delays, clearanceMaxAge : ClearanceAges, oracleMaxAge : OracleAges]
    BY DEF Init
  <2>7. Delays \subseteq Nat /\ ClearanceAges \subseteq Nat /\ OracleAges \subseteq Nat
    BY DelistingAssumption
  <2>8. limits \in Limits
    BY <2>6, <2>7 DEF Limits
  <2>9. source \in Sources
    BY DEF Init, Sources
  <2>10. QED
    BY <2>2, <2>5, <2>8, <2>9
<1>2. proposals \in [Ids -> Proposals] /\ clearanceOf \in [Ids -> Clearances]
  BY DEF Init, Proposals, Clearances
<1>3. replyOf \in [Requests -> Replies]
  BY DEF Init, Replies
<1>4. requestCount \in 0 .. MaxRequests
  BY DelistingAssumption DEF Init
<1>5. /\ authGeneration \in [Proposers -> Nat] /\ proposalOf \in [Accounts -> Ids \cup {0}]
      /\ proposalOfRequest \in [Requests -> Ids \cup {0}]
      /\ now \in Nat /\ reservedDelistings \in Nat /\ isProposer \subseteq Proposers
      /\ vetoed \subseteq Accounts
  BY DEF Init
<1>6. QED
  BY <1>1, <1>2, <1>3, <1>4, <1>5 DEF TypeOK

LEMMA UpdateTypes ==
    ASSUME NEW L \in Lists, NEW S \in SUBSET Accounts, NEW T \in SUBSET Accounts,
           NEW p \in Publications, NEW x \in Nat, NEW y \in Nat
    PROVE  Updated(L, S, T, p, x, y) \in Lists
<1>1. L.listed \in SUBSET Accounts
  BY DEF Lists
<1>2. (L.listed \cup S) \ T \in SUBSET Accounts
  BY <1>1
<1>3. QED
  BY <1>2 DEF Updated, Lists

LEMMA ListTypes ==
    ASSUME TypeOK, [Next]_vars
    PROVE  list' \in Lists
<1> USE DEF vars
<1>0. list \in Lists
  BY DEF TypeOK
<1>1. CASE UNCHANGED list
  BY <1>0, <1>1
<1>2. ASSUME NEW S \in SUBSET Accounts, NEW T \in SUBSET Accounts, NEW p \in Publications,
             NEW x \in 0 .. MaxAdditions, NEW y \in 0 .. MaxDelistings, ApplyUpdate(S, T, p, x, y)
      PROVE  list' \in Lists
  BY <1>0, <1>2, UpdateTypes DEF ApplyUpdate
<1>3. ASSUME NEW p \in Publications \cup {NoPublication}, AuthorizePublicationRollback(p)
      PROVE  list' \in Lists
  BY <1>0, <1>3 DEF AuthorizePublicationRollback, RollbackAuthorized, Lists
<1>4. ASSUME NEW id \in Ids, Execute(id)
      PROVE  list' \in Lists
  <2> DEFINE P == proposals[id]
             left == list.delistings - Cardinality(P.accounts)
  <2>1. P \in Proposals /\ P.accounts \in SUBSET Accounts
    BY DEF TypeOK, Proposals
  <2>2. list.delistings \in Nat /\ list.publication \in Publications
    BY <1>0 DEF Lists
  <2>3. left \in Nat /\ P.publication \in Publications
    BY <1>4, <2>1, <2>2, SizeOfAccounts DEF Execute
  <2>4. list' = Updated(list, {}, P.accounts, P.publication, 0, left)
    BY <1>4 DEF Execute
  <2> HIDE DEF P, left
  <2>5. QED
    BY <1>0, <2>1, <2>3, <2>4, UpdateTypes
<1>5. \/ UNCHANGED list
      \/ \E S, T \in SUBSET Accounts : \E p \in Publications :
            \E x \in 0 .. MaxAdditions : \E y \in 0 .. MaxDelistings : ApplyUpdate(S, T, p, x, y)
      \/ \E p \in Publications \cup {NoPublication} : AuthorizePublicationRollback(p)
      \/ \E id \in Ids : Execute(id)
  <2>1. CASE UNCHANGED vars
    BY <2>1
  <2>2. CASE Tick \/ \E S \in Flaggings : UpdateOracle(S)
    BY <2>2 DEF Tick, UpdateOracle
  <2>3. CASE ListNext
    BY <2>3 DEF ListNext
  <2>4. CASE OwnerNext
    BY <2>4 DEF OwnerNext, RemoveProposer, AppointProposer, SetDelay, SetClearanceMaxAge,
                SetOracleMaxAge, SetClearanceSource
  <2>5. CASE ProposalNext
    BY <2>5 DEF ProposalNext, Propose, Reconfirm, Discard, CancelByVetoer, CancelByItsProposer,
                RequestClearance, SetVetoed
  <2>6. CASE AnswerNext
    BY <2>6 DEF AnswerNext, AttestorReads, SendReply, OnAnswer
  <2>7. QED
    BY <2>1, <2>2, <2>3, <2>4, <2>5, <2>6 DEF Next
<1>6. QED
  BY <1>1, <1>2, <1>3, <1>4, <1>5

LEMMA BookTypes ==
    ASSUME TypeOK, [Next]_vars
    PROVE  /\ proposals' \in [Ids -> Proposals]
           /\ proposalOf' \in [Accounts -> Ids \cup {0}]
<1>0. /\ proposals \in [Ids -> Proposals] /\ proposalOf \in [Accounts -> Ids \cup {0}]
      /\ list.publication \in Publications /\ now \in Nat /\ limits.delay \in Nat
      /\ authGeneration \in [Proposers -> Nat]
  BY DEF TypeOK, Lists, Limits
<1>1. CASE UNCHANGED book
  BY <1>0, <1>1 DEF book
<1>2. ASSUME NEW id \in Ids, NEW k \in Proposers, NEW S \in SUBSET Accounts, Propose(id, k, S)
      PROVE  /\ proposals' \in [Ids -> Proposals]
             /\ proposalOf' \in [Accounts -> Ids \cup {0}]
  <2>1. now + limits.delay \in Nat /\ authGeneration[k] \in Nat
    BY <1>0
  <2>2. [status |-> "pending", proposer |-> k, generation |-> authGeneration[k],
         publication |-> list.publication, eta |-> now + limits.delay, accounts |-> S] \in Proposals
    BY <1>0, <2>1 DEF Proposals
  <2>3. QED
    BY <1>0, <1>2, <2>2 DEF Propose
<1>3. ASSUME NEW id \in Ids, Reconfirm(id)
      PROVE  /\ proposals' \in [Ids -> Proposals]
             /\ proposalOf' \in [Accounts -> Ids \cup {0}]
  BY <1>0, <1>3 DEF Reconfirm, Proposals
<1>4. ASSUME NEW id \in Ids, NEW s \in {"cancelled", "executed"}, Close(id, s)
      PROVE  /\ proposals' \in [Ids -> Proposals]
             /\ proposalOf' \in [Accounts -> Ids \cup {0}]
  BY <1>0, <1>4 DEF Close, Proposals
<1>5. QED
  BY <1>1, <1>2, <1>3, <1>4, BookSteps

LEMMA ClearanceTypes ==
    ASSUME TypeOK, [Next]_vars
    PROVE  /\ clearanceOf' \in [Ids -> Clearances]
           /\ proposalOfRequest' \in [Requests -> Ids \cup {0}]
           /\ requestCount' \in 0 .. MaxRequests
           /\ replyOf' \in [Requests -> Replies]
<1> DEFINE Goal == /\ clearanceOf' \in [Ids -> Clearances]
                   /\ proposalOfRequest' \in [Requests -> Ids \cup {0}]
                   /\ requestCount' \in 0 .. MaxRequests
                   /\ replyOf' \in [Requests -> Replies]
<1>0. /\ clearanceOf \in [Ids -> Clearances] /\ replyOf \in [Requests -> Replies]
      /\ proposalOfRequest \in [Requests -> Ids \cup {0}] /\ requestCount \in 0 .. MaxRequests
      /\ proposals \in [Ids -> Proposals] /\ now \in Nat
      /\ source.attestor \in Attestors \cup {NoAttestor} /\ source.epoch \in Nat
      /\ oracle.updatedAt \in Nat
  BY DEF TypeOK, Sources, Oracles
<1>1. CASE UNCHANGED clearances
  BY <1>0, <1>1 DEF clearances
<1>2. ASSUME NEW id \in Ids, RequestClearance(id)
      PROVE  Goal
  <2> DEFINE r == requestCount + 1
  <2>1. r \in Requests /\ r \in Nat /\ requestCount' = r /\ r \in 0 .. MaxRequests
    BY <1>0, <1>2 DEF RequestClearance, Requests
  <2>2. clearanceOf' \in [Ids -> Clearances]
    <3>1. [state |-> "requested", requestId |-> r, requestedAt |-> now,
           oracleUpdatedAt |-> 0, epoch |-> source.epoch] \in Clearances
      BY <1>0, <2>1 DEF Clearances
    <3>2. QED
      BY <1>0, <1>2, <3>1 DEF RequestClearance
  <2>3. proposalOfRequest' \in [Requests -> Ids \cup {0}]
    BY <1>0, <1>2 DEF RequestClearance
  <2>4. proposals[id].accounts \in SUBSET Accounts
    BY <1>0 DEF Proposals
  <2>5. replyOf' \in [Requests -> Replies]
    <3>1. replyOf' = [replyOf EXCEPT ![r] = [replyOf[r] EXCEPT
              !.state = "sent", !.to = source.attestor, !.epoch = source.epoch,
              !.accounts = proposals[id].accounts]]
      BY <1>0, <1>2, <2>1 DEF RequestClearance, Replies
    <3>2. [replyOf[r] EXCEPT !.state = "sent", !.to = source.attestor, !.epoch = source.epoch,
                             !.accounts = proposals[id].accounts] \in Replies
      BY <1>0, <2>1, <2>4, ZenonT(60) DEF Replies
    <3>3. QED
      BY <1>0, <3>1, <3>2
  <2>6. QED
    BY <2>1, <2>2, <2>3, <2>5
<1>3. ASSUME NEW r \in Requests, AttestorReads(r)
      PROVE  Goal
  <2>1. /\ (replyOf[r].accounts \cap oracle.flagged # {}) \in BOOLEAN
        /\ (IF oracle.updatedAt = 0 THEN 0 ELSE oracle.updatedAt + Ahead) \in Nat
    BY <1>0, DelistingAssumption
  <2>2. replyOf' = [replyOf EXCEPT ![r] = [replyOf[r] EXCEPT
          !.state = "owed", !.flagged = replyOf[r].accounts \cap oracle.flagged # {},
          !.oracleUpdatedAt = IF oracle.updatedAt = 0 THEN 0 ELSE oracle.updatedAt + Ahead,
          !.readAt = now]]
    BY <1>0, <1>3 DEF AttestorReads, Replies
  <2>3. replyOf[r] \in Replies
    BY <1>0
  <2>4. replyOf' \in [Requests -> Replies]
    BY <1>0, <2>1, <2>2, <2>3 DEF Replies
  <2>5. QED
    BY <1>0, <1>3, <2>4 DEF AttestorReads
<1>4. ASSUME NEW r \in Requests, SendReply(r)
      PROVE  Goal
  BY <1>0, <1>4, ZenonT(60) DEF SendReply, Replies
<1>5. ASSUME NEW r \in Requests, OnAnswer(r)
      PROVE  Goal
  <2> DEFINE id == proposalOfRequest[r]
  <2>1. id \in Ids /\ clearanceOf[id] \in Clearances /\ replyOf[r] \in Replies
    BY <1>0, <1>5 DEF OnAnswer
  <2>2. Answered(clearanceOf[id], replyOf[r]) \in Clearances
    BY <1>0, <2>1 DEF Answered, Clearances, Replies
  <2>3. clearanceOf' \in [Ids -> Clearances]
    BY <1>0, <1>5, <2>1, <2>2 DEF OnAnswer
  <2>4. QED
    BY <1>0, <1>5, <2>3 DEF OnAnswer
<1>6. QED
  BY <1>1, <1>2, <1>3, <1>4, <1>5, ClearanceSteps

LEMMA SharesKept ==
    ASSUME TypeOK, ReservedIsNamed, [Next]_vars
    PROVE  ReservedIsNamed' /\ reservedDelistings' \in Nat
<1>0. /\ proposals \in [Ids -> Proposals] /\ proposals' \in [Ids -> Proposals]
      /\ proposalOf \in [Accounts -> Ids \cup {0}] /\ reservedDelistings \in Nat
      /\ MaxProposals \in Nat
  BY BookTypes, DelistingAssumption DEF TypeOK
<1>1. \A id \in Ids : /\ proposals[id].accounts \in SUBSET Accounts
                      /\ proposals'[id].accounts \in SUBSET Accounts
  BY <1>0 DEF Proposals
<1>2. \A id \in Ids : /\ Cardinality(proposals[id].accounts) \in Nat
                      /\ Cardinality(proposals'[id].accounts) \in Nat
  BY <1>1, SizeOfAccounts
<1>3. /\ \A id \in 1 .. MaxProposals : /\ Named[id] \in Nat /\ Named'[id] \in Nat
                                       /\ Named[id] \in Int /\ Named'[id] \in Int
  BY <1>2 DEF Named, Pending, Ids
<1>4. Total(Named, MaxProposals)' = Total(Named', MaxProposals)
  OBVIOUS
<1>5. Total(Named', MaxProposals) \in Nat
  BY <1>0, <1>3, TotalBounds
<1> DEFINE Shares(id) == Total(Named', MaxProposals)
                           = Total(Named, MaxProposals) - Named[id] + Named'[id]
<1>6. ASSUME NEW id \in Ids, \A j \in Ids : j # id => proposals'[j] = proposals[j]
      PROVE  Shares(id)
  <2>1. \A j \in 1 .. MaxProposals : j # id => Named'[j] = Named[j]
    BY <1>6 DEF Named, Pending, Ids
  <2>2. id \in 1 .. MaxProposals
    BY DEF Ids
  <2>3. QED
    BY <1>0, <1>3, <2>1, <2>2, TotalUpdate
<1> HIDE DEF Shares
<1> DEFINE Rows == \A a \in Accounts : \A id \in Ids :
                     proposalOf[a] = id <=> Pending(id) /\ a \in proposals[id].accounts
<1>7. reservedDelistings = Total(Named, MaxProposals) /\ Rows
  BY DEF ReservedIsNamed
<1>8. CASE UNCHANGED book
  BY <1>0, <1>7, <1>8 DEF ReservedIsNamed, Named, Pending, book
<1>9. ASSUME NEW id \in Ids, NEW k \in Proposers, NEW S \in SUBSET Accounts, Propose(id, k, S)
      PROVE  ReservedIsNamed' /\ reservedDelistings' \in Nat
  <2>1. /\ proposals[id].status = "none"
        /\ \A j \in Ids : j # id => proposals'[j] = proposals[j]
        /\ proposals'[id].status = "pending" /\ proposals'[id].accounts = S
        /\ \A a \in S : proposalOf[a] = 0
        /\ reservedDelistings' = reservedDelistings + Cardinality(S)
        /\ proposalOf' = [a \in Accounts |-> IF a \in S THEN id ELSE proposalOf[a]]
    BY <1>0, <1>9 DEF Propose
  <2>2. Named[id] = 0 /\ Named'[id] = Cardinality(S)
    BY <2>1 DEF Named, Pending
  <2>3. reservedDelistings' = Total(Named, MaxProposals)'
    BY <1>0, <1>4, <1>6, <1>7, <2>1, <2>2, SizeOfAccounts DEF Shares
  <2>4. Rows'
    <3> SUFFICES ASSUME NEW a \in Accounts, NEW j \in Ids
                 PROVE  proposalOf'[a] = j <=> Pending(j)' /\ a \in proposals'[j].accounts
      OBVIOUS
    <3>1. proposalOf[a] = j <=> Pending(j) /\ a \in proposals[j].accounts
      BY <1>7
    <3>2. CASE j = id
      BY <2>1, <3>1, <3>2 DEF Pending
    <3>3. CASE j # id
      <4>1. 0 \notin Ids
        BY DEF Ids
      <4>2. QED
        BY <2>1, <3>1, <3>3, <4>1 DEF Pending
    <3>4. QED
      BY <3>2, <3>3
  <2>5. QED
    BY <1>4, <1>5, <2>3, <2>4 DEF ReservedIsNamed
<1>10. ASSUME NEW id \in Ids, Reconfirm(id)
       PROVE  ReservedIsNamed' /\ reservedDelistings' \in Nat
  <2>1. \A j \in Ids : /\ proposals'[j].status = proposals[j].status
                       /\ proposals'[j].accounts = proposals[j].accounts
    BY <1>0, <1>10 DEF Reconfirm, Proposals
  <2>2. UNCHANGED <<proposalOf, reservedDelistings>>
    BY <1>10 DEF Reconfirm
  <2>3. \A j \in 1 .. MaxProposals : Named'[j] = Named[j]
    BY <2>1 DEF Named, Pending, Ids
  <2>4. Total(Named', MaxProposals) = Total(Named, MaxProposals)
    BY <1>0, <1>3, <2>3, TotalSame
  <2>5. QED
    BY <1>0, <1>4, <1>7, <2>1, <2>2, <2>4 DEF ReservedIsNamed, Pending
<1>11. ASSUME NEW id \in Ids, NEW s \in {"cancelled", "executed"}, Close(id, s)
       PROVE  ReservedIsNamed' /\ reservedDelistings' \in Nat
  <2>1. /\ proposals[id].status = "pending"
        /\ \A j \in Ids : j # id => proposals'[j] = proposals[j]
        /\ proposals'[id].status = s
        /\ reservedDelistings' = reservedDelistings - Cardinality(proposals[id].accounts)
        /\ proposalOf' = [a \in Accounts |-> IF a \in proposals[id].accounts THEN 0 ELSE proposalOf[a]]
    BY <1>0, <1>11 DEF Close, Pending, Proposals
  <2>2. Named[id] = Cardinality(proposals[id].accounts) /\ Named'[id] = 0
    BY <2>1 DEF Named, Pending
  <2>3. reservedDelistings' = Total(Named, MaxProposals)'
    BY <1>0, <1>2, <1>4, <1>5, <1>6, <1>7, <2>1, <2>2 DEF Shares
  <2>4. Rows'
    <3> SUFFICES ASSUME NEW a \in Accounts, NEW j \in Ids
                 PROVE  proposalOf'[a] = j <=> Pending(j)' /\ a \in proposals'[j].accounts
      OBVIOUS
    <3>1. /\ proposalOf[a] = j <=> Pending(j) /\ a \in proposals[j].accounts
          /\ proposalOf[a] = id <=> a \in proposals[id].accounts
      BY <1>7, <2>1 DEF Pending
    <3>2. 0 \notin Ids
      BY DEF Ids
    <3>3. CASE j = id
      BY <2>1, <3>1, <3>2, <3>3 DEF Pending
    <3>4. CASE j # id
      BY <2>1, <3>1, <3>2, <3>4 DEF Pending
    <3>5. QED
      BY <3>3, <3>4
  <2>5. QED
    BY <1>4, <1>5, <2>3, <2>4 DEF ReservedIsNamed
<1>12. QED
  BY <1>8, <1>9, <1>10, <1>11, BookSteps

LEMMA TypeKept ==
    ASSUME TypeOK, ReservedIsNamed, [Next]_vars
    PROVE  TypeOK'
<1>1. now' \in Nat
  BY ClockSteps DEF TypeOK, Tick
<1>2. isProposer' \subseteq Proposers /\ authGeneration' \in [Proposers -> Nat]
  BY RoleSteps DEF TypeOK, roles, RemoveProposer, AppointProposer
<1>3. source' \in Sources
  BY SourceSteps DEF TypeOK, SetClearanceSource, Sources
<1>4. oracle' \in Oracles /\ limits' \in Limits /\ vetoed' \subseteq Accounts
  <2> USE DEF vars, world, settings
  <2>0. /\ oracle \in Oracles /\ limits \in Limits /\ vetoed \subseteq Accounts
        /\ proposals \in [Ids -> Proposals] /\ now \in Nat
        /\ Delays \subseteq Nat /\ ClearanceAges \subseteq Nat /\ OracleAges \subseteq Nat
        /\ Flaggings \subseteq SUBSET Accounts
    BY DelistingAssumption DEF TypeOK
  <2>1. CASE UNCHANGED vars
    BY <2>0, <2>1
  <2>2. CASE Tick \/ \E S \in Flaggings : UpdateOracle(S)
    BY <2>0, <2>2 DEF Tick, UpdateOracle, Oracles
  <2>3. CASE ListNext
    BY <2>0, <2>3 DEF ListNext, ApplyUpdate, AuthorizePublicationRollback
  <2>4. CASE OwnerNext
    BY <2>0, <2>4 DEF OwnerNext, RemoveProposer, AppointProposer, SetDelay, SetClearanceMaxAge,
                      SetOracleMaxAge, SetClearanceSource, Limits
  <2>5. CASE ProposalNext
    BY <2>0, <2>5 DEF ProposalNext, Propose, Reconfirm, Discard, CancelByVetoer, Proposals,
                      CancelByItsProposer, RequestClearance, Execute, SetVetoed
  <2>6. CASE AnswerNext
    BY <2>0, <2>6 DEF AnswerNext, AttestorReads, SendReply, OnAnswer
  <2>7. QED
    BY <2>1, <2>2, <2>3, <2>4, <2>5, <2>6 DEF Next
<1>5. QED
  BY <1>1, <1>2, <1>3, <1>4, ListTypes, BookTypes, ClearanceTypes, SharesKept DEF TypeOK

-----------------------------------------------------------------------------
(* The other parts of the invariant.                                       *)

(* A pending proposal keeps its proposer, its generation, its eta and its  *)
(* accounts, and no proposal becomes pending but by Propose.               *)
LEMMA ProposalKept ==
    ASSUME TypeOK, [Next]_vars, NEW id \in Ids,
           \A k \in Proposers : \A S \in SUBSET Accounts : ~ Propose(id, k, S)
    PROVE  /\ Pending(id)' => Pending(id)
           /\ proposals[id].status # "none" => proposals'[id].status # "none"
           /\ proposals'[id].proposer = proposals[id].proposer
           /\ proposals'[id].generation = proposals[id].generation
           /\ proposals'[id].eta = proposals[id].eta
           /\ proposals'[id].accounts = proposals[id].accounts
<1>0. proposals \in [Ids -> Proposals]
  BY DEF TypeOK
<1>1. CASE UNCHANGED book
  BY <1>1 DEF book, Pending
<1>2. ASSUME NEW j \in Ids, NEW k \in Proposers, NEW S \in SUBSET Accounts, Propose(j, k, S)
      PROVE  proposals'[id] = proposals[id]
  BY <1>0, <1>2 DEF Propose
<1>3. CASE \E j \in Ids : Reconfirm(j)
  BY <1>0, <1>3 DEF Reconfirm, Proposals, Pending
<1>4. ASSUME NEW j \in Ids, NEW s \in {"cancelled", "executed"}, Close(j, s)
      PROVE  /\ Pending(id)' => Pending(id)
             /\ proposals[id].status # "none" => proposals'[id].status # "none"
             /\ proposals'[id].proposer = proposals[id].proposer
             /\ proposals'[id].generation = proposals[id].generation
             /\ proposals'[id].eta = proposals[id].eta
             /\ proposals'[id].accounts = proposals[id].accounts
  BY <1>0, <1>4 DEF Close, Proposals, Pending
<1>5. QED
  BY <1>1, <1>2, <1>3, <1>4, BookSteps DEF Pending

LEMMA LostKept ==
    ASSUME TypeOK, LostIsOutgrown, [Next]_vars
    PROVE  LostIsOutgrown'
<1> SUFFICES ASSUME NEW id \in Ids, Pending(id)'
             PROVE  LET k == proposals'[id].proposer
                    IN  /\ k \in Proposers
                        /\ proposals'[id].generation <= authGeneration'[k]
                        /\ k \notin isProposer' => proposals'[id].generation < authGeneration'[k]
  BY DEF LostIsOutgrown
<1>0. /\ authGeneration \in [Proposers -> Nat] /\ proposals \in [Ids -> Proposals]
      /\ isProposer \subseteq Proposers
  BY DEF TypeOK
<1>1. ASSUME NEW k \in Proposers, NEW S \in SUBSET Accounts, Propose(id, k, S)
      PROVE  /\ UNCHANGED roles /\ k \in isProposer
             /\ proposals'[id].proposer = k /\ proposals'[id].generation = authGeneration[k]
  BY <1>0, <1>1 DEF Propose
<1>2. CASE \E k \in Proposers : \E S \in SUBSET Accounts : Propose(id, k, S)
  BY <1>0, <1>1, <1>2 DEF roles
<1>3. CASE \A k \in Proposers : \A S \in SUBSET Accounts : ~ Propose(id, k, S)
  <2> DEFINE q == proposals[id].proposer
  <2>1. /\ Pending(id) /\ proposals'[id].proposer = q
        /\ proposals'[id].generation = proposals[id].generation
    BY <1>3, ProposalKept
  <2>2. /\ q \in Proposers /\ proposals[id].generation <= authGeneration[q]
        /\ q \notin isProposer => proposals[id].generation < authGeneration[q]
    BY <2>1 DEF LostIsOutgrown
  <2>3. proposals[id].generation \in Nat /\ authGeneration[q] \in Nat
    BY <1>0, <2>2 DEF Proposals
  <2> HIDE DEF q
  <2>4. CASE UNCHANGED roles
    BY <2>1, <2>2, <2>4 DEF roles
  <2>5. CASE \E k \in Proposers : RemoveProposer(k)
    BY <1>0, <2>1, <2>2, <2>3, <2>5 DEF RemoveProposer
  <2>6. CASE \E k \in Proposers : AppointProposer(k)
    BY <1>0, <2>1, <2>2, <2>3, <2>6 DEF AppointProposer
  <2>7. QED
    BY <2>4, <2>5, <2>6, RoleSteps
<1>4. QED
  BY <1>2, <1>3

LEMMA ReadingTaken ==
    ASSUME TypeOK, NEW r \in Requests, AttestorReads(r)
    PROVE  /\ replyOf[r].state = "sent"
           /\ \A q \in Requests : q # r => replyOf'[q] = replyOf[q]
           /\ replyOf'[r].state = "owed" /\ replyOf'[r].readAt = now
           /\ replyOf'[r].accounts = replyOf[r].accounts
           /\ replyOf'[r].epoch = replyOf[r].epoch /\ replyOf'[r].to = replyOf[r].to
<1>1. replyOf \in [Requests -> Replies]
  BY DEF TypeOK
<1>2. replyOf[r].state = "sent" /\ replyOf' = [replyOf EXCEPT ![r] = [replyOf[r] EXCEPT
        !.state = "owed", !.flagged = replyOf[r].accounts \cap oracle.flagged # {},
        !.oracleUpdatedAt = IF oracle.updatedAt = 0 THEN 0 ELSE oracle.updatedAt + Ahead,
        !.readAt = now]]
  BY <1>1 DEF AttestorReads, Replies
<1>3. replyOf[r] \in Replies
  BY <1>1
<1>4. QED
  BY <1>1, <1>2, <1>3 DEF Replies

LEMMA RepliesKept ==
    ASSUME TypeOK, RepliesTrue, [Next]_vars
    PROVE  RepliesTrue'
<1>0. /\ replyOf \in [Requests -> Replies] /\ requestCount \in Nat /\ source.epoch \in Nat
      /\ proposalOfRequest \in [Requests -> Ids \cup {0}] /\ source \in Sources
  BY DEF TypeOK, Sources
<1> SUFFICES ASSUME NEW r \in Requests
             PROVE  /\ r > requestCount' => replyOf'[r].state = "none"
                    /\ replyOf'[r].state # "none" =>
                          /\ replyOf'[r].epoch <= source'.epoch
                          /\ replyOf'[r].epoch = source'.epoch => replyOf'[r].to = source'.attestor
  BY DEF RepliesTrue
<1>1. /\ r > requestCount => replyOf[r].state = "none"
      /\ replyOf[r].state # "none" =>
            /\ replyOf[r].epoch <= source.epoch
            /\ replyOf[r].epoch = source.epoch => replyOf[r].to = source.attestor
      /\ replyOf[r] \in Replies /\ replyOf[r].epoch \in Nat
  BY <1>0 DEF RepliesTrue, Replies
<1>2. CASE UNCHANGED clearances /\ UNCHANGED source
  BY <1>1, <1>2 DEF clearances
<1>3. ASSUME NEW a \in Attestors \cup {NoAttestor}, SetClearanceSource(a)
      PROVE  /\ r > requestCount' => replyOf'[r].state = "none"
             /\ replyOf'[r].state # "none" =>
                   /\ replyOf'[r].epoch <= source'.epoch
                   /\ replyOf'[r].epoch = source'.epoch => replyOf'[r].to = source'.attestor
  <2>1. UNCHANGED <<requestCount, replyOf>> /\ source'.epoch = source.epoch + 1
    BY <1>3 DEF SetClearanceSource, clearances
  <2>2. QED
    BY <1>0, <1>1, <2>1
<1>4. ASSUME NEW id \in Ids, RequestClearance(id)
      PROVE  /\ r > requestCount' => replyOf'[r].state = "none"
             /\ replyOf'[r].state # "none" =>
                   /\ replyOf'[r].epoch <= source'.epoch
                   /\ replyOf'[r].epoch = source'.epoch => replyOf'[r].to = source'.attestor
  <2>1. /\ requestCount' = requestCount + 1 /\ UNCHANGED source
        /\ requestCount + 1 \in Requests
        /\ r # requestCount + 1 => replyOf'[r] = replyOf[r]
        /\ r = requestCount + 1 => /\ replyOf'[r].epoch = source.epoch
                                   /\ replyOf'[r].to = source.attestor
    BY <1>0, <1>4 DEF RequestClearance, settings, Replies
  <2>2. r \in Nat
    BY DEF Requests
  <2>3. QED
    BY <1>0, <1>1, <2>1, <2>2
<1>5. CASE \E q \in Requests : AttestorReads(q) \/ SendReply(q) \/ OnAnswer(q)
  <2>1. /\ UNCHANGED <<requestCount, source>>
        /\ replyOf'[r].epoch = replyOf[r].epoch /\ replyOf'[r].to = replyOf[r].to
        /\ replyOf[r].state = "none" => replyOf'[r].state = "none"
    <3>1. CASE \E q \in Requests : AttestorReads(q)
      BY <3>1, ReadingTaken DEF AttestorReads, settings
    <3>2. CASE \E q \in Requests : SendReply(q) \/ OnAnswer(q)
      BY <1>0, <1>1, <3>2 DEF SendReply, OnAnswer, settings, Replies
    <3>3. QED
      BY <1>5, <3>1, <3>2
  <2>2. QED
    BY <1>1, <2>1
<1>6. QED
  BY <1>2, <1>3, <1>4, <1>5, ClearanceSteps, SourceSteps

LEMMA ClearancesKept ==
    ASSUME TypeOK, RepliesTrue, ClearancesTrue, [Next]_vars
    PROVE  ClearancesTrue'
<1> DEFINE True(id) ==
        /\ clearanceOf[id].state = "none" => clearanceOf[id].requestId = 0
        /\ clearanceOf[id].state = "requested" => clearanceOf[id].oracleUpdatedAt = 0
        /\ clearanceOf[id].state # "none" =>
              /\ clearanceOf[id].requestId \in 1 .. requestCount
              /\ Asked(clearanceOf[id], proposals[id], replyOf[clearanceOf[id].requestId])
              /\ clearanceOf[id].state = "cleared" =>
                    Told(clearanceOf[id], replyOf[clearanceOf[id].requestId])
<1>0. /\ clearanceOf \in [Ids -> Clearances] /\ replyOf \in [Requests -> Replies]
      /\ proposalOfRequest \in [Requests -> Ids \cup {0}] /\ requestCount \in 0 .. MaxRequests
      /\ proposals \in [Ids -> Proposals] /\ now \in Nat /\ MaxRequests \in Nat
      /\ now' \in Nat /\ now <= now'
  BY ClockSteps, DelistingAssumption DEF TypeOK, Tick
<1> SUFFICES ASSUME NEW id \in Ids PROVE True(id)'
  BY DEF ClearancesTrue
<1> DEFINE c == clearanceOf[id]
           R == replyOf[c.requestId]
<1>1. True(id) /\ c \in Clearances
  BY <1>0 DEF ClearancesTrue
<1>2. /\ c.requestedAt \in Nat /\ proposals[id].eta \in Nat /\ c.oracleUpdatedAt \in Nat
  BY <1>0, <1>1 DEF Clearances, Proposals
<1>3. /\ c.state # "none" => /\ proposals'[id].status # "none"
                             /\ proposals'[id].eta = proposals[id].eta
                             /\ proposals'[id].accounts = proposals[id].accounts
  <2>1. CASE \E k \in Proposers : \E S \in SUBSET Accounts : Propose(id, k, S)
    BY <1>1, <2>1 DEF Propose, Asked
  <2>2. CASE \A k \in Proposers : \A S \in SUBSET Accounts : ~ Propose(id, k, S)
    BY <1>1, <2>2, ProposalKept DEF Asked
  <2>3. QED
    BY <2>1, <2>2
<1>4. c.state # "none" => c.requestId \in Requests /\ R \in Replies
  BY <1>0, <1>1 DEF Requests
<1>5. c.state # "none" => R.readAt \in Nat /\ R.oracleUpdatedAt \in Nat
  BY <1>4 DEF Replies
<1>6. CASE UNCHANGED clearances
  BY <1>0, <1>1, <1>2, <1>3, <1>5, <1>6 DEF clearances, Asked, Told
<1>7. ASSUME NEW j \in Ids, RequestClearance(j)
      PROVE  True(id)'
  <2> DEFINE r == requestCount + 1
  <2>1. /\ r \in Requests /\ requestCount' = r /\ UNCHANGED now /\ UNCHANGED proposals
        /\ proposals[j].status = "pending" /\ now >= proposals[j].eta
    BY <1>7 DEF RequestClearance, Pending, world, book
  <2>2. CASE id = j
    <3>1. /\ clearanceOf'[id].state = "requested" /\ clearanceOf'[id].requestId = r
          /\ clearanceOf'[id].oracleUpdatedAt = 0
          /\ clearanceOf'[id].requestedAt = now /\ clearanceOf'[id].epoch = source.epoch
      BY <1>0, <1>7, <2>2 DEF RequestClearance
    <3>2. /\ replyOf'[r].state = "sent" /\ replyOf'[r].epoch = source.epoch
          /\ replyOf'[r].accounts = proposals[id].accounts
      BY <1>0, <1>7, <2>1, <2>2 DEF RequestClearance, Replies
    <3>3. r \in 1 .. requestCount'
      BY <1>0, <2>1
    <3>4. QED
      BY <1>2, <2>1, <2>2, <3>1, <3>2, <3>3, <1>0 DEF Asked, Told
  <2>3. CASE id # j
    <3>1. clearanceOf'[id] = c
      BY <1>0, <1>7, <2>3 DEF RequestClearance
    <3>2. c.state # "none" => replyOf'[c.requestId] = R /\ c.requestId \in 1 .. requestCount'
      BY <1>0, <1>1, <1>4, <1>7, <2>1 DEF RequestClearance
    <3>3. QED
      BY <1>1, <2>1, <3>1, <3>2 DEF Asked, Told
  <2>4. QED
    BY <2>2, <2>3
<1>8. ASSUME NEW r \in Requests, AttestorReads(r)
      PROVE  True(id)'
  <2>1. UNCHANGED <<clearanceOf, requestCount, proposals, now>>
    BY <1>8 DEF AttestorReads, world, book
  <2>2. CASE c.state # "none" /\ c.requestId = r
    <3>1. /\ replyOf'[r].state = "owed" /\ replyOf'[r].readAt = now /\ R.state = "sent"
          /\ replyOf'[r].accounts = R.accounts /\ replyOf'[r].epoch = R.epoch
      BY <1>8, <2>2, ReadingTaken
    <3>2. QED
      BY <1>0, <1>1, <1>2, <2>1, <2>2, <3>1 DEF Asked, Told
  <2>3. CASE c.state # "none" /\ c.requestId # r
    <3>1. replyOf'[c.requestId] = R
      BY <1>4, <1>8, <2>3, ReadingTaken
    <3>2. QED
      BY <1>1, <2>1, <2>3, <3>1 DEF Asked, Told
  <2>4. CASE c.state = "none"
    BY <1>1, <2>1, <2>4
  <2>5. QED
    BY <2>2, <2>3, <2>4
<1>9. ASSUME NEW r \in Requests, SendReply(r)
      PROVE  True(id)'
  <2>1. UNCHANGED <<clearanceOf, requestCount, proposals, now>>
    BY <1>9 DEF SendReply, world, book
  <2>2. CASE c.state # "none" /\ c.requestId = r
    <3>1. /\ replyOf'[r].state = "replied" /\ replyOf'[r].readAt = R.readAt /\ R.state = "owed"
          /\ replyOf'[r].accounts = R.accounts /\ replyOf'[r].epoch = R.epoch
      BY <1>0, <1>4, <1>9, <2>2 DEF SendReply, Replies
    <3>2. QED
      BY <1>0, <1>1, <1>2, <2>1, <2>2, <3>1 DEF Asked, Told
  <2>3. CASE c.state # "none" /\ c.requestId # r
    <3>1. replyOf'[c.requestId] = R
      BY <1>0, <1>4, <1>9, <2>3 DEF SendReply
    <3>2. QED
      BY <1>1, <2>1, <2>3, <3>1 DEF Asked, Told
  <2>4. CASE c.state = "none"
    BY <1>1, <2>1, <2>4
  <2>5. QED
    BY <2>2, <2>3, <2>4
<1>10. ASSUME NEW r \in Requests, OnAnswer(r)
       PROVE  True(id)'
  <2>1. UNCHANGED <<replyOf, requestCount, proposals, now>>
    BY <1>10 DEF OnAnswer, world, book
  <2> DEFINE j == proposalOfRequest[r]
  <2>2. j \in Ids /\ clearanceOf[j].requestId = r /\ replyOf[r].state = "replied"
    BY <1>0, <1>10 DEF OnAnswer
  <2>3. CASE id = j
    <3>1. clearanceOf'[id] = Answered(c, R)
      BY <1>0, <1>10, <2>2, <2>3 DEF OnAnswer
    <3>2. R \in Replies /\ R.flagged \in BOOLEAN /\ R.oracleUpdatedAt \in Nat /\ R.state = "replied"
      BY <1>0, <2>2, <2>3 DEF Replies
    <3>3. c.state # "none"
      BY <1>1, <2>2, <2>3 DEF Requests
    <3>4. /\ clearanceOf'[id].requestId = c.requestId /\ clearanceOf'[id].epoch = c.epoch
          /\ clearanceOf'[id].requestedAt = c.requestedAt
          /\ clearanceOf'[id].state \notin {"none", "requested"}
          /\ clearanceOf'[id].state = "cleared" =>
                /\ ~ R.flagged
                /\ clearanceOf'[id].oracleUpdatedAt <= R.oracleUpdatedAt
      BY <1>0, <1>1, <1>2, <3>1, <3>2, <3>3 DEF Answered, Clearances, Told
    <3>5. QED
      BY <1>1, <2>1, <3>2, <3>3, <3>4 DEF Asked, Told
  <2>4. CASE id # j
    <3>1. clearanceOf'[id] = c
      BY <1>0, <1>10, <2>2, <2>4 DEF OnAnswer
    <3>2. QED
      BY <1>1, <2>1, <3>1 DEF Asked, Told
  <2>5. QED
    BY <2>3, <2>4
<1>11. QED
  BY <1>6, <1>7, <1>8, <1>9, <1>10, ClearanceSteps

-----------------------------------------------------------------------------
(* What a step may do.                                                     *)

(* Executing is the only way a pending proposal becomes executed.          *)
LEMMA ExecuteSteps ==
    ASSUME TypeOK, [Next]_vars, NEW id \in Ids, Executes(id)
    PROVE  Execute(id)
<1> USE DEF vars
<1>0. /\ proposals \in [Ids -> Proposals] /\ proposals[id].status = "pending"
      /\ proposals'[id].status = "executed"
  BY DEF TypeOK, Executes, Pending
<1>1. CASE UNCHANGED book
  BY <1>0, <1>1 DEF book
<1>2. CASE Tick \/ \E S \in Flaggings : UpdateOracle(S)
  BY <1>1, <1>2 DEF Tick, UpdateOracle
<1>3. CASE ListNext
  BY <1>1, <1>3 DEF ListNext, ApplyUpdate, AuthorizePublicationRollback
<1>4. CASE OwnerNext
  BY <1>1, <1>4 DEF OwnerNext, RemoveProposer, AppointProposer, SetDelay, SetClearanceMaxAge,
                    SetOracleMaxAge, SetClearanceSource
<1>5. CASE AnswerNext
  BY <1>1, <1>5 DEF AnswerNext, AttestorReads, SendReply, OnAnswer
<1>6. ASSUME NEW j \in Ids, Reconfirm(j) \/ RequestClearance(j)
      PROVE  FALSE
  BY <1>0, <1>1, <1>6 DEF Reconfirm, RequestClearance, Proposals, book
<1>7. ASSUME NEW j \in Ids, Close(j, "cancelled")
      PROVE  FALSE
  BY <1>0, <1>7 DEF Close, Proposals
<1>8. ASSUME NEW j \in Ids, NEW k \in Proposers, NEW S \in SUBSET Accounts, Propose(j, k, S)
      PROVE  FALSE
  BY <1>0, <1>8 DEF Propose, Proposals
<1>9. ASSUME NEW j \in Ids, Execute(j)
      PROVE  j = id
  BY <1>0, <1>9 DEF Execute, Close
<1>10. CASE ProposalNext
  BY <1>1, <1>6, <1>7, <1>8, <1>9, <1>10
     DEF ProposalNext, Discard, CancelByVetoer, CancelByItsProposer, SetVetoed
<1>11. QED
  BY <1>1, <1>2, <1>3, <1>4, <1>5, <1>10 DEF Next, book

LEMMA EvidenceFound ==
    ASSUME Inv, NEW id \in Ids, Execute(id), ~ HasSecondary
    PROVE  \E r \in Requests : Evidence(id, r)
<1> DEFINE c == clearanceOf[id]
           R == replyOf[c.requestId]
<1>0. /\ c \in Clearances /\ now \in Nat /\ requestCount \in 0 .. MaxRequests /\ MaxRequests \in Nat
      /\ replyOf \in [Requests -> Replies] /\ proposals[id] \in Proposals
      /\ limits.clearanceMaxAge \in Nat /\ limits.oracleMaxAge \in Nat
  BY DelistingAssumption DEF Inv, TypeOK, Limits
<1>1. /\ c.state = "cleared" /\ c.epoch = source.epoch
      /\ now <= c.requestedAt + limits.clearanceMaxAge
      /\ c.oracleUpdatedAt # 0 /\ now <= c.oracleUpdatedAt + limits.oracleMaxAge
  BY DEF Execute, ClearedHere, ClearedByAnswer, Usable, Current, Fresh
<1>2. /\ c.requestId \in 1 .. requestCount /\ Asked(c, proposals[id], R) /\ Told(c, R)
  BY <1>1 DEF Inv, ClearancesTrue
<1>3. c.requestId \in Requests /\ R \in Replies
  BY <1>0, <1>2 DEF Requests
<1>4. /\ c.requestedAt \in Nat /\ c.oracleUpdatedAt \in Nat /\ R.readAt \in Nat
      /\ R.oracleUpdatedAt \in Nat /\ proposals[id].eta \in Nat
  BY <1>0, <1>3 DEF Clearances, Replies, Proposals
<1>5. R.to = source.attestor
  BY <1>1, <1>2, <1>3 DEF Inv, RepliesTrue, Asked
<1>6. Evidence(id, c.requestId)
  BY <1>0, <1>1, <1>2, <1>4, <1>5 DEF Evidence, Asked, Told
<1>7. QED
  BY <1>3, <1>6

LEMMA VoidStep ==
    ASSUME Inv, [Next]_vars, NEW id \in Ids, Pending(id), ~ HoldsAuthority(proposals[id])
    PROVE  proposals'[id].status # "executed" /\ ~ HoldsAuthority(proposals[id])'
<1> DEFINE k == proposals[id].proposer
           g == proposals[id].generation
<1>1. TypeOK
  BY DEF Inv
<1>2. /\ k \in Proposers /\ g \in Nat /\ authGeneration \in [Proposers -> Nat]
      /\ g < authGeneration[k]
  <2>1. /\ proposals[id] \in Proposals /\ proposals[id].status # "none"
        /\ authGeneration \in [Proposers -> Nat]
    BY <1>1 DEF TypeOK, Pending
  <2>2. k \in Proposers /\ g \in Nat
    BY <2>1 DEF Inv, LostIsOutgrown, Proposals
  <2>3. g <= authGeneration[k] /\ (k \notin isProposer => g < authGeneration[k])
    BY <2>1 DEF Inv, LostIsOutgrown
  <2>4. k \notin isProposer \/ g # authGeneration[k]
    BY DEF HoldsAuthority
  <2> HIDE DEF k, g
  <2>5. QED
    BY <2>1, <2>2, <2>3, <2>4
<1>3. proposals'[id].proposer = k /\ proposals'[id].generation = g
  <2>1. \A q \in Proposers : \A S \in SUBSET Accounts : ~ Propose(id, q, S)
    BY DEF Propose, Pending
  <2>2. QED
    BY <1>1, <2>1, ProposalKept
<1> HIDE DEF k, g
<1>4. authGeneration'[k] >= authGeneration[k] /\ authGeneration'[k] \in Nat
  <2>1. CASE UNCHANGED roles
    BY <1>2, <2>1 DEF roles
  <2>2. CASE \E q \in Proposers : RemoveProposer(q)
    BY <1>2, <2>2 DEF RemoveProposer
  <2>3. CASE \E q \in Proposers : AppointProposer(q)
    BY <1>2, <2>3 DEF AppointProposer
  <2>4. QED
    BY <2>1, <2>2, <2>3, RoleSteps
<1>5. ~ HoldsAuthority(proposals[id])'
  BY <1>2, <1>3, <1>4 DEF HoldsAuthority
<1>6. ~ Execute(id)
  BY DEF Execute
<1>7. QED
  BY <1>1, <1>5, <1>6, ExecuteSteps DEF Executes

-----------------------------------------------------------------------------
(* The theorems.                                                           *)

LEMMA InitInv == Init => Inv
<1> SUFFICES ASSUME Init PROVE Inv
  OBVIOUS
<1>1. TypeOK
  BY InitType
<1>2. ReservedIsNamed
  <2>1. \A id \in 1 .. MaxProposals : Named[id] = 0
    BY DEF Init, Named, Pending, Ids
  <2>2. Total(Named, MaxProposals) = 0
    BY <2>1, DelistingAssumption, TotalZero
  <2>3. 0 \notin Ids
    BY DEF Ids
  <2>4. QED
    BY <2>2, <2>3 DEF Init, ReservedIsNamed, Pending
<1>3. LostIsOutgrown /\ RepliesTrue /\ ClearancesTrue
  BY DEF Init, LostIsOutgrown, RepliesTrue, ClearancesTrue, Pending
<1>4. QED
  BY <1>1, <1>2, <1>3 DEF Inv

LEMMA InvKept == Inv /\ [Next]_vars => Inv'
BY TypeKept, SharesKept, LostKept, RepliesKept, ClearancesKept DEF Inv

THEOREM InvHolds == Spec => []Inv
BY InitInv, InvKept, PTL DEF Spec

(* Every reachable state is well typed: in particular the reserved count   *)
(* of the timelock never underflows.                                       *)
THEOREM TypeCorrect == Spec => []TypeOK
<1>1. Inv => TypeOK
  BY DEF Inv
<1>2. QED
  BY <1>1, InvHolds, PTL

(* The shares of the publication that pending proposals hold are counted   *)
(* exactly, through every way a proposal is made or closed.                *)
THEOREM SharesAreCounted == Spec => []ReservedIsNamed
<1>1. Inv => ReservedIsNamed
  BY DEF Inv
<1>2. QED
  BY <1>1, InvHolds, PTL

(* A proposal executes on a reading that was taken after its window, under *)
(* the current source, for exactly its accounts.                           *)
THEOREM ExecutionRestsOnEvidence == Spec => ExecutedOnEvidence
<1>1. Inv /\ [Next]_vars =>
        [\A id \in Ids : ~ HasSecondary /\ Executes(id) => \E r \in Requests : Evidence(id, r)]_vars
  BY ExecuteSteps, EvidenceFound DEF Inv
<1>2. QED
  BY <1>1, InvHolds, PTL DEF Spec, ExecutedOnEvidence

(* No appointment brings back a proposal whose proposer was removed.       *)
THEOREM VoidIsForGood == Spec => VoidStaysVoid
<1>1. Inv /\ [Next]_vars =>
        [\A id \in Ids : Pending(id) /\ ~ HoldsAuthority(proposals[id]) =>
            /\ proposals'[id].status # "executed"
            /\ ~ HoldsAuthority(proposals[id])']_vars
  BY VoidStep
<1>2. QED
  BY <1>1, InvHolds, PTL DEF Spec, VoidStaysVoid

=============================================================================
