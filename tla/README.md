# A verification of the Vaipakam lending protocol

Vaipakam is a peer-to-peer lending and NFT-rental protocol. Its core is a set
of Solidity facets behind one EIP-2535 Diamond (`contracts/src/`): users put
assets into personal vaults, post offers, and a pair of offers becomes a loan
whose collateral stays in the borrower's vault. Off-chain programs (keeper,
indexer, agent, front ends) call and read it. This directory holds TLA+ modules
that model the part of the contracts that keeps the books, on one chain and
between two, and that decides who may be paid, TLC runs that check them on small
instances, and TLAPS proofs.

## The system

| Component | State | Operations | What makes it correct |
|---|---|---|---|
| Encumbrance ledger (`LibEncumbrance`) | one aggregate `encumbered` per (owner, asset), and the rows it is the sum of: collateral lien per loan, principal lien per offer, three reservations per loan, seller interest that waits and an extension reserve per loan and user, intent capital | create, increment, decrement, release, re-key of the rows | the aggregate is the sum of the live rows, though no code ever recomputes it |
| User vaults and depository (`VaultFactoryFacet`, `VaultDepositoryFacet`, `LibDepositoryLedger`) | tracked balance per (owner, asset); depository record | deposit, guarded withdraw, credit, debit, spend | a vault holds what is owed out of it; the depository promises only free balance |
| Offer book (`Offer*Facet`) | offers, their fills, their liens | create, modify, cancel, accept, signed accept | an offer's lien is what its fills have left; an offer can always be cancelled |
| Matching (`LibOfferMatch*`, `OfferMatchFacet`) | both offers' fills, a new loan | match two offers, a signed order, an intent | fills fit the escrow; the loan is secured by exactly what was agreed |
| Extension reserve (`AutoLifecycleFacet`) | what a borrower has put aside for the extensions of a loan | fund, withdraw (modelled); an extension's draw (not) | it is withdrawn in full at any time |
| Lender intents (`LenderIntentFacet`, `OfferMatchIntentFacet`) | working capital per (owner, lending, collateral) | fund, withdraw, match, roll | un-lent capital can always be withdrawn |
| Loan lifecycle (`LibLifecycle`, `RepayFacet`, `DefaultedFacet`, `RiskFacet`) | status, principal, collateral, claims | repay, default, liquidate, cure | one terminal per loan; the two sides' claims are covered |
| Fallback custody and claims (`FallbackCustodyFacet`, `ClaimFacet`) | custody row, snapshot of three slices, top-up, claims | enter, retry, match, cure, dispose, claim | the slices are the custody; each side is paid once; a top-up is not stranded |
| Positions (`VaipakamNFTFacet`, `LibConsolidation`, `ConsolidationFacet`) | who holds the two tokens of a loan, the parties the loan stores, where its money sits | transfer, consolidate, burn | rows and reservations follow the party before the party changes; what a token keeps on the way is taken off the rows too |
| Sanctions gates (`LibSanctionedLock`, `LibCloseoutFreeze`) | registry of confirmed wallets, marker of a frozen claimant per side of a loan | screen a caller (fails open) or a payment (falls back on the registry), park, hold, release | a wallet known to be barred is paid nothing while the list is out of reach; what was parked is not lost |
| Sanctions list and delisting (`compliance/`) | the list and its publication, proposals, clearance requests, the attestor's replies | publish, propose, veto, request, attest, reply, execute | a delisting rests on a current reading of the oracle taken after its window; a publication's shares are used once |
| Recycle ledger (`LibVpfiRecycle`, `LibMeshFunding`, `RewardReporterFacet`, `RewardAggregatorFacet`) | a mirror chain's bucket, and a Base chain's copy of its counters | absorb, commit, pay, release, report, stamp a day | the copy never runs ahead; what a Base may still ask for is in the bucket |
| Repatriation (`RepatriationFacet`, `VpfiReturnSender`) | orders of a Base on one chain, instructions on the other | authorize, instruct, cancel, execute, acknowledge, return, rebind | an order has one outcome on both chains and is charged until it has none |
| Rewards, loan sale and refinance, VPFI discount, NFT listings, oracles, adapters, governance, off-chain | see PROJECT.json | | not modelled; the reason is with each component |

A call is a transaction: it runs alone and leaves no trace when it reverts.
What interleaves is whole calls, by any user in any order, so the difficulty is
not in a data race but in long legal sequences: an offer that is filled,
modified, filled again and cancelled; a match during which the same collateral
sits under two liens; a record in one library that must follow a change made by
another. Between chains it is the usual one: a message is late, lost, repeated
or overtaken, and each side acts on what it last heard. The hazards are listed
in PROJECT.json, each at its line.

## Modules

| Module | Models | Extends |
|---|---|---|
| `LedgerSums` | totals over loan and offer ids, saturating subtraction | `Integers` |
| `Encumbrance` | `LibEncumbrance.sol` | `LedgerSums` |
| `Vault` | ERC-20 vaults, the withdraw guard, the depository record | `Encumbrance` |
| `OfferBook` | offers, accepts, signed orders, matching, intents, the extension reserve | `Vault` |
| `MCOfferBook` | the instances of `OfferBook` | `OfferBook` |
| `FallbackLoan` | one ERC-20 loan from its opening to its settlement: repayment, default, liquidation, forced sale, fallback custody, internal match, claims, backstop | `Vault` |
| `LoanSettlement` | what a loan promises its two sides about its end | `Integers` |
| `MCFallbackLoan` | the instances of `FallbackLoan` | `FallbackLoan` |
| `SanctionsLock` | the screens, the registry and the markers of `LibSanctionedLock.sol`, as values | none |
| `LoanPositions` | one open ERC-20 loan whose positions change hands: transfer, consolidation, servicing, repayment, claims, under a list | `Vault`, an instance of `SanctionsLock` |
| `MCLoanPositions` | the instance of `LoanPositions` | `LoanPositions` |
| `Repatriation` | a mirror's recycle ledger, the Bases' copies of it, orders and the messages between them | `LedgerSums` |
| `RepatriationOrders` | what an order promises, without messages | `Integers` |
| `MCRepatriation` | the instances of `Repatriation` | `Repatriation` |
| `SanctionsList` | one chain's list and its publication, as values | `Integers` |
| `SanctionsDelisting` | the delisting timelock, the list, the attestor on the oracle's chain | `SanctionsList`, `LedgerSums` |
| `MCSanctionsDelisting` | the instances of `SanctionsDelisting` | `SanctionsDelisting` |
| `LedgerSumsProofs`, `VaultProofs` (with the proofs of `Encumbrance`), `OfferBookProofs`, `FallbackLoanProofs`, `FallbackLoanRunsProofs`, `RepatriationProofs`, `SanctionsDelistingProofs`, `LoanPositionsProofs` | the proofs | the module of the name, `TLAPS` |

**A ledger is a value.** `Encumbrance` has no variables: a ledger `L` is a
record of the aggregate and its rows, and a function of the library is an
operator from a ledger to the ledger it leaves. A handler such as `acceptOffer`
is a composition of such operators in the order the code calls them, and one
action commits the result. `L.ok` stands for "has not reverted": `Require(L, p)`
turns it off, nothing turns it on again, and `Commit` lets only an ok ledger
become the state, which is the transaction's atomicity. The order of the calls
matters and is the code's: `VaultWithdrawERC20` is refused when the aggregate
has not been lowered yet.

The rows of the aggregate are `loanCollateralLien`, `offerPrincipalLien`,
`reserved` (the lanes `lenderProceeds`, `heldForLender`, `borrowerProceeds`),
`setAside` (`Asides`: `sellerInterestHeld` and `extendReserve`) and
`intentCapital`; `Owed` is their sum, and every function of the library that
moves one of them has an operator. Not all of these operators have a caller
among the modelled handlers: `EncumberSellerInterest`, `ReleaseSellerInterest`,
`ReduceLenderProceeds` and `ReleaseActiveHeldPart` are called by
`SellerClaimFacet`, `RekeyCollateralLienOnRefinance` by `RefinanceFacet`. Of
these only `VaultProofs` speaks: no run reaches them.
`notifyTierExclusion`, which touches no row, is left out. `FreeBalance` is the
tracked balance less the aggregate. The code takes off two more amounts, the
earmark of a protected account's queued payouts and what is parked for the payoff
of a refinance; neither the queue nor a refinance is modelled, so that both
would be zero.

**Vaults.** `Vault` adds the balance the protocol tracks, the depository record
and the users' wallets. `VaultWithdrawERC20` carries the guard of
`_assertWithdrawAllowed`; `Spend` saturates as the library's `spend` does.

**The offer book.** `CreateOffer`, `ModifyOffer`, `CancelOffer`, `AcceptOffer`,
`AcceptSignedOffer`, `MatchOffers`, `MatchSignedOffer`, `FundLenderIntent`,
`WithdrawLenderIntentCapital`, `MatchIntent`, `FundExtendReserve`,
`WithdrawExtendReserve`, `Deposit` and `Withdraw` are the
external functions of those names. `AcceptedVaults` and `MatchedVaults` are the
money movements of `_acceptOffer` and `executeMatch`, step by step.

Left out of the offer book, because it only refuses a call or moves money the
book has already let go of: risk, KYC, sanctions and pause gates; expiry and
cooldowns; interest rates and fill modes in a match; the initiation fee; an
order's nonce and cumulative fill; an intent's exposure limits; protected
accounts' payout queue; the extensions that draw on a reserve; NFT lending and collateral; offers that are vehicles of
a sale, an offset or a refinance. Tokens sent to a vault behind the protocol's
back are not counted by it either, so a vault's real balance is at least
`tracked`.

**One loan to its end.** `FallbackLoan` starts where the offer book stops, with
a loan over collateral in its borrower's vault. Its variables are the vaults and
the loan: the status, the figures of the `Loan` struct that move, and the tables
keyed by its id (`fallbackVaultCustody`, `fallbackSnapshot`, the two claims, the
borrower's surplus, `heldForLender`, the opt-in). The actions are the external
functions `TriggerDefault`, `TriggerLiquidation`,
`TriggerInternalMatchLiquidation`, `SettlePeriodicInterest`, `RepayLoan`,
`AddCollateral`, `ClaimAsLender`, `ClaimAsBorrower`, `SetLenderBackstopOptIn`,
`ClaimAsLenderViaBackstop`, and the two ways a party takes free balance out of
the own vault, `Withdraw` and `WithdrawVPFI`.

What such a call does depends on prices, on a venue and on what a token delivers
of what is sent. None of these is modelled; each is a choice. A handler is
therefore an operator from a state S (vaults `S.v`, loan `S.n`) to the *set* of
states it may leave, and the code's nesting is kept as composition: `TriggerDefault`
is a match, or an unsold entry to the fallback, or `Sale`, or a move in kind;
`Sale` opens, sells, and settles or gathers for `EnterFallback`; a claim first
resolves the fallback (`FallbackResolved`: match, retry, disposal), then pays.
A state whose ledger is not `ok` is a call that reverts and leaves no trace.

The abstractions, and what they leave out:

* The code's choices by price are free, which allows more than the code does:
  how much collateral is sold, what it yields, how the fallback's split falls
  (only that the lender's slice is rounded up), whether a loan is liquidatable,
  whether a top-up cures, whether a match exists and how large it is.
* `Withheld` is what a token may keep of a transfer. The measured arrivals of
  `LibDelivery` then become visible: everything booked is what arrived.
* The Diamond holds tokens only inside a call, and an invariant says so. The
  other loan of a match, treasury, keepers, venues and wallets are `Outside`.
* One loan: rows of two loans do not share a table entry, and `Vault`'s guard
  protects each row from the owner's own withdrawals, of which there are some.
* Proceeds in other assets than VPFI are not reserved by the code. They are safe
  in these runs because `Withdraw` is bounded by the depository record, as
  `withdrawFromVault` is; the module shows no more than that.
* Left out: preclose, refinance, swap to repay, prepay sale, partial and
  discounted liquidation; sellers' interest claims; rentals and NFTs; time.
  Partial repayment, position transfer and the sanctions list are the subject of
  `LoanPositions`; here the parties do not change, and one that may be flagged is
  a free choice between paying and parking, where the code chooses so.

`LoanSettlement` is the abstract specification. It knows a phase, which sides
have nothing left to come for, and what each side will be paid of each asset:
the loan runs, may be suspended and resumed, closes once; from then on what is
owed is fixed until it is collected, in any order; it is settled with the last
collection. `Settlement` in `FallbackLoan` is the instance under the refinement
mapping `Phase`, `Collected`, `ToPay`, in which a withdrawal, a match, a top-up
or a periodic settlement is a stuttering step and a lender's claim on a pending
loan closes and collects at once.

**Positions that move.** `LoanPositions` takes the same loan and lets its two
tokens be sold at any moment. The loan stores a lender and a borrower
(`lender[1]`, `borrower[1]` of the ledger), the tokens have holders
(`loan.holder`), and until a call consolidates a side its money stays in the
vault of the stored party. `Relocated` is the order of `consolidateToHolder`:
re-key the rows, move the tokens vault to vault, shrink the loan's figures and
reservations to what arrived, change the party last. `TransferFrom`,
`ConsolidateToHolder`, `AddCollateral`, `PartialWithdrawCollateral`,
`RepayPartial`, `SettlePeriodicInterest`, `RepayLoan`, the two claims, the two
withdrawals and `RefreshSanctionsFlag` are the external functions; each begins
with the consolidation that the function begins with. `SetListed` and
`SetReachable` are the list's, at any moment.

`SanctionsLock` is the part of the state the list's answers leave behind. The
code screens a caller by `IsSanctioned`, which an unreachable list never
satisfies, and a payment by `MustFreeze`, which then falls back on the registry;
`RecordFrozenClaimant` is the table of cases in which a marker is set, kept,
superseded or cleared, and `MayRelease` the gate of a claim. A payment to a
frozen lender is `Parked` in the stored lender's vault, one to a frozen borrower
is held by `HoldBorrowerExtra`.

Left out of `LoanPositions`: the ends of a loan other than repayment, and
consolidation's exclusion of a loan with a fallback, a prepay listing or an
intent; rentals and NFT collateral; past sellers' interest claims and the
discount on the yield fee; rewards and the tier of a VPFI holder; bans inherited
from a recovered wallet; a protocol without a list. A wallet is credited with
what was sent to it, and only with what the last call paid: no call reads what a
party has, which is why the `VIEW` of the run may ignore it. One behaviour worth
knowing is documented in the code and is not a finding: a marker stays with the
claimant it was set for until that one is proven clean, so the claim of a later,
clean holder waits while the list is out of reach.

**Repatriation.** In `Repatriation` a mirror chain absorbs VPFI into a bucket,
pays claims out of it and can be told to send its surplus to the Base it is bound
to. `MirrorNext` has the mirror's calls and deliveries, `BaseNext` those of the
Bases. `mirror` is the recycle ledger, `base[b]` the copy of its lifetime
counters that Base b computes availability from, `auth` and `instr` the two
records of an order, `stamp` what a Base has committed of a day. `msgs` has the
messages on their way. What anybody may send again (an instruction, a cancel, an
acknowledgement, a broadcast) stays there and may arrive any number of times; a
report and a return are sent once and leave when a delivery succeeds. A delivery
that reverts stays, as a failed CCIP message does. Loss is a message that is
never delivered; a pause, an unarmed transport and a lane without capacity are
steps not taken. `SetBaseChainId` may rebind the mirror to another Base whenever
the code lets it. What binds an order is not what binds a broadcast: a report
goes to the Base the mirror is bound to, whereas a broadcast is taken by the
chain's role (`RewardRole`, a bound or a detached mirror) from the deployment
configured for it, `era`, which `SetBaseRewardDeployment` exchanges while the
mirror is detached. So a mirror that has left its Base still commits the days of
that Base that arrive. `Dust` is what claims paid above their commitments, the one
thing that eats into a bucket without a Base's doing.

Left out of it: the other three returns of VPFI through `RepatriationFacet`, of
stranded remittances, of a retired surplus and of untyped remainders, each with a
ledger of its own; relocated custody and remittances on the mirror, staging
reservations, a Base's own bucket, one Base with several mirrors, and how a
day's figures are computed. Unsetting the configured deployment only stops the
broadcasts until it is set again, which is deliveries not made; the deployment
and the clocks recorded with a day can refuse a second delivery of it, which
changes nothing here either way.

`RepatriationOrders` is its abstract specification: an order is issued, decided
once (paid or void), and heard of by its Base as it was decided; it is charged
from the issue until it is heard to be void. The refinement mapping takes the
decision from the mirror's record and what was heard from the Base's.

**Delisting.** In `SanctionsDelisting` a bot proposes to delist what the recorded
publication calls for, the Safe has a window to veto, and anybody may execute
after it if a current oracle does not flag the accounts. Where the oracle is on
another chain (`HasSecondary` is false) the reading comes from the attestor: a
request travels once and is answered from one reading, so one record,
`replyOf[r]`, follows request r there and back; its `readAt` and `epoch` are
history that no message carries, for the property to speak of. A reply may
arrive any number of times and long after the request was renewed. The two
chains' clocks are one `now`; the oracle's own may run `Ahead`. `list` is the
value of `SanctionsList`; an update names the version it was made from, so it is
made from the list as it is or refused.

Left out of it: the list's role appointments, its adder's daily cap, dates in
the future, fees and their refunds, malformed messages.

## Runs

| Run | Instance | Shows |
|---|---|---|
| `OfferBook_vault` | two users, two assets, 3 offers, 2 loans, 1 intent, amounts to 2, endowment 3 | all the ways to escrow and to lend, interleaved with the depository and the reserve of a loan |
| `OfferBook_fills` | two users, 4 offers, 3 loans, no intent or deposit, terms with and without ranges, endowment 4 | several fills of one offer, with changes between them |
| `OfferBook_depository` | as `OfferBook_vault` | the finding below |
| `FallbackLoan_vpfi` | VPFI lent against weth, a deposit of VPFI in both vaults | reservations protect claims from withdrawals; the ledger stays balanced on every close-out |
| `FallbackLoan_collateral` | dai lent against VPFI, deposits of both, backstop on | the pledge stays under the lien to the unit; nothing stranded; no claim or liquidation can be made to revert |
| `FallbackLoan_short` | weth may keep 1 of each transfer, backstop on | slices, custody and claims follow what arrived; a top-up is never taken; the lender's share never shrinks |
| `FallbackLoan_settles` | no deposits, nothing withheld, fair claims, backstop on | `FallbackLoan` implements `LoanSettlement`; a closed loan is settled |
| `LoanPositions` | two parties, weth may keep 1 of each transfer, VPFI lent against weth and weth against VPFI, one party may be listed | holdings and rows follow the positions; all that is owed and nothing else is reserved; a barred wallet is paid nothing |
| `Repatriation_ledger` | one Base the mirror may leave and rejoin, 3 days of which 1 funded, 2 orders, 2 absorbed, 1 of dust | what the Base may still ask for is there; its copy lags; the charge is the open and paid orders |
| `Repatriation_rebind` | two Bases, 2 days, 1 order each of up to 2, 3 absorbed, a return may lose 1 | one outcome; nothing lost on the way; `Repatriation` implements `RepatriationOrders`; a cancelled order is resolved and every decision heard |
| `Sanctions_clearance` | one account, no oracle on this chain, 2 requests, 2 changes of source, time to 3 | a proposal executes only on a reading that is current and late enough |
| `Sanctions_proposals` | two accounts, two publications, two proposals, one removal of a proposer, the oracle on this chain | shares are counted; what is void stays void |

**Bounds of the offer book.** The bounds are `MaxOffers` and `MaxLoans` (ids are never reused, so they also
bound the length of a run), `MaxAmount` (a single deposit, withdrawal or slice)
and `Endowment` (all the tokens there are). Three loans let one offer be filled
twice and still leave a counterparty; three units of a token split unevenly, so
the midpoint and the pro-rata division both round; `MCTerms` has a single-value
offer, one that fills in parts and one with a range on both sides.
`CHECK_DEADLOCK` is off because the ids run out: a book whose ids are used up
may have nothing left to do, and the code promises no further step. For the
same reason no liveness is stated for these modules: every call is somebody's
choice.

**Bounds of the loan.** Two units lent and two pledged, up to three with a
top-up; a sale yields 0 to 3, so it may fail the lender, cover the debt or leave
the borrower an extra; interest, bonus, fee and treasury share are 0 or 1; one
unit of each transfer may be withheld. Two units of custody are the least that a
partial match can cut down with rounding, three slices over two units leave
slices of zero, and a retry that loses one unit each way empties a custody of
two. `MaxHeld` stops periodic settlements of a loan once something is held or
parked, which still leaves one before any terminal. `Supply` is never exhausted
within these bounds. `CHECK_DEADLOCK` is off because a settled loan has no
further step.

**Bounds of the positions.** `Lent` and `Pledged` are 2, so that a unit may be
withheld of a move and the next move finds less; `MaxPledged` stops top-ups at 2
and `MaxHeld` payments once something is parked, which leaves a share parked and
a claim of both. One party has a deposit of its own beside the loan's money.
`Listable` is one party: a marker superseded by a second barred party does not
happen in this run. The list stops changing when the loan is settled, which
ends what it could decide. `Supply` is never exhausted.

**Bounds of repatriation.** `MaxAuths` and `MaxDays` are ids, `MaxAbsorbed`,
`MaxDust`, `MaxFunded` and `MaxShort` bound what enters, overpays, is committed
and is lost. Two orders and three days let a report be older than an order it
does not know of, arrive last, or never; `OfferedIsThere` is about a mirror that
serves one Base, since two Bases may each believe the same bucket theirs until
the execution measures it again (`TypeOK` of the other run has what that
protects: the bucket never goes below zero).

**Bounds of delisting.** A tick is about a day: the least window is a day, and
the least age of a request, an hour, is less than a tick, hence 0. Time 3 lets a
window end, a request expire and its renewal expire or be answered. `MaxEpochs`
bounds the changes of the source (there and back), `MaxRemovals` those of a
proposer's authority, `MaxRequests`, `MaxProposals` the ids; `MaxAdditions` and
`MaxDelistings` what a publication may declare outstanding, `Flaggings` what the
oracle may come to flag. No run declares additions outstanding: the guard on
them is covered by the proofs only.

**Fairness.** Nobody is obliged to liquidate, repay or match, so no action of
that kind is fair. `LenderComes` and `BorrowerComes` say that a party who may
claim without end does claim: the protocol assumes no more than that the parties
want their money, and nobody else is needed. They are weak fairness of
`ClaimAsLender` and `ClaimAsBorrower` with the guard written out in place of
ENABLED, which TLC evaluates far more slowly; `NothingReverts`, proved and checked by the
other runs, is what makes the guard sufficient. `ClosedIsSettled` would fail if
a close-out could leave a side whose claim cannot run but keeps the loan open.

`Repatriation` has weak fairness of the delivery of a cancel, an acknowledgement
and a return, and of sending the acknowledgement: CCIP leaves a message that
failed executable by anybody, and `sendRepatriationCancelAck` may be called by
anybody. Nobody is obliged to send, deliver or execute an instruction, to ask
for a cancel, or to report.

**Finding** (`OfferBook_depository`). `LibDepositoryLedger`'s header says that
its record is debited by a withdraw and by "the owner spending free vault
balance through another route", and that a purpose-bound balance never enters
it. `matchIntent` unliens exactly the fill's principal from the intent's
purpose-bound capital and materializes the fill through
`createSignedOfferVault`, which calls `spend`: the lender's record falls although
the lender's free balance does not. TLC's trace is deposit, borrower offer, fund
the intent, match.

## Proofs

All proofs are for arbitrary users, assets, terms, endowments and numbers of
offers, loans and intents; the assumptions of the offer book's are
`EncumbranceAssumption` and `OfferBookAssumption`.

* `LedgerSumsProofs`: a total changes by exactly the change of one entry.
* `VaultProofs`: each operation of the encumbrance library, those no
  handler calls included, keeps a balanced ledger balanced and a typed ledger
  typed; only the re-keying of a party's rows to a new holder is in
  `LoanPositionsProofs`, for its one loan. The lemma behind all of them is that
  raising or lowering the aggregate of a key by x, together with changing one
  row's term for that key by x, keeps `Balanced`; each operation is shown to be
  of that form, with the revert (`ok`) supplying the bound where it subtracts.
  The vault operations keep the type and leave the ledger's rows alone; and what
  each does to the money: it adds to a vault no less than it adds to what is
  promised out of it.
* `OfferBookProofs`: `BookInvariant` is the inductive invariant `Inv`, the
  conjunction of the type, `LedgerBalanced`, `LienIsRemainder`,
  `FillsWithinEscrow` and `LoanSecured`, with the ids that are not used yet being
  without lien. None of the parts is inductive alone: that a fill leaves the
  lien equal to the remainder needs the fill to fit the escrow, which in turn is
  enforced only by the revert of the lien's decrement, hence needs the lien to
  be the remainder. `TypeCorrect`, `LedgerStaysBalanced`, `LienStaysRemainder`,
  `FillsStayWithinEscrow` and `LoansStaySecured` follow. The money is argued
  apart from the rows: the slack of a vault is what it holds beyond what is
  reserved of it, and beyond what the depository promises as well; a handler is
  level when it lowers no slack. It moves an escrow in several calls, between
  which a vault may be short, and only the whole handler is level. The one that
  is not is the escrow of a signed order or an intent's fill, which reserves what
  was free: there the check of the free balance is what keeps the vault afloat.
  That an extension reserve can be withdrawn needs two facts more: who funds one
  is the borrower of an opened loan and puts its lent asset aside (`Opened`), and
  a row is never more than the aggregate it is part of (`RowsWithinAggregate`).
  `VaultsStaySolvent`,
  `DepositoryStaysPromised` and `EscrowStaysReturnable` follow.

* `FallbackLoanProofs`: the inductive invariant says of a state `S` that it is
  `Valid`: the vaults `Stand` (the ledger is balanced, its rows are this loan's
  and no other's, and each holder's money is what the rows reserve of it plus
  what is free), the loan is `Coherent` (its statuses, slices, claims, lien and
  lanes fit one another) and its `Reserves` are exactly what it will pay.
  `VaultsHoldWhatIsOwed`, `CustodyIsSnapshot`, `PledgeUnderLien` and
  `LedgerBalanced` are read off it. `Reserves` is what makes it inductive:
  `WithdrawVPFI` takes from a vault whatever VPFI is not reserved, so only a loan
  whose reservations are what it owes finds the money there when it closes. Each
  handler is an operator from a state to the states it may leave, composed of
  parts as the code composes them, and has one lemma per part: what it needs of
  the state before it and what it gives the part after it (for instance a sale
  is split, then booked, then its surplus recorded, then the lien released). The
  action properties `TopUpKept` and `LenderShareKept` use the same
  lemmas with two facts more: a resolution of a pending fallback takes no more
  from under the lien than is in custody (`TopUpIsSpare`), and a match or a failed
  retry scales the slices so that the lender's fraction does not fall
  (`SharesKept`, integer division included). `LoanSettlesOnce` is the refinement
  of `LoanSettlement`. It follows the handlers once more, by what they do to the
  loan's record alone: a part of a call `GoesOn` with the loan (status and the
  lender's claim are left as they are), or leaves its lender awaited (`Fresh`), or
  paid (`Paid`). An open loan that stays open is a suspension, a resumption or a
  stutter; one that is then `Fresh`, or `Paid` out of a pending fallback, closes;
  a claim on a closed loan collects its side, for what the other side is owed
  depends only on records the claim leaves alone and on the lien, which a
  lender's claim and a withdrawal do not touch.

* `FallbackLoanRunsProofs`: `LoanNeverReverts` says that no claim and no
  liquidation of an active loan is refused by the vaults or the ledger. A call
  moves tokens between the vaults, the Diamond and `Outside`, so what there is
  of an asset in these places beyond what the depository promises (`Pot`) is the
  same before and after (`SamePot`), and what is not in a vault must be outside.
  Each part of a handler has a lemma (`...Runs`) that it goes through if what it
  pays with is free or in the pot, and that it leaves the pot and asks for no
  more than it did (`Goes`, `Milder`). So a call runs to its end on a loan that
  is `Backed`: the pot covers what the loan owes, holds and parks, with one sale
  on top, and what is pledged. `Backed` alone is not inductive: a periodic
  settlement sells pledge and adds what the sale fetched to what is held. The
  inductive invariant `Never` adds to `Inv` that the loan is `Rich`: while
  it is open the pot is no less than `Supply`, and what it owes, holds and parks
  is no more than `Lent + MaxHeld + MaxProceeds`. What a closed loan still pays
  is in its vaults already, by `Inv`. Its hypothesis, `Supply >= Lent +
  MaxHeld + 2 * MaxProceeds`, is about the market and not about the code: the
  venue a sale swaps with pays out of what `Outside` has. The runs' `Supply` of
  12 satisfies it.

* `RepatriationProofs`: the inductive invariant `Inv` is `TypeOK`, `OneOutcome`,
  `BooksLag` and `DrawIsCharged` with six parts that make them inductive.
  `MessagesTrue` says of each message under way what is true, and stays true, of
  the records it was made from (a report's counters are at most the mirror's, a
  return is of an executed order); `RecordsTrue` ties the two records of an
  order, `StampsTrue` the stamps to the days applied; `Covered` is that a Base
  never commits and charges more than was reported to it. From `BucketBacked`
  (what was credited is in the bucket, paid or sent) and `LedgersMeet` (what the
  one Base has committed is what the mirror has, and what is on its way)
  `OfferedIsThere` follows. `OrdersImplemented` is the refinement: the initial
  state maps to one, and under `Inv` every action maps to a step of
  `RepatriationOrders` or a stutter.
  `NothingGetsLost` adds `Transit` to `Inv`: the messages are finitely many and an
  order that waits has no shortfall. It needs sums over arbitrary finite sets
  (the Bases, the orders, the returns in flight). The library's sum takes the
  elements in an order of its own; `PartSumsExist` shows that its recursion has a
  solution, `PartSumsRemove` that any element may be taken first, and
  `PartSumsAgree` that only the terms matter, each by `PartsInduction`, an
  induction over the parts of a set that is stated with a set instead of a
  predicate so that the provers can apply it. Then only two steps change a term:
  an execution, whose return was not in flight before (`ReturnsAreExecuted`), and
  a return that is booked, which splits it into what arrived and the shortfall.
* `SanctionsDelistingProofs`: `Inv` is `TypeOK`, `ReservedIsNamed`,
  `LostIsOutgrown` (the generation of a pending proposal is behind its
  proposer's once the role is lost), `RepliesTrue` (a reply names a source of its
  epoch) and `ClearancesTrue` (what is recorded of a request was asked for this
  proposal after its window, and a clearance was told by its answer).
  `ExecutionRestsOnEvidence` and `VoidIsForGood` are proved of each step from it.

* `LoanPositionsProofs`: `Inv` says that the state is `Good`: an open loan, whose
  books are right (`Book`: each row of the ledger is on the stored party's vault
  and for the loan's amount, each aggregate is the sum of the rows, each vault
  holds the deposits and the rows), or a closed one with the same of what is not
  claimed yet (`Accounts`). The parts of a call are chained as the code chains
  them: `Leads(S, T)` says that a part takes an open state to an open one, keeps
  the terms, and pays no barred wallet (`Frame`); it is proved of a
  consolidation of either side, of the payment or the parking for the lender,
  of the payment or the holding of the borrower's extra, and of a change of the
  pledge, and composed (`LeadsTwice`). `NextLands` collects the calls: each
  `Lands` in a good state in which no barred wallet has more than it had
  deposited (`Quiet`). `VaultsFollowPositions` and `ReservedIsOwed` are `Inv`
  read off party by party (`OwedOfAccounts`), `NothingNewWhileBarred` is
  `Quiet`. Why `Inv` is needed: that a call may move a vault's tokens after
  re-keying its rows depends on the rows being exactly what the aggregate holds,
  and that the former holder's withdrawal finds nothing of the loan's free is
  the aggregate being no less. A barred claimant is refused because a claim
  records both holders first, and a side is released only for a holder proven
  clean (`ClaimantClean`).

The assumptions are `FallbackLoanAssumption`, `LoanPositionsAssumption`,
`RepatriationAssumption`, `ListAssumption` and `DelistingAssumption`: natural
amounts and bounds, finite sets, and for the two loans' modules one loan, two
different assets and a party `Outside` that holds no position. VPFI may be the
principal, the collateral or neither. Each token may keep any amount of a
transfer, up to a bound of its own. `LoanNeverReverts` alone assumes one thing more,
that the market is deep enough (above).

Only model-checked:

* Liveness (`ClosedIsSettled`, `CancelResolves`, `DecisionsAreHeard`): the prover
  does not reason about fairness or ENABLED. `LoanNeverReverts` is the part of
  `ClosedIsSettled` that is safety: whoever may claim can.
* `DepositoryFallsWithFree`, which the code violates.

## Not modelled

PROJECT.json gives the reason for each component. In short: loan sale, preclose,
refinance and the roll of an intent move the same rows between two loans and
would be the next module; rental and NFT lending, Seaport listings and
swap-to-repay intents settle in code outside the repository; interest, reward
and discount formulas are arithmetic of time and price, which the models leave
free; governance and proxies are standard; keepers, indexer, agent and front
ends call and read the contracts, and no property here rests on them. The Go
files of the repository are vendored wrappers of Chainlink's contracts, generated
from their interfaces and called by nothing in it: they hold no state or control
of this system, so no definition maps to them.
