# NoblePay: a verification project

NoblePay moves regulated stablecoin payments between registered businesses. It is
a set of Solidity contracts (`src/contracts/src`), a TypeScript backend that
mirrors them in PostgreSQL and takes decisions of its own (`src/backend/src`), a
Next.js frontend whose wallet sends the transactions (`src/src`), scripts that
deploy and configure all of it (`src/scripts`), a Rust screening engine
(`src/crates`) and an optional Go gateway (`src/services/gateway`). This directory
holds TLA+ models of their protocols, the TLC instances that check them, and
theorems proved with TLAPS. Paths below are relative to `src/`; `PROJECT.json` maps
every definition to its lines.

1. [Inventory](#1-inventory)
2. [How the models are written](#2-how-the-models-are-written)
3. [The modules](#3-the-modules)
4. [The runs](#4-the-runs)
5. [Fairness](#5-fairness)
6. [The proofs](#6-the-proofs)
7. [Where code and documentation disagree](#7-where-code-and-documentation-disagree)
8. [Seen while modelling](#8-seen-while-modelling)
9. [Not modelled](#9-not-modelled)
10. [Plan](#10-plan)

## 1. Inventory

### Contracts of the supported release

**PaymentChannels** (`contracts/src/PaymentChannels.sol`). Two businesses lock
tokens in a channel and divide them later.
State: `channels` (status, deposits, balances, reserved for HTLCs, nonce, state
epoch), `disputes` (the pending claim), `htlcs`, the token vault, pause, fee,
treasury.
Operations: open (alone or in a batch), fund, cancel, cooperative close,
unilateral close, close from the contract's own balances, counter-dispute,
finalize, HTLC create, claim and refund, pause, fee and treasury.
Hard: signatures exist outside the contract and may be submitted at any later
time, when deposits and HTLCs have changed; the challenge window; exits that
must stay open under pause, lost KYC or an issuer that blocks an address; one
vault shared by all channels.
Correct when escrow is conserved per channel and in the vault, a close or claim
has the consent of the party it moves money from, the newest state wins, and a
party that wants to leave can.

**NoblePay** (`contracts/src/NoblePay.sol`). Takes a payment into escrow, waits
for a screening, and settles or refunds it.
State: `payments`, screening results, fees fixed at initiation, daily and monthly
volumes, recovery requests, trust configuration, pause.
Operations: initiate (alone or batched), submit a screening, settle, refund,
cancel, request and execute a recovery, administration.
It reads **BusinessRegistry** (is the sender active, its tier) and
**SealSettlementGate** (is the corridor cleared) at each step, and ERC-20 tokens
whose issuers may refuse an address.
Hard: permissions are read live and change between initiation and settlement;
volume windows over days and months; exits that exclude each other and yet must
leave none without an exit; recovery after a delay and within a window.
Correct when the vault always covers what is owed, the limits hold over every
day and month, money leaves only as screening and live permissions allow, and
nothing stays in escrow for ever.

**BusinessRegistry** (`contracts/src/BusinessRegistry.sol`). KYC state, tier,
license and officer per business; cached counters; license index.
Operations: register, verify, suspend, reinstate, revoke, upgrade, change
officer, pause; a verification lapses by the passage of time alone.
Correct when the counters and the license index are exact and revocation is
final.

**SealSettlementGate** (`contracts/src/SealSettlementGate.sol`). Opens the
corridor (payer, payee) against a seal of the Aethelred chain, whose status
consensus changes on its own.
Operations: clear, revoke, change policy, pause.
Correct when a seal backs one corridor and a corridor that was closed stays
closed.

**MultiSigTreasury** (`contracts/src/MultiSigTreasury.sol`). Proposals voted by
signers, thresholds by tier, time locks, delegations, standing orders (a mandate
is authorised first, then created, then executed), budgets with windows, yield
allocations, pause.
Hard: the signer set changes while votes are open; a delegate and its delegator
are two addresses with one vote; a budget is read when a proposal is made, when
it executes and each time a mandate executes; four windows that reset lazily.
Correct when each vote is one signer's, thresholds stay reachable, every token
that leaves is explained and every window holds.

**Roadmap contracts** (StreamingPayments, FXHedgingVault, CrossChainRouter,
LiquidityPool, AIComplianceModule). Each keeps positions with a life cycle that
the backend records from receipts; they are modelled as far as that record needs.

### Backend: records of what the chain did

Each of these services (`backend/src/services/*.ts`) has the same shape. A
request names a transaction; the handler reads its receipt, sometimes the
contract's present state, sometimes its own row, in separate awaits; then one
database statement or transaction writes. Hard everywhere: two requests in any
interleaving, the process dying between any two awaits, the client repeating
what was done, a reorganisation between the reads, a contract that has moved on
since the receipt.

| service | row | correct when |
|---|---|---|
| `compliance.ts`, `payment-reconciliation.ts` | payment, intent, screening | true of the chain, told once, consistent between tables, ends where the chain ends |
| `business-registration.ts`, `business-reconciliation.ts` | business, default API key | each transaction is applied at most once and in order, one default key |
| `treasury.ts`, `treasury-execution.ts` | proposal, policy | EXECUTED only with the votes and the execution of the contract |
| `streaming.ts`, `streaming-execution.ts` | stream | the balance shown never overstates what is due |
| `fx.ts`, `fx-execution.ts` | hedge | a recorded close is a close of the contract and stays |
| `crosschain.ts`, `crosschain-execution.ts` | transfer | a refunded transfer was not delivered |
| `liquidity.ts`, `liquidity-execution.ts` | position, flash loan | each row names a settlement that happened |
| `ai-compliance.ts`, `ai-compliance-execution.ts` | decision, appeal | an appeal's outcome is the contract's |
| `invoice.ts` | invoice, financing | what was financed, repaid and owed adds up |

### Backend: what it keeps or decides on its own

**Audit trail** (`services/audit.ts`): one hash chain per tenant. Hard: concurrent
appends from hosts whose clocks disagree; verification and export read it a page
at a time while it grows. Correct when no entry is lost, forked or skipped.

**Wallet sessions, roles, rate limits** (`routes/auth.ts`, `middleware/auth.ts`,
`middleware/rbac.ts`). Hard: a challenge used twice; a standing that changes
while the request is served; a window counted by several instances. Correct when
one challenge opens one session, a request is admitted in a standing its wallet
had while it was served, and no caller exceeds its limit.

**Travel rule** (`services/travel-rule.ts`) and **reporting**
(`services/reporting.ts`): send personal data or a regulatory report to an outside
service whose answer may be late or lost. Correct when every destination is
recorded before anything is sent and nothing is filed twice.

**Views of the chain** (`lib/strict-block-rpc.ts`,
`lib/business-registry-authorization.ts` and the execution clients), **feeds**
(sanctions, rates, readiness) and **paged lists**. Hard: several reads that
should be of one moment. Correct when a view that decides something is of one
block, a feed is as fresh as it is called, and no row is skipped.

**WebSocket server** (`services/websocket.ts`). Hard: handlers of one connection
interleave at their awaits. Correct when an event reaches only a connection whose
business was in standing since it was published.

### Frontend

**Pages and their recovery** (`src/hooks/usePayment.ts`, `useBusiness.ts`,
`useSafeWriteContract.ts`, `contexts/AuthContext.tsx`): a wallet's transaction,
then the API call that records it, over reloads and changes of account. Correct
when a transaction that was sent is not forgotten before it is recorded.
**Payment channel pages** (`src/hooks/usePaymentChannels.ts`,
`src/lib/channel-state.ts`): sign and submit over a channel as it was when a
dialog opened. Correct when what the page lets a party sign or submit is what
the contract will understand by it. **Live channel**
(`src/hooks/useWebSocket.ts`): correct when one socket is live and its timers end.

### Scripts

**Deployment ceremony** (`scripts/deploy-devnet-core.mjs`), **token
provisioning** (`scripts/provision-testnet-tokens.mjs`): transactions, receipts and
a checkpoint file, run again after any stop. Correct when no contract is left
without its governor and no token deployed twice. **Release configuration**
(`scripts/apply-finalized-manifest.mjs`, `validate-production-config.mjs`,
`next.config.js`, `backend/src/lib/env-validation.ts`): four programs that judge
one file. Correct when what is started is what was checked.

### How the parts interact

    browser page ──sign──► wallet ──tx──► NoblePay ─── active, tier ──► BusinessRegistry
         │                    │              └──────── requireCleared ► SealSettlementGate ◄─ seals
         │                    ├──────tx──► PaymentChannels ── active ─► BusinessRegistry
         │                    └──────tx──► MultiSigTreasury, roadmap contracts
         ├──artifacts between parties──► PaymentChannels (a signature, any time later)
         ├──HTTP──► auth.ts ──reads──► BusinessRegistry (standing, role)
         │          limits ──count──► PostgreSQL
         │          service ──receipt, state──► chain
         │             └──row, audit entry──► PostgreSQL
         │          compliance.ts ──► screening engine, operator (TEE) ──tx──► NoblePay
         │          travel-rule.ts, reporting.ts, invoice.ts ──► gateways outside
         ◄──WebSocket── websocket.ts ──reads──► BusinessRegistry
    scripts ──tx──► contracts;  manifest ──► release file ──► frontend build, backend start

## 2. How the models are written

- **One action is one call.** A Solidity transaction is atomic, so an operation
  with all its effects (payout, fee, reset, epoch bump, HTLC release) is one
  action; its `require`s and custom errors are its guards; a revert is a step
  that is not taken. In the backend one action is what happens between two
  awaits; a database transaction or a single statement is one step.
- **Names are the source's.** Modifiers and helpers keep theirs (`Conclude`,
  `Charge`, `Pay` stand for the bookkeeping several functions share).
- **Time is what is left of it.** A deadline is the number of ticks until it;
  `Tick` lowers all of them together. A comparison with `block.timestamp` keeps
  its strictness, so the block of a deadline itself is a state (0) and "strictly
  after" is another (-1).
- **Money is a natural number**; all arithmetic of the code is checked
  (Solidity 0.8), so overflow is a revert and not a wrap. Fees keep the integer
  division of the code.
- **Tokens and issuers are external**: an exact ledger, and a set of addresses
  the issuer refuses. Rebasing or fee-on-transfer tokens are rejected by the
  code and absent.
- **Reentrancy** is excluded by `nonReentrant` on every function that calls out.
- **Roles** are abstracted to who may call: an administrator may call anything
  its role allows at any time, so every property holds against every
  administrator unless it says otherwise.
- **`scenario` variables.** Five runs explore several scenarios side by side: the
  variable is chosen in `Init` and never changes, and each value bounds another
  part of the state. That is a union of instances and not a restriction of the
  specification; each states its bounds in its MC module.
- **Mutants.** Beside many definitions there is the same definition with one
  plausible mistake (a dropped guard, a reset left out). They are used by
  nothing; substituting one makes the run named in `PROJECT.json` fail. Their
  comments begin with "Mutant:" or say what the mistake is.

## 3. The modules

### PaymentChannels and its page

`PaymentChannels` models the contract for one token and any number of channels,
parties and HTLCs. `signed` is the set of signatures that exist; `signState` is
what a party's wallet may do at any time: sign a state of the current epoch, or
of a division it expects after the counterparty funds (`Anticipated`). A
submission takes a signature from that set whenever its sender likes. A
signature's HTLC outcomes and deposits at signing time are kept as history, so
that `ClosesByConsent` can say what the signer knew.
Left out: FUNDED is passed through within one transaction and never rests;
DISPUTE is never assigned by the code; `userChannels` and events are views.

`ChannelPages` EXTENDS it: `selected[p]` is the channel as it was when party p
opened a dialog; what the page then signs or submits is an action of the contract
under the page's guards, taken when the contract has moved on.
`PageMatchesContract` says that what the page accepted is still what the contract
does with it, or is refused there.

`MCChannels` composes both into one run, and states, for a scenario of its own, the
fairness of a party that leaves (`ExitSpec`).

### BusinessRegistry, SealSettlementGate, NoblePay

`NoblePay` EXTENDS the other two, so every step of the registry and of the gate
interleaves with payments, and the guards read their live state, as the code's
calls do. `businesses[b].left` is the validity left of a verification. `Tick` is the
beginning of a day: the volume windows are counted in days and in months of thirty
(`DaysPerMonth`), and a verification and a recovery delay are multiples of a day.
A payment keeps only whether it was made today, this month or earlier, which is
what `VolumeWithinLimits` compares with the contract's counters; a refund never
gives volume back.
Left out: `syncBusiness` (a legacy mirror that no check reads), the batch view
records, `setNoblePayContract` (stores an address nothing reads).
`MCNoblePay` has the instances: three scenarios for safety, and one with the fairness
of parties that want the escrow resolved (`FairSpec`). `MCServices` runs the registry
and the gate alone, on more businesses, licenses and seals than payments allow.

### SignerSet, TreasuryBudgets, MultiSigTreasury

The contract in three modules: the signers with thresholds, delegations and the
inherited AccessControl calls (`RoleChanges`); budgets with their windows; and
proposals, mandates and yield, which EXTENDS both. `outflow` and `votes` are
history variables.
Left out: duplicate founders, `receive()`, `periodEnd`, `lastExecuted` and
`category` (nothing reads them), an issuer that blocks a recipient (the call
reverts and nothing changes); recipients, protocols and the treasury are
disjoint. `MaxSigners` bounds `addSigner`.

### PaymentMirror

One payment as the backend sees it. A *worker* is a request in service; its
label in `pc` is its next await and `held` the evidence it carries.
`chain` is the payment's own transactions on the canonical chain with the
confirmations of each; `Reorg` removes the newest ones and `Mine` may bring them
back, in another block. `finality` tells the two chains apart that the
properties need: one that honours the operator's approved confirmation depth,
and one that does not.
A chain verification reads several times and its last reads decide
(`canonical-chain-transaction.ts` compares the block again at the end), so it is
one snapshot. Of block numbers only the submission's is kept, since it is stored
as evidence, and `joined` records that a later transaction shares the block of
the creation, which `payment-reconciliation.ts:506` looks at. The NoblePay
contract is abstracted to the statuses its calls start from. Left out here: the
travel-rule record that the same transaction writes (`TravelRecords`), the
sanctions refresh (`Feeds`), the audit entry of an escalation (it has no
transaction to be exact about), and the proof that a transaction is the claimed
call (`PaymentClaims`). The fairness and the bound on faults stand at the end of
the module (`MCSpec`, `MCFairSpec`).

### Requests, ReceiptBook and the recording services

`Requests` is what the handlers share: `req[w]` is `Idle` or a request's next step
with the data it carries, so that a value read before an await and used after it
is a field there; `Die` is a crash or timeout anywhere; `mined` and `deep` are the
contract's transactions and how many of them have the required confirmations;
`Drop` takes an unconfirmed one away. A receipt counts only when deep, but the state
of a contract is read at the head.

`ReceiptBook` is the abstract specification of them all: rows, the facts confirmed
so far, and one kind of step: a row that claims more, all of it confirmed, and
never nothing again. `MCRecords` instantiates it (`Book`) with the rows of all
services, each named with its table, and checks `Book!Spec`, so each service is
shown to implement it.

`TreasuryRecords`, `StreamRecords`, `HedgeRecords`, `TransferRecords`,
`PoolRecords`, `AppealRecords` each model one service and as much of its contract
as decides which receipts exist. `StreamRecords` computes `balance` as the API does,
with pauses, cliff and the dust that division leaves, and compares it with the
contract's own. `InvoiceRecords` has no contract but a financing gateway that
honours an idempotency key; its transactions lock the invoice.

`BusinessMirror` is PaymentMirror's protocol for a business: registration over a
wallet challenge, five later transitions, each applied at the block after which
the registry had that state. `PaymentClaims` is what the backend asks of a
transaction that is said to create or end a payment: one transaction may hold
several payments, be sent through a Safe or another contract, and carry any
method. `BrowserPages` is the other end: the page that sends the transaction and
then reports it, its slot in the browser's storage, the wallet that may change and
the tab that may be reloaded between any two awaits.

### What the backend keeps or decides on its own

`AuditTrail`: rows of one tenant, appended in a transaction that read the head in
its snapshot, ordered by the clocks of their hosts; retries; page-wise
verification and export. `Admission`: challenges, sessions, the permission
check of each request, where `seen` collects the standings during a request; and the
rate limits of instances with clocks that differ by at most a window.
`TravelRecords`: forms, the signature that binds them, outbound attempts, and a
screening that may change service. `ChainViews`: views of two kinds, pinned by
number or by hash, over a chain whose blocks are replaced. `Sockets`: each handler
of a connection between its awaits, and the revalidation that precedes every
delivery. `SocketClient`: the browser's end of it. `Feeds`: the reload of the
sanctions dataset with its three cells, rates with an age, readiness under its
time limits. `Listings`: order, offset and count of four lists while rows arrive.
`Reports`: generation from two queries, filing through a gateway that may take a
report and lose the answer.

### Scripts

`Ceremony`: bootstrap, acceptance, finalization, with the nonce, the receipts and
the checkpoint file, stopped at any step and run again, over a chain whose last
block may be replaced. `TokenProvisioning`: two tokens, one account that is also
used elsewhere, the lock file. `ReleaseConfig`: the classes of settings four
validators tell apart, with the operator's edits between them.

`MCServices` composes all of these: they share no state, so a scenario lets one of
them move while the others rest, which is the same as a run for each.

### The modules of proofs

| module | about | obligations come from |
|---|---|---|
| `SumTheorems` | sums of a function over a finite set of indices; stretches of sequences | `NoblePay`, `PaymentChannels`, `MultiSigTreasury`, `InvoiceRecords`; `AuditTrail`, `Ceremony` |
| `PermissionProofs` | `BusinessRegistry`, `SealSettlementGate` | their own specifications |
| `NoblePayProofs` | `NoblePay`, over `PermissionProofs` | `NoblePay!Spec`, all three contracts |
| `PaymentChannelsProofs` | `PaymentChannels` | its `Spec`, signatures included |
| `MultiSigTreasuryProofs` | `SignerSet`, `TreasuryBudgets`, `MultiSigTreasury` | its `Spec` |
| `PaymentMirrorProofs` | `PaymentMirror` | its `Spec`, with and without finality |
| `RecordsProofs` | the ten scenarios of `MCRecords`, `ReceiptBook` | each service's specification and `MCSpec` |
| `ServicesProofs` | the fifteen scenarios of `MCServices`, over `PermissionProofs` | `MCSpec` |

## 4. The runs

"states" is the number of distinct states TLC reaches. Every property of a passing
run has a mutant of the code that breaks it under the run's own configuration
(`PROJECT.json`, "mutants").

| run | states | what it checks |
|---|---|---|
| `channels` | 1,385,000 | `EscrowConserved`, `VaultBacked`, `PageMatchesContract`, `ClosesByConsent`, `NewestStateSettles` in four scenarios |
| `channel_exit` | 198,000 | `EscrowReturned`, `HTLCResolved`: liveness of one leaving party |
| `channel_progress` | violation | `ActiveMakesProgress` (section 7) |
| `payments` | 713,000 | `LedgerExplained`, `VolumeWithinLimits`, `OutcomeJustified` in three scenarios |
| `payment_exit` | 21,000 | `EscrowResolves`: liveness of one payment |
| `payment_recovery` | violation | `RecoveryModelsSettlement` (section 7) |
| `treasury` | 672,000 | `VotesCounted`, `VotesBySigners`, `SignersSound`, `SpendingMandated` in four scenarios |
| `treasury_thresholds` | violation | `SameThresholds` (section 7) |
| `payment_mirror` | 182,000 | `MirrorExact`, `ScreeningAgrees`, `FinalStays`, `EvidenceDurable`, `WindowOnly`, `MirrorCatchesUp` |
| `mirror_resume` | violation | `EvidenceResumes` (section 7) |
| `records` | 375,000 | `RecordsProved`, `MirrorHolds`, `KeptUntilRecorded`, `BookKept`: ten services, one scenario each |
| `services` | 999,000 | `IndexesExact`, `SealCarriesOneCorridor`, `AuditHolds`, `AccessHolds`, `FilingsHold`, `ViewsTrue`, `RevokedForever`, `ClosedForGood`, `DeploymentsHold`: fifteen parts, one scenario each |

Each pass run also checks the type invariant of its modules. Where a run checks
several modules, a property may be the conjunction of what they promise; each
conjunct is a definition of its own in its module, with its comment:
`VaultBacked` is `VaultSolvent`, `HTLCReserveExact`, `NoStrandedHTLC`; `SignersSound`
is `SignersListed`, `ThresholdsReachable`; `SpendingMandated` is `SpendingExplained`,
`WindowsHold`, `MandatesConsumed`; `MirrorExact` is `MirrorTrue`, `AuditExact`;
`MirrorCatchesUp` is `ScreeningDecided`, `EndMirrored`; those of `records` and
`services` are listed where they are defined, in `MCRecords` and `MCServices`.

**What the properties say, and why these bounds show it.**

*Channels.* `EscrowConserved` is per channel and needs one; `VaultSolvent` needs
two channels in one vault, so that one could be paid from the other's deposit,
and two HTLCs, so that a channel holds one while another is resolved ("escrow",
with a fee that divides unevenly and a token whose support is withdrawn).
`NoStrandedHTLC` says an open HTLC belongs to an ACTIVE channel: an exit that
forgot HTLCs would break it. `ClosesByConsent` compares what a signer knew
(deposits, HTLC outcomes) with the channel the signature closes; two signatures
suffice since a step uses at most two ("replay"). `NewestStateSettles` needs three: a
claim, a newer one and a newest ("challenge"). In "pages" both parties act through
dialogs, and one of them holds a stale one. The epoch of signed states is bounded by
`EpochBound`, above the number of changes the instances allow.

*Payments.* "ledger": two payments made on the same day, every
exit, fees, treasuries and a month that turns. "volume": three payments, tiers 0
and 1, whose limits the amounts 2 and 3 can reach exactly, miss by one and
exceed; two-day months bring both windows to their ends. "deployment": every
operation of all three contracts from an unconfigured deployment on, for one
payment and at most one pause at a time. `LedgerExplained` equates every balance
with a sum over payment records; `OutcomeJustified` relates each exit to the
screening and to the state of registry and gate *at that step*.

*Treasury.* "votes": a large proposal under two to three signers that come, go,
delegate and renounce; "signers": signer and threshold changes alone, in every
order, up to `MaxSigners = 3`; "spending": two proposals and a standing order on
one budget whose daily limit is 1 and monthly 2; "mandates": two authorizations
under pause, removal of token support, and a yield manager that empties the
treasury. A window never needs more than the limit plus one unit to be exceeded.

*Mirror.* Two workers (two requests of any kind race), one reorganisation, one
fault, depth 2 (mined, confirmed), two possible blocks for the submission (so
that re-mined evidence differs). `MirrorTrue` and the liveness properties are
about the chain with finality; `WindowOnly` is about the other one: a record
that the chain does not hold can only come from a reorganisation between the
last check and the commit, the window that no code can close without a
transaction across chain and database. Faults are explored with finality only.

*Records.* Two workers, as a race is between two requests; up to `MaxMined = 4`
transactions, enough for creation, two changes and an end; two rows where rows can
be confused (hedges, transfers, positions), one where only its own history
matters (streams, appeals, proposals). Streams run to time 3 with a duration of 2,
so that an end, a pause across it and a late report occur. `BookKept` is the
refinement of `ReceiptBook`; the others relate a row to the contract at that
moment: a transfer recorded as recovered was not delivered, an executed proposal
has its approvals, an invoice's financing equals what the gateway paid.
`KeptUntilRecorded` is about the browser: a transaction that was sent is recorded
or still in its slot. The constraint `Small` drops states with more than one
audited fact, since the recording services do not read the audit.

*Services.* Registry and gate with two businesses, two licenses and three seals in
both directions. Audit: two writers, three clock values, four entries and pages of
two. Sessions: one wallet's sign-in, two requests, a business that loses standing
or a role. Limits: a limit of two, windows one to four. Views: four blocks, any of
them replaced. Sockets: one connection that is signed in for two businesses in turn,
at most one of them suspended or lapsed at a time (`Small`). Reports and travel
data: two references and two forms, as a duplicate needs two. Ceremony and
provisioning: one stop and one fork in the first, four nonces and two replaced
blocks in the second; a stop or a fork at any step is what a rerun has to survive.
Release: two edits by the operator, one before and one after a check. Lists: pages of
one row, three rows. A violation of any of these properties needs at most two
actors and two repetitions.

## 5. Fairness

*`channel_exit`* (`ExitSpec` of `MCChannels`). Weak fairness of time; the leaver keeps trying to
cancel and to close, anyone keeps finalizing and refunding; TREASURY_ROLE replaces a
fee beneficiary the token refuses and a reachable one exists (`t2`). Strong fairness
stands for a caller that retries a call which others can disable for a while.
Nothing is assumed of the counterparty, of administrators or of the registry:
they may pause for ever. The counterparty's HTLCs are finite here (`Htlcs` has
one identifier, never reused); without that bound the property is false, which is
the finding of `channel_progress`. Cooperative closes are left out of this
next-state relation, as they only settle earlier.

*`payment_exit`* (`FairSpec` of `MCNoblePay`). The verifier screens, somebody settles, the officer
refunds and recovers, the sender cancels while paused, the treasurer replaces an
unreachable treasury. Payees are reachable (only `t1` may be blocked): a payment to a
blocked recipient has no exit until its permissions change, the finding of
`payment_recovery`. Administrators are unconstrained.

*`payment_mirror`* (`PaymentMirror`). A request in service makes progress, the chain
mines what is sent and buries what is mined, clients repeat a request until it is
answered (strong, as another request may disable it for a while). Faults and
reorganisations are bounded: with unboundedly many nothing could be promised.
Settlement, cancellation and refund need not happen.

The other runs assume no fairness and claim no liveness: a recording service acts
only when a client calls, and nothing in the repository makes a client call.

## 6. The proofs

`tlapm` checks eight modules of theorems. All hold for every value of the constants
that satisfies the named assumptions below, so for any number of parties, payments,
requests, rows and receipts. An invariant that is proved is never inductive as it
stands; what has to be added is where the code's argument lies, and is given here.

**Sums (`SumTheorems`).** What a vault holds is a sum over records, written as a fold.
The library's induction rules take an operator as a parameter, which no
installed prover can instantiate; `SubsetInduction` is therefore stated with a *set*
of good subsets, from the well-foundedness of strict inclusion on a finite set. On it
rest existence and uniqueness of the fold's values (`SumsExist`, `SumsAgree`) and the
rules the contracts need: taking one index out (`SumTake`), changing one value
(`SumChange`), and moving one index in or out of the summed set while its value
changes (`SumMove`), which is what one call does to a ledger. The same module has what
`ServicesProofs` needs of sequences: stretches, a sequence without one of its
elements, index sets that hold with each index all those before it.

**Payment channels (`PaymentChannelsProofs`).**
- `TypeInvariant`. The fee never exceeds what it is taken from (`FeeBound`).
- `EscrowIsConserved` from `IInv == TypeOK /\ \A c : EscrowInv(c)`, which adds that the
  reservation is zero outside ACTIVE and that a pending claim records the channel's own
  balances: without the second `finalizeClose` could pay out anything, without the
  first a close would forget reserved money.
- `VaultIsBacked` from `VaultInv`, which adds `HTLCsPlaced` (an active HTLC reserves a
  positive amount of a channel that exists). The vault is the sum of the live
  channels' totals and a reservation the sum of its active HTLCs; that no HTLC is
  stranded follows, as a reservation of zero is a sum of no positive amounts.
- `ClosesAreConsented` from `ConsentInv`: no signature is of a later epoch than its
  channel's, and one of the current epoch was given with the deposits and HTLC
  outcomes the channel has now. It assumes `~RecycleHtlcs`, that HTLC identifiers are
  not reused, as the contract's nonces guarantee; the run for the finding is the only
  one that sets it.

**Registry and gate (`PermissionProofs`).**
- `RegistryInv` adds to types, license index and counters that a KYC status is held by
  registered businesses only, which makes each checked decrement of a counter safe:
  `IndexesAreExact`, `LicensesAreExclusive`, `CountersAreExact`, `RevocationIsFinal`.
- `GateInv` adds that every seal of a clearance is marked used; `clear` writes a
  corridor's clearance once. So `OneCorridorPerSeal`; and since neither a revocation of
  the clearance nor the end of its seal is ever undone, `ClosureIsFinal`.

**NoblePay (`NoblePayProofs`)**, with the registry and the gate in the same state and
interleaved: `Inv == RegistryInv /\ GateInv /\ PaymentsInv /\ Ledger /\ VolumesExact`.
- `PaymentsSound`: a status other than NONE has its parties and a fee that its amount
  can pay (the fee is fixed at initiation and the configuration changes later), and a
  screened status is the verdict of the result on record.
- `EveryUnitExplained` (`LedgerExplained`): every balance is a sum over a set of
  payments, and each call moves one payment between those sets (`OnePaymentMoves`,
  from `SumMove`). The treasuries are summed together, as `setTreasury` may send the
  next fee elsewhere.
- `LimitsHold` (`VolumeWithinLimits`). A tier is read when a payment is made and
  volumes stay when it rises, so `VolumesExact` bounds the counters by the limits of
  the *present* tier. It is inductive because a tier never falls (`PermissionsStep`, with
  the step behind `RevocationIsFinal`) and limits do not decrease with the tier.
- `EscrowLeavesJustified` (`OutcomeJustified`) is a property of steps; it needs
  `PaymentsSound` to know that a PASSED payment passed. `PermissionsHold` carries the
  registry's and gate's invariants into the composition; `PaymentTypes` the types.

**Treasury (`MultiSigTreasuryProofs`)**: `Inv` is the conjunction of `SignersInv`,
`BudgetsInv`, `ProposalsInv`, `MandatesInv`, `SpendingInv` and the ledger's types.
- `SignersStaySound`: array and index are inverse to each other while AccessControl does
  not edit the role behind them; removal moves the last signer into the gap, so both
  directions are needed (`Indexed`).
- `VotesAreCounted`, `OnlySignersVote`: counters are cardinalities, and an identity
  that votes through a delegate is resolved before it is looked up (`ApproverSigns`).
- `SpendingIsMandated`: trackers equal what left in the present window
  (`TrackersExact`); a budget's `spent` and a recipient's balance are sums over executed
  proposals and executions of standing orders (`SpendingInv`); and the one
  authorization that can be acted on for some terms is the latest (`LatestOpen`), without
  which two of the same terms could be open. `TreasuryTypes` needs most of it, as the
  checked subtractions are only defined inside these bounds.

**The mirror of a payment (`PaymentMirrorProofs`).**
- `MirrorInv`: a screening on the chain was answered by the operator; the row fits the
  intent and the screening; and what a worker holds at each label is what it will need
  there, past the store the very evidence of the intent. From it `MirrorTypes`,
  `ScreeningsAgree`, `EndsStay` and `EvidenceStays`, for any number of requests, faults
  and reorganisations of any depth.
- `FollowInv` adds the chain: its shape (creation, screening, one end), that what is
  recorded is confirmed (`Recorded`), that what a worker has checked and not committed
  is on the chain unless a reorganisation exposed it (`Grounded`), and what each status
  says of the audit trail (`AuditTells`). `RecordIsExact` is its part with finality,
  `OnlyTheWindow` the part of workers no reorganisation has exposed.

**The records (`RecordsProofs`).** Each service has an invariant of the same three
parts: the shape of the contract's transactions (`EndsLast`, `ModuleChain`,
`StreamChain`, `VaultChain`, `CreatedOnce`), what a row rests on (a confirmed
receipt, a quorum, an answer of the gateway), and *what a request carries between two
awaits*, which is the real content: a value read before an await is still good after
it, because confirmed receipts stay (`ReceiptsKept`), quorums only grow, a gateway's
answer to a key never changes. Examples: two concurrent executions of one proposal
(`ExecutionHeld`); a sum of financings that stays the row's own figure although the
gateway is asked outside the transaction (`InvoiceInv`, by `SumTheorems`); a stream
whose pause is that of an older receipt and which is still never overstated, since
transactions are mined in the order of their times and the end on the chain moves with
every pause (`StreamChain`, `Left`).
- `RecordsInv` composes them: the serving scenario keeps its invariant, the others rest
  in their initial state. From it `RecordsAreProved`, `RecordTypes` (with `MirrorRest`
  and `PageRest` for what types need beyond the promises) and `PromisesKept`.
- `ServicesKeepTheBook`: `MCSpec` implements `Book!Spec`, step by step: every step of
  every service either leaves all claims (and confirmed facts may grow) or gives one
  row claims that are confirmed. An appeal's claims need `FilingInv`, that a stored
  filing or review has its receipt. A row is named with its table, so that equal
  identifiers of two tables are two rows. The second conjunct, that a hedge keeps its
  close, is proved with the hedge's own invariant.
- The same for single services: `RefundsWereNotDelivered`, `TransfersKeepTheBook`,
  `ClaimsAreProved`, `ReportsCountOnce`, `SeenIsKept`.
- `SeenIsKept` proves `KeptUntilRecorded` with its exception: `crossed` says that another
  account was selected while a write was running, and from then on nothing is claimed
  (section 8, Pages).

**What the backend keeps on its own, and the scripts (`ServicesProofs`)**. Each part has
an invariant of its own.
- *Audit* (`AuditInv`). `Chained`: the rows grow in time and each is linked to the one
  committed before, since a transaction that read the head in its snapshot cannot commit
  after another one did. Sorting by timestamp therefore changes nothing, and what a
  reader has fetched is a stretch of the chain (`Cut`, `Follows`), however many rows are
  appended between two pages. The order and the pages are stated by counting the rows
  before a row, so no induction over a sort is needed.
- *Sessions* (`SessionInv`): every session's challenge is used, and a request that was let
  in stands as its wallet did at some moment while it was served (`Stands`).
- *Limits* (`LimitInv`). `Counted`: a row that still exists counts every request let
  through in its window, and a row is deleted only when no request can count in it any
  more, which is where the bound on the clocks' difference is used.
- *Sockets* (`SocketInv`): a revalidation that answered "active", or has yet to look while
  the business is not suspended, is of a business that was in standing after the event
  was published (`InStanding`).
- *Travel rule* (`TravelInv`): what a request carries is the recorded data and
  destination (`InFlight`), and the envelopes sent plus the workers about to send are no
  more than the attempts on record (`LeavingCounted`): the attempt is committed first.
- *Reports* (`ReportInv`): no two requests make one report (`Apart`), what a generation
  has read contains each suspicion known when it began (`Knows`), and filing is idempotent
  by key (`OneFilingEach`, `Filed`): one row of the regulator, one reference, one entry.
- *Views* (`ViewInv`): as long as its block is canonical (`StillThere`) everything a view
  has read is of that block (`Seen`); it is shown after this was checked once more.
- *Client* (`ClientInv`): only the current socket connects or talks, it has asked for each
  channel with a callback, and "connected" was shown by a socket that opened.
- *Feeds* (`FeedInv`): what a running update, a check of readiness and a refresh of the
  engine hold between awaits (`QueryHolds`, `RefreshHolds`), and that the three cells are of
  one dataset while no two updates have crossed (`Uncrossed`); section 8 has the exception.
- *Lists* (`ListInv`): a row that the reader has not met is behind the offset of the next
  page, where its place is the number of rows ahead of it (`Rank`). Rows that arrive
  only push it further back.
- *Ceremony* (`CeremonyInv`). The transactions sent so far are a history that the chain
  replays: whatever blocks are replaced, they are mined again in the order of their
  nonces, so each block's contracts are those of a prefix of the history (`Explained`).
  `SentSafely` says of the history that the deployer's role is renounced only after
  governance was given it; `RunSound` what a run knows after its checks; `ReleaseStands`
  that the manifest's block and all later ones are as published.
- *Provisioning* (`ProvisionInv`): the checkpoint file names the only nonce a token's
  deployment can have, and no two tokens have one nonce. *Release* (`ReleaseInv`): each
  copy of the settings has the release values of the finalized manifest or of the
  template, and what was built and what runs is of a class all its checks accept.

`PartsInvariant` composes them: the part that is exercised keeps its invariant, the others
rest. From it `AuditTheorem`, `AccessTheorem`, `FilingsTheorem`, `ViewsTheorem` and
`DeploymentsTheorem`, whose `ManifestTrue` is a property of steps. `TypesTheorem` needs what no
promise does (`BoundsHold`): reconnections and stray timers stay in their bounds, no feed
is dated in the future, and the registry and the gate keep the invariants of
`PermissionProofs`.

**Assumptions on the constants**, and why the code has them.

| assumption | reason |
|---|---|
| the sets of payments, channels, HTLCs, proposals, authorizations, standing orders, businesses, people and financing keys are finite | finitely many calls have been made; sums and cardinalities need it |
| sentinels (`None`, `NoTx`, `NoTerms`, `NoSeal`, `NoBudget`, `NoLine`, `Anonymous`) are no element of the sets they stand outside of | address zero, hash zero, an absent row, a socket that is not there or not yet vouched for |
| `Vault` is no wallet and no treasury; treasury, recipients and protocols are disjoint; no wallet of NoblePay is a treasury | what the model leaves out: a contract calls none of its own operations, and one address in two roles (a payee or treasury that is the contract itself, which the code does not refuse) would only merge two columns of the ledger |
| limits do not decrease with the tier | `NoblePay.sol:161-167` |
| `Businesses \subseteq Payers`, amounts, fees, thresholds are naturals | `uint256`; checked arithmetic reverts |
| thresholds of a spending policy are positive | `backend/prisma/schema.prisma:442`: the default is 1, and no route writes another |
| at least two founders, pairwise distinct | the constructor's checks |
| `FeeDenominator`, intervals and delays positive | constants of the contracts |
| `Limit`, `PageSize`, `PerPage`, `Retries`, `MaxAttempts` are positive; `Services` and `KeyIds` are not empty | constants of the services and settings without which they do not start |
| clocks, hours, ages, row identifiers and times are naturals; at least one moment in `Clock` | timestamps and keys of rows, compared only |
| `Period` is finite | a report's payments have been stored |
| `Filters` holds "all" and "flagged" | the filters every list has |
| `Order` is a sequence of distinct names, `gate` among them | `scripts/deploy-devnet-core.mjs` deploys each core contract once |
| `MaxMined`, `MaxSent`, `MaxPayments`, `MaxSigners`, `MaxFaults`, `MaxReorgs`, `MaxBlocks`, `MaxRows`, `LastWindow`, `MaxReconnects`, `MaxStray`, `MaxStops`, `MaxForks`, `MaxNonce`, `MaxReplaced`, `MaxEdits` are naturals, `MaxLogged >= 2` | bounds of the models; any value will do |

TLC evaluates every one of them on the run of its module.

**Only model-checked**, and why.
- *Liveness under fairness*: `EscrowReturned`, `HTLCResolved`, `EscrowResolves`,
  `MirrorCatchesUp` (`ScreeningDecided`, `EndMirrored`).
- *ENABLED*, which the prover cannot expand: `PageMatchesContract` compares what a page
  offers with what the contract has ENABLED, and `NewestStateSettles` says that the holder
  of a newer state can submit it as long as the window is open.

Every other invariant and action property of the passing runs is a theorem, of the
specification of its module or of the composition the run instantiates.

## 7. Where code and documentation disagree

Each is a run whose single property states the quoted sentence and which TLC
refutes.

- **`channel_progress`**: "an ACTIVE channel can always make progress if a party
  refuses to produce the first signature" (`contracts/src/PaymentChannels.sol:648`).
  The close at line 660 is refused while any HTLC is active and one party alone
  may open HTLCs, so a counterparty that keeps a small one open keeps the channel
  ACTIVE. The run lets HTLC identifiers recycle, the only way to have an unbounded
  supply in a finite state space.
- **`payment_recovery`**: "Recovery must model the exact availability of
  {settlePayment}" (`contracts/src/NoblePay.sol:876`). `_settlementAvailable` looks
  at pause and gate; a recipient or treasury that the token's issuer refuses makes
  settlement impossible while recovery is refused as unnecessary.
- **`treasury_thresholds`**: "Approval thresholds and timelocks are identical to
  one-time transfers of the same amount" (`contracts/src/MultiSigTreasury.sol:778`).
  With a threshold of one a mandate is approved when proposed; a transfer stays
  PENDING until a second signer approves.
- **`mirror_resume`**: a failure after chain success "resumes from that evidence on
  retry" (`deploy/compliance-api-contract.md:117`). If the payment ends on the chain
  and is reconciled before the retry, `submitForScreening` finds it no longer
  PENDING and refuses; the intent stays VERIFIED and neither the screening nor its
  audit entry is written.

## 8. Seen while modelling

Not claims of a run; kept for the next reader of the code. Four of them are
operators of the model that nothing checks, since the code does not keep them;
as an INVARIANT of `records` in their scenario, each gives TLC's trace:
`PausesAsContract` and `OneRowPerPosition`, `ReviewOnRecord`, `SettledInvoiceStays`.

Contracts.

- `SIGNER_COOLDOWN` (`MultiSigTreasury.sol:242`), `Budget.periodEnd` and
  `ProposalStatus.EXPIRED` are declared and never read or set.
- The comment "Auto-reject if majority rejects" (`MultiSigTreasury.sol:647`) stands
  over a condition that rejects once approval has become impossible, not at a
  majority; with a threshold above the number of signers the subtraction reverts.
- Approvals of a signer who was removed since still count (621).
- `grantRole` and `renounceRole` of AccessControl change who may sign without
  changing the `signers` array or `totalSigners` (296, 1138);
  `SignersListed` and `ThresholdsReachable` therefore hold until a role is edited
  directly (`rolesEdited`).
- A second signer that delegates to the same address ends the first one's
  delegation without a word (1021).
- `approveYieldProtocol` on a protocol in use resets `currentAllocation` (1065), so
  the maximum can be allocated again.
- The emergency threshold is not compared with the number of signers (1156).

Payments and businesses.

- A payment that leaves PENDING in the very block of its creation is never
  mirrored (`payment-reconciliation.ts:506`); `EndMirrored` excludes it.
- After a reorganisation deeper than the configured confirmations, evidence that
  was re-mined in another block makes its intent refuse every retry.
- A settlement or refund that went through a contract other than a Safe can never be
  mirrored; settle and cancel are told apart by the method alone.
- Two re-verifications reported newest first leave `lastVerified` behind, and
  `requireUnchangedLastVerified` (`business-reconciliation.ts:851`) then refuses every
  later report. A reinstatement reported after the next suspension makes the mirror
  VERIFIED while the contract is SUSPENDED. `updateComplianceOfficer` is never
  mirrored. A changed contact address makes the retry of the original registration
  a conflict.

Recording services.

- Streaming: a comment says "Pause time is excluded from BOTH figures, exactly as the
  contract does it" (`streaming.ts:103`), but resuming does not move the row's end and
  cliff as the contract does, a CANCELLED row goes on accruing, and a change computed
  from a row read earlier overwrites a newer one (`PausesAsContract`).
- Liquidity: "the same settlement reported twice yields the same row"
  (`liquidity.ts:246`) fails once the position was removed, which overwrites the hash it
  is found by; the replayed addition makes a second row (`OneRowPerPosition`).
- AI compliance: an appeal is stored with the status the contract has at that moment, so
  one reported late skips the review that happened (`ReviewOnRecord`).
- Invoices: the financing transaction does not look at the status again
  (`invoice.ts:578`), so one that was settled while the gateway was asked becomes
  FINANCED (`SettledInvoiceStays`). A financing the gateway granted before the process
  died stays unrecorded until it is repeated with the same key. Overdue, unpaid
  invoices dilute the default rate.
- Treasury: two concurrent recordings of executions overwrite each other
  (`treasury.ts:507`); an approval after the end of the voting period marks even an
  EXECUTED row EXPIRED (390); `executionTxHash` is not unique.
  `validateSpendingPolicy`, `validateBusinessLimits` and `calculateFees` are called
  by no route.

Other services.

- Travel rule: once a sending failed, a changed service URL refuses every later attempt
  (`travel-rule.ts:453`); data sent for a payment that is then cancelled stay marked as not
  shared.
- Reports: thresholds of currency transaction reports exist for AED and USD only, while
  payments are in USDC and USDT; six counts of one summary are read separately; a
  filing acknowledged after it was SUBMITTED is not looked up again.
- Sanctions: "Atomically reload" (`crates/noblepay-compliance/src/sanctions.rs:124`) stands over three
  cells published under three locks; sender and recipient are screened by two separate
  reads. `Feeds` has a screening in between as a state of its own.
- Lists: `sortBy` takes no effect (`payment.ts:179`), orders have no tie-break, rows and count
  come from two statements. `NothingSkipped` therefore speaks of readers whose rows
  did not move.
- Sockets: the message handler is attached after the first authorization (about
  `websocket.ts:118`), so a subscription sent at once is lost; a socket that is being
  authorized while the server closes is not told. Two messages of one socket may
  take effect in either order.
- Live channel: a late close of an old socket stops the heartbeat of the new one
  and sets a timer nobody clears; a callback subscribed twice is dropped by the first
  unsubscribe.
- Audit: an entry written outside its domain transaction is lost after three failed
  retries.
- Rate limits hold while clock skew and delay together stay within one window; then
  a row may be deleted that a slow instance still counts in.
- Views pinned by number only (treasury, rates, limits) may mix two blocks when the
  pinned one is replaced.
- Readiness: a configured, healthy compliance service is called "evaluation" whenever
  evaluation was acknowledged (`readiness.ts:87`).

Pages.

- The wallet may be switched while a write waits; a success clears the slot of the
  newest render; two tabs share one slot; a reload between the sending and the
  first render that stores its hash forgets it; a pending transaction that a
  reorganisation dropped blocks the page for ever.
- Channel pages do not look at the pause and, for a close, not at open HTLCs; the
  contract refuses.

Scripts.

- Ceremony: a stop between mining and checkpoint leaves a contract nobody will use with
  the deployer as administrator; a replaced checkpoint block makes every later run
  refuse; after publication, a reorganisation returns renounced roles until the
  renunciation is mined again.
- Provisioning reads the checkpoint before it takes the lock, and does not verify the
  tokens again when it publishes; a killed process leaves the lock file.
- Release: the preflight accepts internal hosts the backend refuses and refuses test
  hosts the backend accepts; it does not look at `JWT_SECRET`, `API_KEY_HASH_SECRET`,
  `COMPLIANCE_API_KEY` or the contract addresses. A plain-HTTP public RPC URL is refused
  by the preflight, accepted by the ceremony on any acknowledged testnet, and by the
  frontend build on chain 7332 only, although its comment says "The conditions are
  deliberately the same ones the deploy path enforces". An edit between the reading
  and the renaming of the release file is lost.

## 9. Not modelled

- **Go gateway and indexer** (`services/gateway`): optional, a program of its own with
  a store of its own; next in the plan.
- **InvoiceFinancing, ComplianceOracle, TravelRule contracts**: outside the supported
  surface (`README.md:23` answers 404 for their routes), and nothing in the repository
  calls them: the invoice service talks to a gateway, travel-rule records live in
  PostgreSQL. The other roadmap contracts are modelled only as far as the backend records
  them; their shares, rates, margins, bonds and fees are not.
- **Scoring in the Rust engine**, report templates, statistics, risk heat maps and
  metrics: computations over one snapshot, with no protocol.
- **Layout, charts and the remaining pages** of the frontend; caching of pages in the
  browser for a few seconds.
- **Formats**: of addresses, secrets, URLs, query strings and calldata. `ReleaseConfig` has
  the classes of settings that the checks tell apart; `PaymentClaims` what calldata and
  events claim.
- **Cryptography**: a signature is the fact that its key's owner signed the content.
- **Tests, fixtures, vendored code, deployment descriptors.**

## 10. Plan

Proofs: the inductive invariants of the modules below, as they are added; for item 2 that
each step of the two contracts is a step of the abstract escrow or leaves it alone
(`EscrowIsConserved` and `EveryUnitExplained` are what that needs); and
`PageMatchesContract` and `NewestStateSettles`, once the conditions under which the contract
accepts a call are written out next to its actions instead of taken with ENABLED.

Models, in order:

1. `ChainIndexer` and `FileStore` for the gateway: reorganisation handling against
   the persisted cursor (`services/gateway/internal/services/indexer.go:365`) and
   the atomicity of save and rename across a crash
   (`services/gateway/internal/store/file.go:119`). Abstract specification: a map
   updated atomically; the store implements it by refinement.
2. An abstract `Escrow` (money in, one outcome, money out once) that
   `PaymentChannels` and `NoblePay` both implement, stated with INSTANCE and checked
   as a PROPERTY of their runs.
3. The rest of the roadmap contracts, by the money they hold: StreamingPayments,
   LiquidityPool, InvoiceFinancing, CrossChainRouter, FXHedgingVault.

A module that is added shares the run of its kind as a scenario.
