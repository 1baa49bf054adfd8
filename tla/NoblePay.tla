------------------------------- MODULE NoblePay -------------------------------
(***************************************************************************)
(* The NoblePay contract (contracts/src/NoblePay.sol) composed with the    *)
(* BusinessRegistry and the SealSettlementGate it reads live: a business   *)
(* escrows a stablecoin payment, a verifier records the screening result,  *)
(* and the escrow is then settled, refunded, cancelled or recovered.       *)
(*                                                                         *)
(* Each action is one transaction, and the guards are its reverts.  A unit *)
(* of time is a day; a recovery request is kept as the days since it was   *)
(* made, and the volume counters are those of the current day and month.   *)
(***************************************************************************)
EXTENDS BusinessRegistry, SealSettlementGate, FiniteSetsExt

CONSTANTS
    PaymentIds,           \* keccak256 of nonces: never reused
    Tokens, Amounts,      \* offered tokens and amounts
    Treasuries, Vault,    \* fee beneficiaries; the contract's own address
    BaseFees, PercentageFees, MAX_PERCENTAGE_FEE, FeeDenominator,
    RiskScores, RiskThreshold, MaxRiskScore,   \* offered scores; 70; 100
    DailyLimit, MonthlyLimit,                  \* tier -> limit
    SETTLEMENT_RECOVERY_DELAY, SETTLEMENT_RECOVERY_WINDOW,
    DaysPerMonth, InitialFunds,
    Pauses,               \* values NoblePay's pause flag may take
    Blockable             \* addresses a token's issuer may block

ASSUME NoblePayAssumption ==
    /\ Businesses \subseteq Payers /\ Wallets \subseteq Payees
    /\ Vault \notin Wallets \cup Treasuries /\ Wallets \cap Treasuries = {}
    /\ Amounts \subseteq Nat /\ BaseFees \subseteq Nat /\ PercentageFees \subseteq Nat
    /\ MAX_PERCENTAGE_FEE \in Nat /\ FeeDenominator \in Nat \ {0}
    /\ RiskScores \subseteq Nat /\ RiskThreshold \in Nat /\ MaxRiskScore \in Nat
    /\ DailyLimit \in [Tiers -> Nat] /\ MonthlyLimit \in [Tiers -> Nat]
    /\ \A s, t \in Tiers : s <= t => /\ DailyLimit[s] <= DailyLimit[t]
                                     /\ MonthlyLimit[s] <= MonthlyLimit[t]
    /\ IsFiniteSet(PaymentIds) /\ IsFiniteSet(Treasuries)
    /\ SETTLEMENT_RECOVERY_DELAY \in Nat \ {0} /\ SETTLEMENT_RECOVERY_WINDOW \in Nat
    /\ DaysPerMonth \in Nat \ {0} /\ InitialFunds \in Nat
    /\ Pauses \subseteq BOOLEAN /\ Blockable \subseteq Wallets \cup Treasuries

VARIABLES
    payments,                    \* paymentId -> Payment
    paymentFees,                 \* paymentId -> fee captured at initiation
    complianceResults,           \* paymentId -> ComplianceResult
    settlementRecoveryRequests,  \* paymentId -> days since the request, or NoRequest
    dailyVolume, monthlyVolume,  \* business -> volume of this day, of this month
    dayOfMonth,
    supportedTokens, trustConfigured, paused, baseFee, percentageFee, treasury,
    balanceOf,                   \* token -> address -> tokens held
    blocked                      \* addresses the tokens refuse to pay

payVars    == <<payments, paymentFees, complianceResults, settlementRecoveryRequests>>
volumeVars == <<dailyVolume, monthlyVolume, dayOfMonth>>
configVars == <<supportedTokens, trustConfigured, paused, baseFee, percentageFee, treasury>>
tokenVars  == <<balanceOf, blocked>>
vars == <<registryVars, gateVars, payVars, volumeVars, configVars, tokenVars>>

Holders == Wallets \cup Treasuries \cup {Vault}
Status  == {"NONE", "PENDING", "PASSED", "FLAGGED", "BLOCKED", "SETTLED", "REFUNDED"}
InEscrow == {"PENDING", "PASSED", "FLAGGED", "BLOCKED"}
Age     == {"today", "this month", "earlier"}

Payment == [sender: Businesses \cup {None}, recipient: Wallets \cup {None}, amount: Nat,
            token: Tokens \cup {None}, status: Status, created: Age]
NoPayment == [sender |-> None, recipient |-> None, amount |-> 0, token |-> None,
              status |-> "NONE", created |-> "earlier"]

ComplianceResult == [sanctionsClear: BOOLEAN, amlRiskScore: Nat, travelRuleCompliant: BOOLEAN]
NoResult == [sanctionsClear |-> FALSE, amlRiskScore |-> 0, travelRuleCompliant |-> FALSE]

NoRequest == -1
\* An older request has expired for good; its exact age no longer matters.
MaxRequestAge == SETTLEMENT_RECOVERY_DELAY + SETTLEMENT_RECOVERY_WINDOW + 1

Init ==
    /\ RegistryInit /\ GateInit
    /\ payments = [i \in PaymentIds |-> NoPayment]
    /\ paymentFees = [i \in PaymentIds |-> 0]
    /\ complianceResults = [i \in PaymentIds |-> NoResult]
    /\ settlementRecoveryRequests = [i \in PaymentIds |-> NoRequest]
    /\ dailyVolume = [b \in Businesses |-> 0] /\ monthlyVolume = [b \in Businesses |-> 0]
    /\ dayOfMonth = 0
    /\ supportedTokens = {} /\ trustConfigured = FALSE /\ paused = FALSE
    /\ baseFee \in BaseFees
    /\ percentageFee \in {r \in PercentageFees : r <= MAX_PERCENTAGE_FEE}
    /\ treasury \in Treasuries
    /\ balanceOf = [t \in Tokens |-> [x \in Holders |-> IF x \in Wallets THEN InitialFunds ELSE 0]]
    /\ blocked = {}
-----------------------------------------------------------------------------
(***************************************************************************)
(* Initiation.                                                             *)
(***************************************************************************)
onlyRegistered(b) == trustConfigured /\ isBusinessActive(b)

_calculateFee(amount) == baseFee + (amount * percentageFee) \div FeeDenominator

\* What one payment of an initiation must satisfy.
Admissible(b, recipient, amount, token) ==
    /\ recipient # None /\ recipient # b
    /\ amount # 0
    /\ token \in supportedTokens
    /\ _calculateFee(amount) < amount

_enforceVolumeLimits(b, amount) ==
    /\ dailyVolume[b] + amount <= DailyLimit[getBusinessTier(b)]
    /\ monthlyVolume[b] + amount <= MonthlyLimit[getBusinessTier(b)]
    /\ dailyVolume' = [dailyVolume EXCEPT ![b] = @ + amount]
    /\ monthlyVolume' = [monthlyVolume EXCEPT ![b] = @ + amount]
    /\ UNCHANGED dayOfMonth

\* _escrowExact: total is what the sender pays in of each token.  A token
\* that delivers anything else makes the transaction revert.
Escrow(b, total) ==
    /\ \A t \in Tokens : total[t] <= balanceOf[t][b]
    /\ balanceOf' = [t \in Tokens |->
            [balanceOf[t] EXCEPT ![b] = @ - total[t], ![Vault] = @ + total[t]]]
    /\ UNCHANGED blocked

NewPayment(b, recipient, amount, token) ==
    [sender |-> b, recipient |-> recipient, amount |-> amount, token |-> token,
     status |-> "PENDING", created |-> "today"]

initiatePayment(b, recipient, amount, token, i) ==
    /\ ~paused
    /\ onlyRegistered(b)
    /\ Admissible(b, recipient, amount, token)
    /\ payments[i].status = "NONE"
    /\ _enforceVolumeLimits(b, amount)
    /\ Escrow(b, [t \in Tokens |-> IF t = token THEN amount ELSE 0])
    /\ payments' = [payments EXCEPT ![i] = NewPayment(b, recipient, amount, token)]
    /\ paymentFees' = [paymentFees EXCEPT ![i] = _calculateFee(amount)]
    /\ UNCHANGED <<registryVars, gateVars, complianceResults, settlementRecoveryRequests,
                   configVars>>

\* Mutant: the limits are enforced on the dearest payment, not on the total.
batchOfSmallPayments(b, order) ==
    LET ids == DOMAIN order
        Sum(S) == SumFunctionOnSet([i \in ids |-> order[i].amount], S)
    IN  /\ ~paused /\ onlyRegistered(b) /\ ids # {}
        /\ \A i \in ids : /\ Admissible(b, order[i].recipient, order[i].amount, order[i].token)
                          /\ payments[i].status = "NONE"
        /\ _enforceVolumeLimits(b, Max({order[i].amount : i \in ids}))
        /\ Escrow(b, [t \in Tokens |-> Sum({i \in ids : order[i].token = t})])
        /\ payments' = [i \in PaymentIds |->
                IF i \in ids
                THEN NewPayment(b, order[i].recipient, order[i].amount, order[i].token)
                ELSE payments[i]]
        /\ paymentFees' = [i \in PaymentIds |->
                IF i \in ids THEN _calculateFee(order[i].amount) ELSE paymentFees[i]]
        /\ UNCHANGED <<registryVars, gateVars, complianceResults, settlementRecoveryRequests,
                       configVars>>


\* order: the payments of the batch, each with recipient, amount and token.
\* The limits are enforced once, on the total.
initiatePaymentBatch(b, order) ==
    LET ids == DOMAIN order
        Sum(S) == SumFunctionOnSet([i \in ids |-> order[i].amount], S)
    IN  /\ ~paused
        /\ onlyRegistered(b)
        /\ ids # {}
        /\ \A i \in ids : /\ Admissible(b, order[i].recipient, order[i].amount, order[i].token)
                          /\ payments[i].status = "NONE"
        /\ _enforceVolumeLimits(b, Sum(ids))
        /\ Escrow(b, [t \in Tokens |-> Sum({i \in ids : order[i].token = t})])
        /\ payments' = [i \in PaymentIds |->
                IF i \in ids
                THEN NewPayment(b, order[i].recipient, order[i].amount, order[i].token)
                ELSE payments[i]]
        /\ paymentFees' = [i \in PaymentIds |->
                IF i \in ids THEN _calculateFee(order[i].amount) ELSE paymentFees[i]]
        /\ UNCHANGED <<registryVars, gateVars, complianceResults, settlementRecoveryRequests,
                       configVars>>
-----------------------------------------------------------------------------
(***************************************************************************)
(* Screening.                                                              *)
(***************************************************************************)
Verdict(r) ==
    IF ~r.sanctionsClear THEN "BLOCKED"
    ELSE IF r.amlRiskScore > RiskThreshold \/ ~r.travelRuleCompliant THEN "FLAGGED"
    ELSE "PASSED"

submitComplianceResult(i, r) ==
    /\ ~paused
    /\ payments[i].status = "PENDING"
    /\ r.amlRiskScore <= MaxRiskScore
    /\ complianceResults' = [complianceResults EXCEPT ![i] = r]
    /\ payments' = [payments EXCEPT ![i].status = Verdict(r)]
    /\ UNCHANGED <<registryVars, gateVars, paymentFees, settlementRecoveryRequests,
                   volumeVars, configVars, tokenVars>>
-----------------------------------------------------------------------------
(***************************************************************************)
(* Settlement, refund, recovery.                                           *)
(***************************************************************************)
_settlementGateAllows(sender, recipient) == requireCleared(sender, recipient)

_settlementAvailable(i) ==
    ~paused /\ _settlementGateAllows(payments[i].sender, payments[i].recipient)

\* The contract pays amounts of a token out; one refused transfer reverts all.
Pay(token, x, amountX, y, amountY) ==
    /\ ~ (x \in blocked /\ amountX > 0) /\ ~ (y \in blocked /\ amountY > 0)
    /\ amountX + amountY <= balanceOf[token][Vault]
    /\ balanceOf' = [balanceOf EXCEPT ![token] =
            [h \in Holders |-> @[h] + (IF h = x THEN amountX ELSE 0)
                                    + (IF h = y THEN amountY ELSE 0)
                                    - (IF h = Vault THEN amountX + amountY ELSE 0)]]
    /\ UNCHANGED blocked

\* delete settlementRecoveryRequests[i], the terminal status, the transfers.
Conclude(i, status, x, amountX, y, amountY) ==
    /\ settlementRecoveryRequests' = [settlementRecoveryRequests EXCEPT ![i] = NoRequest]
    /\ payments' = [payments EXCEPT ![i].status = status]
    /\ Pay(payments[i].token, x, amountX, y, amountY)
    /\ UNCHANGED <<registryVars, gateVars, paymentFees, complianceResults, volumeVars, configVars>>

Return(i) == Conclude(i, "REFUNDED", payments[i].sender, payments[i].amount, treasury, 0)

\* Mutant: the fee is the current one, not the one captured at initiation.
settleAtCurrentFee(i) ==
    LET p == payments[i]
        fee == _calculateFee(p.amount)
    IN  /\ ~paused /\ p.status = "PASSED"
        /\ isBusinessActive(p.sender) /\ requireCleared(p.sender, p.recipient)
        /\ fee <= p.amount
        /\ Conclude(i, "SETTLED", p.recipient, p.amount - fee, treasury, fee)


\* Anyone.
settlePayment(i) ==
    LET p == payments[i] IN
    /\ ~paused
    /\ p.status = "PASSED"
    /\ isBusinessActive(p.sender)
    /\ requireCleared(p.sender, p.recipient)
    /\ Conclude(i, "SETTLED", p.recipient, p.amount - paymentFees[i], treasury, paymentFees[i])

\* officer: the caller holds COMPLIANCE_OFFICER_ROLE.
refundPayment(i, officer) ==
    /\ \/ payments[i].status = "BLOCKED"
       \/ payments[i].status = "FLAGGED" /\ officer
       \/ payments[i].status = "PASSED" /\ officer /\ ~isBusinessActive(payments[i].sender)
    /\ Return(i)

\* The sender only; there can be no recovery request yet.
cancelPayment(i) ==
    /\ payments[i].status = "PENDING"
    /\ Return(i)

Expired(age) == age > SETTLEMENT_RECOVERY_DELAY + SETTLEMENT_RECOVERY_WINDOW

\* Mutant: a request is never replaced, not even once it has expired.
requestOnce(i) ==
    /\ payments[i].status = "PASSED"
    /\ isBusinessActive(payments[i].sender)
    /\ ~_settlementAvailable(i)
    /\ settlementRecoveryRequests[i] = NoRequest
    /\ settlementRecoveryRequests' = [settlementRecoveryRequests EXCEPT ![i] = 0]
    /\ UNCHANGED <<registryVars, gateVars, payments, paymentFees, complianceResults,
                   volumeVars, configVars, tokenVars>>


requestSettlementRecovery(i) ==
    /\ payments[i].status = "PASSED"
    /\ isBusinessActive(payments[i].sender)
    /\ ~_settlementAvailable(i)
    /\ \/ settlementRecoveryRequests[i] = NoRequest
       \/ Expired(settlementRecoveryRequests[i])
    /\ settlementRecoveryRequests' = [settlementRecoveryRequests EXCEPT ![i] = 0]
    /\ UNCHANGED <<registryVars, gateVars, payments, paymentFees, complianceResults,
                   volumeVars, configVars, tokenVars>>

\* Mutant: availability is not read again after the notice period.
executeOnNotice(i) ==
    /\ payments[i].status = "PASSED"
    /\ settlementRecoveryRequests[i] >= SETTLEMENT_RECOVERY_DELAY
    /\ ~Expired(settlementRecoveryRequests[i])
    /\ isBusinessActive(payments[i].sender)
    /\ Return(i)


executeSettlementRecovery(i) ==
    /\ payments[i].status = "PASSED"
    /\ settlementRecoveryRequests[i] >= SETTLEMENT_RECOVERY_DELAY
    /\ ~Expired(settlementRecoveryRequests[i])
    /\ isBusinessActive(payments[i].sender)
    /\ ~_settlementAvailable(i)
    /\ Return(i)
-----------------------------------------------------------------------------
(***************************************************************************)
(* Governance, the tokens' issuers, the clock.                             *)
(***************************************************************************)
configureTrust ==
    /\ ~trustConfigured
    /\ trustConfigured' = TRUE
    /\ UNCHANGED <<registryVars, gateVars, payVars, volumeVars, supportedTokens, paused,
                   baseFee, percentageFee, treasury, tokenVars>>

setSupportedToken(t, supported) ==
    /\ supportedTokens' = IF supported THEN supportedTokens \cup {t} ELSE supportedTokens \ {t}
    /\ UNCHANGED <<registryVars, gateVars, payVars, volumeVars, trustConfigured, paused,
                   baseFee, percentageFee, treasury, tokenVars>>

\* Mutant: the percentage fee has no cap.
setAnyFees(b, r) ==
    /\ baseFee' = b /\ percentageFee' = r
    /\ UNCHANGED <<registryVars, gateVars, payVars, volumeVars, supportedTokens,
                   trustConfigured, paused, treasury, tokenVars>>

setFees(b, r) ==
    /\ r <= MAX_PERCENTAGE_FEE
    /\ baseFee' = b /\ percentageFee' = r
    /\ UNCHANGED <<registryVars, gateVars, payVars, volumeVars, supportedTokens,
                   trustConfigured, paused, treasury, tokenVars>>

setTreasury(t) ==
    /\ treasury' = t
    /\ UNCHANGED <<registryVars, gateVars, payVars, volumeVars, supportedTokens,
                   trustConfigured, paused, baseFee, percentageFee, tokenVars>>

SetPaused ==
    /\ paused' \in Pauses \ {paused}
    /\ UNCHANGED <<registryVars, gateVars, payVars, volumeVars, supportedTokens,
                   trustConfigured, baseFee, percentageFee, treasury, tokenVars>>

IssuerChanges ==
    /\ blocked' \in SUBSET Blockable \ {blocked}
    /\ UNCHANGED <<registryVars, gateVars, payVars, volumeVars, configVars, balanceOf>>

Registry == /\ RegistryCall \/ SetRegistryPaused
            /\ UNCHANGED <<gateVars, payVars, volumeVars, configVars, tokenVars>>

Gate == GateCall /\ UNCHANGED <<registryVars, payVars, volumeVars, configVars, tokenVars>>

\* block.timestamp moves into the next day: 1 days, 30 days and
\* REVERIFICATION_INTERVAL are multiples of it.
Older(age, newMonth) == IF newMonth \/ age = "earlier" THEN "earlier" ELSE "this month"

Tick ==
    LET newMonth == dayOfMonth + 1 = DaysPerMonth IN
    /\ AgeVerifications
    /\ dayOfMonth' = (dayOfMonth + 1) % DaysPerMonth
    /\ dailyVolume' = [b \in Businesses |-> 0]
    /\ monthlyVolume' = [b \in Businesses |-> IF newMonth THEN 0 ELSE monthlyVolume[b]]
    /\ payments' = [i \in PaymentIds |->
            [payments[i] EXCEPT !.created = Older(@, newMonth)]]
    /\ settlementRecoveryRequests' = [i \in PaymentIds |->
            LET age == settlementRecoveryRequests[i] IN
            IF age = NoRequest THEN NoRequest
            ELSE IF age < MaxRequestAge THEN age + 1 ELSE MaxRequestAge]
    /\ UNCHANGED <<licenseToWallet, totalBusinesses, verifiedBusinessCount, registryPaused,
                   gateVars, paymentFees, complianceResults, configVars, tokenVars>>
-----------------------------------------------------------------------------
Orders == UNION {[ids -> [recipient: Wallets, amount: Amounts, token: Tokens]] :
                    ids \in SUBSET PaymentIds}

Initiate == \E b \in Businesses :
    \/ \E r \in Wallets, a \in Amounts, t \in Tokens, i \in PaymentIds :
            initiatePayment(b, r, a, t, i)
    \/ \E order \in Orders : initiatePaymentBatch(b, order)

Screen(i) == \E r \in [sanctionsClear: BOOLEAN, amlRiskScore: RiskScores,
                       travelRuleCompliant: BOOLEAN] : submitComplianceResult(i, r)

Govern == \/ configureTrust \/ SetPaused
          \/ \E t \in Tokens, supported \in BOOLEAN : setSupportedToken(t, supported)
          \/ \E b \in BaseFees, r \in PercentageFees : setFees(b, r)
          \/ \E t \in Treasuries : setTreasury(t)

Handle(i) == \/ Screen(i) \/ settlePayment(i) \/ cancelPayment(i)
             \/ \E officer \in BOOLEAN : refundPayment(i, officer)
             \/ requestSettlementRecovery(i) \/ executeSettlementRecovery(i)

Next == \/ Initiate \/ \E i \in PaymentIds : Handle(i)
        \/ Govern \/ Registry \/ Gate \/ IssuerChanges \/ Tick

Spec == Init /\ [][Next]_vars
-----------------------------------------------------------------------------
(***************************************************************************)
(* Properties.                                                             *)
(***************************************************************************)
\* The types of NoblePay's storage and of the token ledger.
TypeOK ==
    /\ payments \in [PaymentIds -> Payment]
    /\ paymentFees \in [PaymentIds -> Nat]
    /\ complianceResults \in [PaymentIds -> ComplianceResult]
    /\ settlementRecoveryRequests \in [PaymentIds -> Nat \cup {NoRequest}]
    /\ dailyVolume \in [Businesses -> Nat] /\ monthlyVolume \in [Businesses -> Nat]
    /\ dayOfMonth \in 0 .. DaysPerMonth - 1
    /\ supportedTokens \subseteq Tokens /\ trustConfigured \in BOOLEAN /\ paused \in BOOLEAN
    /\ baseFee \in Nat /\ percentageFee \in 0 .. MAX_PERCENTAGE_FEE
    /\ treasury \in Treasuries
    /\ balanceOf \in [Tokens -> [Holders -> Nat]]
    /\ blocked \subseteq Wallets \cup Treasuries

amountOf == [i \in PaymentIds |-> payments[i].amount]
netOf    == [i \in PaymentIds |-> payments[i].amount - paymentFees[i]]

In(S, t)       == {i \in PaymentIds : payments[i].status \in S /\ payments[i].token = t}
SentBy(w, t)   == {i \in In(InEscrow \cup {"SETTLED"}, t) : payments[i].sender = w}
PaidTo(w, t)   == {i \in In({"SETTLED"}, t) : payments[i].recipient = w}
CreatedBy(b, ages) ==
    {i \in PaymentIds : payments[i].sender = b /\ payments[i].created \in ages}

\* The token ledger is explained, to the unit, by the payment records and
\* their fee snapshots: the contract holds exactly the escrow of the payments
\* still open, a sender is short of exactly what is in escrow or settled, a
\* recipient gained exactly the net of its settled payments and the treasuries
\* together exactly their fees, although fees and treasury change while
\* payments are open.  Paying anything twice, or from another payment's
\* escrow, breaks it (NoblePay.sol:589-703).
LedgerExplained ==
    \A t \in Tokens :
        /\ balanceOf[t][Vault] = SumFunctionOnSet(amountOf, In(InEscrow, t))
        /\ SumFunctionOnSet(balanceOf[t], Treasuries)
             = SumFunctionOnSet(paymentFees, In({"SETTLED"}, t))
        /\ \A w \in Wallets :
             balanceOf[t][w] = InitialFunds - SumFunctionOnSet(amountOf, SentBy(w, t))
                                            + SumFunctionOnSet(netOf, PaidTo(w, t))

\* The payments a business initiated on one day, alone or in batches, stay
\* within the daily limit of its tier, and those of one month within the
\* monthly limit; the counters reset with the calendar and never with a
\* refund (NoblePay.sol:828-851).
VolumeWithinLimits ==
    \A b \in Businesses :
        LET Volume(ages) == SumFunctionOnSet(amountOf, CreatedBy(b, ages))
        IN  /\ Volume({"today"}) <= DailyLimit[getBusinessTier(b)]
            /\ Volume({"today", "this month"}) <= MonthlyLimit[getBusinessTier(b)]

Clean(i) == Verdict(complianceResults[i]) = "PASSED"

\* Money leaves escrow only as the screening and the live trust contracts
\* allow at that moment.  It reaches the recipient only with a clean result on
\* record, an active sender and an open corridor; it goes back to an active
\* sender of a clean payment only while the corridor cannot settle.  And no
\* payment leaves escrow twice, is screened twice, or enters it again.
OutcomeJustified ==
    [][\A i \in PaymentIds :
        LET old == payments[i]
            new == payments'[i]
            open == requireCleared(old.sender, old.recipient) /\ ~paused
        IN  /\ new.status = "SETTLED" /\ old.status # "SETTLED" =>
                  /\ old.status = "PASSED" /\ Clean(i)
                  /\ isBusinessActive(old.sender) /\ open
            /\ new.status = "REFUNDED" /\ old.status # "REFUNDED" /\ old.status # "PENDING"
                  => ~Clean(i) \/ ~isBusinessActive(old.sender) \/ ~open
            /\ old.status \in {"SETTLED", "REFUNDED"} => new.status = old.status
            /\ old.status \in {"PASSED", "FLAGGED", "BLOCKED"} =>
                  new.status \in {old.status, "SETTLED", "REFUNDED"}]_vars
=============================================================================
