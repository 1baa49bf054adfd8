------------------------------ MODULE MCNoblePay ------------------------------
(***************************************************************************)
(* Instances of NoblePay for TLC: businesses pay wallets, and every seal   *)
(* is minted for a corridor from a business to another wallet.  Safety is  *)
(* checked in three scenarios explored side by side, progress under        *)
(* fairness in a fourth, "exit".                                           *)
(***************************************************************************)
EXTENDS NoblePay

VARIABLE scenario
allVars == <<vars, scenario>>

MCWellFormed   == [j \in Jurisdictions |-> Licenses]
MCPurpose      == [s \in Seals |-> CHOOSE k \in Corridors : k[1] # k[2]]
MCPolicies     == {Seals}
MCNoLimit      == [t \in Tiers |-> 100]
MCDailyLimit   == [t \in Tiers |-> IF t = 2 THEN 100 ELSE 5 + t]
MCMonthlyLimit == [t \in Tiers |-> IF t = 2 THEN 100 ELSE 7 + 2 * t]

\* The state after governance has configured the contracts, every business has
\* registered, been verified and upgraded to tier t, and the corridor of every
\* seal is cleared.
OnboardedInit(t) ==
    /\ businesses \in [Businesses ->
            [license: Licenses, jurisdiction: Jurisdictions, kycStatus: {"VERIFIED"},
             tier: {t}, left: {REVERIFICATION_INTERVAL}, complianceOfficer: Businesses]]
    /\ licenseToWallet \in [Licenses -> Businesses]
    /\ LicenseExclusive
    /\ totalBusinesses = Cardinality(Businesses) /\ verifiedBusinessCount = totalBusinesses
    /\ registryPaused = FALSE
    /\ clearances = [k \in Corridors |->
            IF \E s \in Seals : Purpose[s] = k
            THEN [sealId |-> CHOOSE s \in Seals : Purpose[s] = k, exists |-> TRUE,
                  revoked |-> FALSE]
            ELSE NoClearance]
    /\ sealUsed = Seals /\ policy \in Policies /\ gatePaused = FALSE
    /\ sealStatus = [s \in Seals |-> "active"]
    /\ payments = [i \in PaymentIds |-> NoPayment]
    /\ paymentFees = [i \in PaymentIds |-> 0]
    /\ complianceResults = [i \in PaymentIds |-> NoResult]
    /\ settlementRecoveryRequests = [i \in PaymentIds |-> NoRequest]
    /\ dailyVolume = [b \in Businesses |-> 0] /\ monthlyVolume = dailyVolume
    /\ dayOfMonth = 0
    /\ supportedTokens = Tokens /\ trustConfigured = TRUE /\ paused = FALSE
    /\ baseFee \in BaseFees
    /\ percentageFee \in {r \in PercentageFees : r <= MAX_PERCENTAGE_FEE}
    /\ treasury \in Treasuries
    /\ balanceOf = [k \in Tokens |-> [x \in Holders |-> IF x \in Wallets THEN InitialFunds ELSE 0]]
    /\ blocked = {}

----------------------------------------------------------------------------
(* Safety. *)

\* "ledger": two payments, alone or batched, and everything that moves tokens
\* or makes a payment recoverable (verifications lapse after two days).
LedgerNext ==
    \/ Initiate \/ Tick
    \/ \E i \in PaymentIds : Handle(i)
    \/ \E b \in BaseFees, r \in PercentageFees : setFees(b, r)
    \/ \E t \in Treasuries : setTreasury(t)
    \/ /\ \E s \in Seals : SealMoves(s)
       /\ UNCHANGED <<registryVars, payVars, volumeVars, configVars, tokenVars>>

\* "volume": three payments, tier upgrades and cancellations over the days.
VolumeNext ==
    \/ Initiate \/ Tick
    \/ \E i \in PaymentIds : cancelPayment(i)
    \/ /\ \E b \in Businesses : verifyBusiness(b) \/ \E t \in Tiers : upgradeTier(b, t)
       /\ UNCHANGED <<gateVars, payVars, volumeVars, configVars, tokenVars>>

\* Bounds of the scenarios.  In "deployment" every operation of the three
\* contracts is possible from their deployment on, for one small payment.
Initiated == {i \in PaymentIds : payments[i].status # "NONE"}
NoFees    == baseFee = 0 /\ percentageFee = 0 /\ treasury = CHOOSE t \in Treasuries : TRUE
Scope ==
    /\ scenario = "ledger" =>
          /\ Cardinality(Initiated) <= 2
          /\ \A i \in Initiated : /\ complianceResults[i].amlRiskScore <= RiskThreshold
                                  /\ complianceResults[i].sanctionsClear
                                     \/ ~complianceResults[i].travelRuleCompliant
          /\ \A i, j \in Initiated : payments[i].created = payments[j].created
          /\ percentageFee > 0
    /\ scenario = "volume" => NoFees /\ \A b \in Businesses : getBusinessTier(b) <= 1
    /\ scenario = "deployment" =>
          /\ NoFees /\ Cardinality(Initiated) <= 1 /\ \A i \in Initiated : payments[i].amount = 2
          /\ \A b \in Businesses : /\ getBusinessTier(b) = 0
                                   /\ businesses[b].complianceOfficer \in {b, None}
          /\ Cardinality({f \in {1, 2, 3} : <<paused, gatePaused, registryPaused>>[f]}) <= 1

PaymentsInit ==
    /\ \/ scenario = "ledger" /\ OnboardedInit(2)
       \/ scenario = "volume" /\ OnboardedInit(0)
       \/ scenario = "deployment" /\ Init
    /\ Scope

PaymentsNext ==
    /\ UNCHANGED scenario
    /\ \/ scenario = "ledger" /\ LedgerNext
       \/ scenario = "volume" /\ VolumeNext
       \/ scenario = "deployment" /\ Next
    /\ Scope'

PaymentsSpec == PaymentsInit /\ [][PaymentsNext]_allVars


----------------------------------------------------------------------------
(***************************************************************************)
(* NoblePay under the fairness of parties that want the escrow resolved:   *)
(* the verifier screens, somebody settles, the compliance officer refunds  *)
(* and recovers, the sender cancels while screening is paused, and the     *)
(* treasurer replaces a treasury the token refuses to pay.  Administrators *)
(* pause and unpause, the registry suspends and reinstates, seals expire   *)
(* and corridors are revoked, all at any time and without end.             *)
(***************************************************************************)

\* The sender gives up on a payment that nobody may screen.
CancelWhilePaused(i) == paused /\ cancelPayment(i)

OfficerRefunds(i) == refundPayment(i, TRUE)

RotateTreasury == treasury \in blocked /\ \E t \in Treasuries \ blocked : setTreasury(t)

ExitFairness ==
    /\ WF_vars(Tick) /\ SF_vars(RotateTreasury)
    /\ \A i \in PaymentIds :
        /\ SF_vars(Screen(i)) /\ SF_vars(CancelWhilePaused(i))
        /\ SF_vars(settlePayment(i)) /\ SF_vars(OfficerRefunds(i))
        /\ SF_vars(requestSettlementRecovery(i)) /\ SF_vars(executeSettlementRecovery(i))

\* Everything that opens, closes or resolves a payment's exits.  The treasurer
\* moves the fees only away from an address the token refuses.
ExitNext ==
    \/ Initiate \/ Tick \/ IssuerChanges \/ RotateTreasury \/ SetPaused \/ Gate
    \/ \E i \in PaymentIds : Handle(i)
    \/ /\ \E b \in Businesses : \/ verifyBusiness(b) \/ suspendBusiness(b)
                                \/ reinstateBusiness(b) \/ revokeBusiness(b)
       /\ UNCHANGED <<gateVars, payVars, volumeVars, configVars, tokenVars>>

ExitInit == OnboardedInit(0) /\ scenario = "exit"

FairSpec == /\ ExitInit
            /\ [][ExitNext /\ UNCHANGED scenario]_allVars /\ ExitFairness

\* One payment and every operation, from deployment on.
RecoveryInit == Init /\ scenario = "deployment"

RecoverySpec == /\ RecoveryInit
                /\ [][Next /\ UNCHANGED scenario]_allVars

----------------------------------------------------------------------------
(* Properties. *)

\* Escrow is never trapped: whatever is paused, suspended, revoked or expired,
\* however often and in whatever order, every payment ends settled or
\* refunded.  A recovery request that expired unused is replaced, so a missed
\* execution window never strands a payment (NoblePay.sol:543-568, 600-613).
EscrowResolves ==
    \A i \in PaymentIds :
        payments[i].status \in InEscrow ~> payments[i].status \in {"SETTLED", "REFUNDED"}

\* What the comment on _settlementAvailable says of it: for a clean payment of
\* an active sender it models the exact availability of settlePayment, so
\* recovery is refused only while settlement is possible (NoblePay.sol:876-883).
RecoveryModelsSettlement ==
    \A i \in PaymentIds :
        payments[i].status = "PASSED" /\ isBusinessActive(payments[i].sender) =>
            (_settlementAvailable(i) <=> ENABLED settlePayment(i))
=============================================================================
