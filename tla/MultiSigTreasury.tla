--------------------------- MODULE MultiSigTreasury ---------------------------
(***************************************************************************)
(* The MultiSigTreasury contract (contracts/src/MultiSigTreasury.sol):     *)
(* transfers that signers propose, approve or reject and that execute      *)
(* after a timelock; recurring payments under a mandate approved the same  *)
(* way; budgets charged by both; and allocations to yield protocols.       *)
(*                                                                         *)
(* Each action is one transaction, and the guards are its reverts.  The    *)
(* age of a proposal or authorization is the time since createdAt, and the *)
(* time until a recurring payment is due is kept instead of nextExecution. *)
(***************************************************************************)
EXTENDS SignerSet, TreasuryBudgets, Functions

CONSTANTS
    ProposalIds, AuthorizationIds, RecurringIds,  \* keccak256 of nonces
    Recipients, Protocols, Treasury,              \* addresses; the contract's own
    Tokens, Native,                               \* assets; address(0)
    Amounts, InitialFunds,
    SMALL_TX_THRESHOLD, LARGE_TX_THRESHOLD,
    STANDARD_TIMELOCK, LARGE_TIMELOCK, EMERGENCY_TIMELOCK, PROPOSAL_EXPIRY,
    Frequencies, MaxExecutions,                   \* offered ones; 0 is unlimited
    MaxAllocations,                               \* offered to approveYieldProtocol
    TreasuryPauses

Holders == Recipients \cup Protocols \cup {Treasury}

ASSUME TreasuryAssumption ==
    /\ IsFiniteSet(ProposalIds) /\ IsFiniteSet(AuthorizationIds) /\ IsFiniteSet(RecurringIds)
    /\ None \notin AuthorizationIds
    /\ Treasury \notin Recipients \cup Protocols /\ Recipients \cap Protocols = {}
    /\ Amounts \subseteq Nat /\ InitialFunds \in Nat
    /\ SMALL_TX_THRESHOLD \in Nat /\ LARGE_TX_THRESHOLD \in Nat
    /\ {STANDARD_TIMELOCK, LARGE_TIMELOCK, EMERGENCY_TIMELOCK} \subseteq Nat
    /\ PROPOSAL_EXPIRY \in Nat
    /\ Frequencies \subseteq Nat \ {0} /\ MaxExecutions \subseteq Nat
    /\ MaxAllocations \subseteq Nat /\ TreasuryPauses \subseteq BOOLEAN

VARIABLES
    proposals, proposalApprovals, proposalRejections,
    recurringAuthorizations, recurringAuthorizationApprovals,
    latestRecurringAuthorization,  \* terms -> the authorization proposed last
    recurringPayments, yieldProtocols, supportedTokens, paused,
    balanceOf                      \* token -> address -> tokens held

proposalVars  == <<proposals, proposalApprovals, proposalRejections>>
recurringVars == <<recurringAuthorizations, recurringAuthorizationApprovals,
                   latestRecurringAuthorization, recurringPayments>>
otherVars     == <<yieldProtocols, supportedTokens, paused>>
vars == <<signerVars, budgetVars, proposalVars, recurringVars, otherVars, balanceOf>>

ProposalStatus == {"NONE", "PENDING", "APPROVED", "EXECUTED", "REJECTED", "CANCELLED"}
Proposal == [recipient: Recipients \cup {None}, token: Tokens \cup {None}, amount: Nat,
             tier: TxTier, status: ProposalStatus, approvalCount: Nat, rejectionCount: Nat,
             requiredApprovals: Nat, age: Nat, budgetId: BudgetIds \cup {NoBudget}]
NoProposal == [recipient |-> None, token |-> None, amount |-> 0, tier |-> "SMALL",
               status |-> "NONE", approvalCount |-> 0, rejectionCount |-> 0,
               requiredApprovals |-> 0, age |-> 0, budgetId |-> NoBudget]

\* What hashRecurringPaymentTerms commits to.
Terms == [recipient: Recipients, token: Tokens, amount: Amounts, frequency: Frequencies,
          maxExecutions: MaxExecutions, budgetId: BudgetIds \cup {NoBudget}]
NoTerms == None

\* The hash of a payment's terms is not zero.
ASSUME TermsAssumption == NoTerms \notin Terms

RecurringAuthorizationStatus == {"NONE", "PENDING", "APPROVED", "CONSUMED"}
RecurringAuthorization == [terms: Terms \cup {NoTerms}, approvalCount: Nat,
    requiredApprovals: Nat, tier: TxTier, age: Nat, status: RecurringAuthorizationStatus]
NoAuthorization == [terms |-> NoTerms, approvalCount |-> 0, requiredApprovals |-> 0,
                    tier |-> "SMALL", age |-> 0, status |-> "NONE"]

RecurringPayment == [terms: Terms \cup {NoTerms}, left: Nat, executionCount: Nat,
                     active: BOOLEAN]
NoRecurring == [terms |-> NoTerms, left |-> 0, executionCount |-> 0, active |-> FALSE]

YieldProtocol == [maxAllocation: Nat, currentAllocation: Nat, active: BOOLEAN]
NoProtocol == [maxAllocation |-> 0, currentAllocation |-> 0, active |-> FALSE]

Init ==
    /\ SignersInit /\ BudgetsInit
    /\ proposals = [i \in ProposalIds |-> NoProposal]
    /\ proposalApprovals = [i \in ProposalIds |-> {}]
    /\ proposalRejections = [i \in ProposalIds |-> {}]
    /\ recurringAuthorizations = [a \in AuthorizationIds |-> NoAuthorization]
    /\ recurringAuthorizationApprovals = [a \in AuthorizationIds |-> {}]
    /\ latestRecurringAuthorization = [t \in Terms |-> None]
    /\ recurringPayments = [r \in RecurringIds |-> NoRecurring]
    /\ yieldProtocols = [y \in Protocols |-> NoProtocol]
    /\ supportedTokens = {} /\ paused = FALSE
    /\ balanceOf = [t \in Tokens |-> [h \in Holders |-> IF h = Treasury THEN InitialFunds ELSE 0]]
-----------------------------------------------------------------------------
(***************************************************************************)
(* Shared rules.                                                           *)
(***************************************************************************)
\* _approvalRequirements: the tier of a transfer decides both what it needs.
Tier(amount, isEmergency) ==
    IF isEmergency THEN "EMERGENCY"
    ELSE IF amount <= SMALL_TX_THRESHOLD THEN "SMALL"
    ELSE IF amount <= LARGE_TX_THRESHOLD THEN "MEDIUM" ELSE "LARGE"

Required(tier) == signerConfig.threshold[tier]

Timelock(tier) == CASE tier = "EMERGENCY" -> EMERGENCY_TIMELOCK
                    [] tier = "LARGE"     -> LARGE_TIMELOCK
                    [] OTHER              -> STANDARD_TIMELOCK

Expired(age) == age > PROPOSAL_EXPIRY
Matured(tier, age) == age >= Timelock(tier) /\ ~Expired(age)

Payable(token, amount, budgetId) ==
    /\ amount # 0
    /\ token = Native \/ token \in supportedTokens
    /\ WithinBudget(budgetId, amount)

Transfer(token, to, amount) ==
    /\ amount <= balanceOf[token][Treasury]
    /\ balanceOf' = [balanceOf EXCEPT ![token][Treasury] = @ - amount, ![token][to] = @ + amount]
-----------------------------------------------------------------------------
(***************************************************************************)
(* Proposals.  caller is a signer or a delegate; it votes as the signer.   *)
(***************************************************************************)
createProposal(caller, recipient, token, amount, isEmergency, budgetId, i) ==
    LET tier == Tier(amount, isEmergency) IN
    /\ ~paused
    /\ onlySignerOrDelegate(caller)
    /\ Payable(token, amount, budgetId)
    /\ proposals[i].status = "NONE"
    /\ proposals' = [proposals EXCEPT ![i] =
            [recipient |-> recipient, token |-> token, amount |-> amount, tier |-> tier,
             status |-> "PENDING", approvalCount |-> 1, rejectionCount |-> 0,
             requiredApprovals |-> Required(tier), age |-> 0, budgetId |-> budgetId]]
    /\ proposalApprovals' = [proposalApprovals EXCEPT ![i] = {_resolveApprover(caller)}]
    /\ UNCHANGED <<signerVars, budgetVars, proposalRejections, recurringVars, otherVars, balanceOf>>

\* Mutant: an identity can approve as often as it likes.
approveAgain(caller, i) ==
    LET count == proposals[i].approvalCount + 1 IN
    /\ ~paused /\ onlySignerOrDelegate(caller)
    /\ proposals[i].status = "PENDING" /\ ~Expired(proposals[i].age)
    /\ proposalApprovals' = [proposalApprovals EXCEPT ![i] = @ \cup {_resolveApprover(caller)}]
    /\ proposals' = [proposals EXCEPT ![i].approvalCount = count,
            ![i].status = IF count >= proposals[i].requiredApprovals THEN "APPROVED" ELSE @]
    /\ UNCHANGED <<signerVars, budgetVars, proposalRejections, recurringVars, otherVars, balanceOf>>

approveProposal(caller, i) ==
    LET p == proposals[i]
        approver == _resolveApprover(caller)
    IN  /\ ~paused
        /\ onlySignerOrDelegate(caller)
        /\ p.status = "PENDING"
        /\ ~Expired(p.age)
        /\ approver \notin proposalApprovals[i]
        /\ proposalApprovals' = [proposalApprovals EXCEPT ![i] = @ \cup {approver}]
        /\ proposals' = [proposals EXCEPT
                ![i].approvalCount = @ + 1,
                ![i].status = IF p.approvalCount + 1 >= p.requiredApprovals THEN "APPROVED" ELSE @]
        /\ UNCHANGED <<signerVars, budgetVars, proposalRejections, recurringVars, otherVars,
                       balanceOf>>

\* totalSigners - requiredApprovals is checked arithmetic: it reverts when
\* signers were removed below what the proposal requires.
rejectProposal(caller, i) ==
    LET p == proposals[i]
        canonical == _resolveApprover(caller)
        slack == signerConfig.totalSigners - p.requiredApprovals
    IN  /\ ~paused
        /\ onlySignerOrDelegate(caller)
        /\ p.status = "PENDING"
        /\ canonical \notin proposalRejections[i]
        /\ slack >= 0
        /\ proposalRejections' = [proposalRejections EXCEPT ![i] = @ \cup {canonical}]
        /\ proposals' = [proposals EXCEPT
                ![i].rejectionCount = @ + 1,
                ![i].status = IF p.rejectionCount + 1 >= slack + 1 THEN "REJECTED" ELSE @]
        /\ UNCHANGED <<signerVars, budgetVars, proposalApprovals, recurringVars, otherVars,
                       balanceOf>>

\* Mutant: the budget is checked at creation only.
executeUncharged(caller, i) ==
    LET p == proposals[i] IN
    /\ ~paused /\ onlySignerOrDelegate(caller)
    /\ p.status = "APPROVED" /\ Matured(p.tier, p.age)
    /\ proposals' = [proposals EXCEPT ![i].status = "EXECUTED"]
    /\ Transfer(p.token, p.recipient, p.amount)
    /\ UNCHANGED <<signerVars, budgetVars, proposalApprovals, proposalRejections, recurringVars,
                   otherVars>>

executeProposal(caller, i) ==
    LET p == proposals[i] IN
    /\ ~paused
    /\ onlySignerOrDelegate(caller)
    /\ p.status = "APPROVED"
    /\ Matured(p.tier, p.age)
    /\ proposals' = [proposals EXCEPT ![i].status = "EXECUTED"]
    /\ Charge(p.budgetId, p.amount)
    /\ Transfer(p.token, p.recipient, p.amount)
    /\ UNCHANGED <<signerVars, proposalApprovals, proposalRejections, recurringVars, otherVars>>

\* By the proposer, a signer or not by now, or an administrator.
cancelProposal(i) ==
    /\ ~paused
    /\ proposals[i].status \in {"PENDING", "APPROVED"}
    /\ proposals' = [proposals EXCEPT ![i].status = "CANCELLED"]
    /\ UNCHANGED <<signerVars, budgetVars, proposalApprovals, proposalRejections, recurringVars,
                   otherVars, balanceOf>>
-----------------------------------------------------------------------------
(***************************************************************************)
(* Recurring payments.                                                     *)
(***************************************************************************)
TermsPayable(t) == Payable(t.token, t.amount, t.budgetId)

StillOpen(t) ==
    LET a == latestRecurringAuthorization[t] IN
    a # None /\ recurringAuthorizations[a].status \in {"PENDING", "APPROVED"}
             /\ ~Expired(recurringAuthorizations[a].age)

proposeRecurringPayment(caller, t, a) ==
    LET tier == Tier(t.amount, FALSE) IN
    /\ ~paused
    /\ onlySignerOrDelegate(caller)
    /\ TermsPayable(t)
    /\ ~StillOpen(t)
    /\ recurringAuthorizations[a].status = "NONE"
    /\ recurringAuthorizations' = [recurringAuthorizations EXCEPT ![a] =
            [terms |-> t, approvalCount |-> 1, requiredApprovals |-> Required(tier),
             tier |-> tier, age |-> 0,
             status |-> IF Required(tier) = 1 THEN "APPROVED" ELSE "PENDING"]]
    /\ latestRecurringAuthorization' = [latestRecurringAuthorization EXCEPT ![t] = a]
    /\ recurringAuthorizationApprovals' =
            [recurringAuthorizationApprovals EXCEPT ![a] = {_resolveApprover(caller)}]
    /\ UNCHANGED <<signerVars, budgetVars, proposalVars, recurringPayments, otherVars, balanceOf>>

approveRecurringPayment(caller, a) ==
    LET auth == recurringAuthorizations[a]
        approver == _resolveApprover(caller)
    IN  /\ ~paused
        /\ onlySignerOrDelegate(caller)
        /\ auth.status = "PENDING"
        /\ ~Expired(auth.age)
        /\ approver \notin recurringAuthorizationApprovals[a]
        /\ recurringAuthorizationApprovals' =
                [recurringAuthorizationApprovals EXCEPT ![a] = @ \cup {approver}]
        /\ recurringAuthorizations' = [recurringAuthorizations EXCEPT
                ![a].approvalCount = @ + 1,
                ![a].status = IF auth.approvalCount + 1 >= auth.requiredApprovals
                              THEN "APPROVED" ELSE @]
        /\ UNCHANGED <<signerVars, budgetVars, proposalVars, latestRecurringAuthorization,
                       recurringPayments, otherVars, balanceOf>>

\* Mutant: the authorization is not consumed.
createUnconsumed(t, r) ==
    LET a == latestRecurringAuthorization[t] IN
    /\ ~paused /\ TermsPayable(t) /\ a # None
    /\ recurringAuthorizations[a].status = "APPROVED"
    /\ Matured(recurringAuthorizations[a].tier, recurringAuthorizations[a].age)
    /\ recurringPayments[r].terms = NoTerms
    /\ recurringPayments' = [recurringPayments EXCEPT ![r] =
            [terms |-> t, left |-> t.frequency, executionCount |-> 0, active |-> TRUE]]
    /\ UNCHANGED <<signerVars, budgetVars, proposalVars, recurringAuthorizations,
                   recurringAuthorizationApprovals, latestRecurringAuthorization, otherVars,
                   balanceOf>>

\* By an administrator, for terms the signers approved.
createRecurringPayment(t, r) ==
    LET a == latestRecurringAuthorization[t] IN
    /\ ~paused
    /\ TermsPayable(t)
    /\ a # None
    /\ recurringAuthorizations[a].status = "APPROVED"
    /\ Matured(recurringAuthorizations[a].tier, recurringAuthorizations[a].age)
    /\ recurringPayments[r].terms = NoTerms
    /\ recurringAuthorizations' = [recurringAuthorizations EXCEPT ![a].status = "CONSUMED"]
    /\ recurringPayments' = [recurringPayments EXCEPT ![r] =
            [terms |-> t, left |-> t.frequency, executionCount |-> 0, active |-> TRUE]]
    /\ UNCHANGED <<signerVars, budgetVars, proposalVars, recurringAuthorizationApprovals,
                   latestRecurringAuthorization, otherVars, balanceOf>>

\* By anyone.
executeRecurringPayment(r) ==
    LET rp == recurringPayments[r]
        t  == rp.terms
    IN  /\ ~paused
        /\ rp.active
        /\ rp.left = 0
        /\ t.maxExecutions > 0 => rp.executionCount < t.maxExecutions
        /\ recurringPayments' = [recurringPayments EXCEPT ![r].executionCount = @ + 1,
                                                          ![r].left = t.frequency]
        /\ Charge(t.budgetId, t.amount)
        /\ Transfer(t.token, t.recipient, t.amount)
        /\ UNCHANGED <<signerVars, proposalVars, recurringAuthorizations,
                       recurringAuthorizationApprovals, latestRecurringAuthorization, otherVars>>

\* By any signer or delegate alone.
revokeRecurringPayment(caller, r) ==
    /\ ~paused
    /\ onlySignerOrDelegate(caller)
    /\ recurringPayments[r].active
    /\ recurringPayments' = [recurringPayments EXCEPT ![r].active = FALSE]
    /\ UNCHANGED <<signerVars, budgetVars, proposalVars, recurringAuthorizations,
                   recurringAuthorizationApprovals, latestRecurringAuthorization, otherVars,
                   balanceOf>>
-----------------------------------------------------------------------------
(***************************************************************************)
(* Yield, administration, the clock.                                       *)
(***************************************************************************)
approveYieldProtocol(y, max) ==
    /\ yieldProtocols' = [yieldProtocols EXCEPT ![y] =
            [maxAllocation |-> max, currentAllocation |-> 0, active |-> TRUE]]
    /\ UNCHANGED <<signerVars, budgetVars, proposalVars, recurringVars, supportedTokens, paused,
                   balanceOf>>

\* By the yield manager.
allocateToYield(y, token, amount) ==
    /\ ~paused
    /\ yieldProtocols[y].active
    /\ amount # 0
    /\ token # Native
    /\ yieldProtocols[y].currentAllocation + amount <= yieldProtocols[y].maxAllocation
    /\ yieldProtocols' = [yieldProtocols EXCEPT ![y].currentAllocation = @ + amount]
    /\ Transfer(token, y, amount)
    /\ UNCHANGED <<signerVars, budgetVars, proposalVars, recurringVars, supportedTokens, paused>>

setSupportedToken(t, supported) ==
    /\ t # Native
    /\ supportedTokens' = IF supported THEN supportedTokens \cup {t} ELSE supportedTokens \ {t}
    /\ UNCHANGED <<signerVars, budgetVars, proposalVars, recurringVars, yieldProtocols, paused,
                   balanceOf>>

SetPaused ==
    /\ paused' \in TreasuryPauses \ {paused}
    /\ UNCHANGED <<signerVars, budgetVars, proposalVars, recurringVars, yieldProtocols,
                   supportedTokens, balanceOf>>

\* Past the expiry the exact age no longer matters.
Older(age) == IF Expired(age) THEN age ELSE age + 1

Tick ==
    /\ AgeDelegations /\ AgeBudgets
    /\ proposals' = [i \in ProposalIds |->
            IF proposals[i].status \in {"PENDING", "APPROVED"}
            THEN [proposals[i] EXCEPT !.age = Older(@)] ELSE proposals[i]]
    /\ recurringAuthorizations' = [a \in AuthorizationIds |->
            IF recurringAuthorizations[a].status \in {"PENDING", "APPROVED"}
            THEN [recurringAuthorizations[a] EXCEPT !.age = Older(@)]
            ELSE recurringAuthorizations[a]]
    /\ recurringPayments' = [r \in RecurringIds |->
            IF recurringPayments[r].left > 0 THEN [recurringPayments[r] EXCEPT !.left = @ - 1]
            ELSE recurringPayments[r]]
    /\ UNCHANGED <<signers, _signerIndex, hasSignerRole, signerConfig, rolesEdited,
                   proposalApprovals, proposalRejections, recurringAuthorizationApprovals,
                   latestRecurringAuthorization, otherVars, balanceOf>>
-----------------------------------------------------------------------------
Charged == BudgetIds \cup {NoBudget}

Propose == \E x \in People, r \in Recipients, t \in Tokens, n \in Amounts, e \in BOOLEAN,
              b \in Charged, i \in ProposalIds : createProposal(x, r, t, n, e, b, i)

Vote(i) == \/ \E x \in People : approveProposal(x, i) \/ rejectProposal(x, i)
           \/ cancelProposal(i)

Execute(i) == \E x \in People : executeProposal(x, i)

Recur == \/ \E t \in Terms : \/ \E x \in People, a \in AuthorizationIds :
                                    proposeRecurringPayment(x, t, a)
                             \/ \E r \in RecurringIds : createRecurringPayment(t, r)
         \/ \E x \in People, a \in AuthorizationIds : approveRecurringPayment(x, a)
         \/ \E r \in RecurringIds : \/ executeRecurringPayment(r)
                                    \/ \E x \in People : revokeRecurringPayment(x, r)

Yield == \E y \in Protocols : \/ \E n \in MaxAllocations : approveYieldProtocol(y, n)
                              \/ \E t \in Tokens, n \in Amounts : allocateToYield(y, t, n)

Signers == /\ ManageSigners \/ (~paused /\ Delegate)
           /\ UNCHANGED <<budgetVars, proposalVars, recurringVars, otherVars, balanceOf>>

Allot == /\ ~paused /\ CreateBudget
         /\ UNCHANGED <<signerVars, proposalVars, recurringVars, otherVars, balanceOf>>

Administer == SetPaused \/ \E t \in Tokens, s \in BOOLEAN : setSupportedToken(t, s)

Next == \/ Propose \/ \E i \in ProposalIds : Vote(i) \/ Execute(i)
        \/ Recur \/ Yield \/ Signers \/ Allot \/ Administer \/ Tick

Spec == Init /\ [][Next]_vars
-----------------------------------------------------------------------------
(***************************************************************************)
(* Properties.                                                             *)
(***************************************************************************)
\* The types of the treasury's storage and of the token ledger.
TypeOK ==
    /\ SignersTypeOK /\ BudgetsTypeOK
    /\ proposals \in [ProposalIds -> Proposal]
    /\ proposalApprovals \in [ProposalIds -> SUBSET People]
    /\ proposalRejections \in [ProposalIds -> SUBSET People]
    /\ recurringAuthorizations \in [AuthorizationIds -> RecurringAuthorization]
    /\ recurringAuthorizationApprovals \in [AuthorizationIds -> SUBSET People]
    /\ latestRecurringAuthorization \in [Terms -> AuthorizationIds \cup {None}]
    /\ recurringPayments \in [RecurringIds -> RecurringPayment]
    /\ yieldProtocols \in [Protocols -> YieldProtocol]
    /\ supportedTokens \subseteq Tokens \ {Native} /\ paused \in BOOLEAN
    /\ balanceOf \in [Tokens -> [Holders -> Nat]]

\* The vote counters agree with the recorded voters, who are distinct, so what
\* is approved, executed or consumed has the approval of as many different
\* identities as its tier required when it was proposed, however signers
\* delegate, leave and return in between (MultiSigTreasury.sol:608-654, 855-882).
VotesCounted ==
    /\ \A i \in ProposalIds :
          /\ proposals[i].approvalCount = Cardinality(proposalApprovals[i])
          /\ proposals[i].rejectionCount = Cardinality(proposalRejections[i])
          /\ proposals[i].status \in {"APPROVED", "EXECUTED"}
               => Cardinality(proposalApprovals[i]) >= proposals[i].requiredApprovals
    /\ \A a \in AuthorizationIds :
          LET auth == recurringAuthorizations[a] IN
          /\ auth.approvalCount = Cardinality(recurringAuthorizationApprovals[a])
          /\ auth.status \in {"APPROVED", "CONSUMED"}
               => Cardinality(recurringAuthorizationApprovals[a]) >= auth.requiredApprovals

\* Whoever joins, leaves or is granted a role, the signers can still act: the
\* list is the role's holders and every threshold can be met
\* (MultiSigTreasury.sol:1107-1180).
SignersSound == SignersListed /\ ThresholdsReachable

\* A vote is only ever counted for an identity that holds the signer role when
\* it is cast.  Nobody votes twice by voting directly and through a delegate,
\* and a delegation ends with its delegator's role (NP-01,
\* security_best_practices_report.md:41; MultiSigTreasury.sol:464-477, 1285-1292).
VotesBySigners ==
    [][/\ \A i \in ProposalIds :
            /\ proposalApprovals'[i] \ proposalApprovals[i] \subseteq hasSignerRole
            /\ proposalRejections'[i] \ proposalRejections[i] \subseteq hasSignerRole
       /\ \A a \in AuthorizationIds :
            recurringAuthorizationApprovals'[a] \ recurringAuthorizationApprovals[a]
                \subseteq hasSignerRole]_vars

proposed == [i \in ProposalIds |-> proposals[i].amount]
repeated == [r \in RecurringIds |-> IF recurringPayments[r].terms = NoTerms THEN 0
                ELSE recurringPayments[r].executionCount * recurringPayments[r].terms.amount]

For(x, to, tokens, accounts) ==
    x.recipient \in to /\ x.token \in tokens /\ x.budgetId \in accounts
ExecutedFor(to, tokens, accounts) ==
    {i \in ProposalIds : proposals[i].status = "EXECUTED" /\ For(proposals[i], to, tokens, accounts)}
RepeatedFor(to, tokens, accounts) ==
    {r \in RecurringIds : /\ recurringPayments[r].terms # NoTerms
                          /\ For(recurringPayments[r].terms, to, tokens, accounts)}

\* What was spent on recipients, in tokens and under budgets: by the executed
\* proposals, and by the executions of recurring payments.
Spent(to, tokens, accounts) ==
    SumFunctionOnSet(proposed, ExecutedFor(to, tokens, accounts))
    + SumFunctionOnSet(repeated, RepeatedFor(to, tokens, accounts))

\* Every unit that left the treasury belongs to a proposal that was executed
\* once or to an execution of a recurring payment, and every budget accounts
\* for exactly what was spent under it and never more than its allocation,
\* although budgets are checked when a transfer is proposed and charged when it
\* executes (MultiSigTreasury.sol:660-689, 960-989, 1334-1381).
SpendingExplained ==
    /\ \A t \in Tokens, r \in Recipients :
          balanceOf[t][r] = Spent({r}, {t}, Charged)
    /\ \A b \in BudgetIds :
          /\ budgets[b].spent = Spent(Recipients, Tokens, {b})
          /\ budgets[b].spent <= budgets[b].totalAllocation

\* Each recurring payment stands for one consumed authorization of exactly its
\* terms, at most one authorization of the same terms can be acted on at a
\* time, and no payment runs more often than the signers approved
\* (MultiSigTreasury.sol:805-810, 914-926, 960-973).
MandatesConsumed ==
    \A t \in Terms :
        LET Of(status) == {a \in AuthorizationIds : recurringAuthorizations[a].terms = t
                              /\ recurringAuthorizations[a].status \in status}
            created    == {r \in RecurringIds : recurringPayments[r].terms = t}
        IN  /\ Cardinality(created) = Cardinality(Of({"CONSUMED"}))
            /\ Cardinality({a \in Of({"PENDING", "APPROVED"}) :
                               ~Expired(recurringAuthorizations[a].age)}) <= 1
            /\ t.maxExecutions > 0 =>
                  \A r \in created : recurringPayments[r].executionCount <= t.maxExecutions

\* Nothing leaves the treasury but under a mandate of its signers, within the
\* budget and the window it was given for (MultiSigTreasury.sol:660-689,
\* 914-989, 1334-1381).
SpendingMandated == SpendingExplained /\ MandatesConsumed /\ WindowsHold

\* "Approval thresholds and timelocks are identical to one-time transfers of
\* the same amount" (MultiSigTreasury.sol:778-779): a proposal and a mandate of
\* one tier, with the same requirement and as many approvals, are both approved
\* or both pending.
SameThresholds ==
    \A i \in ProposalIds, a \in AuthorizationIds :
        LET p == proposals[i]
            auth == recurringAuthorizations[a]
        IN  /\ p.status \in {"PENDING", "APPROVED"} /\ auth.status \in {"PENDING", "APPROVED"}
            /\ p.tier = auth.tier /\ p.requiredApprovals = auth.requiredApprovals
            /\ p.approvalCount = auth.approvalCount
            => (p.status = "APPROVED" <=> auth.status = "APPROVED")
=============================================================================
