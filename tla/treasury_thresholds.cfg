SPECIFICATION TreasurySpec
CONSTANTS
    ann = ann
    bob = bob
    dan = dan
    prop1 = prop1
    native = native
    usdc = usdc
    People = {ann, bob, dan}
    None = none
    Founders <- TwoFounders
    Thresholds <- MCThresholds
    Delegates = {dan}
    Durations = {1}
    MAX_DELEGATION_PERIOD = 1
    Irregular = {bob}
    MaxSigners = 3
    BudgetIds = {b1}
    NoBudget = nobudget
    Allocations = {2, 3}
    SpendingLimits <- MCLimits
    ProposalIds = {prop1, prop2}
    AuthorizationIds = {auth1, auth2}
    RecurringIds = {m1, m2}
    Recipients = {r1}
    Protocols = {y1}
    Treasury = treasury
    Tokens = {native, usdc}
    Native = native
    Amounts = {1, 2}
    InitialFunds = 3
    SMALL_TX_THRESHOLD = 1
    LARGE_TX_THRESHOLD = 1
    STANDARD_TIMELOCK = 1
    LARGE_TIMELOCK = 1
    EMERGENCY_TIMELOCK = 0
    PROPOSAL_EXPIRY = 1
    Frequencies = {1}
    MaxExecutions = {2}
    MaxAllocations = {1}
    TreasuryPauses = {TRUE, FALSE}
INVARIANT
    SameThresholds
