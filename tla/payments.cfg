SPECIFICATION PaymentsSpec
CONSTANTS
    Wallets = {b1, r1}
    Businesses = {b1}
    None = none
    Licenses = {l1}
    Jurisdictions = {"UAE"}
    WellFormed <- MCWellFormed
    REVERIFICATION_INTERVAL = 2
    Tiers = {0, 1, 2}
    RegistryPauses = {TRUE, FALSE}
    Payers = {b1}
    Payees = {b1, r1}
    Seals = {s1}
    Purpose <- MCPurpose
    NoSeal = noseal
    Policies <- MCPolicies
    GatePauses = {TRUE, FALSE}
    PaymentIds = {i1, i2, i3}
    Tokens = {usdc}
    Amounts = {2, 3}
    Treasuries = {t1, t2}
    Vault = vault
    BaseFees = {0, 1}
    PercentageFees = {0, 1, 2}
    MAX_PERCENTAGE_FEE = 1
    FeeDenominator = 3
    RiskScores = {70, 71, 101}
    RiskThreshold = 70
    MaxRiskScore = 100
    DailyLimit <- MCDailyLimit
    MonthlyLimit <- MCMonthlyLimit
    SETTLEMENT_RECOVERY_DELAY = 1
    SETTLEMENT_RECOVERY_WINDOW = 0
    DaysPerMonth = 2
    InitialFunds = 9
    Pauses = {TRUE, FALSE}
    Blockable = {r1}
INVARIANTS
    TypeOK
    LedgerExplained
    VolumeWithinLimits
PROPERTIES
    OutcomeJustified
