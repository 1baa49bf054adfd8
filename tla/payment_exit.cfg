SPECIFICATION FairSpec
CONSTANTS
    Wallets = {b1, r1}
    Businesses = {b1}
    None = none
    Licenses = {l1}
    Jurisdictions = {"UAE"}
    WellFormed <- MCWellFormed
    REVERIFICATION_INTERVAL = 2
    Tiers = {0}
    RegistryPauses = {FALSE}
    Payers = {b1}
    Payees = {b1, r1}
    Seals = {s1}
    Purpose <- MCPurpose
    NoSeal = noseal
    Policies <- MCPolicies
    GatePauses = {TRUE, FALSE}
    PaymentIds = {i1}
    Tokens = {usdc}
    Amounts = {2}
    Treasuries = {t1, t2}
    Vault = vault
    BaseFees = {1}
    PercentageFees = {0}
    MAX_PERCENTAGE_FEE = 1
    FeeDenominator = 3
    RiskScores = {70}
    RiskThreshold = 70
    MaxRiskScore = 100
    DailyLimit <- MCNoLimit
    MonthlyLimit <- MCNoLimit
    SETTLEMENT_RECOVERY_DELAY = 1
    SETTLEMENT_RECOVERY_WINDOW = 1
    DaysPerMonth = 1
    InitialFunds = 2
    Pauses = {TRUE, FALSE}
    Blockable = {t1}
PROPERTIES
    EscrowResolves
