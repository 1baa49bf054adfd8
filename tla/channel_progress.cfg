SPECIFICATION ExitSpec
CONSTANTS
    Parties = {p1, p2}
    Treasuries = {t1}
    Vault = vault
    None = none
    Channels = {c1}
    Htlcs = {h1, h2}
    Deposits = {1, 2}
    HtlcAmounts = {1}
    Timelocks = {1}
    ChallengePeriods = {1}
    MIN_CHALLENGE_PERIOD = 1
    MAX_CHALLENGE_PERIOD = 2
    MIN_HTLC_TIMELOCK = 1
    MAX_HTLC_TIMELOCK = 2
    BpsDenominator = 2
    MAX_PROTOCOL_FEE_BPS = 1
    FeeRates = {0}
    InitialFunds = 2
    Anticipated = {0}
    Leaver = p1
    Payers = {p2}
    MaxNonce = 1
    MaxSigned = 0
    EpochBound = 1
    Unsigned = {c1}
    KycStates = {{p1, p2}}
    PauseStates = {FALSE}
    TokenStates = {TRUE}
    Unreachable = {}
    RecycleHtlcs = TRUE
PROPERTIES
    ActiveMakesProgress
CHECK_DEADLOCK FALSE
