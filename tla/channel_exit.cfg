SPECIFICATION ExitSpec
CONSTANTS
    Parties = {p1, p2}
    Treasuries = {t1, t2}
    Vault = vault
    None = none
    Channels = {c1}
    Htlcs = {h1}
    Deposits = {1}
    HtlcAmounts = {1}
    Timelocks = {1}
    ChallengePeriods = {1}
    MIN_CHALLENGE_PERIOD = 1
    MAX_CHALLENGE_PERIOD = 2
    MIN_HTLC_TIMELOCK = 1
    MAX_HTLC_TIMELOCK = 2
    BpsDenominator = 2
    MAX_PROTOCOL_FEE_BPS = 1
    FeeRates = {0, 1}
    InitialFunds = 1
    Anticipated = {0}
    Leaver = p1
    Payers = {p1, p2}
    MaxNonce = 1
    MaxSigned = 1
    EpochBound = 5
    Unsigned = {}
    KycStates = {{p1, p2}, {p1}}
    PauseStates = {TRUE, FALSE}
    TokenStates = {TRUE}
    Unreachable = {t1}
    RecycleHtlcs = FALSE
PROPERTIES
    EscrowReturned
    HTLCResolved
