SPECIFICATION MCSpec
SYMMETRY Symmetric
CONSTANTS
    Parties = {p1, p2}
    Treasuries = {t1}
    Vault = vault
    None = none
    Channels = {c1, c2, c3}
    Htlcs = {h1, h2}
    Deposits = {1, 2}
    HtlcAmounts = {1}
    Timelocks = {1, 2}
    ChallengePeriods = {1}
    MIN_CHALLENGE_PERIOD = 1
    MAX_CHALLENGE_PERIOD = 2
    MIN_HTLC_TIMELOCK = 1
    MAX_HTLC_TIMELOCK = 1
    BpsDenominator = 2
    MAX_PROTOCOL_FEE_BPS = 1
    FeeRates = {0, 1}
    InitialFunds = 3
    Anticipated = {0, 1}
    MaxNonce = 2
    MaxSigned = 3
    EpochBound = 5
    Unsigned = {c1, c2}
    KycStates = {{p1, p2}}
    PauseStates = {TRUE, FALSE}
    TokenStates = {TRUE, FALSE}
    Unreachable = {}
    RecycleHtlcs = FALSE
    Leaver = p1
    Payers = {p1, p2}
INVARIANTS
    TypeOK
    EscrowConserved
    VaultBacked
    PageMatchesContract
PROPERTIES
    ClosesByConsent
    NewestStateSettles
CHECK_DEADLOCK FALSE
