CONSTANTS
    Scenarios = {"treasury", "streams", "hedges", "transfers", "pool", "appeals", "invoices", "registry", "pages", "payments"}
    Workers = {w1, w2}
    Proposals = {p1}
    Signers = {s1, s2}
    OnChainIds = {x1, x2}
    Thresholds = {1, 2}
    Hedges = {h1, h2}
    Transfers = {t1, t2}
    Positions = {o1, o2}
    PoolRows = {q1, q2}
    Appeals = {a1}
    Streams = {r1}
    Duration = 2
    Rate = 1
    Dust = 1
    Cliff = 0
    Horizon = 3
    MaxMined = 4
    MaxTrail = 1
    Keys = {k1, k2}
    Face = 2
    Challenges = {c1, c2}
    TopTier = 2
    Wallets = {g1, g2}
    Items = {m1, m2}
    MaxSent = 2
    Businesses = {b1}
    Details = {d1, d2}
    MaxPayments = 2
SPECIFICATION MCSpec
CONSTRAINT Small
SYMMETRY RecordsSymmetry
INVARIANTS TypesOK  MirrorHolds KeptUntilRecorded
PROPERTY BookKept
CHECK_DEADLOCK FALSE
