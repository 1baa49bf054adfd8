\* Two requests, one reorganisation, one fault; the submission may be mined at
\* either of two block numbers.  A payment whose end is on the chain and whose
\* creation cannot be mirrored really stops.
SPECIFICATION MCFairSpec
CONSTANTS
    Workers = {w1, w2}
    MinConf = 2
    Blocks = {1, 2}
    MaxFaults = 1
    MaxReorgs = 1
    MaxLogged = 2
INVARIANTS TypeOK MirrorExact ScreeningAgrees
PROPERTIES FinalStays EvidenceDurable WindowOnly MirrorCatchesUp
CHECK_DEADLOCK FALSE
