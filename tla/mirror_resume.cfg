\* One request at a time that may fail once, and no reorganisation.
SPECIFICATION MCFairSpec
CONSTANTS
    Workers = {w1}
    MinConf = 2
    Blocks = {1}
    MaxFaults = 1
    MaxReorgs = 0
    MaxLogged = 2
PROPERTIES EvidenceResumes
CHECK_DEADLOCK FALSE
