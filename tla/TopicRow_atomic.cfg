SPECIFICATION FairSpec
CONSTANTS
    Workers = {w1, w2, w3}
    None = None
    MaxAttempts = 1
    MaxPatches = 0
    Deployments <- Everywhere
PROPERTIES
    RefinesAtomic
    Termination
CHECK_DEADLOCK FALSE
