SPECIFICATION Spec
CONSTANTS
    Workers = {w1, w2, w3, w4}
    None = None
    MaxAttempts = 1
    MaxPatches = 1
    Deployments <- Everywhere
SYMMETRY Symmetry
INVARIANTS
    TypeOK
    ExactlyOnce
    NoForkedUpdate
    OldIsPrefix
    VersionCountsUpdates
    ExhaustionIsEarned
    InsertOrMergeNeverFails
CHECK_DEADLOCK FALSE
