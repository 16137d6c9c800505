SPECIFICATION Spec
CONSTANTS
    Workers = {w1, w2, w3, w4, w5}
    None = None
    MaxAttempts = 2
    MaxPatches = 0
    Deployments <- Strict
SYMMETRY Symmetry
INVARIANT RecoveryIsExecuted
CHECK_DEADLOCK FALSE
