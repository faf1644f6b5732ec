\* Two passes that clean up, one of which fails, and a request in between.
SPECIFICATION StagedSpec
CONSTANTS
    Docs = {d1, d2}
    Workers = {w1, w2}
    None = None
    MaxRequests = 2
    MaxAttempts = 1
    MaxGeneration = 1
    MaxFaults = 1
SYMMETRY WorkerSymmetry
INVARIANT OtherTargetIsEmpty
CHECK_DEADLOCK FALSE
