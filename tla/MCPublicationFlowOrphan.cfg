\* Fairness; a worker that dies while the staged target is pending.
SPECIFICATION FairSpec
CONSTANTS
    Docs = {d1}
    Workers = {w1}
    None = None
    MaxRequests = 3
    MaxAttempts = 2
    MaxGeneration = 2
    MaxFaults = 1
PROPERTIES EveryTransitionEnds
CHECK_DEADLOCK FALSE
