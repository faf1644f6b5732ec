\* Documents: one worker, a switch and its rollback, three requests.  Row: two
\* workers, three switches (there, back and there again), one error.
SPECIFICATION TransitionsSpec
CONSTANTS
    Docs = {d1}
    Workers = {w1, w2}
    None = None
    MaxRequests = 4
    MaxAttempts = 2
    MaxGeneration = 3
    MaxFaults = 0
    Publishers = {w1}
    MaxErrors = 1
INVARIANTS SwitchInv
PROPERTIES RefinesTargetSwitch PreviousTargetKept EveryTransitionEnds EveryTransitionOfTheDocumentsEnds
CHECK_DEADLOCK FALSE
