\* Fairness; a SharePoint document and an uploaded one share the queue.
SPECIFICATION FairSpec
CONSTANTS
    Docs = {d1, u1}
    Workers = {w1, w2}
    None = None
    Uploads = {u1}
    MaxRequests = 2
    MaxAttempts = 2
    MaxFaults = 1
INVARIANTS QueuedHasWork
PROPERTIES OutcomeByCurrentClaim EveryRequestSettles
CHECK_DEADLOCK FALSE
