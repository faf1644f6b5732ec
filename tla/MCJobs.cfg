\* Two workers.  Queue: two requests and two faults, every way a claim can be lost.
\* Upload: two requests and one fault.
SPECIFICATION MCSpec
CONSTANTS
    Docs = {d1, u1}
    Uploads = {u1}
    Workers = {w1, w2}
    None = None
    MaxRequests = 2
    MaxAttempts = 3
    MaxFaults = 2
SYMMETRY WorkerSymmetry
INVARIANTS SafeInv QueueInv StatusTellsTheOutcome CompletedMeansCommitted ReadyHasItsFiles ReadyUsedItsComment ClosedJobToldItsEnd ReadyStageMeansCommitted CommentCapturedOnce
PROPERTIES CancelledOnlyIfSuperseded RefinesRequestOutcome
CHECK_DEADLOCK FALSE
