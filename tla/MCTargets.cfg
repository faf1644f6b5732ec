\* Publications: a first installation, one switch with a crash, lost lease or failing
\* call, or up to three switches.  Columns: two workers, two requests, or two faults around
\* one request, asked for through the list, the API or a portal.
SPECIFICATION TargetsSpec
CONSTANTS
    Docs = {d1}
    Workers = {w1, w2}
    None = None
    Uploads = {}
    MaxRequests = 3
    MaxAttempts = 3
    MaxGeneration = 3
    MaxFaults = 2
    MaxListCommands = 1
SYMMETRY WorkerSymmetry
INVARIANTS TargetsMatchTheirRows ReadyIsServed PublicationsInv
PROPERTIES EnhancedByCurrentClaim ActivatedWhenServed RefinesTargetSwitch
CHECK_DEADLOCK FALSE
