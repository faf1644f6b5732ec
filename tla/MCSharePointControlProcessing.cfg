\* One request; the worker dies between recording an outcome or an error in the
\* database and telling the columns.
SPECIFICATION FairControlSpec
CONSTANTS
    Docs = {d1}
    Workers = {w1}
    None = None
    Uploads = {}
    MaxRequests = 1
    MaxAttempts = 2
    MaxFaults = 1
    MaxListCommands = 0
PROPERTIES ProcessingColumnIsFollowedUp
CHECK_DEADLOCK FALSE
