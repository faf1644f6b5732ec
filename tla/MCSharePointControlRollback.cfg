\* One worker, one poll between two requests.
SPECIFICATION ControlSpec
CONSTANTS
    Docs = {d1}
    Workers = {w1}
    None = None
    Uploads = {}
    MaxRequests = 2
    MaxAttempts = 2
    MaxFaults = 0
    MaxListCommands = 1
PROPERTIES NewerRequestWins
CHECK_DEADLOCK FALSE
