\* Two requests, two workers and no fault: the first run ends after the second.
SPECIFICATION UploadSpec
CONSTANTS
    Docs = {d1}
    Uploads = {d1}
    Workers = {w1, w2}
    None = None
    MaxRequests = 2
    MaxAttempts = 2
    MaxFaults = 0
INVARIANTS PreviewIsOfTheFinishedRun
CHECK_DEADLOCK FALSE
