\* Another worker runs a job beside the pass; nothing fails.
SPECIFICATION SyncSpec
CONSTANTS
    Overlap = TRUE
    TornPass = FALSE
    Gone = Gone
    MaxEdits = 2
    MaxAsks = 1
    MaxPassBreaks = 0
PROPERTIES AclFollowsSource
CHECK_DEADLOCK FALSE
