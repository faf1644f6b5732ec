\* One worker and one switch are enough to report a column that exists as missing.
SPECIFICATION Spec
CONSTANTS
    Workers = {w1}
    None = None
    MaxGeneration = 1
    MaxErrors = 0
INVARIANTS ColumnFailureMeansNoColumn
CHECK_DEADLOCK FALSE
