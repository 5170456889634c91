\* Two rows, pipes of three bytes.  The process ends, or hangs for ever when a
\* command writes more than a pipe holds.
CONSTANTS
    Capacity = 3
    Jobs <- MCJobs
    MaxRows = 2
SPECIFICATION FairSpec
INVARIANTS ColumnsRight InputWhole StatusTells
PROPERTIES EndsIfOutputFits
CHECK_DEADLOCK FALSE
