\* The same tables and terminals, asked for the assertion in the loop.
CONSTANTS
    RowCounts = {0, 1, 5}
    Heights = {1, 2, 3, 5}
    ColumnLengths <- MCColumnLengths
    Widths = {1, 4}
    Wrap = 16
    MaxPrinted = 1
SPECIFICATION Spec
INVARIANTS AssertionHolds
CHECK_DEADLOCK FALSE
