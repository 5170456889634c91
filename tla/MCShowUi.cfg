\* Tables of up to 5 rows, terminals that show none, some or all of them.
CONSTANTS
    RowCounts = {0, 1, 5}
    Heights = {1, 2, 3, 5}
    ColumnLengths <- MCColumnLengths
    Widths = {1, 4}
    Wrap = 16
    MaxPrinted = 1
SPECIFICATION Spec
INVARIANTS TypeOK SelectedShown AbortsOnlyWithoutRoom PrintsRows ColumnsShown
PROPERTIES PagingSkipsNothing
CHECK_DEADLOCK FALSE
