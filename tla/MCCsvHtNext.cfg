\* The same table, asked what csv-add-rpn(1) says of `next`.
CONSTANTS
    Keys = {"a", "b", "c", "d"}
    MaxHash = 3
    InitialSize = 0
    MaxCalls = 7
SPECIFICATION Spec
INVARIANTS NextCountsUp
CHECK_DEADLOCK FALSE
