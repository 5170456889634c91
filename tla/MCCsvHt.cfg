\* Four keys with any hash values, in a table that starts with one bucket, as
\* the one of the RPN operator `next` does.
CONSTANTS
    Keys = {"a", "b", "c", "d"}
    MaxHash = 3
    InitialSize = 0
    MaxCalls = 7
SPECIFICATION Spec
INVARIANTS NothingLost AtMostOneMisplaced OtherKeysRight
CHECK_DEADLOCK FALSE
