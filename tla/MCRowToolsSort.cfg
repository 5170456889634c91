\* csv-sort over streams of up to three rows; integers from -4 to 3.
CONSTANTS
    Invocations <- SortRuns
    NoTable = NoTable
    TableColumn = TableColumn
    None = None
    MaxInt = 3
    Percent = 30
    Quote = 38
    Space = 39
    Punctuation <- MCPunctuation
    Lower <- MCLower
    CacheSize = 2
    Regcomp <- MCRegcomp
    BadRegex = BadRegex
    Shorter <- MCShorter
    t = 40
    u = 41
    v = 42
    w = 43
SPECIFICATION Spec
INVARIANT SortedByAll
