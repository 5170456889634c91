\* Every short text, and everything the tools write for short values, read in
\* chunks of 1 and of 3 characters into a buffer that grows by 2.
CONSTANTS
    Texts <- MCTexts
    Tables <- MCTables
    Columns = {1, 2}
    Chunks = {1, 3}
    Grow = 2
SPECIFICATION Spec
INVARIANTS RowsInOrder ResultRight BufferBounded RoundTrip
PROPERTIES Terminates
