\* Pipes of two pieces, stdio buffers of three, a parser's buffer of three.
CONSTANTS
    Capacity = 2
    StdioSize = 3
    Grow = 3
    Jobs <- MCJobs
SPECIFICATION Spec
INVARIANTS ViewRight ExecRight
PROPERTY AllEnd
