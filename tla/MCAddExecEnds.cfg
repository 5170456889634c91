\* The same rows and pipes, asked whether csv-add-exec gets through with any
\* command that ends by itself.
CONSTANTS
    Capacity = 3
    Jobs <- MCJobs
    MaxRows = 2
SPECIFICATION FairSpec
PROPERTIES AlwaysEnds
CHECK_DEADLOCK FALSE
