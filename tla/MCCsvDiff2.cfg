\* Two inputs, every pair of files, a spurious wakeup anywhere.
CONSTANTS
    Ninputs = 2
    Headers = {a}
    Values = {u, v}
    Files <- MCFiles
    MaxSpurious = 1
SPECIFICATION FairSpec
INVARIANTS TypeOK MutexUse ReadsOneRound NoRowSkipped VerdictSound NoLostWakeup
PROPERTIES Contract Termination
