---------------------------- MODULE LockstepDiff ----------------------------
(***************************************************************************)
(* What csv-diff promises, with no threads, locks or buffers: a sequential *)
(* program that walks all files at once, row by row.  CsvDiff is shown to  *)
(* implement it.                                                           *)
(***************************************************************************)
EXTENDS DiffInputs

VARIABLES
    file,       \* the files given on the command line
    opts,       \* the options given on the command line
    round,      \* number of groups of rows dealt with so far
    line,       \* lines of the current group dealt with; 0 before it is compared
    diff,       \* columns of the current group that differ
    ret,        \* 1 once a difference was seen
    out,        \* lines printed so far
    status      \* exit status, or Running

vars == <<file, opts, round, line, diff, ret, out, status>>

Init ==
    /\ file \in [Inputs -> Files]
    /\ opts \in Options
    /\ round = 0 /\ line = 0 /\ diff = {} /\ ret = 0
    /\ out = <<>>
    /\ status = Running

HasRow(i, k) == k <= Len(file[i].rows)

\* Compare the next row of every file: possible only while all have one.
Judge ==
    /\ line = 0
    /\ \A i \in Inputs : HasRow(i, round + 1)
    /\ diff' = DifferingColumns([i \in Inputs |-> file[i].rows[round + 1]])
    /\ ret' = IF diff' # {} THEN 1 ELSE ret
    /\ line' = 1
    /\ UNCHANGED <<file, opts, round, out, status>>

\* Deal with the row of input number `line`: print it if its group is printed.
Report ==
    /\ line \in Inputs
    /\ out' = IF Printed(opts, diff)
              THEN Append(out, Line(line, file[line].rows[round + 1], diff))
              ELSE out
    /\ IF line = Ninputs
       THEN line' = 0 /\ round' = round + 1
       ELSE line' = line + 1 /\ round' = round
    /\ UNCHANGED <<file, opts, diff, ret, status>>

\* All files ended together: the exit status says whether anything differed.
Verdict ==
    /\ line = 0
    /\ \A i \in Inputs : ~HasRow(i, round + 1) /\ ~file[i].corrupted
    /\ status' = ret
    /\ UNCHANGED <<file, opts, round, line, diff, ret, out>>

\* Some but not all files ended.
UnequalLengths ==
    /\ line = 0
    /\ \E i, j \in Inputs : HasRow(i, round + 1) /\ ~HasRow(j, round + 1)
    /\ status' = 2
    /\ UNCHANGED <<file, opts, round, line, diff, ret, out>>

\* A file is found corrupted, after all its rows were dealt with.  The
\* lines of the other files for its last row may be missing from the output.
Corrupted ==
    /\ \E i \in Inputs :
          /\ file[i].corrupted
          /\ ~HasRow(i, round + (IF i < line THEN 2 ELSE 1))
    /\ status' = 2
    /\ UNCHANGED <<file, opts, round, line, diff, ret, out>>

Next ==
    /\ status = Running
    /\ Judge \/ Report \/ Verdict \/ UnequalLengths \/ Corrupted

Spec == Init /\ [][Next]_vars
=============================================================================
