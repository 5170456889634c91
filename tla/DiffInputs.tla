----------------------------- MODULE DiffInputs -----------------------------
(***************************************************************************)
(* The inputs of csv-diff (src/src/diff.c): Ninputs CSV files that share   *)
(* the compared columns Headers.  A row is what is left of a CSV row after *)
(* the idx[] permutation of add_input(): one value per compared column.    *)
(* A corrupted file has a quote in the middle of an unquoted column after  *)
(* its last well-formed row, so csv_read_all() fails there.                *)
(***************************************************************************)
EXTENDS Integers, Sequences

CONSTANTS
    Ninputs,    \* number of FILE arguments
    Headers,    \* the compared columns
    Values,     \* what a column of a row can hold
    Files       \* the files a run may be given

Inputs == 1 .. Ninputs
Row == [Headers -> Values]

\* main() refuses fewer than two files.
ASSUME NinputsAssumption == Ninputs \in Nat /\ Ninputs >= 2

ASSUME FilesAssumption == Files \subseteq [rows : Seq(Row), corrupted : BOOLEAN]

\* --brief and --all-rows; main() refuses the two together.
Options == {o \in [brief : BOOLEAN, all_rows : BOOLEAN] : ~(o.brief /\ o.all_rows)}

\* The columns in which the rows r[1], ..., r[Ninputs] are not all the same.
DifferingColumns(r) == {h \in Headers : \E j \in Inputs : r[j][h] # r[1][h]}

\* A group of Ninputs rows is printed when it holds a difference, or always
\* under --all-rows, and never under --brief.
Printed(opts, diff) == (diff # {} \/ opts.all_rows) /\ ~opts.brief

\* One output line: the input's number, its row and the _diff flags.
Line(i, row, diff) == [input |-> i, row |-> row, diff |-> diff]

\* Exit status of a process that has not exited yet.
Running == -1
=============================================================================
