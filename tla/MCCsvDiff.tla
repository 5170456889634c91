----------------------------- MODULE MCCsvDiff ------------------------------
(* Values of the constants of CsvDiff for TLC. *)
EXTENDS CsvDiff

Upto(n) == UNION {[1 .. k -> Row] : k \in 0 .. n}

\* All files of at most 2 rows, and the corrupted ones of at most 1 row.
MCFiles ==
    [rows : Upto(2), corrupted : {FALSE}] \cup [rows : Upto(1), corrupted : {TRUE}]
=============================================================================
