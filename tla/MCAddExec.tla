----------------------------- MODULE MCAddExec ------------------------------
(* Values of the constants of AddExec for TLC. *)
EXTENDS AddExec

\* Columns and outputs that are empty, fit into a pipe of 3 bytes, or do not;
\* commands that fail with and without reading, and a row of another table.
MCJobs ==
    [selected : {TRUE}, length : {0, 3, 4}, reads : BOOLEAN, writes : {0, 1, 3, 4}, ends : {Ok}]
        \cup [selected : {TRUE}, length : {4}, reads : {TRUE}, writes : {1}, ends : {Fails, Dies}]
        \cup [selected : {FALSE}, length : {1}, reads : {TRUE}, writes : {1}, ends : {Ok}]
=============================================================================
