----------------------------- MODULE MCCsvParse -----------------------------
(* Values of the constants of CsvParse for TLC. *)
EXTENDS CsvParse

\* Every text of at most 5 characters.
MCTexts == Strings(5)

\* One row of two values, or two rows of one, of at most 2 characters each.
MCTables ==
    {<<row>> : row \in [1 .. 2 -> Strings(2)]}
        \cup {<<<<v>>, <<w>>>> : v \in Strings(2), w \in Strings(2)}
=============================================================================
