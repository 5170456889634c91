------------------------------ MODULE CsvText -------------------------------
(***************************************************************************)
(* CSV text as csv-nix-tools reads and writes it, independent of buffers:  *)
(* quoting (csv_print_quoted, csv_unquot in src/src/utils.c) and what a    *)
(* text means as rows of columns.  A character is one of four: a quote, a  *)
(* comma, a newline, or any other.                                         *)
(***************************************************************************)
EXTENDS Integers, Sequences, SequencesExt

Quot == "quot"
Comma == "comma"
Newline == "newline"
Other == "x"
Char == {Quot, Comma, Newline, Other}
Separators == {Comma, Newline}

Strings(n) == UNION {[1 .. k -> Char] : k \in 0 .. n}

\* csv_requires_quoting()
RequiresQuoting(str) == \E i \in DOMAIN str : str[i] # Other

Doubled(str) ==
    FlattenSeq([i \in DOMAIN str |-> IF str[i] = Quot THEN <<Quot, Quot>> ELSE <<str[i]>>])

\* Mutant: a string without a comma or a newline is written as it is.
PrintQuotedSeparatorsOnly(str) ==
    IF \E i \in DOMAIN str : str[i] \in Separators
    THEN <<Quot>> \o Doubled(str) \o <<Quot>> ELSE str
\* csv_print_quoted()
PrintQuoted(str) ==
    IF RequiresQuoting(str) THEN <<Quot>> \o Doubled(str) \o <<Quot>> ELSE str

\* A row as the tools print it: commas between the columns, a newline after
\* the last one (csv_print_line).
PrintRow(row) ==
    FlattenSeq([i \in DOMAIN row |->
        Append(PrintQuoted(row[i]), IF i = Len(row) THEN Newline ELSE Comma)])

Printout(rows) == FlattenSeq([i \in DOMAIN rows |-> PrintRow(rows[i])])

\* csv_unquot(), for a string that starts and ends with a quote: the character
\* after a quote is skipped.  copied[k] is what the loop has made of str[2 .. k].
Unquot(str) ==
    LET copied[k \in DOMAIN str] ==
            IF k = 1 THEN [text |-> <<>>, skip |-> FALSE]
            ELSE IF k = Len(str) THEN copied[k - 1]
            ELSE IF copied[k - 1].skip THEN [copied[k - 1] EXCEPT !.skip = FALSE]
            ELSE [text |-> Append(copied[k - 1].text, str[k]), skip |-> str[k] = Quot]
    IN copied[Len(str)].text

\* What a tool makes of a column: it unquotes what starts with a quote.
Value(column) == IF column # <<>> /\ column[1] = Quot THEN Unquot(column) ELSE column

-----------------------------------------------------------------------------
(* The rows of a text of n columns, read a character at a time *)

Nothing == [rows |-> <<>>, row |-> <<>>, column |-> <<>>, mode |-> "start"]

Closed(s, n) ==
    LET row == Append(s.row, s.column)
        complete == Len(row) = n
    IN  [rows |-> IF complete THEN Append(s.rows, row) ELSE s.rows,
         row |-> IF complete THEN <<>> ELSE row, column |-> <<>>, mode |-> "start"]

\* In mode "quot" the last character was a quote inside a quoted column.
Reading(s, c, n) ==
    LET into(mode) == [rows |-> s.rows, row |-> s.row, column |-> Append(s.column, c), mode |-> mode]
    IN  CASE s.mode = "corrupted" -> s
          [] s.mode = "quoted" -> into(IF c = Quot THEN "quot" ELSE "quoted")
          [] s.mode = "quot" /\ c = Quot -> into("quoted")
          [] s.mode \in {"start", "plain", "quot"} /\ c \in Separators -> Closed(s, n)
          [] s.mode = "start" /\ c = Quot -> into("quoted")
          [] s.mode = "plain" /\ c = Quot -> [s EXCEPT !.mode = "corrupted"]
          [] s.mode \in {"start", "plain", "quot"} /\ c = Other -> into("plain")

\* The states a reader goes through that starts in s, after each prefix of the text.
States(s, text, n) ==
    LET state[k \in 0 .. Len(text)] == IF k = 0 THEN s ELSE Reading(state[k - 1], text[k], n)
    IN state

Meaning(text, n) == States(Nothing, text, n)[Len(text)]
=============================================================================
