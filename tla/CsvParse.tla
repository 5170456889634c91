------------------------------ MODULE CsvParse ------------------------------
(***************************************************************************)
(* csv_read_all() of src/src/parse.c: it reads its stream in chunks into a *)
(* growing buffer, scans each character once, and hands every complete row *)
(* to a callback, after which the rest of the buffer is moved to its front.*)
(* A step is one iteration of the scanning loop or one fread().            *)
(***************************************************************************)
EXTENDS CsvText

CONSTANTS
    Texts,      \* streams, after the header line
    Tables,     \* rows of values written by another tool
    Columns,    \* numbers of columns
    Chunks,     \* how much fread() is asked for at most: 100 in the code
    Grow        \* by how much the buffer grows: 1024 in the code

ASSUME CsvParseAssumption ==
    /\ Texts \subseteq Seq(Char) /\ Tables \subseteq Seq(Seq(Seq(Char)))
    /\ Columns \subseteq Nat \ {0} /\ Chunks \subseteq Nat \ {0} /\ Grow \in Nat \ {0}

VARIABLES
    text,       \* the stream
    table,      \* the values it was printed from, or <<>>
    nheaders, chunk,
    stopAfter,  \* the callback returns non-zero for this row (0: never)
    unread,     \* what fread() has not returned yet
    buf,        \* buf[0 .. ready - 1], here buf[1 .. ready]
    buflen,
    i,          \* the character looked at
    column, colOffs,
    inQuoted,   \* in_quoted_string
    lastQuot,   \* last_char_was_quot
    eof,
    rows,       \* rows given to the callback
    ret,        \* the result, or "running"
    ioError     \* (history) fread() or realloc() failed

inputs == <<text, table, nheaders, chunk, stopAfter>>
stream == <<unread, buflen, eof>>
quoting == <<inQuoted, lastQuot>>
vars == <<inputs, stream, buf, i, column, colOffs, quoting, rows, ret, ioError>>

Nul == "nul"
Running == "running"
AtEnd == "at end"       \* 0
Stopped == "stopped"    \* 1, by the callback
Failed == "failed"      \* -1
Ready == Len(buf)

Init ==
    /\ nheaders \in Columns
    /\ \/ text \in Texts /\ table = <<>>
       \/ /\ table \in {t \in Tables : \A k \in DOMAIN t : Len(t[k]) = nheaders}
          /\ text = Printout(table)
    /\ chunk \in Chunks
    /\ stopAfter \in {0, 1}
    /\ unread = text /\ buf = <<>> /\ buflen = 0
    /\ i = 0 /\ column = 0 /\ colOffs = [k \in 0 .. nheaders - 1 |-> 0]
    /\ inQuoted = FALSE /\ lastQuot = FALSE
    /\ eof = FALSE
    /\ rows = <<>> /\ ret = Running /\ ioError = FALSE

Scanning == i < Ready
Looking(c) == Scanning /\ buf[i + 1] = c

\* The string at an offset of the buffer, up to its NUL.
CString(b, off) ==
    LET end == CHOOSE k \in off + 1 .. Len(b) :
                   b[k] = Nul /\ \A j \in off + 1 .. k - 1 : b[j] # Nul
    IN  SubSeq(b, off + 1, end - 1)

\* A quote after a quote inside a quoted column is an escaped quote.
EscapedQuot ==
    /\ lastQuot /\ Looking(Quot)
    /\ lastQuot' = FALSE
    /\ i' = i + 1
    /\ UNCHANGED <<inputs, stream, buf, column, colOffs, inQuoted, rows, ret, ioError>>

\* Mutant: the character after the quoted string is skipped.
EndOfQuotedSkipping ==
    /\ lastQuot /\ Scanning /\ ~Looking(Quot)
    /\ lastQuot' = FALSE /\ inQuoted' = FALSE /\ i' = i + 1
    /\ UNCHANGED <<inputs, stream, buf, column, colOffs, rows, ret, ioError>>
\* Otherwise the quote before ended the quoted string; the same character is
\* looked at again.
EndOfQuoted ==
    /\ lastQuot /\ Scanning /\ ~Looking(Quot)
    /\ lastQuot' = FALSE
    /\ inQuoted' = FALSE
    /\ UNCHANGED <<inputs, stream, buf, i, column, colOffs, rows, ret, ioError>>

InsideQuoted ==
    /\ inQuoted /\ ~lastQuot /\ Scanning
    /\ lastQuot' = Looking(Quot)
    /\ i' = i + 1
    /\ UNCHANGED <<inputs, stream, buf, column, colOffs, inQuoted, rows, ret, ioError>>

Unquoted == ~inQuoted /\ ~lastQuot
AtSeparator == Unquoted /\ \E c \in Separators : Looking(c)
Terminated == [buf EXCEPT ![i + 1] = Nul]

EndOfColumn ==
    /\ AtSeparator
    /\ column + 1 < nheaders
    /\ buf' = Terminated
    /\ column' = column + 1
    /\ i' = i + 1
    /\ colOffs' = [colOffs EXCEPT ![column + 1] = i + 1]
    /\ UNCHANGED <<inputs, stream, quoting, rows, ret, ioError>>

\* The callback gets the row; what follows it is moved to the front.
EndOfRow ==
    /\ AtSeparator
    /\ column + 1 = nheaders
    /\ rows' = Append(rows, [k \in 1 .. nheaders |-> CString(Terminated, colOffs[k - 1])])
    /\ IF Len(rows') = stopAfter
       THEN ret' = Stopped /\ buf' = Terminated /\ column' = column + 1 /\ UNCHANGED i
       ELSE /\ buf' = SubSeq(buf, i + 2, Ready)
            /\ i' = 0
            /\ column' = 0
            /\ UNCHANGED ret
    /\ UNCHANGED <<inputs, stream, colOffs, quoting, ioError>>

OpenQuoted ==
    /\ Unquoted /\ Looking(Quot)
    /\ i = colOffs[column]
    /\ inQuoted' = TRUE
    /\ i' = i + 1
    /\ UNCHANGED <<inputs, stream, buf, column, colOffs, lastQuot, rows, ret, ioError>>

\* "corrupted stream - \" in the middle of unquoted string"
Corrupted ==
    /\ Unquoted /\ Looking(Quot)
    /\ i # colOffs[column]
    /\ ret' = Failed
    /\ UNCHANGED <<inputs, stream, buf, i, column, colOffs, quoting, rows, ioError>>

MiddleOfColumn ==
    /\ Unquoted /\ Looking(Other)
    /\ i' = i + 1
    /\ UNCHANGED <<inputs, stream, buf, column, colOffs, quoting, rows, ret, ioError>>

Least(a, b) == IF a < b THEN a ELSE b

\* Mutant: the buffer grows at each read.
WantedMore == buflen + Grow
\* A full buffer is enlarged before fread().
Wanted == IF Ready = buflen THEN buflen + Grow ELSE buflen

Nmemb == Least(Wanted - Ready, chunk)
Readin == Least(Nmemb, Len(unread))

\* Mutant: a read that returned all it was asked for is taken for the last one.
AtEofEarly == Readin <= Nmemb
\* Mutant: the end of the file is never seen.
AtEofNever == Readin > Nmemb
AtEof == Readin < Nmemb

\* All of the buffer is scanned: grow it if it is full, and fread() some more.
Read ==
    /\ ~Scanning /\ ~eof
    /\ buflen' = Wanted
    /\ buf' = buf \o SubSeq(unread, 1, Readin)
    /\ unread' = SubSeq(unread, Readin + 1, Len(unread))
    /\ eof' = AtEof
    /\ UNCHANGED <<inputs, i, column, colOffs, quoting, rows, ret, ioError>>

\* fread() or realloc() fails.
ReadError ==
    /\ ~Scanning /\ ~eof
    /\ ret' = Failed
    /\ ioError' = TRUE
    /\ UNCHANGED <<inputs, stream, buf, i, column, colOffs, quoting, rows>>

\* An incomplete row at the end of the stream is dropped.
Finish ==
    /\ ~Scanning /\ eof
    /\ ret' = AtEnd
    /\ UNCHANGED <<inputs, stream, buf, i, column, colOffs, quoting, rows, ioError>>

Step ==
    \/ EscapedQuot \/ EndOfQuoted \/ InsideQuoted
    \/ EndOfColumn \/ EndOfRow \/ OpenQuoted \/ Corrupted \/ MiddleOfColumn
    \/ Read \/ Finish

Next ==
    \/ ret = Running /\ Step
    \/ ret = Running /\ ReadError
    \/ ret # Running /\ UNCHANGED vars

\* The loop goes on as long as it runs; an error need not happen.
Spec == Init /\ [][Next]_vars /\ WF_vars(ret = Running /\ Step)

-----------------------------------------------------------------------------
(* Properties *)

\* Types; the offsets stay inside the buffer.
TypeOK ==
    /\ Ready <= buflen
    /\ i \in 0 .. Ready
    /\ column \in 0 .. nheaders
    /\ colOffs \in [0 .. nheaders - 1 -> 0 .. buflen]
    /\ ret \in {Running, AtEnd, Stopped, Failed}
    /\ inQuoted \in BOOLEAN /\ lastQuot \in BOOLEAN /\ eof \in BOOLEAN

Expected == Meaning(text, nheaders)

\* Wherever the chunks end and the buffer grows or moves, the callback gets
\* the rows of the text, in order, and nothing else.
RowsInOrder == IsPrefix(rows, Expected.rows)

\* The result tells whether the rows are all the rows of the text.
ResultRight ==
    /\ ret = AtEnd => rows = Expected.rows /\ Expected.mode # "corrupted"
    /\ ret = Failed /\ ~ioError => rows = Expected.rows /\ Expected.mode = "corrupted"
    /\ ret = Stopped => Len(rows) = stopAfter

\* The offsets stay inside the buffer, and the buffer grows for the longest row
\* only, not with the length of the stream: no row ends in a stretch of the text
\* that is as long as the buffer, less what it grows by.
BufferBounded ==
    /\ TypeOK
    /\ LET state == States(Nothing, text, nheaders)
       IN  \E from, to \in 0 .. Len(text) :
               /\ buflen <= to - from + Grow
               /\ state[to].rows = state[from].rows /\ state[to].mode # "corrupted"

\* Values that one tool prints are the values another tool reads.
RoundTrip ==
    table # <<>> /\ ret = AtEnd =>
        rows # <<>> /\ table = [r \in DOMAIN rows |-> [k \in DOMAIN rows[r] |-> Value(rows[r][k])]]

\* The parser gets to the end of every finite stream.
Terminates == <>(ret # Running)
=============================================================================
