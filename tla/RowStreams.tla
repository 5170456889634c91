----------------------------- MODULE RowStreams -----------------------------
(***************************************************************************)
(* What the tools that read rows and print rows have in common: a stream   *)
(* with a header, the row callback that csv_read_all() calls for each row, *)
(* its private memory (struct cb_params), what was printed, and the choice *)
(* of columns by -c and -T.  The tools themselves are in RowFilters,       *)
(* Aggregates, SortRows, MergeRows, RpnTools, SqlTools, ColumnTools,     *)
(* TreeTool and SqliteTool.                                                *)
(*                                                                         *)
(* A text is a sequence of letters; the text of a number n is <<n>>, or    *)
(* <<n, k>> for another spelling of it (1, 01, 0x1); a text that is no     *)
(* number is written as one that is out of range.  A stream may hold rows  *)
(* of several tables: column _table names the table of a row, and a row    *)
(* leaves the columns of the other tables empty.  Quoting is in CsvText:   *)
(* values are taken as unquoted here.                                      *)
(***************************************************************************)
EXTENDS RowValues

CONSTANTS
    Invocations,    \* the runs of the tools: sets of command lines, each with the
                    \* inputs they are given; an input is a stream
    NoTable,        \* no -T, and the table of a column that has none
    TableColumn,    \* the name `_table`
    MaxInt,         \* LLONG_MAX
    None            \* a value that was never set

\* A command line has the options its tool reads, csv-uniq a column at least.  An
\* input is a sequence of streams, whose rows have a text for each column of the
\* header, which has a column at least (csv_parse_header()); csv-merge asserts that column _table is there once (src/src/merge.c:80).
ASSUME RowStreamsAssumption ==
    /\ MaxInt \in Nat /\ None \notin Seq(Int)
    /\ \A i \in Invocations :
          /\ \A j \in i.jobs :
                /\ j.tool \in {"head", "tail"} => j.lines \in Nat
                /\ j.tool \in {"cut", "uniq", "grep", "sort", "sum", "avg", "min", "max"} =>
                      j.columns \in Seq(Range(j.columns))
                /\ j.tool = "uniq" => j.columns # <<>>
                /\ j.tool = "grep" => j.invert \in BOOLEAN
                /\ j.tool = "sum" => j.separator \in Seq(Int)
                /\ j.tool = "merge" =>
                      \A s \in i.inputs : \A k \in DOMAIN s :
                          LET Names(c) == s[k].header[c].table = NoTable /\ s[k].header[c].name = TableColumn
                          IN \A c, d \in DOMAIN s[k].header : Names(c) /\ Names(d) => c = d
          /\ \A s \in i.inputs :
                /\ s \in Seq(Range(s)) /\ 1 \in DOMAIN s
                /\ \A k \in DOMAIN s :
                      /\ s[k].rows \in Seq(Range(s[k].rows))
                      /\ s[k].header \in Seq(Range(s[k].header)) /\ s[k].header # <<>>
                      /\ \A c \in Range(s[k].header) :
                            c = [table |-> c.table, name |-> c.name, type |-> c.type]
                      /\ \A r \in Range(s[k].rows) : r \in [DOMAIN s[k].header -> Seq(Int)]

VARIABLES
    job, inputs,    \* argv; the inputs: records of a header and rows
    pc,             \* "open", "read", "exited", "crashed", "aborted" or "hung"
    status,         \* the exit status
    in, pos,        \* the input that is read and its next row
    cols, mem,      \* params->cols; the rest of cb_params
    hdr, out        \* the header and the rows that were printed

given == <<job, inputs>>
vars == <<given, pc, status, in, pos, cols, mem, hdr, out>>

Header == inputs[1].header
Rows == inputs[in].rows
Row == Rows[pos]
Empty == <<>>

-----------------------------------------------------------------------------
(* Columns *)

\* csv_find(), csv_find_by_table(): the first column of that name, or 0
Find(h, table, name) ==
    SelectInSeq(h, LAMBDA c : c.table = table /\ c.name = name)

TableAt == Find(Header, NoTable, TableColumn)
TableMissing == job.table # NoTable /\ TableAt = 0

\* csv_find_loud(), csv_column_doesnt_exist()
Exists(name) == Find(Header, job.table, name) # 0

NewColumn(name, type) == [table |-> job.table, name |-> name, type |-> type]

\* The columns named by -c
Chosen == [i \in DOMAIN job.columns |-> Find(Header, job.table, job.columns[i])]
ColumnMissing == 0 \in Range(Chosen)

Indices == [i \in DOMAIN Header |-> i]

\* With -T, the columns of the other tables
Others ==
    IF job.table = NoTable THEN <<>>
    ELSE Those(Indices, {i \in DOMAIN Header : i # TableAt /\ Header[i].table # job.table})

\* The columns of the output: with -T the table's name first, then the chosen
\* ones, then those of the other tables
Selection == (IF job.table = NoTable THEN <<>> ELSE <<TableAt>>) \o Chosen \o Others

\* csv-uniq, and csv-sum, -min, -max and -avg with -T, write the selection to an
\* array of one entry for each column of the input, also if it is longer: it is,
\* with a column named twice.  What the overrun does is undefined; glibc aborts in
\* a later malloc(), realloc() or free(), or the tool ends as if it had room.
PastEnd == Len(Selection) > Len(Header)

\* strtoll_safe(): it succeeds for numbers that fit, and the empty text is 0.
MinInt == -MaxInt - 1
Number(text) == IF text = Empty THEN 0 ELSE text[1]
IsNumber(text) == Number(text) \in MinInt .. MaxInt

\* csv_print_line_reordered()
Reordered(row, idx) == [i \in DOMAIN idx |-> row[idx[i]]]

\* With -T, a row of another table
OfOtherTable(row) == job.table # NoTable /\ row[TableAt] # <<job.table>>

-----------------------------------------------------------------------------
(* Steps *)

\* csv-merge: each input has its option, -P or -p; -p is for streams without
\* tables.
TablesNamed ==
    /\ DOMAIN job.tables = DOMAIN inputs
    /\ \A k \in DOMAIN inputs : job.tables[k] # NoTable =>
          \A c \in Range(inputs[k].header) : c.table = NoTable

Init ==
    /\ \E i \in Invocations : job \in i.jobs /\ inputs \in i.inputs
    /\ IF job.tool = "merge" THEN TablesNamed
       ELSE Len(inputs) = 1 \/ job.tool \in {"cat", "tac"} \/ (job.tool = "sqlite" /\ job.files)
    /\ pc = "open" /\ status = 0
    /\ in = 1 /\ pos = 1
    /\ cols = <<>> /\ mem = None
    /\ hdr = <<>> /\ out = <<>>

Opening(tool) == pc = "open" /\ job.tool = tool
Reading(tool) == pc = "read" /\ job.tool = tool /\ pos <= Len(Rows)
AtEnd(tool) == pc = "read" /\ job.tool = tool /\ pos > Len(Rows)

\* Something happens within next_row(), or the process ends without exit().
Step(m) ==
    /\ mem' = m
    /\ UNCHANGED <<given, pc, status, in, pos, cols, hdr, out>>

Die(how) ==
    /\ pc' = how
    /\ UNCHANGED <<given, status, in, pos, cols, mem, hdr, out>>

\* The header is printed, the rows follow.
Start(idx, header, m) ==
    /\ cols' = idx /\ hdr' = header /\ mem' = m
    /\ pc' = "read"
    /\ UNCHANGED <<given, status, in, pos, out>>

\* next_row() returns 0: rows are printed, the memory changes.
Continue(printed, m) ==
    /\ out' = out \o printed /\ mem' = m
    /\ pos' = pos + 1
    /\ UNCHANGED <<given, pc, status, in, cols, hdr>>

Exit(code, printed) ==
    /\ pc' = "exited" /\ status' = code
    /\ out' = out \o printed
    /\ UNCHANGED <<given, in, pos, cols, mem, hdr>>

LastInput == in = Len(inputs)

NextInput(printed, m) ==
    /\ in < Len(inputs)
    /\ in' = in + 1 /\ pos' = 1
    /\ out' = out \o printed /\ mem' = m
    /\ UNCHANGED <<given, pc, status, cols, hdr>>

\* exit(2), also from csv_read_all_nofail() when next_row() returns -1
Fail == Exit(2, <<>>)

\* Mutant: the columns keep the order of the input.
PassOnUnordered(tool) ==
    /\ Reading(tool) /\ OfOtherTable(Row)
    /\ Continue(<<Row>>, mem)
\* A row of another table is printed, its columns in the order of the output.
PassOn(tool) ==
    /\ Reading(tool) /\ OfOtherTable(Row)
    /\ Continue(<<Reordered(Row, cols)>>, mem)
=============================================================================
