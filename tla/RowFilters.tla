----------------------------- MODULE RowFilters -----------------------------
(***************************************************************************)
(* The tools that print some of the rows they read, in the same or in the  *)
(* reverse order: csv-head, csv-tail, csv-tac, csv-cat, csv-cut, csv-uniq, *)
(* csv-grep and csv-count.  An Open action is main() up to csv_read_all(), *)
(* a Row action is one call of next_row(), an End action is what follows   *)
(* the last row.                                                           *)
(***************************************************************************)
EXTENDS RowStreams

-----------------------------------------------------------------------------
(* csv-head -n lines *)

OpenHead == Opening("head") /\ Start(Indices, Header, [printed |-> 0])

\* next_row() returns 1: csv_read_all() stops, which csv-head does not mind.
HeadFull ==
    /\ Reading("head") /\ mem.printed >= job.lines
    /\ Exit(0, <<>>)

HeadRow ==
    /\ Reading("head") /\ mem.printed < job.lines
    /\ Continue(<<Row>>, [printed |-> mem.printed + 1])

EndHead == AtEnd("head") /\ Exit(0, <<>>)

-----------------------------------------------------------------------------
(* csv-tail -n lines: a ring of the last rows *)

OpenTail ==
    /\ Opening("tail")
    /\ Start(Indices, Header,
             [lines |-> [i \in 0 .. job.lines - 1 |-> None], firstEmpty |-> 0, count |-> 0])

\* Mutant: the ring wraps one slot early.
SlotAfterEarly(i) == IF i + 2 >= job.lines THEN 0 ELSE i + 1
SlotAfter(i) == IF i + 1 = job.lines THEN 0 ELSE i + 1

TailRow ==
    /\ Reading("tail") /\ job.lines > 0
    /\ Continue(<<>>, [lines |-> [mem.lines EXCEPT ![mem.firstEmpty] = Row],
                       firstEmpty |-> SlotAfter(mem.firstEmpty),
                       count |-> mem.count + 1])

\* The slots from..to - 1 of the ring
Slots(from, to) == [i \in 1 .. to - from |-> mem.lines[from + i - 1]]

\* The rows in the ring, oldest first
RingRows ==
    IF mem.count >= job.lines
    THEN Slots(mem.firstEmpty, job.lines) \o Slots(0, mem.firstEmpty)
    ELSE Slots(0, mem.firstEmpty)

\* With -n 0 nothing is read.
EndTail ==
    /\ pc = "read" /\ job.tool = "tail"
    /\ pos > Len(Rows) \/ job.lines = 0
    /\ Exit(0, RingRows)

-----------------------------------------------------------------------------
(* csv-cat, csv-tac: several inputs, whose columns may come in any order *)

SameColumn(c, d) == c.name = d.name /\ c.table = d.table

\* add_input(): where the columns of the first input are in input k
IndexIn(k) ==
    IF k = 1 THEN Indices
    ELSE [j \in DOMAIN Header |-> SelectInSeq(inputs[k].header, LAMBDA c : SameColumn(c, Header[j]))]

Fits(k) ==
    /\ Len(inputs[k].header) = Len(Header)
    /\ \A j \in DOMAIN Header :
          /\ IndexIn(k)[j] # 0
          /\ inputs[k].header[IndexIn(k)[j]].type = Header[j].type

OpenFiles(tool) ==
    /\ Opening(tool)
    /\ \/ /\ \A k \in DOMAIN inputs : Fits(k)
          /\ Start([k \in DOMAIN inputs |-> IndexIn(k)], Header, [lines |-> <<>>])
       \/ /\ \E k \in DOMAIN inputs : ~Fits(k)
          /\ Fail

CatRow == Reading("cat") /\ Continue(<<Reordered(Row, cols[in])>>, mem)

TacRow == Reading("tac") /\ Continue(<<>>, [lines |-> Append(mem.lines, Row)])

\* What csv-tac prints at the end of an input
Reversed == [i \in DOMAIN mem.lines |-> Reordered(mem.lines[Len(mem.lines) + 1 - i], cols[in])]

EndCat ==
    /\ AtEnd("cat")
    /\ NextInput(<<>>, mem) \/ (LastInput /\ Exit(0, <<>>))

\* The next input has a `struct lines` of its own.
EndTac ==
    /\ AtEnd("tac")
    /\ NextInput(Reversed, [lines |-> <<>>]) \/ (LastInput /\ Exit(0, Reversed))

-----------------------------------------------------------------------------
(* csv-cut -c columns [-r] [-T table] *)

Dropped == Those(Indices, DOMAIN Header \ Range(Chosen))

\* The columns that are kept
Kept == IF job.reverse THEN Dropped ELSE Selection

\* -r: a column cannot be removed twice.
Twice == job.reverse /\ ~IsInjective(Chosen)

CutFails == TableMissing \/ ColumnMissing \/ Twice

\* With no column left nothing is read or printed.
OpenCut ==
    /\ Opening("cut")
    /\ \/ CutFails /\ Fail
       \/ ~CutFails /\ Kept = <<>> /\ Exit(0, <<>>)
       \/ ~CutFails /\ Kept # <<>> /\ Start(Kept, Reordered(Header, Kept), Empty)

\* Rows of any table
CutRow == Reading("cut") /\ Continue(<<Reordered(Row, cols)>>, mem)

EndCut == AtEnd("cut") /\ Exit(0, <<>>)

-----------------------------------------------------------------------------
(* csv-uniq -c columns [-T table] *)

OpenUniq ==
    /\ Opening("uniq")
    /\ \/ (TableMissing \/ ColumnMissing) /\ Fail
       \/ /\ ~(TableMissing \/ ColumnMissing)
          /\ Start(Selection, Reordered(Header, Selection), [j \in DOMAIN Selection |-> None])

\* Mutant: only the values that differ are remembered from the second row on.
UniqRowFirstOnly ==
    /\ Reading("uniq") /\ ~OfOtherTable(Row)
    /\ LET row == Reordered(Row, cols) IN
       Continue(IF row # mem THEN <<row>> ELSE <<>>,
                [j \in DOMAIN mem |-> IF mem[j] = None THEN row[j] ELSE mem[j]])
\* A buffer for each column holds its last value; a row is printed, from the
\* buffers, if it changes one.
UniqRow ==
    /\ Reading("uniq") /\ ~OfOtherTable(Row)
    /\ LET row == Reordered(Row, cols) IN
       Continue(IF \E j \in DOMAIN row : row[j] # mem[j] THEN <<row>> ELSE <<>>, row)

EndUniq == AtEnd("uniq") /\ Exit(0, <<>>)

OverrunUniq ==
    /\ pc \in {"open", "read"} /\ job.tool = "uniq"
    /\ ~(TableMissing \/ ColumnMissing) /\ PastEnd
    /\ Die("crashed")

-----------------------------------------------------------------------------
(* csv-grep (-c column -e pattern)... [-v] [-T table] *)

\* A pattern is the set of the values it matches; the columns of the conditions
\* are job.columns, and their patterns are job.patterns.
Matches(i) == Row[cols[i]] \in job.patterns[i]

OpenGrep ==
    /\ Opening("grep")
    /\ \/ (TableMissing \/ ColumnMissing) /\ Fail
       \/ ~(TableMissing \/ ColumnMissing) /\ Start(Chosen, Header, Empty)

\* Without -v one condition has to match, with -v none may.
GrepRow ==
    /\ Reading("grep")
    /\ LET some == \E i \in DOMAIN job.patterns : Matches(i)
           selected == OfOtherTable(Row) \/ (some # job.invert)
       IN Continue(IF selected THEN <<Row>> ELSE <<>>, mem)

EndGrep == AtEnd("grep") /\ Exit(0, <<>>)

-----------------------------------------------------------------------------
(* csv-count [-c] [-r] [-R] *)

Counter(name) == [table |-> NoTable, name |-> name, type |-> "int"]

OpenCount ==
    /\ Opening("count")
    /\ \/ ~job.c /\ ~job.r /\ Fail
       \/ (job.c \/ job.r) /\ Start(Indices, <<>>, [rows |-> 0])

CountRow ==
    /\ Reading("count") /\ (job.r \/ job.R)
    /\ Continue(<<>>, [rows |-> mem.rows + 1])

EndCount ==
    /\ pc = "read" /\ job.tool = "count"
    /\ pos > Len(Rows) \/ ~(job.r \/ job.R)
    /\ hdr' = (IF job.c THEN <<Counter("columns")>> ELSE <<>>)
                \o (IF job.r THEN <<Counter("rows")>> ELSE <<>>)
    /\ out' = <<(IF job.c THEN <<<<Len(Header)>>>> ELSE <<>>)
                \o (IF job.r THEN <<<<mem.rows>>>> ELSE <<>>)>>
    /\ pc' = "exited"
    /\ UNCHANGED <<given, status, in, pos, cols, mem>>

-----------------------------------------------------------------------------
NextFilter ==
    \/ OpenHead \/ HeadFull \/ HeadRow \/ EndHead
    \/ OpenTail \/ TailRow \/ EndTail
    \/ OpenFiles("cat") \/ CatRow \/ EndCat
    \/ OpenFiles("tac") \/ TacRow \/ EndTac
    \/ OpenCut \/ CutRow \/ EndCut
    \/ OpenUniq \/ PassOn("uniq") \/ UniqRow \/ EndUniq \/ OverrunUniq
    \/ OpenGrep \/ GrepRow \/ EndGrep
    \/ OpenCount \/ CountRow \/ EndCount
=============================================================================
