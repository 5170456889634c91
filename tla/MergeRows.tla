----------------------------- MODULE MergeRows ------------------------------
(***************************************************************************)
(* csv-merge: several streams become one with the columns of all of them.  *)
(* job.tables names the table of an input without tables (-N, -p), or is   *)
(* NoTable for an input that has a column _table (-P).                     *)
(***************************************************************************)
EXTENDS RowStreams

IsTableColumn(c) == c.table = NoTable /\ c.name = TableColumn

\* Where column _table is in input k: 0 if it has none, or if -p is used
TableColumnOf(k) ==
    IF job.tables[k] # NoTable THEN 0 ELSE SelectInSeq(inputs[k].header, IsTableColumn)

\* The columns that input k contributes
Contributed(k) ==
    IF job.tables[k] # NoTable
    THEN [i \in DOMAIN inputs[k].header |-> [inputs[k].header[i] EXCEPT !.table = job.tables[k]]]
    ELSE Those(inputs[k].header, {i \in DOMAIN inputs[k].header : ~IsTableColumn(inputs[k].header[i])})

\* Headers, after the first k inputs
MergedHeader(k) == FlattenSeq([i \in 1 .. k |-> Contributed(i)])

MergeFails ==
    LET h == MergedHeader(Len(inputs)) IN
    \/ h = <<>>
    \/ \E k \in DOMAIN inputs : job.tables[k] = NoTable /\ TableColumnOf(k) = 0
    \/ \E i, j \in DOMAIN h : i # j /\ h[i].table = h[j].table /\ h[i].name = h[j].name

OpenMerge ==
    /\ Opening("merge")
    /\ \/ MergeFails /\ Fail
       \/ /\ ~MergeFails
          /\ Start(<<>>,
                   <<[table |-> NoTable, name |-> TableColumn, type |-> "string"]>>
                        \o MergedHeader(Len(inputs)),
                   Empty)

-----------------------------------------------------------------------------
(* next_row() *)

Blank(n) == [i \in 1 .. n |-> Empty]

\* in->start
FirstColumn == Len(MergedHeader(in - 1))

\* The value of the first field
RowTable == IF job.tables[in] # NoTable THEN <<job.tables[in]>> ELSE Row[TableColumnOf(in)]

\* The fields after it that come from the input
Own == [i \in DOMAIN Contributed(in) |->
            IF TableColumnOf(in) = 0 \/ i < TableColumnOf(in) THEN Row[i] ELSE Row[i + 1]]

\* When _table is the last column, the separator before it is printed all the
\* same, and makes another field.
Trailing ==
    Len(hdr) - 1 - FirstColumn - Len(Own) + (IF TableColumnOf(in) = Len(Row) THEN 1 ELSE 0)

MergeRow ==
    /\ Reading("merge")
    /\ Continue(<<<<RowTable>> \o Blank(FirstColumn) \o Own \o Blank(Trailing)>>, mem)

EndMerge ==
    /\ AtEnd("merge")
    /\ NextInput(<<>>, mem) \/ (LastInput /\ Exit(0, <<>>))

NextMerge == OpenMerge \/ MergeRow \/ EndMerge
=============================================================================
