------------------------------ MODULE RowTools ------------------------------
(***************************************************************************)
(* The tools of RowFilters, Aggregates, SortRows, MergeRows, RpnTools,     *)
(* SqlTools, ColumnTools, TreeTool and SqliteTool, and what the first four *)
(* promise of their whole output, stated over the whole input and not row  *)
(* by row; the others state it themselves.                                 *)
(***************************************************************************)
EXTENDS RowFilters, Aggregates, SortRows, MergeRows, RpnTools, SqlTools, ColumnTools, TreeTool, SqliteTool

\* A tool that has ended may stay as it is.
Ended == pc \in {"exited", "crashed", "aborted", "hung"} /\ UNCHANGED vars

Next ==
    \/ NextFilter \/ NextAggregate \/ NextSort \/ NextMerge
    \/ NextRpn \/ NextSql \/ Evaluate
    \/ NextColumns \/ NextTree \/ NextSqlite
    \/ Ended

Spec == Init /\ [][Next]_vars

-----------------------------------------------------------------------------
(* Terms of the promises *)

\* The rows read so far, and all rows of the only input
Consumed == SubSeq(Rows, 1, pos - 1)
AllRows == inputs[1].rows

\* Those of the table of -T
Selected(rows) == Those(rows, {k \in DOMAIN rows : ~OfOtherTable(rows[k])})
Foreign(rows) == Those(rows, {k \in DOMAIN rows : OfOtherTable(rows[k])})

\* The values under a column of the input
Values(i, rows) == [k \in DOMAIN rows |-> rows[k][i]]

\* What each row of the input adds to the sum of a column, and the sums of the
\* first k numbers of a sequence
Addends(i) == [k \in DOMAIN AllRows |-> IF OfOtherTable(AllRows[k]) THEN 0 ELSE Number(AllRows[k][i])]
Sums(s) == LET sum[k \in 0 .. Len(s)] == IF k = 0 THEN 0 ELSE sum[k - 1] + s[k] IN sum

Printed == pc = "exited" /\ status = 0
Prints(tool, rows) == job.tool = tool => out = rows

\* What a row holds under column c, for a given header
Under(row, header, c) == row[SelectInSeq(header, LAMBDA d : d = c)]

\* The rows printed for another table than that of -T
PrintedForeign ==
    LET at == SelectInSeq(hdr, LAMBDA c : c.table = NoTable /\ c.name = TableColumn)
    IN Those(out, {k \in DOMAIN out : out[k][at] # <<job.table>>})

-----------------------------------------------------------------------------
(* Properties *)

\* Every variable has its type.  The ring of csv-tail has a free slot within its
\* bounds, and the memory of csv-uniq and of the aggregates fits the columns.
TypeOK ==
    /\ pc \in {"open", "read", "exited", "crashed", "aborted", "hung"} /\ status \in {0, 1, 2}
    /\ in \in DOMAIN inputs /\ pos \in 1 .. Len(Rows) + 1
    /\ pc = "read" =>
          /\ job.tool = "tail" /\ job.lines > 0 => mem.firstEmpty \in DOMAIN mem.lines
          /\ job.tool = "uniq" => DOMAIN mem = DOMAIN cols
          /\ job.tool \in Functions => DOMAIN mem.values = Active /\ Active \subseteq DOMAIN cols

\* csv-head prints the first rows, csv-tail the last ones, csv-cat all and
\* csv-tac the rows of each input in reverse order, whatever the order of the
\* columns in the later inputs; the rows of the first one are printed as they are,
\* also if two of its columns have one name.
LinesRight ==
    Printed =>
        /\ Prints("head", SubSeq(AllRows, 1, IF job.lines < Len(AllRows) THEN job.lines ELSE Len(AllRows)))
        /\ Prints("tail", IF job.lines < Len(AllRows)
                          THEN SubSeq(AllRows, Len(AllRows) - job.lines + 1, Len(AllRows)) ELSE AllRows)
        /\ job.tool \in {"cat", "tac"} =>
              LET ByName(k, row) ==
                    IF k = 1 THEN row
                    ELSE [j \in DOMAIN Header |-> Under(row, inputs[k].header, Header[j])]
                  Copied(k) == [r \in DOMAIN inputs[k].rows |-> ByName(k, inputs[k].rows[r])]
              IN out = FlattenSeq([k \in DOMAIN inputs |->
                                      IF job.tool = "cat" THEN Copied(k) ELSE Reverse(Copied(k))])

\* csv-uniq prints a row unless it has the values of the row of the same table
\* before it; csv-grep prints the rows that match, with -v the others; csv-cut
\* prints every row, and if no two columns are the same, the chosen columns or with
\* -r the others; csv-count prints the size of the input.
ChoiceRight ==
    Printed =>
        /\ job.tool = "uniq" =>
              LET Same(r, s) == \A i \in Range(cols) : r[i] = s[i]
                  Repeats(k) ==
                    \E b \in 1 .. k - 1 :
                        /\ ~OfOtherTable(AllRows[b]) /\ Same(AllRows[b], AllRows[k])
                        /\ \A d \in b + 1 .. k - 1 : OfOtherTable(AllRows[d])
                  shown == Those([k \in DOMAIN AllRows |-> k],
                                 {k \in DOMAIN AllRows : OfOtherTable(AllRows[k]) \/ ~Repeats(k)})
              IN out = [k \in DOMAIN shown |-> Reordered(AllRows[shown[k]], cols)]
        /\ Prints("grep",
              Those(AllRows, {k \in DOMAIN AllRows :
                  \/ OfOtherTable(AllRows[k])
                  \/ job.invert <=> \A i \in DOMAIN job.patterns : AllRows[k][Chosen[i]] \notin job.patterns[i]}))
        /\ job.tool = "cut" =>
              /\ hdr # <<>> => Len(out) = Len(AllRows)
              /\ IsInjective(Header) =>
                    /\ job.reverse => Range(hdr) = Range(Header) \ {Header[i] : i \in Range(Chosen)}
                    /\ \A k \in DOMAIN out, j \in DOMAIN hdr :
                          out[k][j] = Under(AllRows[k], Header, hdr[j])
        /\ job.tool = "count" =>
              /\ job.c => out[1][1] = <<Len(Header)>>
              /\ job.r => Last(out[1]) = <<Len(AllRows)>>

\* csv-sum adds all numbers and joins all strings, but no separator follows
\* the empty strings at the beginning; csv-avg divides by the number of rows of
\* the table; csv-min and csv-max name a value that occurs and that no other one
\* passes.
ResultRight ==
    Printed /\ job.tool \in Functions =>
        \A i \in DOMAIN Chosen :
            LET rows == Selected(AllRows)
                column == Chosen[i]
                isInt == Header[column].type = "int"
                result == Last(out)[Before + i]
                total == Sums(Addends(column))[Len(AllRows)]
                texts == Values(column, rows)
                lead == {k \in DOMAIN texts : \A l \in 1 .. k : texts[l] = Empty}
                joined == SubSeq(texts, Cardinality(lead) + 1, Len(texts))
            IN /\ job.tool = "sum" /\ isInt => result = <<total>>
               /\ job.tool = "sum" /\ ~isInt =>
                     result = FlattenSeq([k \in DOMAIN joined |->
                                  (IF k = 1 THEN Empty ELSE job.separator) \o joined[k]])
               /\ job.tool = "avg" =>
                     \/ rows = <<>> /\ result = <<0>>
                     \/ LET rest == total - Number(result) * Len(rows) IN
                        /\ rest \in 1 - Len(rows) .. Len(rows) - 1
                        /\ rest * total >= 0
               /\ job.tool \in {"min", "max"} /\ rows # <<>> =>
                     LET values == {IF isInt THEN <<Number(v)>> ELSE v : v \in Range(texts)} IN
                     /\ result \in values
                     /\ \A v \in values :
                           IF job.tool = "min" THEN ~Less(v, result) ELSE ~Less(result, v)

\* A sum is never wrong without a word: csv-sum and csv-avg succeed if and only
\* if every cell they add is a number and no partial sum leaves the range of
\* long long, however many rows of other tables come in between.
OverflowTold ==
    pc = "exited" /\ job.tool \in {"sum", "avg"} /\ hdr # <<>> =>
        (status = 0 <=>
            \A i \in DOMAIN Chosen : Header[Chosen[i]].type = "int" =>
                \A k \in DOMAIN AllRows :
                    /\ OfOtherTable(AllRows[k]) \/ IsNumber(AllRows[k][Chosen[i]])
                    /\ Sums(Addends(Chosen[i]))[k] \in MinInt .. MaxInt)

SameNumber(x, y) == IsNumber(x) /\ IsNumber(y) /\ Number(x) = Number(y)

\* The order of the rows by the columns of -c, one after the other, where
\* numbers are compared as numbers
OrderedBy(r, s, keys) ==
    LET Same(i) == r[i] = s[i] \/ (Header[i].type = "int" /\ SameNumber(r[i], s[i]))
        Below(i) ==
            IF Header[i].type # "int" THEN Less(r[i], s[i])
            ELSE IsNumber(r[i]) /\ IsNumber(s[i]) /\ Number(r[i]) < Number(s[i])
    IN \A k \in DOMAIN keys : (\A l \in 1 .. k - 1 : Same(keys[l])) => Same(keys[k]) \/ Below(keys[k])

\* Of any two rows that csv-sort prints for the table, the one that comes first
\* is not above the other by the first `depth` columns of -c.
SortedTo(depth) ==
    LET rows == Selected(out)
        keys == SubSeq(Chosen, 1, IF depth < Len(Chosen) THEN depth ELSE Len(Chosen))
    IN \A k, l \in DOMAIN rows : k < l =>
          IF job.reverse THEN OrderedBy(rows[l], rows[k], keys) ELSE OrderedBy(rows[k], rows[l], keys)

\* No number of the chosen columns is spelled in two ways.
OneSpelling ==
    \A i \in Range(Chosen) : Header[i].type = "int" =>
        \A r, s \in Range(AllRows) : SameNumber(r[i], s[i]) => r[i] = s[i]

\* csv-sort prints the rows it has read, each as often, in the order of the
\* columns; if a number is spelled in two ways, in the order of the first one.
SortRight ==
    Printed /\ job.tool = "sort" =>
        /\ \A r \in Range(AllRows) \cup Range(out) :
              Cardinality({k \in DOMAIN out : out[k] = r}) = Cardinality({k \in DOMAIN AllRows : AllRows[k] = r})
        /\ SortedTo(1)
        /\ OneSpelling => SortedTo(Len(Chosen))

\* "sort first by column NAME1, then NAME2" (src/src/sort.c:40).
SortedByAll == Printed /\ job.tool = "sort" => SortedTo(Len(Chosen))

\* The rows of other tables than that of -T are printed as soon as they are read,
\* in their order, with the values of their own columns under the same names,
\* wherever the tool moves these columns.
OtherTablesKept ==
    /\ pc = "read" \/ (Printed /\ hdr # <<>>)
    /\ job.tool \in Functions \cup BuilderNames \cup {"cut", "uniq", "grep", "sort"} \cup RpnToolNames \cup {"add_sql", "grep_sql"}
    /\ job.table # NoTable
    =>
        LET read == Foreign(Consumed) IN
        /\ Len(PrintedForeign) = Len(read)
        /\ \A k \in DOMAIN read : \A c \in Range(Header) :
              c.table # job.table => Under(PrintedForeign[k], hdr, c) = Under(read[k], Header, c)

\* The rows of an input of csv-merge keep their table and hold their values
\* under the names the merged header gives them, and nothing under those of the
\* other inputs.  Every row fits the header, unless _table is the last column of
\* its input: then it has one field too many.
MergeRight ==
    Printed /\ job.tool = "merge" =>
        LET Skipped(k) == Len(FlattenSeq([i \in 1 .. k - 1 |-> inputs[i].rows]))
            Given(k, c) ==
                LET own == IF job.tables[k] = NoTable THEN c ELSE [c EXCEPT !.table = NoTable]
                IN SelectInSeq(inputs[k].header, LAMBDA d : d = own)
            Theirs(k) == job.tables[k] = NoTable /\ IsTableColumn(Last(inputs[k].header))
        IN \A k \in DOMAIN inputs : \A n \in DOMAIN inputs[k].rows :
              LET row == out[Skipped(k) + n] IN
              /\ Len(row) = Len(hdr) + (IF Theirs(k) THEN 1 ELSE 0)
              /\ \A j \in 2 .. Len(hdr) :
                    row[j] = IF hdr[j] \in Range(Contributed(k))
                             THEN inputs[k].rows[n][Given(k, hdr[j])] ELSE Empty
              /\ job.tables[k] # NoTable => row[1] = <<job.tables[k]>>

\* The memory of the tools has its type, and what they print when they succeed
\* is what they promise.
OutputRight == TypeOK /\ LinesRight /\ ChoiceRight /\ ResultRight /\ SortRight /\ MergeRight

\* While csv-tail reads, its ring holds the last rows, oldest first from the slot
\* that is overwritten next.
RingHoldsLast ==
    pc = "read" /\ job.tool = "tail" =>
        RingRows = SubSeq(Consumed, IF pos - 1 > job.lines THEN pos - job.lines ELSE 1, pos - 1)
=============================================================================
