----------------------------- MODULE Aggregates -----------------------------
(***************************************************************************)
(* csv-sum, csv-min, csv-max and csv-avg: one row with a value for each    *)
(* chosen column, computed over all the rows (of one table, with -T; the   *)
(* others are passed on).  Columns of type float are not modelled: doubles *)
(* neither overflow visibly nor fail.                                      *)
(***************************************************************************)
EXTENDS RowStreams

\* Number of columns before the chosen ones
Before == IF job.table = NoTable THEN 0 ELSE 1

\* active_cols
Active == Before + 1 .. Before + Len(job.columns)

Type(j) == Header[cols[j]].type

-----------------------------------------------------------------------------
(* main() *)

Functions == {"sum", "min", "max", "avg"}

\* The initial value of a column; only numbers have one in csv-min and csv-max.
Initial(type) ==
    IF job.tool = "sum" /\ type = "string" THEN Empty
    ELSE IF job.tool \in {"sum", "avg"} THEN <<0>>
    ELSE IF type = "string" THEN None
    ELSE IF job.tool = "max" THEN <<MinInt>> ELSE <<MaxInt>>

Supported == IF job.tool = "avg" THEN {"int"} ELSE {"int", "string"}

\* One column more than there are in the input was asked for.
Duplicated == Before + Len(job.columns) > Len(Header)

AggregateFails ==
    \/ TableMissing \/ ColumnMissing \/ Duplicated
    \/ \E i \in Range(Chosen) \ {0} : Header[i].type \notin Supported

\* csv_print_table_func_header(): the i-th chosen column has the i-th name of
\* -n, if there is one
ResultHeader ==
    [j \in DOMAIN Selection |->
        LET c == Header[Selection[j]] IN
        IF j \notin Active THEN c
        ELSE IF j - Before <= Len(job.newNames) THEN [c EXCEPT !.name = job.newNames[j - Before]]
        ELSE [table |-> c.table, name |-> c.name, type |-> c.type, function |-> job.tool]]

OpenAggregate ==
    /\ pc = "open" /\ job.tool \in Functions
    /\ \/ AggregateFails /\ Fail
       \/ /\ ~AggregateFails
          /\ Start(Selection, ResultHeader,
                   [values |-> [j \in Active |-> Initial(Header[Selection[j]].type)], rows |-> 0])

-----------------------------------------------------------------------------
(* next_row() *)

Cell(j) == Row[cols[j]]
Value(j) == mem.values[j]

NotANumber(j) == Type(j) = "int" /\ ~IsNumber(Cell(j))

\* The sum would pass LLONG_MAX or LLONG_MIN.
Overflow(j) ==
    IsNumber(Cell(j)) /\
    LET n == Number(Cell(j)) IN
    \/ n > 0 /\ Number(Value(j)) > MaxInt - n
    \/ n < 0 /\ Number(Value(j)) < MinInt - n

\* Mutant: only an overflow is refused, an underflow wraps.
UnsummableAbove(j) ==
    Type(j) = "int" /\ (NotANumber(j) \/ (Overflow(j) /\ Number(Cell(j)) > 0))
Unsummable(j) == Type(j) = "int" /\ (NotANumber(j) \/ Overflow(j))

\* csv-sum, csv-avg: the new value of a column
Summed(j) ==
    IF Type(j) = "int" THEN <<Number(Value(j)) + Number(Cell(j))>>
    ELSE Value(j) \o (IF Value(j) = Empty THEN Empty ELSE job.separator) \o Cell(j)

\* csv-min, csv-max: the cell replaces the value; numbers lose their spelling.
Candidate(j) == IF Type(j) = "int" THEN <<Number(Cell(j))>> ELSE Cell(j)

Better(j) ==
    \/ Value(j) = None
    \/ job.tool = "max" /\ Less(Value(j), Candidate(j))
    \/ job.tool = "min" /\ Less(Candidate(j), Value(j))

Best(j) == IF Better(j) THEN Candidate(j) ELSE Value(j)

\* A row of the right table whose values can be used
Aggregating(tools, bad(_)) ==
    /\ job.tool \in tools /\ Reading(job.tool) /\ ~OfOtherTable(Row)
    /\ ~\E j \in Active : bad(j)

\* Only csv-avg has use for the number of rows.
Aggregated(new(_)) ==
    Continue(<<>>, [values |-> [j \in Active |-> new(j)], rows |-> mem.rows + 1])

AddRow == Aggregating({"sum", "avg"}, Unsummable) /\ Aggregated(Summed)

CompareRow == Aggregating({"min", "max"}, NotANumber) /\ Aggregated(Best)

PassOnRow == job.tool \in Functions /\ PassOn(job.tool)

\* next_row() returns -1: csv_read_all_nofail() exits.
BadRow ==
    /\ job.tool \in Functions /\ Reading(job.tool) /\ ~OfOtherTable(Row)
    /\ \E j \in Active : IF job.tool \in {"sum", "avg"} THEN Unsummable(j) ELSE NotANumber(j)
    /\ Fail

-----------------------------------------------------------------------------
(* The end of main() *)

Result(j) ==
    IF job.tool # "avg" THEN Value(j)
    ELSE IF mem.rows = 0 THEN <<0>> ELSE <<Quotient(Number(Value(j)), mem.rows)>>

ResultRow ==
    [j \in DOMAIN cols |->
        IF j \in Active THEN Result(j) ELSE IF j <= Before THEN <<job.table>> ELSE Empty]

\* csv-min and csv-max give NULL to strlen() for a column of strings that had
\* no row.
NoString == \E j \in Active : Value(j) = None

EndAggregate ==
    /\ job.tool \in Functions /\ AtEnd(job.tool) /\ ~NoString
    /\ Exit(0, <<ResultRow>>)

Crash ==
    /\ job.tool \in Functions /\ AtEnd(job.tool) /\ NoString
    /\ Die("crashed")

OverrunAggregate ==
    /\ pc \in {"open", "read"} /\ job.tool \in Functions
    /\ ~AggregateFails /\ PastEnd
    /\ Die("crashed")

NextAggregate ==
    \/ OpenAggregate \/ AddRow \/ CompareRow \/ PassOnRow \/ BadRow
    \/ EndAggregate \/ Crash \/ OverrunAggregate
=============================================================================
