----------------------------- MODULE SqliteTool -----------------------------
(***************************************************************************)
(* csv-sqlite (src/src/sqlite.c): every input is loaded into tables of a   *)
(* database, with -T one for each table of the stream; then the statements *)
(* are executed up to the first one that has a result, which is printed.   *)
(*                                                                         *)
(* The database is external.  A statement is `select *` from one table or  *)
(* several, `delete` from one, or another without a result ("index").  The *)
(* table of an input without -T is called by the number of -i, or 0 for    *)
(* standard input.                                                         *)
(***************************************************************************)
EXTENDS Rpn

CONSTANT Shorter    \* pairs of names of tables: the second begins with the first

Null == [type |-> "null"]

-----------------------------------------------------------------------------
(* add_file(), up to the rows *)

\* The table among those of earlier columns that a column is added to: the
\* names are compared as far as the one of the column goes.
Home(tables, name) ==
    SelectInSeq(tables, LAMBDA l : l.name = name \/ <<name, l.name>> \in Shorter)

\* build_queries(): a table that is created, and the values inserted into it
NewTable(name, columns) == [name |-> name, columns |-> columns, rows |-> <<>>]

WithColumn(tables, c) ==
    LET k == Home(tables, c.table)
        column == [name |-> c.name, type |-> c.type]
    IN IF k = 0 THEN Append(tables, NewTable(c.table, <<column>>))
       ELSE [tables EXCEPT ![k].columns = Append(@, column)]

IsTableName(c) == c.table = NoTable /\ c.name = TableColumn

FileTables(k) ==
    LET header == inputs[k].header IN
    IF job.tables
    THEN FoldLeft(WithColumn, <<>>, SelectSeq(header, LAMBDA c : ~IsTableName(c)))
    ELSE <<NewTable(IF job.files THEN k ELSE 0,
                    [i \in DOMAIN header |->
                        [name |-> <<header[i].table, header[i].name>>, type |-> header[i].type]])>>

\* A column of no table, two columns of one name, or a table that is there already
LoadFails(k, db) ==
    \/ job.tables /\ \E c \in Range(inputs[k].header) : c.table = NoTable /\ ~IsTableName(c)
    \/ \E l \in Range(FileTables(k)) :
          \/ \E i, j \in DOMAIN l.columns : i # j /\ l.columns[i].name = l.columns[j].name
          \/ \E d \in Range(db) : d.name = l.name

\* `before` is the number of tables of earlier inputs.
OpenSqlite ==
    /\ Opening("sqlite")
    /\ IF LoadFails(1, <<>>) THEN Fail
       ELSE Start(<<>>, <<>>, [db |-> FileTables(1), before |-> 0])

NextFile ==
    /\ AtEnd("sqlite") /\ ~LastInput
    /\ IF LoadFails(in + 1, mem.db) THEN Fail
       ELSE NextInput(<<>>, [db |-> mem.db \o FileTables(in + 1), before |-> Len(mem.db)])

-----------------------------------------------------------------------------
(* next_row() *)

\* table_column, or 0
NameAt == SelectLastInSeq(inputs[in].header, IsTableName)

\* The table of the row among those of its input, or 0
Inserting ==
    SelectLastInSeq(mem.db, LAMBDA l : IF job.tables THEN <<l.name>> = Row[NameAt] ELSE TRUE)

\* Mutant: columns of longer table names are taken, too.
BoundLonger(name) ==
    LET header == inputs[in].header IN
    SelectSeq([i \in DOMAIN header |-> i],
              LAMBDA i : job.tables => header[i].table = name \/ <<name, header[i].table>> \in Shorter)
\* The columns whose values are bound to the parameters of the statement
Bound(name) ==
    LET header == inputs[in].header IN
    SelectSeq([i \in DOMAIN header |-> i], LAMBDA i : job.tables => header[i].table = name)

\* What a column of the database keeps of a value
Affinity(v, type) ==
    IF v = Pchar(Empty) \/ (type = "int" /\ v.type = "float" /\ v.value[2] # 1) THEN v
    ELSE LET converted == Converted(v, type) IN IF IsValue(converted) THEN converted ELSE v

\* Parameters that are not bound are null.
InsertRow ==
    /\ Reading("sqlite") /\ (job.tables => NameAt # 0)
    /\ LET k == Inserting
           bound == Bound(mem.db[k].name)
           values == [i \in DOMAIN bound |->
                         Converted(Pchar(Row[bound[i]]), inputs[in].header[bound[i]].type)]
           columns == mem.db[k].columns
       IN IF \/ k <= mem.before
             \/ Len(bound) > Len(columns)
             \/ \E i \in DOMAIN values : ~IsValue(values[i])
          THEN Fail
          ELSE Continue(<<>>,
                   [mem EXCEPT !.db[k].rows =
                       Append(@, [i \in DOMAIN columns |->
                                     IF i <= Len(values) THEN Affinity(values[i], columns[i].type) ELSE Null])])

\* assert(params->table_column != SIZE_MAX)
NameMissing ==
    /\ Reading("sqlite") /\ job.tables /\ NameAt = 0
    /\ Die("aborted")

-----------------------------------------------------------------------------
(* The statements *)

\* The first that has a result, or 0; what is behind it is not looked at.
FirstSelect == SelectInSeq(job.statements, LAMBDA s : s.kind = "select")
Executed == SubSeq(job.statements, 1, IF FirstSelect = 0 THEN Len(job.statements) ELSE FirstSelect)
TableOf(name) == SelectInSeq(mem.db, LAMBDA l : l.name = name)
Deleted(name) == \E s \in Range(Executed) : s.kind = "delete" /\ name \in Range(s.from)

RowsOf(name) == IF Deleted(name) THEN <<>> ELSE mem.db[TableOf(name)].rows

\* All combinations of rows
Joined(from) ==
    FoldLeft(LAMBDA rows, name :
                FlattenSeq([i \in DOMAIN rows |->
                    [j \in DOMAIN RowsOf(name) |-> rows[i] \o RowsOf(name)[j]]]),
             <<Empty>>, from)

\* A statement fails, or none has a result.
StatementsFail ==
    \/ FirstSelect = 0
    \/ \E s \in Range(Executed) : \E name \in Range(s.from) : TableOf(name) = 0

\* print_col(): the type is that of the value in the first row.
TypeShown(rows, j) == IF rows = <<>> \/ rows[1][j] = Null THEN "string" ELSE rows[1][j].type

\* The name of the table is printed before a name that occurs twice.
SelectedHeader(from, rows) ==
    LET names == FlattenSeq([i \in DOMAIN from |->
                     [j \in DOMAIN mem.db[TableOf(from[i])].columns |->
                         [table |-> from[i], name |-> mem.db[TableOf(from[i])].columns[j].name]]])
        Ambiguous(j) == \E k \in DOMAIN names : k # j /\ names[k].name = names[j].name
    IN [j \in DOMAIN names |->
           [table |-> IF Ambiguous(j) THEN names[j].table ELSE NoTable, name |-> names[j].name,
            type |-> TypeShown(rows, j)]]

\* print_val()
FieldOf(v) == IF v = Null THEN Empty ELSE TextOf(v)

QuerySqlite ==
    /\ AtEnd("sqlite") /\ LastInput
    /\ IF StatementsFail THEN Fail
       ELSE LET from == job.statements[FirstSelect].from
                rows == Joined(from)
            IN /\ hdr' = SelectedHeader(from, rows)
               /\ out' = [k \in DOMAIN rows |-> [j \in DOMAIN rows[k] |-> FieldOf(rows[k][j])]]
               /\ pc' = "exited" /\ status' = 0
               /\ UNCHANGED <<given, in, pos, cols, mem>>

NextSqlite == OpenSqlite \/ NextFile \/ InsertRow \/ NameMissing \/ QuerySqlite

-----------------------------------------------------------------------------
(* Properties *)

\* What the streams say: the tables of input k, the columns of one of them, and
\* its rows, with the values of these columns
TablesIn(k) ==
    LET header == inputs[k].header IN
    IF job.tables THEN {header[i].table : i \in {j \in DOMAIN header : ~IsTableName(header[j])}}
    ELSE {IF job.files THEN k ELSE 0}

OwnColumns(k, name) ==
    LET header == inputs[k].header IN
    SelectSeq([i \in DOMAIN header |-> i],
              LAMBDA i : job.tables => header[i].table = name /\ ~IsTableName(header[i]))

Written(k, row, i) == Converted(Pchar(row[i]), inputs[k].header[i].type)

Loaded(k, name) ==
    LET at == SelectLastInSeq(inputs[k].header, IsTableName)
        ours == SelectSeq(inputs[k].rows, LAMBDA r : job.tables => r[at] = <<name>>)
    IN [n \in DOMAIN ours |-> [j \in DOMAIN OwnColumns(k, name) |-> TextOf(Written(k, ours[n], OwnColumns(k, name)[j]))]]

\* The first column of the table comes behind one of a table with a longer name.
Swallowed(k, name) ==
    job.tables /\ \E i \in 1 .. OwnColumns(k, name)[1] - 1 : <<name, inputs[k].header[i].table>> \in Shorter

Loadable(k) ==
    LET header == inputs[k].header
        at == SelectLastInSeq(header, IsTableName)
    IN /\ job.tables => NoTable \notin TablesIn(k)
       /\ \A name \in TablesIn(k) : \A i, j \in Range(OwnColumns(k, name)) :
             i # j => header[i].name # header[j].name \/ header[i].table # header[j].table
       /\ \A l \in 1 .. k - 1 : TablesIn(k) \cap TablesIn(l) = {}
       /\ \A n \in DOMAIN inputs[k].rows :
             \E name \in TablesIn(k) :
                /\ job.tables => at # 0 /\ inputs[k].rows[n][at] = <<name>>
                /\ \A i \in Range(OwnColumns(k, name)) : IsValue(Written(k, inputs[k].rows[n], i))

Answerable ==
    /\ FirstSelect # 0
    /\ \A s \in Range(Executed) : \A name \in Range(s.from) : \E k \in DOMAIN inputs : name \in TablesIn(k)

\* The columns and the rows of a table of a statement
Origin(name) == CHOOSE k \in DOMAIN inputs : name \in TablesIn(k)
Remaining(name) == IF Deleted(name) THEN <<>> ELSE Loaded(Origin(name), name)

Occurrences(rows, row) == Len(SelectSeq(rows, LAMBDA r : r = row))

\* The result of a select of one table or two: the columns of the tables one after
\* the other, with names that differ and the types of the streams, and each row, or
\* each pair of rows, as often as it is there.
AnswerRight ==
    LET from == job.statements[FirstSelect].from
        expected ==
            FlattenSeq([i \in DOMAIN from |->
                [j \in DOMAIN OwnColumns(Origin(from[i]), from[i]) |->
                    inputs[Origin(from[i])].header[OwnColumns(Origin(from[i]), from[i])[j]]]])
        first == Remaining(from[1])
        second == IF Len(from) = 1 THEN <<Empty>> ELSE Remaining(from[2])
    IN /\ [j \in DOMAIN hdr |-> hdr[j].name]
              = [j \in DOMAIN expected |->
                    IF job.tables THEN expected[j].name ELSE <<expected[j].table, expected[j].name>>]
       /\ \A i, j \in DOMAIN hdr : i # j => hdr[i].table # hdr[j].table \/ hdr[i].name # hdr[j].name
       /\ \A j \in DOMAIN hdr : hdr[j].type = IF out = <<>> THEN "string" ELSE expected[j].type
       /\ Len(from) = 1 => out = first
       /\ Len(out) = Len(first) * Len(second)
       /\ \A r \in Range(first), s \in Range(second) :
             Occurrences(out, r \o s) = Occurrences(first, r) * Occurrences(second, s)

\* csv-sqlite succeeds if and only if every column and every row belongs to a table
\* of its own input alone and the statements have a result, and then prints it.  It
\* does so for inputs in which no table comes behind the columns of one whose name
\* begins with its own: the rows of such a table are refused.  It aborts at the first
\* row of a stream for -T without _table (src/src/sqlite.c).
SqliteRight ==
    job.tool = "sqlite" =>
        LET Answered == pc = "exited" /\ status = 0
            apart == \A k \in DOMAIN inputs : \A name \in TablesIn(k) : ~Swallowed(k, name)
        IN /\ pc = "aborted" =>
                  job.tables /\ pos = 1 /\ \A c \in Range(inputs[in].header) : ~IsTableName(c)
           /\ pc = "exited" /\ apart =>
                  (status = 0 <=> Answerable /\ \A k \in DOMAIN inputs : Loadable(k))
           /\ Answered /\ apart => AnswerRight
           /\ Answered => \A k \in DOMAIN inputs : \A name \in TablesIn(k) :
                               Swallowed(k, name) => Loaded(k, name) = <<>>
=============================================================================
