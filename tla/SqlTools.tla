------------------------------ MODULE SqlTools ------------------------------
(***************************************************************************)
(* csv-sql, csv-add-sql and csv-grep-sql (src/src/sql.c,                   *)
(* src/src/add-sql.c, src/src/grep-sql.c, src/src/sql-shared.h,            *)
(* src/src/sql.y.in).  The grammar writes expressions in postfix form, so  *)
(* a query is one of sequences of tokens: well formed, and beginning with  *)
(* a column or a constant.  A token of kind "name" is looked up when the   *)
(* parser meets it.                                                        *)
(***************************************************************************)
EXTENDS RpnEval

\* The options -e of csv-add-sql, each with the columns it adds
ASSUME SqlAssumption ==
    \A i \in Invocations : \A j \in i.jobs : j.tool = "add_sql" =>
        /\ j.expressions \in Seq(Range(j.expressions))
        /\ \A e \in Range(j.expressions) : e.columns \in Seq(Range(e.columns))

ColumnToken(name) == [kind |-> "column", name |-> name]

-----------------------------------------------------------------------------
(* Names *)

\* sql_stack_push_string(): the column of SELECT at which the search for a name
\* stops.  It hands the name of every column to strcmp(), also that of a column
\* that has none.
Named(columns, name) == SelectInSeq(columns, LAMBDA c : c.name \in {None, name})

\* What a token puts into the expression: a column named before gives its tokens.
Resolution(token, columns) ==
    IF token.kind # "name" THEN <<token>>
    ELSE LET k == Named(columns, token.name) IN
         IF k = 0 THEN <<ColumnToken(token.name)>>
         ELSE IF columns[k].name = None THEN <<[kind |-> "crash"]>>
         ELSE columns[k].tokens

Resolved(tokens, columns) ==
    FlattenSeq([i \in DOMAIN tokens |-> Resolution(tokens[i], columns)])

\* sql_column_done() and sql_named_column_done(); a single column keeps its name.
Selecting(item, columns) ==
    LET tokens == Resolved(item.tokens, columns) IN
    [tokens |-> tokens,
     name |-> IF item.as # None THEN item.as
              ELSE IF Len(tokens) = 1 /\ tokens[1].kind = "column" THEN tokens[1].name
              ELSE None]

\* sql_all_columns()
AllColumns ==
    [i \in DOMAIN Header |->
        [tokens |-> <<[kind |-> "column", name |-> Header[i].name, num |-> i]>>, name |-> Header[i].name]]

SelectedColumns ==
    FoldLeft(LAMBDA columns, item : Append(columns, Selecting(item, columns)),
             IF job.all THEN AllColumns ELSE <<>>, job.select)

\* yyparse() of csv-sql; `where` has no expression or one.
Query ==
    LET columns == SelectedColumns IN
    [columns |-> columns,
     where |-> [i \in DOMAIN job.where |-> Resolved(job.where[i], columns)],
     order |-> [i \in DOMAIN job.order |->
                    [tokens |-> Resolved(job.order[i].tokens, columns), asc |-> job.order[i].asc]]]

TokensOf(parts) == [i \in DOMAIN parts |-> parts[i].tokens]

\* All expressions of a query
Parts(q) == TokensOf(q.columns) \o q.where \o TokensOf(q.order)

\* The parser stops at the first of these: the name of a column that has none is
\* looked at, a column is not there, or the table of FROM is not `input`.
Stops(token) ==
    \/ token.kind \in {"crash", "from"}
    \/ token.kind = "column" /\ ColumnOf(token) = 0

Offending(q) ==
    SelectSeq(FlattenSeq(TokensOf(q.columns)) \o (IF job.from THEN <<>> ELSE <<[kind |-> "from"]>>)
                  \o FlattenSeq(q.where) \o FlattenSeq(TokensOf(q.order)), Stops)

-----------------------------------------------------------------------------
(* csv-sql *)

\* The expressions for a row that is read: WHERE, and then those of ORDER BY or the
\* columns
TodoOf(q) == q.where \o TokensOf(IF q.order # <<>> THEN q.order ELSE q.columns)

\* A column without a name is called unnamed<n>.
SqlHeader(q) ==
    [i \in DOMAIN q.columns |->
        [table |-> NoTable, name |-> q.columns[i].name,
         type |-> CHOOSE type \in ExpressionTypes(q.columns[i].tokens) : TRUE]]

OpenSql ==
    /\ Opening("sql")
    /\ LET q == Query
           bad == Offending(q)
       IN IF bad # <<>>
          THEN IF bad[1].kind = "crash" THEN Die("crashed") ELSE Fail
          ELSE Start(<<>>, SqlHeader(q), Evaluation(TodoOf(q), q))

Sorting == mem.query.order # <<>>
Filtering == mem.query.where # <<>> /\ mem.exp = 1

\* WHERE, whose type nobody has checked
WhereSql ==
    /\ AtValue("sql") /\ pos <= Len(Rows) /\ Filtering
    /\ IF Value1.type # "int" THEN Die("aborted")
       ELSE IF Value1.value = 0 THEN RowDone(<<>>)
       ELSE NextExpression(<<>>)

\* ORDER BY: the row is kept, with the values to sort it by.
KeepSql ==
    /\ AtValue("sql") /\ pos <= Len(Rows) /\ ~Filtering /\ Sorting
    /\ LET values == Append(mem.values, Value1) IN
       IF LastExpression
       THEN Continue(<<>>, [Fresh(mem) EXCEPT !.kept = Append(@, [row |-> Row, order |-> values])])
       ELSE NextExpression(values)

\* print_row(), for the row that was read or for the next one in order
SelectSql ==
    /\ AtValue("sql")
    /\ pos <= Len(Rows) => ~Filtering /\ ~Sorting
    /\ LET values == Append(mem.values, TextOf(Value1)) IN
       IF ~LastExpression THEN NextExpression(values)
       ELSE IF pos <= Len(Rows) THEN RowDone(<<values>>)
       ELSE /\ out' = Append(out, values)
            /\ mem' = [Fresh(mem) EXCEPT !.lines = Tail(@)]
            /\ UNCHANGED <<given, pc, status, in, pos, cols, hdr>>

Differ(v, w) == IsBelow(v, w) \/ IsBelow(w, v)

\* Mutant: rows are compared by the first expression alone.
DecidingFirst(r, s) == IF Differ(r.order[1], s.order[1]) THEN 1 ELSE 0
\* cmp(): the first expression of ORDER BY whose values differ, or 0
Deciding(r, s) == SelectInSeq([i \in DOMAIN r.order |-> i], LAMBDA i : Differ(r.order[i], s.order[i]))

Precedes(r, s) ==
    LET i == Deciding(r, s) IN i # 0 /\ (mem.query.order[i].asc <=> IsBelow(r.order[i], s.order[i]))

\* csv_qsort_r(); rows that are equal may change places.
SortSql ==
    /\ AtEnd("sql") /\ mem.kept # <<>>
    /\ LET kept == mem.kept IN
       \E place \in [DOMAIN kept -> DOMAIN kept] :
          /\ IsInjective(place)
          /\ \A k \in 2 .. Len(kept) : ~Precedes(kept[place[k]], kept[place[k - 1]])
          /\ Step([mem EXCEPT !.kept = <<>>, !.todo = TokensOf(mem.query.columns),
                              !.lines = [k \in DOMAIN kept |-> kept[place[k]].row]])

\* Strings in expressions
Literals(expressions) ==
    Len(SelectSeq(FlattenSeq(expressions), LAMBDA t : t.kind = "constant" /\ t.value.type = "string"))

\* rpn_free() of every expression: a string that a name has copied into a second
\* one is freed twice, which free() notices, or not.
FreesTwice ==
    Literals(Parts(mem.query)) # Literals(TokensOf(job.select) \o job.where \o TokensOf(job.order))

EndSql ==
    /\ AtEnd("sql") /\ mem.kept = <<>> /\ mem.lines = <<>>
    /\ Exit(0, <<>>) \/ (FreesTwice /\ Die("crashed"))

-----------------------------------------------------------------------------
(* csv-add-sql and csv-grep-sql: a name is that of a column of the input. *)

Parsed(tokens) == Resolved(tokens, <<>>)
NoSuchColumn(tokens) == \E i \in DOMAIN Parsed(tokens) : Stops(Parsed(tokens)[i])

\* The new columns of -e: -n names the first one if AS does not.
AddedBy(e) ==
    [i \in DOMAIN e.columns |->
        [name |-> IF e.columns[i].as = None THEN e.name ELSE e.columns[i].as,
         tokens |-> Parsed(e.columns[i].tokens)]]

Misnamed(e) ==
    \/ e.columns[1].as = None <=> e.name = None
    \/ \E i \in 2 .. Len(e.columns) : e.columns[i].as = None

OpenAddSql ==
    /\ Opening("add_sql")
    /\ LET added == FlattenSeq([i \in DOMAIN job.expressions |-> AddedBy(job.expressions[i])]) IN
       IF \/ TableMissing
          \/ \E e \in Range(job.expressions) : e.all \/ Misnamed(e)
          \/ \E c \in Range(added) : Exists(c.name) \/ NoSuchColumn(c.tokens)
       THEN Fail
       ELSE Start(Indices,
                  Header \o [i \in DOMAIN added |->
                      NewColumn(added[i].name, CHOOSE type \in ExpressionTypes(added[i].tokens) : TRUE)],
                  Evaluation(TokensOf(added), None))

OpenGrepSql ==
    /\ Opening("grep_sql")
    /\ LET conditions == [i \in DOMAIN job.expressions |-> Parsed(job.expressions[i])] IN
       IF TableMissing \/ \E e \in Range(conditions) : NoSuchColumn(e) \/ ExpressionTypes(e) # {"int"} THEN Fail
       ELSE Start(Indices, Header, Evaluation(conditions, None))

\* A row of another table gets an empty field for each new column.
PassOnSql ==
    /\ Reading("add_sql") \/ Reading("grep_sql")
    /\ OfOtherTable(Row)
    /\ Continue(<<IF job.tool = "add_sql" THEN Row \o [i \in DOMAIN Expressions |-> Empty] ELSE Row>>, mem)

EndAddSql == (AtEnd("add_sql") \/ AtEnd("grep_sql")) /\ Exit(0, <<>>)

NextSql ==
    \/ OpenSql \/ WhereSql \/ KeepSql \/ SelectSql \/ SortSql \/ EndSql
    \/ OpenAddSql \/ OpenGrepSql \/ PassOnSql \/ PrintValue("add_sql") \/ Decide("grep_sql") \/ EndAddSql

-----------------------------------------------------------------------------
(* Properties *)

\* csv-sql prints the columns of the rows for which WHERE is true, for * those of
\* the input, each from its own place, also if two have one name; in the order of
\* the input or in that of ORDER BY, whose expressions count one after the other,
\* each in its direction.  It fails for a row for which an expression has no
\* value, and aborts if the value of WHERE is no integer; the values that rows are
\* ordered by have one type, as cmp() asserts.  It crashes after its work only if a
\* name stands for a string, and before it only if a column of SELECT has no name.
QueryRight ==
    LET q == mem.query
        Wanted(row) ==
            q.where = <<>> \/ LET truth == Meaning(q.where[1], row) IN truth.type = "int" /\ truth.value # 0
        Starred == IF job.all THEN DOMAIN Header ELSE {}
        Fields(row) ==
            [i \in DOMAIN q.columns |->
                TextOf(IF i \in Starred THEN Converted(Pchar(row[i]), Header[i].type)
                       ELSE Meaning(q.columns[i].tokens, row))]
        Key(row) == [i \in DOMAIN q.order |-> Meaning(q.order[i].tokens, row)]
        Sorted(r, s) ==
            \A i \in DOMAIN q.order :
                (\A j \in 1 .. i - 1 : ~Differ(Key(r)[j], Key(s)[j])) =>
                    IF q.order[i].asc THEN ~IsBelow(Key(s)[i], Key(r)[i]) ELSE ~IsBelow(Key(r)[i], Key(s)[i])
        chosen == SelectSeq(SubSeq(Rows, 1, pos - 1), Wanted)
        complete == pos > Len(Rows) /\ mem.kept = <<>> /\ mem.lines = <<>>
        valueless == ~complete /\ \E e \in Range(mem.todo) : ~IsValue(Meaning(e, Subject))
    IN /\ q.order = <<>> /\ ~complete => out = [k \in DOMAIN chosen |-> Fields(chosen[k])]
       /\ complete =>
             \E place \in [DOMAIN chosen -> DOMAIN chosen] :
                /\ IsInjective(place)
                /\ out = [k \in DOMAIN chosen |-> Fields(chosen[place[k]])]
                /\ \A k, l \in DOMAIN chosen : k < l =>
                      IF q.order = <<>> THEN place[k] < place[l]
                      ELSE Sorted(chosen[place[k]], chosen[place[l]])
       /\ pc = "exited" => IF status = 0 THEN complete ELSE valueless
       /\ pc = "aborted" =>
             \/ ReadsArray
             \/ pos <= Len(Rows) /\ q.where # <<>> /\ Meaning(q.where[1], Row).type # "int"
       /\ \A r, s \in Range(mem.kept), i \in DOMAIN q.order : r.order[i].type = s.order[i].type
       /\ pc = "crashed" => valueless \/ (complete /\ \E i \in DOMAIN job.select :
                                             job.select[i].as # None /\ Literals(<<job.select[i].tokens>>) > 0)

\* The three tools print what their expressions mean, row by row (src/src/sql.c,
\* src/src/add-sql.c, src/src/grep-sql.c).
SqlRight ==
    /\ job.tool \in {"add_sql", "grep_sql"} =>
          EvaluatedRight(job.tool = "add_sql", [i \in DOMAIN mem.todo |-> Empty])
    /\ job.tool = "sql" =>
          IF mem = None THEN pc = "crashed" => \E i \in DOMAIN job.select : job.select[i].as = None
          ELSE (\A e \in Range(Parts(mem.query)) : Predictable(e)) => QueryRight
=============================================================================
