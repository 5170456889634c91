------------------------------ MODULE RpnEval -------------------------------
(***************************************************************************)
(* rpn_eval() and rpn_expression_type() (src/src/rpn_eval.c,               *)
(* src/src/rpn_parse.c), as csv-add-rpn, csv-grep-rpn, csv-sql,            *)
(* csv-add-sql and csv-grep-sql call them: a list of expressions for every *)
(* row, token by token, with a stack, the cache of regular expressions and *)
(* the table of sequences, which live on from row to row.  A row that is   *)
(* cut off by a failure is no row.                                         *)
(***************************************************************************)
EXTENDS Rpn, HtTable

RpnToolNames == {"add_rpn", "grep_rpn"}
SqlToolNames == {"sql", "add_sql", "grep_sql"}
Evaluators == RpnToolNames \cup SqlToolNames

IsOperator(token) == token.kind = "operator"

-----------------------------------------------------------------------------
(* rpn_expression_type() *)

\* Mutant: only arithmetic takes the type of what comes before it.
DeferringButIf == Arithmetic
\* Operators whose type is taken from the token before them
Deferring == Arithmetic \cup {"IF"}

OperatorType(op) ==
    CASE op \in {"SUBSTR", "CONCAT", "INT2STR", "INT2STRB", "FLT2STR", "TOSTRING",
                 "REPLACE", "REPLACE_BRE", "REPLACE_ERE"} -> "string"
      [] op \in {"INT2FLT", "STR2FLT", "TOFLOAT"} -> "float"
      [] OTHER -> "int"

\* col.num of a column: rpn_parse() looks its name up, as does the parser of SQL;
\* sql_all_columns() gives a number.
ColumnOf(token) ==
    IF "num" \in DOMAIN token THEN token.num ELSE Find(Header, job.table, token.name)

TokenType(token) ==
    CASE token.kind = "operator" -> OperatorType(token.operator)
      [] token.kind = "constant" -> token.value.type
      [] token.kind = "column" -> Header[ColumnOf(token)].type

\* Where the tokens are that rpn_expression_type() can stop at
Telling(expression) ==
    {i \in DOMAIN expression : ~(IsOperator(expression[i]) /\ expression[i].operator \in Deferring)}

\* rpn_expression_type(): when there is none it reads in front of the array.
ExpressionTypes(expression) ==
    IF Telling(expression) = {} THEN AnyType \cup {"crash"}
    ELSE {TokenType(expression[Max(Telling(expression))])}

\* The memory of the tools: the expressions to evaluate for a row and the values
\* they had; for csv-sql also the query, the rows kept and those in order
Evaluation(todo, query) ==
    [todo |-> todo, exp |-> 1, at |-> 1, stack |-> <<>>, values |-> <<>>,
     query |-> query, kept |-> <<>>, lines |-> <<>>,
     cache |-> EmptyCache, seqs |-> NewHt(0), counts |-> <<>>]

Fresh(m) == [m EXCEPT !.exp = 1, !.at = 1, !.stack = <<>>, !.values = <<>>]

-----------------------------------------------------------------------------
(* rpn_eval() *)

\* The row in hand: the one that was read or, when all are, the first of those
\* that csv-sql has put in order
Subject == IF pos <= Len(Rows) THEN Row ELSE Head(mem.lines)

Evaluating ==
    /\ job.tool \in Evaluators
    /\ \/ Reading(job.tool) /\ ~OfOtherTable(Row)
       \/ AtEnd(job.tool) /\ mem.lines # <<>>

Expressions == mem.todo
Expression == Expressions[mem.exp]
Token == Expression[mem.at]
AtToken(kind) == Evaluating /\ mem.at <= Len(Expression) /\ Token.kind = kind

\* The token is done, its value is on the stack.
Push(stack, v) == [mem EXCEPT !.stack = Append(stack, v), !.at = @ + 1]

PushConstant == AtToken("constant") /\ Step(Push(mem.stack, Token.value))

\* The field of a column as a value of its type; a column of arrays aborts.
FieldValue(row, token) ==
    LET c == ColumnOf(token) IN
    IF Header[c].type \in AnyType THEN Converted(Pchar(row[c]), Header[c].type) ELSE Aborted

\* The token is a column that holds neither numbers nor strings.
ReadsArray ==
    /\ mem.at <= Len(Expression) /\ Token.kind = "column"
    /\ Header[ColumnOf(Token)].type \notin AnyType

PushColumn ==
    /\ AtToken("column")
    /\ LET field == FieldValue(Subject, Token) IN
       \/ IsValue(field) /\ Step(Push(mem.stack, field))
       \/ field = Failed /\ Fail
       \/ field = Aborted /\ Die("aborted")

\* Mutant: the operands come in the order in which they are taken off.
OperandsReversed == Reverse(SubSeq(mem.stack, Len(mem.stack) - Arity(Token.operator) + 1, Len(mem.stack)))
Operands == SubSeq(mem.stack, Len(mem.stack) - Arity(Token.operator) + 1, Len(mem.stack))
Beneath == SubSeq(mem.stack, 1, Len(mem.stack) - Arity(Token.operator))

\* eval_oper() has something to work on.
Ready == Len(mem.stack) >= Arity(Token.operator) /\ Accepts(Token.operator, Operands)

\* What becomes of a result
Take(result, m) ==
    \/ IsValue(result) /\ Step([m EXCEPT !.stack = Append(Beneath, result), !.at = @ + 1])
    \/ result = Failed /\ Fail
    \/ result = Crashed /\ Die("crashed")
    \/ result = Endless /\ Die("hung")

Refuse == AtToken("operator") /\ ~Ready /\ Fail

Operate ==
    /\ AtToken("operator") /\ Ready /\ Token.operator \notin Regular \cup {"NEXT"}
    /\ Take(Applied(Token.operator, Operands), mem)

OperateRegex ==
    /\ AtToken("operator") /\ Ready /\ Token.operator \in Regular
    /\ LET regex == Regex(Token.operator, Operands)
           flags == Flags(Token.operator, Operands)
           comp == Compiled(mem.cache, regex, flags)
       IN \E result \in Matched(Token.operator, Operands, comp) :
            Take(result, [mem EXCEPT !.cache = Cached(mem.cache, regex, flags)])

\* next(): counts[c] is the value in cell c of the table.
OperateNext ==
    /\ AtToken("operator") /\ Ready /\ Token.operator = "NEXT"
    /\ LET name == Operands[1].value
           known == Place(job.hash, mem.seqs, name) # 0
           cell == IF known THEN CellOf(job.hash, mem.seqs, name) ELSE Len(mem.counts) + 1
           n == IF known THEN mem.counts[cell] + 1 ELSE 1
       IN Take(Llong(n),
               [mem EXCEPT !.seqs = IF known THEN @ ELSE Added(job.hash, @, name, cell),
                           !.counts = IF known THEN [@ EXCEPT ![cell] = n] ELSE Append(@, n)])

-----------------------------------------------------------------------------
(* The end of an expression *)

AtEndOfExpression == Evaluating /\ mem.at > Len(Expression)
LastExpression == mem.exp = Len(Expressions)
Value1 == mem.stack[1]

NextExpression(values) ==
    Step([mem EXCEPT !.exp = @ + 1, !.at = 1, !.stack = <<>>, !.values = values])

RowDone(printed) == Continue(printed, Fresh(mem))

\* One value has to be left on the stack.
LeftOver == AtEndOfExpression /\ Len(mem.stack) # 1 /\ Fail

AtValue(tool) == AtEndOfExpression /\ Len(mem.stack) = 1 /\ job.tool = tool

\* The value is printed behind the row.
PrintValue(tool) ==
    /\ AtValue(tool)
    /\ LET values == Append(mem.values, TextOf(Value1)) IN
       IF LastExpression THEN RowDone(<<Row \o values>>) ELSE NextExpression(values)

\* The first expression that is true prints the row; one that is no integer
\* aborts.
Decide(tool) ==
    /\ AtValue(tool)
    /\ IF Value1.type # "int" THEN Die("aborted")
       ELSE IF Value1.value # 0 THEN RowDone(<<Row>>)
       ELSE IF LastExpression THEN RowDone(<<>>)
       ELSE NextExpression(<<>>)

Evaluate ==
    PushConstant \/ PushColumn \/ Refuse \/ Operate \/ OperateRegex \/ OperateNext \/ LeftOver

-----------------------------------------------------------------------------
(* Properties *)

\* What an expression means for a row, read as a tree: the operands of a token
\* are the expressions that end right before it.  There is no stack and no cache.
Meaning(expression, row) ==
    LET last == Len(expression)
        Wanted(j) == IF IsOperator(expression[j]) THEN Arity(expression[j].operator) ELSE 0
        Numbered(n) == [i \in 1 .. n |-> i]
        \* the first token of the expression that ends at token j, or 0
        begin[j \in 0 .. last] ==
            IF j = 0 THEN 0
            ELSE FoldLeft(LAMBDA b, i : IF b = 0 THEN 0 ELSE begin[b - 1], j, Numbered(Wanted(j)))
        \* the last token of its i-th operand, from the right
        End(j, i) == FoldLeft(LAMBDA e, k : begin[e] - 1, j - 1, Numbered(i - 1))
        value[j \in 1 .. last] ==
            LET token == expression[j]
                n == Wanted(j)
                args == [i \in 1 .. n |-> value[End(j, n + 1 - i)]]
            IN CASE token.kind = "constant" -> token.value
                 [] token.kind = "column" -> FieldValue(row, token)
                 [] OTHER ->
                    IF \E i \in 1 .. n : ~IsValue(args[i]) THEN Failed
                    ELSE IF ~Accepts(token.operator, args) THEN Failed
                    ELSE IF token.operator \in Regular
                    THEN CHOOSE v \in Matched(token.operator, args,
                                               Regcomp(Regex(token.operator, args),
                                                       Flags(token.operator, args))) : TRUE
                    ELSE Applied(token.operator, args)
    IN IF begin[last] = 1 THEN value[last] ELSE Failed

\* `next` counts calls, and %9 stands for anything.
Predictable(expression) ==
    \A i \in DOMAIN expression :
        LET token == expression[i] IN
        /\ IsOperator(token) => token.operator # "NEXT"
        /\ token.kind = "constant" /\ token.value.type = "string" => 9 \notin Range(token.value.value)

\* A tool that adds columns prints every row with the values its expressions have
\* as trees, and one that filters the rows for which one of them is true; both go
\* on as long as the expressions they need have values, whatever was evaluated
\* before, and stop at the first that has none.
EvaluatedRight(adds, padding) ==
    /\ mem # None /\ \A i \in DOMAIN mem.todo : Predictable(mem.todo[i])
    /\ pc = "read" => mem.at = 1 /\ mem.exp = 1
    =>
        LET M(row, i) == Meaning(Expressions[i], row)
            True(row, i) == IsValue(M(row, i)) /\ M(row, i).value # 0
            read == SubSeq(Rows, 1, pos - 1)
            needed == {i \in DOMAIN Expressions :
                          adds \/ \A j \in 1 .. i - 1 : ~True(Row, j)}
        IN /\ out =
                IF adds
                THEN [k \in DOMAIN read |->
                        IF OfOtherTable(read[k]) THEN read[k] \o padding
                        ELSE read[k] \o [i \in DOMAIN Expressions |-> TextOf(M(read[k], i))]]
                ELSE SelectSeq(read, LAMBDA row :
                        OfOtherTable(row) \/ \E i \in DOMAIN Expressions : True(row, i))
           /\ pc \notin {"read", "aborted"} /\ ~(pc = "exited" /\ status = 0)
                => \E i \in needed : ~IsValue(M(Row, i))

\* Every slot of the cache holds what its expression compiles to, no expression
\* is there twice, and no slot is free once the ring has wrapped around.
CacheSound(c) ==
    /\ c.used \in 0 .. CacheSize /\ c.next \in 0 .. CacheSize - 1
    /\ DOMAIN c.slots = 0 .. c.used - 1
    /\ c.used < CacheSize => c.next = c.used
    /\ \A i \in DOMAIN c.slots : c.slots[i] = Entry(c.slots[i].regex, c.slots[i].cflags)
    /\ \A i, j \in DOMAIN c.slots :
          c.slots[i].regex = c.slots[j].regex /\ c.slots[i].cflags = c.slots[j].cflags => i = j

CacheRight == job.tool \in Evaluators /\ mem # None => CacheSound(mem.cache)
=============================================================================
