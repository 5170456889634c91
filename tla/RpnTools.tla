------------------------------ MODULE RpnTools ------------------------------
(***************************************************************************)
(* csv-add-rpn and csv-grep-rpn (src/src/add-rpn.c, src/src/grep-rpn.c):   *)
(* rpn_parse() of every expression when the tool starts, and then          *)
(* rpn_eval() of RpnEval for every row.                                    *)
(***************************************************************************)
EXTENDS RpnEval

\* What main() has: expressions of tokens, of which rpn_parse() has found out what
\* they are
ASSUME RpnAssumption ==
    \A i \in Invocations : \A j \in i.jobs : j.tool \in RpnToolNames =>
        /\ j.expressions \in Seq(Range(j.expressions)) /\ j.expressions # <<>>
        /\ \A e \in Range(j.expressions) :
              /\ e \in Seq(Range(e))
              /\ \A token \in Range(e) :
                    /\ token.kind \in {"constant", "column", "operator", "unknown"}
                    /\ IsOperator(token) => token.operator \in Operators

-----------------------------------------------------------------------------
(* main() *)

\* rpn_parse() fails: a column is not there, or a token is no constant and no
\* operator.
Unparsable(expression) ==
    \/ expression = <<>>
    \/ \E i \in DOMAIN expression :
          LET token == expression[i] IN
          \/ token.kind = "unknown"
          \/ token.kind = "column" /\ Find(Header, job.table, token.name) = 0

RpnFails ==
    \/ TableMissing
    \/ \E i \in DOMAIN job.expressions : Unparsable(job.expressions[i])
    \/ job.tool = "add_rpn" /\ \E i \in DOMAIN job.names : Exists(job.names[i])

OpenRpn ==
    /\ pc = "open" /\ job.tool \in RpnToolNames
    /\ IF RpnFails THEN Fail
       ELSE \E types \in [DOMAIN job.expressions -> AnyType \cup {c.type : c \in Range(Header)} \cup {"crash"}] :
                /\ \A i \in DOMAIN types : types[i] \in ExpressionTypes(job.expressions[i])
                /\ IF "crash" \in Range(types) THEN Die("crashed")
                   ELSE IF job.tool = "add_rpn"
                   THEN Start(Indices,
                              Header \o [i \in DOMAIN types |-> NewColumn(job.names[i], types[i])],
                              Evaluation(job.expressions, None))
                   ELSE IF \E i \in DOMAIN types : types[i] # "int" THEN Fail
                   ELSE Start(Indices, Header, Evaluation(job.expressions, None))

-----------------------------------------------------------------------------
(* next_row() *)

\* A row of another table gets one empty field, however many there are to add.
PassOnRpn ==
    /\ job.tool \in RpnToolNames /\ Reading(job.tool) /\ OfOtherTable(Row)
    /\ Continue(<<IF job.tool = "add_rpn" THEN Append(Row, Empty) ELSE Row>>, mem)

EndRpn == job.tool \in RpnToolNames /\ AtEnd(job.tool) /\ Exit(0, <<>>)

NextRpn ==
    \/ OpenRpn \/ PassOnRpn \/ PrintValue("add_rpn") \/ Decide("grep_rpn")
    \/ EndRpn

-----------------------------------------------------------------------------
(* Properties *)

\* csv-add-rpn prints every row with the values of its expressions, csv-grep-rpn
\* the rows for which one of them is true; a row of another table gets one empty
\* field, however many are added (src/src/add-rpn.c:144).
RpnRight == job.tool \in RpnToolNames => EvaluatedRight(job.tool = "add_rpn", <<Empty>>)

\* What the tool takes the type of expression i to be, and a float taken for an
\* integer
Told(i) == IF job.tool = "add_rpn" THEN hdr[Len(Header) + i].type ELSE "int"
Misled ==
    /\ Value1.type = "float" /\ Told(mem.exp) = "int"
    /\ IsOperator(Last(Expression)) /\ Last(Expression).operator \in Deferring

\* The type in the header is that of the value; only a float of an arithmetic
\* expression, which takes the type of its last operand, can be told to be an
\* integer, and nothing else but a column of arrays aborts the tools.
RpnTypesTold ==
    job.tool \in RpnToolNames =>
        /\ AtEndOfExpression /\ Len(mem.stack) = 1 => Value1.type = Told(mem.exp) \/ Misled
        /\ pc = "aborted" => ReadsArray \/ Misled

\* "shouldn't be possible" (src/src/grep-rpn.c:75)
NeverAborts == pc # "aborted"
=============================================================================
