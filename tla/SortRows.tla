------------------------------ MODULE SortRows ------------------------------
(***************************************************************************)
(* csv-sort -c columns [-r] [-T table]: the rows of the table are kept and *)
(* printed in order at the end, those of other tables are passed on.       *)
(***************************************************************************)
EXTENDS RowStreams

OpenSort ==
    /\ Opening("sort")
    /\ LET fails == TableMissing \/ ColumnMissing \/ Len(job.columns) > Len(Header) IN
       \/ fails /\ Fail
       \/ ~fails /\ Start(Chosen, Header, [lines |-> <<>>])

PassOnUnsorted ==
    /\ Reading("sort") /\ OfOtherTable(Row)
    /\ Continue(<<Row>>, mem)

KeepRow ==
    /\ Reading("sort") /\ ~OfOtherTable(Row)
    /\ Continue(<<>>, [lines |-> Append(mem.lines, Row)])

-----------------------------------------------------------------------------
(* cmp() *)

\* The columns whose texts differ
Differing(r, s) == {i \in DOMAIN cols : r[cols[i]] # s[cols[i]]}

\* The first of them decides.
Decides(r, s) == CHOOSE i \in Differing(r, s) : \A j \in Differing(r, s) : i <= j

\* cmp() calls exit(2): numbers are needed.
CmpFails(r, s) ==
    /\ Differing(r, s) # {}
    /\ LET c == cols[Decides(r, s)] IN
       Header[c].type = "int" /\ ~(IsNumber(r[c]) /\ IsNumber(s[c]))

\* cmp(r, s) <= 0; different texts of a number are equal, whatever follows.
CmpLeq(r, s) ==
    \/ Differing(r, s) = {}
    \/ LET c == cols[Decides(r, s)] IN
       IF Header[c].type = "int" THEN Number(r[c]) <= Number(s[c]) ELSE ~Less(s[c], r[c])

-----------------------------------------------------------------------------
(* The end of main() *)

\* csv_qsort_r(): any order in which no row is greater than the next one, and
\* neighbours have been compared
Sorted(lines) ==
    {s \in {[i \in DOMAIN lines |-> lines[p[i]]] : p \in Bijection(DOMAIN lines, DOMAIN lines)} :
        \A i \in 1 .. Len(s) - 1 : ~CmpFails(s[i], s[i + 1]) /\ CmpLeq(s[i], s[i + 1])}

EndSort ==
    /\ AtEnd("sort")
    /\ \E s \in Sorted(mem.lines) : Exit(0, IF job.reverse THEN Reverse(s) ELSE s)

\* Rows that cannot be compared were compared.
SortFails ==
    /\ AtEnd("sort")
    /\ \E i, j \in DOMAIN mem.lines : CmpFails(mem.lines[i], mem.lines[j])
    /\ Fail

NextSort == OpenSort \/ PassOnUnsorted \/ KeepRow \/ EndSort \/ SortFails
=============================================================================
