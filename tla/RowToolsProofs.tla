--------------------------- MODULE RowToolsProofs ---------------------------
(***************************************************************************)
(* What the tools of RowTools promise, for any command line and any        *)
(* stream: the ring of csv-tail holds the last rows, the row filters print *)
(* the rows they should, csv-sum, csv-avg, csv-min and csv-max compute     *)
(* what they should and tell every overflow, csv-sort orders and csv-merge *)
(* joins the streams, the cache of regular expressions of the RPN and SQL  *)
(* tools, of any size, is transparent, csv-add-rpn and csv-grep-rpn know   *)
(* the types of what they evaluate, and under -T every tool passes on the  *)
(* rows of other tables.                                                   *)
(***************************************************************************)
EXTENDS RowTools, SeqLemmas, FiniteSetTheorems, SequenceTheorems, TLAPS

-----------------------------------------------------------------------------
(* The places of a header *)

\* The places of a header, in their order.
LEMMA ThoseIndices ==
    ASSUME Len(Header) \in Nat, DOMAIN Header = 1 .. Len(Header), NEW p
    PROVE  /\ Those(Indices, p) \in Seq(DOMAIN Header)
           /\ Range(Those(Indices, p)) = p \cap DOMAIN Header
           /\ \A i, j \in DOMAIN Those(Indices, p) : i < j => Those(Indices, p)[i] < Those(Indices, p)[j]
<1> DEFINE n == Len(Header)
<1>1. Indices = [i \in 1 .. n |-> i] /\ Len(Indices) = n /\ Indices \in Seq(1 .. n) /\ Indices \in Seq(Range(Indices))
  BY DEF Indices, Range
<1>2. PICK f : Selects(f, Indices, p) /\ Those(Indices, p) = f[n]
  BY <1>1, ThoseSelected
<1>3. /\ f[n] \in Seq(1 .. n)
      /\ \A i, j \in DOMAIN f[n] : i < j => f[n][i] < f[n][j]
  <2> HIDE DEF n
  <2>1. n \in Nat
    BY DEF n
  <2> QED BY <1>1, <1>2, <2>1, SelectionsOrder
<1>4. Range(Those(Indices, p)) = {Indices[i] : i \in p \cap DOMAIN Indices}
  BY <1>1, ThoseRange
<1>5. {Indices[i] : i \in p \cap DOMAIN Indices} = p \cap DOMAIN Header
  BY <1>1
<1> HIDE DEF n
<1> QED BY <1>2, <1>3, <1>4, <1>5 DEF n

-----------------------------------------------------------------------------
(* The ring of csv-tail *)

\* The number of the row in slot i of a full ring of n slots, when row p is read
\* next and slot f overwritten next
RowAt(i, f, p, n) == IF i < f THEN p - f + i ELSE p - n + (i - f)

\* The state of csv-tail while it reads: before the ring is full its slots hold
\* the rows in their order; after that, the slot to be overwritten next holds the
\* oldest row.
Ring ==
    /\ in = 1 /\ pos \in 1 .. Len(Rows) + 1
    /\ mem = [lines |-> mem.lines, firstEmpty |-> mem.firstEmpty, count |-> pos - 1]
    /\ mem.lines = [i \in 0 .. job.lines - 1 |-> mem.lines[i]]
    /\ job.lines = 0 => pos = 1 /\ mem.firstEmpty = 0
    /\ pos - 1 < job.lines =>
          /\ mem.firstEmpty = pos - 1
          /\ \A i \in 0 .. pos - 2 : mem.lines[i] = Rows[i + 1]
    /\ pos - 1 >= job.lines /\ job.lines > 0 =>
          /\ mem.firstEmpty \in 0 .. job.lines - 1
          /\ \A i \in 0 .. job.lines - 1 : mem.lines[i] = Rows[RowAt(i, mem.firstEmpty, pos, job.lines)]

RingInv ==
    /\ \E i \in Invocations : job \in i.jobs /\ inputs \in i.inputs
    /\ job.tool = "tail" =>
          /\ pc = "open" => in = 1 /\ pos = 1
          /\ pc = "read" => Ring

-----------------------------------------------------------------------------
\* No step changes the command line or the input.
LEMMA GivenKept == ASSUME Next PROVE UNCHANGED given
<1>1. ASSUME NextFilter PROVE UNCHANGED given
  <2>1. CASE OpenHead \/ HeadFull \/ HeadRow \/ EndHead
    BY <2>1 DEF OpenHead, HeadFull, HeadRow, EndHead, Start, Continue, Exit
  <2>2. CASE OpenTail \/ TailRow \/ EndTail
    BY <2>2 DEF OpenTail, TailRow, EndTail, Start, Continue, Exit
  <2>3. CASE OpenFiles("cat") \/ CatRow \/ EndCat \/ OpenFiles("tac") \/ TacRow \/ EndTac
    BY <2>3 DEF OpenFiles, CatRow, EndCat, TacRow, EndTac, NextInput, Start, Continue, Exit, Fail
  <2>4. CASE OpenCut \/ CutRow \/ EndCut
    BY <2>4 DEF OpenCut, CutRow, EndCut, Start, Continue, Exit, Fail
  <2>5. CASE OpenUniq \/ PassOn("uniq") \/ UniqRow \/ EndUniq \/ OverrunUniq
    BY <2>5 DEF OpenUniq, PassOn, UniqRow, EndUniq, OverrunUniq, Start, Continue, Exit, Fail, Die
  <2>6. CASE OpenGrep \/ GrepRow \/ EndGrep
    BY <2>6 DEF OpenGrep, GrepRow, EndGrep, Start, Continue, Exit, Fail
  <2>7. CASE OpenCount \/ CountRow \/ EndCount
    BY <2>7 DEF OpenCount, CountRow, EndCount, Start, Continue, Fail, Exit
  <2> QED BY <1>1, <2>1, <2>2, <2>3, <2>4, <2>5, <2>6, <2>7 DEF NextFilter
<1>2. ASSUME NextAggregate PROVE UNCHANGED given
  BY <1>2 DEF NextAggregate, OpenAggregate, AddRow, CompareRow, Aggregated, PassOnRow, PassOn,
              BadRow, EndAggregate, Crash, OverrunAggregate, Die, Start, Continue, Exit, Fail
<1>3. ASSUME NextSort PROVE UNCHANGED given
  BY <1>3 DEF NextSort, OpenSort, PassOnUnsorted, KeepRow, EndSort, SortFails, Start, Continue, Exit, Fail
<1>4. ASSUME NextMerge PROVE UNCHANGED given
  BY <1>4 DEF NextMerge, OpenMerge, MergeRow, EndMerge, NextInput, Start, Continue, Exit, Fail
<1>5. ASSUME NextRpn PROVE UNCHANGED given
  BY <1>5 DEF NextRpn, OpenRpn, PassOnRpn, EndRpn, PrintValue, Decide, RowDone, NextExpression,
              Start, Continue, Step, Exit, Fail, Die
<1>6. ASSUME NextSql PROVE UNCHANGED given
  <2>1. CASE OpenSql \/ OpenAddSql \/ OpenGrepSql \/ PassOnSql
    BY <2>1 DEF OpenSql, OpenAddSql, OpenGrepSql, PassOnSql, Start, Continue, Exit, Fail, Die
  <2>2. CASE WhereSql \/ KeepSql \/ SelectSql \/ SortSql
    BY <2>2 DEF WhereSql, KeepSql, SelectSql, SortSql, RowDone, NextExpression, Step, Continue, Die
  <2>3. CASE EndSql \/ EndAddSql \/ PrintValue("add_sql") \/ Decide("grep_sql")
    BY Zenon, <2>3 DEF EndSql, EndAddSql, PrintValue, Decide, RowDone, NextExpression, Step, Continue, Exit, Die
  <2> QED BY <1>6, <2>1, <2>2, <2>3 DEF NextSql
<1>7. ASSUME Evaluate PROVE UNCHANGED given
  BY <1>7 DEF Evaluate, PushConstant, PushColumn, Refuse, LeftOver, Operate, OperateRegex, OperateNext,
              Take, Step, Die, Exit, Fail
<1>8. ASSUME NextColumns PROVE UNCHANGED given
  <2>1. CASE NextBuilder
    BY Zenon, <2>1 DEF NextBuilder, OpenBuilder, PassOnBuilder, EndBuilder, AddConcat, AddRev, AddSubstring,
                AddReplace, AddReplaceRegex, AddSplit, Build, Start, Continue, Exit, Fail, Die
  <2>2. CASE NextHeader
    BY <2>2 DEF NextHeader, OpenHeader, CopyRow, GuessRow, EndHeader, PrintGuessed,
                Start, Continue, Exit, Fail
  <2> QED BY Zenon, <1>8, <2>1, <2>2 DEF NextColumns
<1>9. ASSUME NextTree PROVE UNCHANGED given
  BY Zenon, <1>9 DEF NextTree, OpenTree, ReadTreeRow, LinkRows, PassBy, PrintTree, EndTree,
              Start, Continue, Step, Exit, Die
<1>10. ASSUME NextSqlite PROVE UNCHANGED given
  BY Zenon, <1>10 DEF NextSqlite, OpenSqlite, NextFile, InsertRow, NameMissing, QuerySqlite,
               NextInput, Start, Continue, Exit, Fail, Die
<1>11. ASSUME Ended PROVE UNCHANGED given
  BY <1>11 DEF Ended, vars
<1> QED BY <1>1, <1>2, <1>3, <1>4, <1>5, <1>6, <1>7, <1>8, <1>9, <1>10, <1>11 DEF Next

\* A step is one of the tool that runs.
LEMMA ToolSteps ==
    ASSUME Next
    PROVE  \/ NextFilter /\ job.tool \in {"head", "tail", "cat", "tac", "cut", "uniq", "grep", "count"}
           \/ NextAggregate /\ job.tool \in Functions
           \/ NextSort /\ job.tool = "sort"
           \/ NextMerge /\ job.tool = "merge"
           \/ NextRpn /\ job.tool \in RpnToolNames
           \/ NextSql /\ job.tool \in SqlToolNames
           \/ Evaluate /\ job.tool \in Evaluators
           \/ NextColumns /\ job.tool \in BuilderNames \cup {"header"}
           \/ NextTree /\ job.tool = "tree"
           \/ NextSqlite /\ job.tool = "sqlite"
           \/ Ended
<1>1. ASSUME NextFilter PROVE job.tool \in {"head", "tail", "cat", "tac", "cut", "uniq", "grep", "count"}
  BY <1>1 DEF NextFilter, OpenHead, HeadFull, HeadRow, EndHead, OpenTail, TailRow, EndTail, OpenFiles, CatRow,
              EndCat, TacRow, EndTac, OpenCut, CutRow, EndCut, OpenUniq, PassOn, UniqRow, EndUniq, OverrunUniq, OpenGrep,
              GrepRow, EndGrep, OpenCount, CountRow, EndCount, Opening, Reading, AtEnd
<1>2. ASSUME NextAggregate PROVE job.tool \in Functions
  BY <1>2 DEF NextAggregate, OpenAggregate, AddRow, CompareRow, Aggregating, PassOnRow, BadRow, EndAggregate,
              Crash, OverrunAggregate, Functions
<1>3. ASSUME NextSort PROVE job.tool = "sort"
  BY <1>3 DEF NextSort, OpenSort, PassOnUnsorted, KeepRow, EndSort, SortFails, Opening, Reading, AtEnd
<1>4. ASSUME NextMerge PROVE job.tool = "merge"
  BY <1>4 DEF NextMerge, OpenMerge, MergeRow, EndMerge, Opening, Reading, AtEnd
<1>5. ASSUME NextRpn PROVE job.tool \in RpnToolNames
  BY Zenon, <1>5 DEF NextRpn, OpenRpn, PassOnRpn, EndRpn, PrintValue, Decide, AtValue, RpnToolNames
<1>6. ASSUME NextSql PROVE job.tool \in SqlToolNames
  BY Zenon, <1>6 DEF NextSql, OpenSql, WhereSql, KeepSql, SelectSql, SortSql, EndSql, OpenAddSql, OpenGrepSql, PassOnSql,
              PrintValue, Decide, EndAddSql, AtValue, Opening, Reading, AtEnd, SqlToolNames
<1>7. ASSUME Evaluate PROVE job.tool \in Evaluators
  BY <1>7 DEF Evaluate, Refuse, LeftOver, PushConstant, PushColumn, Operate, OperateRegex, OperateNext, AtToken,
              AtEndOfExpression, Evaluating
<1>8. ASSUME NextColumns PROVE job.tool \in BuilderNames \cup {"header"}
  BY <1>8 DEF NextColumns, NextBuilder, OpenBuilder, PassOnBuilder, EndBuilder, AddConcat, AddRev, AddSubstring,
              AddReplace, AddReplaceRegex, AddSplit, Building, BuilderNames, NextHeader, OpenHeader, CopyRow,
              GuessRow, EndHeader, PrintGuessed, Opening, Reading, AtEnd
<1>9. ASSUME NextTree PROVE job.tool = "tree"
  BY Zenon, <1>9 DEF NextTree, OpenTree, ReadTreeRow, LinkRows, PassBy, PrintTree, EndTree, Walking, Opening, Reading, AtEnd
<1>10. ASSUME NextSqlite PROVE job.tool = "sqlite"
  BY Zenon, <1>10 DEF NextSqlite, OpenSqlite, NextFile, InsertRow, NameMissing, QuerySqlite, Opening, Reading, AtEnd
<1> QED BY <1>1, <1>2, <1>3, <1>4, <1>5, <1>6, <1>7, <1>8, <1>9, <1>10 DEF Next

\* ... and of the filters, one of that filter.
LEMMA FilterSteps ==
    ASSUME NextFilter
    PROVE  \/ job.tool = "head" /\ (OpenHead \/ HeadFull \/ HeadRow \/ EndHead)
           \/ job.tool = "tail" /\ (OpenTail \/ TailRow \/ EndTail)
           \/ job.tool = "cat" /\ (OpenFiles("cat") \/ CatRow \/ EndCat)
           \/ job.tool = "tac" /\ (OpenFiles("tac") \/ TacRow \/ EndTac)
           \/ job.tool = "cut" /\ (OpenCut \/ CutRow \/ EndCut)
           \/ job.tool = "uniq" /\ (OpenUniq \/ PassOn("uniq") \/ UniqRow \/ EndUniq \/ OverrunUniq)
           \/ job.tool = "grep" /\ (OpenGrep \/ GrepRow \/ EndGrep)
           \/ job.tool = "count" /\ (OpenCount \/ CountRow \/ EndCount)
<1>1. ASSUME OpenHead \/ HeadFull \/ HeadRow \/ EndHead PROVE job.tool = "head"
  BY <1>1 DEF OpenHead, HeadFull, HeadRow, EndHead, Opening, Reading, AtEnd
<1>2. ASSUME OpenTail \/ TailRow \/ EndTail PROVE job.tool = "tail"
  BY <1>2 DEF OpenTail, TailRow, EndTail, Opening, Reading
<1>3. ASSUME OpenFiles("cat") \/ CatRow \/ EndCat PROVE job.tool = "cat"
  BY <1>3 DEF OpenFiles, CatRow, EndCat, Opening, Reading, AtEnd
<1>4. ASSUME OpenFiles("tac") \/ TacRow \/ EndTac PROVE job.tool = "tac"
  BY <1>4 DEF OpenFiles, TacRow, EndTac, Opening, Reading, AtEnd
<1>5. ASSUME OpenCut \/ CutRow \/ EndCut PROVE job.tool = "cut"
  BY <1>5 DEF OpenCut, CutRow, EndCut, Opening, Reading, AtEnd
<1>6. ASSUME OpenUniq \/ PassOn("uniq") \/ UniqRow \/ EndUniq \/ OverrunUniq PROVE job.tool = "uniq"
  BY <1>6 DEF OpenUniq, PassOn, UniqRow, EndUniq, OverrunUniq, Opening, Reading, AtEnd
<1>7. ASSUME OpenGrep \/ GrepRow \/ EndGrep PROVE job.tool = "grep"
  BY <1>7 DEF OpenGrep, GrepRow, EndGrep, Opening, Reading, AtEnd
<1>8. ASSUME OpenCount \/ CountRow \/ EndCount PROVE job.tool = "count"
  BY <1>8 DEF OpenCount, CountRow, EndCount, Opening, Reading
<1> QED BY <1>1, <1>2, <1>3, <1>4, <1>5, <1>6, <1>7, <1>8 DEF NextFilter

\* csv-tail takes no steps but its own.
LEMMA TailSteps ==
    ASSUME Next, job.tool = "tail"
    PROVE  OpenTail \/ TailRow \/ EndTail \/ Ended
BY ToolSteps, FilterSteps DEF Functions, RpnToolNames, SqlToolNames, Evaluators, BuilderNames

-----------------------------------------------------------------------------
\* What the assumption says of the inputs
LEMMA GivenInputs ==
    ASSUME \E i \in Invocations : job \in i.jobs /\ inputs \in i.inputs
    PROVE  /\ job.tool \in {"head", "tail"} => job.lines \in Nat
           /\ inputs \in Seq(Range(inputs)) /\ Len(inputs) \in Nat \ {0} /\ DOMAIN inputs = 1 .. Len(inputs)
           /\ \A k \in DOMAIN inputs :
                 /\ inputs[k].rows \in Seq(Range(inputs[k].rows)) /\ Len(inputs[k].rows) \in Nat
                 /\ DOMAIN inputs[k].rows = 1 .. Len(inputs[k].rows)
                 /\ inputs[k].header \in Seq(Range(inputs[k].header)) /\ Len(inputs[k].header) \in Nat
                 /\ DOMAIN inputs[k].header = 1 .. Len(inputs[k].header)
                 /\ LET h == inputs[k].header IN
                    /\ \A c \in 1 .. Len(h) : h[c] = [table |-> h[c].table, name |-> h[c].name, type |-> h[c].type]
                    /\ \A n \in DOMAIN inputs[k].rows : inputs[k].rows[n] \in [DOMAIN h -> Seq(Int)]
<1>1. PICK i \in Invocations : job \in i.jobs /\ inputs \in i.inputs
  OBVIOUS
<1>2. job.tool \in {"head", "tail"} => job.lines \in Nat
  BY <1>1, RowStreamsAssumption
<1>3. PICK s : s = inputs
  OBVIOUS
<1>4. s \in Seq(Range(s)) /\ 1 \in DOMAIN s
  BY <1>1, <1>3, RowStreamsAssumption
<1>5. Len(s) \in Nat \ {0} /\ DOMAIN s = 1 .. Len(s)
  BY <1>4
<1>6. ASSUME NEW k \in DOMAIN s
      PROVE  /\ s[k].rows \in Seq(Range(s[k].rows)) /\ s[k].header \in Seq(Range(s[k].header))
             /\ \A c \in Range(s[k].header) : c = [table |-> c.table, name |-> c.name, type |-> c.type]
             /\ \A r \in Range(s[k].rows) : r \in [DOMAIN s[k].header -> Seq(Int)]
  BY <1>1, <1>3, RowStreamsAssumption
<1>7. ASSUME NEW r, r \in Seq(Range(r))
      PROVE  Len(r) \in Nat /\ DOMAIN r = 1 .. Len(r) /\ \A k \in DOMAIN r : r[k] \in Range(r)
  BY <1>7 DEF Range
<1>8. ASSUME NEW h, h \in Seq(Range(h)),
             \A c \in Range(h) : c = [table |-> c.table, name |-> c.name, type |-> c.type],
             NEW c \in 1 .. Len(h)
      PROVE  h[c] = [table |-> h[c].table, name |-> h[c].name, type |-> h[c].type]
  <2>1. h[c] \in Range(h)
    BY <1>8 DEF Range
  <2> QED BY <1>8, <2>1
<1> QED BY <1>2, <1>3, <1>4, <1>5, <1>6, <1>7, <1>8

\* What the assumption says of a state with a given input
LEMMA StreamFacts ==
    ASSUME RingInv, job.tool = "tail", in = 1
    PROVE  job.lines \in Nat /\ Rows \in Seq(Range(Rows)) /\ Len(Rows) \in Nat
<1>1. PICK i \in Invocations : job \in i.jobs /\ inputs \in i.inputs
  BY DEF RingInv
<1>2. job.lines \in Nat
  BY <1>1, RowStreamsAssumption
<1>3. Rows \in Seq(Range(Rows))
  BY <1>1, RowStreamsAssumption DEF Rows
<1> QED BY <1>2, <1>3

\* The empty ring.
LEMMA OpenKeepsRing ==
    ASSUME RingInv, job.tool = "tail", OpenTail
    PROVE  Ring'
<1>1. pc = "open" /\ in = 1 /\ pos = 1
  BY DEF RingInv, OpenTail, Opening
<1>2. job.lines \in Nat /\ Len(Rows) \in Nat
  BY <1>1, StreamFacts
<1>3. /\ UNCHANGED <<job, inputs, in, pos>>
      /\ mem' = [lines |-> [i \in 0 .. job.lines - 1 |-> None], firstEmpty |-> 0, count |-> 0]
  BY DEF OpenTail, Start, given
<1> QED BY <1>1, <1>2, <1>3 DEF Ring, Rows, RowAt

\* In a full ring, the slot that is overwritten gets the row that is read, the
\* others keep theirs, and the oldest rows are in the slots from f on.
LEMMA RowAtNew ==
    ASSUME NEW n \in Nat \ {0}, NEW f \in 0 .. n - 1, NEW p \in Nat
    PROVE  RowAt(f, IF f + 1 = n THEN 0 ELSE f + 1, p + 1, n) = p
BY DEF RowAt

LEMMA RowAtKept ==
    ASSUME NEW n \in Nat \ {0}, NEW f \in 0 .. n - 1, NEW p \in Nat,
           NEW i \in 0 .. n - 1, i # f
    PROVE  RowAt(i, IF f + 1 = n THEN 0 ELSE f + 1, p + 1, n) = RowAt(i, f, p, n)
BY DEF RowAt

LEMMA RowAtOldest ==
    ASSUME NEW n \in Nat \ {0}, NEW f \in 0 .. n - 1, NEW p \in Nat, NEW k \in 1 .. n - f
    PROVE  RowAt(f + k - 1, f, p, n) = p - n + k - 1
BY DEF RowAt

\* A row read takes the place of the oldest one.
LEMMA RowKeepsRing ==
    ASSUME RingInv, job.tool = "tail", TailRow
    PROVE  Ring'
<1> DEFINE n == job.lines
           f == mem.firstEmpty
           L == mem.lines
<1>1. pc = "read" /\ pos <= Len(Rows) /\ n > 0 /\ Ring
  BY DEF RingInv, TailRow, Reading
<1>2. n \in Nat \ {0} /\ Len(Rows) \in Nat /\ in = 1 /\ pos \in 1 .. Len(Rows)
  BY <1>1, StreamFacts DEF Ring
<1>3. f \in 0 .. n - 1
  BY <1>1, <1>2 DEF Ring
<1>4. /\ UNCHANGED <<job, inputs, in>> /\ pos' = pos + 1
      /\ mem' = [lines |-> [L EXCEPT ![f] = Row], firstEmpty |-> SlotAfter(f), count |-> mem.count + 1]
  BY DEF TailRow, Continue, given
<1>5. /\ mem'.lines = [L EXCEPT ![f] = Rows[pos]] /\ mem'.firstEmpty = SlotAfter(f)
      /\ mem'.count = pos /\ n' = n /\ Rows' = Rows
  BY <1>1, <1>4 DEF Ring, Row, Rows
<1>6. mem' = [lines |-> mem'.lines, firstEmpty |-> mem'.firstEmpty, count |-> pos' - 1]
  BY <1>2, <1>4, <1>5
<1>7. L = [i \in 0 .. n - 1 |-> L[i]]
  BY <1>1 DEF Ring
<1>8. \A i \in 0 .. n - 1 : mem'.lines[i] = IF i = f THEN Rows[pos] ELSE L[i]
  BY <1>3, <1>5, <1>7
<1>9. mem'.lines = [i \in 0 .. n - 1 |-> mem'.lines[i]]
  BY <1>5, <1>7
<1>10. SlotAfter(f) = (IF f + 1 = n THEN 0 ELSE f + 1)
  BY DEF SlotAfter
<1>11. CASE pos - 1 < n
  <2>1. f = pos - 1 /\ \A i \in 0 .. pos - 2 : L[i] = Rows[i + 1]
    BY <1>1, <1>11 DEF Ring
  <2>2. \A i \in 0 .. pos - 1 : mem'.lines[i] = Rows[i + 1]
    <3> TAKE i \in 0 .. pos - 1
    <3>1. i \in 0 .. n - 1
      BY <1>2, <1>11
    <3>2. CASE i = f
      BY <3>1, <3>2, <1>2, <1>8, <2>1
    <3>3. CASE i # f
      <4>1. i \in 0 .. pos - 2
        BY <3>3, <2>1, <1>2
      <4> QED BY <3>1, <3>3, <4>1, <1>8, <2>1
    <3> QED BY <3>2, <3>3
  <2>3. CASE pos < n
    <3>1. mem'.firstEmpty = pos' - 1
      BY <2>1, <2>3, <1>2, <1>4, <1>5, <1>10
    <3>2. \A i \in 0 .. pos' - 2 : mem'.lines[i] = Rows'[i + 1]
      BY <2>2, <1>2, <1>4, <1>5
    <3> QED BY <3>1, <3>2, <2>3, <1>2, <1>4, <1>5, <1>6, <1>9 DEF Ring
  <2>4. CASE pos = n
    <3>1. mem'.firstEmpty = 0
      BY <2>1, <2>4, <1>2, <1>5, <1>10
    <3>2. \A i \in 0 .. n - 1 : mem'.lines[i] = Rows[RowAt(i, mem'.firstEmpty, pos + 1, n)]
      BY <3>1, <2>2, <2>4, <1>2 DEF RowAt
    <3> QED BY <3>1, <3>2, <2>4, <1>2, <1>4, <1>5, <1>6, <1>9 DEF Ring
  <2> QED BY <2>3, <2>4, <1>2, <1>11
<1>12. CASE pos - 1 >= n
  <2>1. \A i \in 0 .. n - 1 : L[i] = Rows[RowAt(i, f, pos, n)]
    BY <1>1, <1>2, <1>12 DEF Ring
  <2>2. mem'.firstEmpty \in 0 .. n - 1
    BY <1>2, <1>3, <1>5, <1>10
  <2>3. \A i \in 0 .. n - 1 : mem'.lines[i] = Rows[RowAt(i, mem'.firstEmpty, pos + 1, n)]
    <3> TAKE i \in 0 .. n - 1
    <3>1. mem'.firstEmpty = IF f + 1 = n THEN 0 ELSE f + 1
      BY <1>5, <1>10
    <3>2. CASE i = f
      <4>1. RowAt(i, mem'.firstEmpty, pos + 1, n) = pos
        <5>1. RowAt(f, IF f + 1 = n THEN 0 ELSE f + 1, pos + 1, n) = pos
          <6> HIDE DEF n, f
          <6> QED BY <1>2, <1>3, RowAtNew
        <5> QED BY <3>1, <3>2, <5>1
      <4> QED BY <3>2, <4>1, <1>8
    <3>3. CASE i # f
      <4>1. RowAt(i, mem'.firstEmpty, pos + 1, n) = RowAt(i, f, pos, n)
        <5>1. RowAt(i, IF f + 1 = n THEN 0 ELSE f + 1, pos + 1, n) = RowAt(i, f, pos, n)
          <6> HIDE DEF n, f
          <6> QED BY <3>3, <1>2, <1>3, RowAtKept
        <5> QED BY <3>1, <5>1
      <4> QED BY <3>3, <4>1, <2>1, <1>8
    <3> QED BY <3>2, <3>3
  <2> QED BY <2>2, <2>3, <1>2, <1>4, <1>5, <1>6, <1>9, <1>12 DEF Ring
<1> QED BY <1>2, <1>11, <1>12

LEMMA RingStep ==
    ASSUME RingInv, [Next]_vars
    PROVE  RingInv'
<1>1. CASE UNCHANGED vars
  BY <1>1 DEF RingInv, Ring, Rows, vars, given
<1>2. CASE Next
  <2>1. UNCHANGED <<job, inputs>>
    BY <1>2, GivenKept DEF given
  <2>2. CASE job.tool # "tail"
    BY <2>1, <2>2 DEF RingInv
  <2>3. CASE job.tool = "tail"
    <3>1. CASE OpenTail
      <4>1. Ring' /\ pc' = "read"
        BY <3>1, <2>3, OpenKeepsRing DEF OpenTail, Start
      <4> QED BY <4>1, <2>1 DEF RingInv
    <3>2. CASE TailRow
      <4>1. Ring' /\ pc' = "read"
        BY <3>2, <2>3, RowKeepsRing DEF TailRow, Continue, Reading
      <4> QED BY <4>1, <2>1 DEF RingInv
    <3>3. CASE EndTail
      <4>1. pc' = "exited"
        BY <3>3 DEF EndTail, Exit
      <4> QED BY <4>1, <2>1 DEF RingInv
    <3>4. CASE Ended
      <4>1. pc' = pc /\ pc \in {"exited", "crashed", "aborted", "hung"}
        BY <3>4 DEF Ended, vars
      <4> QED BY <4>1, <2>1 DEF RingInv
    <3> QED BY <3>1, <3>2, <3>3, <3>4, <1>2, <2>3, TailSteps
  <2> QED BY <2>2, <2>3
<1> QED BY <1>1, <1>2

-----------------------------------------------------------------------------
\* The ring, read as csv-tail prints it, is the end of what was read.
LEMMA RingIsTail ==
    ASSUME RingInv
    PROVE  RingHoldsLast
<1> SUFFICES ASSUME pc = "read", job.tool = "tail"
             PROVE  RingRows = SubSeq(Consumed, IF pos - 1 > job.lines THEN pos - job.lines ELSE 1, pos - 1)
  BY DEF RingHoldsLast
<1> DEFINE n == job.lines
           f == mem.firstEmpty
           c == pos - 1
           from == IF c > n THEN pos - n ELSE 1
<1>1. Ring
  BY DEF RingInv
<1>2. n \in Nat /\ Rows \in Seq(Range(Rows)) /\ Len(Rows) \in Nat /\ c \in 0 .. Len(Rows) /\ mem.count = c
      /\ pos \in 1 .. Len(Rows) + 1
  BY <1>1, StreamFacts DEF Ring
<1>3. /\ Consumed \in Seq(Range(Rows)) /\ Len(Consumed) = c
      /\ \A k \in 1 .. c : Consumed[k] = Rows[k]
  BY <1>2 DEF Consumed
<1>4. /\ SubSeq(Consumed, from, c) \in Seq(Range(Rows))
      /\ Len(SubSeq(Consumed, from, c)) = (IF c > n THEN n ELSE c)
      /\ \A k \in 1 .. (IF c > n THEN n ELSE c) : SubSeq(Consumed, from, c)[k] = Rows[from + k - 1]
  <2> DEFINE last == SubSeq(Consumed, from, c)
             shown == IF c > n THEN n ELSE c
  <2>1. c \in Nat /\ pos = c + 1 /\ n \in Nat
    BY <1>2
  <2>2. /\ from \in Int /\ 1 <= from /\ shown \in Nat
        /\ c - from + 1 = shown
    BY <2>1
  <2>3. \A k \in from .. c : k \in 1 .. c /\ Consumed[k] = Rows[k] /\ Consumed[k] \in Range(Rows)
    BY <1>3, <2>1, <2>2
  <2>4. /\ last \in Seq(Range(Rows))
        /\ Len(last) = IF from <= c THEN c - from + 1 ELSE 0
        /\ \A k \in 1 .. c - from + 1 : last[k] = Consumed[from + k - 1]
    <3>1. from \in Int /\ c \in Int /\ \A k \in from .. c : Consumed[k] \in Range(Rows)
      BY <2>1, <2>2, <2>3
    <3> HIDE DEF from, c
    <3> QED BY <3>1, SubSeqProperties
  <2> HIDE DEF last, from, shown, c, n
  <2>5. Len(last) = shown
    BY <2>1, <2>2, <2>4
  <2>6. \A k \in 1 .. shown : last[k] = Rows[from + k - 1]
    <3> TAKE k \in 1 .. shown
    <3>1. from + k - 1 \in from .. c /\ k \in 1 .. c - from + 1
      BY <2>1, <2>2
    <3> QED BY <2>3, <2>4, <3>1
  <2> QED BY <2>4, <2>5, <2>6 DEF last, shown
<1>5. CASE c < n
  <2>1. f = c /\ \A i \in 0 .. c - 1 : mem.lines[i] = Rows[i + 1]
    <3>1. pos - 1 < n => mem.firstEmpty = pos - 1 /\ \A i \in 0 .. pos - 2 : mem.lines[i] = Rows[i + 1]
      BY <1>1 DEF Ring
    <3>2. c - 1 = pos - 2
      BY <1>2
    <3> QED BY <3>1, <3>2, <1>5
  <2>2. RingRows = [k \in 1 .. c |-> mem.lines[k - 1]]
    BY <2>1, <1>2, <1>5 DEF RingRows, Slots
  <2>3. \A k \in 1 .. c : mem.lines[k - 1] = Rows[k]
    BY <2>1, <1>2
  <2> QED BY <2>2, <2>3, <1>2, <1>4, <1>5
<1>6. CASE c >= n /\ n = 0
  <2>1. c = 0 /\ f = 0
    BY <1>1, <1>2, <1>6 DEF Ring
  <2> QED BY <2>1, <1>2, <1>4, <1>6 DEF RingRows, Slots
<1>7. CASE c >= n /\ n > 0
  <2>1. f \in 0 .. n - 1 /\ \A i \in 0 .. n - 1 : mem.lines[i] = Rows[RowAt(i, f, pos, n)]
    BY <1>1, <1>2, <1>7 DEF Ring
  <2> DEFINE old == Slots(f, n)
             new == Slots(0, f)
  <2>2. old = [k \in 1 .. n - f |-> mem.lines[f + k - 1]] /\ new = [k \in 1 .. f |-> mem.lines[k - 1]]
    BY <2>1, <1>2 DEF Slots
  <2>3. \A k \in 1 .. n - f : old[k] = Rows[pos - n + k - 1]
    <3> TAKE k \in 1 .. n - f
    <3>1. f + k - 1 \in 0 .. n - 1
      BY <2>1, <1>2
    <3>2. RowAt(f + k - 1, f, pos, n) = pos - n + k - 1
      <4>1. n \in Nat \ {0} /\ f \in 0 .. n - 1 /\ pos \in Nat
        BY <2>1, <1>2, <1>7
      <4> HIDE DEF n, f
      <4> QED BY <4>1, RowAtOldest
    <3>3. old[k] = mem.lines[f + k - 1]
      BY <2>2
    <3> QED BY <3>1, <3>2, <3>3, <2>1
  <2>4. \A k \in 1 .. f : new[k] = Rows[pos - f + k - 1]
    <3> TAKE k \in 1 .. f
    <3>1. k - 1 \in 0 .. n - 1 /\ k - 1 < f /\ pos - f + (k - 1) = pos - f + k - 1
      BY <2>1, <1>2
    <3>2. RowAt(k - 1, f, pos, n) = pos - f + k - 1
      BY <3>1 DEF RowAt
    <3>3. new[k] = mem.lines[k - 1]
      BY <2>2
    <3> QED BY <3>1, <3>2, <3>3, <2>1
  <2>5. old \in Seq(Range(Rows)) /\ new \in Seq(Range(Rows)) /\ Len(old) = n - f /\ Len(new) = f
    <3> DEFINE l == Len(Rows)
    <3>0. n \in Nat /\ f \in Nat /\ f < n /\ l \in Nat /\ pos \in Nat /\ n < pos /\ pos <= l + 1
      BY <2>1, <1>2, <1>7
    <3>1. \A k \in 1 .. n - f : old[k] \in Range(Rows)
      <4> TAKE k \in 1 .. n - f
      <4>1. pos - n + k - 1 \in 1 .. l
        <5> HIDE DEF n, f, l
        <5> QED BY ONLY <3>0, k \in 1 .. n - f
      <4> QED BY <4>1, <2>3, <1>2 DEF Range
    <3>2. \A k \in 1 .. f : new[k] \in Range(Rows)
      <4> TAKE k \in 1 .. f
      <4>1. pos - f + k - 1 \in 1 .. l
        <5> HIDE DEF n, f, l
        <5> QED BY ONLY <3>0, k \in 1 .. f
      <4> QED BY <4>1, <2>4, <1>2 DEF Range
    <3> HIDE DEF old, new
    <3>3. n - f \in Nat /\ f \in Nat
      BY <2>1, <1>2
    <3>4. old \in [1 .. n - f -> Range(Rows)] /\ new \in [1 .. f -> Range(Rows)]
      BY <3>1, <3>2, <2>2
    <3> QED BY <3>3, <3>4
  <2>6. RingRows = old \o new
    BY <1>2, <1>7 DEF RingRows
  <2> HIDE DEF old, new
  <2>7. /\ RingRows \in Seq(Range(Rows)) /\ Len(RingRows) = n
        /\ \A k \in 1 .. n : RingRows[k] = IF k <= n - f THEN old[k] ELSE new[k - (n - f)]
    <3>1. Len(old) + Len(new) = n
      BY <2>1, <2>5, <1>2
    <3>2. /\ old \o new \in Seq(Range(Rows)) /\ Len(old \o new) = Len(old) + Len(new)
          /\ \A k \in 1 .. Len(old) + Len(new) :
                (old \o new)[k] = IF k <= Len(old) THEN old[k] ELSE new[k - Len(old)]
      BY <2>5, ConcatProperties
    <3> QED BY <3>1, <3>2, <2>5, <2>6
  <2>8. \A k \in 1 .. n : RingRows[k] = Rows[pos - n + k - 1]
    <3> TAKE k \in 1 .. n
    <3>1. CASE k <= n - f
      BY <3>1, <2>1, <2>3, <2>7, <1>2
    <3>2. CASE k > n - f
      <4>1. k - (n - f) \in 1 .. f
        BY <3>2, <2>1, <1>2
      <4>2. pos - f + (k - (n - f)) - 1 = pos - n + k - 1
        BY <2>1, <1>2
      <4>3. RingRows[k] = new[k - (n - f)]
        <5>1. ~(k <= n - f)
          BY <3>2, <2>1, <1>2
        <5> QED BY <5>1, <2>7
      <4>4. new[k - (n - f)] = Rows[pos - f + (k - (n - f)) - 1]
        BY <4>1, <2>4
      <4> QED BY <4>2, <4>3, <4>4
    <3> QED BY <3>1, <3>2, <2>1, <1>2
  <2>9. from = pos - n /\ (IF c > n THEN n ELSE c) = n
    BY <1>2, <1>7
  <2> DEFINE last == SubSeq(Consumed, from, c)
  <2>10. last \in Seq(Range(Rows)) /\ Len(last) = n /\ \A k \in 1 .. n : last[k] = RingRows[k]
    BY <2>8, <2>9, <1>4
  <2> HIDE DEF last
  <2>11. RingRows = last
    BY <2>7, <2>10, SeqEqual
  <2> QED BY <2>11 DEF last
<1> QED BY <1>2, <1>5, <1>6, <1>7

\* While csv-tail reads, its ring, read from the slot that is overwritten next
\* (src/src/tail.c), holds the last rows in their order: for any number of
\* lines and any stream.
THEOREM RingRight == Spec => []RingHoldsLast
<1>1. Init => RingInv
  BY DEF Init, RingInv
<1>2. RingInv /\ [Next]_vars => RingInv'
  BY RingStep
<1>3. RingInv => RingHoldsLast
  BY RingIsTail
<1> QED BY <1>1, <1>2, <1>3, PTL DEF Spec

-----------------------------------------------------------------------------
(* The sums of csv-sum and csv-avg *)

Adding == job.tool \in {"sum", "avg"}

\* The chosen columns that hold numbers, and the sums of one of them
Ints == {i \in DOMAIN Chosen : Header[Chosen[i]].type = "int"}
SumOf(i) == Sums(Addends(Chosen[i]))

\* The first n rows could be added.
Added1(i, n) ==
    \A k \in 1 .. n :
        /\ OfOtherTable(AllRows[k]) \/ IsNumber(AllRows[k][Chosen[i]])
        /\ SumOf(i)[k] \in MinInt .. MaxInt

\* While the rows are read, the value of a column is the sum of those before.
Summing ==
    /\ pos \in 1 .. Len(AllRows) + 1
    /\ \A i \in DOMAIN Chosen : Chosen[i] \in DOMAIN Header /\ cols[Before + i] = Chosen[i]
    /\ \A i \in Ints : Added1(i, pos - 1) /\ mem.values[Before + i] = <<SumOf(i)[pos - 1]>>

SumInv ==
    /\ \E i \in Invocations : job \in i.jobs /\ inputs \in i.inputs
    /\ Adding =>
          /\ in = 1
          /\ pc = "open" => pos = 1 /\ hdr = <<>>
          /\ pc = "read" => Summing
          /\ OverflowTold

\* csv-sum and csv-avg take no steps but their own.
LEMMA AddingSteps ==
    ASSUME Next, Adding
    PROVE  OpenAggregate \/ AddRow \/ PassOnRow \/ BadRow \/ EndAggregate \/ Crash \/ OverrunAggregate \/ Ended
<1>1. job.tool \in {"sum", "avg"}
  BY DEF Adding
<1>2. NextAggregate \/ Ended
  BY <1>1, ToolSteps DEF Functions, RpnToolNames, SqlToolNames, Evaluators, BuilderNames
<1>3. ~CompareRow
  BY <1>1 DEF CompareRow, Aggregating
<1> QED BY <1>2, <1>3 DEF NextAggregate

\* What the assumption says of the input and of -c
LEMMA TableFacts ==
    ASSUME \E i \in Invocations : job \in i.jobs /\ inputs \in i.inputs, Adding
    PROVE  /\ MaxInt \in Nat
           /\ Len(AllRows) \in Nat /\ DOMAIN AllRows = 1 .. Len(AllRows)
           /\ Len(Header) \in Nat /\ DOMAIN Header = 1 .. Len(Header)
           /\ Len(job.columns) \in Nat /\ DOMAIN Chosen = 1 .. Len(job.columns)
           /\ \A k \in 1 .. Len(AllRows), c \in DOMAIN Header :
                 Header[c].type = "int" => Number(AllRows[k][c]) \in Int
<1>1. PICK i \in Invocations : job \in i.jobs /\ inputs \in i.inputs
  OBVIOUS
<1>2. job.columns \in Seq(Range(job.columns))
  BY <1>1, RowStreamsAssumption DEF Adding
<1>3. /\ 1 \in DOMAIN inputs
      /\ AllRows \in Seq(Range(AllRows)) /\ Header \in Seq(Range(Header))
      /\ \A r \in Range(AllRows) : r \in [DOMAIN Header -> Seq(Int)]
  BY <1>1, RowStreamsAssumption DEF AllRows, Header
<1>4. \A text \in Seq(Int) : Number(text) \in Int
  BY DEF Number, Empty
<1>5. ASSUME NEW k \in 1 .. Len(AllRows), NEW c \in DOMAIN Header, Header[c].type = "int"
      PROVE  Number(AllRows[k][c]) \in Int
  <2>1. AllRows[k] \in Range(AllRows)
    BY <1>3 DEF Range
  <2> QED BY <1>3, <1>4, <1>5, <2>1
<1>6. DOMAIN Chosen = DOMAIN job.columns /\ DOMAIN job.columns = 1 .. Len(job.columns) /\ Len(job.columns) \in Nat
  BY <1>2 DEF Chosen
<1> QED BY <1>3, <1>5, <1>6, RowStreamsAssumption

\* A column that is found is one of the header.
LEMMA FoundInside ==
    ASSUME NEW h, NEW table, NEW name, Len(h) \in Nat, Find(h, table, name) # 0
    PROVE  Find(h, table, name) \in 1 .. Len(h)
<1> DEFINE I == {i \in 1 .. Len(h) : h[i].table = table /\ h[i].name = name}
<1>1. Find(h, table, name) = IF I # {} THEN Min(I) ELSE 0
  BY DEF Find, SelectInSeq
<1>2. I # {}
  BY <1>1
<1>3. I \in SUBSET Nat
  OBVIOUS
<1>4. Min(I) \in I
  <2> HIDE DEF I
  <2>1. \E x \in I : \A y \in I : x <= y
    BY <1>2, <1>3, LeastMember
  <2> QED BY <2>1 DEF Min
<1> QED BY <1>1, <1>2, <1>4

\* The sums of a column, row by row.
LEMMA SumByRow ==
    ASSUME \E i \in Invocations : job \in i.jobs /\ inputs \in i.inputs, Adding,
           NEW i \in Ints, Chosen[i] \in DOMAIN Header
    PROVE  /\ SumOf(i)[0] = 0
           /\ \A k \in 0 .. Len(AllRows) : SumOf(i)[k] \in Int
           /\ \A k \in 1 .. Len(AllRows) :
                 SumOf(i)[k] = SumOf(i)[k - 1]
                     + (IF OfOtherTable(AllRows[k]) THEN 0 ELSE Number(AllRows[k][Chosen[i]]))
<1> DEFINE l == Len(AllRows)
           c == Chosen[i]
           a == Addends(c)
           F == SumOf(i)
<1>1. l \in Nat /\ DOMAIN AllRows = 1 .. l /\ \A k \in 1 .. l : Number(AllRows[k][c]) \in Int
  BY TableFacts DEF Ints
<1>2. a \in Seq(Int) /\ Len(a) = l
      /\ \A k \in 1 .. l : a[k] = IF OfOtherTable(AllRows[k]) THEN 0 ELSE Number(AllRows[k][c])
  <2>1. a = [k \in 1 .. l |-> IF OfOtherTable(AllRows[k]) THEN 0 ELSE Number(AllRows[k][c])]
    BY <1>1 DEF Addends
  <2>2. a \in [1 .. l -> Int]
    BY <1>1, <2>1
  <2> HIDE DEF a, l, c
  <2> QED BY <1>1, <2>1, <2>2
<1>3. F = CHOOSE g : g = [k \in 0 .. Len(a) |-> IF k = 0 THEN 0 ELSE g[k - 1] + a[k]]
  BY DEF SumOf, Sums
<1> HIDE DEF a, F
<1>4. F[0] = 0 /\ (\A k \in 1 .. Len(a) : F[k] = F[k - 1] + a[k]) /\ (\A k \in 0 .. Len(a) : F[k] \in Int)
  <2>1. a \in Seq(Int)
    BY <1>2
  <2> QED BY ONLY <2>1, <1>3, PartialSums
<1> HIDE DEF l, c
<1>5. F[0] = 0 /\ (\A k \in 0 .. l : F[k] \in Int)
  BY <1>2, <1>4
<1>6. \A k \in 1 .. l : F[k] = F[k - 1] + (IF OfOtherTable(AllRows[k]) THEN 0 ELSE Number(AllRows[k][c]))
  BY <1>2, <1>4
<1> QED BY <1>5, <1>6 DEF F, l, c

\* What holds of csv-sum and csv-avg while they read
LEMMA ReadingFacts ==
    ASSUME SumInv, Adding, pc = "read", pos <= Len(Rows)
    PROVE  /\ Summing /\ in = 1 /\ Row = AllRows[pos] /\ Rows = AllRows
           /\ pos \in Nat \ {0} /\ pos \in 1 .. Len(AllRows) /\ pos - 1 \in 0 .. Len(AllRows) /\ (pos + 1) - 1 = pos
           /\ Len(AllRows) \in Nat
<1>1. Summing /\ in = 1
  BY DEF SumInv
<1>2. Rows = AllRows /\ Row = AllRows[pos] /\ Len(AllRows) \in Nat
  BY <1>1, TableFacts DEF SumInv, Rows, AllRows, Row
<1>3. pos \in 1 .. Len(AllRows) + 1
  BY <1>1 DEF Summing
<1> QED BY <1>1, <1>2, <1>3

\* One more row that could be added
LEMMA AddedNext ==
    ASSUME NEW i, NEW p \in Nat \ {0}, Added1(i, p - 1),
           OfOtherTable(AllRows[p]) \/ IsNumber(AllRows[p][Chosen[i]]),
           SumOf(i)[p] \in MinInt .. MaxInt
    PROVE  Added1(i, p)
<1> SUFFICES ASSUME NEW k \in 1 .. p
             PROVE  /\ OfOtherTable(AllRows[k]) \/ IsNumber(AllRows[k][Chosen[i]])
                    /\ SumOf(i)[k] \in MinInt .. MaxInt
  BY DEF Added1
<1>1. k = p \/ k \in 1 .. p - 1
  OBVIOUS
<1> QED BY <1>1 DEF Added1

\* The sum of the rows before is in the range.
LEMMA SumInRange ==
    ASSUME \E i \in Invocations : job \in i.jobs /\ inputs \in i.inputs, Adding,
           NEW i \in Ints, Chosen[i] \in DOMAIN Header, NEW n \in 0 .. Len(AllRows), Added1(i, n)
    PROVE  SumOf(i)[n] \in MinInt .. MaxInt
<1>1. CASE n = 0
  <2>1. SumOf(i)[n] = 0
    BY <1>1, SumByRow
  <2>2. MaxInt \in Nat
    BY TableFacts
  <2> QED BY <2>1, <2>2 DEF MinInt
<1>2. CASE n # 0
  <2>1. Len(AllRows) \in Nat
    BY TableFacts
  <2>2. n \in 1 .. n
    BY <1>2, <2>1
  <2> QED BY <2>2 DEF Added1
<1> QED BY <1>1, <1>2

\* Whether a row can be added shows in the sum with it.
LEMMA RowAddable ==
    ASSUME SumInv, Adding, pc = "read", pos <= Len(Rows), ~OfOtherTable(Row), NEW i \in Ints
    PROVE  LET j == Before + i
           IN  /\ Type(j) = "int" /\ Cell(j) = AllRows[pos][Chosen[i]] /\ Number(Value(j)) = SumOf(i)[pos - 1]
               /\ SumOf(i)[pos] = SumOf(i)[pos - 1] + Number(Cell(j))
               /\ Unsummable(j) <=> ~IsNumber(Cell(j)) \/ SumOf(i)[pos] \notin MinInt .. MaxInt
<1> DEFINE j == Before + i
           s == SumOf(i)[pos - 1]
           t == SumOf(i)[pos]
           n == Number(Cell(j))
<1>1. /\ Summing /\ Row = AllRows[pos] /\ pos \in 1 .. Len(AllRows) /\ pos - 1 \in 0 .. Len(AllRows)
      /\ \E k \in Invocations : job \in k.jobs /\ inputs \in k.inputs
  BY ReadingFacts DEF SumInv
<1>2. /\ Chosen[i] \in DOMAIN Header /\ cols[j] = Chosen[i] /\ Header[Chosen[i]].type = "int"
      /\ Added1(i, pos - 1) /\ mem.values[j] = <<s>>
  BY <1>1 DEF Summing, Ints
<1>3. Type(j) = "int" /\ Cell(j) = AllRows[pos][Chosen[i]] /\ Number(Value(j)) = s
  BY <1>1, <1>2 DEF Type, Cell, Value, Number, Empty
<1>4. s \in Int /\ t = s + n /\ s \in MinInt .. MaxInt
  <2>1. s \in Int /\ t = s + (IF OfOtherTable(AllRows[pos]) THEN 0 ELSE Number(AllRows[pos][Chosen[i]]))
    BY <1>1, <1>2, SumByRow
  <2>2. s \in MinInt .. MaxInt
    BY <1>1, <1>2, SumInRange
  <2> QED BY <1>1, <1>3, <2>1, <2>2
<1>5. n \in Int /\ MaxInt \in Nat
  BY <1>1, <1>2, <1>3, TableFacts
<1>6. IsNumber(Cell(j)) => (Overflow(j) <=> t \notin MinInt .. MaxInt)
  <2> SUFFICES ASSUME IsNumber(Cell(j))
               PROVE  (n > 0 /\ s > MaxInt - n) \/ (n < 0 /\ s < MinInt - n) <=> t \notin MinInt .. MaxInt
    BY <1>3 DEF Overflow
  <2> HIDE DEF n, s, t
  <2> QED BY ONLY <1>4, <1>5 DEF MinInt
<1>7. Unsummable(j) <=> ~IsNumber(Cell(j)) \/ (IsNumber(Cell(j)) /\ Overflow(j))
  BY <1>3 DEF Unsummable, NotANumber, Overflow
<1> HIDE DEF s, t, n
<1> QED BY <1>3, <1>4, <1>6, <1>7 DEF s, t, n

\* The terms of the invariant depend on what is given only.
LEMMA TermsKept ==
    ASSUME UNCHANGED <<job, inputs>>
    PROVE  /\ Chosen' = Chosen /\ Header' = Header /\ AllRows' = AllRows /\ Before' = Before /\ Ints' = Ints
           /\ \A i : SumOf(i)' = SumOf(i)
           /\ \A i, n : Added1(i, n)' <=> Added1(i, n)
<1>1. Chosen' = Chosen /\ Header' = Header /\ AllRows' = AllRows /\ Before' = Before
  BY DEF Chosen, Header, AllRows, Before
<1>2. Ints' = Ints
  BY <1>1 DEF Ints
<1>3. \A r : OfOtherTable(r)' <=> OfOtherTable(r)
  BY <1>1 DEF OfOtherTable, TableAt
<1>4. \A i : SumOf(i)' = SumOf(i)
  <2>1. \A c : Addends(c)' = Addends(c)
    BY <1>1, <1>3 DEF Addends
  <2>2. \A i : Addends(Chosen[i])' = Addends(Chosen[i])
    BY <1>1, <1>3 DEF Addends
  <2> QED BY <2>2 DEF SumOf, Sums
<1>5. \A i, n : Added1(i, n)' <=> Added1(i, n)
  BY <1>1, <1>3, <1>4 DEF Added1
<1> QED BY <1>1, <1>2, <1>4, <1>5

\* Reading begins with the sum of no rows.
LEMMA OpenSums ==
    ASSUME SumInv, Adding, OpenAggregate
    PROVE  IF pc' = "read" THEN Summing' /\ pc # "read" ELSE pc' = "exited" /\ hdr' = <<>>
<1>1. pc = "open" /\ pos = 1 /\ hdr = <<>> /\ in = 1
  BY DEF OpenAggregate, SumInv
<1>2. CASE AggregateFails /\ Fail
  BY <1>1, <1>2 DEF Fail, Exit
<1>3. CASE ~AggregateFails /\ Start(Selection, ResultHeader,
                 [values |-> [j \in Active |-> Initial(Header[Selection[j]].type)], rows |-> 0])
  <2>1. /\ UNCHANGED <<job, inputs, pos>> /\ cols' = Selection /\ pc' = "read"
        /\ mem'.values = [j \in Active |-> Initial(Header[Selection[j]].type)]
    BY <1>3 DEF Start, given
  <2>2. /\ Len(AllRows) \in Nat /\ Len(Header) \in Nat /\ DOMAIN Header = 1 .. Len(Header)
        /\ Len(job.columns) \in Nat /\ DOMAIN Chosen = 1 .. Len(job.columns)
        /\ \E i \in Invocations : job \in i.jobs /\ inputs \in i.inputs
    BY TableFacts DEF SumInv
  <2>3. \A i \in DOMAIN Chosen : Chosen[i] \in DOMAIN Header
    <3> TAKE i \in DOMAIN Chosen
    <3>1. Chosen[i] = Find(Header, job.table, job.columns[i]) /\ Chosen[i] # 0
      BY <1>3 DEF AggregateFails, ColumnMissing, Range, Chosen
    <3> QED BY <2>2, <3>1, FoundInside
  <2>4. \A i \in DOMAIN Chosen : Before + i \in Active /\ Selection[Before + i] = Chosen[i]
    <3> DEFINE front == IF job.table = NoTable THEN <<>> ELSE <<TableAt>>
               behind == {i \in DOMAIN Header : i # TableAt /\ Header[i].table # job.table}
               l == Len(job.columns)
    <3>1. Len(front) = Before /\ DOMAIN front = 1 .. Before /\ Before \in {0, 1}
      <4>1. CASE job.table = NoTable
        BY <4>1 DEF Before
      <4>2. CASE job.table # NoTable
        BY <4>2 DEF Before
      <4> QED BY <4>1, <4>2
    <3>2. Len(Others) \in Nat
      <4>1. CASE job.table = NoTable
        BY <4>1 DEF Others
      <4>2. CASE job.table # NoTable
        <5>1. Others = Those(Indices, behind) /\ Indices \in Seq(1 .. Len(Header))
          BY <2>2, <4>2 DEF Others, Indices
        <5> HIDE DEF behind
        <5> QED BY <5>1, ThoseType
      <4> QED BY <4>1, <4>2
    <3>3. Len(Chosen) = l /\ l \in Nat
      BY <2>2 DEF Chosen
    <3>4. Selection = (front \o Chosen) \o Others
      BY DEF Selection
    <3> TAKE i \in DOMAIN Chosen
    <3>5. i \in 1 .. l /\ Before + i \in Active
      BY <2>2, <3>1 DEF Active
    <3> HIDE DEF front, l
    <3>6. Len(front \o Chosen) = Before + l /\ (front \o Chosen)[Before + i] = Chosen[i]
      BY <3>1, <3>3, <3>5
    <3>7. Selection[Before + i] = (front \o Chosen)[Before + i]
      <4> DEFINE both == front \o Chosen
      <4>1. Before + i \in 1 .. Len(both) /\ Len(both) \in Nat
        BY <3>1, <3>3, <3>5, <3>6
      <4> HIDE DEF both
      <4> QED BY <3>2, <3>4, <4>1 DEF both
    <3> QED BY <3>5, <3>6, <3>7
  <2>5. ASSUME NEW i \in Ints
        PROVE  /\ Added1(i, 0)
               /\ mem'.values[Before + i] = <<SumOf(i)[0]>>
    <3>1. i \in DOMAIN Chosen /\ Header[Chosen[i]].type = "int"
      BY DEF Ints
    <3>2. mem'.values[Before + i] = Initial("int")
      BY <2>1, <2>4, <3>1
    <3>3. Initial("int") = <<0>>
      BY DEF Initial, Adding
    <3>4. SumOf(i)[0] = 0
      BY <2>2, <2>3, <3>1, SumByRow
    <3> QED BY <3>2, <3>3, <3>4 DEF Added1
  <2>6. pos' = 1 /\ pos' - 1 = 0 /\ Len(AllRows) + 1 \in Nat /\ 1 \in 1 .. Len(AllRows) + 1
    BY <1>1, <2>1, <2>2
  <2>7. pos' \in 1 .. Len(AllRows) + 1
    BY ONLY <2>6
  <2>8. \A i \in DOMAIN Chosen : Chosen[i] \in DOMAIN Header /\ cols'[Before + i] = Chosen[i]
    BY <2>1, <2>3, <2>4
  <2>9. \A i \in Ints : Added1(i, pos' - 1) /\ mem'.values[Before + i] = <<SumOf(i)[pos' - 1]>>
    BY <2>5, <2>6
  <2>10. Summing'
    <3>1. UNCHANGED <<job, inputs>>
      BY <2>1
    <3> QED BY <2>7, <2>8, <2>9, <3>1, TermsKept DEF Summing
  <2> QED BY <1>1, <2>1, <2>10
<1> QED BY <1>2, <1>3 DEF OpenAggregate

\* The promise in the terms of the invariant
LEMMA ToldByRows ==
    ASSUME \E i \in Invocations : job \in i.jobs /\ inputs \in i.inputs, Adding, UNCHANGED <<job, inputs>>
    PROVE  OverflowTold' <=>
              (pc' = "exited" /\ hdr' # <<>> => (status' = 0 <=> \A i \in Ints : Added1(i, Len(AllRows))))
<1>1. DOMAIN AllRows = 1 .. Len(AllRows)
  BY TableFacts
<1> DEFINE Fine(i) == \A k \in DOMAIN AllRows :
                          /\ OfOtherTable(AllRows[k]) \/ IsNumber(AllRows[k][Chosen[i]])
                          /\ Sums(Addends(Chosen[i]))[k] \in MinInt .. MaxInt
<1>2. \A i : Fine(i) <=> Added1(i, Len(AllRows))
  BY <1>1 DEF Added1, SumOf
<1>3. \A i : Fine(i)' <=> Fine(i)
  <2>1. /\ Chosen' = Chosen /\ AllRows' = AllRows
        /\ \A i : SumOf(i)' = SumOf(i)
    BY TermsKept
  <2>2. \A r : OfOtherTable(r)' <=> OfOtherTable(r)
    BY DEF OfOtherTable, TableAt, Header
  <2> QED BY <2>1, <2>2 DEF SumOf
<1>4. OverflowTold' <=> (pc' = "exited" /\ job'.tool \in {"sum", "avg"} /\ hdr' # <<>> =>
                            (status' = 0 <=> \A i \in DOMAIN Chosen' : Header'[Chosen'[i]].type = "int" => Fine(i)'))
  BY DEF OverflowTold
<1> HIDE DEF Fine
<1>5. Chosen' = Chosen /\ Header' = Header /\ job' = job
  BY TermsKept
<1> QED BY <1>2, <1>3, <1>4, <1>5 DEF Ints, Adding

\* A row that is added, or passed on, gives the next sum.
LEMMA ReadSums ==
    ASSUME SumInv, Adding, AddRow \/ PassOnRow
    PROVE  Summing' /\ pc' = "read" /\ pc = "read"
<1>1. pc = "read" /\ pos <= Len(Rows)
  BY DEF AddRow, PassOnRow, PassOn, Aggregating, Reading
<1>2. /\ Summing /\ Row = AllRows[pos] /\ pos \in Nat \ {0} /\ pos \in 1 .. Len(AllRows)
      /\ pos - 1 \in 0 .. Len(AllRows) /\ (pos + 1) - 1 = pos /\ Len(AllRows) \in Nat
      /\ \E k \in Invocations : job \in k.jobs /\ inputs \in k.inputs
  BY <1>1, ReadingFacts DEF SumInv
<1>3. /\ UNCHANGED <<job, inputs, cols>> /\ pos' = pos + 1 /\ pc' = "read"
      /\ AddRow => mem'.values = [j \in Active |-> Summed(j)]
      /\ PassOnRow => mem' = mem
  BY <1>1 DEF AddRow, PassOnRow, PassOn, Aggregated, Continue, given
<1>4. ASSUME NEW i \in Ints
      PROVE  Added1(i, pos) /\ mem'.values[Before + i] = <<SumOf(i)[pos]>>
  <2> DEFINE j == Before + i
             s == SumOf(i)[pos - 1]
             t == SumOf(i)[pos]
  <2>1. /\ i \in DOMAIN Chosen /\ Chosen[i] \in DOMAIN Header /\ Added1(i, pos - 1)
        /\ mem.values[j] = <<s>> /\ s \in MinInt .. MaxInt
    BY <1>2, SumInRange DEF Summing, Ints
  <2>2. CASE PassOnRow
    <3>1. OfOtherTable(AllRows[pos])
      BY <1>2, <2>2 DEF PassOnRow, PassOn
    <3>2. t = s
      <4>1. t = s + (IF OfOtherTable(AllRows[pos]) THEN 0 ELSE Number(AllRows[pos][Chosen[i]])) /\ s \in Int
        BY <1>2, <2>1, SumByRow
      <4> HIDE DEF s, t
      <4> QED BY <3>1, <4>1
    <3>3. Added1(i, pos)
      BY <1>2, <2>1, <3>1, <3>2, AddedNext
    <3> QED BY <1>3, <2>1, <2>2, <3>2, <3>3
  <2>3. CASE AddRow
    <3>1. ~OfOtherTable(Row)
      BY <2>3 DEF AddRow, Aggregating
    <3>2. j \in Active
      <4>1. i \in 1 .. Len(job.columns) /\ Len(job.columns) \in Nat
        BY <1>2, <2>1, TableFacts
      <4>2. Before \in {0, 1}
        BY DEF Before
      <4> QED BY <4>1, <4>2 DEF Active
    <3>3. ~Unsummable(j)
      BY <2>3, <3>2 DEF AddRow, Aggregating
    <3>4. /\ Type(j) = "int" /\ Cell(j) = AllRows[pos][Chosen[i]] /\ Number(Value(j)) = s
          /\ t = s + Number(Cell(j))
          /\ Unsummable(j) <=> ~IsNumber(Cell(j)) \/ t \notin MinInt .. MaxInt
      BY <1>1, <3>1, RowAddable
    <3>5. Added1(i, pos)
      BY <1>2, <2>1, <3>3, <3>4, AddedNext
    <3>6. mem'.values[j] = Summed(j)
      BY <1>3, <2>3, <3>2
    <3>7. Summed(j) = <<t>>
      BY <3>4 DEF Summed
    <3> QED BY <3>5, <3>6, <3>7
  <2> QED BY <2>2, <2>3
<1>5. pos' - 1 = pos /\ pos' \in 1 .. Len(AllRows) + 1
  BY <1>2, <1>3
<1>6. \A i \in DOMAIN Chosen : Chosen[i] \in DOMAIN Header /\ cols'[Before + i] = Chosen[i]
  BY <1>2, <1>3 DEF Summing
<1>7. Summing'
  BY <1>3, <1>4, <1>5, <1>6, TermsKept DEF Summing
<1> QED BY <1>1, <1>3, <1>7

\* A row that cannot be added is the first one that cannot.
LEMMA BadSums ==
    ASSUME SumInv, Adding, BadRow
    PROVE  OverflowTold' /\ pc' = "exited"
<1>1. pc = "read" /\ pos <= Len(Rows) /\ ~OfOtherTable(Row)
  BY DEF BadRow, Reading
<1>2. /\ Summing /\ Row = AllRows[pos] /\ pos \in 1 .. Len(AllRows)
      /\ \E k \in Invocations : job \in k.jobs /\ inputs \in k.inputs
  BY <1>1, ReadingFacts DEF SumInv
<1>3. PICK j \in Active : Unsummable(j)
  BY DEF BadRow, Adding
<1>4. PICK i \in DOMAIN Chosen : j = Before + i
  <2>1. Len(job.columns) \in Nat /\ DOMAIN Chosen = 1 .. Len(job.columns)
    BY <1>2, TableFacts
  <2>2. Before \in {0, 1}
    BY DEF Before
  <2>3. j - Before \in 1 .. Len(job.columns) /\ j = Before + (j - Before)
    BY <2>1, <2>2, <1>3 DEF Active
  <2> QED BY <2>1, <2>3
<1>5. i \in Ints
  <2>1. cols[j] = Chosen[i]
    BY <1>2, <1>4 DEF Summing
  <2> QED BY <1>3, <1>4, <2>1 DEF Unsummable, Type, Ints
<1>6. ~IsNumber(AllRows[pos][Chosen[i]]) \/ SumOf(i)[pos] \notin MinInt .. MaxInt
  BY <1>1, <1>3, <1>4, <1>5, RowAddable
<1>7. /\ UNCHANGED <<job, inputs>> /\ status' = 2 /\ pc' = "exited"
  BY DEF BadRow, Fail, Exit, given
<1>8. ~ (/\ OfOtherTable(AllRows[pos]) \/ IsNumber(AllRows[pos][Chosen[i]])
         /\ SumOf(i)[pos] \in MinInt .. MaxInt)
  BY <1>1, <1>2, <1>6
<1>9. ~Added1(i, Len(AllRows))
  BY <1>2, <1>8 DEF Added1
<1> QED BY <1>2, <1>5, <1>7, <1>9, ToldByRows

\* When all rows have been read all of them could be added.
LEMMA EndSums ==
    ASSUME SumInv, Adding, EndAggregate
    PROVE  OverflowTold' /\ pc' = "exited"
<1>1. pc = "read" /\ pos > Len(Rows) /\ Summing /\ in = 1
  BY DEF EndAggregate, AtEnd, SumInv
<1>2. Len(AllRows) \in Nat /\ Rows = AllRows
  BY <1>1, TableFacts DEF SumInv, Rows, AllRows
<1>3. pos - 1 = Len(AllRows)
  BY <1>1, <1>2 DEF Summing
<1>4. \A i \in Ints : Added1(i, Len(AllRows))
  BY <1>1, <1>3 DEF Summing
<1>5. UNCHANGED <<job, inputs>> /\ status' = 0 /\ pc' = "exited"
  BY DEF EndAggregate, Exit, given
<1> QED BY <1>4, <1>5, ToldByRows DEF SumInv

LEMMA SumStep ==
    ASSUME SumInv, [Next]_vars
    PROVE  SumInv'
<1>1. CASE UNCHANGED vars \/ Ended
  <2>1. UNCHANGED <<job, inputs, pc, status, in, pos, cols, mem, hdr>>
    BY <1>1 DEF Ended, vars, given
  <2>2. CASE ~Adding
    BY <2>1, <2>2 DEF SumInv, Adding
  <2>3. CASE Adding
    <3>1. Summing => Summing'
      BY <2>1, TermsKept DEF Summing
    <3>2. OverflowTold => OverflowTold'
      <4>1. OverflowTold <=>
              (pc = "exited" /\ hdr # <<>> => (status = 0 <=> \A i \in Ints : Added1(i, Len(AllRows))))
        <5>1. DOMAIN AllRows = 1 .. Len(AllRows)
          BY <2>3, TableFacts DEF SumInv
        <5> QED BY <2>3, <5>1 DEF OverflowTold, Ints, Added1, SumOf, Adding
      <4> QED BY <2>1, <2>3, <4>1, ToldByRows DEF SumInv
    <3> QED BY <2>1, <2>3, <3>1, <3>2 DEF SumInv, Adding
  <2> QED BY <2>2, <2>3
<1>2. CASE Next /\ ~Ended
  <2>1. UNCHANGED <<job, inputs>>
    BY <1>2, GivenKept DEF given
  <2>2. CASE ~Adding
    BY <2>1, <2>2 DEF SumInv, Adding
  <2>3. CASE Adding
    <3>1. ASSUME in' = in, pc' # "open", pc' = "read" => Summing', pc' = "exited" /\ hdr' # <<>> => OverflowTold'
          PROVE  SumInv'
      <4>1. OverflowTold'
        BY <3>1 DEF OverflowTold
      <4> QED BY <2>1, <2>3, <3>1, <4>1 DEF SumInv, Adding
    <3>2. CASE OpenAggregate
      <4>1. in' = in
        BY <3>2 DEF OpenAggregate, Start, Fail, Exit
      <4> QED BY <2>3, <3>1, <3>2, <4>1, OpenSums
    <3>3. CASE AddRow \/ PassOnRow
      <4>1. in' = in
        BY <3>3 DEF AddRow, Aggregated, PassOnRow, PassOn, Continue
      <4> QED BY <2>3, <3>1, <3>3, <4>1, ReadSums
    <3>4. CASE BadRow
      <4>1. in' = in
        BY <3>4 DEF BadRow, Fail, Exit
      <4> QED BY <2>3, <3>1, <3>4, <4>1, BadSums
    <3>5. CASE EndAggregate
      <4>1. in' = in
        BY <3>5 DEF EndAggregate, Exit
      <4> QED BY <2>3, <3>1, <3>5, <4>1, EndSums
    <3>6. CASE Crash \/ OverrunAggregate
      <4>1. in' = in /\ pc' = "crashed"
        BY <3>6 DEF Crash, OverrunAggregate, Die
      <4> QED BY <3>1, <4>1
    <3> QED BY <1>2, <2>3, <3>2, <3>3, <3>4, <3>5, <3>6, AddingSteps
  <2> QED BY <2>2, <2>3
<1> QED BY <1>1, <1>2

\* csv-sum and csv-avg tell every cell that is no number and every sum that passes
\* LLONG_MAX or LLONG_MIN (src/src/sum.c), and nothing else: for any stream, any
\* columns and any bounds of long long.
THEOREM OverflowsTold == Spec => []OverflowTold
<1>1. Init => SumInv
  <2> SUFFICES ASSUME Init PROVE SumInv
    OBVIOUS
  <2>1. /\ \E i \in Invocations : job \in i.jobs /\ inputs \in i.inputs
        /\ in = 1 /\ pos = 1 /\ hdr = <<>> /\ pc = "open"
    BY DEF Init
  <2> QED BY <2>1 DEF SumInv, OverflowTold
<1>2. SumInv /\ [Next]_vars => SumInv'
  BY SumStep
<1>3. SumInv => OverflowTold
  BY DEF SumInv, Adding, OverflowTold
<1> QED BY <1>1, <1>2, <1>3, PTL DEF Spec

-----------------------------------------------------------------------------
(* The cache by itself *)

LEMMA EmptyCacheSound == CacheSound(EmptyCache)
BY CacheSizeAssumption DEF CacheSound, EmptyCache

\* In a cache that is sound the slot filled next is the first free one, or one
\* that is in use.
LEMMA NextSlot ==
    ASSUME NEW c, CacheSound(c)
    PROVE  /\ c.used \in Nat /\ c.next \in Nat
           /\ (DOMAIN c.slots) \cup {c.next} = 0 .. (IF c.used # CacheSize THEN c.used + 1 ELSE c.used) - 1
<1>1. /\ CacheSize \in Nat \ {0} /\ c.used \in 0 .. CacheSize /\ c.next \in 0 .. CacheSize - 1
      /\ DOMAIN c.slots = 0 .. c.used - 1
      /\ c.used < CacheSize => c.next = c.used
  BY CacheSizeAssumption DEF CacheSound
<1>2. CASE c.used < CacheSize
  BY <1>1, <1>2
<1>3. CASE c.used = CacheSize
  BY <1>1, <1>3
<1> QED BY <1>1, <1>2, <1>3

\* csv_regex_get() leaves a sound cache sound.
LEMMA CachedSound ==
    ASSUME NEW c, CacheSound(c), NEW regex, NEW cflags
    PROVE  CacheSound(Cached(c, regex, cflags))
<1>1. CASE Found(c, regex, cflags) # {}
  BY <1>1 DEF Cached
<1>2. CASE Found(c, regex, cflags) = {}
  <2> DEFINE d == Cached(c, regex, cflags)
             e == Entry(regex, cflags)
  <2>1. d = [slots |-> Filled(c, e),
             used |-> IF c.used # CacheSize THEN c.used + 1 ELSE c.used,
             next |-> IF c.next + 1 = CacheSize THEN 0 ELSE c.next + 1]
    BY <1>2 DEF Cached
  <2>2. /\ CacheSize \in Nat \ {0} /\ c.used \in 0 .. CacheSize /\ c.next \in 0 .. CacheSize - 1
        /\ DOMAIN c.slots = 0 .. c.used - 1
        /\ c.used < CacheSize => c.next = c.used
    BY CacheSizeAssumption DEF CacheSound
  <2>3. d.used \in 0 .. CacheSize /\ d.next \in 0 .. CacheSize - 1 /\ (d.used < CacheSize => d.next = d.used)
    BY <2>1, <2>2
  <2>4. d.slots = Filled(c, e) /\ d.used = IF c.used # CacheSize THEN c.used + 1 ELSE c.used
    BY <2>1
  <2>5. DOMAIN d.slots = 0 .. d.used - 1 /\ DOMAIN d.slots = (DOMAIN c.slots) \cup {c.next}
    BY <2>4, NextSlot DEF Filled
  <2>6. \A i \in DOMAIN d.slots : d.slots[i] = IF i = c.next THEN e ELSE c.slots[i]
    BY <2>4, <2>5 DEF Filled
  <2>7. e = Entry(regex, cflags) /\ e.regex = regex /\ e.cflags = cflags
    BY DEF Entry
  <2>8. \A i \in DOMAIN c.slots : c.slots[i].regex # regex \/ c.slots[i].cflags # cflags
    BY <1>2, <2>2 DEF Found
  <2>9. \A i \in DOMAIN c.slots : c.slots[i] = Entry(c.slots[i].regex, c.slots[i].cflags)
    BY DEF CacheSound
  <2>10. \A i, j \in DOMAIN c.slots :
            c.slots[i].regex = c.slots[j].regex /\ c.slots[i].cflags = c.slots[j].cflags => i = j
    BY DEF CacheSound
  <2> HIDE DEF d, e
  <2>11. \A i \in DOMAIN d.slots : d.slots[i] = Entry(d.slots[i].regex, d.slots[i].cflags)
    BY <2>5, <2>6, <2>7, <2>9
  <2>12. \A i, j \in DOMAIN d.slots :
            d.slots[i].regex = d.slots[j].regex /\ d.slots[i].cflags = d.slots[j].cflags => i = j
    <3> SUFFICES ASSUME NEW i \in DOMAIN d.slots, NEW j \in DOMAIN d.slots,
                        d.slots[i].regex = d.slots[j].regex, d.slots[i].cflags = d.slots[j].cflags,
                        i # j
                 PROVE  FALSE
      OBVIOUS
    <3>1. CASE i # c.next /\ j # c.next
      <4>1. i \in DOMAIN c.slots /\ j \in DOMAIN c.slots
        BY <2>5, <3>1
      <4>2. d.slots[i] = c.slots[i] /\ d.slots[j] = c.slots[j]
        BY <2>6, <3>1
      <4> QED BY <2>10, <4>1, <4>2
    <3>2. CASE i = c.next
      <4>1. j \in DOMAIN c.slots /\ d.slots[j] = c.slots[j] /\ d.slots[i] = e
        BY <2>5, <2>6, <3>2
      <4> QED BY <2>7, <2>8, <4>1
    <3>3. CASE j = c.next
      <4>1. i \in DOMAIN c.slots /\ d.slots[i] = c.slots[i] /\ d.slots[j] = e
        BY <2>5, <2>6, <3>3
      <4> QED BY <2>7, <2>8, <4>1
    <3> QED BY <3>1, <3>2, <3>3
  <2>13. CacheSound(d)
    BY <2>3, <2>5, <2>11, <2>12 DEF CacheSound
  <2> QED BY <2>13 DEF d
<1> QED BY <1>1, <1>2

\* A program with a sound cache gets what it would have compiled itself: which
\* expressions were asked for before, and which of them have made room for others
\* (src/src/regex_cache.c:48), makes no difference.
THEOREM CacheTransparent ==
    ASSUME NEW c, CacheSound(c), NEW regex, NEW cflags
    PROVE  Compiled(c, regex, cflags) = Regcomp(regex, cflags)
<1> DEFINE found == Found(c, regex, cflags)
<1>1. c.used \in Nat /\ DOMAIN c.slots = 0 .. c.used - 1
  BY CacheSizeAssumption DEF CacheSound
<1>2. CASE found # {}
  <2>1. PICK i \in found : TRUE
    BY <1>2
  <2>2. \A j \in found : j = i
    BY <1>1, <2>1 DEF Found, CacheSound
  <2>3. i <= i
    BY <1>1, <2>1 DEF Found
  <2>4. (CHOOSE k \in found : \A j \in found : k <= j) = i
    BY <2>1, <2>2, <2>3
  <2>5. Compiled(c, regex, cflags) = c.slots[i].comp
    BY <1>2, <2>4 DEF Compiled
  <2>6. c.slots[i] = Entry(regex, cflags)
    BY <1>1, <2>1 DEF Found, CacheSound
  <2> QED BY <2>5, <2>6 DEF Entry
<1>3. CASE found = {}
  <2>1. Compiled(c, regex, cflags) = Filled(c, Entry(regex, cflags))[c.next].comp
    BY <1>3 DEF Compiled, Cached
  <2>2. Filled(c, Entry(regex, cflags))[c.next] = Entry(regex, cflags)
    BY DEF Filled
  <2> QED BY <2>1, <2>2 DEF Entry
<1> QED BY <1>2, <1>3

-----------------------------------------------------------------------------
(* The cache of the five tools *)

\* A memory as Evaluation makes it, with a sound cache; only csv-sql has lines.
Held(m) ==
    /\ m = [field \in {"todo", "exp", "at", "stack", "values", "query", "kept", "lines",
                       "cache", "seqs", "counts"} |-> m[field]]
    /\ CacheSound(m.cache)
    /\ job.tool = "sql" \/ m.lines = <<>>

CacheInv ==
    job.tool \in Evaluators => (pc # "read" /\ mem = None) \/ Held(mem)

\* The tools take no steps but their own.
LEMMA EvaluatorSteps ==
    ASSUME Next, job.tool \in Evaluators
    PROVE  NextRpn \/ NextSql \/ Evaluate \/ Ended
BY ToolSteps DEF Functions, RpnToolNames, SqlToolNames, Evaluators, BuilderNames

\* A new memory, and one of which other parts change
LEMMA EvaluationHeld == ASSUME NEW todo, NEW query PROVE Held(Evaluation(todo, query))
BY EmptyCacheSound DEF Held, Evaluation

LEMMA FreshHeld == ASSUME NEW m, Held(m) PROVE Held(Fresh(m))
BY DEF Held, Fresh

LEMMA ExceptCache ==
    ASSUME NEW m, Held(m), NEW cache, CacheSound(cache)
    PROVE  Held([m EXCEPT !.cache = cache])
BY DEF Held

LEMMA ExceptSequences ==
    ASSUME NEW m, Held(m), NEW seqs, NEW counts
    PROVE  Held([m EXCEPT !.seqs = seqs, !.counts = counts])
BY DEF Held

LEMMA ExceptStack ==
    ASSUME NEW m, Held(m), NEW stack, NEW at
    PROVE  Held([m EXCEPT !.stack = stack, !.at = at])
BY DEF Held

LEMMA ExceptExpression ==
    ASSUME NEW m, Held(m), NEW exp, NEW at, NEW stack, NEW values
    PROVE  Held([m EXCEPT !.exp = exp, !.at = at, !.stack = stack, !.values = values])
BY DEF Held

LEMMA ExceptKept ==
    ASSUME job.tool = "sql", NEW m, Held(m), NEW kept, NEW todo, NEW lines
    PROVE  /\ Held([m EXCEPT !.kept = kept])
           /\ Held([m EXCEPT !.lines = lines])
           /\ Held([m EXCEPT !.kept = kept, !.todo = todo, !.lines = lines])
BY DEF Held

\* The row is done, or its next expression follows.
LEMMA RowDoneHeld ==
    ASSUME Held(mem), NEW printed, RowDone(printed)
    PROVE  Held(mem')
BY FreshHeld DEF RowDone, Continue

LEMMA NextExpressionHeld ==
    ASSUME Held(mem), NEW values, NextExpression(values)
    PROVE  Held(mem')
<1>1. mem' = [mem EXCEPT !.exp = mem.exp + 1, !.at = 1, !.stack = <<>>, !.values = values]
  BY DEF NextExpression, Step
<1> QED BY <1>1, ExceptExpression

LEMMA PrintValueHeld ==
    ASSUME Held(mem), NEW tool, PrintValue(tool) \/ Decide(tool)
    PROVE  Held(mem')
<1>1. CASE PrintValue(tool)
  <2> DEFINE values == Append(mem.values, TextOf(Value1))
  <2>1. RowDone(<<Row \o values>>) \/ NextExpression(values)
    BY <1>1 DEF PrintValue
  <2> QED BY <2>1, RowDoneHeld, NextExpressionHeld
<1>2. CASE Decide(tool)
  <2>1. RowDone(<<Row>>) \/ RowDone(<<>>) \/ NextExpression(<<>>) \/ mem' = mem
    BY <1>2 DEF Decide, Die
  <2> QED BY <2>1, RowDoneHeld, NextExpressionHeld
<1> QED BY <1>1, <1>2

\* What becomes of a result leaves the cache alone.
LEMMA TakeHeld ==
    ASSUME Held(mem), NEW m, Held(m), NEW result, Take(result, m)
    PROVE  Held(mem')
<1>1. CASE mem' = mem
  BY <1>1
<1>2. CASE mem' = [m EXCEPT !.stack = Append(Beneath, result), !.at = m.at + 1]
  BY <1>2, ExceptStack
<1> QED BY <1>1, <1>2 DEF Take, Step, Fail, Exit, Die

LEMMA EvaluateHeld ==
    ASSUME CacheInv, job.tool \in Evaluators, Evaluate
    PROVE  Held(mem')
<1>1. pc = "read"
  BY DEF Evaluate, Refuse, LeftOver, PushConstant, PushColumn, Operate, OperateRegex, OperateNext,
         AtToken, AtEndOfExpression, Evaluating, Reading, AtEnd
<1>2. Held(mem)
  BY <1>1 DEF CacheInv
<1>3. CASE Refuse \/ LeftOver
  <2>1. mem' = mem
    BY <1>3 DEF Refuse, LeftOver, Exit, Fail
  <2> QED BY <1>2, <2>1
<1>4. CASE PushConstant
  <2>1. mem' = [mem EXCEPT !.stack = Append(mem.stack, Token.value), !.at = mem.at + 1]
    BY <1>4 DEF PushConstant, Step, Push
  <2> QED BY <1>2, <2>1, ExceptStack
<1>5. CASE PushColumn
  <2> DEFINE value == FieldValue(Subject, Token)
  <2>1. \/ mem' = mem
        \/ mem' = [mem EXCEPT !.stack = Append(mem.stack, value), !.at = mem.at + 1]
    BY <1>5 DEF PushColumn, Step, Push, Exit, Fail, Die
  <2>2. CASE mem' = mem
    BY <1>2, <2>2
  <2>3. CASE mem' = [mem EXCEPT !.stack = Append(mem.stack, value), !.at = mem.at + 1]
    BY <1>2, <2>3, ExceptStack
  <2> QED BY <2>1, <2>2, <2>3
<1>6. CASE Operate
  <2>1. Take(Applied(Token.operator, Operands), mem)
    BY <1>6 DEF Operate
  <2> QED BY <1>2, <2>1, TakeHeld
<1>7. CASE OperateRegex
  <2> DEFINE cache == Cached(mem.cache, Regex(Token.operator, Operands), Flags(Token.operator, Operands))
  <2>1. PICK result : Take(result, [mem EXCEPT !.cache = cache])
    BY <1>7 DEF OperateRegex
  <2>2. CacheSound(cache)
    BY <1>2, CachedSound DEF Held
  <2>3. Held([mem EXCEPT !.cache = cache])
    BY <1>2, <2>2, ExceptCache
  <2> QED BY <1>2, <2>1, <2>3, TakeHeld
<1>8. CASE OperateNext
  <2> DEFINE name == Operands[1].value
             known == Place(job.hash, mem.seqs, name) # 0
             cell == IF known THEN CellOf(job.hash, mem.seqs, name) ELSE Len(mem.counts) + 1
             n == IF known THEN mem.counts[cell] + 1 ELSE 1
             seqs == IF known THEN mem.seqs ELSE Added(job.hash, mem.seqs, name, cell)
             counts == IF known THEN [mem.counts EXCEPT ![cell] = n] ELSE Append(mem.counts, n)
  <2>1. Take(Llong(n), [mem EXCEPT !.seqs = seqs, !.counts = counts])
    BY <1>8 DEF OperateNext
  <2>2. Held([mem EXCEPT !.seqs = seqs, !.counts = counts])
    BY <1>2, ExceptSequences
  <2> QED BY <1>2, <2>1, <2>2, TakeHeld
<1> QED BY <1>3, <1>4, <1>5, <1>6, <1>7, <1>8 DEF Evaluate

\* The steps that open the stream make a memory or end the tool without one.
LEMMA OpenHeld ==
    ASSUME CacheInv, job.tool \in Evaluators, OpenRpn \/ OpenSql \/ OpenAddSql \/ OpenGrepSql
    PROVE  (pc' # "read" /\ mem' = None) \/ Held(mem')
<1>1. pc = "open"
  BY DEF OpenRpn, OpenSql, OpenAddSql, OpenGrepSql, Opening
<1>2. CASE Fail \/ Die("crashed")
  <2>1. mem' = mem /\ pc' # "read"
    BY <1>1, <1>2 DEF Fail, Exit, Die
  <2> QED BY <1>1, <2>1 DEF CacheInv
<1>3. CASE ~(Fail \/ Die("crashed"))
  <2>1. \E todo, query : mem' = Evaluation(todo, query)
    BY <1>3 DEF OpenRpn, OpenSql, OpenAddSql, OpenGrepSql, Start
  <2> QED BY Zenon, <2>1, EvaluationHeld
<1> QED BY <1>2, <1>3

LEMMA RpnStepHeld ==
    ASSUME CacheInv, job.tool \in Evaluators, NextRpn
    PROVE  (pc' # "read" /\ mem' = None) \/ Held(mem')
<1>1. CASE OpenRpn
  BY <1>1, OpenHeld
<1>2. CASE ~OpenRpn
  <2>1. pc = "read"
    BY <1>2 DEF NextRpn, PassOnRpn, EndRpn, PrintValue, Decide, AtValue, AtEndOfExpression,
                Evaluating, Reading, AtEnd
  <2>2. Held(mem)
    BY <2>1 DEF CacheInv
  <2>3. CASE PassOnRpn \/ EndRpn
    <3>1. mem' = mem
      BY <2>3 DEF PassOnRpn, EndRpn, Continue, Exit
    <3> QED BY <2>2, <3>1
  <2> QED BY <1>2, <2>2, <2>3, PrintValueHeld DEF NextRpn
<1> QED BY <1>1, <1>2

LEMMA SqlStepHeld ==
    ASSUME CacheInv, job.tool \in Evaluators, NextSql
    PROVE  (pc' # "read" /\ mem' = None) \/ Held(mem')
<1>1. CASE OpenSql \/ OpenAddSql \/ OpenGrepSql
  BY <1>1, OpenHeld
<1>2. CASE ~(OpenSql \/ OpenAddSql \/ OpenGrepSql)
  <2>1. pc = "read"
    BY <1>2 DEF NextSql, WhereSql, KeepSql, SelectSql, SortSql, EndSql, PassOnSql, EndAddSql,
                PrintValue, Decide, AtValue, AtEndOfExpression, Evaluating, Reading, AtEnd
  <2>2. Held(mem)
    BY <2>1 DEF CacheInv
  <2>3. Held(Fresh(mem))
    BY <2>2, FreshHeld
  <2>4. CASE PassOnSql \/ EndSql \/ EndAddSql
    <3>1. mem' = mem
      BY <2>4 DEF PassOnSql, EndSql, EndAddSql, Continue, Exit, Die
    <3> QED BY <2>2, <3>1
  <2>5. CASE WhereSql
    <3>1. RowDone(<<>>) \/ NextExpression(<<>>) \/ mem' = mem
      BY <2>5 DEF WhereSql, Die
    <3> QED BY <2>2, <3>1, RowDoneHeld, NextExpressionHeld
  <2>6. CASE KeepSql
    <3> DEFINE values == Append(mem.values, Value1)
               kept == Append(Fresh(mem).kept, [row |-> Row, order |-> values])
    <3>1. NextExpression(values) \/ mem' = [Fresh(mem) EXCEPT !.kept = kept]
      BY <2>6 DEF KeepSql, Continue
    <3>2. Held([Fresh(mem) EXCEPT !.kept = kept])
      BY <2>3, <2>6, ExceptKept DEF KeepSql, AtValue
    <3> QED BY <2>2, <3>1, <3>2, NextExpressionHeld
  <2>7. CASE SelectSql
    <3> DEFINE values == Append(mem.values, TextOf(Value1))
               lines == Tail(Fresh(mem).lines)
    <3>1. NextExpression(values) \/ RowDone(<<values>>) \/ mem' = [Fresh(mem) EXCEPT !.lines = lines]
      BY <2>7 DEF SelectSql
    <3>2. Held([Fresh(mem) EXCEPT !.lines = lines])
      BY <2>3, <2>7, ExceptKept DEF SelectSql, AtValue
    <3> QED BY <2>2, <3>1, <3>2, NextExpressionHeld, RowDoneHeld
  <2>8. CASE SortSql
    <3> DEFINE todo == TokensOf(mem.query.columns)
    <3>1. PICK lines : mem' = [mem EXCEPT !.kept = <<>>, !.todo = todo, !.lines = lines]
      BY <2>8 DEF SortSql, Step
    <3>2. Held([mem EXCEPT !.kept = <<>>, !.todo = todo, !.lines = lines])
      BY <2>2, <2>8, ExceptKept DEF SortSql, AtEnd
    <3> QED BY Zenon, <3>1, <3>2
  <2> QED BY Zenon, <1>2, <2>2, <2>4, <2>5, <2>6, <2>7, <2>8, PrintValueHeld DEF NextSql
<1> QED BY <1>1, <1>2

LEMMA CacheStep ==
    ASSUME CacheInv, [Next]_vars
    PROVE  CacheInv'
<1>1. CASE UNCHANGED vars
  BY <1>1 DEF CacheInv, Held, vars, given
<1>2. CASE Next
  <2>1. job' = job
    BY <1>2, GivenKept DEF given
  <2>2. CASE job.tool \notin Evaluators
    BY <2>1, <2>2 DEF CacheInv
  <2>3. CASE job.tool \in Evaluators /\ (NextRpn \/ NextSql \/ Evaluate)
    BY <2>1, <2>3, RpnStepHeld, SqlStepHeld, EvaluateHeld DEF CacheInv, Held
  <2>4. CASE Ended
    BY <2>1, <2>4 DEF CacheInv, Held, Ended, vars, given
  <2> QED BY <1>2, <2>2, <2>3, <2>4, EvaluatorSteps
<1> QED BY <1>1, <1>2

\* Whatever the tools evaluate, every slot of their cache holds what its expression
\* compiles to, and no expression is in two slots (src/src/regex_cache.c): for any
\* number of slots, also while the slots are filled again.
THEOREM CacheAlwaysRight == Spec => []CacheRight
<1>1. Init => CacheInv
  BY DEF Init, CacheInv
<1>2. CacheInv /\ [Next]_vars => CacheInv'
  BY CacheStep
<1>3. CacheInv => CacheRight
  BY DEF CacheInv, CacheRight, Held
<1> QED BY <1>1, <1>2, <1>3, PTL DEF Spec

-----------------------------------------------------------------------------
(* The input that is read, and the place in it *)

SeveralInputs == {"cat", "tac", "merge", "sqlite"}
EndStates == {"exited", "crashed", "aborted", "hung"}

\* What a step does to the place: the tool opens its input, reads a row, computes,
\* turns to the next input, or ends.
Opens == pc = "open" /\ pc' = "read" /\ UNCHANGED <<status, in, pos, out>>
Reads == pc = "read" /\ pos <= Len(Rows) /\ pos' = pos + 1 /\ UNCHANGED <<pc, status, in>>
Computes == pc = "read" /\ UNCHANGED <<pc, status, in, pos>>
Turns ==
    /\ pc = "read" /\ job.tool \in SeveralInputs
    /\ in < Len(inputs) /\ in' = in + 1 /\ pos' = 1
    /\ UNCHANGED <<pc, status>>
Quits == pc' \in EndStates /\ status' \in {0, 1, 2, status} /\ UNCHANGED <<in, pos>>

StepKinds == Opens \/ Reads \/ Computes \/ Turns \/ Quits

StreamInv ==
    /\ \E i \in Invocations : job \in i.jobs /\ inputs \in i.inputs
    /\ in \in 1 .. Len(inputs) /\ pos \in 1 .. Len(Rows) + 1
    /\ job.tool \notin SeveralInputs => in = 1
    /\ pc \in {"open", "read"} \cup EndStates /\ status \in {0, 1, 2}
    /\ pc = "open" => in = 1 /\ pos = 1 /\ hdr = <<>> /\ out = <<>>
    /\ CacheInv

LEMMA KindsOfExit == ASSUME NEW code \in {0, 1, 2}, NEW rows, Exit(code, rows) PROVE Quits
BY DEF Exit, Quits, EndStates

LEMMA KindsOfFail == ASSUME Fail PROVE Quits
BY KindsOfExit DEF Fail

LEMMA KindsOfDie == ASSUME NEW how \in {"crashed", "aborted", "hung"}, Die(how) PROVE Quits
BY DEF Die, Quits, EndStates

LEMMA KindsOfStart == ASSUME pc = "open", NEW c, NEW h, NEW m, Start(c, h, m) PROVE Opens
BY DEF Start, Opens

LEMMA KindsOfContinue ==
    ASSUME pc = "read", pos <= Len(Rows), NEW rows, NEW m, Continue(rows, m) PROVE Reads
BY DEF Continue, Reads

LEMMA KindsOfStep == ASSUME pc = "read", NEW m, Step(m) PROVE Computes
BY DEF Step, Computes

LEMMA KindsOfTurn ==
    ASSUME pc = "read", job.tool \in SeveralInputs, NEW rows, NEW m, NextInput(rows, m) PROVE Turns
BY DEF NextInput, Turns

\* The memory of the evaluator
LEMMA KindsOfEvaluation ==
    ASSUME Evaluate PROVE StepKinds
<1>1. ASSUME NEW result, NEW m, pc = "read", Take(result, m) PROVE StepKinds
  BY <1>1, KindsOfStep, KindsOfFail, KindsOfDie DEF Take, StepKinds
<1>2. pc = "read"
  BY DEF Evaluate, Refuse, LeftOver, PushConstant, PushColumn, Operate, OperateRegex, OperateNext, AtToken,
         AtEndOfExpression, Evaluating, Reading, AtEnd
<1>3. CASE PushConstant \/ PushColumn
  BY <1>2, <1>3, KindsOfStep, KindsOfFail, KindsOfDie DEF PushConstant, PushColumn, StepKinds
<1>4. CASE Refuse \/ LeftOver
  BY <1>4, KindsOfFail DEF Refuse, LeftOver, StepKinds
<1>5. CASE Operate \/ OperateRegex \/ OperateNext
  BY <1>1, <1>2, <1>5 DEF Operate, OperateRegex, OperateNext
<1> QED BY <1>3, <1>4, <1>5 DEF Evaluate

LEMMA KindsOfValues ==
    ASSUME CacheInv, NEW tool, (tool # "sql" /\ (PrintValue(tool) \/ Decide(tool))) \/ WhereSql \/ KeepSql \/ SelectSql
    PROVE  StepKinds
<1>1. pc = "read"
  BY DEF PrintValue, Decide, AtValue, AtEndOfExpression, Evaluating, Reading, AtEnd, WhereSql, KeepSql, SelectSql
<1>2. ASSUME NEW values, NextExpression(values) PROVE StepKinds
  BY <1>1, <1>2, KindsOfStep DEF NextExpression, StepKinds
<1>3. ASSUME NEW printed, pos <= Len(Rows), RowDone(printed) PROVE StepKinds
  BY <1>1, <1>3, KindsOfContinue DEF RowDone, StepKinds
<1>4. CASE tool # "sql" /\ (PrintValue(tool) \/ Decide(tool))
  <2>1. job.tool \in Evaluators /\ job.tool # "sql" /\ Evaluating
    BY <1>4 DEF PrintValue, Decide, AtValue, AtEndOfExpression, Evaluating
  <2>2. mem.lines = <<>>
    BY <1>1, <2>1 DEF CacheInv, Held
  <2>3. pos <= Len(Rows)
    BY <2>1, <2>2 DEF Evaluating, Reading
  <2>4. CASE PrintValue(tool)
    BY <1>2, <1>3, <2>3, <2>4 DEF PrintValue
  <2>5. CASE Decide(tool)
    BY <1>2, <1>3, <2>3, <2>5, KindsOfDie DEF Decide, StepKinds
  <2> QED BY <1>4, <2>4, <2>5
<1>6. CASE WhereSql
  BY <1>2, <1>3, <1>6, KindsOfDie DEF WhereSql, StepKinds
<1>7. CASE KeepSql
  BY <1>1, <1>2, <1>7, KindsOfContinue DEF KeepSql, StepKinds
<1>8. CASE SelectSql
  BY <1>1, <1>2, <1>3, <1>8 DEF SelectSql, StepKinds, Computes
<1> QED BY <1>4, <1>6, <1>7, <1>8

LEMMA KindsOfFilters ==
    ASSUME NextFilter PROVE StepKinds
<1>1. CASE OpenHead \/ HeadFull \/ HeadRow \/ EndHead
  BY <1>1, KindsOfStart, KindsOfExit, KindsOfContinue DEF OpenHead, HeadFull, HeadRow, EndHead, Opening, Reading, StepKinds
<1>2. CASE OpenTail \/ TailRow \/ EndTail
  BY <1>2, KindsOfStart, KindsOfExit, KindsOfContinue DEF OpenTail, TailRow, EndTail, Opening, Reading, StepKinds
<1>3. CASE OpenFiles("cat") \/ OpenFiles("tac")
  BY <1>3, KindsOfStart, KindsOfFail DEF OpenFiles, Opening, StepKinds
<1>4. CASE CatRow \/ TacRow
  BY <1>4, KindsOfContinue DEF CatRow, TacRow, Reading, StepKinds
<1>5. CASE EndCat \/ EndTac
  BY <1>5, KindsOfTurn, KindsOfExit DEF EndCat, EndTac, AtEnd, StepKinds, SeveralInputs
<1>6. CASE OpenCut \/ CutRow \/ EndCut
  BY <1>6, KindsOfStart, KindsOfExit, KindsOfFail, KindsOfContinue DEF OpenCut, CutRow, EndCut, Opening, Reading, StepKinds
<1>7. CASE OpenUniq \/ PassOn("uniq") \/ UniqRow \/ EndUniq \/ OverrunUniq
  BY <1>7, KindsOfStart, KindsOfExit, KindsOfFail, KindsOfContinue, KindsOfDie
     DEF OpenUniq, PassOn, UniqRow, EndUniq, OverrunUniq, Opening, Reading, StepKinds
<1>8. CASE OpenGrep \/ GrepRow \/ EndGrep
  BY <1>8, KindsOfStart, KindsOfExit, KindsOfFail, KindsOfContinue DEF OpenGrep, GrepRow, EndGrep, Opening, Reading, StepKinds
<1>9. CASE OpenCount \/ CountRow
  BY <1>9, KindsOfStart, KindsOfFail, KindsOfContinue DEF OpenCount, CountRow, Opening, Reading, StepKinds
<1>10. CASE EndCount
  BY <1>10 DEF EndCount, StepKinds, Quits, EndStates
<1> QED BY <1>1, <1>2, <1>3, <1>4, <1>5, <1>6, <1>7, <1>8, <1>9, <1>10 DEF NextFilter

LEMMA KindsOfOthers ==
    ASSUME CacheInv, NextAggregate \/ NextSort \/ NextMerge \/ NextRpn \/ NextSql PROVE StepKinds
<1>1. CASE OpenAggregate \/ BadRow \/ EndAggregate \/ Crash \/ OverrunAggregate
  BY <1>1, KindsOfStart, KindsOfExit, KindsOfFail, KindsOfDie DEF OpenAggregate, BadRow, EndAggregate, Crash,
         OverrunAggregate, StepKinds
<1>2. CASE AddRow \/ CompareRow \/ PassOnRow
  BY <1>2, KindsOfContinue DEF AddRow, CompareRow, Aggregating, Aggregated, PassOnRow, PassOn, Reading, StepKinds
<1>3. CASE NextSort
  <2>1. CASE OpenSort \/ SortFails
    BY <2>1, KindsOfStart, KindsOfFail DEF OpenSort, SortFails, Opening, StepKinds
  <2>2. CASE PassOnUnsorted \/ KeepRow
    BY <2>2, KindsOfContinue DEF PassOnUnsorted, KeepRow, Reading, StepKinds
  <2>3. CASE EndSort
    BY <2>3, KindsOfExit DEF EndSort, StepKinds
  <2> QED BY <1>3, <2>1, <2>2, <2>3 DEF NextSort
<1>4. CASE NextMerge
  <2>1. CASE OpenMerge \/ MergeRow
    BY <2>1, KindsOfStart, KindsOfFail, KindsOfContinue DEF OpenMerge, MergeRow, Opening, Reading, StepKinds
  <2>2. CASE EndMerge
    BY <2>2, KindsOfTurn, KindsOfExit DEF EndMerge, AtEnd, StepKinds, SeveralInputs
  <2> QED BY <1>4, <2>1, <2>2 DEF NextMerge
<1>5. CASE NextRpn
  <2>1. CASE OpenRpn
    BY <2>1, KindsOfStart, KindsOfFail, KindsOfDie DEF OpenRpn, StepKinds
  <2>2. CASE PassOnRpn \/ EndRpn
    BY <2>2, KindsOfContinue, KindsOfExit DEF PassOnRpn, EndRpn, Reading, StepKinds
  <2> QED BY <1>5, <2>1, <2>2, KindsOfValues DEF NextRpn
<1>6. CASE NextSql
  <2>1. CASE OpenSql
    BY <2>1, KindsOfStart, KindsOfFail, KindsOfDie DEF OpenSql, Opening, StepKinds
  <2>2. CASE OpenAddSql
    BY <2>2, KindsOfStart, KindsOfFail DEF OpenAddSql, Opening, StepKinds
  <2>3. CASE OpenGrepSql
    BY <2>3, KindsOfStart, KindsOfFail DEF OpenGrepSql, Opening, StepKinds
  <2>4. CASE SortSql
    BY <2>4, KindsOfStep DEF SortSql, AtEnd, StepKinds
  <2>5. CASE PassOnSql
    BY <2>5, KindsOfContinue DEF PassOnSql, Reading, StepKinds
  <2>6. CASE EndSql \/ EndAddSql
    BY <2>6, KindsOfExit, KindsOfDie DEF EndSql, EndAddSql, StepKinds
  <2>7. CASE WhereSql \/ KeepSql \/ SelectSql \/ PrintValue("add_sql") \/ Decide("grep_sql")
    BY <2>7, KindsOfValues
  <2> QED BY <1>6, <2>1, <2>2, <2>3, <2>4, <2>5, <2>6, <2>7 DEF NextSql
<1> QED BY <1>1, <1>2, <1>3, <1>4, <1>5, <1>6 DEF NextAggregate

LEMMA KindsOfColumns ==
    ASSUME NextColumns \/ NextTree \/ NextSqlite PROVE StepKinds
<1>1. CASE NextBuilder
  <2>1. CASE OpenBuilder \/ EndBuilder
    BY <2>1, KindsOfStart, KindsOfFail, KindsOfExit DEF OpenBuilder, EndBuilder, StepKinds
  <2>2. ASSUME NEW values, pc = "read", pos <= Len(Rows), Build(values) PROVE StepKinds
    BY <2>2, KindsOfContinue DEF Build, StepKinds
  <2>3. CASE PassOnBuilder \/ AddConcat \/ AddRev \/ AddSubstring \/ AddSplit
    BY <2>2, <2>3 DEF PassOnBuilder, AddConcat, AddRev, AddSubstring, AddSplit, Building, Reading
  <2>4. CASE AddReplace
    BY <2>2, <2>4, KindsOfFail, KindsOfDie DEF AddReplace, Building, Reading, StepKinds
  <2>5. CASE AddReplaceRegex
    BY <2>2, <2>5, KindsOfFail DEF AddReplaceRegex, Building, Reading, StepKinds
  <2> QED BY <1>1, <2>1, <2>3, <2>4, <2>5 DEF NextBuilder
<1>2. CASE NextHeader
  <2>1. CASE OpenHeader
    BY <2>1, KindsOfStart, KindsOfFail DEF OpenHeader, Opening, StepKinds
  <2>2. CASE CopyRow \/ GuessRow
    BY <2>2, KindsOfContinue DEF CopyRow, GuessRow, Reading, StepKinds
  <2>3. CASE EndHeader \/ PrintGuessed
    BY <2>3, KindsOfExit DEF EndHeader, PrintGuessed, StepKinds, Quits, EndStates
  <2> QED BY <1>2, <2>1, <2>2, <2>3 DEF NextHeader
<1>3. CASE NextTree
  <2>1. CASE OpenTree \/ ReadTreeRow
    BY <2>1, KindsOfStart, KindsOfExit, KindsOfContinue DEF OpenTree, ReadTreeRow, Opening, Reading, StepKinds
  <2>2. CASE LinkRows
    BY <2>2, KindsOfDie DEF LinkRows, AtEnd, StepKinds, Computes
  <2>3. CASE PassBy
    BY <2>3, KindsOfStep DEF PassBy, Walking, AtEnd, StepKinds
  <2>4. CASE PrintTree
    BY <2>4, KindsOfExit, KindsOfDie DEF PrintTree, Walking, AtEnd, StepKinds, Computes
  <2>5. CASE EndTree
    BY <2>5, KindsOfExit DEF EndTree, StepKinds
  <2> QED BY <1>3, <2>1, <2>2, <2>3, <2>4, <2>5 DEF NextTree
<1>4. CASE NextSqlite
  <2>1. CASE OpenSqlite \/ NextFile
    BY Zenon, <2>1, KindsOfStart, KindsOfFail, KindsOfTurn DEF OpenSqlite, NextFile, Opening, AtEnd, StepKinds, SeveralInputs
  <2>2. CASE InsertRow \/ NameMissing
    BY Zenon, <2>2, KindsOfFail, KindsOfDie, KindsOfContinue DEF InsertRow, NameMissing, Reading, StepKinds
  <2>3. CASE QuerySqlite
    BY <2>3, KindsOfFail DEF QuerySqlite, StepKinds, Quits, EndStates
  <2> QED BY <1>4, <2>1, <2>2, <2>3 DEF NextSqlite
<1> QED BY <1>1, <1>2, <1>3, <1>4 DEF NextColumns

LEMMA EveryKind == ASSUME CacheInv, Next PROVE StepKinds \/ UNCHANGED vars
BY KindsOfFilters, KindsOfOthers, KindsOfColumns, KindsOfEvaluation DEF Next, Ended

LEMMA StreamStep ==
    ASSUME StreamInv, [Next]_vars
    PROVE  StreamInv'
<1>0. CacheInv'
  BY CacheStep DEF StreamInv
<1>1. CASE UNCHANGED vars
  BY <1>0, <1>1 DEF StreamInv, Rows, vars, given
<1>2. CASE Next /\ StepKinds
  <2>1. UNCHANGED <<job, inputs>>
    BY <1>2, GivenKept DEF given
  <2>2. Len(inputs) \in Nat /\ \A k \in 1 .. Len(inputs) : Len(inputs[k].rows) \in Nat
    BY GivenInputs DEF StreamInv
  <2>3. Len(inputs) \in Nat /\ Len(Rows) \in Nat /\ in \in 1 .. Len(inputs)
    BY <2>2 DEF StreamInv, Rows
  <2>4. CASE Opens
    BY <1>0, <2>1, <2>4 DEF Opens, StreamInv, Rows
  <2>5. CASE Reads
    BY <1>0, <2>1, <2>3, <2>5 DEF Reads, StreamInv, Rows
  <2>6. CASE Computes
    BY <1>0, <2>1, <2>6 DEF Computes, StreamInv, Rows
  <2>7. CASE Turns
    <3>1. in + 1 \in 1 .. Len(inputs) /\ Len(inputs[in + 1].rows) \in Nat
      BY <2>2, <2>3, <2>7 DEF Turns
    <3> QED BY <1>0, <2>1, <2>3, <2>7, <3>1 DEF Turns, StreamInv, Rows
  <2>8. CASE Quits
    BY <1>0, <2>1, <2>8 DEF Quits, StreamInv, Rows, EndStates
  <2> QED BY <1>2, <2>4, <2>5, <2>6, <2>7, <2>8 DEF StepKinds
<1>3. CacheInv
  BY DEF StreamInv
<1> QED BY <1>1, <1>2, <1>3, EveryKind

\* What the assumption says of the only input, and of -c
LEMMA GivenStream ==
    ASSUME StreamInv, job.tool \notin SeveralInputs
    PROVE  /\ in = 1 /\ Rows = AllRows /\ pos \in 1 .. Len(AllRows) + 1
           /\ AllRows \in Seq(Range(AllRows)) /\ Len(AllRows) \in Nat /\ DOMAIN AllRows = 1 .. Len(AllRows)
           /\ Header \in Seq(Range(Header)) /\ Len(Header) \in Nat /\ DOMAIN Header = 1 .. Len(Header)
           /\ \A k \in DOMAIN AllRows : AllRows[k] \in [DOMAIN Header -> Seq(Int)]
<1>1. \E i \in Invocations : job \in i.jobs /\ inputs \in i.inputs
  BY DEF StreamInv
<1>2. in = 1 /\ 1 \in DOMAIN inputs
  BY <1>1, GivenInputs DEF StreamInv
<1>3. PICK s : s = inputs[1]
  OBVIOUS
<1>4. /\ s.rows \in Seq(Range(s.rows)) /\ Len(s.rows) \in Nat /\ DOMAIN s.rows = 1 .. Len(s.rows)
      /\ s.header \in Seq(Range(s.header)) /\ Len(s.header) \in Nat /\ DOMAIN s.header = 1 .. Len(s.header)
      /\ \A k \in DOMAIN s.rows : s.rows[k] \in [DOMAIN s.header -> Seq(Int)]
  BY <1>1, <1>2, <1>3, GivenInputs
<1>5. AllRows = s.rows /\ Header = s.header /\ Rows = s.rows
  BY <1>2, <1>3 DEF AllRows, Header, Rows
<1> QED BY <1>2, <1>4, <1>5 DEF StreamInv

LEMMA GivenColumns ==
    ASSUME \E i \in Invocations : job \in i.jobs /\ inputs \in i.inputs,
           job.tool \in {"cut", "uniq", "grep", "sort"} \cup Functions
    PROVE  /\ Len(job.columns) \in Nat /\ DOMAIN Chosen = 1 .. Len(job.columns)
           /\ Chosen = [i \in 1 .. Len(job.columns) |-> Chosen[i]] /\ Len(Chosen) = Len(job.columns)
<1>1. job.columns \in Seq(Range(job.columns))
  BY RowStreamsAssumption DEF Functions
<1> HIDE DEF Functions
<1>2. Len(job.columns) \in Nat /\ DOMAIN job.columns = 1 .. Len(job.columns)
  BY <1>1
<1> QED BY <1>2 DEF Chosen

\* The columns that are found are those of the header.
LEMMA GivenSelection ==
    ASSUME StreamInv, job.tool \in {"cut", "uniq", "grep", "sort"} \cup Functions, ~TableMissing, ~ColumnMissing
    PROVE  /\ Chosen \in Seq(DOMAIN Header)
           /\ job.table # NoTable => TableAt \in DOMAIN Header
           /\ Others \in Seq(DOMAIN Header)
           /\ Selection \in Seq(DOMAIN Header)
           /\ Selection = (IF job.table = NoTable THEN <<>> ELSE <<TableAt>>) \o Chosen \o Others
<1>1. Len(Header) \in Nat /\ DOMAIN Header = 1 .. Len(Header)
  BY GivenStream DEF SeveralInputs, Functions
<1>2. /\ Len(job.columns) \in Nat /\ DOMAIN Chosen = 1 .. Len(job.columns)
      /\ Chosen = [i \in 1 .. Len(job.columns) |-> Chosen[i]]
  BY GivenColumns DEF StreamInv
<1>3. \A i \in 1 .. Len(job.columns) : Chosen[i] \in DOMAIN Header
  <2> TAKE i \in 1 .. Len(job.columns)
  <2>1. Chosen[i] = Find(Header, job.table, job.columns[i]) /\ Chosen[i] # 0
    BY <1>2 DEF ColumnMissing, Range, Chosen
  <2> QED BY <1>1, <2>1, FoundInside
<1>4. Chosen \in Seq(DOMAIN Header)
  BY <1>2, <1>3
<1>5. job.table # NoTable => TableAt \in DOMAIN Header
  BY <1>1, FoundInside DEF TableMissing, TableAt
<1>6. Others \in Seq(DOMAIN Header)
  <2>1. CASE job.table = NoTable
    BY <2>1 DEF Others
  <2>2. CASE job.table # NoTable
    <3>1. \A p : Those(Indices, p) \in Seq(DOMAIN Header)
      BY <1>1, ThoseIndices
    <3> QED BY <2>2, <3>1 DEF Others
  <2> QED BY <2>1, <2>2
<1>7. (IF job.table = NoTable THEN <<>> ELSE <<TableAt>>) \in Seq(DOMAIN Header)
  <2>1. CASE job.table = NoTable
    BY <2>1
  <2>2. CASE job.table # NoTable
    BY <1>5, <2>2
  <2> QED BY <2>1, <2>2
<1>8. Selection = (IF job.table = NoTable THEN <<>> ELSE <<TableAt>>) \o Chosen \o Others
  BY DEF Selection
<1>9. ASSUME NEW S, NEW a \in Seq(S), NEW b \in Seq(S), NEW c \in Seq(S) PROVE a \o b \o c \in Seq(S)
  OBVIOUS
<1> HIDE DEF Functions
<1> QED BY <1>4, <1>5, <1>6, <1>7, <1>8, <1>9

\* What depends on the command line and the input alone stays as it is.
LEMMA TermsStay ==
    ASSUME UNCHANGED <<job, inputs>>
    PROVE  /\ Header' = Header /\ AllRows' = AllRows /\ Chosen' = Chosen /\ TableAt' = TableAt
           /\ Indices' = Indices /\ Others' = Others /\ Selection' = Selection
           /\ \A r : OfOtherTable(r)' <=> OfOtherTable(r)
<1>1. Header' = Header /\ AllRows' = AllRows /\ Chosen' = Chosen /\ TableAt' = TableAt /\ Indices' = Indices
  BY DEF Header, AllRows, Chosen, TableAt, Indices
<1>2. Others' = Others
  BY <1>1 DEF Others
<1>3. Selection' = Selection
  BY <1>1, <1>2 DEF Selection
<1>4. \A r : OfOtherTable(r)' <=> OfOtherTable(r)
  BY <1>1 DEF OfOtherTable
<1> QED BY <1>1, <1>2, <1>3, <1>4

-----------------------------------------------------------------------------
(* The types of expressions *)

\* The value on the stack after the first n tokens of an expression has the type
\* of the last of them that tells one, or is a float of arithmetic on an integer.
TypedAs(expression, n, value) ==
    \E k \in Telling(expression) :
        /\ k <= n /\ \A j \in Telling(expression) : j <= n => j <= k
        /\ \/ value.type = TokenType(expression[k])
           \/ /\ value.type = "float" /\ TokenType(expression[k]) = "int"
              /\ n \notin Telling(expression)

\* What the tools have in hand while they evaluate, and where they aborted
Typing ==
    /\ mem.todo = job.expressions /\ mem.exp \in DOMAIN job.expressions
    /\ mem.at \in 1 .. Len(Expression) + 1
    /\ mem.stack \in Seq(Range(mem.stack))
    /\ mem.stack # <<>> => TypedAs(Expression, mem.at - 1, Last(mem.stack))
    /\ \A i \in DOMAIN job.expressions : Told(i) \in ExpressionTypes(job.expressions[i])
    /\ pc = "aborted" => ReadsArray \/ Misled

TypesInv ==
    /\ \E i \in Invocations : job \in i.jobs /\ inputs \in i.inputs
    /\ job.tool \in RpnToolNames => (pc \notin {"read", "aborted"} /\ mem = None) \/ Typing

-----------------------------------------------------------------------------
(* What the operators give *)

\* Which values the constructors make
LEMMA ValueTypes ==
    /\ \A n : Llong(n).type = "int"
    /\ \A f : Double(f).type = "float"
    /\ \A text : Pchar(text).type = "string"
    /\ \A v : IsValue(v) <=> v.type \in AnyType
    /\ ~IsValue(Failed) /\ ~IsValue(Crashed) /\ ~IsValue(Endless) /\ ~IsValue(Aborted)
BY DEF Llong, Double, Pchar, Failed, Crashed, Endless, Aborted, IsValue, AnyType, Numeric

\* A conversion gives the type asked for, or fails.
LEMMA ConvertedType ==
    ASSUME NEW v, NEW type \in AnyType, v.type \in AnyType, IsValue(Converted(v, type))
    PROVE  Converted(v, type).type = type
<1>1. CASE type = v.type
  BY <1>1 DEF Converted
<1>2. CASE type # v.type /\ type = "string"
  <2>1. Converted(v, type) = Pchar(TextOf(v))
    BY <1>2 DEF Converted
  <2> QED BY <1>2, <2>1, ValueTypes
<1>3. CASE type # v.type /\ type = "int"
  <2>1. Converted(v, type) = IF v.type = "float" THEN Llong(Truncated(v.value)) ELSE ReadInt(v.value, 0)
    BY <1>3 DEF Converted
  <2>2. ReadInt(v.value, 0) = Failed \/ \E n : ReadInt(v.value, 0) = Llong(n)
    BY DEF ReadInt
  <2> QED BY <1>3, <2>1, <2>2, ValueTypes
<1>4. CASE type # v.type /\ type = "float"
  <2>1. Converted(v, type) = IF v.type = "int" THEN Double(<<v.value, 1>>) ELSE ReadFloat(v.value)
    BY <1>4 DEF Converted
  <2>2. ReadFloat(v.value) = Failed \/ \E f : ReadFloat(v.value) = Double(f)
    BY DEF ReadFloat
  <2> QED BY <1>4, <2>1, <2>2, ValueTypes
<1> QED BY <1>1, <1>2, <1>3, <1>4 DEF AnyType, Numeric

\* What arithmetic accepts, and what it gives: an integer for two integers
LEMMA ArithmeticType ==
    ASSUME NEW op \in Arithmetic, NEW args, Accepts(op, args), IsValue(Applied(op, args))
    PROVE  /\ DOMAIN args = 1 .. 2 /\ args[1].type \in Numeric /\ args[2].type \in Numeric
           /\ Applied(op, args).type =
                IF args[1].type = "int" /\ args[2].type = "int" THEN "int" ELSE "float"
<1>1. Signature(op) = Numeric \X Numeric
  BY DEF Signature, Arithmetic, Bitwise2, Logic2, Comparisons
<1>2. [i \in DOMAIN args |-> args[i].type] \in Numeric \X Numeric
  BY <1>1 DEF Accepts
<1>3. DOMAIN args = 1 .. 2 /\ args[1].type \in Numeric /\ args[2].type \in Numeric
  <2> DEFINE types == [i \in DOMAIN args |-> args[i].type]
  <2>1. DOMAIN types = DOMAIN args /\ \A i \in DOMAIN args : types[i] = args[i].type
    OBVIOUS
  <2>2. types \in Numeric \X Numeric
    BY <1>2
  <2> HIDE DEF types
  <2>3. DOMAIN types = 1 .. 2 /\ types[1] \in Numeric /\ types[2] \in Numeric
    BY <2>2
  <2> QED BY <2>1, <2>3
<1>4. Applied(op, args) = Computed(op, args)
  BY DEF Applied, Arithmetic, Bitwise2, Logic2, Comparisons
<1>5. CASE args[1].type = "int" /\ args[2].type = "int"
  <2>1. PICK x, y : Computed(op, args) = IntArithmetic(op, x, y)
    BY <1>5 DEF Computed
  <2>2. IntArithmetic(op, x, y) = Crashed \/ \E n : IntArithmetic(op, x, y) = Llong(n)
    BY DEF IntArithmetic, Arithmetic
  <2> QED BY <1>3, <1>4, <1>5, <2>1, <2>2, ValueTypes
<1>6. CASE ~(args[1].type = "int" /\ args[2].type = "int")
  <2>1. PICK f, g : Computed(op, args) = FloatArithmetic(op, f, g)
    BY <1>6 DEF Computed
  <2>2. \E h : FloatArithmetic(op, f, g) = Double(h)
    BY DEF FloatArithmetic, Arithmetic
  <2> QED BY <1>3, <1>4, <1>6, <2>1, <2>2, ValueTypes
<1> QED BY <1>5, <1>6

\* Of `if`, both values have the type of the result.
LEMMA ConditionalType ==
    ASSUME NEW args, Accepts("IF", args)
    PROVE  DOMAIN args = 1 .. 3 /\ Applied("IF", args).type = args[3].type
<1> DEFINE types == [i \in DOMAIN args |-> args[i].type]
<1>1. Signature("IF") = {<<"int", t, t>> : t \in AnyType}
  BY DEF Signature, Arithmetic, Bitwise2, Logic2, Comparisons
<1>2. PICK t \in AnyType : types = <<"int", t, t>>
  BY <1>1 DEF Accepts
<1>3. DOMAIN types = DOMAIN args /\ \A i \in DOMAIN args : types[i] = args[i].type
  OBVIOUS
<1> HIDE DEF types
<1>4. DOMAIN types = 1 .. 3 /\ types[2] = t /\ types[3] = t
  BY <1>2
<1>5. args[2].type = t /\ args[3].type = t /\ DOMAIN args = 1 .. 3
  BY <1>3, <1>4
<1>6. Applied("IF", args) = args[2] \/ Applied("IF", args) = args[3]
  <2> DEFINE arg == [i \in DOMAIN args |-> args[i].value]
  <2>1. Applied("IF", args) = IF arg[1] # 0 THEN args[2] ELSE args[3]
    BY DEF Applied, Arithmetic, Bitwise2, Logic2, Comparisons
  <2> QED BY <2>1
<1> QED BY <1>5, <1>6

\* Any other operator gives what its name tells, or nothing.
LEMMA OperatorResult ==
    ASSUME NEW op \in Operators, op \notin Deferring \cup Regular \cup {"NEXT"},
           NEW args, Accepts(op, args), IsValue(Applied(op, args))
    PROVE  Applied(op, args).type = OperatorType(op)
<1> DEFINE arg == [i \in DOMAIN args |-> args[i].value]
<1>1. \/ op \in Bitwise2 \/ op = "BIT_NEG" \/ op \in Logic2 \/ op = "LOGIC_NOT" \/ op \in Comparisons
      \/ op \in {"SUBSTR", "STRLEN", "CONCAT", "INT2STRB", "STRB2INT", "REPLACE"}
      \/ op \in {"TOSTRING", "TOINT", "TOFLOAT", "INT2STR", "INT2FLT", "STR2INT", "STR2FLT", "FLT2INT", "FLT2STR"}
  BY DEF Operators, Deferring
<1>2. CASE op \in Bitwise2
  <2>1. PICK x, y : Applied(op, args) = BitOperation(op, x, y)
    BY <1>2 DEF Applied, Arithmetic, Bitwise2, Logic2, Comparisons
  <2>2. \E n : BitOperation(op, x, y) = Llong(n)
    BY <1>2 DEF BitOperation, Bitwise2, OfBits
  <2>3. OperatorType(op) = "int"
    BY <1>2 DEF OperatorType, Bitwise2
  <2> QED BY Zenon, <2>1, <2>2, <2>3, ValueTypes
<1>3. CASE op \in Logic2
  <2>1. PICK p, q : Applied(op, args) = LogicOperation(op, p, q)
    BY <1>3 DEF Applied, Arithmetic, Bitwise2, Logic2, Comparisons
  <2>2. \E n : LogicOperation(op, p, q) = Llong(n)
    BY <1>3 DEF LogicOperation, Logic2, Truth
  <2>3. OperatorType(op) = "int"
    BY <1>3 DEF OperatorType, Logic2
  <2> QED BY <2>1, <2>2, <2>3, ValueTypes
<1>4. CASE op \in Comparisons
  <2>1. Applied(op, args) = Comparison(op, args[1], args[2])
    BY <1>4 DEF Applied, Arithmetic, Bitwise2, Logic2, Comparisons
  <2>2. \E n : Comparison(op, args[1], args[2]) = Llong(n)
    BY DEF Comparison, Truth
  <2>3. OperatorType(op) = "int"
    BY <1>4 DEF OperatorType, Comparisons
  <2> QED BY <2>1, <2>2, <2>3, ValueTypes
<1>5. CASE op \in {"BIT_NEG", "LOGIC_NOT", "STRLEN"}
  <2>1. \/ Applied(op, args) = OfBits(Bits \ BitsOf(arg[1]))
        \/ Applied(op, args) = Truth(arg[1] = 0)
        \/ Applied(op, args) = Llong(Len(arg[1]))
    BY <1>5 DEF Applied, Arithmetic, Bitwise2, Logic2, Comparisons
  <2>2. \E n : Applied(op, args) = Llong(n)
    BY <2>1 DEF OfBits, Truth
  <2>3. OperatorType(op) = "int"
    BY <1>5 DEF OperatorType
  <2> QED BY <2>2, <2>3, ValueTypes
<1>6. CASE op \in {"SUBSTR", "CONCAT", "INT2STRB"}
  <2>1. \E text : Applied(op, args) = Pchar(text)
    BY <1>6 DEF Applied, Arithmetic, Bitwise2, Logic2, Comparisons
  <2>2. OperatorType(op) = "string"
    BY <1>6 DEF OperatorType
  <2> QED BY Zenon, <2>1, <2>2, ValueTypes
<1>7. CASE op = "STRB2INT"
  <2>1. Applied(op, args) = ReadInt(arg[1], arg[2])
    BY <1>7 DEF Applied, Arithmetic, Bitwise2, Logic2, Comparisons
  <2>2. ReadInt(arg[1], arg[2]) = Failed \/ \E n : ReadInt(arg[1], arg[2]) = Llong(n)
    BY DEF ReadInt
  <2>3. OperatorType(op) = "int"
    BY <1>7 DEF OperatorType
  <2> QED BY <2>1, <2>2, <2>3, ValueTypes
<1>8. CASE op = "REPLACE"
  <2>1. PICK a, b, c, d : Applied(op, args) = Replaced(a, b, c, d)
    BY <1>8 DEF Applied, Arithmetic, Bitwise2, Logic2, Comparisons
  <2>2. \/ Replaced(a, b, c, d) \in {Endless, Failed}
        \/ \E text : Replaced(a, b, c, d) = Pchar(text)
    BY DEF Replaced
  <2>3. OperatorType(op) = "string"
    BY <1>8 DEF OperatorType
  <2> QED BY <2>1, <2>2, <2>3, ValueTypes
<1>9. CASE op \in {"TOSTRING", "TOINT", "TOFLOAT", "INT2STR", "INT2FLT", "STR2INT", "STR2FLT", "FLT2INT", "FLT2STR"}
  <2>1. Applied(op, args) = Converted(args[1], Target(op))
    BY <1>9 DEF Applied, Arithmetic, Bitwise2, Logic2, Comparisons
  <2>2. Target(op) = OperatorType(op) /\ Target(op) \in AnyType
    BY <1>9 DEF Target, OperatorType, AnyType, Numeric
  <2>3. args[1].type \in AnyType
    <3> DEFINE types == [i \in DOMAIN args |-> args[i].type]
    <3>1. DOMAIN types = DOMAIN args /\ \A i \in DOMAIN args : types[i] = args[i].type
      OBVIOUS
    <3>2. Signature(op) \subseteq {<<t>> : t \in AnyType}
      BY <1>9 DEF Signature, Arithmetic, Bitwise2, Logic2, Comparisons, AnyType, Numeric
    <3>3. PICK t \in AnyType : types = <<t>>
      BY <3>2 DEF Accepts
    <3> HIDE DEF types
    <3>4. 1 \in DOMAIN types /\ types[1] = t
      BY <3>3
    <3> QED BY <3>1, <3>4
  <2> QED BY Zenon, <2>1, <2>2, <2>3, ConvertedType
<1> QED BY <1>1, <1>2, <1>3, <1>4, <1>5, <1>6, <1>7, <1>8, <1>9

\* So do those with regular expressions, whatever these match.
LEMMA RegularResult ==
    ASSUME NEW op \in Regular, NEW args, Accepts(op, args), NEW comp,
           NEW result \in Matched(op, args, comp), IsValue(result)
    PROVE  result.type = OperatorType(op)
<1>1. CASE comp = BadRegex
  <2>1. result = Failed
    BY <1>1 DEF Matched
  <2> QED BY <2>1, ValueTypes
<1>2. CASE comp # BadRegex /\ op \notin {"REPLACE_BRE", "REPLACE_ERE"}
  <2>1. \E n : result = Llong(n)
    BY <1>2 DEF Matched, Truth
  <2>2. OperatorType(op) = "int"
    BY <1>2 DEF OperatorType, Regular
  <2> QED BY <2>1, <2>2, ValueTypes
<1>3. CASE comp # BadRegex /\ op \in {"REPLACE_BRE", "REPLACE_ERE"}
  <2>1. args[1].type = "string"
    <3> DEFINE types == [i \in DOMAIN args |-> args[i].type]
    <3>1. DOMAIN types = DOMAIN args /\ \A i \in DOMAIN args : types[i] = args[i].type
      OBVIOUS
    <3>2. Signature(op) = {<<"string", "string", "string", "int">>}
      BY <1>3 DEF Signature, Arithmetic, Bitwise2, Logic2, Comparisons
    <3>3. types = <<"string", "string", "string", "int">>
      BY <3>2 DEF Accepts
    <3> HIDE DEF types
    <3>4. 1 \in DOMAIN types /\ types[1] = "string"
      BY <3>3
    <3> QED BY <3>1, <3>4
  <2>2. ASSUME NEW replacement, NEW group, IsValue(Expanded(replacement, group))
        PROVE  Expanded(replacement, group).type = "string"
    <3>1. PICK v, w : Expanded(replacement, group) = Behind(v, w)
      BY DEF Expanded
    <3>2. ~IsValue(Behind(v, w)) \/ \E text : Behind(v, w) = Pchar(text)
      BY DEF Behind
    <3> QED BY <2>2, <3>1, <3>2, ValueTypes
  <2>3. result = args[1] \/ \E replacement, group : result = Expanded(replacement, group)
    BY <1>3 DEF Matched
  <2>4. OperatorType(op) = "string"
    BY <1>3 DEF OperatorType
  <2> QED BY <2>1, <2>2, <2>3, <2>4, ValueTypes
<1> QED BY <1>1, <1>2, <1>3

-----------------------------------------------------------------------------
(* Tokens and what is on the stack *)

\* The field of a column has the type of the column.
LEMMA FieldType ==
    ASSUME NEW row, NEW token, IsValue(FieldValue(row, token))
    PROVE  FieldValue(row, token).type = Header[ColumnOf(token)].type
<1> DEFINE type == Header[ColumnOf(token)].type
           text == row[ColumnOf(token)]
<1>1. type \in AnyType /\ FieldValue(row, token) = Converted(Pchar(text), type)
  BY ValueTypes DEF FieldValue
<1>2. Pchar(text).type \in AnyType
  BY ValueTypes DEF AnyType
<1> QED BY <1>1, <1>2, ConvertedType

\* The tokens and what they tell do not change.
LEMMA TypesKept ==
    ASSUME UNCHANGED given
    PROVE  /\ \A token : TokenType(token)' = TokenType(token)
           /\ \A e : ExpressionTypes(e)' = ExpressionTypes(e)
           /\ \A e, n, v : TypedAs(e, n, v)' <=> TypedAs(e, n, v)
<1>1. \A token : TokenType(token)' = TokenType(token)
  BY DEF given, TokenType, ColumnOf, Header
<1>2. \A e : ExpressionTypes(e)' = ExpressionTypes(e)
  BY <1>1 DEF ExpressionTypes
<1>3. \A e, n, v : TypedAs(e, n, v)' <=> TypedAs(e, n, v)
  BY <1>1 DEF TypedAs
<1> QED BY <1>1, <1>2, <1>3

\* What the tools are given
LEMMA RpnGiven ==
    ASSUME TypesInv, job.tool \in RpnToolNames
    PROVE  /\ Header \in Seq(Range(Header)) /\ Len(Header) \in Nat
           /\ job.expressions \in Seq(Range(job.expressions)) /\ Len(job.expressions) \in Nat \ {0}
           /\ \A i \in DOMAIN job.expressions :
                 LET e == job.expressions[i] IN
                 /\ e \in Seq(Range(e)) /\ Len(e) \in Nat /\ DOMAIN e = 1 .. Len(e)
                 /\ \A k \in DOMAIN e :
                       /\ e[k].kind \in {"constant", "column", "operator", "unknown"}
                       /\ IsOperator(e[k]) => e[k].operator \in Operators
<1>1. PICK i \in Invocations : job \in i.jobs /\ inputs \in i.inputs
  BY DEF TypesInv
<1>2. Header \in Seq(Range(Header))
  BY <1>1, RowStreamsAssumption DEF Header
<1>3. /\ job.expressions \in Seq(Range(job.expressions)) /\ job.expressions # <<>>
      /\ \A e \in Range(job.expressions) :
            /\ e \in Seq(Range(e))
            /\ \A token \in Range(e) :
                  /\ token.kind \in {"constant", "column", "operator", "unknown"}
                  /\ IsOperator(token) => token.operator \in Operators
  BY <1>1, RpnAssumption
<1>4. PICK es : es = job.expressions
  OBVIOUS
<1>5. Len(es) \in Nat \ {0} /\ DOMAIN es = 1 .. Len(es)
  BY <1>3, <1>4, EmptySeq
<1>6. ASSUME NEW k \in DOMAIN es
      PROVE  /\ es[k] \in Seq(Range(es[k])) /\ Len(es[k]) \in Nat /\ DOMAIN es[k] = 1 .. Len(es[k])
             /\ \A l \in DOMAIN es[k] :
                   /\ es[k][l].kind \in {"constant", "column", "operator", "unknown"}
                   /\ IsOperator(es[k][l]) => es[k][l].operator \in Operators
  <2>1. es[k] \in Range(es)
    BY DEF Range
  <2>2. es[k] \in Seq(Range(es[k]))
    BY <1>3, <1>4, <2>1
  <2>3. \A l \in DOMAIN es[k] : es[k][l] \in Range(es[k])
    BY DEF Range
  <2> QED BY <1>3, <1>4, <2>1, <2>2, <2>3
<1> QED BY <1>2, <1>3, <1>4, <1>5, <1>6

\* The last token that tells a type is the one whose type is taken.
LEMMA ToldByLast ==
    ASSUME NEW e, DOMAIN e \subseteq Nat, NEW k \in Telling(e), \A j \in Telling(e) : j <= k
    PROVE  ExpressionTypes(e) = {TokenType(e[k])}
<1>1. Telling(e) \subseteq Nat
  BY DEF Telling
<1>2. Max(Telling(e)) = k
  BY <1>1 DEF Max
<1> QED BY <1>2 DEF ExpressionTypes

\* A token that tells a type leaves a value of this type.
LEMMA TellingToken ==
    ASSUME NEW e, DOMAIN e \subseteq Nat, NEW n \in Telling(e), NEW v, v.type = TokenType(e[n])
    PROVE  TypedAs(e, n, v)
BY DEF TypedAs, Telling

\* A token that tells none leaves a value of the type of the one before, or turns an
\* integer into a float.
LEMMA DeferringToken ==
    ASSUME NEW e, DOMAIN e \subseteq Nat, NEW n \in DOMAIN e, n \notin Telling(e),
           NEW u, TypedAs(e, n - 1, u), NEW v, v.type = u.type \/ (v.type = "float" /\ u.type = "int")
    PROVE  TypedAs(e, n, v)
<1>1. PICK k \in Telling(e) :
         /\ k <= n - 1 /\ \A j \in Telling(e) : j <= n - 1 => j <= k
         /\ u.type = TokenType(e[k]) \/ (u.type = "float" /\ TokenType(e[k]) = "int")
  BY DEF TypedAs
<1>2. Telling(e) \subseteq Nat /\ n \in Nat
  BY DEF Telling
<1>3. k <= n /\ \A j \in Telling(e) : j <= n => j <= k
  <2> SUFFICES ASSUME NEW j \in Telling(e), j <= n PROVE j <= k /\ k <= n
    BY <1>1, <1>2
  <2>1. j # n /\ j \in Nat /\ k \in Nat
    BY <1>2
  <2> QED BY <1>1, <1>2, <2>1
<1>4. v.type = TokenType(e[k]) \/ (v.type = "float" /\ TokenType(e[k]) = "int")
  BY <1>1
<1> QED BY <1>3, <1>4 DEF TypedAs

\* How many operands the operators take
LEMMA Arities ==
    /\ \A op \in Operators : Arity(op) \in Nat
    /\ \A op \in Arithmetic : Arity(op) = 2
    /\ Arity("IF") = 3
<1>1. ASSUME NEW op \in Arithmetic PROVE Arity(op) = 2
  <2>1. Signature(op) = Numeric \X Numeric
    BY DEF Signature, Arithmetic, Bitwise2, Logic2, Comparisons
  <2>2. \A t \in Numeric \X Numeric : Len(t) = 2
    OBVIOUS
  <2>3. <<"int", "int">> \in Numeric \X Numeric
    BY DEF Numeric
  <2> QED BY <2>1, <2>2, <2>3 DEF Arity
<1>2. Arity("IF") = 3
  <2>1. Signature("IF") = {<<"int", t, t>> : t \in AnyType}
    BY DEF Signature, Arithmetic, Bitwise2, Logic2, Comparisons
  <2>2. "int" \in AnyType
    BY DEF AnyType, Numeric
  <2>3. \A types \in {<<"int", t, t>> : t \in AnyType} : Len(types) = 3
    OBVIOUS
  <2> QED BY <2>1, <2>2, <2>3 DEF Arity
<1>3. ASSUME NEW op \in Operators, op \notin Arithmetic \cup {"IF"} PROVE Arity(op) \in Nat
  <2>1. /\ \A a : Len(<<a>>) = 1
        /\ \A a, b : Len(<<a, b>>) = 2
        /\ \A a, b, c : Len(<<a, b, c>>) = 3
        /\ \A a, b, c, d : Len(<<a, b, c, d>>) = 4
        /\ \A types \in Numeric \X Numeric : Len(types) = 2
    OBVIOUS
  <2>2. "int" \in AnyType
    BY DEF AnyType, Numeric
  <2>3. PICK S : S = Signature(op)
    OBVIOUS
  <2>4. S # {} /\ \A types \in S : Len(types) \in Nat
    <3>1. CASE op \in Bitwise2 \cup Logic2 \cup {"INT2STRB"}
      <4>1. S = {<<"int", "int">>}
        BY <2>3, <3>1 DEF Signature, Arithmetic, Bitwise2, Logic2, Comparisons
      <4> QED BY <4>1, <2>1
    <3>2. CASE op \in {"BIT_NEG", "LOGIC_NOT", "INT2STR", "INT2FLT"}
      <4>1. S = {<<"int">>}
        BY <2>3, <3>2 DEF Signature, Arithmetic, Bitwise2, Logic2, Comparisons
      <4> QED BY <4>1, <2>1
    <3>3. CASE op \in {"FLT2INT", "FLT2STR"}
      <4>1. S = {<<"float">>}
        BY <2>3, <3>3 DEF Signature, Arithmetic, Bitwise2, Logic2, Comparisons
      <4> QED BY <4>1, <2>1
    <3>4. CASE op \in {"STRLEN", "STR2INT", "STR2FLT", "NEXT"}
      <4>1. S = {<<"string">>}
        BY <2>3, <3>4 DEF Signature, Arithmetic, Bitwise2, Logic2, Comparisons
      <4> QED BY <4>1, <2>1
    <3>5. CASE op \in {"TOFLOAT", "TOINT", "TOSTRING"}
      <4>1. S = {<<t>> : t \in AnyType}
        BY <2>3, <3>5 DEF Signature, Arithmetic, Bitwise2, Logic2, Comparisons
      <4>2. <<"int">> \in S
        BY <4>1, <2>2
      <4>3. ASSUME NEW types \in S PROVE Len(types) = 1
        <5>1. PICK t : types = <<t>>
          BY <4>1
        <5> QED BY <5>1, <2>1
      <4> QED BY <4>2, <4>3
    <3>6. CASE op \in Comparisons
      <4>1. S = (Numeric \X Numeric) \cup {<<"string", "string">>}
        BY <2>3, <3>6 DEF Signature, Arithmetic, Bitwise2, Logic2, Comparisons
      <4>2. <<"string", "string">> \in S
        BY <4>1
      <4>3. \A types \in S : Len(types) = 2
        BY <4>1, <2>1
      <4> QED BY <4>2, <4>3
    <3>7. CASE op \in {"CONCAT", "LIKE"}
      <4>1. S = {<<"string", "string">>}
        BY <2>3, <3>7 DEF Signature, Arithmetic, Bitwise2, Logic2, Comparisons
      <4> QED BY <4>1, <2>1
    <3>8. CASE op = "STRB2INT"
      <4>1. S = {<<"string", "int">>}
        BY <2>3, <3>8 DEF Signature, Arithmetic, Bitwise2, Logic2, Comparisons
      <4> QED BY <4>1, <2>1
    <3>9. CASE op = "SUBSTR"
      <4>1. S = {<<"string", "int", "int">>}
        BY <2>3, <3>9 DEF Signature, Arithmetic, Bitwise2, Logic2, Comparisons
      <4> QED BY <4>1, <2>1
    <3>10. CASE op \in {"MATCHES_BRE", "MATCHES_ERE"}
      <4>1. S = {<<"string", "string", "int">>}
        BY <2>3, <3>10 DEF Signature, Arithmetic, Bitwise2, Logic2, Comparisons
      <4> QED BY <4>1, <2>1
    <3>11. CASE op \in {"REPLACE", "REPLACE_BRE", "REPLACE_ERE"}
      <4>1. S = {<<"string", "string", "string", "int">>}
        BY <2>3, <3>11 DEF Signature, Arithmetic, Bitwise2, Logic2, Comparisons
      <4> QED BY <4>1, <2>1
    <3> QED BY <1>3, <3>1, <3>2, <3>3, <3>4, <3>5, <3>6, <3>7, <3>8, <3>9, <3>10, <3>11 DEF Operators, Regular
  <2>5. (CHOOSE types \in S : TRUE) \in S
    BY <2>4
  <2> QED BY <2>3, <2>4, <2>5 DEF Arity
<1>4. \A op \in Operators : op \in Arithmetic \/ op = "IF" \/ op \notin Arithmetic \cup {"IF"}
  OBVIOUS
<1> QED BY <1>1, <1>2, <1>3, <1>4

-----------------------------------------------------------------------------
(* The steps *)

\* Nothing is evaluated.
LEMMA StaysTyped ==
    ASSUME Typing, UNCHANGED <<given, mem, hdr>>,
           pc' = "aborted" => pc = "aborted" \/ ReadsArray \/ Misled
    PROVE  Typing'
<1>1. /\ mem' = mem /\ job' = job /\ inputs' = inputs /\ hdr' = hdr
      /\ Header' = Header /\ Expression' = Expression /\ Token' = Token /\ Value1' = Value1
      /\ \A i : Told(i)' = Told(i)
  BY DEF given, Header, Expression, Expressions, Token, Value1, Told
<1>2. /\ \A e : ExpressionTypes(e)' = ExpressionTypes(e)
      /\ \A e, n, v : TypedAs(e, n, v)' <=> TypedAs(e, n, v)
  BY TypesKept
<1>3. (ReadsArray \/ Misled) => (ReadsArray \/ Misled)'
  BY <1>1 DEF ReadsArray, ColumnOf, Misled
<1>4. /\ mem'.todo = job'.expressions /\ mem'.exp \in DOMAIN job'.expressions
      /\ mem'.at \in 1 .. Len(Expression') + 1
      /\ mem'.stack \in Seq(Range(mem'.stack))
  BY <1>1 DEF Typing
<1>5. mem'.stack # <<>> => TypedAs(Expression, mem.at - 1, Last(mem.stack))'
  <2>1. mem.stack # <<>> => TypedAs(Expression, mem.at - 1, Last(mem.stack))
    BY DEF Typing
  <2>2. PICK e, n, v : e = Expression /\ n = mem.at - 1 /\ v = Last(mem.stack)
    OBVIOUS
  <2>3. Expression' = e /\ mem'.at - 1 = n /\ Last(mem'.stack) = v
    BY <1>1, <2>2
  <2>4. mem.stack # <<>> => TypedAs(e, n, v)'
    BY Zenon, <1>2, <2>1, <2>2
  <2> QED BY <1>1, <2>3, <2>4 DEF TypedAs
<1>6. \A i \in DOMAIN job'.expressions : (Told(i) \in ExpressionTypes(job.expressions[i]))'
  <2>1. \A i \in DOMAIN job.expressions : Told(i) \in ExpressionTypes(job.expressions[i])
    BY DEF Typing
  <2> QED BY <1>1, <1>2, <2>1 DEF Typing, ExpressionTypes, TokenType
<1>7. pc' = "aborted" => (ReadsArray \/ Misled)'
  BY <1>3 DEF Typing
<1> QED BY <1>4, <1>5, <1>6, <1>7 DEF Typing

\* The expression in hand
LEMMA InHand ==
    ASSUME TypesInv, job.tool \in RpnToolNames, Typing
    PROVE  /\ Expression = job.expressions[mem.exp]
           /\ Expression \in Seq(Range(Expression)) /\ Len(Expression) \in Nat
           /\ DOMAIN Expression = 1 .. Len(Expression) /\ mem.at \in Nat \ {0}
           /\ \A k \in DOMAIN Expression : IsOperator(Expression[k]) => Expression[k].operator \in Operators
           /\ mem.exp \in 1 .. Len(Expressions) /\ Len(Expressions) \in Nat
<1>1. Expression = job.expressions[mem.exp] /\ mem.exp \in DOMAIN job.expressions
      /\ Expressions = job.expressions
  BY DEF Typing, Expression, Expressions
<1>2. mem.at \in 1 .. Len(Expression) + 1
  BY DEF Typing
<1>3. DOMAIN job.expressions = 1 .. Len(job.expressions) /\ Len(job.expressions) \in Nat
  <2>1. PICK es : es = job.expressions
    OBVIOUS
  <2>2. es \in Seq(Range(es))
    BY <2>1, RpnGiven
  <2>3. DOMAIN es = 1 .. Len(es) /\ Len(es) \in Nat
    BY <2>2
  <2> QED BY <2>1, <2>3
<1>4. /\ Expression \in Seq(Range(Expression)) /\ Len(Expression) \in Nat
      /\ DOMAIN Expression = 1 .. Len(Expression)
      /\ \A k \in DOMAIN Expression : IsOperator(Expression[k]) => Expression[k].operator \in Operators
  BY <1>1, RpnGiven
<1> QED BY <1>1, <1>2, <1>3, <1>4

\* What a memory is after a token
LEMMA ExceptParts ==
    ASSUME NEW m, Held(m), NEW stack, NEW at
    PROVE  /\ [m EXCEPT !.stack = stack, !.at = at].stack = stack
           /\ [m EXCEPT !.stack = stack, !.at = at].at = at
           /\ [m EXCEPT !.stack = stack, !.at = at].todo = m.todo
           /\ [m EXCEPT !.stack = stack, !.at = at].exp = m.exp
BY DEF Held

\* The value of the token is on the stack.
LEMMA PushTyped ==
    ASSUME TypesInv, job.tool \in RpnToolNames, Typing, pc = "read", mem.at <= Len(Expression),
           NEW m, Held(m), m.todo = mem.todo, m.exp = mem.exp, m.at = mem.at,
           NEW s, s \in Seq(Range(s)), NEW value, TypedAs(Expression, mem.at, value),
           Step([m EXCEPT !.stack = Append(s, value), !.at = m.at + 1])
    PROVE  Typing'
<1>1. /\ mem'.stack = Append(s, value) /\ mem'.at = mem.at + 1
      /\ mem'.todo = mem.todo /\ mem'.exp = mem.exp
  BY ExceptParts DEF Step
<1>2. UNCHANGED <<given, pc, hdr>>
  BY DEF Step
<1>3. Expression' = Expression /\ job' = job /\ Header' = Header
  BY <1>1, <1>2 DEF Expression, Expressions, given, Header
<1>4. mem'.todo = job'.expressions /\ mem'.exp \in DOMAIN job'.expressions
  BY <1>1, <1>3 DEF Typing
<1>5. mem'.at \in 1 .. Len(Expression') + 1
  BY <1>1, <1>3, InHand
<1>6. mem'.stack \in Seq(Range(mem'.stack)) /\ Last(mem'.stack) = value
  BY <1>1, AppendStack
<1>7. TypedAs(Expression, mem.at - 1, Last(mem.stack))'
  <2>1. PICK e, n : e = Expression /\ n = mem.at
    OBVIOUS
  <2>2. Expression' = e /\ mem'.at - 1 = n
    BY <1>1, <1>3, <2>1, InHand
  <2>3. TypedAs(e, n, value)'
    BY Zenon, <1>2, <2>1, TypesKept
  <2> QED BY <1>6, <2>2, <2>3 DEF TypedAs
<1>8. \A i \in DOMAIN job'.expressions : (Told(i) \in ExpressionTypes(job.expressions[i]))'
  BY Zenon, <1>2, <1>3, TypesKept DEF Typing, Told, ExpressionTypes, TokenType
<1>9. pc' # "aborted"
  BY <1>2
<1> QED BY <1>4, <1>5, <1>6, <1>7, <1>8, <1>9 DEF Typing

\* The operands an operator is ready for are the values on the top of the stack.
LEMMA StackTop ==
    ASSUME mem.stack \in Seq(Range(mem.stack)), Arity(Token.operator) \in Nat, Ready
    PROVE  /\ Beneath \in Seq(Range(Beneath))
           /\ Arity(Token.operator) # 0 =>
                 mem.stack # <<>> /\ Operands[Arity(Token.operator)] = Last(mem.stack)
<1> DEFINE s == mem.stack
           n == Arity(Token.operator)
<1>1. Len(s) \in Nat /\ n \in 0 .. Len(s)
  BY DEF Ready
<1>2. Beneath = [i \in 1 .. Len(s) - n |-> s[i]]
  BY <1>1 DEF Beneath
<1>3. Beneath \in Seq(Range(Beneath))
  <2> DEFINE below == [i \in 1 .. Len(s) - n |-> s[i]]
  <2>1. \A i \in 1 .. Len(s) - n : below[i] \in Range(below)
    BY DEF Range
  <2>2. below = [i \in 1 .. Len(s) - n |-> below[i]] /\ Len(s) - n \in Nat
    BY <1>1
  <2> HIDE DEF below
  <2>3. below \in Seq(Range(below))
    BY <2>1, <2>2
  <2> QED BY <1>2, <2>3 DEF below
<1>4. CASE n # 0
  <2>1. s # <<>>
    BY <1>1, <1>4
  <2>2. Operands[n] = s[Len(s) - n + 1 + n - 1]
    BY <1>1, <1>4 DEF Operands
  <2> QED BY <1>1, <1>3, <2>1, <2>2 DEF Last
<1> QED BY <1>3, <1>4

\* What becomes of a result of the right type
LEMMA TakeTyped ==
    ASSUME TypesInv, job.tool \in RpnToolNames, Typing, pc = "read", mem.at <= Len(Expression),
           NEW m, Held(m), m.todo = mem.todo, m.exp = mem.exp, m.at = mem.at,
           Beneath \in Seq(Range(Beneath)),
           NEW result, IsValue(result) => TypedAs(Expression, mem.at, result), Take(result, m)
    PROVE  Typing'
<1>1. CASE IsValue(result) /\ Step([m EXCEPT !.stack = Append(Beneath, result), !.at = m.at + 1])
  BY <1>1, PushTyped
<1>2. CASE Fail \/ Die("crashed") \/ Die("hung")
  <2>1. UNCHANGED <<given, mem, hdr>> /\ pc' # "aborted"
    BY <1>2 DEF Fail, Exit, Die
  <2> QED BY <2>1, StaysTyped
<1> QED BY <1>1, <1>2 DEF Take

\* A constant or a column
LEMMA LeafTyped ==
    ASSUME CacheInv, TypesInv, job.tool \in RpnToolNames, Typing, PushConstant \/ PushColumn
    PROVE  Typing'
<1>1. pc = "read" /\ Held(mem)
  BY DEF CacheInv, Evaluators, PushConstant, PushColumn, AtToken, Evaluating, Reading, AtEnd
<1>2. mem.at <= Len(Expression) /\ Token.kind \in {"constant", "column"} /\ Token = Expression[mem.at]
  BY DEF PushConstant, PushColumn, AtToken, Token
<1>3. mem.at \in Telling(Expression)
  BY <1>2, InHand DEF Telling, IsOperator
<1>4. ASSUME NEW value, value.type = TokenType(Token), Step(Push(mem.stack, value))
      PROVE  Typing'
  <2>1. TypedAs(Expression, mem.at, value)
    BY <1>2, <1>3, <1>4, InHand, TellingToken
  <2>2. Step([mem EXCEPT !.stack = Append(mem.stack, value), !.at = mem.at + 1])
    BY <1>4 DEF Push
  <2>3. mem.stack \in Seq(Range(mem.stack))
    BY DEF Typing
  <2> QED BY <1>1, <1>2, <2>1, <2>2, <2>3, PushTyped
<1>5. CASE PushConstant
  <2>1. TokenType(Token) = Token.value.type
    BY <1>5 DEF PushConstant, AtToken, TokenType
  <2> QED BY <1>4, <1>5, <2>1 DEF PushConstant
<1>6. CASE PushColumn
  <2> DEFINE field == FieldValue(Subject, Token)
  <2>1. Token.kind = "column" /\ TokenType(Token) = Header[ColumnOf(Token)].type
    BY <1>6 DEF PushColumn, AtToken, TokenType
  <2>2. CASE IsValue(field) /\ Step(Push(mem.stack, field))
    <3>1. field.type = TokenType(Token)
      BY <2>1, <2>2, FieldType
    <3> QED BY <1>4, <2>2, <3>1
  <2>3. CASE Fail
    <3>1. UNCHANGED <<given, mem, hdr>> /\ pc' # "aborted"
      BY <2>3 DEF Fail, Exit
    <3> QED BY <3>1, StaysTyped
  <2>4. CASE field = Aborted /\ Die("aborted")
    <3>1. Header[ColumnOf(Token)].type \notin AnyType
      <4>1. CASE Header[ColumnOf(Token)].type \in AnyType
        <5> DEFINE text == Subject[ColumnOf(Token)]
                   type == Header[ColumnOf(Token)].type
        <5>1. Converted(Pchar(text), type) = Aborted
          BY <2>4, <4>1 DEF FieldValue
        <5>2. Converted(Pchar(text), type) # Aborted
          BY <4>1 DEF Converted, ReadInt, ReadFloat, Pchar, Llong, Double, Failed, Aborted, AnyType, Numeric
        <5> QED BY <5>1, <5>2
      <4> QED BY <4>1
    <3>2. ReadsArray
      BY <1>2, <2>1, <3>1 DEF ReadsArray
    <3>3. UNCHANGED <<given, mem, hdr>>
      BY <2>4 DEF Die
    <3> QED BY <3>2, <3>3, StaysTyped
  <2> QED BY <1>6, <2>2, <2>3, <2>4 DEF PushColumn
<1> QED BY <1>5, <1>6

\* An operator that does not look at regular expressions or sequences
LEMMA OperateTyped ==
    ASSUME CacheInv, TypesInv, job.tool \in RpnToolNames, Typing, Operate
    PROVE  Typing'
<1> DEFINE op == Token.operator
           result == Applied(op, Operands)
<1>1. pc = "read" /\ Held(mem)
  BY DEF CacheInv, Evaluators, Operate, AtToken, Evaluating, Reading, AtEnd
<1>2. /\ mem.at <= Len(Expression) /\ Token.kind = "operator" /\ Token = Expression[mem.at]
      /\ Ready /\ Accepts(op, Operands) /\ op \notin Regular \cup {"NEXT"} /\ Take(result, mem)
  BY DEF Operate, AtToken, Token, Ready
<1>3. mem.at \in DOMAIN Expression /\ op \in Operators /\ IsOperator(Token) /\ DOMAIN Expression \subseteq Nat
  BY <1>2, InHand DEF IsOperator
<1>4. mem.stack \in Seq(Range(mem.stack)) /\ Arity(op) \in Nat
  BY <1>3, Arities DEF Typing
<1>5. /\ Beneath \in Seq(Range(Beneath))
      /\ Arity(op) # 0 => mem.stack # <<>> /\ Operands[Arity(op)] = Last(mem.stack)
  BY <1>2, <1>4, StackTop
<1>6. TokenType(Token) = OperatorType(op)
  BY <1>2 DEF TokenType
<1>7. IsValue(result) => TypedAs(Expression, mem.at, result)
  <2>1. SUFFICES ASSUME IsValue(result) PROVE TypedAs(Expression, mem.at, result)
    OBVIOUS
  <2>2. CASE op \notin Deferring
    <3>1. result.type = OperatorType(op)
      BY <1>2, <1>3, <2>1, <2>2, OperatorResult
    <3>2. mem.at \in Telling(Expression)
      BY <1>2, <1>3, <2>2 DEF Telling
    <3>3. result.type = TokenType(Expression[mem.at])
      BY <1>2, <1>6, <3>1
    <3> QED BY <1>3, <3>2, <3>3, TellingToken
  <2>3. CASE op \in Deferring
    <3>1. mem.at \notin Telling(Expression)
      BY <1>2, <1>3, <2>3 DEF Telling
    <3>2. Arity(op) # 0 /\ (result.type = Operands[Arity(op)].type
                            \/ (result.type = "float" /\ Operands[Arity(op)].type = "int"))
      <4>1. CASE op \in Arithmetic
        <5>1. Arity(op) = 2
          BY <4>1, Arities
        <5>2. /\ Operands[1].type \in Numeric /\ Operands[2].type \in Numeric
              /\ result.type = IF Operands[1].type = "int" /\ Operands[2].type = "int" THEN "int" ELSE "float"
          BY <1>2, <2>1, <4>1, ArithmeticType
        <5> QED BY <5>1, <5>2 DEF Numeric
      <4>2. CASE op = "IF"
        <5>1. Arity(op) = 3
          BY <4>2, Arities
        <5>2. result.type = Operands[3].type
          BY <1>2, <4>2, ConditionalType
        <5> QED BY <5>1, <5>2
      <4> QED BY <2>3, <4>1, <4>2 DEF Deferring
    <3>3. TypedAs(Expression, mem.at - 1, Last(mem.stack))
      BY <1>5, <3>2 DEF Typing
    <3>4. result.type = Last(mem.stack).type \/ (result.type = "float" /\ Last(mem.stack).type = "int")
      BY <1>5, <3>2
    <3> QED BY <1>3, <3>1, <3>3, <3>4, DeferringToken
  <2> QED BY <2>2, <2>3
<1> QED BY <1>1, <1>2, <1>5, <1>7, TakeTyped

\* Regular expressions and sequences
LEMMA OthersTyped ==
    ASSUME CacheInv, TypesInv, job.tool \in RpnToolNames, Typing, OperateRegex \/ OperateNext
    PROVE  Typing'
<1> DEFINE op == Token.operator
<1>1. pc = "read" /\ Held(mem)
  BY DEF CacheInv, Evaluators, OperateRegex, OperateNext, AtToken, Evaluating, Reading, AtEnd
<1>2. /\ mem.at <= Len(Expression) /\ Token.kind = "operator" /\ Token = Expression[mem.at]
      /\ Ready /\ Accepts(op, Operands) /\ op \in Regular \cup {"NEXT"}
  BY DEF OperateRegex, OperateNext, AtToken, Token, Ready
<1>3. mem.at \in DOMAIN Expression /\ op \in Operators /\ IsOperator(Token) /\ DOMAIN Expression \subseteq Nat
  BY <1>2, InHand DEF IsOperator
<1>4. Beneath \in Seq(Range(Beneath))
  BY <1>2, <1>3, Arities, StackTop DEF Typing
<1>5. mem.at \in Telling(Expression)
  BY <1>2, <1>3 DEF Telling, Deferring, Arithmetic, Regular
<1>6. ASSUME NEW m, Held(m), m.todo = mem.todo, m.exp = mem.exp, m.at = mem.at,
             NEW result, IsValue(result) => result.type = OperatorType(op), Take(result, m)
      PROVE  Typing'
  <2>1. IsValue(result) => result.type = TokenType(Expression[mem.at])
    BY <1>2, <1>6 DEF TokenType
  <2>2. IsValue(result) => TypedAs(Expression, mem.at, result)
    BY <1>3, <1>5, <2>1, TellingToken
  <2> QED BY <1>1, <1>2, <1>4, <1>6, <2>2, TakeTyped
<1>7. CASE OperateRegex
  <2> DEFINE cache == Cached(mem.cache, Regex(op, Operands), Flags(op, Operands))
             comp == Compiled(mem.cache, Regex(op, Operands), Flags(op, Operands))
  <2>1. PICK result \in Matched(op, Operands, comp) : Take(result, [mem EXCEPT !.cache = cache])
    BY <1>7 DEF OperateRegex
  <2>2. op \in Regular
    BY <1>7 DEF OperateRegex
  <2>3. IsValue(result) => result.type = OperatorType(op)
    BY <1>2, <2>2, RegularResult
  <2>4. CacheSound(cache)
    BY <1>1, CachedSound DEF Held
  <2> DEFINE m == [mem EXCEPT !.cache = cache]
  <2>5. Held(m)
    BY <1>1, <2>4, ExceptCache
  <2>6. m.todo = mem.todo /\ m.exp = mem.exp /\ m.at = mem.at
    BY <1>1 DEF Held
  <2> HIDE DEF m
  <2>7. Take(result, m)
    BY <2>1 DEF m
  <2> QED BY <1>6, <2>3, <2>5, <2>6, <2>7
<1>8. CASE OperateNext
  <2> DEFINE name == Operands[1].value
             known == Place(job.hash, mem.seqs, name) # 0
             cell == IF known THEN CellOf(job.hash, mem.seqs, name) ELSE Len(mem.counts) + 1
             n == IF known THEN mem.counts[cell] + 1 ELSE 1
             seqs == IF known THEN mem.seqs ELSE Added(job.hash, mem.seqs, name, cell)
             counts == IF known THEN [mem.counts EXCEPT ![cell] = n] ELSE Append(mem.counts, n)
             m == [mem EXCEPT !.seqs = seqs, !.counts = counts]
  <2>1. Take(Llong(n), m)
    BY <1>8 DEF OperateNext
  <2>2. op = "NEXT"
    BY <1>8 DEF OperateNext
  <2>3. Llong(n).type = OperatorType(op)
    BY <2>2 DEF OperatorType, Llong
  <2>4. Held(m)
    BY <1>1, ExceptSequences
  <2>5. m.todo = mem.todo /\ m.exp = mem.exp /\ m.at = mem.at
    BY <1>1 DEF Held
  <2> HIDE DEF m, n
  <2> QED BY <1>6, <2>1, <2>3, <2>4, <2>5
<1> QED BY <1>7, <1>8

\* The memory of an expression that is over
LEMMA MemoryAnew ==
    ASSUME Held(mem), NEW values
    PROVE  /\ Fresh(mem).todo = mem.todo /\ Fresh(mem).exp = 1 /\ Fresh(mem).at = 1
           /\ Fresh(mem).stack = <<>>
           /\ LET m == [mem EXCEPT !.exp = mem.exp + 1, !.at = 1, !.stack = <<>>, !.values = values] IN
              m.todo = mem.todo /\ m.exp = mem.exp + 1 /\ m.at = 1 /\ m.stack = <<>>
BY DEF Held, Fresh

\* An expression begins, or the first one of the next row does.
LEMMA AnewTyped ==
    ASSUME TypesInv, job.tool \in RpnToolNames, Typing, pc = "read", UNCHANGED <<given, pc, hdr>>,
           mem'.todo = mem.todo, mem'.exp \in DOMAIN Expressions, mem'.at = 1, mem'.stack = <<>>
    PROVE  Typing'
<1>1. job' = job /\ Header' = Header /\ Expressions' = Expressions /\ Expressions = job.expressions
  BY DEF given, Header, Expressions, Typing
<1>2. mem'.todo = job'.expressions /\ mem'.exp \in DOMAIN job'.expressions
  BY <1>1 DEF Typing
<1>3. Expression' = job.expressions[mem'.exp]
  BY <1>1 DEF Expression
<1>4. Len(Expression') \in Nat
  BY <1>1, <1>3, RpnGiven
<1>5. mem'.at \in 1 .. Len(Expression') + 1
  BY <1>4
<1>6. mem'.stack \in Seq(Range(mem'.stack)) /\ mem'.stack = <<>>
  OBVIOUS
<1>7. \A i \in DOMAIN job'.expressions : (Told(i) \in ExpressionTypes(job.expressions[i]))'
  BY <1>1, TypesKept DEF Typing, Told, ExpressionTypes, TokenType
<1> QED BY <1>2, <1>5, <1>6, <1>7 DEF Typing

\* The type told of an expression is that of its value, or the tool is misled.
LEMMA ValueTyped ==
    ASSUME TypesInv, job.tool \in RpnToolNames, Typing, mem.at > Len(Expression), Len(mem.stack) = 1
    PROVE  Value1.type = Told(mem.exp) \/ Misled
<1> DEFINE e == Expression
<1>1. mem.at = Len(e) + 1 /\ Len(e) \in Nat /\ DOMAIN e = 1 .. Len(e)
  BY InHand DEF Typing
<1>2. mem.stack # <<>> /\ Last(mem.stack) = Value1
  <2>1. PICK s : s = mem.stack
    OBVIOUS
  <2>2. Len(s) = 1
    BY <2>1
  <2>3. s # <<>> /\ Last(s) = s[1]
    BY <2>2 DEF Last
  <2> QED BY <2>1, <2>3 DEF Value1
<1>3. TypedAs(e, Len(e), Value1)
  BY <1>1, <1>2 DEF Typing
<1>4. PICK k \in Telling(e) :
         /\ k <= Len(e) /\ \A j \in Telling(e) : j <= Len(e) => j <= k
         /\ \/ Value1.type = TokenType(e[k])
            \/ Value1.type = "float" /\ TokenType(e[k]) = "int" /\ Len(e) \notin Telling(e)
  BY <1>3 DEF TypedAs
<1>5. \A j \in Telling(e) : j <= k
  BY <1>1, <1>4 DEF Telling
<1>6. ExpressionTypes(e) = {TokenType(e[k])}
  BY <1>1, <1>4, <1>5, ToldByLast
<1>7. Told(mem.exp) = TokenType(e[k])
  BY <1>6, InHand DEF Typing
<1>8. CASE Value1.type = "float" /\ TokenType(e[k]) = "int" /\ Len(e) \notin Telling(e)
  <2>1. Len(e) \in DOMAIN e /\ e[Len(e)] = Last(e)
    BY <1>1, <1>4 DEF Telling, Last
  <2>2. IsOperator(Last(e)) /\ Last(e).operator \in Deferring
    BY <1>8, <2>1 DEF Telling
  <2> QED BY <1>7, <1>8, <2>2 DEF Misled
<1> QED BY <1>4, <1>7, <1>8

\* The steps of main() and next_row()
LEMMA RpnStepTyped ==
    ASSUME CacheInv, TypesInv, job.tool \in RpnToolNames, Typing, pc # "open", NextRpn
    PROVE  Typing'
<1>1. pc = "read" /\ Held(mem)
  BY DEF CacheInv, Evaluators, NextRpn, OpenRpn, PassOnRpn, EndRpn, PrintValue, Decide, AtValue,
         AtEndOfExpression, Evaluating, Reading, AtEnd
<1>2. CASE PassOnRpn \/ EndRpn
  <2>1. UNCHANGED <<given, mem, hdr>> /\ pc' # "aborted"
    BY <1>1, <1>2 DEF PassOnRpn, EndRpn, Continue, Exit
  <2> QED BY <2>1, StaysTyped
<1>3. ASSUME NEW printed, RowDone(printed) PROVE Typing'
  <2>1. mem' = Fresh(mem) /\ UNCHANGED <<given, pc, hdr>>
    BY <1>3 DEF RowDone, Continue
  <2>2. mem'.todo = mem.todo /\ mem'.exp = 1 /\ mem'.at = 1 /\ mem'.stack = <<>>
    BY <1>1, <2>1, MemoryAnew
  <2>3. 1 \in DOMAIN Expressions
    BY InHand, RpnGiven DEF Typing, Expressions
  <2> QED BY <1>1, <2>1, <2>2, <2>3, AnewTyped
<1>4. ASSUME NEW values, NextExpression(values), ~LastExpression PROVE Typing'
  <2>1. mem' = [mem EXCEPT !.exp = mem.exp + 1, !.at = 1, !.stack = <<>>, !.values = values]
        /\ UNCHANGED <<given, pc, hdr>>
    BY <1>4 DEF NextExpression, Step
  <2>2. mem'.todo = mem.todo /\ mem'.exp = mem.exp + 1 /\ mem'.at = 1 /\ mem'.stack = <<>>
    BY <1>1, <2>1, MemoryAnew
  <2>3. mem.exp + 1 \in DOMAIN Expressions
    <3>1. mem.exp \in 1 .. Len(Expressions) /\ Len(Expressions) \in Nat /\ mem.exp # Len(Expressions)
      BY <1>4, InHand DEF LastExpression
    <3>2. PICK es : es = Expressions
      OBVIOUS
    <3>3. es \in Seq(Range(es))
      BY <3>2, RpnGiven DEF Typing, Expressions
    <3>4. DOMAIN es = 1 .. Len(es)
      BY <3>3
    <3> QED BY <3>1, <3>2, <3>4
  <2> QED BY <1>1, <2>1, <2>2, <2>3, AnewTyped
<1>5. CASE PrintValue("add_rpn")
  <2> DEFINE values == Append(mem.values, TextOf(Value1))
  <2>1. RowDone(<<Row \o values>>) \/ (NextExpression(values) /\ ~LastExpression)
    BY <1>5 DEF PrintValue
  <2> QED BY <2>1, <1>3, <1>4
<1>6. CASE Decide("grep_rpn")
  <2>1. CASE Value1.type # "int" /\ Die("aborted")
    <3>1. Told(mem.exp) = "int" /\ mem.at > Len(Expression) /\ Len(mem.stack) = 1
      BY <1>6 DEF Decide, AtValue, AtEndOfExpression, Told
    <3>2. Misled
      BY <2>1, <3>1, ValueTyped
    <3>3. UNCHANGED <<given, mem, hdr>>
      BY <2>1 DEF Die
    <3> QED BY <3>2, <3>3, StaysTyped
  <2>2. CASE Value1.type = "int"
    <3>1. RowDone(<<Row>>) \/ RowDone(<<>>) \/ (NextExpression(<<>>) /\ ~LastExpression)
      BY <1>6, <2>2 DEF Decide
    <3> QED BY <3>1, <1>3, <1>4
  <2> QED BY <1>6, <2>1, <2>2 DEF Decide
<1> QED BY <1>1, <1>2, <1>5, <1>6 DEF NextRpn, OpenRpn

\* The types of the header are those told.
LEMMA OpenTyped ==
    ASSUME TypesInv, job.tool \in RpnToolNames, OpenRpn
    PROVE  (pc' \notin {"read", "aborted"} /\ UNCHANGED <<given, mem, hdr>>) \/ Typing'
<1>1. CASE Fail \/ Die("crashed")
  BY <1>1 DEF Fail, Exit, Die
<1>2. CASE ~(Fail \/ Die("crashed"))
  <2>1. PICK types \in [DOMAIN job.expressions -> AnyType \cup {c.type : c \in Range(Header)} \cup {"crash"}] :
           /\ \A i \in DOMAIN types : types[i] \in ExpressionTypes(job.expressions[i])
           /\ \/ /\ job.tool = "add_rpn"
                 /\ Start(Indices, Header \o [i \in DOMAIN types |-> NewColumn(job.names[i], types[i])],
                          Evaluation(job.expressions, None))
              \/ /\ job.tool = "grep_rpn" /\ \A i \in DOMAIN types : types[i] = "int"
                 /\ Start(Indices, Header, Evaluation(job.expressions, None))
    BY <1>2 DEF OpenRpn, RpnToolNames
  <2>2. /\ mem' = Evaluation(job.expressions, None) /\ pc' = "read" /\ job' = job /\ inputs' = inputs
        /\ UNCHANGED given
    BY <2>1 DEF Start, given
  <2>3. /\ mem'.todo = job.expressions /\ mem'.exp = 1 /\ mem'.at = 1 /\ mem'.stack = <<>>
    BY <2>2 DEF Evaluation
  <2>4. DOMAIN job.expressions = 1 .. Len(job.expressions) /\ Len(job.expressions) \in Nat \ {0}
    <3>1. PICK es : es = job.expressions
      OBVIOUS
    <3>2. es \in Seq(Range(es)) /\ Len(es) \in Nat \ {0}
      BY <3>1, RpnGiven
    <3>3. DOMAIN es = 1 .. Len(es)
      BY <3>2
    <3> QED BY <3>1, <3>2, <3>3
  <2>5. Expression' = job.expressions[1]
    BY <2>3 DEF Expression, Expressions
  <2>6. Len(Expression') \in Nat
    BY <2>4, <2>5, RpnGiven
  <2>7. Header' = Header
    BY <2>2 DEF Header
  <2>8. ASSUME NEW i \in DOMAIN job.expressions PROVE (Told(i) \in ExpressionTypes(job.expressions[i]))'
    <3>1. types[i] \in ExpressionTypes(job.expressions[i])
      BY <2>1
    <3>2. PICK e : e = job.expressions[i]
      OBVIOUS
    <3>3. types[i] \in ExpressionTypes(e)'
      BY <2>2, <3>1, <3>2, TypesKept
    <3>4. job'.expressions[i] = e
      BY <2>2, <3>2
    <3>5. CASE job.tool = "add_rpn"
      <4>1. hdr' = Header \o [k \in DOMAIN types |-> NewColumn(job.names[k], types[k])]
        BY <2>1, <3>5 DEF Start
      <4>2. PICK h, es, new : h = Header /\ es = job.expressions
                              /\ new = [k \in DOMAIN types |-> NewColumn(job.names[k], types[k])]
        OBVIOUS
      <4>3. h \in Seq(Range(h)) /\ Len(h) \in Nat
        BY <4>2, RpnGiven
      <4>4. DOMAIN new = 1 .. Len(es) /\ Len(es) \in Nat /\ i \in 1 .. Len(es)
        BY <2>1, <2>4, <4>2
      <4>5. Len(new) = Len(es) /\ new \in Seq(Range(new))
        <5>1. new = [k \in 1 .. Len(es) |-> new[k]]
          BY <4>2, <4>4
        <5>2. \A k \in 1 .. Len(es) : new[k] \in Range(new)
          BY <4>4 DEF Range
        <5> QED BY <4>4, <5>1, <5>2, SeqDef
      <4>6. (h \o new)[Len(h) + i] = new[i]
        BY <4>3, <4>4, <4>5
      <4>7. new[i] = NewColumn(job.names[i], types[i])
        BY <2>1, <4>2
      <4>8. hdr'[Len(Header) + i].type = types[i]
        BY <4>1, <4>2, <4>6, <4>7 DEF NewColumn
      <4>9. Told(i)' = types[i]
        BY <2>2, <2>7, <3>5, <4>8 DEF Told
      <4> QED BY <3>3, <3>4, <4>9 DEF ExpressionTypes, TokenType
    <3>6. CASE job.tool = "grep_rpn"
      <4>1. types[i] = "int" /\ Told(i)' = "int"
        BY <2>1, <2>2, <3>6 DEF Told
      <4> QED BY <3>3, <3>4, <4>1 DEF ExpressionTypes, TokenType
    <3> QED BY <3>5, <3>6 DEF RpnToolNames
  <2>9. mem'.at \in 1 .. Len(Expression') + 1 /\ mem'.exp \in DOMAIN job'.expressions
        /\ mem'.todo = job'.expressions
    BY <2>2, <2>3, <2>4, <2>6
  <2>10. mem'.stack \in Seq(Range(mem'.stack)) /\ mem'.stack = <<>> /\ pc' # "aborted"
    BY <2>2, <2>3
  <2> QED BY <2>2, <2>8, <2>9, <2>10 DEF Typing
<1> QED BY <1>1, <1>2

LEMMA TypesStep ==
    ASSUME CacheInv, TypesInv, [Next]_vars
    PROVE  TypesInv'
<1>1. CASE UNCHANGED vars
  <2>1. job' = job /\ inputs' = inputs /\ pc' = pc /\ mem' = mem /\ UNCHANGED <<given, mem, hdr>>
    BY <1>1 DEF vars, given
  <2>2. job.tool \in RpnToolNames => (pc' \notin {"read", "aborted"} /\ mem' = None) \/ Typing'
    BY <2>1, StaysTyped DEF TypesInv
  <2> QED BY <2>1, <2>2 DEF TypesInv
<1>2. CASE Next
  <2>1. job' = job /\ inputs' = inputs
    BY <1>2, GivenKept DEF given
  <2>2. CASE job.tool \notin RpnToolNames
    BY <2>1, <2>2 DEF TypesInv
  <2>3. CASE job.tool \in RpnToolNames
    <3>1. NextRpn \/ Evaluate \/ Ended
      <4>1. job.tool \in {"add_rpn", "grep_rpn"}
        BY Zenon, <2>3 DEF RpnToolNames
      <4>2. ~NextSql
        BY <4>1 DEF NextSql, OpenSql, WhereSql, KeepSql, SelectSql, SortSql, EndSql, OpenAddSql,
                    OpenGrepSql, PassOnSql, PrintValue, Decide, AtValue, EndAddSql, Opening, Reading, AtEnd
      <4> QED BY <1>2, <2>3, <4>2, EvaluatorSteps DEF Evaluators
    <3>2. (pc' \notin {"read", "aborted"} /\ mem' = None) \/ Typing'
      <4>1. CASE OpenRpn
        <5>1. CASE mem = None
          BY <2>3, <4>1, <5>1, OpenTyped
        <5>2. CASE Typing
          BY <2>3, <4>1, <5>2, OpenTyped, StaysTyped
        <5> QED BY <2>3, <5>1, <5>2 DEF TypesInv
      <4>2. CASE ~OpenRpn /\ NextRpn
        <5>1. pc = "read"
          BY <4>2 DEF NextRpn, PassOnRpn, EndRpn, PrintValue, Decide, AtValue, AtEndOfExpression,
                      Evaluating, Reading, AtEnd
        <5> QED BY <2>3, <4>2, <5>1, RpnStepTyped DEF TypesInv
      <4>3. CASE Evaluate
        <5>1. pc = "read"
          BY <4>3 DEF Evaluate, Refuse, LeftOver, PushConstant, PushColumn, Operate, OperateRegex,
                      OperateNext, AtToken, AtEndOfExpression, Evaluating, Reading, AtEnd
        <5>2. Typing
          BY <2>3, <5>1 DEF TypesInv
        <5>3. CASE Refuse \/ LeftOver
          <6>1. UNCHANGED <<given, mem, hdr>> /\ pc' # "aborted"
            BY <5>3 DEF Refuse, LeftOver, Fail, Exit
          <6> QED BY <5>2, <6>1, StaysTyped
        <5> QED BY <2>3, <4>3, <5>2, <5>3, LeafTyped, OperateTyped, OthersTyped DEF Evaluate
      <4>4. CASE Ended
        <5>1. UNCHANGED <<given, mem, hdr>> /\ pc' = pc /\ mem' = mem
          BY <4>4 DEF Ended, vars
        <5> QED BY <2>3, <5>1, StaysTyped DEF TypesInv
      <4> QED BY <3>1, <4>1, <4>2, <4>3, <4>4
    <3> QED BY <2>1, <3>2 DEF TypesInv
  <2> QED BY <2>2, <2>3
<1> QED BY <1>1, <1>2

\* The type that csv-add-rpn writes into the header is that of every value under it,
\* and csv-grep-rpn, which asks for integers, does not abort (src/src/grep-rpn.c:75):
\* but for a float of arithmetic whose last operand is an integer, and a column of
\* arrays, for any expressions and any stream.
THEOREM TypesToldRight == Spec => []RpnTypesTold
<1>1. Init => CacheInv /\ TypesInv
  BY DEF Init, CacheInv, TypesInv
<1>2. CacheInv /\ TypesInv /\ [Next]_vars => (CacheInv /\ TypesInv)'
  BY CacheStep, TypesStep
<1>3. CacheInv /\ TypesInv => RpnTypesTold
  <2> SUFFICES ASSUME TypesInv, job.tool \in RpnToolNames PROVE RpnTypesTold
    BY DEF RpnTypesTold
  <2>1. CASE Typing
    <3>1. AtEndOfExpression /\ Len(mem.stack) = 1 => Value1.type = Told(mem.exp) \/ Misled
      BY <2>1, ValueTyped DEF AtEndOfExpression
    <3> QED BY <2>1, <3>1 DEF RpnTypesTold, Typing
  <2>2. CASE pc \notin {"read", "aborted"}
    <3>1. ~AtEndOfExpression
      BY <2>2 DEF AtEndOfExpression, Evaluating, Reading, AtEnd
    <3> QED BY <2>2, <3>1 DEF RpnTypesTold
  <2> QED BY <2>1, <2>2 DEF TypesInv
<1> QED BY <1>1, <1>2, <1>3, PTL DEF Spec

-----------------------------------------------------------------------------
(* The lines of csv-head, csv-tail, csv-cat and csv-tac *)

LineTools == {"head", "tail", "cat", "tac"}

\* What csv-cat and csv-tac print of input k, and of the first n inputs
Copied(k) ==
    [r \in DOMAIN inputs[k].rows |->
        IF k = 1 THEN inputs[k].rows[r]
        ELSE [j \in DOMAIN Header |-> Under(inputs[k].rows[r], inputs[k].header, Header[j])]]
Turned(k) == IF job.tool = "cat" THEN Copied(k) ELSE Reverse(Copied(k))
Inputs(n) == FlattenSeq([k \in 1 .. n |-> Turned(k)])

\* csv-head has printed every row it has read, and counted them
Heading ==
    /\ in = 1 /\ pos \in 1 .. Len(Rows) + 1
    /\ mem.printed = pos - 1 /\ pos - 1 <= job.lines
    /\ out = SubSeq(Rows, 1, pos - 1)

\* csv-cat has printed, and csv-tac printed or kept, the inputs before this one
\* whole and the rows read of this one, each value under its column of the header.
\* Every input fits the header: the tools end before they read one otherwise.
Filing ==
    /\ in \in 1 .. Len(inputs) /\ pos \in 1 .. Len(Rows) + 1
    /\ \A k \in DOMAIN inputs : Fits(k)
    /\ cols = [k \in DOMAIN inputs |-> IndexIn(k)]
    /\ job.tool = "cat" => out = Inputs(in - 1) \o SubSeq(Copied(in), 1, pos - 1)
    /\ job.tool = "tac" => out = Inputs(in - 1) /\ mem.lines = SubSeq(Rows, 1, pos - 1)

\* Nothing is printed before the first row is read; csv-tail prints nothing before
\* its input ends.
LinesInv ==
    /\ RingInv
    /\ job.tool \in LineTools =>
          /\ pc = "open" => in = 1 /\ pos = 1 /\ out = <<>>
          /\ pc = "read" =>
                /\ job.tool = "head" => Heading
                /\ job.tool = "tail" => out = <<>>
                /\ job.tool \in {"cat", "tac"} => Filing
          /\ LinesRight

-----------------------------------------------------------------------------
\* What the assumption says of the inputs
LEMMA InputFacts ==
    ASSUME RingInv
    PROVE  /\ job.tool \in {"head", "tail"} => job.lines \in Nat
           /\ inputs \in Seq(Range(inputs)) /\ Len(inputs) \in Nat \ {0} /\ DOMAIN inputs = 1 .. Len(inputs)
           /\ \A k \in DOMAIN inputs :
                 /\ inputs[k].rows \in Seq(Range(inputs[k].rows)) /\ Len(inputs[k].rows) \in Nat
                 /\ DOMAIN inputs[k].rows = 1 .. Len(inputs[k].rows)
                 /\ inputs[k].header \in Seq(Range(inputs[k].header)) /\ Len(inputs[k].header) \in Nat
                 /\ DOMAIN inputs[k].header = 1 .. Len(inputs[k].header)
                 /\ LET h == inputs[k].header IN
                    \A c \in 1 .. Len(h) : h[c] = [table |-> h[c].table, name |-> h[c].name, type |-> h[c].type]
BY GivenInputs DEF RingInv

\* Where a column of the name and table of another one is first
WhereNamed(h, c) == SelectInSeq(h, LAMBDA d : SameColumn(d, c))

\* The first column of a name and a table is the one that is meant, if its type fits.
LEMMA FirstNamesake ==
    ASSUME NEW h, Len(h) \in Nat, NEW c, c = [table |-> c.table, name |-> c.name, type |-> c.type],
           \A i \in 1 .. Len(h) : h[i] = [table |-> h[i].table, name |-> h[i].name, type |-> h[i].type],
           NEW m, m = WhereNamed(h, c), m # 0, h[m].type = c.type
    PROVE  WhereIs(h, c) = m
<1> DEFINE A == {i \in 1 .. Len(h) : SameColumn(h[i], c)}
           B == {i \in 1 .. Len(h) : h[i] = c}
<1>1. m = IF A # {} THEN Min(A) ELSE 0
  BY DEF WhereNamed, SelectInSeq
<1>2. WhereIs(h, c) = IF B # {} THEN Min(B) ELSE 0
  BY DEF WhereIs, SelectInSeq
<1>3. A # {} /\ A \in SUBSET Nat
  BY <1>1
<1>4. B \subseteq A
  BY DEF SameColumn
<1>5. \A i \in A : h[i].type = c.type => i \in B
  <2> SUFFICES ASSUME NEW i \in 1 .. Len(h), SameColumn(h[i], c), h[i].type = c.type PROVE h[i] = c
    OBVIOUS
  <2>1. PICK d : d = h[i]
    OBVIOUS
  <2>2. d.table = c.table /\ d.name = c.name /\ d.type = c.type
    BY <2>1 DEF SameColumn
  <2>3. d = [table |-> d.table, name |-> d.name, type |-> d.type]
    BY <2>1
  <2> QED BY <2>1, <2>2, <2>3
<1> HIDE DEF A, B
<1>6. Min(A) \in A /\ \A y \in A : Min(A) <= y
  <2>1. \E x \in A : \A y \in A : x <= y
    BY <1>3, LeastMember
  <2> QED BY <2>1 DEF Min
<1>7. m \in B /\ \A y \in B : m <= y
  BY <1>1, <1>3, <1>4, <1>5, <1>6
<1>8. Min(B) \in B /\ \A y \in B : Min(B) <= y
  BY <1>7 DEF Min
<1>9. m \in Nat /\ Min(B) \in Nat
  BY <1>3, <1>4, <1>7, <1>8
<1>10. Min(B) = m
  BY <1>7, <1>8, <1>9
<1> QED BY <1>2, <1>7, <1>10

\* A column of an input that fits is where its name and table are first.
LEMMA SameColumns ==
    ASSUME RingInv, NEW k \in DOMAIN inputs, k # 1, Fits(k), NEW j \in DOMAIN Header
    PROVE  IndexIn(k)[j] = WhereIs(inputs[k].header, Header[j])
<1>1. PICK h, c, m : h = inputs[k].header /\ c = Header[j] /\ m = IndexIn(k)[j]
  OBVIOUS
<1>2. m = WhereNamed(h, c)
  BY <1>1 DEF IndexIn, WhereNamed
<1>3. m # 0 /\ h[m].type = c.type
  BY <1>1 DEF Fits
<1>4. /\ Len(h) \in Nat
      /\ \A i \in 1 .. Len(h) : h[i] = [table |-> h[i].table, name |-> h[i].name, type |-> h[i].type]
  BY <1>1, InputFacts
<1>5. c = [table |-> c.table, name |-> c.name, type |-> c.type]
  <2>1. PICK g : g = inputs[1].header
    OBVIOUS
  <2>2. 1 \in DOMAIN inputs
    BY InputFacts
  <2>3. \A i \in 1 .. Len(g) : g[i] = [table |-> g[i].table, name |-> g[i].name, type |-> g[i].type]
    BY <2>1, <2>2, InputFacts
  <2>4. DOMAIN g = 1 .. Len(g)
    BY <2>1, <2>2, InputFacts
  <2> QED BY <1>1, <2>1, <2>3, <2>4 DEF Header
<1>6. WhereIs(h, c) = m
  BY <1>2, <1>3, <1>4, <1>5, FirstNamesake
<1> QED BY <1>1, <1>6

\* A row is printed as it is meant.
LEMMA RowCopied ==
    ASSUME RingInv, NEW k \in DOMAIN inputs, Fits(k), NEW r \in DOMAIN inputs[k].rows
    PROVE  Reordered(inputs[k].rows[r], IndexIn(k)) = Copied(k)[r]
<1> DEFINE row == inputs[k].rows[r]
<1>1. CASE k = 1
  <2>1. row \in [DOMAIN Header -> Seq(Int)]
    BY <1>1, GivenInputs DEF RingInv, Header
  <2>2. Reordered(row, Indices) = row
    BY <2>1 DEF Reordered, Indices
  <2> QED BY <1>1, <2>2 DEF IndexIn, Copied
<1>2. CASE k # 1
  <2>1. DOMAIN IndexIn(k) = DOMAIN Header
    BY <1>2 DEF IndexIn
  <2>2. \A j \in DOMAIN Header : row[IndexIn(k)[j]] = Under(row, inputs[k].header, Header[j])
    BY <1>2, SameColumns DEF Under, WhereIs
  <2> QED BY <1>2, <2>1, <2>2 DEF Reordered, Copied
<1> QED BY <1>1, <1>2

\* What is printed of the inputs is made of sequences of rows.
LEMMA CopiesType ==
    ASSUME RingInv
    PROVE  \E S : /\ \A k \in DOMAIN inputs : Copied(k) \in Seq(S) /\ Turned(k) \in Seq(S)
                                              /\ Len(Copied(k)) = Len(inputs[k].rows)
                  /\ \A n \in 0 .. Len(inputs) : Inputs(n) \in Seq(S)
                  /\ Inputs(0) = <<>>
                  /\ \A n \in 1 .. Len(inputs) : Inputs(n) = Inputs(n - 1) \o Turned(n)
<1> DEFINE S == UNION {Range(Copied(k)) : k \in DOMAIN inputs}
<1>1. Len(inputs) \in Nat /\ DOMAIN inputs = 1 .. Len(inputs)
  BY InputFacts
<1>2. ASSUME NEW k \in DOMAIN inputs
      PROVE  Copied(k) \in Seq(S) /\ Len(Copied(k)) = Len(inputs[k].rows) /\ Turned(k) \in Seq(S)
  <2>1. PICK c : c = Copied(k)
    OBVIOUS
  <2>2. Len(inputs[k].rows) \in Nat /\ DOMAIN inputs[k].rows = 1 .. Len(inputs[k].rows)
    BY InputFacts
  <2>3. DOMAIN c = 1 .. Len(inputs[k].rows) /\ c = [r \in 1 .. Len(inputs[k].rows) |-> c[r]]
    BY <2>1, <2>2 DEF Copied
  <2>4. \A r \in DOMAIN c : c[r] \in S
    <3>1. \A r \in DOMAIN c : c[r] \in Range(c)
      BY DEF Range
    <3> QED BY <2>1, <3>1
  <2> HIDE DEF S
  <2>5. c \in Seq(S) /\ Len(c) = Len(inputs[k].rows)
    BY <2>2, <2>3, <2>4, SeqDef
  <2>6. Reverse(c) \in Seq(S)
    BY <2>5 DEF Reverse
  <2> QED BY <2>1, <2>5, <2>6 DEF Turned
<1> HIDE DEF S
<1> DEFINE parts(n) == [k \in 1 .. n |-> Turned(k)]
<1>3. ASSUME NEW n \in 0 .. Len(inputs) PROVE parts(n) \in Seq(Seq(S)) /\ Len(parts(n)) = n
  BY <1>1, <1>2
<1>4. ASSUME NEW n \in 0 .. Len(inputs) PROVE Inputs(n) \in Seq(S)
  <2> HIDE DEF parts
  <2>1. FlattenSeq(parts(n)) \in Seq(S)
    BY <1>3, FlattenType
  <2> QED BY <2>1 DEF Inputs, parts
<1>5. Inputs(0) = <<>>
  <2>1. parts(0) = <<>>
    OBVIOUS
  <2> QED BY <2>1, FlattenEmpty DEF Inputs
<1>6. ASSUME NEW n \in 1 .. Len(inputs) PROVE Inputs(n) = Inputs(n - 1) \o Turned(n)
  <2>1. n - 1 \in 0 .. Len(inputs) /\ n \in 0 .. Len(inputs) /\ n \in DOMAIN inputs
    BY <1>1
  <2>2. PICK t : t = Turned(n)
    OBVIOUS
  <2>3. t \in Seq(S)
    BY <1>2, <2>1, <2>2
  <2> DEFINE short == parts(n - 1)
             long == parts(n)
  <2>4. short \in Seq(Seq(S)) /\ Len(short) = n - 1 /\ long \in Seq(Seq(S)) /\ Len(long) = n
    BY <1>3, <2>1
  <2>5. /\ \A k \in 1 .. n - 1 : long[k] = short[k]
        /\ long[n] = t
    BY <2>2
  <2>6. FlattenSeq(long) = Inputs(n) /\ FlattenSeq(short) = Inputs(n - 1)
    BY DEF Inputs
  <2> HIDE DEF short, long
  <2>7. long = Append(short, t)
    BY <2>1, <2>3, <2>4, <2>5
  <2>8. FlattenSeq(Append(short, t)) = FlattenSeq(short) \o t
    BY <2>3, <2>4, FlattenAppend
  <2> QED BY <2>2, <2>6, <2>7, <2>8
<1> QED BY <1>2, <1>4, <1>5, <1>6

\* The terms are about what is given.
LEMMA CopiesKept ==
    ASSUME UNCHANGED <<job, inputs>>
    PROVE  /\ \A k : Copied(k)' = Copied(k) /\ Turned(k)' = Turned(k) /\ (Fits(k)' <=> Fits(k))
                     /\ IndexIn(k)' = IndexIn(k)
           /\ \A n : Inputs(n)' = Inputs(n)
<1>1. \A k : Copied(k)' = Copied(k) /\ IndexIn(k)' = IndexIn(k)
  <2>1. \A k : Copied(k)' = Copied(k)
    BY DEF Copied, Under, Header, SelectInSeq
  <2>2. \A k : IndexIn(k)' = IndexIn(k)
    BY DEF IndexIn, Indices, Header, SameColumn, SelectInSeq
  <2> QED BY <2>1, <2>2
<1>2. \A k : Turned(k)' = Turned(k) /\ (Fits(k)' <=> Fits(k))
  BY <1>1 DEF Turned, Fits, Header
<1>3. \A n : Inputs(n)' = Inputs(n)
  BY <1>2 DEF Inputs
<1> QED BY <1>1, <1>2, <1>3

\* The tools take no steps but those of the filters.
LEMMA LineSteps ==
    ASSUME Next, job.tool \in LineTools
    PROVE  NextFilter \/ Ended
BY ToolSteps DEF LineTools, Functions, RpnToolNames, SqlToolNames, Evaluators, BuilderNames

\* csv-head
LEMMA HeadLines ==
    ASSUME LinesInv, job.tool = "head", OpenHead \/ HeadFull \/ HeadRow \/ EndHead
    PROVE  (pc' = "read" /\ Heading') \/ (pc' = "exited" /\ LinesRight')
<1>1. pc \in {"open", "read"} /\ RingInv /\ job.lines \in Nat
  BY InputFacts DEF OpenHead, HeadFull, HeadRow, EndHead, Opening, Reading, AtEnd, LinesInv
<1>2. 1 \in DOMAIN inputs
  BY <1>1, InputFacts
<1>3. PICK rows : rows = AllRows
  OBVIOUS
<1>4. rows \in Seq(Range(rows)) /\ Len(rows) \in Nat
  BY <1>1, <1>2, <1>3, InputFacts DEF AllRows
<1>5. CASE OpenHead
  <2>1. /\ in' = 1 /\ pos' = 1 /\ out' = <<>> /\ inputs' = inputs /\ job' = job /\ pc' = "read"
        /\ mem' = [printed |-> 0]
    BY <1>5 DEF OpenHead, Opening, Start, given, LinesInv, LineTools
  <2>2. Rows' = rows
    BY <2>1, <1>3 DEF Rows, AllRows
  <2>3. SubSeq(rows, 1, 0) = <<>>
    OBVIOUS
  <2> QED BY <1>1, <1>4, <2>1, <2>2, <2>3 DEF Heading
<1>6. CASE ~OpenHead
  <2>1. pc = "read" /\ Heading
    BY <1>6 DEF HeadFull, HeadRow, EndHead, Reading, AtEnd, LinesInv, LineTools
  <2>2. /\ in = 1 /\ Rows = rows /\ pos \in 1 .. Len(rows) + 1 /\ mem.printed = pos - 1
        /\ pos - 1 <= job.lines /\ out = SubSeq(rows, 1, pos - 1)
    BY <2>1, <1>3 DEF Heading, Rows, AllRows
  <2>3. CASE HeadRow
    <3>1. /\ out' = out \o <<Row>> /\ mem' = [printed |-> pos] /\ pos' = pos + 1 /\ pos <= Len(rows)
          /\ pos - 1 < job.lines
          /\ in' = in /\ inputs' = inputs /\ job' = job /\ pc' = "read"
      BY <2>1, <2>2, <2>3 DEF HeadRow, Reading, Continue, given
    <3>2. Rows' = rows /\ Row = rows[pos]
      BY <2>2, <3>1 DEF Rows, Row
    <3>3. SubSeq(rows, 1, pos - 1 + 1) = Append(SubSeq(rows, 1, pos - 1), rows[pos - 1 + 1])
      BY <1>4, <2>2, <3>1, SubSeqGrows
    <3>4. pos - 1 + 1 = pos /\ pos + 1 - 1 = pos /\ pos + 1 \in 1 .. Len(rows) + 1
      BY <1>4, <2>2, <3>1
    <3>5. out \in Seq(Range(rows)) /\ rows[pos] \in Range(rows)
      BY <1>4, <2>2, <3>1 DEF Range
    <3>6. Append(out, rows[pos]) = out \o <<rows[pos]>>
      BY <3>5
    <3>7. out' = SubSeq(rows, 1, pos)
      BY <2>2, <3>1, <3>2, <3>3, <3>4, <3>6
    <3> QED BY <1>1, <2>2, <3>1, <3>2, <3>4, <3>7 DEF Heading
  <2>4. CASE HeadFull \/ EndHead
    <3>1. /\ out' = out \o <<>> /\ pc' = "exited" /\ inputs' = inputs /\ job' = job
          /\ (pos <= Len(rows) /\ pos - 1 >= job.lines) \/ pos > Len(rows)
      BY <2>2, <2>4 DEF HeadFull, EndHead, Reading, AtEnd, Exit, given
    <3>2. pos - 1 = IF job.lines < Len(rows) THEN job.lines ELSE Len(rows)
      BY <1>1, <1>4, <2>2, <3>1
    <3>3. out \in Seq(Range(rows))
      BY <1>4, <2>2
    <3>4. out' = SubSeq(rows, 1, IF job.lines < Len(rows) THEN job.lines ELSE Len(rows))
      BY <2>2, <3>1, <3>2, <3>3
    <3>5. AllRows' = rows
      BY <1>3, <3>1 DEF AllRows
    <3> QED BY <3>1, <3>4, <3>5 DEF LinesRight, Prints
  <2> QED BY <1>6, <2>3, <2>4
<1> QED BY <1>5, <1>6

\* csv-tail
LEMMA TailLines ==
    ASSUME LinesInv, job.tool = "tail", OpenTail \/ TailRow \/ EndTail
    PROVE  (pc' = "read" /\ out' = <<>>) \/ (pc' = "exited" /\ LinesRight')
<1>1. CASE OpenTail
  BY <1>1 DEF OpenTail, Opening, Start, LinesInv, LineTools
<1>2. CASE ~OpenTail
  <2>1. pc = "read" /\ out = <<>> /\ RingInv
    BY <1>2 DEF TailRow, EndTail, Reading, LinesInv, LineTools
  <2>2. CASE TailRow
    BY <2>1, <2>2 DEF TailRow, Continue
  <2>3. CASE EndTail
    <3>1. Ring
      BY <2>1 DEF RingInv
    <3>2. PICK rows, n : rows = AllRows /\ n = job.lines
      OBVIOUS
    <3>3. Rows = rows /\ in = 1
      BY <3>1, <3>2 DEF Ring, Rows, AllRows
    <3>4. rows \in Seq(Range(rows)) /\ Len(rows) \in Nat /\ n \in Nat
      BY <2>1, <3>2, <3>3, StreamFacts
    <3>5. pos \in 1 .. Len(rows) + 1 /\ (n = 0 => pos = 1)
      BY <3>1, <3>2, <3>3 DEF Ring
    <3>6. RingRows = SubSeq(SubSeq(rows, 1, pos - 1), IF pos - 1 > n THEN pos - n ELSE 1, pos - 1)
      BY <2>1, <3>2, <3>3, RingIsTail DEF RingHoldsLast, Consumed
    <3>7. out' = RingRows /\ pc' = "exited" /\ inputs' = inputs /\ job' = job /\ (pos > Len(rows) \/ n = 0)
      <4>1. out' = <<>> \o RingRows
        BY <2>1, <2>3 DEF EndTail, Exit
      <4>2. RingRows \in Seq(Range(rows))
        BY <3>4, <3>5, <3>6
      <4>3. <<>> \o RingRows = RingRows
        BY <4>2
      <4> QED BY <2>3, <3>2, <3>3, <4>1, <4>3 DEF EndTail, Exit, given
    <3>8. RingRows = IF n < Len(rows) THEN SubSeq(rows, Len(rows) - n + 1, Len(rows)) ELSE rows
      <4>1. CASE pos > Len(rows)
        <5>1. SubSeq(rows, 1, pos - 1) = rows /\ pos - 1 = Len(rows) /\ pos - n = Len(rows) - n + 1
          BY <3>4, <3>5, <4>1
        <5>2. SubSeq(rows, 1, Len(rows)) = rows
          BY <3>4
        <5> QED BY <3>4, <3>6, <5>1, <5>2
      <4>2. CASE n = 0
        <5>1. pos = 1 /\ RingRows = SubSeq(SubSeq(rows, 1, 0), 1, 0)
          BY <3>5, <3>6, <4>2
        <5>2. \A s : SubSeq(s, 1, 0) = <<>>
          OBVIOUS
        <5>3. SubSeq(rows, Len(rows) - n + 1, Len(rows)) = <<>>
          BY <3>4, <4>2
        <5>4. CASE n < Len(rows)
          BY <5>1, <5>2, <5>3, <5>4
        <5>5. CASE ~(n < Len(rows))
          BY <3>4, <4>2, <5>1, <5>2, <5>5, EmptySeq
        <5> QED BY <5>4, <5>5
      <4> QED BY <3>7, <4>1, <4>2
    <3>9. AllRows' = rows
      BY <3>2, <3>7 DEF AllRows
    <3> QED BY <3>2, <3>7, <3>8, <3>9 DEF LinesRight, Prints
  <2> QED BY <1>2, <2>2, <2>3
<1> QED BY <1>1, <1>2

\* csv-cat and csv-tac when they start
LEMMA OpenLines ==
    ASSUME LinesInv, job.tool \in {"cat", "tac"}, OpenFiles(job.tool)
    PROVE  (pc' = "read" /\ Filing') \/ (pc' = "exited" /\ status' = 2)
<1>1. in = 1 /\ pos = 1 /\ out = <<>> /\ RingInv
  BY DEF OpenFiles, Opening, LinesInv, LineTools
<1>2. CASE Fail
  BY <1>2 DEF Fail, Exit
<1>3. CASE ~Fail
  <2>1. /\ \A k \in DOMAIN inputs : Fits(k)
        /\ Start([k \in DOMAIN inputs |-> IndexIn(k)], Header, [lines |-> <<>>])
    BY <1>3 DEF OpenFiles
  <2>2. /\ job' = job /\ inputs' = inputs /\ in' = 1 /\ pos' = 1 /\ out' = <<>> /\ pc' = "read"
        /\ mem' = [lines |-> <<>>] /\ cols' = [k \in DOMAIN inputs |-> IndexIn(k)]
    BY <1>1, <2>1 DEF Start, given
  <2>3. in' \in 1 .. Len(inputs) /\ in' - 1 = 0 /\ Len(inputs[1].rows) \in Nat /\ 1 \in DOMAIN inputs
    BY <1>1, <2>2, InputFacts
  <2>4. PICK S : /\ \A k \in DOMAIN inputs : Copied(k) \in Seq(S)
                 /\ Inputs(0) = <<>>
    BY <1>1, CopiesType
  <2>5. /\ \A k : Copied(k)' = Copied(k) /\ (Fits(k)' <=> Fits(k)) /\ IndexIn(k)' = IndexIn(k)
        /\ \A n : Inputs(n)' = Inputs(n)
    BY <2>2, CopiesKept
  <2>6. (Inputs(in - 1) \o SubSeq(Copied(in), 1, pos - 1))' = <<>> /\ Inputs(in - 1)' = <<>>
    <3>1. \A s : SubSeq(s, 1, 0) = <<>>
      OBVIOUS
    <3>2. PICK c, i : c = Copied(1) /\ i = Inputs(0)
      OBVIOUS
    <3>3. Copied(1)' = c /\ Inputs(0)' = i /\ i = <<>>
      BY <2>4, <2>5, <3>2
    <3>4. (Inputs(in - 1))' = i /\ Copied(in)' = c
      BY <2>2, <2>3, <3>3 DEF Inputs, Copied, Turned
    <3> QED BY <2>2, <3>1, <3>3, <3>4
  <2>7. Rows' = inputs[1].rows /\ SubSeq(Rows, 1, 0)' = <<>>
    BY <2>2 DEF Rows
  <2>8. cols' = [k \in DOMAIN inputs' |-> IndexIn(k)']
    BY <2>2, <2>5
  <2>9. \A k \in DOMAIN inputs' : Fits(k)'
    BY <2>1, <2>2, <2>5
  <2>10. mem'.lines = SubSeq(Rows', 1, pos' - 1) /\ pos' \in 1 .. Len(Rows') + 1
    BY <2>2, <2>3, <2>7
  <2> QED BY <2>2, <2>3, <2>6, <2>8, <2>9, <2>10 DEF Filing
<1> QED BY <1>2, <1>3

\* What the next row, or the end of an input, does to what was printed
LEMMA FilingFacts ==
    ASSUME RingInv, Filing
    PROVE  /\ in \in DOMAIN inputs /\ Fits(in) /\ cols[in] = IndexIn(in)
           /\ Rows \in Seq(Range(Rows)) /\ Len(Rows) \in Nat /\ pos \in 1 .. Len(Rows) + 1
           /\ Len(Copied(in)) = Len(Rows)
           /\ pos <= Len(Rows) => Reordered(Row, cols[in]) = Copied(in)[pos]
<1>1. in \in DOMAIN inputs /\ Fits(in) /\ cols[in] = IndexIn(in)
  BY InputFacts DEF Filing
<1>2. Rows \in Seq(Range(Rows)) /\ Len(Rows) \in Nat /\ DOMAIN Rows = 1 .. Len(Rows)
  BY <1>1, InputFacts DEF Rows
<1>3. Len(Copied(in)) = Len(Rows)
  BY <1>1, CopiesType DEF Rows
<1>4. pos \in 1 .. Len(Rows) + 1
  BY DEF Filing
<1>5. pos <= Len(Rows) => Reordered(Row, cols[in]) = Copied(in)[pos]
  <2> SUFFICES ASSUME pos <= Len(Rows) PROVE Reordered(Row, cols[in]) = Copied(in)[pos]
    OBVIOUS
  <2>1. pos \in DOMAIN inputs[in].rows /\ Row = inputs[in].rows[pos]
    BY <1>2, <1>4 DEF Rows, Row
  <2> QED BY <1>1, <2>1, RowCopied
<1> QED BY <1>1, <1>2, <1>3, <1>4, <1>5

\* The same input goes on.
LEMMA FilingGoesOn ==
    ASSUME Filing, UNCHANGED <<job, inputs, in, cols>>, pos' \in 1 .. Len(Rows) + 1,
           job.tool = "cat" => out' = Inputs(in - 1) \o SubSeq(Copied(in), 1, pos' - 1),
           job.tool = "tac" => out' = Inputs(in - 1) /\ mem'.lines = SubSeq(Rows, 1, pos' - 1)
    PROVE  Filing'
<1>1. /\ \A k : Copied(k)' = Copied(k) /\ (Fits(k)' <=> Fits(k)) /\ IndexIn(k)' = IndexIn(k)
      /\ \A n : Inputs(n)' = Inputs(n)
  BY CopiesKept
<1>2. PICK i, n, c, p : i = in /\ n = in - 1 /\ c = Copied(i) /\ p = Inputs(n)
  OBVIOUS
<1>3. Copied(i)' = c /\ Inputs(n)' = p
  BY <1>1, <1>2
<1>4. Copied(in)' = c /\ Inputs(in - 1)' = p /\ c = Copied(in) /\ p = Inputs(in - 1)
  BY <1>2, <1>3 DEF Inputs, Copied, Turned
<1>5. Rows' = Rows
  BY DEF Rows
<1>6. in' \in 1 .. Len(inputs') /\ (\A k \in DOMAIN inputs' : Fits(k)')
      /\ cols' = [k \in DOMAIN inputs' |-> IndexIn(k)']
  BY <1>1 DEF Filing
<1> QED BY <1>4, <1>5, <1>6 DEF Filing

\* The next input begins.
LEMMA NextFiling ==
    ASSUME RingInv, Filing, UNCHANGED <<job, inputs, cols>>, in < Len(inputs), in' = in + 1, pos' = 1,
           job.tool \in {"cat", "tac"}, out' = Inputs(in), job.tool = "tac" => mem'.lines = <<>>
    PROVE  Filing'
<1>1. /\ \A k : Copied(k)' = Copied(k) /\ (Fits(k)' <=> Fits(k)) /\ IndexIn(k)' = IndexIn(k)
      /\ \A n : Inputs(n)' = Inputs(n)
  BY CopiesKept
<1>2. in \in 1 .. Len(inputs) /\ Len(inputs) \in Nat /\ DOMAIN inputs = 1 .. Len(inputs)
  BY InputFacts DEF Filing
<1>3. in' \in 1 .. Len(inputs') /\ in' - 1 = in /\ in + 1 \in DOMAIN inputs
  BY <1>2
<1>4. PICK n, c, p, i : n = in /\ i = in + 1 /\ p = Inputs(n) /\ c = Copied(i)
  OBVIOUS
<1>5. Inputs(n)' = p /\ Copied(i)' = c
  BY <1>1, <1>4
<1>6. Inputs(in - 1)' = p /\ Copied(in)' = c
  BY <1>3, <1>4, <1>5 DEF Inputs, Copied, Turned
<1>7. p \o SubSeq(c, 1, 0) = p
  <2>1. n \in 0 .. Len(inputs)
    BY <1>2, <1>4
  <2>2. PICK S : Inputs(n) \in Seq(S)
    BY <2>1, CopiesType
  <2>3. SubSeq(c, 1, 0) = <<>>
    OBVIOUS
  <2> QED BY <1>4, <2>2, <2>3
<1>8. Len(Rows') \in Nat
  BY <1>3, InputFacts DEF Rows
<1>9. (\A k \in DOMAIN inputs' : Fits(k)') /\ cols' = [k \in DOMAIN inputs' |-> IndexIn(k)']
  BY <1>1 DEF Filing
<1>10. pos' \in 1 .. Len(Rows') + 1 /\ pos' - 1 = 0
  BY <1>8
<1>11. SubSeq(Rows', 1, 0) = <<>>
  OBVIOUS
<1>12. (job.tool = "cat" => out = Inputs(in - 1) \o SubSeq(Copied(in), 1, pos - 1))'
  BY <1>4, <1>6, <1>7, <1>10
<1>13. (job.tool = "tac" => out = Inputs(in - 1) /\ mem.lines = SubSeq(Rows, 1, pos - 1))'
  BY <1>4, <1>6, <1>10, <1>11
<1> QED BY <1>3, <1>9, <1>10, <1>12, <1>13 DEF Filing

\* All inputs are printed.
LEMMA AllTurned ==
    ASSUME RingInv, job.tool \in {"cat", "tac"}, UNCHANGED <<job, inputs>>, out' = Inputs(Len(inputs))
    PROVE  LinesRight'
<1>1. DOMAIN inputs = 1 .. Len(inputs)
  BY InputFacts
<1>2. (out = Inputs(Len(inputs)))'
  <2>1. PICK n : n = Len(inputs)
    OBVIOUS
  <2>2. Inputs(n)' = Inputs(n)
    BY CopiesKept
  <2> QED BY <2>1, <2>2 DEF Inputs, Turned, Copied
<1>3. (FlattenSeq([k \in DOMAIN inputs |-> Turned(k)]) = Inputs(Len(inputs)))'
  BY <1>1 DEF Inputs
<1>4. (out = FlattenSeq([k \in DOMAIN inputs |-> Turned(k)]))'
  BY <1>2, <1>3
<1> QED BY <1>4 DEF LinesRight, Prints, Turned, Copied

\* csv-cat
LEMMA CatLines ==
    ASSUME LinesInv, job.tool = "cat", pc = "read", CatRow \/ EndCat
    PROVE  (pc' = "read" /\ Filing') \/ (pc' = "exited" /\ LinesRight')
<1>1. RingInv /\ Filing
  BY DEF LinesInv, LineTools
<1>2. PICK S : /\ \A k \in DOMAIN inputs : Copied(k) \in Seq(S) /\ Turned(k) \in Seq(S)
               /\ \A n \in 0 .. Len(inputs) : Inputs(n) \in Seq(S)
               /\ \A n \in 1 .. Len(inputs) : Inputs(n) = Inputs(n - 1) \o Turned(n)
  BY <1>1, CopiesType
<1>3. /\ in \in DOMAIN inputs /\ Len(Rows) \in Nat /\ pos \in 1 .. Len(Rows) + 1
      /\ Len(Copied(in)) = Len(Rows)
      /\ pos <= Len(Rows) => Reordered(Row, cols[in]) = Copied(in)[pos]
  BY <1>1, FilingFacts
<1>4. in \in 1 .. Len(inputs) /\ Len(inputs) \in Nat /\ in - 1 \in 0 .. Len(inputs) /\ in \in 0 .. Len(inputs)
  BY <1>1, <1>3, InputFacts
<1>5. PICK c, p : c = Copied(in) /\ p = Inputs(in - 1)
  OBVIOUS
<1>6. c \in Seq(S) /\ p \in Seq(S) /\ Len(c) = Len(Rows) /\ out = p \o SubSeq(c, 1, pos - 1)
  BY <1>1, <1>2, <1>3, <1>4, <1>5 DEF Filing
<1>7. CASE CatRow
  <2>1. /\ pos <= Len(Rows) /\ out' = out \o <<c[pos]>> /\ pos' = pos + 1 /\ pc' = "read"
        /\ UNCHANGED <<job, inputs, in, cols>>
    BY <1>3, <1>5, <1>7 DEF CatRow, Reading, Continue, given
  <2>2. SubSeq(c, 1, pos - 1 + 1) = Append(SubSeq(c, 1, pos - 1), c[pos - 1 + 1])
    BY <1>3, <1>6, <2>1, SubSeqGrows
  <2>3. pos - 1 + 1 = pos /\ pos' - 1 = pos /\ pos' \in 1 .. Len(Rows) + 1
    BY <1>3, <2>1
  <2>4. c[pos] \in S /\ SubSeq(c, 1, pos - 1) \in Seq(S)
    BY <1>3, <1>6, <2>1
  <2>5. (p \o SubSeq(c, 1, pos - 1)) \o <<c[pos]>> = p \o Append(SubSeq(c, 1, pos - 1), c[pos])
    <3>1. PICK b, e : b = SubSeq(c, 1, pos - 1) /\ e = c[pos]
      OBVIOUS
    <3>2. b \in Seq(S) /\ e \in S
      BY <2>4, <3>1
    <3>3. Append(b, e) = b \o <<e>>
      BY <3>2
    <3>4. (p \o b) \o <<e>> = p \o (b \o <<e>>)
      BY <1>6, <3>2
    <3> QED BY <3>1, <3>3, <3>4
  <2>6. out' = p \o SubSeq(c, 1, pos' - 1)
    BY <1>6, <2>1, <2>2, <2>3, <2>5
  <2> QED BY <1>1, <1>5, <2>1, <2>3, <2>6, FilingGoesOn
<1>8. CASE EndCat
  <2>1. pos - 1 = Len(Rows) /\ SubSeq(c, 1, pos - 1) = c
    BY <1>3, <1>6, <1>8 DEF EndCat, AtEnd
  <2>2. Turned(in) = c
    BY <1>5 DEF Turned
  <2>3. out = Inputs(in) /\ Inputs(in) \in Seq(S)
    BY <1>2, <1>4, <1>5, <1>6, <2>1, <2>2
  <2>4. out \o <<>> = Inputs(in)
    BY <2>3
  <2>5. CASE NextInput(<<>>, mem)
    <3>1. /\ out' = Inputs(in) /\ in < Len(inputs) /\ in' = in + 1 /\ pos' = 1
          /\ UNCHANGED <<job, inputs, cols>> /\ pc' = "read"
      BY <2>4, <2>5 DEF NextInput, given
    <3> QED BY <1>1, <3>1, NextFiling
  <2>6. CASE LastInput /\ Exit(0, <<>>)
    <3>1. out' = Inputs(Len(inputs)) /\ job' = job /\ inputs' = inputs /\ pc' = "exited"
      BY <2>4, <2>6 DEF LastInput, Exit, given
    <3> QED BY <1>1, <3>1, AllTurned
  <2> QED BY <1>8, <2>5, <2>6 DEF EndCat
<1> QED BY <1>7, <1>8

\* csv-tac
LEMMA TacLines ==
    ASSUME LinesInv, job.tool = "tac", pc = "read", TacRow \/ EndTac
    PROVE  (pc' = "read" /\ Filing') \/ (pc' = "exited" /\ LinesRight')
<1>1. RingInv /\ Filing
  BY DEF LinesInv, LineTools
<1>2. PICK S : /\ \A k \in DOMAIN inputs : Copied(k) \in Seq(S) /\ Turned(k) \in Seq(S)
               /\ \A n \in 0 .. Len(inputs) : Inputs(n) \in Seq(S)
               /\ \A n \in 1 .. Len(inputs) : Inputs(n) = Inputs(n - 1) \o Turned(n)
  BY <1>1, CopiesType
<1>3. /\ in \in DOMAIN inputs /\ Fits(in) /\ cols[in] = IndexIn(in)
      /\ Rows \in Seq(Range(Rows)) /\ Len(Rows) \in Nat /\ pos \in 1 .. Len(Rows) + 1
      /\ Len(Copied(in)) = Len(Rows)
  BY <1>1, FilingFacts
<1>4. in \in 1 .. Len(inputs) /\ Len(inputs) \in Nat /\ in - 1 \in 0 .. Len(inputs) /\ in \in 0 .. Len(inputs)
  BY <1>1, <1>3, InputFacts
<1>5. out = Inputs(in - 1) /\ mem.lines = SubSeq(Rows, 1, pos - 1)
  BY <1>1 DEF Filing
<1>6. CASE TacRow
  <2>1. /\ pos <= Len(Rows) /\ out' = out \o <<>> /\ pos' = pos + 1 /\ pc' = "read"
        /\ mem' = [lines |-> Append(mem.lines, Rows[pos])] /\ UNCHANGED <<job, inputs, in, cols>>
    BY <1>6 DEF TacRow, Reading, Continue, given, Row
  <2>2. PICK rows : rows = Rows
    OBVIOUS
  <2>3. SubSeq(rows, 1, pos - 1 + 1) = Append(SubSeq(rows, 1, pos - 1), rows[pos - 1 + 1])
    BY <1>3, <2>1, <2>2, SubSeqGrows
  <2>4. pos - 1 + 1 = pos /\ pos' - 1 = pos /\ pos' \in 1 .. Len(Rows) + 1
    BY <1>3, <2>1
  <2>5. mem'.lines = SubSeq(Rows, 1, pos' - 1)
    BY <1>5, <2>1, <2>2, <2>3, <2>4
  <2>6. out' = Inputs(in - 1)
    <3>1. Inputs(in - 1) \in Seq(S)
      BY <1>2, <1>4
    <3> QED BY <1>5, <2>1, <3>1
  <2> QED BY <1>1, <2>1, <2>4, <2>5, <2>6, FilingGoesOn
<1>7. CASE EndTac
  <2>1. pos - 1 = Len(Rows) /\ mem.lines = Rows
    <3>1. pos - 1 = Len(Rows)
      BY <1>3, <1>7 DEF EndTac, AtEnd
    <3>2. PICK rows : rows = Rows
      OBVIOUS
    <3>3. SubSeq(rows, 1, Len(rows)) = rows
      BY <1>3, <3>2
    <3> QED BY <1>5, <3>1, <3>2, <3>3
  <2>2. Reversed = Turned(in)
    <3>1. PICK rows, c : rows = Rows /\ c = Copied(in)
      OBVIOUS
    <3>2. \A r \in 1 .. Len(rows) : Reordered(rows[r], cols[in]) = c[r]
      <4>1. DOMAIN inputs[in].rows = 1 .. Len(rows)
        BY <1>1, <1>3, <3>1, InputFacts DEF Rows
      <4> QED BY <1>1, <1>3, <3>1, <4>1, RowCopied DEF Rows
    <3>3. DOMAIN rows = 1 .. Len(rows) /\ Len(c) = Len(rows)
      BY <1>3, <3>1
    <3>4. Reversed = [i \in 1 .. Len(rows) |-> Reordered(rows[Len(rows) + 1 - i], cols[in])]
      BY <2>1, <3>1, <3>3 DEF Reversed
    <3>5. \A i \in 1 .. Len(rows) :
             /\ Len(rows) + 1 - i \in 1 .. Len(rows)
             /\ Len(rows) + 1 - i = Len(rows) - i + 1
      BY <1>3, <3>1
    <3>6. Reverse(c) = [i \in 1 .. Len(rows) |-> c[Len(rows) - i + 1]]
      BY <3>3 DEF Reverse
    <3>7. Turned(in) = Reverse(c)
      BY <3>1 DEF Turned
    <3> QED BY <3>2, <3>4, <3>5, <3>6, <3>7
  <2>3. out \o Reversed = Inputs(in)
    BY <1>2, <1>4, <1>5, <2>2
  <2>4. CASE NextInput(Reversed, [lines |-> <<>>])
    <3>1. /\ out' = Inputs(in) /\ in < Len(inputs) /\ in' = in + 1 /\ pos' = 1 /\ mem'.lines = <<>>
          /\ UNCHANGED <<job, inputs, cols>> /\ pc' = "read"
      BY <2>3, <2>4 DEF NextInput, given
    <3> QED BY <1>1, <3>1, NextFiling
  <2>5. CASE LastInput /\ Exit(0, Reversed)
    <3>1. out' = Inputs(Len(inputs)) /\ job' = job /\ inputs' = inputs /\ pc' = "exited"
      BY <2>3, <2>5 DEF LastInput, Exit, given
    <3> QED BY <1>1, <3>1, AllTurned
  <2> QED BY <1>7, <2>4, <2>5 DEF EndTac
<1> QED BY <1>6, <1>7

\* A tool that stays as it is has printed what it had.
LEMMA LinesKept ==
    ASSUME LinesRight, UNCHANGED <<job, inputs, pc, status, out>>
    PROVE  LinesRight'
<1>1. (Printed' => Printed) /\ AllRows' = AllRows
  BY DEF Printed, AllRows
<1>2. FlattenSeq([k \in DOMAIN inputs |-> Turned(k)])' = FlattenSeq([k \in DOMAIN inputs |-> Turned(k)])
  BY CopiesKept
<1> QED BY <1>1, <1>2 DEF LinesRight, Prints, Turned, Copied

LEMMA LinesStep ==
    ASSUME LinesInv, [Next]_vars
    PROVE  LinesInv'
<1>1. RingInv'
  BY RingStep DEF LinesInv
<1>2. CASE UNCHANGED vars
  <2>1. UNCHANGED <<job, inputs, pc, status, in, pos, cols, mem, hdr, out>>
    BY <1>2 DEF vars, given
  <2>2. ASSUME Filing PROVE Filing'
    BY <2>1, <2>2, FilingGoesOn DEF Filing
  <2>3. ASSUME Heading PROVE Heading'
    BY <2>1, <2>3 DEF Heading, Rows
  <2>4. ASSUME job.tool \in LineTools, LinesRight PROVE LinesRight'
    BY <2>1, <2>4, LinesKept
  <2> QED BY <1>1, <2>1, <2>2, <2>3, <2>4 DEF LinesInv
<1>3. CASE Next
  <2>1. job' = job /\ inputs' = inputs
    BY <1>3, GivenKept DEF given
  <2>2. CASE job.tool \notin LineTools
    BY <1>1, <2>1, <2>2 DEF LinesInv
  <2>3. CASE Ended
    <3>1. UNCHANGED <<job, inputs, pc, status, hdr, out>> /\ pc \notin {"open", "read"}
      BY <2>3 DEF Ended, vars, given
    <3> QED BY <1>1, <3>1, LinesKept DEF LinesInv
  <2>4. CASE NextFilter /\ job.tool \in LineTools
    <3>1. ASSUME pc' = "read",
                 job.tool = "head" => Heading', job.tool = "tail" => out' = <<>>,
                 job.tool \in {"cat", "tac"} => Filing'
          PROVE  LinesInv'
      <4>1. LinesRight'
        BY <3>1 DEF LinesRight, Printed
      <4> QED BY <1>1, <2>1, <3>1, <4>1 DEF LinesInv
    <3>2. ASSUME pc' = "exited", LinesRight' PROVE LinesInv'
      BY <1>1, <3>2 DEF LinesInv
    <3>3. CASE job.tool = "head"
      <4>1. OpenHead \/ HeadFull \/ HeadRow \/ EndHead
        BY <2>4, <3>3, FilterSteps
      <4> QED BY <3>1, <3>2, <3>3, <4>1, HeadLines
    <3>4. CASE job.tool = "tail"
      <4>1. OpenTail \/ TailRow \/ EndTail
        BY <2>4, <3>4, FilterSteps
      <4> QED BY <3>1, <3>2, <3>4, <4>1, TailLines
    <3>5. CASE job.tool \in {"cat", "tac"}
      <4>1. \/ OpenFiles(job.tool)
            \/ job.tool = "cat" /\ pc = "read" /\ (CatRow \/ EndCat)
            \/ job.tool = "tac" /\ pc = "read" /\ (TacRow \/ EndTac)
        BY <2>4, <3>5, FilterSteps DEF CatRow, EndCat, TacRow, EndTac, Reading, AtEnd
      <4>2. CASE OpenFiles(job.tool)
        <5>1. ASSUME pc' = "exited", status' = 2 PROVE LinesRight'
          BY <5>1 DEF LinesRight, Printed
        <5> QED BY <3>1, <3>2, <3>5, <4>2, <5>1, OpenLines
      <4>3. CASE job.tool = "cat" /\ pc = "read" /\ (CatRow \/ EndCat)
        BY <3>1, <3>2, <4>3, CatLines
      <4>4. CASE job.tool = "tac" /\ pc = "read" /\ (TacRow \/ EndTac)
        BY <3>1, <3>2, <4>4, TacLines
      <4> QED BY <4>1, <4>2, <4>3, <4>4
    <3> QED BY <2>4, <3>3, <3>4, <3>5 DEF LineTools
  <2> QED BY <1>3, <2>2, <2>3, <2>4, LineSteps
<1> QED BY <1>2, <1>3

\* csv-head prints the first rows, csv-tail the last ones, csv-cat all rows of its
\* inputs and csv-tac those of each input in reverse order, with the values of the
\* later inputs under the columns of the first (src/src/head.c, tail.c, cat.c, tac.c):
\* for any number of lines, of inputs and of columns in any order.
THEOREM LinesPrinted == Spec => []LinesRight
<1>1. Init => LinesInv
  BY DEF Init, LinesInv, RingInv, LinesRight, Printed
<1>2. LinesInv /\ [Next]_vars => LinesInv'
  BY LinesStep
<1>3. LinesInv => LinesRight
  <2> SUFFICES ASSUME job.tool \notin LineTools PROVE LinesRight
    BY DEF LinesInv
  <2> QED BY DEF LinesRight, Prints, LineTools
<1> QED BY <1>1, <1>2, <1>3, PTL DEF Spec

-----------------------------------------------------------------------------
(* What csv-uniq, csv-grep, csv-cut and csv-count choose *)

\* csv-uniq: the rows of the table are compared with the last one before.
SameValues(r, s) == \A i \in Range(cols) : r[i] = s[i]
Repeated(k) ==
    \E b \in 1 .. k - 1 :
        /\ ~OfOtherTable(AllRows[b]) /\ SameValues(AllRows[b], AllRows[k])
        /\ \A d \in b + 1 .. k - 1 : OfOtherTable(AllRows[d])
NotRepeated == {k \in DOMAIN AllRows : OfOtherTable(AllRows[k]) \/ ~Repeated(k)}
Places == [k \in DOMAIN AllRows |-> k]
RowsAt(places) == [k \in DOMAIN places |-> Reordered(AllRows[places[k]], cols)]

Uniqing ==
    /\ ~TableMissing /\ ~ColumnMissing /\ cols = Selection
    /\ out = RowsAt(Those(Places, NotRepeated \cap (1 .. pos - 1)))
    /\ \/ /\ \A k \in 1 .. pos - 1 : OfOtherTable(AllRows[k])
          /\ mem = [j \in DOMAIN cols |-> None]
       \/ \E b \in 1 .. pos - 1 :
             /\ ~OfOtherTable(AllRows[b]) /\ \A d \in b + 1 .. pos - 1 : OfOtherTable(AllRows[d])
             /\ mem = Reordered(AllRows[b], cols)

\* csv-grep has printed the rows it has chosen.
Grepped ==
    {k \in DOMAIN AllRows :
        \/ OfOtherTable(AllRows[k])
        \/ job.invert <=> \A i \in DOMAIN job.patterns : AllRows[k][Chosen[i]] \notin job.patterns[i]}
Grepping ==
    /\ cols = Chosen
    /\ out = Those(AllRows, Grepped \cap (1 .. pos - 1))

\* csv-cut has printed the chosen columns of the rows it has read.
Cutting ==
    /\ ~CutFails /\ cols = Kept /\ hdr = Reordered(Header, Kept) /\ hdr # <<>>
    /\ out = [k \in 1 .. pos - 1 |-> Reordered(AllRows[k], Kept)]

ChoiceInv ==
    /\ StreamInv
    /\ pc = "read" =>
          /\ job.tool = "uniq" => Uniqing
          /\ job.tool = "grep" => Grepping
          /\ job.tool = "cut" => Cutting
          /\ job.tool = "count" => mem = [rows |-> pos - 1]
    /\ ChoiceRight

-----------------------------------------------------------------------------
\* A row is printed for one place more.
LEMMA RowsAtNext ==
    ASSUME NEW places \in Seq(Nat), NEW p \in Nat
    PROVE  RowsAt(Append(places, p)) = RowsAt(places) \o <<Reordered(AllRows[p], cols)>>
<1> DEFINE n == Len(places)
           more == Append(places, p)
           F(k) == Reordered(AllRows[k], cols)
           a == [k \in 1 .. n |-> F(places[k])]
           b == [k \in 1 .. n + 1 |-> F(more[k])]
<1>1. n \in Nat /\ DOMAIN places = 1 .. n /\ DOMAIN more = 1 .. n + 1 /\ more[n + 1] = p
      /\ \A k \in 1 .. n : more[k] = places[k]
  OBVIOUS
<1> HIDE DEF n, more, F
<1>2. RowsAt(places) = a /\ RowsAt(more) = b
  BY <1>1 DEF RowsAt, F, more
<1>3. Len(a) = n /\ a \in Seq({F(k) : k \in Nat})
  <2>1. \A k \in 1 .. n : places[k] \in Nat
    BY <1>1
  <2> QED BY <1>1, <2>1
<1>4. a \o <<F(p)>> = b
  <2>1. Append(a, F(p)) = b
    <3>1. \A k \in 1 .. n : b[k] = a[k]
      BY <1>1
    <3>2. b[n + 1] = F(p)
      BY <1>1
    <3>3. b \in Seq({F(k) : k \in Nat})
      <4>1. \A k \in 1 .. n + 1 : more[k] \in Nat
        BY <1>1 DEF more
      <4> QED BY <1>1, <4>1
    <3> HIDE DEF b
    <3>4. DOMAIN b = 1 .. n + 1 /\ Len(b) = n + 1
      BY <1>1 DEF b
    <3> HIDE DEF a
    <3> QED BY <1>1, <1>3, <3>1, <3>2, <3>3, <3>4
  <2>2. a \o <<F(p)>> = Append(a, F(p))
    <3> HIDE DEF a, b
    <3> QED BY <1>3, OneMore
  <2> QED BY <2>1, <2>2
<1> QED BY <1>2, <1>4 DEF F, more

LEMMA PlacesFacts ==
    ASSUME Len(AllRows) \in Nat, DOMAIN AllRows = 1 .. Len(AllRows), NEW p
    PROVE  /\ Len(Places) = Len(AllRows) /\ \A k \in 1 .. Len(AllRows) : Places[k] = k
           /\ Those(Places, p) \in Seq(Nat)
<1>1. Places = [k \in 1 .. Len(AllRows) |-> k]
  BY DEF Places
<1>2. Places \in Seq(Nat) /\ Len(Places) = Len(AllRows)
  BY <1>1
<1> QED BY <1>1, <1>2, ThoseType

\* What csv-uniq has in hand
LEMMA UniqFacts ==
    ASSUME StreamInv, job.tool = "uniq", pc = "read", pos <= Len(Rows), Uniqing
    PROVE  /\ Row = AllRows[pos] /\ pos \in 1 .. Len(AllRows) /\ pos - 1 \in 0 .. Len(AllRows) - 1
           /\ DOMAIN AllRows = 1 .. Len(AllRows) /\ Len(AllRows) \in Nat
           /\ cols \in Seq(DOMAIN Header) /\ 1 \in DOMAIN cols
           /\ \A j \in DOMAIN cols : AllRows[pos][cols[j]] # None
<1>1. /\ Rows = AllRows /\ pos \in 1 .. Len(AllRows) + 1 /\ Len(AllRows) \in Nat /\ DOMAIN AllRows = 1 .. Len(AllRows)
      /\ \A k \in DOMAIN AllRows : AllRows[k] \in [DOMAIN Header -> Seq(Int)]
  BY GivenStream DEF SeveralInputs
<1>2. pos \in 1 .. Len(AllRows) /\ Row = AllRows[pos] /\ pos - 1 \in 0 .. Len(AllRows) - 1
  BY <1>1 DEF Row
<1>3. /\ Selection \in Seq(DOMAIN Header) /\ Chosen \in Seq(DOMAIN Header) /\ Others \in Seq(DOMAIN Header)
      /\ Selection = (IF job.table = NoTable THEN <<>> ELSE <<TableAt>>) \o Chosen \o Others
      /\ job.table # NoTable => TableAt \in DOMAIN Header
  BY GivenSelection DEF Uniqing
<1>4. Len(Chosen) \in Nat \ {0}
  <2>1. job.columns # <<>> /\ job.columns \in Seq(Range(job.columns))
    BY RowStreamsAssumption DEF StreamInv
  <2>2. Len(job.columns) \in Nat \ {0}
    <3>1. PICK c : c = job.columns
      OBVIOUS
    <3>2. c # <<>> /\ c \in Seq(Range(c))
      BY <2>1, <3>1
    <3> QED BY <3>1, <3>2
  <2> QED BY <2>2, GivenColumns DEF StreamInv
<1>5. 1 \in DOMAIN Selection
  <2> DEFINE front == IF job.table = NoTable THEN <<>> ELSE <<TableAt>>
  <2>1. front \in Seq(DOMAIN Header)
    <3>1. CASE job.table = NoTable
      BY <3>1
    <3>2. CASE job.table # NoTable
      BY <1>3, <3>2
    <3> QED BY <3>1, <3>2
  <2> HIDE DEF front
  <2>2. Selection = front \o Chosen \o Others
    BY <1>3 DEF front
  <2> QED BY <1>3, <1>4, <2>1, <2>2
<1>6. cols = Selection
  BY DEF Uniqing
<1>7. \A j \in DOMAIN cols : cols[j] \in DOMAIN Header
  BY <1>3, <1>6
<1>8. None \notin Seq(Int)
  BY RowStreamsAssumption
<1>9. ASSUME NEW j \in DOMAIN cols PROVE AllRows[pos][cols[j]] # None
  BY <1>1, <1>2, <1>7, <1>8
<1> QED BY <1>1, <1>2, <1>3, <1>5, <1>6, <1>9

\* Its memory decides whether a row repeats the one before.
LEMMA UniqDecides ==
    ASSUME StreamInv, job.tool = "uniq", pc = "read", pos <= Len(Rows), Uniqing, ~OfOtherTable(Row),
           NEW row, row = Reordered(Row, cols)
    PROVE  (\E j \in DOMAIN row : row[j] # mem[j]) <=> pos \in NotRepeated
<1>1. /\ Row = AllRows[pos] /\ pos \in 1 .. Len(AllRows)
      /\ DOMAIN AllRows = 1 .. Len(AllRows) /\ Len(AllRows) \in Nat
      /\ cols \in Seq(DOMAIN Header) /\ 1 \in DOMAIN cols
      /\ \A j \in DOMAIN cols : AllRows[pos][cols[j]] # None
  BY UniqFacts
<1>2. DOMAIN row = DOMAIN cols /\ \A j \in DOMAIN cols : row[j] = AllRows[pos][cols[j]]
  BY <1>1 DEF Reordered
<1>3. pos \in NotRepeated <=> ~Repeated(pos)
  BY <1>1 DEF NotRepeated
<1>4. CASE /\ \A k \in 1 .. pos - 1 : OfOtherTable(AllRows[k])
           /\ mem = [j \in DOMAIN cols |-> None]
  <2>1. ~Repeated(pos)
    BY <1>4 DEF Repeated
  <2>2. row[1] # mem[1]
    BY <1>1, <1>2, <1>4
  <2> QED BY <1>1, <1>2, <1>3, <2>1, <2>2
<1>5. CASE \E b \in 1 .. pos - 1 :
             /\ ~OfOtherTable(AllRows[b]) /\ \A d \in b + 1 .. pos - 1 : OfOtherTable(AllRows[d])
             /\ mem = Reordered(AllRows[b], cols)
  <2>1. PICK b \in 1 .. pos - 1 :
             /\ ~OfOtherTable(AllRows[b]) /\ \A d \in b + 1 .. pos - 1 : OfOtherTable(AllRows[d])
             /\ mem = Reordered(AllRows[b], cols)
    BY <1>5
  <2>2. \A j \in DOMAIN cols : mem[j] = AllRows[b][cols[j]]
    BY <2>1 DEF Reordered
  <2>3. SameValues(AllRows[b], AllRows[pos]) <=> ~\E j \in DOMAIN row : row[j] # mem[j]
    BY <1>2, <2>2 DEF SameValues, Range
  <2>4. Repeated(pos) <=> SameValues(AllRows[b], AllRows[pos])
    <3>1. ASSUME NEW c \in 1 .. pos - 1, ~OfOtherTable(AllRows[c]),
                 \A d \in c + 1 .. pos - 1 : OfOtherTable(AllRows[d])
          PROVE  c = b
      <4>1. ~(c < b) /\ ~(b < c)
        BY <1>1, <2>1, <3>1
      <4> QED BY <1>1, <4>1
    <3> QED BY <2>1, <3>1 DEF Repeated
  <2> QED BY <1>3, <2>3, <2>4
<1> QED BY <1>4, <1>5 DEF Uniqing

\* What the terms of csv-uniq are made of stays.
LEMMA UniqStays ==
    ASSUME UNCHANGED <<job, inputs, cols>>
    PROVE  /\ Places' = Places /\ NotRepeated' = NotRepeated
           /\ \A places : RowsAt(places)' = RowsAt(places)
           /\ \A r : Reordered(r, cols)' = Reordered(r, cols)
           /\ (TableMissing' <=> TableMissing) /\ (ColumnMissing' <=> ColumnMissing)
<1>1. /\ Header' = Header /\ AllRows' = AllRows /\ Chosen' = Chosen /\ TableAt' = TableAt
      /\ \A r : OfOtherTable(r)' <=> OfOtherTable(r)
  BY TermsStay
<1>2. \A k : Repeated(k)' <=> Repeated(k)
  BY <1>1 DEF Repeated, SameValues
<1>3. NotRepeated' = NotRepeated /\ Places' = Places
  BY <1>1, <1>2 DEF NotRepeated, Places
<1>4. (TableMissing' <=> TableMissing) /\ (ColumnMissing' <=> ColumnMissing)
  BY <1>1 DEF TableMissing, ColumnMissing
<1> QED BY <1>1, <1>3, <1>4 DEF RowsAt, Reordered

LEMMA UniqRead ==
    ASSUME StreamInv, job.tool = "uniq", pc = "read", Uniqing, PassOn("uniq") \/ UniqRow
    PROVE  Uniqing'
<1> DEFINE row == Reordered(Row, cols)
           shown(n) == Those(Places, NotRepeated \cap (1 .. n))
<1>1. pos <= Len(Rows) /\ UNCHANGED <<job, inputs, cols>> /\ pos' = pos + 1
  BY DEF PassOn, UniqRow, Reading, Continue, given
<1>2. /\ Row = AllRows[pos] /\ pos \in 1 .. Len(AllRows) /\ pos - 1 \in 0 .. Len(AllRows) - 1
      /\ DOMAIN AllRows = 1 .. Len(AllRows) /\ Len(AllRows) \in Nat
  BY <1>1, UniqFacts
<1>3. /\ shown(pos) = IF pos \in NotRepeated THEN Append(shown(pos - 1), pos) ELSE shown(pos - 1)
      /\ shown(pos - 1) \in Seq(Nat)
  <2>1. Len(Places) = Len(AllRows) /\ Places[pos] = pos /\ shown(pos - 1) \in Seq(Nat)
    BY <1>2, PlacesFacts
  <2>2. pos \in 1 .. Len(Places) /\ Len(Places) \in Nat
    BY <1>2, <2>1
  <2>3. shown(pos) = IF pos \in NotRepeated THEN Append(shown(pos - 1), Places[pos]) ELSE shown(pos - 1)
    BY <2>2, ThoseNext
  <2> HIDE DEF shown
  <2> QED BY <2>1, <2>3
<1>4. out = RowsAt(shown(pos - 1)) /\ cols = Selection /\ ~TableMissing /\ ~ColumnMissing
  BY DEF Uniqing
<1>5. RowsAt(Append(shown(pos - 1), pos)) = RowsAt(shown(pos - 1)) \o <<row>>
  <2> HIDE DEF shown
  <2> QED BY <1>2, <1>3, RowsAtNext
<1>6. out \o <<>> = out
  <2>1. out \in Seq(Range(out))
    <3>1. \E n \in Nat : DOMAIN shown(pos - 1) = 1 .. n
      BY <1>3
    <3>2. PICK n \in Nat : DOMAIN out = 1 .. n /\ out = [k \in 1 .. n |-> out[k]]
      BY <1>4, <3>1 DEF RowsAt
    <3>3. \A k \in 1 .. n : out[k] \in Range(out)
      BY <3>2 DEF Range
    <3> QED BY <3>2, <3>3
  <2> QED BY <2>1
<1>7. out' = RowsAt(shown(pos))
  <2>1. CASE PassOn("uniq")
    <3>1. out' = out \o <<row>> /\ pos \in NotRepeated
      BY <1>2, <2>1 DEF PassOn, Continue, NotRepeated
    <3> HIDE DEF shown, row
    <3> QED BY <1>3, <1>4, <1>5, <3>1
  <2>2. CASE UniqRow
    <3>1. out' = out \o (IF pos \in NotRepeated THEN <<row>> ELSE <<>>)
      <4>1. out' = out \o (IF \E j \in DOMAIN row : row[j] # mem[j] THEN <<row>> ELSE <<>>) /\ ~OfOtherTable(Row)
        BY <2>2 DEF UniqRow, Continue
      <4> HIDE DEF row
      <4>2. (\E j \in DOMAIN row : row[j] # mem[j]) <=> pos \in NotRepeated
        BY <1>1, <4>1, UniqDecides DEF row
      <4> QED BY <4>1, <4>2
    <3> HIDE DEF shown, row
    <3> QED BY <1>3, <1>4, <1>5, <1>6, <3>1
  <2> QED BY <2>1, <2>2
<1>8. \/ /\ \A k \in 1 .. pos : OfOtherTable(AllRows[k])
         /\ mem' = [j \in DOMAIN cols |-> None]
      \/ \E b \in 1 .. pos :
             /\ ~OfOtherTable(AllRows[b]) /\ \A d \in b + 1 .. pos : OfOtherTable(AllRows[d])
             /\ mem' = Reordered(AllRows[b], cols)
  <2>1. CASE PassOn("uniq")
    <3>1. mem' = mem /\ OfOtherTable(AllRows[pos])
      BY <1>2, <2>1 DEF PassOn, Continue
    <3>2. \A k \in 1 .. pos : k = pos \/ k \in 1 .. pos - 1
      BY <1>2
    <3>3. CASE /\ \A k \in 1 .. pos - 1 : OfOtherTable(AllRows[k])
               /\ mem = [j \in DOMAIN cols |-> None]
      BY <3>1, <3>2, <3>3
    <3>4. CASE \E b \in 1 .. pos - 1 :
             /\ ~OfOtherTable(AllRows[b]) /\ \A d \in b + 1 .. pos - 1 : OfOtherTable(AllRows[d])
             /\ mem = Reordered(AllRows[b], cols)
      <4>1. PICK b \in 1 .. pos - 1 :
             /\ ~OfOtherTable(AllRows[b]) /\ \A d \in b + 1 .. pos - 1 : OfOtherTable(AllRows[d])
             /\ mem = Reordered(AllRows[b], cols)
        BY <3>4
      <4>2. b \in 1 .. pos /\ \A d \in b + 1 .. pos : d = pos \/ d \in b + 1 .. pos - 1
        BY <1>2
      <4> QED BY <3>1, <4>1, <4>2
    <3> QED BY <3>3, <3>4 DEF Uniqing
  <2>2. CASE UniqRow
    <3>1. mem' = Reordered(AllRows[pos], cols) /\ ~OfOtherTable(AllRows[pos])
      BY <1>2, <2>2 DEF UniqRow, Continue
    <3>2. pos \in 1 .. pos /\ pos + 1 .. pos = {}
      BY <1>2
    <3> QED BY <3>1, <3>2
  <2> QED BY <2>1, <2>2
<1>9. /\ Places' = Places /\ NotRepeated' = NotRepeated /\ \A places : RowsAt(places)' = RowsAt(places)
      /\ (TableMissing' <=> TableMissing) /\ (ColumnMissing' <=> ColumnMissing)
      /\ \A r : Reordered(r, cols)' = Reordered(r, cols)
  BY <1>1, UniqStays
<1>10. AllRows' = AllRows /\ Selection' = Selection /\ \A r : OfOtherTable(r)' <=> OfOtherTable(r)
  BY <1>1, TermsStay
<1>11. pos' - 1 = pos
  BY <1>1, <1>2
<1>12. Those(Places, NotRepeated \cap (1 .. pos - 1))' = shown(pos)
  BY <1>9, <1>11
<1>13. (out = RowsAt(Those(Places, NotRepeated \cap (1 .. pos - 1))))'
  <2> HIDE DEF shown
  <2> QED BY <1>1, <1>7, <1>9, <1>10, <1>12 DEF RowsAt, Reordered
<1>14. \/ /\ \A k \in 1 .. pos' - 1 : OfOtherTable(AllRows[k])'
          /\ mem' = [j \in DOMAIN cols' |-> None]
       \/ \E b \in 1 .. pos' - 1 :
             /\ ~OfOtherTable(AllRows[b])' /\ \A d \in b + 1 .. pos' - 1 : OfOtherTable(AllRows[d])'
             /\ mem' = Reordered(AllRows[b], cols)'
  <2>1. \A k : /\ OfOtherTable(AllRows[k])' <=> OfOtherTable(AllRows[k])
               /\ Reordered(AllRows[k], cols)' = Reordered(AllRows[k], cols)
    BY <1>1, <1>10 DEF OfOtherTable, TableAt, Reordered, Header
  <2> QED BY <1>1, <1>8, <1>11, <2>1
<1>15. cols' = Selection' /\ ~TableMissing' /\ ~ColumnMissing'
  BY <1>1, <1>4, <1>9, <1>10
<1> QED BY <1>13, <1>14, <1>15 DEF Uniqing

LEMMA UniqOpen ==
    ASSUME StreamInv, job.tool = "uniq", OpenUniq, pc' = "read"
    PROVE  Uniqing'
<1>1. /\ UNCHANGED <<job, inputs, pos, out>> /\ cols' = Selection /\ mem' = [j \in DOMAIN Selection |-> None]
      /\ ~TableMissing /\ ~ColumnMissing /\ pos = 1 /\ out = <<>>
  BY DEF OpenUniq, Opening, Start, Fail, Exit, given, StreamInv
<1>2. /\ AllRows' = AllRows /\ Selection' = Selection /\ \A r : OfOtherTable(r)' <=> OfOtherTable(r)
      /\ Header' = Header /\ Chosen' = Chosen /\ TableAt' = TableAt
  BY <1>1, TermsStay
<1>3. Len(AllRows) \in Nat /\ DOMAIN AllRows = 1 .. Len(AllRows)
  BY GivenStream DEF SeveralInputs
<1>4. Places' = Places /\ Len(Places) = Len(AllRows)
  BY <1>2, <1>3, PlacesFacts DEF Places
<1>5. Those(Places, NotRepeated \cap (1 .. pos - 1))' = <<>>
  <2>1. pos' - 1 = 0
    BY <1>1
  <2>2. \A p : Those(Places, p \cap (1 .. 0)) = <<>>
    BY <1>3, <1>4, ThoseNoneYet
  <2> QED BY <1>4, <2>1, <2>2
<1>6. out' = RowsAt(Those(Places, NotRepeated \cap (1 .. pos - 1)))'
  <2>1. RowsAt(<<>>)' = <<>>
    BY DEF RowsAt
  <2> QED BY <1>1, <1>5, <2>1 DEF RowsAt
<1>7. ~TableMissing' /\ ~ColumnMissing' /\ cols' = Selection'
  BY <1>1, <1>2 DEF TableMissing, ColumnMissing
<1>8. (\A k \in 1 .. pos - 1 : OfOtherTable(AllRows[k]))' /\ mem' = [j \in DOMAIN cols' |-> None]
  BY <1>1
<1> QED BY <1>6, <1>7, <1>8 DEF Uniqing

LEMMA UniqEnds ==
    ASSUME StreamInv, job.tool = "uniq", pc = "read", Uniqing, EndUniq
    PROVE  ChoiceRight'
<1>1. UNCHANGED <<job, inputs, cols, pos>> /\ out' = out \o <<>> /\ pos > Len(Rows)
  BY DEF EndUniq, AtEnd, Exit, given
<1>2. Rows = AllRows /\ pos \in 1 .. Len(AllRows) + 1 /\ Len(AllRows) \in Nat /\ DOMAIN AllRows = 1 .. Len(AllRows)
  BY GivenStream DEF SeveralInputs
<1>3. pos - 1 = Len(AllRows)
  BY <1>1, <1>2
<1>4. Len(Places) = Len(AllRows) /\ \A p : Those(Places, p) \in Seq(Nat)
  BY <1>2, PlacesFacts
<1>5. Those(Places, NotRepeated \cap (1 .. pos - 1)) = Those(Places, NotRepeated)
  BY <1>2, <1>3, <1>4, ThoseAll
<1>6. out = RowsAt(Those(Places, NotRepeated))
  BY <1>5 DEF Uniqing
<1>7. out \o <<>> = out
  <2> DEFINE shown == Those(Places, NotRepeated)
  <2>1. shown \in Seq(Nat)
    BY <1>4
  <2> HIDE DEF shown
  <2>2. PICK n \in Nat : DOMAIN shown = 1 .. n
    BY <2>1
  <2>3. out = [k \in 1 .. n |-> Reordered(AllRows[shown[k]], cols)]
    BY <1>6, <2>2 DEF RowsAt, shown
  <2>4. out \in Seq(Range(out))
    <3>1. \A k \in 1 .. n : out[k] \in Range(out)
      BY <2>3 DEF Range
    <3> QED BY <2>3, <3>1
  <2> QED BY <2>4
<1>8. out' = RowsAt(Those(Places, NotRepeated))'
  <2>1. Places' = Places /\ NotRepeated' = NotRepeated /\ \A places : RowsAt(places)' = RowsAt(places)
    BY <1>1, UniqStays
  <2>2. AllRows' = AllRows /\ Those(Places, NotRepeated)' = Those(Places, NotRepeated)
    BY <1>1, <2>1, TermsStay
  <2> QED BY <1>1, <1>6, <1>7, <2>2 DEF RowsAt, Reordered
<1>9. job'.tool = "uniq"
  BY <1>1
<1> QED BY <1>8, <1>9 DEF ChoiceRight, RowsAt, NotRepeated, Places, Repeated, SameValues, Prints

-----------------------------------------------------------------------------
\* csv-grep
LEMMA GrepStays ==
    ASSUME UNCHANGED <<job, inputs>>
    PROVE  Grepped' = Grepped
<1>1. /\ Header' = Header /\ AllRows' = AllRows /\ Chosen' = Chosen
      /\ \A r : OfOtherTable(r)' <=> OfOtherTable(r)
  BY TermsStay
<1> QED BY <1>1 DEF Grepped

LEMMA GrepOpen ==
    ASSUME StreamInv, job.tool = "grep", OpenGrep, pc' = "read"
    PROVE  Grepping'
<1>1. UNCHANGED <<job, inputs, pos, out>> /\ cols' = Chosen /\ pos = 1 /\ out = <<>>
  BY DEF OpenGrep, Opening, Start, Fail, Exit, given, StreamInv
<1>2. AllRows' = AllRows /\ Chosen' = Chosen
  BY <1>1, TermsStay
<1>3. Len(AllRows) \in Nat /\ DOMAIN AllRows = 1 .. Len(AllRows)
  BY GivenStream DEF SeveralInputs
<1>4. Those(AllRows, Grepped \cap (1 .. pos - 1))' = <<>>
  <2>1. pos' - 1 = 0 /\ \A p : Those(AllRows, p \cap (1 .. 0)) = <<>>
    BY <1>1, <1>3, ThoseNoneYet
  <2> QED BY <1>2, <2>1
<1> QED BY <1>1, <1>2, <1>4 DEF Grepping

LEMMA GrepRead ==
    ASSUME StreamInv, job.tool = "grep", pc = "read", Grepping, GrepRow
    PROVE  Grepping'
<1> DEFINE shown(n) == Those(AllRows, Grepped \cap (1 .. n))
           some == \E i \in DOMAIN job.patterns : Matches(i)
           selected == OfOtherTable(Row) \/ (some # job.invert)
<1>1. /\ UNCHANGED <<job, inputs, cols>> /\ pos <= Len(Rows) /\ pos' = pos + 1
      /\ out' = out \o (IF selected THEN <<Row>> ELSE <<>>)
  BY DEF GrepRow, Reading, Continue, given
<1>2. /\ Rows = AllRows /\ pos \in 1 .. Len(AllRows) + 1 /\ Len(AllRows) \in Nat /\ DOMAIN AllRows = 1 .. Len(AllRows)
      /\ AllRows \in Seq(Range(AllRows))
  BY GivenStream DEF SeveralInputs
<1>3. Row = AllRows[pos] /\ pos \in 1 .. Len(AllRows) /\ AllRows[pos] \in Range(AllRows)
  BY <1>1, <1>2 DEF Row, Range
<1>4. selected <=> pos \in Grepped
  <2>1. some <=> ~\A i \in DOMAIN job.patterns : AllRows[pos][Chosen[i]] \notin job.patterns[i]
    BY <1>3 DEF Matches, Grepping
  <2>2. job.invert \in BOOLEAN
    BY RowStreamsAssumption DEF StreamInv
  <2>3. pos \in Grepped <=> (OfOtherTable(AllRows[pos]) \/
           (job.invert <=> \A i \in DOMAIN job.patterns : AllRows[pos][Chosen[i]] \notin job.patterns[i]))
    BY <1>2, <1>3 DEF Grepped
  <2> HIDE DEF some
  <2>4. some \in BOOLEAN
    BY DEF some
  <2>5. (some # job.invert) <=> (job.invert <=> ~some)
    BY <2>2, <2>4, Zenon
  <2> QED BY <1>3, <2>1, <2>3, <2>5
<1>5. shown(pos) = IF pos \in Grepped THEN Append(shown(pos - 1), AllRows[pos]) ELSE shown(pos - 1)
  BY <1>2, <1>3, ThoseNext
<1>6. shown(pos - 1) \in Seq(Range(AllRows))
  BY <1>2, ThoseType
<1>7. out' = shown(pos)
  <2> HIDE DEF shown, selected
  <2>1. out = shown(pos - 1)
    BY DEF Grepping, shown
  <2>2. out \o <<AllRows[pos]>> = Append(out, AllRows[pos]) /\ out \o <<>> = out
    BY <1>3, <1>6, <2>1, OneMore
  <2> QED BY <1>1, <1>3, <1>4, <1>5, <2>1, <2>2
<1>8. AllRows' = AllRows /\ Chosen' = Chosen /\ Grepped' = Grepped
  BY <1>1, TermsStay, GrepStays
<1>9. pos' - 1 = pos
  BY <1>1, <1>2
<1>10. shown(pos) = Those(AllRows, Grepped \cap (1 .. pos - 1))'
  BY <1>8, <1>9
<1> HIDE DEF shown
<1> QED BY <1>1, <1>7, <1>8, <1>10 DEF Grepping

LEMMA GrepEnds ==
    ASSUME StreamInv, job.tool = "grep", pc = "read", Grepping, EndGrep
    PROVE  ChoiceRight'
<1>1. UNCHANGED <<job, inputs, cols, pos>> /\ out' = out \o <<>> /\ pos > Len(Rows)
  BY DEF EndGrep, AtEnd, Exit, given
<1>2. /\ Rows = AllRows /\ pos \in 1 .. Len(AllRows) + 1 /\ Len(AllRows) \in Nat
      /\ AllRows \in Seq(Range(AllRows))
  BY GivenStream DEF SeveralInputs
<1>3. pos - 1 = Len(AllRows)
  BY <1>1, <1>2
<1>4. out = Those(AllRows, Grepped) /\ out \in Seq(Range(AllRows))
  BY <1>2, <1>3, ThoseAll, ThoseType DEF Grepping
<1>5. out' = Those(AllRows, Grepped)
  BY <1>1, <1>4
<1>6. AllRows' = AllRows /\ Grepped' = Grepped
  BY <1>1, TermsStay, GrepStays
<1>7. out' = Those(AllRows, Grepped)' /\ job'.tool = "grep"
  BY Zenon, <1>1, <1>5, <1>6
<1> QED BY <1>7 DEF ChoiceRight, Grepped, Prints

-----------------------------------------------------------------------------
\* csv-count
LEMMA CountEnds ==
    ASSUME StreamInv, job.tool = "count", pc = "read", mem = [rows |-> pos - 1], EndCount
    PROVE  ChoiceRight'
<1>1. /\ UNCHANGED <<job, inputs>>
      /\ out' = <<(IF job.c THEN <<<<Len(Header)>>>> ELSE <<>>) \o (IF job.r THEN <<<<mem.rows>>>> ELSE <<>>)>>
      /\ pos > Len(Rows) \/ ~(job.r \/ job.R)
  BY DEF EndCount, given
<1>2. Rows = AllRows /\ pos \in 1 .. Len(AllRows) + 1 /\ Len(AllRows) \in Nat /\ Len(Header) \in Nat
  BY GivenStream DEF SeveralInputs
<1>3. job.r => mem.rows = Len(AllRows)
  BY <1>1, <1>2
<1>4. job.c => out'[1][1] = <<Len(Header)>>
  <2>1. CASE job.c /\ job.r
    BY <1>1, <2>1
  <2>2. CASE job.c /\ ~job.r
    BY <1>1, <2>2
  <2> QED BY <2>1, <2>2
<1>5. job.r => Last(out'[1]) = <<Len(AllRows)>>
  <2>1. CASE job.c /\ job.r
    BY <1>1, <1>3, <2>1 DEF Last
  <2>2. CASE ~job.c /\ job.r
    BY <1>1, <1>3, <2>2 DEF Last
  <2> QED BY <2>1, <2>2
<1>6. AllRows' = AllRows /\ Header' = Header
  BY <1>1, TermsStay
<1> QED BY <1>1, <1>4, <1>5, <1>6 DEF ChoiceRight, Prints

-----------------------------------------------------------------------------
\* csv-cut
LEMMA CutStays ==
    ASSUME UNCHANGED <<job, inputs>>
    PROVE  /\ Kept' = Kept /\ (CutFails' <=> CutFails)
           /\ \A r : Reordered(r, Kept)' = Reordered(r, Kept)
<1>1. /\ Header' = Header /\ Chosen' = Chosen /\ TableAt' = TableAt /\ Indices' = Indices /\ Selection' = Selection
  BY TermsStay
<1>2. Dropped' = Dropped /\ (TableMissing' <=> TableMissing) /\ (ColumnMissing' <=> ColumnMissing) /\ (Twice' <=> Twice)
  BY <1>1 DEF Dropped, TableMissing, ColumnMissing, Twice, IsInjective
<1> QED BY <1>1, <1>2 DEF Kept, CutFails, Reordered

\* What csv-cut promises, of what it prints for a stream
CutPromise(printed, header, from, rows, chosen, reverse) ==
    /\ header # <<>> => Len(printed) = Len(rows)
    /\ IsInjective(from) =>
          /\ reverse => Range(header) = Range(from) \ {from[i] : i \in Range(chosen)}
          /\ \A k \in DOMAIN printed, j \in DOMAIN header : printed[k][j] = Under(rows[k], from, header[j])

LEMMA CutPromised ==
    ASSUME UNCHANGED <<job, inputs>>, job.tool = "cut",
           CutPromise(out', hdr', Header, AllRows, Chosen, job.reverse)
    PROVE  ChoiceRight'
<1>1. Header' = Header /\ AllRows' = AllRows /\ Chosen' = Chosen /\ job' = job
  BY TermsStay
<1>2. CutPromise(out', hdr', Header', AllRows', Chosen', job'.reverse)
  BY <1>1
<1>3. job'.tool = "cut"
  BY <1>1
<1> QED BY <1>2, <1>3 DEF ChoiceRight, CutPromise, IsInjective, Under, Range, SelectInSeq, Prints

\* The columns that csv-cut keeps
LEMMA KeptType ==
    ASSUME StreamInv, job.tool = "cut", ~CutFails
    PROVE  /\ Kept \in Seq(DOMAIN Header)
           /\ Len(Header) \in Nat /\ DOMAIN Header = 1 .. Len(Header)
           /\ job.reverse => Range(Kept) = DOMAIN Header \ Range(Chosen)
<1>1. Len(Header) \in Nat /\ DOMAIN Header = 1 .. Len(Header)
  BY GivenStream DEF SeveralInputs
<1>2. Selection \in Seq(DOMAIN Header)
  BY GivenSelection DEF CutFails
<1>3. Dropped \in Seq(DOMAIN Header) /\ Range(Dropped) = (DOMAIN Header \ Range(Chosen)) \cap DOMAIN Header
  BY <1>1, ThoseIndices DEF Dropped
<1> QED BY <1>1, <1>2, <1>3 DEF Kept

\* With -r, the columns of the header that is printed
LEMMA KeptHeader ==
    ASSUME StreamInv, job.tool = "cut", ~CutFails, job.reverse, IsInjective(Header)
    PROVE  Range(Reordered(Header, Kept)) = Range(Header) \ {Header[i] : i \in Range(Chosen)}
<1>1. /\ Kept \in Seq(DOMAIN Header) /\ DOMAIN Header = 1 .. Len(Header)
      /\ Range(Kept) = DOMAIN Header \ Range(Chosen)
  BY KeptType
<1>2. Range(Chosen) \subseteq DOMAIN Header
  <2>1. Chosen \in Seq(DOMAIN Header)
    BY GivenSelection DEF CutFails
  <2> QED BY <2>1 DEF Range
<1>3. Range(Reordered(Header, Kept)) = {Header[i] : i \in Range(Kept)}
  BY DEF Reordered, Range
<1>4. {Header[i] : i \in DOMAIN Header \ Range(Chosen)} = Range(Header) \ {Header[i] : i \in Range(Chosen)}
  <2>1. \A i, j \in DOMAIN Header : Header[i] = Header[j] => i = j
    BY DEF IsInjective
  <2>2. Range(Header) = {Header[i] : i \in DOMAIN Header}
    BY DEF Range
  <2> QED BY <1>2, <2>1, <2>2
<1> QED BY <1>1, <1>3, <1>4

LEMMA CutOpen ==
    ASSUME StreamInv, job.tool = "cut", OpenCut, pc' = "read"
    PROVE  Cutting'
<1>1. /\ UNCHANGED <<job, inputs, pos, out>> /\ cols' = Kept /\ hdr' = Reordered(Header, Kept)
      /\ ~CutFails /\ Kept # <<>> /\ pos = 1 /\ out = <<>>
  BY DEF OpenCut, Opening, Start, Fail, Exit, given, StreamInv
<1>2. Header' = Header /\ AllRows' = AllRows
  BY <1>1, TermsStay
<1>3. Kept' = Kept /\ (CutFails' <=> CutFails)
  BY <1>1, CutStays
<1>4. hdr' # <<>>
  <2>1. DOMAIN Kept # {}
    <3>1. Kept \in Seq(DOMAIN Header)
      BY <1>1, KeptType
    <3>2. PICK k : k = Kept
      OBVIOUS
    <3>3. k \in Seq(DOMAIN Header) /\ k # <<>>
      BY <1>1, <3>1, <3>2
    <3> QED BY <3>2, <3>3
  <2>2. DOMAIN hdr' = DOMAIN Kept
    BY <1>1 DEF Reordered
  <2> QED BY <2>1, <2>2
<1>5. out' = [k \in 1 .. pos' - 1 |-> Reordered(AllRows'[k], Kept')]
  <2>1. pos' - 1 = 0
    BY <1>1
  <2>2. 1 .. pos' - 1 = {}
    BY <2>1
  <2>3. out' = <<>>
    BY <1>1
  <2> QED BY <2>2, <2>3
<1> QED BY <1>1, <1>2, <1>3, <1>4, <1>5 DEF Cutting, Reordered

\* With no column left
LEMMA CutNothing ==
    ASSUME StreamInv, job.tool = "cut", OpenCut, pc' = "exited", status' = 0
    PROVE  ChoiceRight'
<1>1. UNCHANGED <<job, inputs, hdr>> /\ ~CutFails /\ Kept = <<>> /\ hdr = <<>> /\ out' = out \o <<>> /\ out = <<>>
  BY DEF OpenCut, Opening, Start, Fail, Exit, given, StreamInv
<1>2. out' = <<>> /\ hdr' = <<>>
  BY <1>1
<1>4. job.reverse /\ IsInjective(Header) => Range(hdr') = Range(Header) \ {Header[i] : i \in Range(Chosen)}
  <2>1. Reordered(Header, Kept) = <<>>
    BY <1>1 DEF Reordered
  <2> QED BY <1>1, <1>2, <2>1, KeptHeader
<1>5. CutPromise(<<>>, <<>>, Header, AllRows, Chosen, job.reverse)
  BY <1>2, <1>4 DEF CutPromise
<1> QED BY <1>1, <1>2, <1>5, CutPromised

LEMMA CutRead ==
    ASSUME StreamInv, job.tool = "cut", pc = "read", Cutting, CutRow
    PROVE  Cutting'
<1>1. /\ UNCHANGED <<job, inputs, cols, hdr>> /\ pos <= Len(Rows) /\ pos' = pos + 1
      /\ out' = out \o <<Reordered(Row, cols)>>
  BY DEF CutRow, Reading, Continue, given
<1>2. Rows = AllRows /\ pos \in 1 .. Len(AllRows) + 1 /\ Len(AllRows) \in Nat
  BY GivenStream DEF SeveralInputs
<1>3. Row = AllRows[pos] /\ pos \in 1 .. Len(AllRows) /\ cols = Kept /\ pos - 1 \in Nat
  BY <1>1, <1>2 DEF Row, Cutting
<1> DEFINE F(k) == Reordered(AllRows[k], Kept)
<1>4. out = [k \in 1 .. pos - 1 |-> F(k)] /\ out' = out \o <<F(pos)>>
  BY <1>1, <1>3 DEF Cutting
<1>5. out' = [k \in 1 .. pos |-> F(k)]
  <2> HIDE DEF F
  <2>1. PICK n \in Nat : n = pos - 1
    BY <1>3
  <2>2. ASSUME NEW f, f = [k \in 1 .. n |-> F(k)] PROVE f \o <<F(n + 1)>> = [k \in 1 .. n + 1 |-> F(k)]
    <3> DEFINE T == {F(k) : k \in 1 .. n + 1}
               g == [k \in 1 .. n + 1 |-> F(k)]
    <3>1. f \in Seq(T) /\ Len(f) = n /\ g \in Seq(T) /\ Len(g) = n + 1 /\ F(n + 1) \in T
      BY <2>2
    <3>2. (\A k \in 1 .. n : f[k] = g[k]) /\ g[n + 1] = F(n + 1)
      BY <2>2
    <3>3. f \o <<F(n + 1)>> = Append(f, F(n + 1))
      <4> HIDE DEF T, g
      <4> QED BY <3>1, OneMore
    <3> HIDE DEF T, g
    <3>4. Append(f, F(n + 1)) = g
      BY <3>1, <3>2
    <3> QED BY <3>3, <3>4 DEF g
  <2>3. n + 1 = pos
    BY <1>2, <2>1
  <2> QED BY <1>4, <2>1, <2>2, <2>3
<1>6. /\ Header' = Header /\ AllRows' = AllRows /\ Kept' = Kept /\ (CutFails' <=> CutFails) /\ pos' - 1 = pos
  BY <1>1, <1>2, TermsStay, CutStays
<1> QED BY <1>1, <1>5, <1>6 DEF Cutting, Reordered

LEMMA CutEnds ==
    ASSUME StreamInv, job.tool = "cut", pc = "read", Cutting, EndCut
    PROVE  ChoiceRight'
<1>1. UNCHANGED <<job, inputs, hdr, pos>> /\ out' = out \o <<>> /\ pos > Len(Rows)
  BY DEF EndCut, AtEnd, Exit, given
<1>2. Rows = AllRows /\ pos \in 1 .. Len(AllRows) + 1 /\ Len(AllRows) \in Nat
  BY GivenStream DEF SeveralInputs
<1>3. pos - 1 = Len(AllRows)
  BY <1>1, <1>2
<1>4. out = [k \in 1 .. Len(AllRows) |-> Reordered(AllRows[k], Kept)]
  BY <1>3 DEF Cutting
<1>5. out' = out /\ Len(out) = Len(AllRows) /\ DOMAIN out = 1 .. Len(AllRows)
  <2>1. out \in Seq({Reordered(AllRows[k], Kept) : k \in 1 .. Len(AllRows)})
    BY <1>2, <1>4
  <2> QED BY <1>1, <1>2, <1>4, <2>1
<1>7. hdr = Reordered(Header, Kept) /\ ~CutFails
  BY DEF Cutting
<1>8. job.reverse /\ IsInjective(Header) => Range(hdr) = Range(Header) \ {Header[i] : i \in Range(Chosen)}
  BY <1>7, KeptHeader
<1>9. ASSUME IsInjective(Header), NEW k \in DOMAIN out, NEW j \in DOMAIN hdr
      PROVE  out[k][j] = Under(AllRows[k], Header, hdr[j])
  <2>1. /\ Kept \in Seq(DOMAIN Header) /\ Len(Header) \in Nat /\ DOMAIN Header = 1 .. Len(Header)
        /\ DOMAIN hdr = DOMAIN Kept /\ hdr[j] = Header[Kept[j]]
    BY <1>7, <1>9, KeptType DEF Reordered
  <2>2. Kept[j] \in DOMAIN Header
    BY <1>9, <2>1
  <2>3. WhereIs(Header, Header[Kept[j]]) = Kept[j]
    BY <1>9, <2>1, <2>2, WhereOnce
  <2>4. out[k][j] = AllRows[k][Kept[j]]
    BY <1>4, <1>5, <1>9, <2>1 DEF Reordered
  <2> QED BY <2>1, <2>3, <2>4 DEF Under, WhereIs
<1>10. CutPromise(out, hdr, Header, AllRows, Chosen, job.reverse)
  BY <1>5, <1>8, <1>9 DEF CutPromise
<1> QED BY <1>1, <1>5, <1>10, CutPromised

-----------------------------------------------------------------------------
LEMMA ChoiceStays ==
    ASSUME UNCHANGED vars, ChoiceInv
    PROVE  ChoiceInv'
<1>1. StreamInv'
  BY StreamStep DEF ChoiceInv
<1>2. UNCHANGED <<job, inputs, pc, status, in, pos, cols, mem, hdr, out>>
  BY DEF vars, given
<1>3. /\ AllRows' = AllRows /\ Selection' = Selection /\ Chosen' = Chosen /\ Header' = Header
      /\ \A r : OfOtherTable(r)' <=> OfOtherTable(r)
  BY <1>2, TermsStay
<1>4. /\ Places' = Places /\ NotRepeated' = NotRepeated /\ \A places : RowsAt(places)' = RowsAt(places)
      /\ (TableMissing' <=> TableMissing) /\ (ColumnMissing' <=> ColumnMissing)
      /\ \A r : Reordered(r, cols)' = Reordered(r, cols)
  BY <1>2, UniqStays
<1>5. Grepped' = Grepped
  BY <1>2, GrepStays
<1>7. Uniqing => Uniqing'
  <2> SUFFICES ASSUME Uniqing PROVE Uniqing'
    OBVIOUS
  <2>1. out' = RowsAt(Those(Places, NotRepeated \cap (1 .. pos - 1)))'
    <3>1. Those(Places, NotRepeated \cap (1 .. pos - 1))' = Those(Places, NotRepeated \cap (1 .. pos - 1))
      BY <1>2, <1>4
    <3> QED BY <1>2, <1>3, <3>1 DEF Uniqing, RowsAt, Reordered
  <2>2. \A k : /\ OfOtherTable(AllRows[k])' <=> OfOtherTable(AllRows[k])
               /\ Reordered(AllRows[k], cols)' = Reordered(AllRows[k], cols)
    BY <1>2, <1>3 DEF OfOtherTable, TableAt, Reordered, Header
  <2> QED BY <1>2, <1>3, <1>4, <2>1, <2>2 DEF Uniqing
<1>8. Grepping => Grepping'
  BY <1>2, <1>3, <1>5 DEF Grepping
<1>9. Cutting => Cutting'
  BY <1>2, <1>3, CutStays DEF Cutting, Reordered
<1>10. ChoiceRight'
  <2> SUFFICES ASSUME Printed PROVE ChoiceRight'
    BY <1>2 DEF ChoiceRight, Printed
  <2>1. job.tool = "uniq" => out = RowsAt(Those(Places, NotRepeated))
    BY DEF ChoiceInv, ChoiceRight, RowsAt, NotRepeated, Places, Repeated, SameValues
  <2>2. job.tool = "uniq" => out' = RowsAt(Those(Places, NotRepeated))'
    <3>1. Those(Places, NotRepeated)' = Those(Places, NotRepeated)
      BY <1>4
    <3> QED BY <1>2, <1>3, <2>1, <3>1 DEF RowsAt, Reordered
  <2>3. job.tool = "grep" => out' = Those(AllRows, Grepped)'
    <3>1. job.tool = "grep" => out = Those(AllRows, Grepped)
      BY DEF ChoiceInv, ChoiceRight, Prints, Grepped
    <3> QED BY <1>2, <1>3, <1>5, <3>1
  <2>4. job.tool = "cut" => ChoiceRight'
    <3>1. job.tool = "cut" => CutPromise(out, hdr, Header, AllRows, Chosen, job.reverse)
      BY DEF ChoiceInv, ChoiceRight, CutPromise
    <3> QED BY <1>2, <3>1, CutPromised
  <2>5. job.tool = "count" => (job.c => out'[1][1] = <<Len(Header')>>) /\ (job.r => Last(out'[1]) = <<Len(AllRows')>>)
    BY <1>2, <1>3 DEF ChoiceInv, ChoiceRight
  <2>6. job' = job
    BY <1>2
  <2>7. job.tool = "uniq" => ChoiceRight'
    BY <2>2, <2>6 DEF ChoiceRight, RowsAt, NotRepeated, Places, Repeated, SameValues, Prints
  <2>8. job.tool = "grep" => ChoiceRight'
    BY <2>3, <2>6 DEF ChoiceRight, Grepped, Prints
  <2>9. job.tool = "count" => ChoiceRight'
    BY <2>5, <2>6 DEF ChoiceRight, Prints
  <2> QED BY <2>4, <2>6, <2>7, <2>8, <2>9 DEF ChoiceRight, Prints
<1> QED BY <1>1, <1>2, <1>7, <1>8, <1>9, <1>10 DEF ChoiceInv

\* What is promised is promised of a success.
LEMMA NotYet ==
    ASSUME ~Printed'
    PROVE  ChoiceRight'
BY DEF ChoiceRight, Printed

LEMMA ChoiceStep ==
    ASSUME ChoiceInv, [Next]_vars
    PROVE  ChoiceInv'
<1>0. StreamInv /\ StreamInv'
  BY StreamStep DEF ChoiceInv
<1>1. CASE UNCHANGED vars
  BY <1>1, ChoiceStays
<1>2. CASE Next /\ job.tool \notin {"uniq", "grep", "cut", "count"}
  <2>1. job' = job
    BY <1>2, GivenKept DEF given
  <2> QED BY <1>0, <1>2, <2>1 DEF ChoiceInv, ChoiceRight, Prints
<1>3. CASE job.tool = "uniq" /\ (OpenUniq \/ PassOn("uniq") \/ UniqRow \/ EndUniq \/ OverrunUniq)
  <2>1. CASE OpenUniq
    <3>1. (pc' = "read" => Uniqing') /\ ~Printed' /\ job' = job
      BY <1>0, <1>3, <2>1, UniqOpen DEF OpenUniq, Start, Fail, Exit, Printed, given
    <3> QED BY <1>0, <1>3, <3>1, NotYet DEF ChoiceInv
  <2>2. CASE PassOn("uniq") \/ UniqRow
    <3>1. pc = "read" /\ pc' = "read" /\ job' = job
      BY <2>2 DEF PassOn, UniqRow, Reading, Continue, given
    <3>2. Uniqing' /\ ~Printed'
      BY <1>0, <1>3, <2>2, <3>1, UniqRead DEF ChoiceInv, Printed
    <3> QED BY <1>0, <1>3, <3>1, <3>2, NotYet DEF ChoiceInv
  <2>3. CASE EndUniq
    <3>1. pc = "read" /\ pc' = "exited" /\ job' = job
      BY <2>3 DEF EndUniq, AtEnd, Exit, given
    <3> QED BY <1>0, <1>3, <2>3, <3>1, UniqEnds DEF ChoiceInv
  <2>4. CASE OverrunUniq
    <3>1. pc' = "crashed" /\ ~Printed' /\ job' = job
      BY <2>4 DEF OverrunUniq, Die, Printed, given
    <3> QED BY <1>0, <1>3, <3>1, NotYet DEF ChoiceInv
  <2> QED BY <1>3, <2>1, <2>2, <2>3, <2>4
<1>4. CASE job.tool = "grep" /\ (OpenGrep \/ GrepRow \/ EndGrep)
  <2>1. CASE OpenGrep
    <3>1. (pc' = "read" => Grepping') /\ ~Printed' /\ job' = job
      BY <1>0, <1>4, <2>1, GrepOpen DEF OpenGrep, Start, Fail, Exit, Printed, given
    <3> QED BY <1>0, <1>4, <3>1, NotYet DEF ChoiceInv
  <2>2. CASE GrepRow
    <3>1. pc = "read" /\ pc' = "read" /\ job' = job
      BY <2>2 DEF GrepRow, Reading, Continue, given
    <3>2. Grepping' /\ ~Printed'
      BY <1>0, <1>4, <2>2, <3>1, GrepRead DEF ChoiceInv, Printed
    <3> QED BY <1>0, <1>4, <3>1, <3>2, NotYet DEF ChoiceInv
  <2>3. CASE EndGrep
    <3>1. pc = "read" /\ pc' = "exited" /\ job' = job
      BY <2>3 DEF EndGrep, AtEnd, Exit, given
    <3> QED BY <1>0, <1>4, <2>3, <3>1, GrepEnds DEF ChoiceInv
  <2> QED BY <1>4, <2>1, <2>2, <2>3
<1>5. CASE job.tool = "cut" /\ (OpenCut \/ CutRow \/ EndCut)
  <2>1. CASE OpenCut
    <3>1. (pc' = "read" => Cutting' /\ ~Printed') /\ job' = job
      BY <1>0, <1>5, <2>1, CutOpen DEF OpenCut, Start, Fail, Exit, Printed, given
    <3>2. ChoiceRight'
      BY <1>0, <1>5, <2>1, <3>1, CutNothing, NotYet DEF Printed
    <3> QED BY <1>0, <1>5, <3>1, <3>2 DEF ChoiceInv
  <2>2. CASE CutRow
    <3>1. pc = "read" /\ pc' = "read" /\ job' = job
      BY <2>2 DEF CutRow, Reading, Continue, given
    <3>2. Cutting' /\ ~Printed'
      BY <1>0, <1>5, <2>2, <3>1, CutRead DEF ChoiceInv, Printed
    <3> QED BY <1>0, <1>5, <3>1, <3>2, NotYet DEF ChoiceInv
  <2>3. CASE EndCut
    <3>1. pc = "read" /\ pc' = "exited" /\ job' = job
      BY <2>3 DEF EndCut, AtEnd, Exit, given
    <3> QED BY <1>0, <1>5, <2>3, <3>1, CutEnds DEF ChoiceInv
  <2> QED BY <1>5, <2>1, <2>2, <2>3
<1>6. CASE job.tool = "count" /\ (OpenCount \/ CountRow \/ EndCount)
  <2>1. CASE OpenCount
    <3>1. (pc' = "read" => mem' = [rows |-> pos' - 1]) /\ ~Printed' /\ job' = job
      <4>1. pos = 1 /\ pos - 1 = 0
        BY <1>0, <2>1 DEF OpenCount, Opening, StreamInv
      <4> QED BY <2>1, <4>1 DEF OpenCount, Start, Fail, Exit, Printed, given
    <3> QED BY <1>0, <1>6, <3>1, NotYet DEF ChoiceInv
  <2>2. CASE CountRow
    <3>1. pc = "read" /\ pc' = "read" /\ job' = job /\ mem' = [rows |-> mem.rows + 1] /\ pos' = pos + 1
      BY <2>2 DEF CountRow, Reading, Continue, given
    <3>2. mem' = [rows |-> pos' - 1] /\ ~Printed'
      <4>1. pos \in Nat /\ mem.rows = pos - 1
        BY <1>0, <1>6, <3>1, GivenStream DEF ChoiceInv, SeveralInputs
      <4> QED BY <3>1, <4>1 DEF Printed
    <3> QED BY <1>0, <1>6, <3>1, <3>2, NotYet DEF ChoiceInv
  <2>3. CASE EndCount
    <3>1. pc = "read" /\ pc' = "exited" /\ job' = job
      BY <2>3 DEF EndCount, given
    <3> QED BY <1>0, <1>6, <2>3, <3>1, CountEnds DEF ChoiceInv
  <2> QED BY <1>6, <2>1, <2>2, <2>3
<1>7. CASE Ended
  BY <1>7, ChoiceStays DEF Ended
<1>8. CASE Next /\ job.tool \in {"uniq", "grep", "cut", "count"}
  BY <1>3, <1>4, <1>5, <1>6, <1>7, <1>8, ToolSteps, FilterSteps
     DEF Functions, RpnToolNames, SqlToolNames, Evaluators, BuilderNames
<1> QED BY <1>1, <1>2, <1>8

LEMMA StreamInit ==
    ASSUME Init
    PROVE  StreamInv
<1>1. Len(inputs) \in Nat \ {0} /\ Len(inputs[1].rows) \in Nat
  BY GivenInputs DEF Init
<1>2. CacheInv
  BY DEF Init, CacheInv
<1>3. 1 \in 1 .. Len(inputs) /\ 1 \in 1 .. Len(inputs[1].rows) + 1
  BY <1>1
<1>4. job.tool \notin SeveralInputs => in = 1
  BY DEF Init
<1> QED BY <1>2, <1>3, <1>4 DEF Init, StreamInv, Rows

\* What csv-uniq, csv-grep, csv-cut and csv-count print when they succeed is what
\* they should choose.
THEOREM ChoicesPrinted == Spec => []ChoiceRight
<1>1. Init => ChoiceInv
  <2> SUFFICES ASSUME Init PROVE ChoiceInv
    OBVIOUS
  <2>1. StreamInv /\ pc = "open"
    BY StreamInit DEF Init
  <2> QED BY <2>1 DEF ChoiceInv, ChoiceRight, Printed
<1>2. ChoiceInv /\ [Next]_vars => ChoiceInv'
  BY ChoiceStep
<1>3. ChoiceInv => ChoiceRight
  BY DEF ChoiceInv
<1> QED BY <1>1, <1>2, <1>3, PTL DEF Spec

-----------------------------------------------------------------------------
(* The order of texts *)

\* Texts of one letter
LEMMA LessNumbers ==
    ASSUME NEW m \in Int, NEW n \in Int
    PROVE  Less(<<m>>, <<n>>) <=> m < n
<1> DEFINE s == <<m>>
           t == <<n>>
<1>0. /\ s \in Seq(Int) /\ t \in Seq(Int) /\ Len(s) = 1 /\ Len(t) = 1 /\ s[0 + 1] = m /\ t[0 + 1] = n
      /\ m = n => s = t
  OBVIOUS
<1> HIDE DEF s, t
<1>1. Less(s, t) <=> m < n
  <2>1. CASE m = n
    BY <1>0, <2>1, LessOrder
  <2>2. CASE m # n
    <3>1. Share(s, t, 0)
      BY <1>0, <2>2 DEF Share
    <3> QED BY <1>0, <3>1, LessAt
  <2> QED BY <2>1, <2>2
<1> QED BY <1>1 DEF s, t

-----------------------------------------------------------------------------
(* Joining *)

\* Texts with a separator before each but the first
Pieces(texts, separator) == [k \in DOMAIN texts |-> (IF k = 1 THEN Empty ELSE separator) \o texts[k]]

\* A value joins the texts from the first one that is not empty.
Joining(texts, separator, value) ==
    /\ value \in Seq(Int)
    /\ \E n \in 0 .. Len(texts) :
          /\ \A l \in 1 .. n : texts[l] = Empty
          /\ n < Len(texts) => texts[n + 1] # Empty
          /\ value = FlattenSeq(Pieces(SubSeq(texts, n + 1, Len(texts)), separator))
          /\ value = Empty <=> n = Len(texts)

LEMMA JoinedNone ==
    ASSUME NEW separator
    PROVE  Joining(<<>>, separator, Empty)
<1>1. Pieces(SubSeq(<<>>, 1, 0), separator) = <<>>
  <2>1. SubSeq(<<>>, 1, 0) = <<>>
    OBVIOUS
  <2> QED BY <2>1 DEF Pieces
<1>2. FlattenSeq(Pieces(SubSeq(<<>>, 0 + 1, 0), separator)) = Empty
  BY <1>1, FlattenEmpty DEF Empty
<1>3. Len(<<>>) = 0 /\ Empty \in Seq(Int)
  BY DEF Empty
<1> QED BY <1>2, <1>3 DEF Joining

LEMMA PiecesNext ==
    ASSUME NEW s \in Seq(Seq(Int)), NEW c \in Seq(Int), NEW separator \in Seq(Int)
    PROVE  /\ Pieces(s, separator) \in Seq(Seq(Int))
           /\ Pieces(Append(s, c), separator) =
                Append(Pieces(s, separator), (IF s = <<>> THEN Empty ELSE separator) \o c)
<1> DEFINE S == Seq(Int)
           front(k) == IF k = 1 THEN Empty ELSE separator
           F(k, x) == front(k) \o x
           n == Len(s)
           t == Append(s, c)
<1>1. ASSUME NEW k, NEW x \in S PROVE F(k, x) \in S
  <2>1. CASE k = 1
    BY <2>1 DEF Empty
  <2>2. CASE k # 1
    BY <2>2
  <2> QED BY <2>1, <2>2
<1>2. n \in Nat /\ DOMAIN s = 1 .. n /\ DOMAIN t = 1 .. n + 1 /\ t[n + 1] = c
      /\ \A k \in 1 .. n : t[k] = s[k] /\ s[k] \in S
  OBVIOUS
<1>3. Pieces(s, separator) = [k \in 1 .. n |-> F(k, s[k])] /\ Pieces(t, separator) = [k \in 1 .. n + 1 |-> F(k, t[k])]
  BY <1>2 DEF Pieces
<1>4. n = 0 <=> s = <<>>
  OBVIOUS
<1> HIDE DEF F, n, t, S
<1>5. Pieces(s, separator) \in Seq(S) /\ Len(Pieces(s, separator)) = n
  BY <1>1, <1>2, <1>3
<1>6. Pieces(t, separator) \in Seq(S) /\ Len(Pieces(t, separator)) = n + 1
  <2>1. \A k \in 1 .. n + 1 : t[k] \in S
    <3>1. \A k \in 1 .. n + 1 : k = n + 1 \/ k \in 1 .. n
      BY <1>2
    <3>2. c \in S
      BY DEF S
    <3> QED BY <1>2, <3>1, <3>2
  <2> QED BY <1>1, <1>2, <1>3, <2>1
<1>7. F(n + 1, c) = (IF s = <<>> THEN Empty ELSE separator) \o c /\ F(n + 1, c) \in S
  <2>1. n + 1 = 1 <=> s = <<>>
    BY <1>2, <1>4
  <2> QED BY <1>1, <2>1 DEF F, S
<1>8. Pieces(t, separator) = Append(Pieces(s, separator), F(n + 1, c))
  <2>1. \A k \in 1 .. n : Pieces(t, separator)[k] = Pieces(s, separator)[k]
    BY <1>2, <1>3
  <2>2. Pieces(t, separator)[n + 1] = F(n + 1, c)
    BY <1>2, <1>3
  <2> QED BY <1>2, <1>5, <1>6, <1>7, <2>1, <2>2
<1> QED BY <1>5, <1>7, <1>8 DEF S, t

\* A text more, with the separator unless nothing is there yet
LEMMA JoinedNext ==
    ASSUME NEW texts \in Seq(Seq(Int)), NEW c \in Seq(Int), NEW separator \in Seq(Int), NEW value,
           Joining(texts, separator, value)
    PROVE  Joining(Append(texts, c), separator, value \o (IF value = Empty THEN Empty ELSE separator) \o c)
<1>0. PICK m \in Nat : m = Len(texts)
  OBVIOUS
<1>1. PICK more, new : /\ more = Append(texts, c) /\ m = Len(texts)
                       /\ new = value \o (IF value = Empty THEN Empty ELSE separator) \o c
  BY <1>0
<1>2. PICK n \in Nat, w \in Seq(Seq(Int)) :
          /\ n <= m
          /\ w = SubSeq(texts, n + 1, m)
          /\ \A l \in 1 .. n : texts[l] = Empty
          /\ n < m => texts[n + 1] # Empty
          /\ value = FlattenSeq(Pieces(w, separator))
          /\ value = Empty <=> n = m
  <2>1. PICK n \in 0 .. m :
          /\ \A l \in 1 .. n : texts[l] = Empty
          /\ n < m => texts[n + 1] # Empty
          /\ value = FlattenSeq(Pieces(SubSeq(texts, n + 1, m), separator))
          /\ value = Empty <=> n = m
    BY <1>1 DEF Joining
  <2>2. n \in Nat /\ n <= m
    BY <2>1
  <2>3. SubSeq(texts, n + 1, m) \in Seq(Seq(Int))
    <3>1. n + 1 \in Nat \ {0} /\ n + 1 <= m + 1 /\ m <= Len(texts)
      BY <1>1, <2>2
    <3> QED BY <3>1, StretchElements
  <2> QED BY <2>1, <2>2, <2>3
<1>3. /\ m \in Nat /\ Len(more) = m + 1 /\ more[m + 1] = c /\ (\A l \in 1 .. m : more[l] = texts[l])
      /\ more \in Seq(Seq(Int)) /\ value \in Seq(Int)
  BY <1>1 DEF Joining
<1>4. /\ n <= m /\ w = SubSeq(texts, n + 1, m) /\ value = FlattenSeq(Pieces(w, separator))
      /\ value = Empty <=> n = m
  BY <1>2
<1>5. Len(more) = m + 1 /\ more[m + 1] = c /\ more \in Seq(Seq(Int)) /\ value \in Seq(Int)
  BY <1>3
<1>6. /\ \A l \in 1 .. n : texts[l] = Empty
      /\ n < m => texts[n + 1] # Empty
      /\ \A l \in 1 .. m : more[l] = texts[l]
  BY <1>2, <1>3
<1>7. Empty \in Seq(Int) /\ \A s \in Seq(Int) : Empty \o s = s /\ s \o Empty = s
  BY DEF Empty
<1>8. ASSUME NEW r \in Seq(Int), NEW s \in Seq(Int)
      PROVE  r \o s \in Seq(Int) /\ (r # Empty => r \o s # Empty)
  <2>1. r # Empty => Len(r) > 0
    BY DEF Empty
  <2>2. r \o s \in Seq(Int) /\ Len(r \o s) = Len(r) + Len(s)
    OBVIOUS
  <2>3. Len(r) \in Nat /\ Len(s) \in Nat /\ Len(Empty) = 0
    BY DEF Empty
  <2>4. PICK q : q = r \o s
    OBVIOUS
  <2>5. r # Empty => Len(q) > 0
    BY <2>1, <2>2, <2>3, <2>4
  <2>6. r # Empty => q # Empty
    BY <2>3, <2>5
  <2> QED BY <2>2, <2>4, <2>6
<1>9. (value \o separator) \o c = value \o (separator \o c)
  <2>1. value \in Seq(Int)
    BY <1>5
  <2> QED BY <2>1, TextsAssociate
<1>10. new \in Seq(Int)
  <2>1. CASE value = Empty
    BY <1>1, <1>5, <1>7, <1>8, <2>1
  <2>2. CASE value # Empty
    <3>1. new = (value \o separator) \o c /\ value \o separator \in Seq(Int)
      BY <1>1, <1>5, <1>8, <2>2
    <3> QED BY <1>8, <3>1
  <2> QED BY <2>1, <2>2
<1>11. CASE n = m /\ c = Empty
  <2>1. new = Empty
    BY <1>1, <1>4, <1>7, <1>11
  <2>2. SubSeq(more, (m + 1) + 1, m + 1) = <<>>
    OBVIOUS
  <2>3. FlattenSeq(Pieces(SubSeq(more, (m + 1) + 1, m + 1), separator)) = Empty
    <3>1. Pieces(<<>>, separator) = <<>>
      BY DEF Pieces
    <3> QED BY <2>2, <3>1, FlattenEmpty DEF Empty
  <2>4. \A l \in 1 .. m + 1 : more[l] = Empty
    <3>1. \A l \in 1 .. m + 1 : l = m + 1 \/ l \in 1 .. m
      OBVIOUS
    <3> QED BY <1>5, <1>6, <1>11, <3>1
  <2>5. m + 1 \in 0 .. m + 1 /\ ~(m + 1 < m + 1)
    OBVIOUS
  <2>6. Joining(more, separator, new)
    BY <1>5, <1>10, <2>1, <2>3, <2>4, <2>5 DEF Joining
  <2> QED BY <1>1, <2>6
<1>12. CASE n < m \/ c # Empty
  <2>1. PICK x : x = SubSeq(more, n + 1, m + 1)
    OBVIOUS
  <2>2. w \in Seq(Seq(Int)) /\ x = Append(w, c) /\ (w = <<>> <=> n = m)
    <3>1. n + 1 \in Nat \ {0} /\ n + 1 <= m + 1 /\ m <= m + 1 /\ m <= m
      BY <1>4
    <3>2. w \in Seq(Seq(Int)) /\ Len(w) = m - (n + 1) + 1
      BY <1>1, <1>4, <3>1, StretchElements
    <3>3. SubSeq(more, n + 1, m) = w
      <4>1. \A k \in n + 1 .. m : more[k] = texts[k]
        BY <1>6
      <4> QED BY <1>1, <1>4, <1>5, <3>1, <4>1, SameStretch
    <3>4. x = Append(SubSeq(more, n + 1, m), more[m + 1])
      <4>1. m \in 0 .. Len(more) - 1 /\ n + 1 \in 1 .. m + 1
        BY <1>4, <1>5, <3>1
      <4> QED BY <1>5, <2>1, <4>1, SubSeqGrows
    <3>5. w = <<>> <=> Len(w) = 0
      BY <3>2
    <3>6. Len(w) = 0 <=> n = m
      BY <1>4, <3>2
    <3> QED BY <1>5, <3>2, <3>3, <3>4, <3>5, <3>6
  <2>3. PICK piece : piece = (IF w = <<>> THEN Empty ELSE separator) \o c
    OBVIOUS
  <2>4. FlattenSeq(Pieces(x, separator)) = value \o piece
    <3>1. Pieces(w, separator) \in Seq(Seq(Int)) /\ Pieces(x, separator) = Append(Pieces(w, separator), piece)
      BY <2>2, <2>3, PiecesNext
    <3>2. piece \in Seq(Int)
      BY <1>7, <1>8, <2>3
    <3> QED BY <1>4, <3>1, <3>2, FlattenAppend
  <2>5. new = value \o piece /\ new # Empty
    <3>1. CASE n = m
      <4>1. value = Empty /\ w = <<>> /\ c # Empty
        BY <1>4, <1>12, <2>2, <3>1
      <4>2. piece = Empty \o c /\ new = (Empty \o Empty) \o c
        BY <1>1, <2>3, <4>1
      <4>3. Empty \o c = c /\ Empty \o Empty = Empty
        BY <1>7
      <4> QED BY <4>1, <4>2, <4>3
    <3>2. CASE n # m
      <4>1. value # Empty /\ w # <<>>
        BY <1>4, <2>2, <3>2
      <4>2. new = (value \o separator) \o c /\ piece = separator \o c
        BY <1>1, <2>3, <4>1
      <4>3. separator \o c \in Seq(Int)
        BY <1>8
      <4>4. value \o (separator \o c) # Empty
        BY <1>5, <1>8, <4>1, <4>3
      <4> QED BY <1>9, <4>2, <4>4
    <3> QED BY <3>1, <3>2
  <2>6. (\A l \in 1 .. n : more[l] = Empty) /\ more[n + 1] # Empty /\ n \in 0 .. m + 1 /\ n < m + 1 /\ n # m + 1
    <3>1. \A l \in 1 .. n : more[l] = Empty
      <4>1. \A l \in 1 .. n : l \in 1 .. m
        BY <1>4
      <4> QED BY <1>6, <4>1
    <3>2. n = m => more[n + 1] # Empty
      BY <1>5, <1>12
    <3>3. n # m => more[n + 1] # Empty
      <4>1. n # m => n < m /\ n + 1 \in 1 .. m
        BY <1>4
      <4> QED BY <1>6, <4>1
    <3> QED BY <1>4, <3>1, <3>2, <3>3
  <2>7. Joining(more, separator, new)
    BY <1>5, <1>10, <2>1, <2>4, <2>5, <2>6 DEF Joining
  <2> QED BY <1>1, <2>7
<1>13. n < m \/ n = m
  BY <1>4
<1> QED BY <1>11, <1>12, <1>13

\* The number of the empty texts at the beginning
LEMMA JoinedAll ==
    ASSUME NEW texts \in Seq(Seq(Int)), NEW separator, NEW value, Joining(texts, separator, value)
    PROVE  LET lead == {k \in DOMAIN texts : \A l \in 1 .. k : texts[l] = Empty}
           IN value = FlattenSeq(Pieces(SubSeq(texts, Cardinality(lead) + 1, Len(texts)), separator))
<1> DEFINE lead == {k \in DOMAIN texts : \A l \in 1 .. k : texts[l] = Empty}
<1>1. PICK n \in 0 .. Len(texts) :
          /\ \A l \in 1 .. n : texts[l] = Empty
          /\ n < Len(texts) => texts[n + 1] # Empty
          /\ value = FlattenSeq(Pieces(SubSeq(texts, n + 1, Len(texts)), separator))
  BY DEF Joining
<1>2. Len(texts) \in Nat /\ DOMAIN texts = 1 .. Len(texts)
  OBVIOUS
<1>3. lead = 1 .. n
  <2>1. ASSUME NEW k \in 1 .. n PROVE k \in lead
    <3>1. \A l \in 1 .. k : l \in 1 .. n
      BY <1>2
    <3> QED BY <1>1, <1>2, <3>1
  <2>2. ASSUME NEW k \in lead PROVE k \in 1 .. n
    <3>1. k \in 1 .. Len(texts) /\ \A l \in 1 .. k : texts[l] = Empty
      BY <1>2
    <3>2. k > n => n < Len(texts) /\ n + 1 \in 1 .. k
      BY <1>2, <3>1
    <3> QED BY <1>1, <1>2, <3>1, <3>2
  <2> QED BY <2>1, <2>2
<1>4. Cardinality(1 .. n) = n
  BY <1>2, FS_Interval
<1> HIDE DEF lead
<1> QED BY <1>1, <1>3, <1>4 DEF lead

-----------------------------------------------------------------------------
(* What csv-sum, csv-avg, csv-min and csv-max compute *)

\* The rows of the table, among the first n of the input
Mine == {k \in DOMAIN AllRows : ~OfOtherTable(AllRows[k])}
OwnRows(n) == Those(AllRows, Mine \cap (1 .. n))

\* What csv-min and csv-max compare under a column, and the least or the greatest
Amount(c, text) == IF Header[c].type = "int" THEN <<Number(text)>> ELSE text
Amounts(c, rows) == {Amount(c, text) : text \in Range(Values(c, rows))}
Passes(text, best) == IF job.tool = "min" THEN Less(text, best) ELSE Less(best, text)
Unpassed(best, texts) == best \in texts /\ \A text \in texts : ~Passes(text, best)

\* A value is right for the i-th chosen column of some rows.
RightFor(i, value, rows) ==
    LET c == Chosen[i] IN
    /\ job.tool = "sum" /\ Header[c].type # "int" => Joining(Values(c, rows), job.separator, value)
    /\ job.tool \in {"min", "max"} =>
          IF rows = <<>> THEN value = Initial(Header[c].type) ELSE Unpassed(value, Amounts(c, rows))

\* While rows are read, each value is right for those before.
Computing ==
    /\ ~AggregateFails /\ cols = Selection /\ out \in Seq(Range(out))
    /\ DOMAIN mem.values = Active /\ mem.rows = Len(OwnRows(pos - 1))
    /\ \A i \in DOMAIN Chosen : RightFor(i, mem.values[Before + i], OwnRows(pos - 1))

\* What is promised of a result
PromisedOf(i, result) ==
    LET rows == Selected(AllRows)
        column == Chosen[i]
        isInt == Header[column].type = "int"
        total == Sums(Addends(column))[Len(AllRows)]
        texts == Values(column, rows)
        lead == {k \in DOMAIN texts : \A l \in 1 .. k : texts[l] = Empty}
    IN /\ job.tool = "sum" /\ isInt => result = <<total>>
       /\ job.tool = "sum" /\ ~isInt =>
             result = FlattenSeq(Pieces(SubSeq(texts, Cardinality(lead) + 1, Len(texts)), job.separator))
       /\ job.tool = "avg" =>
             \/ rows = <<>> /\ result = <<0>>
             \/ LET rest == total - Number(result) * Len(rows) IN
                rest \in 1 - Len(rows) .. Len(rows) - 1 /\ rest * total >= 0
       /\ job.tool \in {"min", "max"} /\ rows # <<>> => Unpassed(result, Amounts(column, rows))

ResultInv ==
    /\ StreamInv /\ SumInv
    /\ job.tool \in Functions /\ pc = "read" => Computing
    /\ ResultRight

LEMMA ResultPromised ==
    ResultRight <=> (Printed /\ job.tool \in Functions => \A i \in DOMAIN Chosen : PromisedOf(i, Last(out)[Before + i]))
BY DEF ResultRight, PromisedOf, Pieces, Unpassed, Passes, Amounts, Amount

LEMMA ResultPromisedNext ==
    ResultRight' <=>
        (Printed' /\ job'.tool \in Functions => \A i \in DOMAIN Chosen' : PromisedOf(i, Last(out)[Before + i])')
BY DEF ResultRight, PromisedOf, Pieces, Unpassed, Passes, Amounts, Amount

LEMMA ResultTerms ==
    ASSUME UNCHANGED <<job, inputs>>
    PROVE  /\ Header' = Header /\ AllRows' = AllRows /\ Chosen' = Chosen /\ Selection' = Selection
           /\ Before' = Before /\ Active' = Active /\ (AggregateFails' <=> AggregateFails)
           /\ \A n : OwnRows(n)' = OwnRows(n)
           /\ \A i, value, rows : RightFor(i, value, rows)' <=> RightFor(i, value, rows)
           /\ \A i, result : PromisedOf(i, result)' <=> PromisedOf(i, result)
<1>1. /\ Header' = Header /\ AllRows' = AllRows /\ Chosen' = Chosen /\ TableAt' = TableAt /\ Selection' = Selection
      /\ \A r : OfOtherTable(r)' <=> OfOtherTable(r)
  BY TermsStay
<1>2. Before' = Before /\ Active' = Active
  BY DEF Before, Active
<1>3. AggregateFails' <=> AggregateFails
  BY <1>1, <1>2 DEF AggregateFails, TableMissing, ColumnMissing, Duplicated, Supported
<1>4. \A n : OwnRows(n)' = OwnRows(n)
  <2>1. Mine' = Mine
    BY <1>1 DEF Mine
  <2> QED BY <1>1, <2>1 DEF OwnRows
<1>5. \A c, rows : Amounts(c, rows)' = Amounts(c, rows)
  BY <1>1 DEF Amounts, Amount
<1>6. \A best, texts : Unpassed(best, texts)' <=> Unpassed(best, texts)
  BY DEF Unpassed, Passes
<1>7. \A type : Initial(type)' = Initial(type)
  BY DEF Initial
<1>8. \A i, value, rows : RightFor(i, value, rows)' <=> RightFor(i, value, rows)
  BY <1>1, <1>5, <1>6, <1>7 DEF RightFor
<1>9. \A i, result : PromisedOf(i, result)' <=> PromisedOf(i, result)
  <2>1. Selected(AllRows)' = Selected(AllRows)
    BY <1>1 DEF Selected
  <2>2. \A c : Addends(c)' = Addends(c)
    BY <1>1 DEF Addends
  <2> QED BY <1>1, <1>5, <1>6, <2>1, <2>2 DEF PromisedOf
<1> QED BY <1>1, <1>2, <1>3, <1>4, <1>8, <1>9

\* Where the chosen columns are, in the input and in what is computed
LEMMA ActiveColumns ==
    ASSUME StreamInv, job.tool \in Functions, ~AggregateFails
    PROVE  /\ Len(job.columns) \in Nat /\ DOMAIN Chosen = 1 .. Len(job.columns)
           /\ Before \in {0, 1} /\ Active = Before + 1 .. Before + Len(job.columns)
           /\ Selection \in Seq(DOMAIN Header) /\ Active \subseteq DOMAIN Selection
           /\ \A i \in DOMAIN Chosen :
                 /\ Chosen[i] \in DOMAIN Header /\ Header[Chosen[i]].type \in Supported
                 /\ Before + i \in Active /\ Selection[Before + i] = Chosen[i]
           /\ \A j \in Active : j - Before \in DOMAIN Chosen /\ Before + (j - Before) = j
<1>1. ~TableMissing /\ ~ColumnMissing /\ \A i \in Range(Chosen) \ {0} : Header[i].type \in Supported
  BY DEF AggregateFails
<1>2. /\ Chosen \in Seq(DOMAIN Header) /\ Others \in Seq(DOMAIN Header) /\ Selection \in Seq(DOMAIN Header)
      /\ job.table # NoTable => TableAt \in DOMAIN Header
      /\ Selection = (IF job.table = NoTable THEN <<>> ELSE <<TableAt>>) \o Chosen \o Others
  BY <1>1, GivenSelection
<1>3. PICK l \in Nat : l = Len(job.columns) /\ l = Len(Chosen) /\ DOMAIN Chosen = 1 .. l
  BY GivenColumns DEF StreamInv
<1>4. PICK front : front = IF job.table = NoTable THEN <<>> ELSE <<TableAt>>
  OBVIOUS
<1>5. front \in Seq(DOMAIN Header) /\ Len(front) = Before /\ Before \in {0, 1}
  <2>1. CASE job.table = NoTable
    BY <1>4, <2>1 DEF Before
  <2>2. CASE job.table # NoTable
    BY <1>2, <1>4, <2>2 DEF Before
  <2> QED BY <2>1, <2>2
<1>6. Active = Before + 1 .. Before + l
  BY <1>3 DEF Active
<1>7. Selection = front \o Chosen \o Others
  BY <1>2, <1>4
<1>8. Len(Selection) = Before + l + Len(Others) /\ Len(Others) \in Nat
      /\ \A i \in 1 .. l : Selection[Before + i] = Chosen[i]
  <2>1. PICK a : a = front \o Chosen
    OBVIOUS
  <2>2. a \in Seq(DOMAIN Header) /\ Len(a) = Before + l /\ \A i \in 1 .. l : a[Before + i] = Chosen[i]
    <3>1. front \in Seq(DOMAIN Header) /\ Chosen \in Seq(DOMAIN Header)
      BY <1>2, <1>5
    <3>2. /\ a \in Seq(DOMAIN Header) /\ Len(a) = Len(front) + Len(Chosen)
          /\ \A i \in 1 .. Len(Chosen) : a[Len(front) + i] = Chosen[i]
      BY <2>1, <3>1, ConcatPlaces
    <3> QED BY <1>3, <1>5, <3>2
  <2>3. a \o Others = Selection
    BY <1>7, <2>1
  <2>4. /\ Len(Selection) = Len(a) + Len(Others) /\ Len(Others) \in Nat
        /\ \A i \in 1 .. Len(a) : Selection[i] = a[i]
    BY <1>2, <2>2, <2>3, ConcatPlaces
  <2> HIDE <1>7, <2>1, <2>3
  <2>5. ASSUME NEW i \in 1 .. l PROVE Before + i \in 1 .. Before + l
    BY <1>5
  <2> QED BY <1>5, <2>2, <2>4, <2>5
<1>9. Active \subseteq DOMAIN Selection
  <2>1. DOMAIN Selection = 1 .. Len(Selection)
    BY <1>2
  <2> QED BY <1>5, <1>6, <1>8, <2>1
<1>10. ASSUME NEW i \in DOMAIN Chosen
       PROVE  /\ Chosen[i] \in DOMAIN Header /\ Header[Chosen[i]].type \in Supported
              /\ Before + i \in Active /\ Selection[Before + i] = Chosen[i]
  <2>1. Chosen[i] \in Range(Chosen) /\ Chosen[i] # 0 /\ Chosen[i] \in DOMAIN Header
    BY <1>1, <1>2 DEF ColumnMissing, Range
  <2> QED BY <1>1, <1>3, <1>5, <1>6, <1>8, <2>1
<1>11. \A j \in Active : j - Before \in DOMAIN Chosen /\ Before + (j - Before) = j
  BY <1>3, <1>5, <1>6
<1> QED BY <1>2, <1>3, <1>5, <1>6, <1>9, <1>10, <1>11

\* The values under a column, with one row more
LEMMA ValuesNext ==
    ASSUME NEW D, NEW c \in D, NEW rows \in Seq([D -> Seq(Int)]), NEW row \in [D -> Seq(Int)]
    PROVE  /\ Values(c, rows) \in Seq(Seq(Int)) /\ Len(Values(c, rows)) = Len(rows)
           /\ Values(c, Append(rows, row)) = Append(Values(c, rows), row[c])
           /\ rows = <<>> => Values(c, rows) = <<>>
<1> DEFINE S == [D -> Seq(Int)]
           n == Len(rows)
           more == Append(rows, row)
           a == [k \in 1 .. n |-> rows[k][c]]
           b == [k \in 1 .. n + 1 |-> more[k][c]]
<1>1. ASSUME NEW r \in S PROVE r[c] \in Seq(Int)
  OBVIOUS
<1>2. /\ n \in Nat /\ DOMAIN rows = 1 .. n /\ DOMAIN more = 1 .. n + 1 /\ more[n + 1] = row
      /\ \A k \in 1 .. n : rows[k] \in S /\ more[k] = rows[k]
  <2> HIDE DEF S
  <2>1. rows \in Seq(S) /\ row \in S
    BY DEF S
  <2> QED BY <2>1
<1>3. rows = <<>> => n = 0
  OBVIOUS
<1>4. row \in S
  OBVIOUS
<1> HIDE DEF S, n, more
<1>5. Values(c, rows) = a /\ Values(c, more) = b
  BY <1>2 DEF Values
<1>6. a \in Seq(Seq(Int)) /\ Len(a) = n
  <2>1. \A k \in 1 .. n : rows[k][c] \in Seq(Int)
    BY <1>1, <1>2
  <2> QED BY <1>2, <2>1
<1>7. b \in Seq(Seq(Int)) /\ Len(b) = n + 1 /\ b[n + 1] = row[c] /\ \A k \in 1 .. n : b[k] = a[k]
  <2>1. \A k \in 1 .. n + 1 : more[k][c] \in Seq(Int)
    BY <1>1, <1>2, <1>4
  <2> QED BY <1>2, <2>1
<1>8. row[c] \in Seq(Int)
  BY <1>1, <1>4
<1> HIDE DEF a, b
<1>9. b = Append(a, row[c])
  BY <1>2, <1>6, <1>7, <1>8
<1>10. n = 0 => a = <<>>
  BY <1>6
<1> QED BY <1>3, <1>5, <1>6, <1>9, <1>10 DEF n, more

LEMMA AmountsNext ==
    ASSUME NEW D, NEW c \in D, NEW rows \in Seq([D -> Seq(Int)]), NEW row \in [D -> Seq(Int)]
    PROVE  /\ Amounts(c, rows) \subseteq Seq(Int)
           /\ Amounts(c, Append(rows, row)) = Amounts(c, rows) \cup {Amount(c, row[c])}
           /\ Amount(c, row[c]) \in Seq(Int)
           /\ rows = <<>> => Amounts(c, rows) = {}
<1> DEFINE a == Values(c, rows)
           b == Values(c, Append(rows, row))
           e == row[c]
<1>1. a \in Seq(Seq(Int)) /\ b = Append(a, e) /\ e \in Seq(Int) /\ (rows = <<>> => a = <<>>)
  BY ValuesNext
<1> HIDE DEF a, b, e
<1>2. ASSUME NEW text \in Seq(Int) PROVE Amount(c, text) \in Seq(Int)
  <2>1. Number(text) \in Int
    BY DEF Number, Empty
  <2> QED BY <2>1 DEF Amount
<1>3. Range(b) = Range(a) \cup {e} /\ Range(a) \subseteq Seq(Int)
  <2>1. ASSUME NEW S, NEW s \in Seq(S), NEW x \in S PROVE Range(Append(s, x)) = Range(s) \cup {x} /\ Range(s) \subseteq S
    <3>1. PICK m \in Nat : m = Len(s)
      OBVIOUS
    <3>2. PICK t : t = Append(s, x)
      OBVIOUS
    <3>3. /\ DOMAIN s = 1 .. m /\ DOMAIN t = 1 .. m + 1 /\ t[m + 1] = x
          /\ \A k \in 1 .. m : t[k] = s[k] /\ s[k] \in S
      BY <3>1, <3>2
    <3>4. Range(t) = {t[k] : k \in DOMAIN t} /\ Range(s) = {s[k] : k \in DOMAIN s}
      BY DEF Range
    <3>5. Range(t) = Range(s) \cup {x}
      <4>1. ASSUME NEW k \in 1 .. m + 1 PROVE t[k] \in Range(s) \cup {x}
        <5>1. k \in 1 .. m \/ k = m + 1
          OBVIOUS
        <5> QED BY <3>3, <3>4, <5>1
      <4>2. ASSUME NEW k \in 1 .. m PROVE s[k] \in Range(t)
        <5>1. k \in 1 .. m + 1
          OBVIOUS
        <5> QED BY <3>3, <3>4, <5>1
      <4>3. x \in Range(t)
        <5>1. m + 1 \in 1 .. m + 1
          OBVIOUS
        <5> QED BY <3>3, <3>4, <5>1
      <4> QED BY <3>3, <3>4, <4>1, <4>2, <4>3
    <3> QED BY <3>2, <3>3, <3>4, <3>5
  <2> QED BY <1>1, <2>1
<1>4. Range(<<>>) = {}
  BY DEF Range
<1>5. Amounts(c, rows) = {Amount(c, text) : text \in Range(a)}
      /\ Amounts(c, Append(rows, row)) = {Amount(c, text) : text \in Range(b)}
  BY DEF Amounts, a, b
<1>6. rows = <<>> => Amounts(c, rows) = {}
  BY <1>1, <1>4, <1>5
<1> QED BY <1>1, <1>2, <1>3, <1>5, <1>6 DEF e

\* A text that is compared with the best of some is the best, or the other stays it.
LEMMA UnpassedNext ==
    ASSUME NEW texts \in SUBSET Seq(Int), NEW best, Unpassed(best, texts), NEW text \in Seq(Int)
    PROVE  /\ Passes(text, best) => Unpassed(text, texts \cup {text})
           /\ ~Passes(text, best) => Unpassed(best, texts \cup {text})
<1>1. best \in texts /\ best \in Seq(Int) /\ \A t \in texts : ~Passes(t, best)
  BY DEF Unpassed
<1>2. ASSUME NEW r \in Seq(Int), NEW s \in Seq(Int), NEW t \in Seq(Int)
      PROVE  /\ ~Passes(s, s)
             /\ Passes(r, s) /\ Passes(s, t) => Passes(r, t)
  BY LessOrder DEF Passes
<1>3. ASSUME Passes(text, best) PROVE \A t \in texts \cup {text} : ~Passes(t, text)
  BY <1>1, <1>2, <1>3
<1>4. ASSUME ~Passes(text, best) PROVE \A t \in texts \cup {text} : ~Passes(t, best)
  BY <1>1, <1>4
<1> QED BY <1>1, <1>3, <1>4 DEF Unpassed

\* Of no rows, the initial value is right.
LEMMA RightForNone ==
    ASSUME StreamInv, job.tool \in Functions, ~AggregateFails, NEW i \in DOMAIN Chosen
    PROVE  RightFor(i, Initial(Header[Chosen[i]].type), <<>>)
<1>1. Chosen[i] \in DOMAIN Header /\ Header[Chosen[i]].type \in Supported
  BY ActiveColumns
<1>2. Values(Chosen[i], <<>>) = <<>>
  BY DEF Values
<1>3. CASE job.tool = "sum" /\ Header[Chosen[i]].type # "int"
  <2>1. Header[Chosen[i]].type = "string"
    BY <1>1, <1>3 DEF Supported
  <2>2. Initial(Header[Chosen[i]].type) = Empty
    BY <1>3, <2>1 DEF Initial
  <2>3. Joining(<<>>, job.separator, Empty)
    BY JoinedNone
  <2> QED BY <1>2, <1>3, <2>2, <2>3 DEF RightFor
<1> QED BY <1>3 DEF RightFor

\* One row more, and the value that csv-sum makes of it
LEMMA JoinsNext ==
    ASSUME StreamInv, job.tool = "sum", ~AggregateFails, NEW i \in DOMAIN Chosen,
           NEW rows \in Seq([DOMAIN Header -> Seq(Int)]), NEW row \in [DOMAIN Header -> Seq(Int)],
           NEW value, RightFor(i, value, rows), NEW new,
           Header[Chosen[i]].type # "int" =>
              new = value \o (IF value = Empty THEN Empty ELSE job.separator) \o row[Chosen[i]]
    PROVE  RightFor(i, new, Append(rows, row))
<1>1. CASE Header[Chosen[i]].type = "int"
  BY <1>1 DEF RightFor
<1>2. CASE Header[Chosen[i]].type # "int"
  <2>1. PICK c : c = Chosen[i] /\ c \in DOMAIN Header
    BY ActiveColumns DEF Functions
  <2>2. job.separator \in Seq(Int)
    BY RowStreamsAssumption DEF StreamInv
  <2>3. Values(c, rows) \in Seq(Seq(Int)) /\ Values(c, Append(rows, row)) = Append(Values(c, rows), row[c])
    <3>1. PICK D : D = DOMAIN Header
      OBVIOUS
    <3>2. c \in D /\ rows \in Seq([D -> Seq(Int)]) /\ row \in [D -> Seq(Int)]
      BY <2>1, <3>1
    <3> QED BY ONLY <3>2, ValuesNext
  <2>4. row[c] \in Seq(Int)
    BY <2>1
  <2>5. Joining(Values(c, rows), job.separator, value)
    BY <1>2, <2>1 DEF RightFor
  <2>6. Joining(Append(Values(c, rows), row[c]), job.separator,
                value \o (IF value = Empty THEN Empty ELSE job.separator) \o row[c])
    BY <2>2, <2>3, <2>4, <2>5, JoinedNext
  <2>7. Joining(Values(c, Append(rows, row)), job.separator, new)
    BY <1>2, <2>1, <2>3, <2>6
  <2> QED BY <2>1, <2>7 DEF RightFor
<1> QED BY <1>1, <1>2

\* One row more, and what csv-min and csv-max keep
LEMMA BestNext ==
    ASSUME StreamInv, job.tool \in {"min", "max"}, ~AggregateFails, NEW i \in DOMAIN Chosen,
           NEW rows \in Seq([DOMAIN Header -> Seq(Int)]), NEW row \in [DOMAIN Header -> Seq(Int)],
           Header[Chosen[i]].type = "int" => IsNumber(row[Chosen[i]]),
           NEW value, RightFor(i, value, rows), NEW text, text = Amount(Chosen[i], row[Chosen[i]])
    PROVE  RightFor(i, IF value = None \/ Passes(text, value) THEN text ELSE value, Append(rows, row))
<1>1. PICK c : c = Chosen[i] /\ c \in DOMAIN Header /\ Header[c].type \in {"int", "string"}
  BY ActiveColumns DEF Functions, Supported
<1>2. PICK texts : texts = Amounts(c, rows)
  OBVIOUS
<1>3. /\ texts \in SUBSET Seq(Int) /\ text \in Seq(Int)
      /\ Amounts(c, Append(rows, row)) = texts \cup {text}
      /\ rows = <<>> => texts = {}
  <2>1. PICK D : D = DOMAIN Header
    OBVIOUS
  <2>2. c \in D /\ rows \in Seq([D -> Seq(Int)]) /\ row \in [D -> Seq(Int)]
    BY <1>1, <2>1
  <2>3. /\ Amounts(c, rows) \subseteq Seq(Int)
        /\ Amounts(c, Append(rows, row)) = Amounts(c, rows) \cup {Amount(c, row[c])}
        /\ Amount(c, row[c]) \in Seq(Int)
        /\ rows = <<>> => Amounts(c, rows) = {}
    BY ONLY <2>2, AmountsNext
  <2> QED BY <1>1, <1>2, <2>3
<1>4. PICK new : new = IF value = None \/ Passes(text, value) THEN text ELSE value
  OBVIOUS
<1>5. None \notin Seq(Int) /\ MaxInt \in Nat
  BY RowStreamsAssumption
<1>6. Unpassed(new, texts \cup {text})
  <2>1. CASE rows # <<>>
    <3>1. Unpassed(value, texts)
      BY <1>1, <1>2, <2>1 DEF RightFor
    <3>2. value # None
      BY <1>3, <1>5, <3>1 DEF Unpassed
    <3> QED BY <1>3, <1>4, <3>1, <3>2, UnpassedNext
  <2>2. CASE rows = <<>>
    <3>1. texts = {} /\ value = Initial(Header[c].type)
      BY <1>1, <1>3, <2>2 DEF RightFor
    <3>2. new = text
      <4>1. CASE Header[c].type = "string"
        BY <1>4, <3>1, <4>1 DEF Initial
      <4>2. CASE Header[c].type = "int"
        <5>1. PICK n \in Int : n = Number(row[c]) /\ text = <<n>> /\ n >= MinInt /\ n <= MaxInt
          <6>1. row[c] \in Seq(Int)
            BY <1>1
          <6>2. Number(row[c]) \in Int
            BY <6>1 DEF Number, Empty
          <6>3. Number(row[c]) \in MinInt .. MaxInt
            BY <1>1, <4>2 DEF IsNumber
          <6> QED BY <1>1, <1>5, <4>2, <6>2, <6>3 DEF Amount, MinInt
        <5>2. PICK m \in Int : value = <<m>> /\ m = IF job.tool = "max" THEN MinInt ELSE MaxInt
          BY <1>5, <3>1, <4>2 DEF Initial, MinInt
        <5>3. value # None
          <6>1. <<m>> \in Seq(Int)
            OBVIOUS
          <6> QED BY <1>5, <5>2, <6>1
        <5>4. Passes(text, value) \/ m = n
          BY <1>5, <5>1, <5>2, LessNumbers DEF Passes, MinInt
        <5> QED BY <1>4, <5>1, <5>2, <5>3, <5>4
      <4> QED BY <1>1, <4>1, <4>2
    <3>3. ~Passes(text, text)
      BY <1>3, LessOrder DEF Passes
    <3> QED BY <3>1, <3>2, <3>3 DEF Unpassed
  <2> QED BY <2>1, <2>2
<1>7. Append(rows, row) # <<>>
  OBVIOUS
<1>8. RightFor(i, new, Append(rows, row))
  BY <1>1, <1>3, <1>6, <1>7 DEF RightFor
<1> QED BY <1>4, <1>8

\* What they have in hand when they read
LEMMA ComputeFacts ==
    ASSUME StreamInv, job.tool \in Functions, Reading(job.tool), Computing
    PROVE  /\ pos \in Nat /\ pos \in 1 .. Len(AllRows) /\ Row \in [DOMAIN Header -> Seq(Int)]
           /\ OwnRows(pos - 1) \in Seq([DOMAIN Header -> Seq(Int)]) /\ Len(OwnRows(pos - 1)) \in Nat
           /\ OwnRows(pos) = IF OfOtherTable(Row) THEN OwnRows(pos - 1) ELSE Append(OwnRows(pos - 1), Row)
           /\ \A i \in DOMAIN Chosen :
                 /\ Cell(Before + i) = Row[Chosen[i]] /\ Type(Before + i) = Header[Chosen[i]].type
                 /\ Before + i \in Active
<1>1. /\ Rows = AllRows /\ pos \in 1 .. Len(AllRows) + 1 /\ AllRows \in Seq(Range(AllRows))
      /\ Len(AllRows) \in Nat /\ DOMAIN AllRows = 1 .. Len(AllRows)
      /\ \A k \in DOMAIN AllRows : AllRows[k] \in [DOMAIN Header -> Seq(Int)]
  BY GivenStream DEF SeveralInputs, Functions
<1>2. pos \in Nat /\ pos \in 1 .. Len(AllRows) /\ Row = AllRows[pos]
  BY <1>1 DEF Reading, Row
<1>3. PICK S : S = [DOMAIN Header -> Seq(Int)]
  OBVIOUS
<1>4. AllRows \in Seq(S)
  BY <1>1, <1>3
<1>5. OwnRows(pos - 1) \in Seq(S) /\ Len(OwnRows(pos - 1)) \in Nat
  BY <1>4, ThoseType DEF OwnRows
<1>6. pos \in Mine <=> ~OfOtherTable(Row)
  BY <1>1, <1>2 DEF Mine
<1>7. OwnRows(pos) = IF OfOtherTable(Row) THEN OwnRows(pos - 1) ELSE Append(OwnRows(pos - 1), Row)
  <2>1. OwnRows(pos) = IF pos \in Mine THEN Append(OwnRows(pos - 1), AllRows[pos]) ELSE OwnRows(pos - 1)
    <3>1. PICK s, p, n : s = AllRows /\ p = Mine /\ n = pos
      OBVIOUS
    <3>2. Len(s) \in Nat /\ n \in 1 .. Len(s)
      BY <1>1, <1>2, <3>1
    <3>3. Those(s, p \cap (1 .. n)) =
             IF n \in p THEN Append(Those(s, p \cap (1 .. n - 1)), s[n]) ELSE Those(s, p \cap (1 .. n - 1))
      BY ONLY <3>2, ThoseNext
    <3> QED BY <3>1, <3>3 DEF OwnRows
  <2> QED BY <1>2, <1>6, <2>1
<1>8. ASSUME NEW i \in DOMAIN Chosen
      PROVE  /\ Cell(Before + i) = Row[Chosen[i]] /\ Type(Before + i) = Header[Chosen[i]].type
             /\ Before + i \in Active
  <2>1. Before + i \in Active /\ Selection[Before + i] = Chosen[i]
    BY ActiveColumns DEF Computing
  <2> QED BY <2>1 DEF Computing, Cell, Type
<1> QED BY <1>1, <1>2, <1>3, <1>5, <1>7, <1>8

LEMMA ComputingOpens ==
    ASSUME StreamInv, job.tool \in Functions, OpenAggregate
    PROVE  (pc' = "read" => Computing') /\ ~Printed'
<1>1. CASE AggregateFails /\ Fail
  BY <1>1 DEF Fail, Exit, Printed
<1>2. CASE ~AggregateFails /\ Start(Selection, ResultHeader,
                 [values |-> [j \in Active |-> Initial(Header[Selection[j]].type)], rows |-> 0])
  <2>1. /\ UNCHANGED <<job, inputs, pos, out>> /\ cols' = Selection /\ pc' = "read"
        /\ mem' = [values |-> [j \in Active |-> Initial(Header[Selection[j]].type)], rows |-> 0]
    BY <1>2 DEF Start, given
  <2>2. pos = 1 /\ out = <<>>
    BY DEF StreamInv, OpenAggregate
  <2>3. OwnRows(pos - 1) = <<>>
    <3>1. Len(AllRows) \in Nat
      BY GivenStream DEF SeveralInputs, Functions
    <3>2. pos - 1 = 0
      BY <2>2
    <3> QED BY <3>1, <3>2, ThoseNoneYet DEF OwnRows
  <2>4. DOMAIN mem'.values = Active /\ mem'.rows = 0
    BY <2>1
  <2>5. ASSUME NEW i \in DOMAIN Chosen PROVE RightFor(i, mem'.values[Before + i], <<>>)
    <3>1. Before + i \in Active /\ Selection[Before + i] = Chosen[i]
      BY <1>2, ActiveColumns
    <3>2. mem'.values[Before + i] = Initial(Header[Chosen[i]].type)
      BY <2>1, <3>1
    <3> QED BY <1>2, <3>2, RightForNone
  <2>6. out' \in Seq(Range(out'))
    BY <2>1, <2>2 DEF Range
  <2>7. Len(<<>>) = 0
    OBVIOUS
  <2> QED BY <1>2, <2>1, <2>3, <2>4, <2>5, <2>6, <2>7, ResultTerms DEF Computing, Printed
<1> QED BY <1>1, <1>2 DEF OpenAggregate

LEMMA ComputingPasses ==
    ASSUME StreamInv, job.tool \in Functions, Computing, PassOnRow
    PROVE  Computing' /\ ~Printed'
<1>1. Reading(job.tool) /\ OfOtherTable(Row) /\ Continue(<<Reordered(Row, cols)>>, mem)
  BY DEF PassOnRow, PassOn
<1>2. /\ UNCHANGED <<job, inputs, cols, mem, pc>> /\ pos' = pos + 1
      /\ out' = out \o <<Reordered(Row, cols)>>
  BY <1>1 DEF Continue, given
<1>4. pos' - 1 = pos /\ OwnRows(pos) = OwnRows(pos - 1)
  BY <1>1, <1>2, ComputeFacts
<1>5. out' \in Seq(Range(out'))
  BY <1>2, PrintedLast DEF Computing
<1>6. ~Printed'
  BY <1>1, <1>2 DEF Printed, Reading
<1> QED BY <1>2, <1>4, <1>5, <1>6, ResultTerms DEF Computing

LEMMA ComputingReads ==
    ASSUME StreamInv, job.tool \in Functions, Computing, AddRow \/ CompareRow
    PROVE  Computing' /\ ~Printed'
<1>1. PICK v : /\ Reading(job.tool) /\ ~OfOtherTable(Row)
               /\ v \in [Active -> {v[j] : j \in Active}]
               /\ Continue(<<>>, [values |-> v, rows |-> mem.rows + 1])
               /\ \/ AddRow /\ v = [j \in Active |-> Summed(j)]
                  \/ CompareRow /\ v = [j \in Active |-> Best(j)]
  <2>1. CASE AddRow
    <3>1. /\ Reading(job.tool) /\ ~OfOtherTable(Row)
          /\ Continue(<<>>, [values |-> [j \in Active |-> Summed(j)], rows |-> mem.rows + 1])
      BY <2>1 DEF AddRow, Aggregating, Aggregated
    <3> QED BY <2>1, <3>1
  <2>2. CASE CompareRow
    <3>1. /\ Reading(job.tool) /\ ~OfOtherTable(Row)
          /\ Continue(<<>>, [values |-> [j \in Active |-> Best(j)], rows |-> mem.rows + 1])
      BY <2>2 DEF CompareRow, Aggregating, Aggregated
    <3> QED BY <2>2, <3>1
  <2> QED BY <2>1, <2>2
<1>2. /\ UNCHANGED <<job, inputs, cols, pc>> /\ pos' = pos + 1
      /\ out' = out \o <<>> /\ mem'.values = v /\ mem'.rows = mem.rows + 1
  BY <1>1 DEF Continue, given
<1>3. PICK rows : rows = OwnRows(pos - 1) /\ rows \in Seq([DOMAIN Header -> Seq(Int)]) /\ Len(rows) \in Nat
  BY <1>1, ComputeFacts
<1>4. pos' - 1 = pos /\ OwnRows(pos) = Append(rows, Row) /\ Row \in [DOMAIN Header -> Seq(Int)]
  BY <1>1, <1>2, <1>3, ComputeFacts
<1>5. out' = out
  BY <1>2, PrintedLast DEF Computing
<1>6. mem'.rows = Len(Append(rows, Row)) /\ DOMAIN mem'.values = Active
  <2>1. Len(Append(rows, Row)) = Len(rows) + 1
    BY <1>3
  <2> QED BY <1>1, <1>2, <1>3, <2>1 DEF Computing
<1>7. ~AggregateFails
  BY DEF Computing
<1>8. ASSUME NEW i \in DOMAIN Chosen PROVE RightFor(i, v[Before + i], Append(rows, Row))
  <2>1. PICK value : value = mem.values[Before + i] /\ value = Value(Before + i) /\ RightFor(i, value, rows)
    BY <1>3 DEF Value, Computing
  <2>2. /\ Cell(Before + i) = Row[Chosen[i]] /\ Type(Before + i) = Header[Chosen[i]].type
        /\ Before + i \in Active
    BY <1>1, ComputeFacts
  <2>3. CASE AddRow /\ v = [j \in Active |-> Summed(j)]
    <3>1. v[Before + i] = Summed(Before + i)
      BY <2>2, <2>3
    <3>2. job.tool \in {"sum", "avg"}
      BY <2>3 DEF AddRow, Aggregating
    <3>3. CASE job.tool = "avg"
      BY <3>3 DEF RightFor
    <3>4. CASE job.tool = "sum"
      <4>1. Header[Chosen[i]].type # "int" =>
               v[Before + i] = value \o (IF value = Empty THEN Empty ELSE job.separator) \o Row[Chosen[i]]
        BY <2>1, <2>2, <3>1 DEF Summed
      <4> QED BY <1>3, <1>4, <1>7, <2>1, <3>4, <4>1, JoinsNext
    <3> QED BY <3>2, <3>3, <3>4
  <2>4. CASE CompareRow /\ v = [j \in Active |-> Best(j)]
    <3>1. v[Before + i] = Best(Before + i)
      BY <2>2, <2>4
    <3>2. job.tool \in {"min", "max"} /\ ~NotANumber(Before + i)
      BY <2>2, <2>4 DEF CompareRow, Aggregating
    <3>3. Header[Chosen[i]].type = "int" => IsNumber(Row[Chosen[i]])
      BY <2>2, <3>2 DEF NotANumber
    <3>4. PICK text : text = Amount(Chosen[i], Row[Chosen[i]])
      OBVIOUS
    <3>5. Candidate(Before + i) = text
      BY <2>2, <3>4 DEF Candidate, Amount
    <3>6. Better(Before + i) <=> value = None \/ Passes(text, value)
      BY <2>1, <3>2, <3>5 DEF Better, Passes
    <3>7. v[Before + i] = IF value = None \/ Passes(text, value) THEN text ELSE value
      BY <2>1, <3>1, <3>5, <3>6 DEF Best
    <3> QED BY <1>3, <1>4, <1>7, <2>1, <3>2, <3>3, <3>4, <3>7, BestNext
  <2> QED BY <1>1, <2>3, <2>4
<1>9. ~Printed'
  BY <1>1, <1>2 DEF Printed, Reading
<1> QED BY <1>2, <1>4, <1>5, <1>6, <1>8, <1>9, ResultTerms DEF Computing

\* When all rows are read, the values are what is promised.
LEMMA ComputingEnds ==
    ASSUME StreamInv, SumInv, job.tool \in Functions, Computing, EndAggregate
    PROVE  \A i \in DOMAIN Chosen : PromisedOf(i, Last(out')[Before + i])
<1>1. pc = "read" /\ pos > Len(Rows) /\ out' = out \o <<ResultRow>>
  BY DEF EndAggregate, AtEnd, Exit
<1>2. /\ Rows = AllRows /\ pos \in 1 .. Len(AllRows) + 1 /\ AllRows \in Seq(Range(AllRows))
      /\ Len(AllRows) \in Nat /\ DOMAIN AllRows = 1 .. Len(AllRows)
      /\ \A k \in DOMAIN AllRows : AllRows[k] \in [DOMAIN Header -> Seq(Int)]
  BY GivenStream DEF SeveralInputs, Functions
<1>3. pos - 1 = Len(AllRows)
  BY <1>1, <1>2
<1>4. Last(out') = ResultRow
  BY <1>1, PrintedLast DEF Computing
<1>5. PICK rows : rows = Selected(AllRows) /\ rows = OwnRows(pos - 1)
  <2>1. Selected(AllRows) = Those(AllRows, Mine)
    BY DEF Selected, Mine
  <2> QED BY <1>2, <1>3, <2>1, ThoseAll DEF OwnRows
<1>6. rows \in Seq([DOMAIN Header -> Seq(Int)]) /\ Len(rows) \in Nat
  <2>1. PICK S : S = [DOMAIN Header -> Seq(Int)]
    OBVIOUS
  <2>2. AllRows \in Seq(S)
    BY <1>2, <2>1
  <2> QED BY <1>5, <2>1, <2>2, ThoseType DEF OwnRows
<1>7. ~AggregateFails /\ cols = Selection /\ mem.rows = Len(rows)
  BY <1>5 DEF Computing
<1> TAKE i \in DOMAIN Chosen
<1>8. PICK c : c = Chosen[i]
  OBVIOUS
<1>9. PICK result : result = ResultRow[Before + i] /\ result = Result(Before + i)
  <2>1. Before + i \in Active /\ Active \subseteq DOMAIN cols
    BY <1>7, ActiveColumns
  <2> QED BY <2>1 DEF ResultRow
<1>10. PICK value : value = mem.values[Before + i] /\ value = Value(Before + i) /\ RightFor(i, value, rows)
  BY <1>5 DEF Value, Computing
<1>11. c \in DOMAIN Header /\ Header[c].type \in Supported
  BY <1>7, <1>8, ActiveColumns
<1>12. PICK total : total = Sums(Addends(c))[Len(AllRows)]
  OBVIOUS
<1>13. ASSUME job.tool \in {"sum", "avg"}, Header[c].type = "int" PROVE value = <<total>> /\ total \in Int
  <2>1. Adding /\ i \in Ints /\ (\E inv \in Invocations : job \in inv.jobs /\ inputs \in inv.inputs)
    BY <1>8, <1>13 DEF Adding, Ints, StreamInv
  <2>2. Summing
    BY <1>1, <2>1 DEF SumInv
  <2>3. mem.values[Before + i] = <<SumOf(i)[pos - 1]>>
    BY <2>1, <2>2 DEF Summing
  <2>4. SumOf(i)[Len(AllRows)] \in Int
    BY <1>2, <1>8, <1>11, <2>1, SumByRow
  <2>5. SumOf(i)[Len(AllRows)] = total
    BY <1>8, <1>12 DEF SumOf
  <2> QED BY <1>3, <1>10, <2>3, <2>4, <2>5
<1>14. PICK texts : texts = Values(c, rows)
  OBVIOUS
<1>15. texts \in Seq(Seq(Int))
  <2>1. PICK D : D = DOMAIN Header
    OBVIOUS
  <2>2. \E row \in [D -> Seq(Int)] : TRUE
    <3>1. [k \in D |-> <<>>] \in [D -> Seq(Int)]
      OBVIOUS
    <3> QED BY <3>1
  <2>3. PICK row \in [D -> Seq(Int)] : TRUE
    BY <2>2
  <2>4. c \in D /\ rows \in Seq([D -> Seq(Int)])
    BY <1>6, <1>11, <2>1
  <2>5. Values(c, rows) \in Seq(Seq(Int))
    BY ONLY <2>3, <2>4, ValuesNext
  <2> QED BY <1>14, <2>5
<1>16. ASSUME job.tool = "sum", Header[c].type # "int"
       PROVE  LET lead == {k \in DOMAIN texts : \A l \in 1 .. k : texts[l] = Empty}
              IN result = FlattenSeq(Pieces(SubSeq(texts, Cardinality(lead) + 1, Len(texts)), job.separator))
  <2>1. result = value
    BY <1>9, <1>10, <1>16 DEF Result
  <2>2. Joining(texts, job.separator, value)
    BY <1>8, <1>10, <1>14, <1>16 DEF RightFor
  <2> QED BY <1>15, <2>1, <2>2, JoinedAll
<1>17. ASSUME job.tool = "avg"
       PROVE  \/ rows = <<>> /\ result = <<0>>
              \/ LET rest == total - Number(result) * Len(rows) IN
                 rest \in 1 - Len(rows) .. Len(rows) - 1 /\ rest * total >= 0
  <2>1. CASE Len(rows) = 0
    <3>1. rows = <<>>
      BY <1>6, <2>1
    <3> QED BY <1>7, <1>9, <1>17, <2>1, <3>1 DEF Result
  <2>2. CASE Len(rows) # 0
    <3>1. Header[c].type = "int"
      BY <1>11, <1>17 DEF Supported
    <3>2. value = <<total>> /\ total \in Int
      BY <1>13, <1>17, <3>1
    <3>3. Number(value) = total
      BY <3>2 DEF Number, Empty
    <3>4. result = <<Quotient(total, Len(rows))>>
      BY <1>7, <1>9, <1>10, <1>17, <2>2, <3>3 DEF Result
    <3>5. Number(result) = Quotient(total, Len(rows))
      BY <3>4 DEF Number, Empty
    <3>6. PICK d \in Nat \ {0} : d = Len(rows)
      BY <1>6, <2>2
    <3>7. PICK rest : rest = total - Quotient(total, d) * d
      OBVIOUS
    <3>8. rest \in 1 - d .. d - 1 /\ rest * total >= 0
      BY <3>2, <3>6, <3>7, QuotientRest
    <3> QED BY <3>5, <3>6, <3>7, <3>8
  <2> QED BY <2>1, <2>2
<1>18. ASSUME job.tool \in {"min", "max"}, rows # <<>> PROVE Unpassed(result, Amounts(c, rows))
  <2>1. result = value
    BY <1>9, <1>10, <1>18 DEF Result
  <2> QED BY <1>8, <1>10, <1>18, <2>1 DEF RightFor
<1>19. job.tool = "sum" /\ Header[c].type = "int" => result = <<total>>
  BY <1>9, <1>10, <1>13 DEF Result
<1>20. PromisedOf(i, result)
  BY <1>5, <1>8, <1>12, <1>14, <1>16, <1>17, <1>18, <1>19 DEF PromisedOf
<1> QED BY <1>4, <1>9, <1>20

LEMMA PromisedStays ==
    ASSUME UNCHANGED <<job, inputs>>, NEW i, PromisedOf(i, Last(out')[Before + i])
    PROVE  PromisedOf(i, Last(out)[Before + i])'
<1>1. PICK result : result = Last(out')[Before + i]
  OBVIOUS
<1>2. /\ Chosen' = Chosen /\ AllRows' = AllRows /\ Header' = Header /\ Before' = Before
      /\ \A r : OfOtherTable(r)' <=> OfOtherTable(r)
  BY TermsStay, ResultTerms
<1>3. Selected(AllRows)' = Selected(AllRows)
  BY <1>2 DEF Selected
<1>4. \A c : Addends(c)' = Addends(c)
  BY <1>2 DEF Addends
<1>5. \A best, texts : Unpassed(best, texts)' <=> Unpassed(best, texts)
  BY DEF Unpassed, Passes
<1>6. \A c, rows : Amounts(c, rows)' = Amounts(c, rows)
  BY <1>2 DEF Amounts, Amount
<1> QED BY <1>1, <1>2, <1>3, <1>4, <1>5, <1>6 DEF PromisedOf

LEMMA ResultStep ==
    ASSUME ResultInv, [Next]_vars
    PROVE  ResultInv'
<1>0. StreamInv /\ StreamInv' /\ SumInv /\ SumInv'
  BY StreamStep, SumStep DEF ResultInv
<1>1. UNCHANGED <<job, inputs>>
  BY GivenKept DEF vars, given
<1>2. CASE UNCHANGED vars
  <2>1. Computing => Computing'
    BY <1>1, <1>2, ResultTerms DEF Computing, vars
  <2>2. ResultRight'
    <3>1. /\ Printed' => Printed
          /\ job' = job /\ out' = out /\ Chosen' = Chosen /\ Before' = Before
      BY <1>1, <1>2, ResultTerms DEF Printed, vars
    <3>2. ResultRight
      BY DEF ResultInv
    <3>3. \A i, result : PromisedOf(i, result)' <=> PromisedOf(i, result)
      BY <1>1, ResultTerms
    <3>4. ASSUME Printed', job.tool \in Functions, NEW i \in DOMAIN Chosen PROVE PromisedOf(i, Last(out)[Before + i])'
      <4>1. PromisedOf(i, Last(out)[Before + i])
        BY <3>1, <3>2, <3>4, ResultPromised
      <4> QED BY <1>1, <3>1, <4>1, PromisedStays
    <3> QED BY <3>1, <3>4, ResultPromisedNext
  <2> QED BY <1>0, <1>2, <2>1, <2>2 DEF ResultInv, vars, given
<1>3. CASE Next /\ job.tool \notin Functions
  BY <1>0, <1>1, <1>3 DEF ResultInv, ResultRight
<1>4. CASE Next /\ job.tool \in Functions /\ ~UNCHANGED vars
  <2>1. NextAggregate
    BY <1>4, ToolSteps DEF Functions, RpnToolNames, SqlToolNames, Evaluators, BuilderNames, Ended
  <2>2. ASSUME ~Printed' PROVE ResultRight'
    BY <2>2 DEF ResultRight
  <2>3. CASE OpenAggregate
    BY <1>0, <1>1, <1>4, <2>2, <2>3, ComputingOpens DEF ResultInv
  <2>4. CASE PassOnRow \/ AddRow \/ CompareRow
    <3>1. Computing
      BY <1>4, <2>4 DEF ResultInv, PassOnRow, PassOn, AddRow, CompareRow, Aggregating, Reading
    <3> QED BY <1>0, <1>1, <1>4, <2>2, <2>4, <3>1, ComputingPasses, ComputingReads DEF ResultInv
  <2>5. CASE BadRow
    <3>1. pc' = "exited" /\ ~Printed'
      BY <2>5 DEF BadRow, Fail, Exit, Printed
    <3> QED BY <1>0, <1>1, <2>2, <3>1 DEF ResultInv
  <2>6. CASE Crash \/ OverrunAggregate
    <3>1. pc' = "crashed" /\ ~Printed'
      BY <2>6 DEF Crash, OverrunAggregate, Die, Printed
    <3> QED BY <1>0, <1>1, <2>2, <3>1 DEF ResultInv
  <2>7. CASE EndAggregate
    <3>1. pc = "read" /\ pc' = "exited"
      BY <2>7 DEF EndAggregate, AtEnd, Exit
    <3>2. \A i \in DOMAIN Chosen : PromisedOf(i, Last(out')[Before + i])
      BY <1>0, <1>4, <2>7, <3>1, ComputingEnds DEF ResultInv
    <3>3. ResultRight'
      <4>1. job' = job /\ Chosen' = Chosen
        BY <1>1, ResultTerms
      <4>2. ASSUME NEW i \in DOMAIN Chosen PROVE PromisedOf(i, Last(out)[Before + i])'
        BY <1>1, <3>2, PromisedStays
      <4> QED BY <4>1, <4>2, ResultPromisedNext
    <3> QED BY <1>0, <1>1, <3>1, <3>3 DEF ResultInv
  <2> QED BY <2>1, <2>3, <2>4, <2>5, <2>6, <2>7 DEF NextAggregate
<1> QED BY <1>2, <1>3, <1>4

LEMMA ResultInit ==
    ASSUME Init
    PROVE  ResultInv
<1>1. StreamInv
  BY StreamInit
<1>2. pc = "open"
  BY DEF Init
<1>3. ResultRight
  BY <1>2 DEF ResultRight, Printed
<1>4. SumInv
  <2>1. /\ \E i \in Invocations : job \in i.jobs /\ inputs \in i.inputs
        /\ in = 1 /\ pos = 1 /\ hdr = <<>>
    BY DEF Init
  <2> QED BY <1>2, <2>1 DEF SumInv, OverflowTold
<1> QED BY <1>1, <1>2, <1>3, <1>4 DEF ResultInv

\* What csv-sum, csv-avg, csv-min and csv-max print of a column is what they
\* promise, for any input.
THEOREM ResultsPrinted == Spec => []ResultRight
<1>1. Init => ResultInv
  BY ResultInit
<1>2. ResultInv /\ [Next]_vars => ResultInv'
  BY ResultStep
<1>3. ResultInv => ResultRight
  BY DEF ResultInv
<1> QED BY <1>1, <1>2, <1>3, PTL DEF Spec

-----------------------------------------------------------------------------
(* How csv-sort orders *)

\* One text is not above another one of the same column; a row is not above
\* another one by the first n columns of -c.
TextLeq(c, s, t) ==
    \/ s = t
    \/ IF Header[c].type = "int" THEN IsNumber(s) /\ IsNumber(t) /\ Number(s) <= Number(t) ELSE Less(s, t)
RowLeq(n, r, s) ==
    \A k \in 1 .. n :
        (\A l \in 1 .. k - 1 : r[Chosen[l]] = s[Chosen[l]]) => TextLeq(Chosen[k], r[Chosen[k]], s[Chosen[k]])

\* Then the spelling of numbers does not matter.
Unambiguous(n) == n <= 1 \/ OneSpelling

LEMMA SortFacts ==
    ASSUME StreamInv, job.tool = "sort", ~TableMissing, ~ColumnMissing
    PROVE  /\ Len(Chosen) \in Nat /\ DOMAIN Chosen = 1 .. Len(Chosen)
           /\ \A k \in 1 .. Len(Chosen) : Chosen[k] \in DOMAIN Header
           /\ \A r \in Range(AllRows) : \A c \in DOMAIN Header : r[c] \in Seq(Int) /\ Number(r[c]) \in Int
<1>1. Chosen \in Seq(DOMAIN Header)
  BY GivenSelection
<1>2. /\ DOMAIN AllRows = 1 .. Len(AllRows)
      /\ \A k \in DOMAIN AllRows : AllRows[k] \in [DOMAIN Header -> Seq(Int)]
  BY GivenStream DEF SeveralInputs
<1>3. ASSUME NEW r \in Range(AllRows), NEW c \in DOMAIN Header PROVE r[c] \in Seq(Int)
  BY <1>2 DEF Range
<1>4. ASSUME NEW text \in Seq(Int) PROVE Number(text) \in Int
  BY DEF Number, Empty
<1> QED BY <1>1, <1>3, <1>4

\* What cmp() says of two rows
LEMMA NeighboursOrdered ==
    ASSUME StreamInv, job.tool = "sort", ~TableMissing, ~ColumnMissing, cols = Chosen,
           NEW n \in Nat, n <= Len(Chosen), NEW r \in Range(AllRows), NEW s \in Range(AllRows),
           ~CmpFails(r, s), CmpLeq(r, s)
    PROVE  RowLeq(n, r, s)
<1>1. /\ Len(Chosen) \in Nat /\ DOMAIN Chosen = 1 .. Len(Chosen)
      /\ \A k \in 1 .. Len(Chosen) : Chosen[k] \in DOMAIN Header
      /\ \A w \in Range(AllRows) : \A c \in DOMAIN Header : w[c] \in Seq(Int) /\ Number(w[c]) \in Int
  BY SortFacts
<1> SUFFICES ASSUME NEW k \in 1 .. n, \A l \in 1 .. k - 1 : r[Chosen[l]] = s[Chosen[l]]
             PROVE  TextLeq(Chosen[k], r[Chosen[k]], s[Chosen[k]])
  BY DEF RowLeq
<1>2. PICK c : c = Chosen[k] /\ c = cols[k] /\ c \in DOMAIN Header
  BY <1>1
<1>3. CASE r[c] = s[c]
  BY <1>2, <1>3 DEF TextLeq
<1>4. CASE r[c] # s[c]
  <2>1. PICK D : D = Differing(r, s)
    OBVIOUS
  <2>2. k \in D /\ \A j \in D : j \in 1 .. Len(Chosen) /\ k <= j
    <3>1. ASSUME NEW j \in D PROVE j \in 1 .. Len(Chosen) /\ k <= j
      <4>1. j \in 1 .. Len(Chosen) /\ r[Chosen[j]] # s[Chosen[j]]
        BY <1>1, <2>1 DEF Differing
      <4> QED BY <4>1
    <3> QED BY <1>1, <1>2, <1>4, <2>1, <3>1 DEF Differing
  <2>3. Decides(r, s) = k
    <3>1. Decides(r, s) = CHOOSE i \in D : \A j \in D : i <= j
      BY <2>1 DEF Decides
    <3>2. PICK d : d = CHOOSE i \in D : \A j \in D : i <= j
      OBVIOUS
    <3>3. d \in D /\ \A j \in D : d <= j
      BY <2>2, <3>2
    <3>4. d = k
      BY <2>2, <3>3
    <3> QED BY <3>1, <3>2, <3>4
  <2>4. D # {}
    BY <2>2
  <2>5. Header[c].type = "int" => IsNumber(r[c]) /\ IsNumber(s[c])
    BY <1>2, <2>1, <2>3, <2>4 DEF CmpFails
  <2>6. IF Header[c].type = "int" THEN Number(r[c]) <= Number(s[c]) ELSE ~Less(s[c], r[c])
    BY <1>2, <2>1, <2>3, <2>4 DEF CmpLeq
  <2>7. ~Less(s[c], r[c]) => Less(r[c], s[c])
    <3>1. r[c] \in Seq(Int) /\ s[c] \in Seq(Int)
      BY <1>1, <1>2
    <3> QED BY <1>4, <3>1, LessOrder
  <2>8. TextLeq(c, r[c], s[c])
    BY <2>5, <2>6, <2>7 DEF TextLeq
  <2> QED BY <1>2, <2>8
<1> QED BY <1>3, <1>4

LEMMA TextsTransitive ==
    ASSUME NEW c, NEW r \in Seq(Int), NEW s \in Seq(Int), NEW t \in Seq(Int),
           TextLeq(c, r, s), TextLeq(c, s, t)
    PROVE  TextLeq(c, r, t)
<1>1. CASE r = s \/ s = t
  BY <1>1
<1>2. CASE r # s /\ s # t /\ Header[c].type = "int"
  <2>1. Number(r) \in Int /\ Number(s) \in Int /\ Number(t) \in Int
    BY DEF Number, Empty
  <2>2. IsNumber(r) /\ IsNumber(t) /\ Number(r) <= Number(s) /\ Number(s) <= Number(t)
    BY <1>2 DEF TextLeq
  <2>3. Number(r) <= Number(t)
    BY <2>1, <2>2
  <2> QED BY <1>2, <2>2, <2>3 DEF TextLeq
<1>3. CASE r # s /\ s # t /\ Header[c].type # "int"
  <2>1. Less(r, s) /\ Less(s, t)
    BY <1>3 DEF TextLeq
  <2>2. Less(r, t)
    BY <2>1, LessOrder
  <2> QED BY <1>3, <2>2 DEF TextLeq
<1> QED BY <1>1, <1>2, <1>3

\* Of a text between two that are the same, when a number has one spelling
LEMMA BetweenSame ==
    ASSUME NEW c \in Range(Chosen), OneSpelling, NEW r \in Range(AllRows), NEW s \in Range(AllRows),
           r[c] \in Seq(Int), s[c] \in Seq(Int), TextLeq(c, r[c], s[c]), TextLeq(c, s[c], r[c])
    PROVE  r[c] = s[c]
<1>1. CASE Header[c].type = "int"
  <2> SUFFICES ASSUME r[c] # s[c] PROVE FALSE
    OBVIOUS
  <2>1. IsNumber(r[c]) /\ IsNumber(s[c]) /\ Number(r[c]) <= Number(s[c]) /\ Number(s[c]) <= Number(r[c])
    BY <1>1 DEF TextLeq
  <2>2. Number(r[c]) \in Int /\ Number(s[c]) \in Int
    BY DEF Number, Empty
  <2>3. Number(r[c]) = Number(s[c])
    BY <2>1, <2>2
  <2> QED BY <1>1, <2>1, <2>3 DEF OneSpelling, SameNumber
<1>2. CASE Header[c].type # "int"
  <2> SUFFICES ASSUME r[c] # s[c] PROVE FALSE
    OBVIOUS
  <2>1. Less(r[c], s[c]) /\ Less(s[c], r[c])
    BY <1>2 DEF TextLeq
  <2> QED BY <2>1, LessOrder
<1> QED BY <1>1, <1>2

LEMMA RowsTransitive ==
    ASSUME StreamInv, job.tool = "sort", ~TableMissing, ~ColumnMissing,
           NEW n \in Nat, n <= Len(Chosen), Unambiguous(n),
           NEW r \in Range(AllRows), NEW s \in Range(AllRows), NEW t \in Range(AllRows),
           RowLeq(n, r, s), RowLeq(n, s, t)
    PROVE  RowLeq(n, r, t)
<1>1. /\ Len(Chosen) \in Nat /\ DOMAIN Chosen = 1 .. Len(Chosen)
      /\ \A k \in 1 .. Len(Chosen) : Chosen[k] \in DOMAIN Header
      /\ \A w \in Range(AllRows) : \A c \in DOMAIN Header : w[c] \in Seq(Int)
  BY SortFacts
<1>2. \A k \in 1 .. n : \A w \in Range(AllRows) : w[Chosen[k]] \in Seq(Int)
  BY <1>1
<1> SUFFICES ASSUME NEW k \in 1 .. n, \A l \in 1 .. k - 1 : r[Chosen[l]] = t[Chosen[l]]
             PROVE  TextLeq(Chosen[k], r[Chosen[k]], t[Chosen[k]])
  BY DEF RowLeq
<1>3. \A l \in 1 .. k - 1 : r[Chosen[l]] = s[Chosen[l]]
  <2>1. CASE k <= 1
    BY <2>1
  <2>2. CASE k > 1
    <3> SUFFICES ASSUME NEW x \in 1 .. k - 1, r[Chosen[x]] # s[Chosen[x]] PROVE FALSE
      OBVIOUS
    <3> DEFINE D == {l \in 1 .. k - 1 : r[Chosen[l]] # s[Chosen[l]]}
    <3>1. D \in SUBSET Nat /\ D # {}
      OBVIOUS
    <3>2. PICK l \in D : \A m \in D : l <= m
      <4> HIDE DEF D
      <4> QED BY <3>1, LeastMember
    <3>3. l \in 1 .. k - 1 /\ l \in 1 .. n /\ r[Chosen[l]] # s[Chosen[l]] /\ r[Chosen[l]] = t[Chosen[l]]
      BY <3>2
    <3>4. \A m \in 1 .. l - 1 : r[Chosen[m]] = s[Chosen[m]] /\ s[Chosen[m]] = t[Chosen[m]]
      <4> TAKE m \in 1 .. l - 1
      <4>1. m \in 1 .. k - 1 /\ ~(l <= m)
        BY <3>3
      <4>2. r[Chosen[m]] = s[Chosen[m]]
        BY <3>2, <4>1
      <4> QED BY <4>1, <4>2
    <3>5. TextLeq(Chosen[l], r[Chosen[l]], s[Chosen[l]]) /\ TextLeq(Chosen[l], s[Chosen[l]], r[Chosen[l]])
      BY <3>3, <3>4 DEF RowLeq
    <3>6. OneSpelling
      BY <2>2 DEF Unambiguous
    <3>7. Chosen[l] \in Range(Chosen)
      BY <1>1, <3>3 DEF Range
    <3> QED BY <1>2, <3>3, <3>5, <3>6, <3>7, BetweenSame
  <2> QED BY <2>1, <2>2
<1>4. TextLeq(Chosen[k], r[Chosen[k]], s[Chosen[k]]) /\ TextLeq(Chosen[k], s[Chosen[k]], t[Chosen[k]])
  <2>1. \A l \in 1 .. k - 1 : s[Chosen[l]] = t[Chosen[l]]
    BY <1>3
  <2> QED BY <1>3, <2>1 DEF RowLeq
<1> QED BY <1>2, <1>4, TextsTransitive

\* The order of the promise
LEMMA RowsOrdered ==
    ASSUME StreamInv, job.tool = "sort", ~TableMissing, ~ColumnMissing,
           NEW n \in Nat, n <= Len(Chosen), Unambiguous(n),
           NEW r \in Range(AllRows), NEW s \in Range(AllRows), RowLeq(n, r, s)
    PROVE  OrderedBy(r, s, SubSeq(Chosen, 1, n))
<1>1. /\ Len(Chosen) \in Nat /\ DOMAIN Chosen = 1 .. Len(Chosen)
      /\ \A k \in 1 .. Len(Chosen) : Chosen[k] \in DOMAIN Header
      /\ \A w \in Range(AllRows) : \A c \in DOMAIN Header : w[c] \in Seq(Int) /\ Number(w[c]) \in Int
  BY SortFacts
<1>2. PICK keys : keys = SubSeq(Chosen, 1, n)
  OBVIOUS
<1>3. DOMAIN keys = 1 .. n /\ \A k \in 1 .. n : keys[k] = Chosen[k]
  <2>1. Chosen \in Seq(DOMAIN Header)
    BY GivenSelection
  <2>2. keys \in Seq(DOMAIN Header) /\ Len(keys) = n - 1 + 1 /\ \A k \in 1 .. n - 1 + 1 : keys[k] = Chosen[1 + k - 1]
    BY <1>2, <2>1, StretchElements
  <2> QED BY <2>2
<1> DEFINE Same(i) == r[i] = s[i] \/ (Header[i].type = "int" /\ SameNumber(r[i], s[i]))
           Below(i) == IF Header[i].type # "int" THEN Less(r[i], s[i])
                       ELSE IsNumber(r[i]) /\ IsNumber(s[i]) /\ Number(r[i]) < Number(s[i])
<1>4. ASSUME NEW k \in 1 .. n, \A l \in 1 .. k - 1 : Same(keys[l]) PROVE Same(keys[k]) \/ Below(keys[k])
  <2>1. \A l \in 1 .. k - 1 : r[Chosen[l]] = s[Chosen[l]]
    <3> TAKE l \in 1 .. k - 1
    <3>1. l \in 1 .. n /\ n > 1
      OBVIOUS
    <3>2. OneSpelling
      BY <3>1 DEF Unambiguous
    <3>3. Chosen[l] \in Range(Chosen)
      BY <1>1, <3>1 DEF Range
    <3>4. r[Chosen[l]] = s[Chosen[l]] \/ (Header[Chosen[l]].type = "int" /\ SameNumber(r[Chosen[l]], s[Chosen[l]]))
      BY <1>3, <1>4, <3>1
    <3> QED BY <3>2, <3>3, <3>4 DEF OneSpelling
  <2>2. PICK c : c = Chosen[k] /\ c = keys[k] /\ c \in DOMAIN Header
    BY <1>1, <1>3
  <2>3. TextLeq(c, r[c], s[c])
    BY <2>1, <2>2 DEF RowLeq
  <2>4. Number(r[c]) \in Int /\ Number(s[c]) \in Int
    BY <1>1, <2>2
  <2>5. Same(c) \/ Below(c)
    BY <2>3, <2>4 DEF TextLeq, SameNumber
  <2> QED BY <2>2, <2>5
<1>5. OrderedBy(r, s, keys) <=> \A k \in DOMAIN keys : (\A l \in 1 .. k - 1 : Same(keys[l])) => Same(keys[k]) \/ Below(keys[k])
  BY DEF OrderedBy
<1> HIDE DEF Same, Below
<1> QED BY <1>2, <1>3, <1>4, <1>5

\* Neighbours were compared, and none is above the next one.
Compared(s) == \A i \in 1 .. Len(s) - 1 : ~CmpFails(s[i], s[i + 1]) /\ CmpLeq(s[i], s[i + 1])

\* csv_qsort_r() compares neighbours, and so orders any two rows.
LEMMA SortedPairs ==
    ASSUME StreamInv, job.tool = "sort", ~TableMissing, ~ColumnMissing, cols = Chosen,
           NEW n \in Nat, n <= Len(Chosen), Unambiguous(n),
           NEW s \in Seq(Range(AllRows)),
           Compared(s)
    PROVE  \A i, j \in DOMAIN s : i < j => RowLeq(n, s[i], s[j])
<1>1. PICK m \in Nat : m = Len(s) /\ DOMAIN s = 1 .. m
  OBVIOUS
<1>2. \A i \in 1 .. m : s[i] \in Range(AllRows)
  BY <1>1
<1> DEFINE T == {j \in Nat : \A i \in 1 .. j - 1 : RowLeq(n, s[i], s[j])}
<1>3. ASSUME NEW i \in 1 .. m, i + 1 \in 1 .. m PROVE RowLeq(n, s[i], s[i + 1])
  <2>1. ~CmpFails(s[i], s[i + 1]) /\ CmpLeq(s[i], s[i + 1])
    BY <1>1, <1>3 DEF Compared
  <2> QED BY <1>2, <1>3, <2>1, NeighboursOrdered
<1>4. 0 \in T
  OBVIOUS
<1>5. \A k \in 0 .. m - 1 : k \in T => k + 1 \in T
  <2> SUFFICES ASSUME NEW k \in 0 .. m - 1, \A i \in 1 .. k - 1 : RowLeq(n, s[i], s[k]),
                      NEW i \in 1 .. k
               PROVE  RowLeq(n, s[i], s[k + 1])
    <3>1. \A k \in 0 .. m - 1 : k \in Nat /\ k + 1 \in Nat /\ (k + 1) - 1 = k
      BY <1>1
    <3> QED BY <3>1
  <2>1. k \in 1 .. m /\ k + 1 \in 1 .. m /\ i \in 1 .. m
    BY <1>1
  <2>2. RowLeq(n, s[k], s[k + 1])
    BY <1>3, <2>1
  <2>3. CASE i = k
    BY <2>2, <2>3
  <2>4. CASE i \in 1 .. k - 1
    <3>1. RowLeq(n, s[i], s[k])
      BY <2>4
    <3>2. s[i] \in Range(AllRows) /\ s[k] \in Range(AllRows) /\ s[k + 1] \in Range(AllRows)
      BY <1>2, <2>1
    <3> QED BY <2>2, <3>1, <3>2, RowsTransitive
  <2> QED BY <2>3, <2>4
<1> HIDE DEF T
<1>6. 0 .. m \subseteq T
  BY <1>1, <1>4, <1>5, UpToInduction
<1>7. TAKE i, j \in DOMAIN s
<1>8. HAVE i < j
<1>9. j \in T /\ i \in 1 .. j - 1
  BY <1>1, <1>6, <1>8
<1> QED BY <1>9 DEF T

-----------------------------------------------------------------------------
\* While csv-sort reads, what was printed and what is kept are the rows before.
Gathering ==
    /\ ~TableMissing /\ ~ColumnMissing /\ cols = Chosen
    /\ out \in Seq(Range(AllRows)) /\ mem.lines \in Seq(Range(AllRows))
    /\ \A k \in DOMAIN out : OfOtherTable(out[k])
    /\ \A k \in DOMAIN mem.lines : ~OfOtherTable(mem.lines[k])
    /\ \A r : CountOf(out, r) + CountOf(mem.lines, r) = CountOf(SubSeq(AllRows, 1, pos - 1), r)

\* What is promised of the rows that are printed
SortedUpTo(depth, rows) ==
    LET keys == SubSeq(Chosen, 1, IF depth < Len(Chosen) THEN depth ELSE Len(Chosen))
    IN \A k, l \in DOMAIN rows : k < l =>
          IF job.reverse THEN OrderedBy(rows[l], rows[k], keys) ELSE OrderedBy(rows[k], rows[l], keys)
SortPromise(printed) ==
    /\ \A r \in Range(AllRows) \cup Range(printed) : CountOf(printed, r) = CountOf(AllRows, r)
    /\ SortedUpTo(1, Selected(printed))
    /\ OneSpelling => SortedUpTo(Len(Chosen), Selected(printed))

SortInv ==
    /\ StreamInv
    /\ job.tool = "sort" /\ pc = "read" => Gathering
    /\ SortRight

LEMMA SortPromised ==
    /\ SortRight <=> (Printed /\ job.tool = "sort" => SortPromise(out))
    /\ SortRight' <=> (Printed' /\ job'.tool = "sort" => SortPromise(out)')
BY DEF SortRight, SortPromise, SortedTo, SortedUpTo, CountOf

LEMMA SortTerms ==
    ASSUME UNCHANGED <<job, inputs>>
    PROVE  /\ Header' = Header /\ AllRows' = AllRows /\ Chosen' = Chosen
           /\ (TableMissing' <=> TableMissing) /\ (ColumnMissing' <=> ColumnMissing)
           /\ \A r : OfOtherTable(r)' <=> OfOtherTable(r)
<1>1. /\ Header' = Header /\ AllRows' = AllRows /\ Chosen' = Chosen /\ TableAt' = TableAt
      /\ \A r : OfOtherTable(r)' <=> OfOtherTable(r)
  BY TermsStay
<1> QED BY <1>1 DEF TableMissing, ColumnMissing

LEMMA SortPromiseStays ==
    ASSUME UNCHANGED <<job, inputs>>, SortPromise(out')
    PROVE  SortPromise(out)'
<1>1. PICK o : o = out'
  OBVIOUS
<1>2. /\ Header' = Header /\ AllRows' = AllRows /\ Chosen' = Chosen
      /\ \A r : OfOtherTable(r)' <=> OfOtherTable(r)
  BY SortTerms
<1>3. Selected(out)' = Selected(o)
  BY <1>1, <1>2 DEF Selected
<1>4. \A r, s, keys : OrderedBy(r, s, keys)' <=> OrderedBy(r, s, keys)
  BY <1>2 DEF OrderedBy, SameNumber
<1>5. \A depth, rows : SortedUpTo(depth, rows)' <=> SortedUpTo(depth, rows)
  BY <1>2, <1>4 DEF SortedUpTo
<1>6. OneSpelling' <=> OneSpelling
  BY <1>2 DEF OneSpelling, SameNumber
<1>7. SortedUpTo(1, Selected(o)) /\ (OneSpelling => SortedUpTo(Len(Chosen), Selected(o)))
  BY <1>1 DEF SortPromise
<1>8. \A r \in Range(AllRows) \cup Range(o) : CountOf(o, r) = CountOf(AllRows, r)
  BY <1>1 DEF SortPromise
<1>9. SortedUpTo(1, Selected(out))' /\ (OneSpelling' => SortedUpTo(Len(Chosen), Selected(out))')
  BY <1>2, <1>3, <1>4, <1>6, <1>7 DEF SortedUpTo
<1> QED BY <1>1, <1>2, <1>8, <1>9 DEF SortPromise

\* Rows come in the order of others, with -r in the other one.
InOrderOf(s, rows) ==
    \A k, l \in DOMAIN rows : k < l =>
        \E i, j \in DOMAIN s : i < j /\ IF job.reverse THEN rows[l] = s[i] /\ rows[k] = s[j]
                                        ELSE rows[k] = s[i] /\ rows[l] = s[j]

\* The order of rows that were sorted
LEMMA SortedOrder ==
    ASSUME StreamInv, job.tool = "sort", ~TableMissing, ~ColumnMissing, cols = Chosen,
           NEW depth \in Nat, Unambiguous(IF depth < Len(Chosen) THEN depth ELSE Len(Chosen)),
           NEW s \in Seq(Range(AllRows)),
           Compared(s), NEW rows, InOrderOf(s, rows)
    PROVE  SortedUpTo(depth, rows)
<1>1. PICK n : n = IF depth < Len(Chosen) THEN depth ELSE Len(Chosen)
  OBVIOUS
<1>2. n \in Nat /\ n <= Len(Chosen)
  <2>1. Len(Chosen) \in Nat
    BY SortFacts
  <2> QED BY <1>1, <2>1
<1>3. \A i, j \in DOMAIN s : i < j => RowLeq(n, s[i], s[j])
  BY <1>1, <1>2, SortedPairs
<1>4. ASSUME NEW i \in DOMAIN s, NEW j \in DOMAIN s, i < j PROVE OrderedBy(s[i], s[j], SubSeq(Chosen, 1, n))
  <2>1. s[i] \in Range(AllRows) /\ s[j] \in Range(AllRows)
    OBVIOUS
  <2>2. RowLeq(n, s[i], s[j])
    BY <1>3, <1>4
  <2> QED BY <1>1, <1>2, <2>1, <2>2, RowsOrdered
<1>5. ASSUME NEW k \in DOMAIN rows, NEW l \in DOMAIN rows, k < l
      PROVE  IF job.reverse THEN OrderedBy(rows[l], rows[k], SubSeq(Chosen, 1, n))
             ELSE OrderedBy(rows[k], rows[l], SubSeq(Chosen, 1, n))
  BY <1>4, <1>5 DEF InOrderOf
<1> QED BY <1>1, <1>5 DEF SortedUpTo

\* What csv-sort prints at the end, after the rows of other tables
LEMMA SortEnds ==
    ASSUME StreamInv, job.tool = "sort", pc = "read", Gathering, EndSort
    PROVE  SortPromise(out')
<1>1. /\ ~TableMissing /\ ~ColumnMissing /\ cols = Chosen
      /\ out \in Seq(Range(AllRows)) /\ mem.lines \in Seq(Range(AllRows))
      /\ \A k \in DOMAIN out : OfOtherTable(out[k])
      /\ \A r : CountOf(out, r) + CountOf(mem.lines, r) = CountOf(SubSeq(AllRows, 1, pos - 1), r)
  BY DEF Gathering
<1>2. PICK q, z : q = out /\ z = mem.lines
  OBVIOUS
<1>3. PICK s \in Sorted(z) : pos > Len(Rows) /\ out' = out \o (IF job.reverse THEN Reverse(s) ELSE s)
  BY <1>2 DEF EndSort, AtEnd, Exit
<1>4. PICK n \in Nat : n = Len(z) /\ DOMAIN z = 1 .. n
  BY <1>1, <1>2
<1>5. PICK p \in Bijection(DOMAIN z, DOMAIN z) : s = [i \in DOMAIN z |-> z[p[i]]]
  BY <1>3 DEF Sorted
<1>6. /\ s \in Seq(Range(AllRows)) /\ Len(s) = n /\ DOMAIN s = 1 .. n
      /\ Compared(s)
      /\ \A r : CountOf(s, r) = CountOf(z, r)
  <2>1. p \in [1 .. n -> 1 .. n]
    BY <1>4, <1>5 DEF Bijection, Injection
  <2>2. z \in Seq(Range(AllRows)) /\ \A i \in 1 .. n : z[i] \in Range(AllRows)
    BY <1>1, <1>2, <1>4
  <2>3. \A i \in 1 .. n : s[i] \in Range(AllRows)
    BY <1>4, <1>5, <2>1, <2>2
  <2>4. s = [i \in 1 .. n |-> s[i]]
    BY <1>4, <1>5
  <2>5. s \in Seq(Range(AllRows)) /\ Len(s) = n /\ DOMAIN s = 1 .. n
    BY <2>3, <2>4
  <2>6. \A r : CountOf(s, r) = CountOf(z, r)
    BY <1>5, <2>2, CountRearranged
  <2>7. Compared(s)
    BY <1>3 DEF Sorted, Compared
  <2> QED BY <2>5, <2>6, <2>7
<1>7. PICK u : u = IF job.reverse THEN Reverse(s) ELSE s
  OBVIOUS
<1>8. /\ u \in Seq(Range(AllRows)) /\ Len(u) = n
      /\ \A i \in 1 .. n : u[i] = IF job.reverse THEN s[n - i + 1] ELSE s[i]
      /\ \A r : CountOf(u, r) = CountOf(s, r)
  <2>1. CASE job.reverse
    <3>1. u = [i \in 1 .. n |-> s[n - i + 1]]
      BY <1>6, <1>7, <2>1 DEF Reverse
    <3>2. \A i \in 1 .. n : s[n - i + 1] \in Range(AllRows)
      BY <1>6
    <3>3. u \in Seq(Range(AllRows)) /\ Len(u) = n
      BY <3>1, <3>2
    <3>4. \A r : CountOf(u, r) = CountOf(s, r)
      BY <1>6, <1>7, <2>1, CountReversed
    <3> QED BY <2>1, <3>1, <3>3, <3>4
  <2>2. CASE ~job.reverse
    BY <1>6, <1>7, <2>2
  <2> QED BY <2>1, <2>2
<1>9. PICK o : o = q \o u
  OBVIOUS
<1>10. out' = o
  BY <1>2, <1>3, <1>7, <1>9
<1>11. PICK m \in Nat : m = Len(q) /\ DOMAIN q = 1 .. m
  BY <1>1, <1>2
<1>12. o \in Seq(Range(AllRows)) /\ Len(o) = m + n /\ (\A i \in 1 .. m : o[i] = q[i]) /\ \A i \in 1 .. n : o[m + i] = u[i]
  <2>1. q \in Seq(Range(AllRows)) /\ u \in Seq(Range(AllRows))
    BY <1>1, <1>2, <1>8
  <2>2. /\ o \in Seq(Range(AllRows)) /\ Len(o) = Len(q) + Len(u)
        /\ (\A i \in 1 .. Len(q) : o[i] = q[i]) /\ \A i \in 1 .. Len(u) : o[Len(q) + i] = u[i]
    BY <1>9, <2>1, ConcatPlaces
  <2>3. Len(q) = m /\ Len(u) = n
    BY <1>8, <1>11
  <2> QED BY <2>2, <2>3
<1>13. \A r : CountOf(o, r) = CountOf(AllRows, r)
  <2> TAKE r
  <2>1. CountOf(o, r) = CountOf(q, r) + CountOf(u, r)
    BY <1>1, <1>2, <1>8, <1>9, CountBoth
  <2>2. SubSeq(AllRows, 1, pos - 1) = AllRows
    <3>1. /\ Rows = AllRows /\ pos \in 1 .. Len(AllRows) + 1 /\ Len(AllRows) \in Nat
          /\ AllRows \in Seq(Range(AllRows))
      BY GivenStream DEF SeveralInputs
    <3>2. pos - 1 = Len(AllRows)
      BY <1>3, <3>1
    <3> QED BY <3>1, <3>2
  <2> QED BY <1>1, <1>2, <1>6, <1>8, <2>1, <2>2
<1>14. PICK own : own = {k \in DOMAIN o : ~OfOtherTable(o[k])}
  OBVIOUS
<1>15. PICK rows : rows = Selected(o)
  OBVIOUS
<1>16. \A i \in own \cap (1 .. Len(o)) : i - m \in 1 .. n /\ o[i] = u[i - m]
  <2> TAKE i \in own \cap (1 .. Len(o))
  <2>1. ~OfOtherTable(o[i]) /\ i \in 1 .. m + n
    BY <1>12, <1>14
  <2>2. i \notin 1 .. m
    BY <1>1, <1>2, <1>11, <1>12, <2>1
  <2>3. i - m \in 1 .. n /\ m + (i - m) = i
    BY <2>1, <2>2
  <2> QED BY <1>12, <2>3
<1>17. InOrderOf(s, rows)
  <2> SUFFICES ASSUME NEW k \in DOMAIN rows, NEW l \in DOMAIN rows, k < l
               PROVE  \E i, j \in DOMAIN s : i < j /\ IF job.reverse THEN rows[l] = s[i] /\ rows[k] = s[j]
                                                      ELSE rows[k] = s[i] /\ rows[l] = s[j]
    BY DEF InOrderOf
  <2>1. rows = Those(o, own)
    BY <1>14, <1>15 DEF Selected
  <2>2. \E i, j \in own \cap (1 .. Len(o)) : i < j /\ rows[k] = o[i] /\ rows[l] = o[j]
    BY <1>12, <2>1, ThosePlaces
  <2>3. PICK i \in own \cap (1 .. Len(o)) : \E j \in own \cap (1 .. Len(o)) : i < j /\ rows[k] = o[i] /\ rows[l] = o[j]
    BY <2>2
  <2>4. PICK j \in own \cap (1 .. Len(o)) : i < j /\ rows[k] = o[i] /\ rows[l] = o[j]
    BY <2>3
  <2>5. PICK a : a = i - m
    OBVIOUS
  <2>6. PICK b : b = j - m
    OBVIOUS
  <2>7. a \in 1 .. n /\ b \in 1 .. n /\ a < b /\ rows[k] = u[a] /\ rows[l] = u[b]
    BY <1>12, <1>16, <2>4, <2>5, <2>6
  <2>8. CASE job.reverse
    <3>1. rows[k] = s[n - a + 1] /\ rows[l] = s[n - b + 1]
      BY <1>8, <2>7, <2>8
    <3>2. n - b + 1 < n - a + 1 /\ n - b + 1 \in DOMAIN s /\ n - a + 1 \in DOMAIN s
      BY <1>6, <2>7
    <3> QED BY <2>8, <3>1, <3>2
  <2>9. CASE ~job.reverse
    <3>1. rows[k] = s[a] /\ rows[l] = s[b]
      BY <1>8, <2>7, <2>9
    <3> QED BY <1>6, <2>7, <2>9, <3>1
  <2> QED BY <2>8, <2>9
<1>18. SortedUpTo(1, rows)
  <2>1. Unambiguous(IF 1 < Len(Chosen) THEN 1 ELSE Len(Chosen))
    <3>1. Len(Chosen) \in Nat
      BY <1>1, SortFacts
    <3> QED BY <3>1 DEF Unambiguous
  <2>2. 1 \in Nat
    OBVIOUS
  <2> QED BY <1>1, <1>6, <1>17, <2>1, <2>2, SortedOrder
<1>19. OneSpelling => SortedUpTo(Len(Chosen), rows)
  <2> SUFFICES ASSUME OneSpelling PROVE SortedUpTo(Len(Chosen), rows)
    OBVIOUS
  <2>1. Unambiguous(IF Len(Chosen) < Len(Chosen) THEN Len(Chosen) ELSE Len(Chosen))
    BY DEF Unambiguous
  <2>2. Len(Chosen) \in Nat
    BY <1>1, SortFacts
  <2> QED BY <1>1, <1>6, <1>17, <2>1, <2>2, SortedOrder
<1> QED BY <1>10, <1>13, <1>15, <1>18, <1>19 DEF SortPromise

\* Of the rows in w, those in q are printed and those in z kept.
Divided(q, z, w) ==
    /\ q \in Seq(Range(AllRows)) /\ z \in Seq(Range(AllRows))
    /\ \A k \in DOMAIN q : OfOtherTable(q[k])
    /\ \A k \in DOMAIN z : ~OfOtherTable(z[k])
    /\ \A r : CountOf(q, r) + CountOf(z, r) = CountOf(w, r)

LEMMA GatheringNext ==
    ASSUME /\ ~TableMissing /\ ~ColumnMissing /\ cols' = Chosen /\ UNCHANGED <<job, inputs>>,
           NEW q, NEW z, NEW w, out' = q, mem'.lines = z, SubSeq(AllRows, 1, pos' - 1) = w,
           Divided(q, z, w)
    PROVE  Gathering'
<1>0. /\ q \in Seq(Range(AllRows)) /\ z \in Seq(Range(AllRows))
      /\ \A k \in DOMAIN q : OfOtherTable(q[k])
      /\ \A k \in DOMAIN z : ~OfOtherTable(z[k])
      /\ \A r : CountOf(q, r) + CountOf(z, r) = CountOf(w, r)
  BY DEF Divided
<1>1. /\ (~TableMissing)' /\ (~ColumnMissing)' /\ Chosen' = Chosen
      /\ AllRows' = AllRows /\ \A r : OfOtherTable(r)' <=> OfOtherTable(r)
  BY SortTerms
<1>2. \A r : (CountOf(out, r) + CountOf(mem.lines, r) = CountOf(SubSeq(AllRows, 1, pos - 1), r))'
  <2> TAKE r
  <2>1. SubSeq(AllRows, 1, pos - 1)' = w
    BY <1>1
  <2>2. CountOf(q, r) + CountOf(z, r) = CountOf(w, r)
    BY <1>0
  <2> QED BY <2>1, <2>2 DEF CountOf
<1>3. (out \in Seq(Range(AllRows)) /\ mem.lines \in Seq(Range(AllRows)))'
  BY <1>0, <1>1
<1>4. (\A k \in DOMAIN out : OfOtherTable(out[k]))'
  BY <1>0, <1>1 DEF OfOtherTable
<1>5. (\A k \in DOMAIN mem.lines : ~OfOtherTable(mem.lines[k]))'
  BY <1>0, <1>1 DEF OfOtherTable
<1>6. cols' = Chosen'
  BY <1>1
<1> QED BY <1>1, <1>2, <1>3, <1>4, <1>5, <1>6 DEF Gathering

\* A row is kept, or passed on at once.
LEMMA SortReads ==
    ASSUME StreamInv, job.tool = "sort", pc = "read", Gathering, PassOnUnsorted \/ KeepRow
    PROVE  Gathering'
<1>1. UNCHANGED <<job, inputs, cols>> /\ pos' = pos + 1 /\ pos <= Len(Rows)
  BY DEF PassOnUnsorted, KeepRow, Reading, Continue, given
<1>2. /\ Rows = AllRows /\ pos \in 1 .. Len(AllRows) + 1 /\ Len(AllRows) \in Nat
      /\ AllRows \in Seq(Range(AllRows))
  BY GivenStream DEF SeveralInputs
<1>3. PICK row : row = AllRows[pos]
  OBVIOUS
<1>4. row \in Range(AllRows) /\ Row = row
  BY <1>1, <1>2, <1>3 DEF Row
<1>5. PICK w : w = SubSeq(AllRows, 1, pos - 1)
  OBVIOUS
<1>6. w \in Seq(Range(AllRows)) /\ SubSeq(AllRows, 1, pos' - 1) = Append(w, row)
  <2>1. pos \in Nat /\ pos - 1 \in 0 .. Len(AllRows) - 1 /\ 1 \in 1 .. (pos - 1) + 1 /\ (pos - 1) + 1 = pos /\ pos' - 1 = pos
    BY <1>1, <1>2
  <2> QED BY <1>2, <1>3, <1>5, <2>1, SubSeqGrows
<1>7. PICK q, z : q = out /\ z = mem.lines
  OBVIOUS
<1>8. /\ q \in Seq(Range(AllRows)) /\ z \in Seq(Range(AllRows))
      /\ \A k \in DOMAIN q : OfOtherTable(q[k])
      /\ \A k \in DOMAIN z : ~OfOtherTable(z[k])
      /\ \A r : CountOf(q, r) + CountOf(z, r) = CountOf(w, r)
  BY <1>5, <1>7 DEF Gathering
<1>9. ASSUME NEW x \in Seq(Range(AllRows))
      PROVE  /\ Append(x, row) \in Seq(Range(AllRows))
             /\ \A k \in DOMAIN Append(x, row) : Append(x, row)[k] = row \/ (k \in DOMAIN x /\ Append(x, row)[k] = x[k])
  <2>1. PICK d \in Nat : d = Len(x)
    OBVIOUS
  <2>2. PICK y : y = Append(x, row)
    OBVIOUS
  <2>3. /\ y \in Seq(Range(AllRows)) /\ DOMAIN y = 1 .. d + 1 /\ DOMAIN x = 1 .. d /\ y[d + 1] = row
        /\ \A k \in 1 .. d : y[k] = x[k]
    BY <1>4, <2>1, <2>2
  <2>4. \A k \in 1 .. d + 1 : k = d + 1 \/ k \in 1 .. d
    BY <2>1
  <2> QED BY <2>2, <2>3, <2>4
<1>10. ASSUME NEW x \in Seq(Range(AllRows)), NEW r
       PROVE  CountOf(x, r) \in Nat /\ CountOf(Append(x, row), r) = CountOf(x, r) + (IF row = r THEN 1 ELSE 0)
  BY <1>4, CountNext
<1>11. ~TableMissing /\ ~ColumnMissing /\ cols' = Chosen
  BY <1>1 DEF Gathering
<1>12. CASE PassOnUnsorted
  <2>1. out' = Append(q, row) /\ mem' = mem /\ OfOtherTable(row)
    <3>1. out' = q \o <<row>> /\ mem' = mem /\ OfOtherTable(row)
      BY <1>4, <1>7, <1>12 DEF PassOnUnsorted, Continue
    <3> QED BY <1>4, <1>8, <3>1, OneMore
  <2>2. mem'.lines = z
    BY <1>7, <2>1
  <2>3. out' \in Seq(Range(AllRows)) /\ \A k \in DOMAIN out' : OfOtherTable(out'[k])
    BY <1>8, <1>9, <2>1
  <2>4. ASSUME NEW r PROVE CountOf(out', r) + CountOf(z, r) = CountOf(Append(w, row), r)
    <3>1. CountOf(q, r) \in Nat /\ CountOf(z, r) \in Nat /\ CountOf(q, r) + CountOf(z, r) = CountOf(w, r)
      BY <1>8, <1>10
    <3>2. /\ CountOf(out', r) = CountOf(q, r) + (IF row = r THEN 1 ELSE 0)
          /\ CountOf(Append(w, row), r) = CountOf(w, r) + (IF row = r THEN 1 ELSE 0)
      BY <1>6, <1>8, <1>10, <2>1
    <3> QED BY <3>1, <3>2
  <2>5. Divided(out', z, Append(w, row))
    BY <1>8, <2>3, <2>4 DEF Divided
  <2>6. out' = out'
    OBVIOUS
  <2> QED BY <1>1, <1>6, <1>11, <2>2, <2>5, <2>6, GatheringNext
<1>13. CASE KeepRow
  <2>1. out' = q /\ mem'.lines = Append(z, row) /\ ~OfOtherTable(row)
    BY <1>4, <1>7, <1>8, <1>13, OneMore DEF KeepRow, Continue
  <2>2. Append(z, row) \in Seq(Range(AllRows)) /\ \A k \in DOMAIN Append(z, row) : ~OfOtherTable(Append(z, row)[k])
    BY <1>8, <1>9, <2>1
  <2>3. ASSUME NEW r PROVE CountOf(q, r) + CountOf(Append(z, row), r) = CountOf(Append(w, row), r)
    <3>1. CountOf(q, r) \in Nat /\ CountOf(z, r) \in Nat /\ CountOf(q, r) + CountOf(z, r) = CountOf(w, r)
      BY <1>8, <1>10
    <3>2. /\ CountOf(Append(z, row), r) = CountOf(z, r) + (IF row = r THEN 1 ELSE 0)
          /\ CountOf(Append(w, row), r) = CountOf(w, r) + (IF row = r THEN 1 ELSE 0)
      BY <1>6, <1>8, <1>10
    <3> QED BY <3>1, <3>2
  <2>4. Divided(q, Append(z, row), Append(w, row))
    BY <1>8, <2>1, <2>2, <2>3 DEF Divided
  <2> QED BY <1>1, <1>6, <1>11, <2>1, <2>4, GatheringNext
<1> QED BY <1>12, <1>13

LEMMA SortOpens ==
    ASSUME StreamInv, OpenSort, pc' = "read"
    PROVE  Gathering'
<1>1. /\ ~TableMissing /\ ~ColumnMissing /\ cols' = Chosen /\ mem' = [lines |-> <<>>]
      /\ UNCHANGED <<job, inputs, out, pos>> /\ pc = "open"
  BY DEF OpenSort, Start, Opening, Fail, Exit, given
<1>2. out = <<>> /\ pos = 1
  BY <1>1 DEF StreamInv
<1>3. (~TableMissing)' /\ (~ColumnMissing)' /\ cols' = Chosen' /\ AllRows' = AllRows
  BY <1>1, SortTerms
<1>4. SubSeq(AllRows, 1, pos - 1) = <<>>
  BY <1>2
<1>5. mem'.lines = <<>> /\ out' = <<>>
  BY <1>1, <1>2
<1>6. <<>> \in Seq(Range(AllRows)) /\ DOMAIN <<>> = {} /\ \A r : CountOf(<<>>, r) + CountOf(<<>>, r) = CountOf(<<>>, r)
  BY CountNone
<1>7. \A r : (CountOf(out, r) + CountOf(mem.lines, r) = CountOf(SubSeq(AllRows, 1, pos - 1), r))'
  BY <1>1, <1>3, <1>4, <1>5, <1>6 DEF CountOf
<1> QED BY <1>3, <1>5, <1>6, <1>7 DEF Gathering

LEMMA SortStep ==
    ASSUME SortInv, [Next]_vars
    PROVE  SortInv'
<1>0. StreamInv /\ StreamInv'
  BY StreamStep DEF SortInv
<1>1. UNCHANGED <<job, inputs>>
  BY GivenKept DEF vars, given
<1>2. ASSUME ~Printed' PROVE SortRight'
  BY <1>2 DEF SortRight
<1>3. CASE UNCHANGED vars
  <2>1. Gathering => Gathering'
    BY <1>1, <1>3, SortTerms DEF Gathering, vars, CountOf
  <2>2. SortRight'
    <3>1. (Printed' => Printed) /\ job' = job /\ out' = out
      BY <1>1, <1>3 DEF Printed, vars
    <3>2. SortRight
      BY DEF SortInv
    <3>3. Printed' /\ job.tool = "sort" => SortPromise(out')
      BY <3>1, <3>2, SortPromised
    <3> QED BY <1>1, <3>1, <3>3, SortPromiseStays, SortPromised
  <2> QED BY <1>0, <1>1, <1>3, <2>1, <2>2 DEF SortInv, vars
<1>4. CASE Next /\ job.tool # "sort"
  <2>1. job'.tool # "sort"
    BY <1>1, <1>4
  <2> QED BY <1>0, <2>1 DEF SortInv, SortRight
<1>5. CASE Next /\ job.tool = "sort" /\ ~UNCHANGED vars
  <2>1. NextSort
    BY <1>5, ToolSteps DEF Functions, RpnToolNames, SqlToolNames, Evaluators, BuilderNames, Ended
  <2>2. CASE OpenSort
    <3>1. ~Printed'
      BY <2>2 DEF OpenSort, Start, Fail, Exit, Printed, Opening
    <3> QED BY <1>0, <1>2, <2>2, <3>1, SortOpens DEF SortInv
  <2>3. CASE PassOnUnsorted \/ KeepRow
    <3>1. pc = "read" /\ ~Printed'
      BY <2>3 DEF PassOnUnsorted, KeepRow, Reading, Continue, Printed
    <3>2. Gathering'
      BY <1>0, <1>5, <2>3, <3>1, SortReads DEF SortInv
    <3> QED BY <1>0, <1>2, <3>1, <3>2 DEF SortInv
  <2>4. CASE SortFails
    <3>1. pc' = "exited" /\ ~Printed'
      BY <2>4 DEF SortFails, Fail, Exit, Printed
    <3> QED BY <1>0, <1>2, <3>1 DEF SortInv
  <2>5. CASE EndSort
    <3>1. pc = "read" /\ pc' = "exited"
      BY <2>5 DEF EndSort, AtEnd, Exit
    <3>2. SortPromise(out')
      BY <1>0, <1>5, <2>5, <3>1, SortEnds DEF SortInv
    <3>3. SortRight'
      BY <1>1, <3>2, SortPromiseStays, SortPromised
    <3> QED BY <1>0, <3>1, <3>3 DEF SortInv
  <2> QED BY <2>1, <2>2, <2>3, <2>4, <2>5 DEF NextSort
<1> QED BY <1>3, <1>4, <1>5

\* csv-sort prints the rows it has read, each as often, those of the table in
\* order, for any input, any columns and any order that the comparisons allow.
THEOREM SortedPrinted == Spec => []SortRight
<1>1. Init => SortInv
  <2> SUFFICES ASSUME Init PROVE SortInv
    OBVIOUS
  <2>1. StreamInv /\ pc = "open"
    BY StreamInit DEF Init
  <2> QED BY <2>1 DEF SortInv, SortRight, Printed
<1>2. SortInv /\ [Next]_vars => SortInv'
  BY SortStep
<1>3. SortInv => SortRight
  BY DEF SortInv
<1> QED BY <1>1, <1>2, <1>3, PTL DEF Spec

-----------------------------------------------------------------------------
(* How csv-merge puts the columns together *)

MergeGiven ==
    /\ \E i \in Invocations : job \in i.jobs /\ inputs \in i.inputs
    /\ job.tool = "merge" /\ TablesNamed

\* Where the columns of input k and its rows begin
ColumnsBefore(k) == Len(MergedHeader(k - 1))
RowsBefore(k) == Len(FlattenSeq([i \in 1 .. k - 1 |-> inputs[i].rows]))

\* Where the i-th column that input k contributes is in it
PlaceOf(k, i) == IF TableColumnOf(k) = 0 \/ i < TableColumnOf(k) THEN i ELSE i + 1

\* What the assumption says of the inputs of csv-merge
LEMMA MergeInputs ==
    ASSUME MergeGiven
    PROVE  /\ Len(inputs) \in Nat \ {0} /\ DOMAIN inputs = 1 .. Len(inputs)
           /\ \A k \in 1 .. Len(inputs) :
                 /\ inputs[k].rows \in Seq(Range(inputs[k].rows)) /\ Len(inputs[k].rows) \in Nat
                 /\ DOMAIN inputs[k].rows = 1 .. Len(inputs[k].rows)
                 /\ inputs[k].header \in Seq(Range(inputs[k].header)) /\ Len(inputs[k].header) \in Nat \ {0}
                 /\ DOMAIN inputs[k].header = 1 .. Len(inputs[k].header)
                 /\ \A n \in 1 .. Len(inputs[k].rows) :
                       inputs[k].rows[n] \in [1 .. Len(inputs[k].header) -> Seq(Int)]
                 /\ job.tables[k] # NoTable => \A c \in 1 .. Len(inputs[k].header) : inputs[k].header[c].table = NoTable
                 /\ \A c, d \in 1 .. Len(inputs[k].header) :
                       IsTableColumn(inputs[k].header[c]) /\ IsTableColumn(inputs[k].header[d]) => c = d
<1>1. PICK i \in Invocations : job \in i.jobs /\ inputs \in i.inputs
  BY DEF MergeGiven
<1>2. Len(inputs) \in Nat \ {0} /\ DOMAIN inputs = 1 .. Len(inputs)
  BY <1>1, GivenInputs
<1>3. job.tool = "merge" /\ TablesNamed
  BY DEF MergeGiven
<1>4. ASSUME NEW k \in 1 .. Len(inputs)
      PROVE  /\ inputs[k].rows \in Seq(Range(inputs[k].rows)) /\ Len(inputs[k].rows) \in Nat
             /\ DOMAIN inputs[k].rows = 1 .. Len(inputs[k].rows)
             /\ inputs[k].header \in Seq(Range(inputs[k].header)) /\ Len(inputs[k].header) \in Nat
             /\ DOMAIN inputs[k].header = 1 .. Len(inputs[k].header)
             /\ \A n \in DOMAIN inputs[k].rows : inputs[k].rows[n] \in [DOMAIN inputs[k].header -> Seq(Int)]
  BY <1>1, <1>2, GivenInputs
<1>5. ASSUME NEW k \in 1 .. Len(inputs) PROVE inputs[k].header # <<>>
  BY <1>1, <1>2, RowStreamsAssumption
<1>6. ASSUME NEW k \in 1 .. Len(inputs), NEW c \in DOMAIN inputs[k].header, NEW d \in DOMAIN inputs[k].header,
             IsTableColumn(inputs[k].header[c]), IsTableColumn(inputs[k].header[d])
      PROVE  c = d
  BY <1>1, <1>2, <1>3, <1>6, RowStreamsAssumption DEF IsTableColumn
<1>7. ASSUME NEW k \in 1 .. Len(inputs), job.tables[k] # NoTable, NEW c \in DOMAIN inputs[k].header
      PROVE  inputs[k].header[c].table = NoTable
  <2>1. inputs[k].header[c] \in Range(inputs[k].header)
    BY DEF Range
  <2> QED BY <1>2, <1>3, <1>7, <2>1 DEF TablesNamed
<1>8. ASSUME NEW k \in 1 .. Len(inputs) PROVE Len(inputs[k].header) # 0
  <2>1. PICK h : h = inputs[k].header
    OBVIOUS
  <2>2. h \in Seq(Range(h)) /\ h # <<>>
    BY <1>4, <1>5, <2>1
  <2>3. Len(h) # 0
    BY <2>2
  <2> QED BY <2>1, <2>3
<1> QED BY <1>2, <1>4, <1>6, <1>7, <1>8

\* The columns that an input contributes, and where they come from
LEMMA Contributions ==
    ASSUME MergeGiven, ~MergeFails, NEW k \in 1 .. Len(inputs)
    PROVE  /\ Contributed(k) \in Seq(Range(Contributed(k)))
           /\ Len(Contributed(k)) = Len(inputs[k].header) - (IF job.tables[k] = NoTable THEN 1 ELSE 0)
           /\ job.tables[k] = NoTable => TableColumnOf(k) \in 1 .. Len(inputs[k].header)
                                         /\ IsTableColumn(inputs[k].header[TableColumnOf(k)])
           /\ job.tables[k] # NoTable => TableColumnOf(k) = 0
           /\ \A i \in 1 .. Len(Contributed(k)) :
                 /\ PlaceOf(k, i) \in 1 .. Len(inputs[k].header)
                 /\ Contributed(k)[i] = IF job.tables[k] = NoTable THEN inputs[k].header[PlaceOf(k, i)]
                                        ELSE [inputs[k].header[PlaceOf(k, i)] EXCEPT !.table = job.tables[k]]
<1>1. PICK h, T, t : h = inputs[k].header /\ T = job.tables[k] /\ t = TableColumnOf(k)
  OBVIOUS
<1>2. PICK n \in Nat \ {0} : n = Len(h) /\ DOMAIN h = 1 .. n
  BY <1>1, MergeInputs
<1>3. h \in Seq(Range(h))
  BY <1>1, MergeInputs
<1>4. \A c, d \in 1 .. n : IsTableColumn(h[c]) /\ IsTableColumn(h[d]) => c = d
  BY <1>1, <1>2, MergeInputs
<1>5. CASE T # NoTable
  <2>1. t = 0 /\ \A i : PlaceOf(k, i) = i
    BY <1>1, <1>5 DEF TableColumnOf, PlaceOf
  <2>2. Contributed(k) = [i \in 1 .. n |-> [h[i] EXCEPT !.table = T]]
    BY <1>1, <1>2, <1>5 DEF Contributed
  <2>3. PICK c : c = Contributed(k)
    OBVIOUS
  <2>4. c \in Seq(Range(c)) /\ Len(c) = n
    <3>1. c = [i \in 1 .. n |-> c[i]] /\ \A i \in 1 .. n : c[i] \in Range(c)
      BY <2>2, <2>3 DEF Range
    <3> QED BY <3>1
  <2>5. \A i \in 1 .. n : c[i] = [h[i] EXCEPT !.table = T]
    BY <2>2, <2>3
  <2> QED BY <1>1, <1>2, <1>5, <2>1, <2>3, <2>4, <2>5
<1>6. CASE T = NoTable
  <2>1. t # 0
    BY <1>1, <1>6, MergeInputs DEF MergeFails
  <2>2. t = SelectInSeq(h, IsTableColumn)
    BY <1>1, <1>6 DEF TableColumnOf
  <2>3. t \in 1 .. n /\ IsTableColumn(h[t])
    <3> DEFINE I == {i \in 1 .. Len(h) : IsTableColumn(h[i])}
    <3>1. t = IF I # {} THEN Min(I) ELSE 0
      BY <2>2 DEF SelectInSeq
    <3>2. I # {} /\ I \in SUBSET Nat
      BY <2>1, <3>1
    <3> HIDE DEF I
    <3>3. Min(I) \in I
      <4>1. \E x \in I : \A y \in I : x <= y
        BY <3>2, LeastMember
      <4> QED BY <4>1 DEF Min
    <3>4. t \in I
      BY <3>1, <3>2, <3>3
    <3> QED BY <1>2, <3>4 DEF I
  <2>4. PICK p : p = {i \in DOMAIN h : ~IsTableColumn(h[i])}
    OBVIOUS
  <2>5. p \cap (1 .. Len(h)) = (1 .. Len(h)) \ {t}
    BY <1>2, <1>4, <2>3, <2>4
  <2>6. Contributed(k) = Those(h, p)
    BY <1>1, <1>6, <2>4 DEF Contributed
  <2>7. Contributed(k) = [i \in 1 .. n - 1 |-> IF i < t THEN h[i] ELSE h[i + 1]]
    BY <1>2, <1>3, <2>3, <2>5, <2>6, ThoseBut
  <2>8. PICK c : c = Contributed(k)
    OBVIOUS
  <2>9. c \in Seq(Range(c)) /\ Len(c) = n - 1
    <3>1. c = [i \in 1 .. n - 1 |-> c[i]] /\ \A i \in 1 .. n - 1 : c[i] \in Range(c)
      BY <2>7, <2>8 DEF Range
    <3> QED BY <3>1
  <2>10. \A i \in 1 .. n - 1 : PlaceOf(k, i) = (IF i < t THEN i ELSE i + 1)
    BY <1>1, <2>1 DEF PlaceOf
  <2>11. \A i \in 1 .. n - 1 : PlaceOf(k, i) \in 1 .. n /\ c[i] = h[PlaceOf(k, i)]
    BY <1>2, <2>3, <2>7, <2>8, <2>10
  <2> QED BY <1>1, <1>2, <1>6, <2>3, <2>8, <2>9, <2>11
<1> QED BY <1>5, <1>6

\* Where the columns of input k are in the merged header h
ColumnsOf(k, h) ==
    /\ h \in Seq(Range(h)) /\ Len(h) \in Nat /\ ColumnsBefore(k) \in Nat /\ Len(Contributed(k)) \in Nat
    /\ ColumnsBefore(k) + Len(Contributed(k)) <= Len(h)
    /\ \A i \in 1 .. Len(Contributed(k)) : h[ColumnsBefore(k) + i] = Contributed(k)[i]
    /\ \A i, j \in 1 .. Len(h) : h[i].table = h[j].table /\ h[i].name = h[j].name => i = j

\* The merged header holds the columns of an input in one piece, each once.
LEMMA MergedColumns ==
    ASSUME MergeGiven, ~MergeFails, NEW k \in 1 .. Len(inputs), NEW h, h = MergedHeader(Len(inputs))
    PROVE  ColumnsOf(k, h)
<1>1. PICK N \in Nat : N = Len(inputs)
  BY MergeInputs
<1>2. PICK parts : parts = [i \in 1 .. N |-> Contributed(i)]
  OBVIOUS
<1>3. PICK S : S = UNION {Range(parts[i]) : i \in 1 .. N}
  OBVIOUS
<1>4. \A i \in 1 .. N : parts[i] \in Seq(S)
  <2> TAKE i \in 1 .. N
  <2>1. PICK c : c = parts[i]
    OBVIOUS
  <2>2. c \in Seq(Range(c))
    BY <1>1, <1>2, <2>1, Contributions
  <2>3. Range(c) \subseteq S
    BY <1>3, <2>1
  <2>4. c \in Seq(S)
    BY <2>2, <2>3
  <2> QED BY <2>1, <2>4
<1>5. \A n \in 0 .. N : MergedHeader(n) = Together(parts, n)
  <2> TAKE n \in 0 .. N
  <2>1. [i \in 1 .. n |-> Contributed(i)] = [i \in 1 .. n |-> parts[i]]
    BY <1>2
  <2> QED BY <2>1 DEF MergedHeader, Together
<1>6. /\ Len(Together(parts, k - 1)) \in Nat /\ Len(parts[k]) \in Nat
      /\ Len(Together(parts, k - 1)) + Len(parts[k]) <= Len(Together(parts, N))
      /\ \A i \in 1 .. Len(parts[k]) : Together(parts, N)[Len(Together(parts, k - 1)) + i] = parts[k][i]
  <2>1. k \in 1 .. N
    BY <1>1
  <2>2. PartInside(parts, N, k)
    BY <1>4, <2>1, TogetherParts
  <2> QED BY <2>2 DEF PartInside
<1>7. h = Together(parts, N) /\ ColumnsBefore(k) = Len(Together(parts, k - 1)) /\ Contributed(k) = parts[k]
  <2>1. k - 1 \in 0 .. N /\ N \in 0 .. N
    BY <1>1
  <2> QED BY <1>1, <1>2, <1>5, <2>1 DEF ColumnsBefore
<1>8. h \in Seq(S)
  <2>1. N \in 0 .. N
    OBVIOUS
  <2> QED BY <1>4, <1>7, <2>1, TogetherNext
<1>9. h \in Seq(Range(h)) /\ Len(h) \in Nat /\ DOMAIN h = 1 .. Len(h)
  BY <1>8 DEF Range
<1>10. \A i, j \in 1 .. Len(h) : h[i].table = h[j].table /\ h[i].name = h[j].name => i = j
  BY <1>9 DEF MergeFails
<1> QED BY <1>6, <1>7, <1>9, <1>10 DEF ColumnsOf

\* The rows of an input follow those of the inputs before it.
LEMMA MergedRows ==
    ASSUME MergeGiven
    PROVE  /\ RowsBefore(1) = 0
           /\ \A k \in 1 .. Len(inputs) :
                 RowsBefore(k) \in Nat /\ RowsBefore(k + 1) = RowsBefore(k) + Len(inputs[k].rows)
<1>1. PICK N \in Nat : N = Len(inputs)
  BY MergeInputs
<1>2. PICK parts : parts = [i \in 1 .. N |-> inputs[i].rows]
  OBVIOUS
<1>3. PICK S : S = UNION {Range(parts[i]) : i \in 1 .. N}
  OBVIOUS
<1>4. \A i \in 1 .. N : parts[i] \in Seq(S)
  <2> TAKE i \in 1 .. N
  <2>1. PICK c : c = parts[i]
    OBVIOUS
  <2>2. c \in Seq(Range(c))
    BY <1>1, <1>2, <2>1, MergeInputs
  <2>3. Range(c) \subseteq S
    BY <1>3, <2>1
  <2>4. c \in Seq(S)
    BY <2>2, <2>3
  <2> QED BY <2>1, <2>4
<1>5. \A n \in 0 .. N : FlattenSeq([i \in 1 .. n |-> inputs[i].rows]) = Together(parts, n)
  <2> TAKE n \in 0 .. N
  <2>1. [i \in 1 .. n |-> inputs[i].rows] = [i \in 1 .. n |-> parts[i]]
    BY <1>2
  <2> QED BY <2>1 DEF Together
<1>6. \A n \in 0 .. N : RowsBefore(n + 1) = Len(Together(parts, n))
  <2> TAKE n \in 0 .. N
  <2>1. (n + 1) - 1 = n
    OBVIOUS
  <2>2. PICK w : w = FlattenSeq([i \in 1 .. n |-> inputs[i].rows])
    OBVIOUS
  <2>3. RowsBefore(n + 1) = Len(w)
    BY <2>1, <2>2 DEF RowsBefore
  <2> QED BY <1>5, <2>2, <2>3
<1>7. RowsBefore(1) = 0
  <2>1. Together(parts, 0) = <<>>
    BY <1>4, TogetherNext
  <2>2. RowsBefore(0 + 1) = Len(Together(parts, 0))
    BY <1>6
  <2> QED BY <2>1, <2>2
<1>8. ASSUME NEW k \in 1 .. N PROVE RowsBefore(k) \in Nat /\ RowsBefore(k + 1) = RowsBefore(k) + Len(inputs[k].rows)
  <2>1. /\ Len(Together(parts, k - 1)) \in Nat /\ Len(parts[k]) \in Nat
        /\ Len(Together(parts, k)) = Len(Together(parts, k - 1)) + Len(parts[k])
    <3>1. PartInside(parts, N, k)
      BY <1>4, TogetherParts
    <3> QED BY <3>1 DEF PartInside
  <2>2. k - 1 \in 0 .. N /\ (k - 1) + 1 = k /\ k \in 0 .. N
    OBVIOUS
  <2>3. RowsBefore((k - 1) + 1) = Len(Together(parts, k - 1)) /\ RowsBefore(k + 1) = Len(Together(parts, k))
    BY <1>6, <2>2
  <2>4. parts[k] = inputs[k].rows
    BY <1>2
  <2> QED BY <2>1, <2>2, <2>3, <2>4
<1> QED BY Zenon, <1>1, <1>7, <1>8

\* Where input k has the column that the merged header calls c
GivenAt(k, c) == WhereIs(inputs[k].header, IF job.tables[k] = NoTable THEN c ELSE [c EXCEPT !.table = NoTable])

LEMMA GivenPlace ==
    ASSUME MergeGiven, ~MergeFails, NEW k \in 1 .. Len(inputs), NEW i \in 1 .. Len(Contributed(k))
    PROVE  GivenAt(k, Contributed(k)[i]) = PlaceOf(k, i)
<1>1. PICK h, T, t : h = inputs[k].header /\ T = job.tables[k] /\ t = TableColumnOf(k)
  OBVIOUS
<1>2. PICK n \in Nat \ {0} : n = Len(h)
  BY <1>1, MergeInputs
<1>3. PICK c : c = Contributed(k)
  OBVIOUS
<1>4. PICK l \in Nat : l = Len(c)
  BY <1>3, MergedColumns DEF ColumnsOf
<1>5. /\ l = n - (IF T = NoTable THEN 1 ELSE 0)
      /\ T = NoTable => t \in 1 .. n /\ IsTableColumn(h[t])
      /\ T # NoTable => t = 0
      /\ \A j \in 1 .. l : PlaceOf(k, j) \in 1 .. n
                           /\ c[j] = IF T = NoTable THEN h[PlaceOf(k, j)] ELSE [h[PlaceOf(k, j)] EXCEPT !.table = T]
  BY <1>1, <1>2, <1>3, <1>4, Contributions
<1>6. PICK a : a = PlaceOf(k, i)
  OBVIOUS
<1>7. i \in 1 .. l /\ a \in 1 .. n
  BY <1>3, <1>4, <1>5, <1>6
<1>8. ASSUME NEW j \in 1 .. l, c[j] = c[i] PROVE j = i
  <2>1. PICK m, F : m = MergedHeader(Len(inputs)) /\ F = ColumnsBefore(k)
    OBVIOUS
  <2>2. /\ Len(m) \in Nat /\ F \in Nat /\ F + l <= Len(m)
        /\ \A o \in 1 .. l : m[F + o] = c[o]
        /\ \A o, p \in 1 .. Len(m) : m[o].table = m[p].table /\ m[o].name = m[p].name => o = p
    <3>1. ColumnsOf(k, m)
      BY <2>1, MergedColumns
    <3> QED BY <1>3, <1>4, <2>1, <3>1 DEF ColumnsOf
  <2>3. F + i \in 1 .. Len(m) /\ F + j \in 1 .. Len(m) /\ m[F + i] = m[F + j]
    BY <1>7, <1>8, <2>2
  <2>4. F + i = F + j
    BY <2>2, <2>3
  <2> QED BY <1>7, <2>2, <2>4
<1>9. \A j \in 1 .. n : h[j] = h[a] => j = a
  <2> SUFFICES ASSUME NEW j \in 1 .. n, h[j] = h[a] PROVE j = a
    OBVIOUS
  <2>1. CASE T # NoTable
    <3>1. j \in 1 .. l /\ PlaceOf(k, j) = j /\ a = i
      BY <1>1, <1>5, <1>6, <2>1 DEF PlaceOf
    <3>2. c[j] = c[i]
      <4>1. h[PlaceOf(k, j)] = h[PlaceOf(k, i)]
        BY <1>6, <3>1
      <4>2. c[j] = [h[PlaceOf(k, j)] EXCEPT !.table = T] /\ c[i] = [h[PlaceOf(k, i)] EXCEPT !.table = T]
        BY <1>5, <1>7, <2>1, <3>1
      <4> QED BY <4>1, <4>2
    <3> QED BY <1>8, <3>1, <3>2
  <2>2. CASE T = NoTable
    <3>1. t \in 1 .. n /\ IsTableColumn(h[t]) /\ l = n - 1
      BY <1>5, <2>2
    <3>2. a # t
      BY <1>1, <1>6, <1>7, <3>1 DEF PlaceOf
    <3>3. j # t
      <4>1. IsTableColumn(h[t]) /\ IsTableColumn(h[a]) => t = a
        BY <1>1, <1>2, <1>7, <3>1, MergeInputs
      <4>2. j = t => IsTableColumn(h[a])
        BY <3>1
      <4> QED BY <3>1, <3>2, <4>1, <4>2
    <3>4. PICK o \in 1 .. l : o = IF j < t THEN j ELSE j - 1
      BY <3>1, <3>3
    <3>5. PlaceOf(k, o) = j
      BY <1>1, <3>1, <3>3, <3>4 DEF PlaceOf
    <3>6. c[o] = c[i]
      BY <1>5, <1>6, <1>7, <2>2, <3>4, <3>5
    <3>7. o = i
      BY <1>8, <3>6
    <3> QED BY <1>6, <3>5, <3>7
  <2> QED BY <2>1, <2>2
<1>10. WhereIs(h, h[a]) = a
  BY <1>2, <1>7, <1>9, OnlyPlace
<1>11. (IF T = NoTable THEN c[i] ELSE [c[i] EXCEPT !.table = NoTable]) = h[a]
  <2>1. CASE T = NoTable
    BY <1>5, <1>6, <1>7, <2>1
  <2>2. CASE T # NoTable
    <3>1. PICK d : d = h[a]
      OBVIOUS
    <3>2. d.table = NoTable
      BY <1>1, <1>2, <1>7, <2>2, <3>1, MergeInputs
    <3>3. d = [table |-> d.table, name |-> d.name, type |-> d.type]
      BY <1>1, <1>2, <1>7, <3>1, MergeInputs, GivenInputs DEF MergeGiven
    <3>4. c[i] = [d EXCEPT !.table = T]
      BY <1>5, <1>6, <1>7, <2>2, <3>1
    <3>5. [[d EXCEPT !.table = T] EXCEPT !.table = NoTable] = d
      BY <3>2, <3>3
    <3> QED BY <2>2, <3>1, <3>4, <3>5
  <2> QED BY <2>1, <2>2
<1>12. GivenAt(k, c[i]) = WhereIs(h, h[a])
  BY <1>1, <1>11 DEF GivenAt
<1> QED BY <1>3, <1>6, <1>10, <1>12

\* The row that is promised of the n-th row of input k
RowFor(k, n, row, header) ==
    /\ Len(row) = Len(header) + (IF job.tables[k] = NoTable /\ IsTableColumn(Last(inputs[k].header)) THEN 1 ELSE 0)
    /\ \A j \in 2 .. Len(header) :
          row[j] = IF header[j] \in Range(Contributed(k)) THEN inputs[k].rows[n][GivenAt(k, header[j])] ELSE Empty
    /\ job.tables[k] # NoTable => row[1] = <<job.tables[k]>>

\* w is a with b after it; w is a, b, c and d, of which a is one element
Follows(w, a, b, S) ==
    /\ w \in Seq(S) /\ Len(w) = Len(a) + Len(b)
    /\ \A i \in 1 .. Len(a) : w[i] = a[i]
    /\ \A i \in 1 .. Len(b) : w[Len(a) + i] = b[i]

FourParts(w, a, b, c, d) ==
    /\ Len(w) = 1 + Len(b) + Len(c) + Len(d) /\ w[1] = a[1]
    /\ \A i \in 1 .. Len(b) : w[1 + i] = b[i]
    /\ \A i \in 1 .. Len(c) : w[1 + Len(b) + i] = c[i]
    /\ \A i \in 1 .. Len(d) : w[1 + Len(b) + Len(c) + i] = d[i]

LEMMA Appended ==
    ASSUME NEW S, NEW a \in Seq(S), NEW b \in Seq(S), NEW w, w = a \o b
    PROVE  Follows(w, a, b, S)
BY ConcatPlaces DEF Follows

LEMMA FourPieces ==
    ASSUME NEW S, NEW a \in Seq(S), NEW b \in Seq(S), NEW c \in Seq(S), NEW d \in Seq(S), Len(a) = 1,
           NEW w, w = a \o b \o c \o d
    PROVE  FourParts(w, a, b, c, d)
<1>1. PICK x : x = a \o b
  OBVIOUS
<1>2. PICK y : y = x \o c
  OBVIOUS
<1>3. w = y \o d
  BY <1>1, <1>2
<1>4. PICK m \in Nat : m = Len(b)
  OBVIOUS
<1>5. PICK n \in Nat : n = Len(c)
  OBVIOUS
<1>6. PICK o \in Nat : o = Len(d)
  OBVIOUS
<1>7. x \in Seq(S) /\ Len(x) = 1 + m /\ x[1] = a[1] /\ \A i \in 1 .. m : x[1 + i] = b[i]
  <2>1. Follows(x, a, b, S)
    BY <1>1, Appended
  <2>2. 1 \in 1 .. Len(a)
    OBVIOUS
  <2> QED BY <1>4, <2>1, <2>2 DEF Follows
<1>8. y \in Seq(S) /\ Len(y) = 1 + m + n /\ (\A i \in 1 .. 1 + m : y[i] = x[i]) /\ \A i \in 1 .. n : y[1 + m + i] = c[i]
  <2>1. Follows(y, x, c, S)
    BY <1>2, <1>7, Appended
  <2> QED BY <1>5, <1>7, <2>1 DEF Follows
<1>9. /\ Len(w) = 1 + m + n + o /\ (\A i \in 1 .. 1 + m + n : w[i] = y[i])
      /\ \A i \in 1 .. o : w[1 + m + n + i] = d[i]
  <2>1. Follows(w, y, d, S)
    BY <1>3, <1>8, Appended
  <2> QED BY <1>6, <1>8, <2>1 DEF Follows
<1>10. w[1] = a[1]
  <2>1. 1 \in 1 .. 1 + m /\ 1 \in 1 .. 1 + m + n
    OBVIOUS
  <2> QED BY <1>7, <1>8, <1>9, <2>1
<1>11. \A i \in 1 .. m : w[1 + i] = b[i]
  <2> TAKE i \in 1 .. m
  <2>1. 1 + i \in 1 .. 1 + m /\ 1 + i \in 1 .. 1 + m + n
    OBVIOUS
  <2> QED BY <1>7, <1>8, <1>9, <2>1
<1>12. \A i \in 1 .. n : w[1 + m + i] = c[i]
  <2> TAKE i \in 1 .. n
  <2>1. 1 + m + i \in 1 .. 1 + m + n
    OBVIOUS
  <2> QED BY <1>8, <1>9, <2>1
<1> QED BY <1>4, <1>5, <1>6, <1>9, <1>10, <1>11, <1>12 DEF FourParts

\* next_row() of csv-merge prints what is promised.
LEMMA MergedRow ==
    ASSUME MergeGiven, ~MergeFails, in \in 1 .. Len(inputs), pos \in 1 .. Len(inputs[in].rows),
           NEW h, h = MergedHeader(Len(inputs)), NEW first, hdr = <<first>> \o h, NEW row,
           row = <<RowTable>> \o Blank(FirstColumn) \o Own \o Blank(Trailing)
    PROVE  RowFor(in, pos, row, hdr)
<1>1. PICK k, n, r : k = in /\ n = pos /\ r = inputs[k].rows[n] /\ r = Row
  BY DEF Row, Rows
<1>2. PICK c, s, T, t : c = Contributed(k) /\ s = inputs[k].header /\ T = job.tables[k] /\ t = TableColumnOf(k)
  OBVIOUS
<1>3. k \in 1 .. Len(inputs) /\ n \in 1 .. Len(inputs[k].rows)
  BY <1>1
<1>4. /\ h \in Seq(Range(h)) /\ Len(h) \in Nat /\ ColumnsBefore(k) \in Nat /\ Len(c) \in Nat
      /\ ColumnsBefore(k) + Len(c) <= Len(h)
      /\ \A i \in 1 .. Len(c) : h[ColumnsBefore(k) + i] = c[i]
      /\ \A i, j \in 1 .. Len(h) : h[i].table = h[j].table /\ h[i].name = h[j].name => i = j
  <2>1. ColumnsOf(k, h)
    BY <1>3, MergedColumns
  <2> QED BY <1>2, <2>1 DEF ColumnsOf
<1>5. PICK m \in Nat : m = Len(h)
  BY <1>4
<1>6. PICK F \in Nat : F = ColumnsBefore(k)
  BY <1>4
<1>7. PICK L \in Nat : L = Len(c)
  BY <1>4
<1>8. F + L <= m /\ (\A i \in 1 .. L : h[F + i] = c[i]) /\ \A i, j \in 1 .. m : h[i] = h[j] => i = j
  BY <1>4, <1>5, <1>6, <1>7
<1>9. PICK d \in Nat \ {0} : d = Len(s)
  BY <1>2, <1>3, MergeInputs
<1>10. Len(r) = d
  <2>1. inputs[k].rows[n] \in [1 .. Len(inputs[k].header) -> Seq(Int)]
    BY <1>3, MergeInputs
  <2>2. r \in [1 .. d -> Seq(Int)]
    BY <1>1, <1>2, <1>9, <2>1
  <2> QED BY <2>2
<1>11. /\ T = NoTable => t \in 1 .. d /\ IsTableColumn(s[t])
       /\ T # NoTable => t = 0
  BY <1>2, <1>3, <1>9, Contributions
<1>12. PICK e \in 0 .. 1 : e = IF T = NoTable /\ IsTableColumn(Last(s)) THEN 1 ELSE 0
  OBVIOUS
<1>13. t = Len(r) <=> T = NoTable /\ IsTableColumn(Last(s))
  <2>1. Last(s) = s[d]
    BY <1>9 DEF Last
  <2>2. CASE T # NoTable
    BY <1>9, <1>10, <1>11, <2>2
  <2>3. CASE T = NoTable
    <3>2. \A x, y \in 1 .. Len(inputs[k].header) :
             IsTableColumn(inputs[k].header[x]) /\ IsTableColumn(inputs[k].header[y]) => x = y
      BY <1>3, MergeInputs
    <3>3. \A x, y \in 1 .. d : IsTableColumn(s[x]) /\ IsTableColumn(s[y]) => x = y
      BY <1>2, <1>9, <3>2
    <3>1. IsTableColumn(s[d]) /\ IsTableColumn(s[t]) => t = d
      BY <1>11, <2>3, <3>3
    <3> QED BY <1>10, <1>11, <2>1, <2>3, <3>1
  <2> QED BY <2>2, <2>3
<1>14. PICK o : o = Own
  OBVIOUS
<1>15. DOMAIN c = 1 .. L
  <2>1. c \in Seq(Range(c))
    BY <1>2, <1>3, Contributions
  <2> QED BY <1>7, <2>1
<1>16. o = [i \in 1 .. L |-> r[PlaceOf(k, i)]]
  <2>1. \A i : (IF t = 0 \/ i < t THEN r[i] ELSE r[i + 1]) = r[PlaceOf(k, i)]
    BY <1>2 DEF PlaceOf
  <2>2. o = [i \in 1 .. L |-> IF t = 0 \/ i < t THEN r[i] ELSE r[i + 1]]
    BY <1>1, <1>2, <1>14, <1>15 DEF Own
  <2> QED BY <2>1, <2>2
<1>17. FirstColumn = F
  BY <1>1, <1>6 DEF FirstColumn, ColumnsBefore
<1>18. Len(hdr) = m + 1 /\ \A j \in 1 .. m : hdr[j + 1] = h[j]
  <2>6. PICK S : S = {first} \cup Range(h)
    OBVIOUS
  <2>7. <<first>> \in Seq(S) /\ Len(<<first>>) = 1
    BY <2>6
  <2>1. PICK g : g = <<first>> /\ g \in Seq(S) /\ Len(g) = 1
    BY <2>7
  <2>2. h \in Seq(S)
    <3>1. h \in Seq(Range(h)) /\ Range(h) \subseteq S
      BY <1>4, <2>6
    <3> QED BY <3>1, SeqDef
  <2>3. hdr = g \o h
    BY <2>1
  <2>4. Follows(hdr, g, h, S)
    BY <2>1, <2>2, <2>3, Appended
  <2>5. \A j \in 1 .. m : j + 1 = 1 + j
    OBVIOUS
  <2> QED BY <1>5, <2>1, <2>4, <2>5 DEF Follows
<1>19. Len(o) = L
  BY <1>16
<1>20. PICK tail \in Nat : tail = Trailing /\ tail = m - F - L + e
  <2>1. Trailing = (m + 1) - 1 - F - L + e
    BY <1>1, <1>2, <1>12, <1>13, <1>14, <1>17, <1>18, <1>19 DEF Trailing
  <2>2. m - F - L + e \in Nat /\ (m + 1) - 1 - F - L + e = m - F - L + e
    BY <1>8
  <2> QED BY <2>1, <2>2
<1>21. /\ Len(row) = 1 + F + L + tail /\ row[1] = RowTable
       /\ (\A i \in 1 .. F : row[1 + i] = Empty) /\ (\A i \in 1 .. L : row[1 + F + i] = o[i])
       /\ \A i \in 1 .. tail : row[1 + F + L + i] = Empty
  <2> DEFINE S == {RowTable, Empty} \cup Range(o)
  <2>8. RowTable \in S
    OBVIOUS
  <2>1. <<RowTable>> \in Seq(S) /\ Len(<<RowTable>>) = 1 /\ <<RowTable>>[1] = RowTable
    BY ONLY <2>8
  <2>2. \A l \in Nat : Blank(l) \in Seq(S) /\ Len(Blank(l)) = l /\ \A i \in 1 .. l : Blank(l)[i] = Empty
    BY DEF Blank
  <2>3. o \in Seq(S)
    <3>1. DOMAIN o = 1 .. L
      BY <1>16
    <3>2. o = [i \in 1 .. L |-> o[i]] /\ \A i \in 1 .. L : o[i] \in S
      BY <1>16, <3>1 DEF Range
    <3> HIDE DEF S
    <3>3. o \in [1 .. L -> S]
      BY ONLY <3>2
    <3> QED BY <3>3, SeqDef
  <2> HIDE DEF S
  <2>4. PICK a, p, q : a = <<RowTable>> /\ p = Blank(F) /\ q = Blank(tail)
    OBVIOUS
  <2>5. /\ a \in Seq(S) /\ Len(a) = 1 /\ a[1] = RowTable
        /\ p \in Seq(S) /\ Len(p) = F /\ (\A i \in 1 .. F : p[i] = Empty)
        /\ q \in Seq(S) /\ Len(q) = tail /\ (\A i \in 1 .. tail : q[i] = Empty)
    BY <2>1, <2>2, <2>4
  <2>6. row = a \o p \o o \o q
    BY <1>14, <1>17, <1>20, <2>4
  <2>7. FourParts(row, a, p, o, q)
    BY <2>3, <2>5, <2>6, FourPieces
  <2>9. Len(p) = F /\ Len(o) = L /\ Len(q) = tail
    BY <1>19, <2>5
  <2>10. /\ Len(row) = 1 + F + L + tail /\ row[1] = a[1]
         /\ (\A i \in 1 .. F : row[1 + i] = p[i]) /\ (\A i \in 1 .. L : row[1 + F + i] = o[i])
         /\ \A i \in 1 .. tail : row[1 + F + L + i] = q[i]
    BY ONLY <2>7, <2>9 DEF FourParts
  <2>11. ASSUME NEW i \in 1 .. F PROVE row[1 + i] = Empty
    <3>1. p[i] = Empty
      BY <2>5
    <3>2. row[1 + i] = p[i]
      BY <2>10
    <3> QED BY <3>1, <3>2
  <2>12. ASSUME NEW i \in 1 .. tail PROVE row[1 + F + L + i] = Empty
    <3>1. q[i] = Empty
      BY <2>5
    <3>2. row[1 + F + L + i] = q[i]
      BY <2>10
    <3> QED BY <3>1, <3>2
  <2> QED BY <2>5, <2>10, <2>11, <2>12
<1>22. Len(row) = Len(hdr) + e
  <2>1. Len(row) = 1 + F + L + tail /\ Len(hdr) = m + 1 /\ tail = m - F - L + e
    BY <1>18, <1>20, <1>21
  <2>2. e \in 0 .. 1
    OBVIOUS
  <2>3. m \in Nat /\ F \in Nat /\ L \in Nat
    OBVIOUS
  <2> QED BY ONLY <2>1, <2>2, <2>3
<1>23. T # NoTable => row[1] = <<T>>
  BY <1>1, <1>2, <1>21 DEF RowTable
<1>24. ASSUME NEW j \in 1 .. m
       PROVE  row[j + 1] = IF h[j] \in Range(c) THEN r[GivenAt(k, h[j])] ELSE Empty
  <2>1. CASE j \in F + 1 .. F + L
    <3>1. PICK i \in 1 .. L : i = j - F /\ F + i = j /\ 1 + F + i = j + 1
      BY <2>1
    <3>2. h[j] = c[i] /\ c[i] \in Range(c)
      BY <1>8, <1>15, <3>1 DEF Range
    <3>3. row[j + 1] = r[PlaceOf(k, i)]
      BY <1>16, <1>21, <3>1
    <3>4. GivenAt(k, c[i]) = PlaceOf(k, i)
      BY <1>2, <1>3, <1>7, GivenPlace
    <3> QED BY <3>2, <3>3, <3>4
  <2>2. CASE j \notin F + 1 .. F + L
    <3>1. h[j] \notin Range(c)
      <4> SUFFICES ASSUME h[j] \in Range(c) PROVE FALSE
        OBVIOUS
      <4>1. PICK i \in 1 .. L : h[j] = c[i]
        BY <1>15 DEF Range
      <4>2. F + i \in 1 .. m /\ h[F + i] = h[j]
        BY <1>8, <4>1
      <4>3. F + i = j
        BY <1>8, <4>2
      <4> QED BY <2>2, <4>3
    <3>2. row[j + 1] = Empty
      <4>1. CASE j < F + 1
        <5>1. j \in 1 .. F /\ 1 + j = j + 1
          BY <4>1
        <5>2. row[1 + j] = Empty
          BY <1>21, <5>1
        <5> QED BY <5>1, <5>2
      <4>2. CASE j > F + L
        <5>1. PICK i \in 1 .. tail : i = j - F - L /\ 1 + F + L + i = j + 1
          BY <1>8, <1>20, <4>2
        <5>2. row[1 + F + L + i] = Empty
          BY <1>21
        <5> QED BY <5>1, <5>2
      <4>3. j \in Nat /\ F \in Nat /\ L \in Nat
        OBVIOUS
      <4>4. j < F + 1 \/ j > F + L
        BY ONLY <2>2, <4>3
      <4> QED BY ONLY <4>1, <4>2, <4>4
    <3> QED BY <3>1, <3>2
  <2> QED BY <2>1, <2>2
<1>25. \A j \in 2 .. Len(hdr) : row[j] = IF hdr[j] \in Range(c) THEN r[GivenAt(k, hdr[j])] ELSE Empty
  <2> TAKE j \in 2 .. Len(hdr)
  <2>1. PICK i \in 1 .. m : i = j - 1 /\ i + 1 = j
    BY <1>18
  <2>2. hdr[j] = h[i]
    BY <1>18, <2>1
  <2> QED BY <1>24, <2>1, <2>2
<1> QED BY <1>1, <1>2, <1>12, <1>22, <1>23, <1>25 DEF RowFor

\* Each row that was read is printed as promised, at its place.
RowsMerged(printed, header, k, n) ==
    \A i \in 1 .. k : \A j \in 1 .. Len(inputs[i].rows) :
        (i < k \/ j < n) => RowFor(i, j, printed[RowsBefore(i) + j], header)

Merging ==
    /\ ~MergeFails
    /\ hdr = <<[table |-> NoTable, name |-> TableColumn, type |-> "string"]>> \o MergedHeader(Len(inputs))
    /\ in \in 1 .. Len(inputs) /\ pos \in 1 .. Len(inputs[in].rows) + 1
    /\ out \in Seq(Range(out)) /\ Len(out) = RowsBefore(in) + (pos - 1)
    /\ RowsMerged(out, hdr, in, pos)

\* What MergeRight promises of what was printed
MergePromise(printed, header) ==
    \A k \in 1 .. Len(inputs) : \A n \in 1 .. Len(inputs[k].rows) :
        RowFor(k, n, printed[RowsBefore(k) + n], header)

MergeInv ==
    /\ StreamInv /\ (job.tool = "merge" => TablesNamed)
    /\ (job.tool = "merge" /\ pc = "read" => Merging)
    /\ MergeRight

LEMMA MergeHolds ==
    ASSUME StreamInv, job.tool = "merge", TablesNamed
    PROVE  MergeGiven
BY DEF MergeGiven, StreamInv

MergeMeans ==
    MergeGiven => (MergeRight <=> (Printed /\ job.tool = "merge" => MergePromise(out, hdr)))

LEMMA MergePromised == MergeMeans
<1> SUFFICES ASSUME MergeGiven PROVE MergeRight <=> (Printed /\ job.tool = "merge" => MergePromise(out, hdr))
  BY DEF MergeMeans
<1>1. DOMAIN inputs = 1 .. Len(inputs) /\ \A k \in 1 .. Len(inputs) : DOMAIN inputs[k].rows = 1 .. Len(inputs[k].rows)
  BY MergeInputs
<1>2. MergePromise(out, hdr) <=>
          \A k \in DOMAIN inputs : \A n \in DOMAIN inputs[k].rows : RowFor(k, n, out[RowsBefore(k) + n], hdr)
  BY <1>1 DEF MergePromise
<1> QED BY <1>2 DEF MergeRight, RowFor, RowsBefore, GivenAt, WhereIs

LEMMA MergePromisedNext == MergeMeans'
BY MergePromised, PTL

LEMMA MergeTerms ==
    ASSUME UNCHANGED <<job, inputs>>
    PROVE  /\ TablesNamed' = TablesNamed /\ MergeFails' = MergeFails
           /\ MergedHeader(Len(inputs))' = MergedHeader(Len(inputs))
           /\ \A k : RowsBefore(k)' = RowsBefore(k)
           /\ \A k, n, r, h : RowFor(k, n, r, h)' = RowFor(k, n, r, h)
           /\ \A p, h, k, n : RowsMerged(p, h, k, n)' = RowsMerged(p, h, k, n)
           /\ \A p, h : MergePromise(p, h)' = MergePromise(p, h)
BY DEF TablesNamed, MergeFails, MergedHeader, RowsBefore, RowFor, RowsMerged, MergePromise, Contributed,
       TableColumnOf, GivenAt

LEMMA MergePromiseStays ==
    ASSUME StreamInv, job.tool = "merge", TablesNamed, UNCHANGED <<job, inputs>>, StreamInv',
           Printed' => MergePromise(out', hdr')
    PROVE  MergeRight'
<1>1. MergeGiven'
  BY MergeTerms DEF MergeGiven, StreamInv
<1>2. MergeGiven' => (MergeRight' <=> (Printed' /\ job'.tool = "merge" => MergePromise(out, hdr)'))
  BY MergePromisedNext DEF MergeMeans
<1>3. MergePromise(out, hdr)' <=> MergePromise(out', hdr')
  <2>1. inputs' = inputs /\ \A k : RowsBefore(k)' = RowsBefore(k)
    BY MergeTerms
  <2>2. \A k, n, r, h : RowFor(k, n, r, h)' = RowFor(k, n, r, h)
    BY MergeTerms
  <2> QED BY <2>1, <2>2 DEF MergePromise
<1> QED BY <1>1, <1>2, <1>3

\* Every row is promised once the last one of the last input was read.
LEMMA MergeEnds ==
    ASSUME MergeGiven, Merging, in = Len(inputs), pos > Len(inputs[in].rows)
    PROVE  MergePromise(out, hdr)
<1>1. PICK N \in Nat : N = Len(inputs)
  BY MergeInputs
<1>2. PICK l \in Nat : l = Len(inputs[in].rows)
  BY MergeInputs DEF Merging
<1>3. RowsMerged(out, hdr, N, pos) /\ pos \in Int /\ pos > l /\ in = N
  BY <1>1, <1>2 DEF Merging
<1> SUFFICES ASSUME NEW i \in 1 .. N, NEW j \in 1 .. Len(inputs[i].rows)
             PROVE  RowFor(i, j, out[RowsBefore(i) + j], hdr)
  BY <1>1 DEF MergePromise
<1>4. i < N \/ j < pos
  <2>1. CASE i = N
    <3>1. j \in 1 .. l
      BY <1>2, <1>3, <2>1
    <3> QED BY <1>3, <3>1
  <2>2. CASE i # N
    BY <2>2
  <2> QED BY <2>1, <2>2
<1> QED BY <1>3, <1>4 DEF RowsMerged

LEMMA RowsBetween ==
    ASSUME MergeGiven, NEW k \in 1 .. Len(inputs), NEW i \in 1 .. k - 1
    PROVE  RowsBefore(i) + Len(inputs[i].rows) <= RowsBefore(k)
<1>1. PICK N \in Nat : N = Len(inputs)
  BY MergeInputs
<1>2. PICK parts : parts = [j \in 1 .. N |-> inputs[j].rows]
  OBVIOUS
<1>3. PICK S : S = UNION {Range(parts[j]) : j \in 1 .. N}
  OBVIOUS
<1>4. \A j \in 1 .. N : parts[j] \in Seq(S)
  <2> TAKE j \in 1 .. N
  <2>1. PICK c : c = parts[j]
    OBVIOUS
  <2>2. c \in Seq(Range(c))
    BY <1>1, <1>2, <2>1, MergeInputs
  <2>3. Range(c) \subseteq S
    BY <1>3, <2>1
  <2>4. c \in Seq(S)
    BY <2>2, <2>3
  <2> QED BY <2>1, <2>4
<1>5. \A n \in 1 .. N : RowsBefore(n) = Len(Together(parts, n - 1))
  <2> TAKE n \in 1 .. N
  <2>1. [j \in 1 .. n - 1 |-> inputs[j].rows] = [j \in 1 .. n - 1 |-> parts[j]]
    BY <1>2
  <2> QED BY <2>1 DEF RowsBefore, Together
<1>6. PICK m \in Nat : m = k - 1 /\ i \in 1 .. m /\ m < N
  BY <1>1
<1>7. PartInside(parts, m, i)
  <2>1. \A j \in 1 .. m : parts[j] \in Seq(S)
    BY <1>4, <1>6
  <2> QED BY <1>6, <2>1, TogetherParts
<1>8. Len(Together(parts, i - 1)) + Len(parts[i]) <= Len(Together(parts, m))
  BY <1>7 DEF PartInside
<1>9. i \in 1 .. N /\ k \in 1 .. N
  BY <1>1, <1>6
<1> QED BY <1>2, <1>5, <1>6, <1>8, <1>9

LEMMA RowsApart ==
    ASSUME MergeGiven, NEW k \in 1 .. Len(inputs), NEW n \in Nat \ {0}, NEW i \in 1 .. k,
           NEW j \in 1 .. Len(inputs[i].rows), i < k \/ j < n
    PROVE  RowsBefore(i) + j \in 1 .. RowsBefore(k) + (n - 1)
<1>1. PICK a, b, l : a = RowsBefore(i) /\ b = RowsBefore(k) /\ l = Len(inputs[i].rows)
  OBVIOUS
<1>2. a \in Nat /\ b \in Nat /\ l \in Nat /\ j \in 1 .. l
  <2>1. i \in 1 .. Len(inputs) /\ k \in 1 .. Len(inputs)
    BY MergeInputs
  <2> QED BY <1>1, <2>1, MergedRows, MergeInputs
<1>3. i < k => a + l <= b
  <2>1. i < k => i \in 1 .. k - 1
    OBVIOUS
  <2> QED BY <1>1, <2>1, RowsBetween
<1>4. i = k => a = b
  BY <1>1
<1>5. a + j \in 1 .. b + (n - 1)
  <2>1. CASE i < k
    BY <1>2, <1>3, <2>1
  <2>2. CASE i = k
    <3>1. j \in Nat /\ j >= 1 /\ j < n /\ a = b /\ n \in Nat
      BY <1>2, <1>4, <2>2
    <3> QED BY <1>2, <3>1
  <2> QED BY <2>1, <2>2
<1> QED BY <1>1, <1>5

LEMMA MergeReads ==
    ASSUME MergeGiven, Merging, pos <= Len(Rows), NEW row,
           out' = out \o <<row>>, pos' = pos + 1, UNCHANGED <<given, in, hdr>>, RowFor(in, pos, row, hdr)
    PROVE  Merging'
<1>1. PICK k \in Nat, n \in Nat \ {0} : k = in /\ n = pos /\ k \in 1 .. Len(inputs) /\ n \in 1 .. Len(inputs[k].rows)
  <2>1. in \in 1 .. Len(inputs) /\ pos \in 1 .. Len(inputs[in].rows) + 1 /\ Len(inputs[in].rows) \in Nat
    BY MergeInputs DEF Merging
  <2> QED BY <2>1 DEF Rows
<1>2. PICK B \in Nat : B = RowsBefore(k)
  BY <1>1, MergedRows
<1>3. PICK q : q = out
  OBVIOUS
<1>4. q \in Seq(Range(q)) /\ Len(q) = B + (n - 1) /\ RowsMerged(q, hdr, k, n)
  BY <1>1, <1>2, <1>3 DEF Merging
<1>5. PICK S : S = Range(q) \cup {row}
  OBVIOUS
<1>6. q \in Seq(S) /\ <<row>> \in Seq(S) /\ Len(<<row>>) = 1 /\ <<row>>[1] = row
  <2>1. Range(q) \subseteq S /\ row \in S
    BY <1>5
  <2>2. q \in Seq(S)
    BY <1>4, <2>1, SeqDef
  <2>3. <<row>> \in Seq(S) /\ Len(<<row>>) = 1 /\ <<row>>[1] = row
    BY ONLY <2>1
  <2> QED BY <2>2, <2>3
<1>7. PICK w, s : w = out' /\ s = <<row>>
  OBVIOUS
<1>8. Follows(w, q, s, S)
  <2>1. w = q \o s
    BY <1>3, <1>7
  <2>2. s \in Seq(S)
    BY <1>6, <1>7
  <2> QED BY <1>6, <2>1, <2>2, Appended
<1>9. w \in Seq(S) /\ Len(w) = B + n /\ w[B + n] = row /\ \A i \in 1 .. B + (n - 1) : w[i] = q[i]
  <2>1. Len(s) = 1 /\ s[1] = row /\ 1 \in 1 .. Len(s)
    BY <1>6, <1>7
  <2>2. w \in Seq(S) /\ Len(w) = Len(q) + 1 /\ w[Len(q) + 1] = row /\ \A i \in 1 .. Len(q) : w[i] = q[i]
    BY <1>8, <2>1 DEF Follows
  <2>3. Len(q) + 1 = B + n
    BY <1>4
  <2> QED BY <1>4, <2>2, <2>3
<1>10. w \in Seq(Range(w))
  <2>1. w \in Seq(S)
    BY <1>9
  <2> QED BY ONLY <2>1 DEF Range
<1>11. RowsMerged(w, hdr, k, n + 1)
  <2> SUFFICES ASSUME NEW i \in 1 .. k, NEW j \in 1 .. Len(inputs[i].rows), i < k \/ j < n + 1
               PROVE  RowFor(i, j, w[RowsBefore(i) + j], hdr)
    BY DEF RowsMerged
  <2>1. CASE i = k /\ j = n
    <3>1. RowFor(k, n, row, hdr)
      BY <1>1
    <3> QED BY <1>2, <1>9, <2>1, <3>1
  <2>2. CASE ~(i = k /\ j = n)
    <3>1. i < k \/ j < n
      BY <2>2
    <3>2. RowFor(i, j, q[RowsBefore(i) + j], hdr)
      BY <1>4, <3>1 DEF RowsMerged
    <3>3. RowsBefore(i) + j \in 1 .. B + (n - 1)
        BY <1>1, <1>2, <3>1, RowsApart
    <3>4. w[RowsBefore(i) + j] = q[RowsBefore(i) + j]
      BY <1>9, <3>3
    <3> QED BY <3>2, <3>4
  <2> QED BY <2>1, <2>2
<1>12. /\ MergeFails' = MergeFails /\ MergedHeader(Len(inputs))' = MergedHeader(Len(inputs))
       /\ RowsBefore(in)' = RowsBefore(k) /\ inputs' = inputs /\ in' = k /\ pos' = n + 1 /\ hdr' = hdr
       /\ RowsMerged(out, hdr, in, pos)' = RowsMerged(w, hdr, k, n + 1)
  <2>1. UNCHANGED <<job, inputs>> /\ inputs' = inputs /\ in' = k /\ pos' = n + 1 /\ hdr' = hdr
    BY <1>1 DEF given
  <2>2. RowsBefore(in)' = RowsBefore(k)
    BY <2>1 DEF RowsBefore
  <2>4. \A l : RowsBefore(l)' = RowsBefore(l)
    BY <2>1, MergeTerms
  <2>5. \A l, m, r, h : RowFor(l, m, r, h)' = RowFor(l, m, r, h)
    BY <2>1, MergeTerms
  <2>3. RowsMerged(out, hdr, in, pos)' = RowsMerged(w, hdr, k, n + 1)
    BY <1>7, <2>1, <2>4, <2>5 DEF RowsMerged
  <2> QED BY <2>1, <2>2, <2>3, MergeTerms
<1>13. Len(out') = RowsBefore(in)' + (pos' - 1) /\ out' \in Seq(Range(out'))
  <2>1. out' = w /\ RowsBefore(in)' = B /\ pos' - 1 = n /\ Len(w) = B + n
    BY <1>2, <1>7, <1>9, <1>12
  <2> QED BY <1>10, <2>1
<1>14. in' \in 1 .. Len(inputs') /\ pos' \in 1 .. Len(inputs'[in'].rows) + 1
  BY <1>1, <1>12
<1> QED BY <1>11, <1>12, <1>13, <1>14 DEF Merging

LEMMA MergeOpens ==
    ASSUME StreamInv, MergeGiven, OpenMerge, pc' = "read"
    PROVE  Merging'
<1>1. /\ ~MergeFails /\ pc = "open"
      /\ hdr' = <<[table |-> NoTable, name |-> TableColumn, type |-> "string"]>> \o MergedHeader(Len(inputs))
      /\ UNCHANGED <<job, inputs, in, out, pos>>
  BY DEF OpenMerge, Start, Opening, Fail, Exit, given
<1>2. out = <<>> /\ in = 1 /\ pos = 1
  BY <1>1 DEF StreamInv
<1>3. /\ MergeFails' = MergeFails /\ MergedHeader(Len(inputs))' = MergedHeader(Len(inputs))
      /\ \A k : RowsBefore(k)' = RowsBefore(k)
  BY <1>1, MergeTerms
<1>4. RowsBefore(1) = 0 /\ Len(inputs) \in Nat \ {0} /\ Len(inputs[1].rows) \in Nat
  BY MergeInputs, MergedRows
<1>5. RowsMerged(out, hdr, in, pos)'
  BY <1>1, <1>2 DEF RowsMerged
<1>6. in' = 1 /\ pos' = 1 /\ inputs' = inputs /\ out' = <<>> /\ RowsBefore(in)' = 0
  <2>1. in' = 1 /\ pos' = 1 /\ inputs' = inputs /\ out' = <<>>
    BY <1>1, <1>2
  <2> QED BY <1>3, <1>4, <2>1 DEF RowsBefore
<1>7. Len(out') = RowsBefore(in)' + (pos' - 1) /\ out' \in Seq(Range(out'))
  BY <1>6
<1>8. in' \in 1 .. Len(inputs') /\ pos' \in 1 .. Len(inputs'[in'].rows) + 1
  BY <1>4, <1>6
<1> QED BY <1>1, <1>3, <1>5, <1>6, <1>7, <1>8 DEF Merging

LEMMA MergeNextInput ==
    ASSUME MergeGiven, Merging, pos > Len(Rows), in < Len(inputs),
           UNCHANGED <<given, hdr, out>>, in' = in + 1, pos' = 1
    PROVE  Merging'
<1>1. PICK k \in Nat : k = in /\ k \in 1 .. Len(inputs) /\ k + 1 \in 1 .. Len(inputs)
  BY MergeInputs DEF Merging
<1>2. PICK l \in Nat : l = Len(inputs[k].rows) /\ pos = l + 1
  BY <1>1, MergeInputs DEF Merging, Rows
<1>3. RowsBefore(k + 1) = RowsBefore(k) + l /\ RowsBefore(k) \in Nat
  BY <1>1, <1>2, MergedRows
<1>4. UNCHANGED <<job, inputs>> /\ inputs' = inputs /\ hdr' = hdr /\ out' = out /\ in' = k + 1 /\ pos' = 1
  BY <1>1 DEF given
<1>5. /\ MergeFails' = MergeFails /\ MergedHeader(Len(inputs))' = MergedHeader(Len(inputs))
      /\ \A i : RowsBefore(i)' = RowsBefore(i)
      /\ \A i, j, r, h : RowFor(i, j, r, h)' = RowFor(i, j, r, h)
  BY <1>4, MergeTerms
<1>6. RowsMerged(out, hdr, k, l + 1)
  BY <1>1, <1>2 DEF Merging
<1>7. RowsMerged(out, hdr, k + 1, 1)
  <2> SUFFICES ASSUME NEW i \in 1 .. k + 1, NEW j \in 1 .. Len(inputs[i].rows), i < k + 1 \/ j < 1
               PROVE  RowFor(i, j, out[RowsBefore(i) + j], hdr)
    BY DEF RowsMerged
  <2>1. i \in 1 .. k /\ Len(inputs[i].rows) \in Nat
    BY <1>1, MergeInputs
  <2>2. i < k \/ j < l + 1
    BY <1>2, <2>1
  <2> QED BY <1>6, <2>1, <2>2 DEF RowsMerged
<1>8. RowsMerged(out, hdr, in, pos)' = RowsMerged(out, hdr, k + 1, 1)
  BY <1>4, <1>5 DEF RowsMerged
<1>9. RowsBefore(in)' = RowsBefore(k + 1)
  BY <1>4 DEF RowsBefore
<1>10. out \in Seq(Range(out)) /\ Len(out) = RowsBefore(k) + l
  BY <1>1, <1>2 DEF Merging
<1>11. Len(out') = RowsBefore(in)' + (pos' - 1) /\ out' \in Seq(Range(out'))
  <2>1. pos' - 1 = 0 /\ RowsBefore(in)' = RowsBefore(k) + l /\ out' = out
    BY <1>3, <1>4, <1>9
  <2>2. RowsBefore(k) + l \in Nat
    BY <1>3
  <2> QED BY <1>10, <2>1, <2>2
<1>12. in' \in 1 .. Len(inputs') /\ pos' \in 1 .. Len(inputs'[in'].rows) + 1
  <2>1. Len(inputs[k + 1].rows) \in Nat
    BY <1>1, MergeInputs
  <2> QED BY <1>1, <1>4, <2>1
<1> QED BY <1>4, <1>5, <1>7, <1>8, <1>11, <1>12 DEF Merging

LEMMA MergeStep ==
    ASSUME MergeInv, [Next]_vars
    PROVE  MergeInv'
<1>0. StreamInv /\ StreamInv' /\ MergeRight
  BY StreamStep DEF MergeInv
<1>1. UNCHANGED <<job, inputs>>
  BY GivenKept DEF vars, given
<1>2. job.tool = "merge" => TablesNamed /\ TablesNamed'
  BY <1>1, MergeTerms DEF MergeInv
<1>3. ASSUME ~Printed' PROVE MergeRight'
  BY <1>3 DEF MergeRight
<1>4. CASE job.tool # "merge"
  <2>1. job'.tool # "merge"
    BY <1>1, <1>4
  <2> QED BY <1>0, <2>1 DEF MergeInv, MergeRight
<1>5. CASE UNCHANGED vars /\ job.tool = "merge"
  <2>1. MergeGiven
    BY <1>0, <1>2, <1>5, MergeHolds
  <2>2. Merging => Merging'
    <3>1. UNCHANGED <<job, inputs, hdr, out, in, pos>>
      BY <1>1, <1>5 DEF vars
    <3>2. /\ MergeFails' = MergeFails /\ MergedHeader(Len(inputs))' = MergedHeader(Len(inputs))
          /\ \A k : RowsBefore(k)' = RowsBefore(k)
          /\ \A k, n, r, h : RowFor(k, n, r, h)' = RowFor(k, n, r, h)
      BY <3>1, MergeTerms
    <3>3. RowsMerged(out, hdr, in, pos)' = RowsMerged(out, hdr, in, pos)
      BY <3>1, <3>2 DEF RowsMerged
    <3>4. RowsBefore(in)' = RowsBefore(in)
      BY <3>1 DEF RowsBefore
    <3> QED BY <3>1, <3>2, <3>3, <3>4 DEF Merging
  <2>3. MergeRight'
    <3>1. (Printed' => Printed) /\ out' = out /\ hdr' = hdr
      BY <1>5 DEF Printed, vars
    <3>2. Printed' => MergePromise(out', hdr')
      BY <1>0, <1>5, <2>1, <3>1, MergePromised DEF MergeMeans
    <3> QED BY <1>0, <1>1, <1>2, <1>5, <3>2, MergePromiseStays
  <2> QED BY <1>0, <1>1, <1>2, <1>5, <2>2, <2>3 DEF MergeInv, vars
<1>6. CASE Next /\ job.tool = "merge" /\ ~UNCHANGED vars
  <2>0. MergeGiven /\ job'.tool = "merge" /\ TablesNamed'
    BY <1>0, <1>1, <1>2, <1>6, MergeHolds
  <2>1. NextMerge
    BY <1>6, ToolSteps DEF Functions, RpnToolNames, SqlToolNames, Evaluators, BuilderNames, Ended
  <2>2. CASE OpenMerge
    <3>1. ~Printed'
      BY <2>2 DEF OpenMerge, Start, Fail, Exit, Printed, Opening
    <3> QED BY <1>0, <1>3, <2>0, <2>2, <3>1, MergeOpens DEF MergeInv
  <2>3. CASE MergeRow
    <3>1. pc = "read" /\ ~Printed' /\ pos <= Len(Rows) /\ pos' = pos + 1 /\ UNCHANGED <<given, in, hdr>>
      BY <2>3 DEF MergeRow, Reading, Continue, Printed
    <3>2. Merging
      BY <1>6, <3>1 DEF MergeInv
    <3>3. PICK row : row = <<RowTable>> \o Blank(FirstColumn) \o Own \o Blank(Trailing)
      OBVIOUS
    <3>4. out' = out \o <<row>>
      BY <2>3, <3>3 DEF MergeRow, Continue
    <3>5. RowFor(in, pos, row, hdr)
      <4>1. /\ ~MergeFails /\ in \in 1 .. Len(inputs)
            /\ hdr = <<[table |-> NoTable, name |-> TableColumn, type |-> "string"]>> \o MergedHeader(Len(inputs))
        BY <3>2 DEF Merging
      <4>2. pos \in 1 .. Len(inputs[in].rows)
        BY <2>0, <3>1, <3>2, MergeInputs DEF Merging, Rows
      <4> QED BY <2>0, <3>3, <4>1, <4>2, MergedRow
    <3>6. Merging'
      BY <2>0, <3>1, <3>2, <3>4, <3>5, MergeReads
    <3> QED BY <1>0, <1>3, <2>0, <3>1, <3>6 DEF MergeInv
  <2>4. CASE EndMerge
    <3>1. pc = "read" /\ pos > Len(Rows)
      BY <2>4 DEF EndMerge, AtEnd
    <3>2. Merging
      BY <1>6, <3>1 DEF MergeInv
    <3>3. CASE NextInput(<<>>, mem)
      <4>1. in < Len(inputs) /\ UNCHANGED <<given, hdr>> /\ out' = out \o <<>> /\ in' = in + 1 /\ pos' = 1 /\ ~Printed'
        BY <3>1, <3>3 DEF NextInput, Printed
      <4>2. out' = out
        <5>1. out \in Seq(Range(out))
          BY <3>2 DEF Merging
        <5> QED BY ONLY <4>1, <5>1
      <4>3. Merging'
        BY <2>0, <3>1, <3>2, <4>1, <4>2, MergeNextInput
      <4> QED BY <1>0, <1>3, <2>0, <4>1, <4>3 DEF MergeInv
    <3>4. CASE LastInput /\ Exit(0, <<>>)
      <4>1. in = Len(inputs) /\ pc' = "exited" /\ hdr' = hdr /\ out' = out \o <<>>
        BY <3>4 DEF LastInput, Exit
      <4>2. out' = out
        <5>1. out \in Seq(Range(out))
          BY <3>2 DEF Merging
        <5> QED BY ONLY <4>1, <5>1
      <4>3. MergePromise(out, hdr)
        BY <2>0, <3>1, <3>2, <4>1, MergeEnds DEF Rows
      <4>4. MergeRight'
        BY <1>0, <1>1, <1>2, <1>6, <4>1, <4>2, <4>3, MergePromiseStays
      <4> QED BY <1>0, <2>0, <4>1, <4>4 DEF MergeInv
    <3> QED BY <2>4, <3>3, <3>4 DEF EndMerge
  <2> QED BY <2>1, <2>2, <2>3, <2>4 DEF NextMerge
<1> QED BY <1>4, <1>5, <1>6

\* csv-merge prints every row of every input at its place, under the names the
\* merged header gives its columns, for any number of inputs and any columns.
THEOREM MergedPrinted == Spec => []MergeRight
<1>1. Init => MergeInv
  <2> SUFFICES ASSUME Init PROVE MergeInv
    OBVIOUS
  <2>1. StreamInv /\ pc = "open" /\ (job.tool = "merge" => TablesNamed)
    BY StreamInit DEF Init
  <2> QED BY <2>1 DEF MergeInv, MergeRight, Printed
<1>2. MergeInv /\ [Next]_vars => MergeInv'
  BY MergeStep
<1>3. MergeInv => MergeRight
  BY DEF MergeInv
<1> QED BY <1>1, <1>2, <1>3, PTL DEF Spec

-----------------------------------------------------------------------------
(* The tools together *)

LEMMA TypesHold ==
    ASSUME StreamInv, RingInv, ChoiceInv, ResultInv
    PROVE  TypeOK
<1>1. in \in DOMAIN inputs
  <2>1. DOMAIN inputs = 1 .. Len(inputs)
    BY RowStreamsAssumption DEF StreamInv
  <2> QED BY <2>1 DEF StreamInv
<1>2. ASSUME pc = "read", job.tool = "tail", job.lines > 0 PROVE mem.firstEmpty \in DOMAIN mem.lines
  <2>1. Ring /\ job.lines \in Nat
    BY <1>2, RowStreamsAssumption DEF RingInv
  <2>2. PICK n, f, l : n = job.lines /\ f = mem.firstEmpty /\ l = mem.lines
    OBVIOUS
  <2>3. l = [i \in 0 .. n - 1 |-> l[i]] /\ n \in Nat /\ n > 0
    BY <1>2, <2>1, <2>2 DEF Ring
  <2>4. DOMAIN l = 0 .. n - 1
    BY <2>3
  <2>5. pos \in Nat /\ pos >= 1 /\ (pos - 1 < n => f = pos - 1) /\ (pos - 1 >= n => f \in 0 .. n - 1)
    BY <1>2, <2>1, <2>2 DEF Ring, StreamInv
  <2>6. f \in 0 .. n - 1
    BY <2>3, <2>5
  <2> QED BY <2>2, <2>4, <2>6
<1>3. ASSUME pc = "read", job.tool = "uniq" PROVE DOMAIN mem = DOMAIN cols
  <2>1. Uniqing
    BY <1>3 DEF ChoiceInv
  <2> QED BY <2>1 DEF Uniqing, Reordered
<1>4. ASSUME pc = "read", job.tool \in Functions PROVE DOMAIN mem.values = Active /\ Active \subseteq DOMAIN cols
  <2>1. Computing
    BY <1>4 DEF ResultInv
  <2>2. ~AggregateFails /\ cols = Selection /\ DOMAIN mem.values = Active
    BY <2>1 DEF Computing
  <2>3. Active \subseteq DOMAIN Selection
    BY <1>4, <2>2, ActiveColumns
  <2> QED BY <2>2, <2>3
<1> QED BY <1>1, <1>2, <1>3, <1>4 DEF TypeOK, StreamInv, EndStates

\* The ring of csv-tail, the row that csv-uniq remembers and the values that the
\* aggregates keep have a place for every row, or every column, that is used, in
\* any run on any streams.
THEOREM MemoryTyped == Spec => []TypeOK
<1>1. Init => StreamInv /\ RingInv /\ ChoiceInv /\ ResultInv
  <2> SUFFICES ASSUME Init PROVE StreamInv /\ RingInv /\ ChoiceInv /\ ResultInv
    OBVIOUS
  <2>1. StreamInv /\ pc = "open"
    BY StreamInit DEF Init
  <2>2. RingInv
    BY DEF Init, RingInv
  <2>3. ChoiceInv
    BY <2>1 DEF ChoiceInv, ChoiceRight, Printed
  <2>4. ResultInv
    BY ResultInit
  <2> QED BY <2>1, <2>2, <2>3, <2>4
<1>2. /\ StreamInv /\ [Next]_vars => StreamInv'
      /\ RingInv /\ [Next]_vars => RingInv'
      /\ ChoiceInv /\ [Next]_vars => ChoiceInv'
      /\ ResultInv /\ [Next]_vars => ResultInv'
  BY StreamStep, RingStep, ChoiceStep, ResultStep
<1>3. StreamInv /\ RingInv /\ ChoiceInv /\ ResultInv => TypeOK
  BY TypesHold
<1> QED BY <1>1, <1>2, <1>3, PTL DEF Spec

\* What head, tail, tac, cat, header, uniq, grep, cut, count, sum, min, max, avg,
\* sort and merge print when they succeed is what they promise, in any run on
\* any streams, and their memory has its type meanwhile.
THEOREM OutputsRight == Spec => []OutputRight
<1>1. TypeOK /\ LinesRight /\ ChoiceRight /\ ResultRight /\ SortRight /\ MergeRight => OutputRight
  BY DEF OutputRight
<1> QED BY <1>1, MemoryTyped, LinesPrinted, ChoicesPrinted, ResultsPrinted, SortedPrinted, MergedPrinted, PTL

-----------------------------------------------------------------------------
(* What the tools print for the rows of other tables *)

\* The tools that print these rows as they are, with columns behind them, or with
\* their columns in the order of params->cols
Movers == Functions \cup {"cut", "uniq"}
Keepers == Movers \cup BuilderNames \cup {"grep", "sort"} \cup RpnToolNames \cup {"add_sql", "grep_sql"}

\* Column _table of a header; the rows that name another table in a column
TableIn(h) == Find(h, NoTable, TableColumn)
Elsewhere(rows, at) == Those(rows, {k \in DOMAIN rows : rows[k][at] # <<job.table>>})

\* A row more, and rows of the table itself
LEMMA ElsewhereNext ==
    ASSUME NEW S, NEW s \in Seq(S), NEW r \in S, NEW at
    PROVE  Elsewhere(Append(s, r), at) =
              IF r[at] # <<job.table>> THEN Append(Elsewhere(s, at), r) ELSE Elsewhere(s, at)
<1>1. PICK t : t = Append(s, r)
  OBVIOUS
<1>2. /\ Len(s) \in Nat /\ Len(t) = Len(s) + 1 /\ DOMAIN t = 1 .. Len(s) + 1 /\ DOMAIN s = 1 .. Len(s)
      /\ t[Len(s) + 1] = r /\ \A k \in 1 .. Len(s) : t[k] = s[k]
  BY <1>1
<1>3. PICK p, q : /\ p = {k \in DOMAIN s : s[k][at] # <<job.table>>}
                  /\ q = {k \in DOMAIN t : t[k][at] # <<job.table>>}
  OBVIOUS
<1>4. /\ \A k \in 1 .. Len(s) : s[k] = t[k] /\ (k \in p <=> k \in q)
      /\ Len(t) \in q <=> r[at] # <<job.table>>
  BY <1>2, <1>3
<1>5. Elsewhere(t, at) = Those(t, q) /\ Elsewhere(s, at) = Those(s, p)
  BY <1>3 DEF Elsewhere
<1>6. CASE r[at] # <<job.table>>
  <2>1. Those(t, q) = Append(Those(s, p), t[Len(t)])
    BY ONLY <1>2, <1>4, <1>6, ThoseAndLast
  <2> QED BY <1>1, <1>2, <1>5, <1>6, <2>1
<1>7. CASE ~(r[at] # <<job.table>>)
  <2>1. (\A k \in Len(s) + 1 .. Len(t) : k \notin q) /\ Len(s) <= Len(t) /\ Len(t) \in Nat
    BY <1>2, <1>4, <1>7
  <2>2. Those(t, q) = Those(s, p)
    BY ONLY <1>2, <1>4, <2>1, ThoseBefore
  <2> QED BY <1>1, <1>5, <1>7, <2>2
<1> QED BY <1>6, <1>7

LEMMA ElsewhereOwn ==
    ASSUME NEW S, NEW s \in Seq(S), NEW z \in Seq(S), NEW at, \A k \in DOMAIN z : z[k][at] = <<job.table>>
    PROVE  Elsewhere(s \o z, at) = Elsewhere(s, at)
<1>1. PICK t : t = s \o z
  OBVIOUS
<1>2. /\ t \in Seq(S) /\ Len(t) = Len(s) + Len(z) /\ Len(s) \in Nat /\ Len(z) \in Nat
      /\ \A k \in 1 .. Len(s) : t[k] = s[k]
      /\ \A k \in 1 .. Len(z) : t[Len(s) + k] = z[k]
  BY <1>1, ConcatPlaces
<1>3. DOMAIN t = 1 .. Len(t) /\ DOMAIN s = 1 .. Len(s) /\ DOMAIN z = 1 .. Len(z)
  BY <1>2
<1>4. PICK p, q : /\ p = {k \in DOMAIN s : s[k][at] # <<job.table>>}
                  /\ q = {k \in DOMAIN t : t[k][at] # <<job.table>>}
  OBVIOUS
<1>5. ASSUME NEW k \in Len(s) + 1 .. Len(t) PROVE k \notin q
  <2>1. k - Len(s) \in 1 .. Len(z) /\ Len(s) + (k - Len(s)) = k
    BY <1>2
  <2>2. t[k] = z[k - Len(s)]
    BY <1>2, <2>1
  <2>3. t[k][at] = <<job.table>>
    BY <1>3, <2>1, <2>2
  <2> QED BY <1>4, <2>3
<1>6. \A k \in 1 .. Len(s) : s[k] = t[k] /\ (k \in p <=> k \in q)
  BY <1>2, <1>3, <1>4
<1>7. Len(s) <= Len(t) /\ Len(t) \in Nat /\ Len(s) \in Nat
  BY <1>2
<1>8. Those(t, q) = Those(s, p)
  BY ONLY <1>5, <1>6, <1>7, ThoseBefore
<1> QED BY <1>1, <1>4, <1>8 DEF Elsewhere

\* The columns of a header that are columns f[1], f[2], ... of the input: those of
\* other tables are there, and under each name the one that the input has first.
Carried(h, f) ==
    /\ TableIn(h) \in 1 .. Len(f) /\ f[TableIn(h)] = TableAt
    /\ \A c \in Range(Header) : c.table # job.table =>
          WhereIs(h, c) \in 1 .. Len(f) /\ f[WhereIs(h, c)] = WhereIs(Header, c)

\* Column _table is the first one of its name that belongs to no table.
LEMMA TablePlace ==
    ASSUME Len(Header) \in Nat, DOMAIN Header = 1 .. Len(Header), job.table # NoTable, ~TableMissing
    PROVE  /\ TableAt \in DOMAIN Header /\ Header[TableAt].table = NoTable /\ Header[TableAt].name = TableColumn
           /\ \A i \in DOMAIN Header : Header[i].table = NoTable /\ Header[i].name = TableColumn => TableAt <= i
<1> DEFINE K == {i \in 1 .. Len(Header) : Header[i].table = NoTable /\ Header[i].name = TableColumn}
<1>1. TableAt = IF K # {} THEN Min(K) ELSE 0
  BY DEF TableAt, Find, SelectInSeq
<1>2. K # {} /\ TableAt = Min(K)
  BY <1>1 DEF TableMissing
<1>3. K \in SUBSET Nat
  OBVIOUS
<1>4. Min(K) \in K /\ \A y \in K : Min(K) <= y
  <2> HIDE DEF K
  <2>1. \E x \in K : \A y \in K : x <= y
    BY <1>2, <1>3, LeastMember
  <2> QED BY <2>1 DEF Min
<1> QED BY <1>2, <1>4

\* The same for the columns that are kept or moved: those of other tables are all
\* there, after _table in the order of the input, and none of the others is taken for
\* one of them.
Rearranged(h, s) ==
    /\ Len(h) = Len(s) /\ Len(s) \in Nat
    /\ \A l \in 1 .. Len(s) :
          /\ s[l] \in DOMAIN Header
          /\ Header[s[l]].table = job.table => h[l].table = job.table
          /\ Header[s[l]].table # job.table => h[l] = Header[s[l]]
    /\ \A i \in DOMAIN Header : Header[i].table # job.table => \E l \in 1 .. Len(s) : s[l] = i
    /\ \A l, m \in 1 .. Len(s) :
          l < m /\ Header[s[l]].table # job.table /\ Header[s[m]].table # job.table =>
              s[l] = TableAt \/ s[l] <= s[m]

LEMMA RearrangedCarries ==
    ASSUME Len(Header) \in Nat, DOMAIN Header = 1 .. Len(Header), job.table # NoTable, ~TableMissing,
           NEW h, NEW s, Rearranged(h, s)
    PROVE  Carried(h, s)
<1>1. /\ TableAt \in DOMAIN Header /\ Header[TableAt].table = NoTable /\ Header[TableAt].name = TableColumn
      /\ \A i \in DOMAIN Header : Header[i].table = NoTable /\ Header[i].name = TableColumn => TableAt <= i
  BY TablePlace
<1>2. TableIn(h) \in 1 .. Len(s) /\ s[TableIn(h)] = TableAt
  <2> DEFINE K == {i \in 1 .. Len(Header) : Header[i].table = NoTable /\ Header[i].name = TableColumn}
             L == {i \in 1 .. Len(h) : h[i].table = NoTable /\ h[i].name = TableColumn}
  <2>1. TableIn(h) = (IF L # {} THEN Min(L) ELSE 0) /\ TableAt = IF K # {} THEN Min(K) ELSE 0
    BY DEF TableIn, TableAt, Find, SelectInSeq
  <2>2. TableAt = Min(K) /\ K # {}
    BY <1>1, <2>1
  <2>3. ASSUME NEW l \in L
        PROVE  /\ l \in 1 .. Len(s) /\ s[l] \in DOMAIN Header /\ Header[s[l]].table # job.table
               /\ h[l] = Header[s[l]] /\ s[l] \in K
    <3>1. l \in 1 .. Len(s)
      BY <2>3 DEF Rearranged
    <3> QED BY <2>3, <3>1 DEF Rearranged
  <2>4. PICK j \in 1 .. Len(s) : s[j] = TableAt
    BY <1>1 DEF Rearranged
  <2>5. h[j] = Header[TableAt] /\ j \in L
    BY <1>1, <2>4 DEF Rearranged
  <2>6. ASSUME NEW l \in L, l <= j PROVE s[l] \in K /\ s[l] <= s[j]
    <3>1. s[l] \in K /\ TableAt <= s[l] /\ l \in 1 .. Len(s) /\ Header[s[l]].table # job.table
      BY <1>1, <2>3
    <3>2. CASE l = j
      BY <1>1, <2>4, <3>1, <3>2
    <3>3. CASE l < j
      <4>1. s[l] = TableAt \/ s[l] <= s[j]
        BY <1>1, <2>4, <3>1, <3>3 DEF Rearranged
      <4> QED BY <1>1, <2>4, <3>1, <4>1
    <3> QED BY <2>6, <3>1, <3>2, <3>3 DEF Rearranged
  <2>7. K \in SUBSET Nat /\ L \in SUBSET Nat /\ j \in Nat
    BY DEF Rearranged
  <2> HIDE DEF K, L
  <2>8. Min(L) \in L /\ s[Min(L)] = Min(K) /\ L # {}
    BY <2>2, <2>4, <2>5, <2>6, <2>7, FirstKept
  <2> QED BY <2>1, <2>2, <2>3, <2>8
<1>3. ASSUME NEW c \in Range(Header), c.table # job.table
      PROVE  WhereIs(h, c) \in 1 .. Len(s) /\ s[WhereIs(h, c)] = WhereIs(Header, c)
  <2>1. \E i \in 1 .. Len(Header) : Header[i] = c
    BY <1>3 DEF Range
  <2>2. PICK m : m = WhereIs(Header, c)
    OBVIOUS
  <2> DEFINE K == {i \in 1 .. Len(Header) : Header[i] = c}
             L == {i \in 1 .. Len(h) : h[i] = c}
  <2>3. m \in DOMAIN Header /\ Header[m] = c /\ m = Min(K) /\ K # {}
    BY <2>1, <2>2, ColumnPlace
  <2>4. PICK j \in 1 .. Len(s) : s[j] = m
    BY <1>3, <2>3 DEF Rearranged
  <2>5. h[j] = c /\ j \in L
    BY <1>3, <2>3, <2>4 DEF Rearranged
  <2>6. ASSUME NEW l \in L
        PROVE  l \in 1 .. Len(s) /\ s[l] \in DOMAIN Header /\ Header[s[l]] = c /\ s[l] \in K
    <3>1. l \in 1 .. Len(s) /\ h[l] = c
      BY <2>6 DEF Rearranged
    <3> QED BY <1>3, <3>1 DEF Rearranged
  <2>7. ASSUME NEW l \in L, l <= j PROVE s[l] \in K /\ s[l] <= s[j]
    <3>1. s[l] \in K /\ l \in 1 .. Len(s) /\ Header[s[l]] = c
      BY <2>6
    <3>2. CASE l = j
      BY <2>3, <2>4, <3>1, <3>2
    <3>3. CASE l < j
      <4>1. s[l] = TableAt \/ s[l] <= s[j]
        BY <1>3, <2>3, <2>4, <3>1, <3>3 DEF Rearranged
      <4>2. s[l] = TableAt => TableAt <= m
        BY <1>1, <2>3, <3>1
      <4> QED BY <2>4, <3>1, <4>1, <4>2
    <3> QED BY <2>7, <3>1, <3>2, <3>3 DEF Rearranged
  <2>8. K \in SUBSET Nat /\ L \in SUBSET Nat /\ j \in Nat
    BY DEF Rearranged
  <2>9. WhereIs(h, c) = IF L # {} THEN Min(L) ELSE 0
    BY DEF WhereIs, SelectInSeq
  <2> HIDE DEF K, L
  <2>10. Min(L) \in L /\ s[Min(L)] = Min(K) /\ L # {}
    BY <2>3, <2>4, <2>5, <2>7, <2>8, FirstKept
  <2> QED BY <2>2, <2>3, <2>6, <2>9, <2>10
<1> QED BY <1>2, <1>3 DEF Carried

\* ... and for columns behind those of the input.
LEMMA BehindCarries ==
    ASSUME Len(Header) \in Nat, DOMAIN Header = 1 .. Len(Header), job.table # NoTable, ~TableMissing,
           NEW h, Len(h) \in Nat, Len(Header) <= Len(h), \A i \in 1 .. Len(Header) : h[i] = Header[i]
    PROVE  Carried(h, Indices)
<1>1. TableAt \in DOMAIN Header /\ Header[TableAt].table = NoTable /\ Header[TableAt].name = TableColumn
  BY TablePlace
<1>2. Len(Indices) = Len(Header) /\ \A i \in 1 .. Len(Header) : Indices[i] = i
  <2>1. Indices = [i \in 1 .. Len(Header) |-> i]
    BY DEF Indices
  <2> QED BY <2>1
<1>3. TableIn(h) \in 1 .. Len(Header) /\ Indices[TableIn(h)] = TableAt
  <2> DEFINE K == {i \in 1 .. Len(Header) : Header[i].table = NoTable /\ Header[i].name = TableColumn}
             L == {i \in 1 .. Len(h) : h[i].table = NoTable /\ h[i].name = TableColumn}
  <2>1. TableIn(h) = (IF L # {} THEN Min(L) ELSE 0) /\ TableAt = IF K # {} THEN Min(K) ELSE 0
    BY DEF TableIn, TableAt, Find, SelectInSeq
  <2>2. TableAt = Min(K) /\ K # {}
    BY <1>1, <2>1
  <2>3. TableAt \in L /\ TableAt \in Nat /\ Indices[TableAt] = Min(K)
    BY <1>1, <1>2, <2>2
  <2>4. ASSUME NEW l \in L, l <= TableAt PROVE Indices[l] \in K /\ Indices[l] <= Indices[TableAt]
    BY <1>1, <1>2, <2>4
  <2>5. K \in SUBSET Nat /\ L \in SUBSET Nat
    OBVIOUS
  <2> HIDE DEF K, L
  <2>6. Min(L) \in L /\ Indices[Min(L)] = Min(K) /\ L # {} /\ Min(L) <= TableAt
    BY <2>2, <2>3, <2>4, <2>5, FirstKept
  <2>7. Min(L) \in 1 .. Len(Header)
    BY <1>1, <2>6 DEF L
  <2> QED BY <2>1, <2>2, <2>6, <2>7
<1>4. ASSUME NEW c \in Range(Header), c.table # job.table
      PROVE  WhereIs(h, c) \in 1 .. Len(Header) /\ Indices[WhereIs(h, c)] = WhereIs(Header, c)
  <2>1. \E i \in 1 .. Len(Header) : Header[i] = c
    BY <1>4 DEF Range
  <2>2. PICK m : m = WhereIs(Header, c)
    OBVIOUS
  <2> DEFINE K == {i \in 1 .. Len(Header) : Header[i] = c}
             L == {i \in 1 .. Len(h) : h[i] = c}
  <2>3. m \in 1 .. Len(Header) /\ Header[m] = c /\ m = Min(K) /\ K # {}
    BY <2>1, <2>2, ColumnPlace
  <2>4. m \in L /\ m \in Nat /\ Indices[m] = Min(K)
    <3>1. m \in 1 .. Len(h) /\ h[m] = Header[m] /\ m \in Nat
      BY <2>3
    <3>2. Indices[m] = m
      BY <1>2, <2>3
    <3> QED BY <2>3, <3>1, <3>2
  <2>5. ASSUME NEW l \in L, l <= m PROVE Indices[l] \in K /\ Indices[l] <= Indices[m]
    BY <1>2, <2>3, <2>5
  <2>6. K \in SUBSET Nat /\ L \in SUBSET Nat
    OBVIOUS
  <2>7. WhereIs(h, c) = IF L # {} THEN Min(L) ELSE 0
    BY DEF WhereIs, SelectInSeq
  <2> HIDE DEF K, L
  <2>8. Min(L) \in L /\ Indices[Min(L)] = Min(K) /\ L # {} /\ Min(L) <= m
    BY <2>3, <2>4, <2>5, <2>6, FirstKept
  <2>9. Min(L) \in 1 .. Len(Header)
    BY <2>3, <2>8 DEF L
  <2> QED BY <2>2, <2>3, <2>7, <2>8, <2>9
<1> QED BY <1>2, <1>3, <1>4 DEF Carried

\* The columns of the input that a row of the output begins with
Sources == IF job.tool \in Movers THEN cols ELSE Indices

\* A row that is printed has the fields of one that was read, and so do all.
Carries(p, r, f) == \A b \in 1 .. Len(f) : p[b] = r[f[b]]
Matching(q, z, f) == Len(q) = Len(z) /\ \A k \in DOMAIN z : Carries(q[k], z[k], f)

\* The rows of the other tables were printed as they were read.
Passing ==
    /\ ~TableMissing /\ Sources \in Seq(DOMAIN Header) /\ Carried(hdr, Sources)
    /\ out \in Seq(Range(out))
    /\ Matching(Elsewhere(out, TableIn(hdr)), Elsewhere(SubSeq(AllRows, 1, pos - 1), TableAt), Sources)
    /\ job.tool \in Functions => TableIn(hdr) = 1

\* What the evaluators print behind a row is a sequence.
ValuesHeld ==
    /\ job.tool \in Evaluators => mem.values \in Seq(Range(mem.values))
    /\ job.tool = "add_sql" => mem.todo \in Seq(Range(mem.todo))

KeepInv ==
    /\ SortInv
    /\ job.tool \in Keepers /\ job.table # NoTable =>
          /\ pc = "read" => ValuesHeld
          /\ pc = "read" \/ (Printed /\ hdr # <<>>) => Passing

LEMMA PassingNext ==
    ASSUME UNCHANGED <<job, inputs>>, NEW h, NEW f, NEW q, NEW w,
           hdr' = h, Sources' = f, out' = q, SubSeq(AllRows, 1, pos' - 1) = w,
           ~TableMissing, f \in Seq(DOMAIN Header), Carried(h, f), q \in Seq(Range(q)),
           Matching(Elsewhere(q, TableIn(h)), Elsewhere(w, TableAt), f),
           job.tool \in Functions => TableIn(h) = 1
    PROVE  Passing'
<1>1. Header' = Header /\ AllRows' = AllRows /\ TableAt' = TableAt /\ job' = job
  BY TermsStay
<1>2. (~TableMissing)'
  BY <1>1 DEF TableMissing
<1>3. Carried(hdr, Sources)'
  BY <1>1 DEF Carried
<1>4. SubSeq(AllRows, 1, pos - 1)' = w
  BY <1>1
<1>5. Elsewhere(out, TableIn(hdr))' = Elsewhere(q, TableIn(h))
  BY <1>1 DEF Elsewhere, TableIn
<1>6. Elsewhere(SubSeq(AllRows, 1, pos - 1), TableAt)' = Elsewhere(w, TableAt)
  BY <1>1, <1>4 DEF Elsewhere
<1>7. (job.tool \in Functions => TableIn(hdr) = 1)'
  BY <1>1 DEF TableIn, Functions
<1>8. (Sources \in Seq(DOMAIN Header))' /\ (out \in Seq(Range(out)))'
  BY <1>1
<1> QED BY <1>2, <1>3, <1>5, <1>6, <1>7, <1>8 DEF Passing, Matching

LEMMA SourcesStay ==
    ASSUME UNCHANGED <<job, inputs, cols>>
    PROVE  Sources' = Sources
<1>1. Indices' = Indices /\ job' = job /\ cols' = cols
  BY TermsStay
<1> QED BY <1>1 DEF Sources, Movers, Functions

LEMMA MatchingNext ==
    ASSUME NEW S, NEW q \in Seq(S), NEW z \in Seq(S), NEW p \in S, NEW r \in S, NEW f,
           Matching(q, z, f), Carries(p, r, f)
    PROVE  Matching(Append(q, p), Append(z, r), f)
<1>1. PICK a, b : a = Append(q, p) /\ b = Append(z, r)
  OBVIOUS
<1>2. PICK n \in Nat : n = Len(q) /\ n = Len(z)
  BY DEF Matching
<1>3. /\ Len(a) = n + 1 /\ Len(b) = n + 1 /\ DOMAIN b = 1 .. n + 1 /\ DOMAIN z = 1 .. n
      /\ a[n + 1] = p /\ b[n + 1] = r
      /\ \A k \in 1 .. n : a[k] = q[k] /\ b[k] = z[k]
  <2>1. DOMAIN z = 1 .. n
    BY <1>2
  <2>2. Len(a) = Len(q) + 1 /\ a[Len(q) + 1] = p /\ \A k \in 1 .. Len(q) : a[k] = q[k]
    BY <1>1
  <2>3. /\ Len(b) = Len(z) + 1 /\ DOMAIN b = 1 .. Len(z) + 1 /\ b[Len(z) + 1] = r
        /\ \A k \in 1 .. Len(z) : b[k] = z[k]
    BY <1>1
  <2> QED BY <1>2, <2>1, <2>2, <2>3
<1>4. ASSUME NEW k \in 1 .. n + 1 PROVE Carries(a[k], b[k], f)
  <2>1. CASE k = n + 1
    BY <1>3, <2>1
  <2>2. CASE k \in 1 .. n
    BY <1>3, <2>2 DEF Matching
  <2> QED BY <1>2, <2>1, <2>2
<1> QED BY <1>1, <1>3, <1>4 DEF Matching

\* A row was read: one of another table is printed, or one with the fields of another
\* row, or nothing.
LEMMA PassingReads ==
    ASSUME StreamInv, job.tool \in Keepers, job.table # NoTable, Passing,
           UNCHANGED <<job, inputs, cols, hdr>>, pos <= Len(Rows), pos' = pos + 1,
           \/ \E p : out' = out \o <<p>> /\ Carries(p, Row, Sources)
           \/ out' = out \o <<>> /\ ~OfOtherTable(Row)
    PROVE  Passing'
<1>1. /\ Rows = AllRows /\ pos \in 1 .. Len(AllRows) + 1 /\ Len(AllRows) \in Nat
      /\ AllRows \in Seq(Range(AllRows))
  BY GivenStream DEF SeveralInputs, Keepers, Movers, Functions, BuilderNames, RpnToolNames
<1>2. PICK h, f, q, w : h = hdr /\ f = Sources /\ q = out /\ w = SubSeq(AllRows, 1, pos - 1)
  OBVIOUS
<1>3. PICK r, at, T : r = AllRows[pos] /\ at = TableIn(h) /\ T = <<job.table>>
  OBVIOUS
<1>4. r = Row /\ r \in Range(AllRows)
  BY <1>1, <1>3 DEF Row
<1>5. w \in Seq(Range(AllRows)) /\ SubSeq(AllRows, 1, pos' - 1) = Append(w, r)
  <2>1. pos \in Nat /\ pos - 1 \in 0 .. Len(AllRows) - 1 /\ 1 \in 1 .. (pos - 1) + 1 /\ (pos - 1) + 1 = pos /\ pos' - 1 = pos
    BY <1>1
  <2> QED BY <1>1, <1>2, <1>3, <2>1, SubSeqGrows
<1>6. /\ ~TableMissing /\ f \in Seq(DOMAIN Header) /\ Carried(h, f) /\ q \in Seq(Range(q))
      /\ Matching(Elsewhere(q, at), Elsewhere(w, TableAt), f)
      /\ job.tool \in Functions => TableIn(h) = 1
  BY <1>2, <1>3 DEF Passing
<1>7. hdr' = h /\ Sources' = f
  BY <1>2, SourcesStay
<1>8. Elsewhere(Append(w, r), TableAt) =
         IF r[TableAt] # T THEN Append(Elsewhere(w, TableAt), r) ELSE Elsewhere(w, TableAt)
  BY <1>3, <1>4, <1>5, ElsewhereNext
<1>9. OfOtherTable(Row) <=> r[TableAt] # T
  BY <1>3, <1>4 DEF OfOtherTable
<1>10. CASE out' = q /\ ~OfOtherTable(Row)
  BY <1>3, <1>5, <1>6, <1>7, <1>8, <1>9, <1>10, PassingNext
<1>11. CASE \E p : out' = q \o <<p>> /\ Carries(p, Row, f)
  <2>1. PICK p : out' = q \o <<p>> /\ Carries(p, r, f)
    BY <1>4, <1>11
  <2>2. PICK S : S = Range(q) \cup {p}
    OBVIOUS
  <2>3. q \in Seq(S) /\ p \in S
    BY <1>6, <2>2
  <2>4. out' = Append(q, p) /\ Append(q, p) \in Seq(Range(Append(q, p)))
    <3>1. out' = Append(q, p)
      BY <2>1, <2>3, OneMore
    <3>2. q \in Seq(Range(q)) /\ q \o <<p>> \in Seq(Range(q \o <<p>>))
      BY <1>6, PrintedLast
    <3> QED BY <2>1, <3>1, <3>2
  <2>5. p[at] = r[TableAt]
    BY <1>3, <1>6, <2>1 DEF Carried, Carries
  <2>6. Elsewhere(Append(q, p), at) = IF p[at] # T THEN Append(Elsewhere(q, at), p) ELSE Elsewhere(q, at)
    BY <1>3, <2>3, ElsewhereNext
  <2>7. Matching(Elsewhere(Append(q, p), at), Elsewhere(Append(w, r), TableAt), f)
    <3>1. CASE r[TableAt] = T
      BY <1>6, <1>8, <2>5, <2>6, <3>1
    <3>2. CASE r[TableAt] # T
      <4>1. PICK U : U = S \cup Range(AllRows)
        OBVIOUS
      <4>2. q \in Seq(U) /\ w \in Seq(U) /\ p \in U /\ r \in U
        BY <1>4, <1>5, <2>3, <4>1
      <4>3. Elsewhere(q, at) \in Seq(U) /\ Elsewhere(w, TableAt) \in Seq(U)
        BY <4>2, ThoseType DEF Elsewhere
      <4>4. Matching(Append(Elsewhere(q, at), p), Append(Elsewhere(w, TableAt), r), f)
        BY ONLY <1>6, <2>1, <4>2, <4>3, MatchingNext
      <4> QED BY <1>8, <2>5, <2>6, <3>2, <4>4
    <3> QED BY <3>1, <3>2
  <2> QED BY <1>3, <1>5, <1>6, <1>7, <2>4, <2>7, PassingNext
<1>12. out' = q \o <<>> => out' = q
  BY <1>6
<1> QED BY <1>2, <1>10, <1>11, <1>12

\* What is printed at the end are rows of the table.
LEMMA PassingEnds ==
    ASSUME Passing, UNCHANGED <<job, inputs, cols, hdr, pos>>,
           NEW S, NEW z \in Seq(S), out' = out \o z, \A k \in DOMAIN z : z[k][TableIn(hdr)] = <<job.table>>
    PROVE  Passing'
<1>1. PICK h, f, q, w : h = hdr /\ f = Sources /\ q = out /\ w = SubSeq(AllRows, 1, pos - 1)
  OBVIOUS
<1>2. /\ ~TableMissing /\ f \in Seq(DOMAIN Header) /\ Carried(h, f) /\ q \in Seq(Range(q))
      /\ Matching(Elsewhere(q, TableIn(h)), Elsewhere(w, TableAt), f)
      /\ job.tool \in Functions => TableIn(h) = 1
  BY <1>1 DEF Passing
<1>3. hdr' = h /\ Sources' = f /\ SubSeq(AllRows, 1, pos' - 1) = w
  BY <1>1, SourcesStay
<1>4. PICK U : U = Range(q) \cup S
  OBVIOUS
<1>5. q \in Seq(U) /\ z \in Seq(U)
  BY <1>2, <1>4
<1>6. Elsewhere(q \o z, TableIn(h)) = Elsewhere(q, TableIn(h))
  BY <1>1, <1>5, ElsewhereOwn
<1>7. PICK t : t = q \o z
  OBVIOUS
<1>8. t \in Seq(U)
  BY <1>5, <1>7
<1>9. t \in Seq(Range(t))
  BY <1>8 DEF Range
<1> QED BY <1>1, <1>2, <1>3, <1>6, <1>7, <1>9, PassingNext

\* Nothing was printed yet.
LEMMA PassingOpens ==
    ASSUME StreamInv, job.tool \in Keepers, pc = "open", UNCHANGED <<job, inputs, pos, out>>,
           NEW h, NEW f, hdr' = h, Sources' = f, ~TableMissing, f \in Seq(DOMAIN Header), Carried(h, f),
           job.tool \in Functions => TableIn(h) = 1
    PROVE  Passing'
<1>1. out = <<>> /\ pos = 1
  BY DEF StreamInv
<1>2. out' = <<>> /\ SubSeq(AllRows, 1, pos' - 1) = <<>>
  BY <1>1
<1>3. \A at : Elsewhere(<<>>, at) = <<>>
  <2> TAKE at
  <2>1. Elsewhere(<<>>, at) = Those(<<>>, {k \in DOMAIN <<>> : <<>>[k][at] # <<job.table>>})
    BY DEF Elsewhere
  <2>2. Len(<<>>) = 0
    OBVIOUS
  <2> QED BY <2>1, <2>2, ThoseNone
<1>4. Matching(<<>>, <<>>, f) /\ <<>> \in Seq(Range(<<>>))
  BY DEF Matching
<1>5. Matching(Elsewhere(<<>>, TableIn(h)), Elsewhere(<<>>, TableAt), f)
  BY <1>3, <1>4
<1> QED BY <1>2, <1>4, <1>5, PassingNext

\* New columns stand behind those of the input.
LEMMA OpensBehind ==
    ASSUME StreamInv, job.tool \in Keepers \ Movers, pc = "open", UNCHANGED <<job, inputs, pos, out>>,
           job.table # NoTable, ~TableMissing, NEW h, hdr' = h, Len(h) \in Nat, Len(Header) <= Len(h),
           \A i \in 1 .. Len(Header) : h[i] = Header[i]
    PROVE  Passing'
<1>1. Len(Header) \in Nat /\ DOMAIN Header = 1 .. Len(Header)
  BY GivenStream DEF SeveralInputs, Keepers, Movers, Functions, BuilderNames, RpnToolNames
<1>2. Sources' = Indices
  <2>1. Indices' = Indices /\ job' = job
    BY TermsStay
  <2> QED BY <2>1 DEF Sources, Movers, Functions
<1>3. Indices \in Seq(DOMAIN Header)
  <2>1. Indices = [i \in 1 .. Len(Header) |-> i]
    BY <1>1 DEF Indices
  <2> QED BY <1>1, <2>1
<1>4. Carried(h, Indices)
  BY <1>1, BehindCarries
<1>5. job.tool \notin Functions
  BY DEF Movers
<1> QED BY <1>2, <1>3, <1>4, <1>5, PassingOpens

\* The columns of the input are kept or moved.
LEMMA OpensMoved ==
    ASSUME StreamInv, job.tool \in Movers, pc = "open", UNCHANGED <<job, inputs, pos, out>>,
           job.table # NoTable, ~TableMissing, NEW h, hdr' = h, NEW s, cols' = s,
           s \in Seq(DOMAIN Header), Rearranged(h, s), job.tool \in Functions => TableIn(h) = 1
    PROVE  Passing'
<1>1. Len(Header) \in Nat /\ DOMAIN Header = 1 .. Len(Header)
  BY GivenStream DEF SeveralInputs, Movers, Functions
<1>2. Sources' = s
  BY DEF Sources, Movers, Functions
<1>3. Carried(h, s)
  BY <1>1, RearrangedCarries
<1>4. job.tool \in Keepers
  BY DEF Keepers
<1> QED BY <1>2, <1>3, <1>4, PassingOpens

\* The columns of -c are columns of the table.
LEMMA ChosenOwn ==
    ASSUME StreamInv, job.tool \in Movers, ~ColumnMissing
    PROVE  \A i \in DOMAIN Chosen : Header[Chosen[i]].table = job.table
<1>1. Len(Header) \in Nat
  BY GivenStream DEF SeveralInputs, Movers, Functions
<1> TAKE i \in DOMAIN Chosen
<1>2. Chosen[i] = Find(Header, job.table, job.columns[i]) /\ Chosen[i] # 0
  BY DEF ColumnMissing, Range, Chosen
<1> DEFINE I == {j \in 1 .. Len(Header) : Header[j].table = job.table /\ Header[j].name = job.columns[i]}
<1>3. Chosen[i] = IF I # {} THEN Min(I) ELSE 0
  BY <1>2 DEF Find, SelectInSeq
<1>4. I # {} /\ Chosen[i] = Min(I)
  BY <1>2, <1>3
<1>5. I \in SUBSET Nat
  OBVIOUS
<1>6. Min(I) \in I
  <2> HIDE DEF I
  <2>1. \E x \in I : \A y \in I : x <= y
    BY <1>4, <1>5, LeastMember
  <2> QED BY <2>1 DEF Min
<1> QED BY <1>4, <1>6

LEMMA SelectionRearranged ==
    ASSUME StreamInv, job.tool \in Movers, job.table # NoTable, ~TableMissing, ~ColumnMissing,
           NEW h, Len(h) = Len(Selection),
           \A l \in 1 .. Len(Selection) :
              /\ Header[Selection[l]].table = job.table => h[l].table = job.table
              /\ Header[Selection[l]].table # job.table => h[l] = Header[Selection[l]]
    PROVE  Rearranged(h, Selection) /\ Selection \in Seq(DOMAIN Header) /\ Selection[1] = TableAt
<1>1. Len(Header) \in Nat /\ DOMAIN Header = 1 .. Len(Header)
  BY GivenStream DEF SeveralInputs, Movers, Functions
<1>2. /\ Chosen \in Seq(DOMAIN Header) /\ Others \in Seq(DOMAIN Header) /\ Selection \in Seq(DOMAIN Header)
      /\ TableAt \in DOMAIN Header /\ Selection = <<TableAt>> \o Chosen \o Others
  <2>1. job.tool \in {"cut", "uniq", "grep", "sort"} \cup Functions
    BY DEF Movers
  <2> QED BY <2>1, GivenSelection
<1>3. TableAt \in DOMAIN Header /\ Header[TableAt].table # job.table
  BY <1>1, TablePlace
<1>4. \A i \in DOMAIN Chosen : Header[Chosen[i]].table = job.table
  BY ChosenOwn
<1> DEFINE P == {i \in DOMAIN Header : i # TableAt /\ Header[i].table # job.table}
<1>5. /\ Range(Others) = P
      /\ \A i, j \in DOMAIN Others : i < j => Others[i] < Others[j]
  <2>1. Others = Those(Indices, P)
    BY DEF Others
  <2>2. P \cap DOMAIN Header = P
    OBVIOUS
  <2> HIDE DEF P
  <2> QED BY <1>1, <2>1, <2>2, ThoseIndices
<1>6. PICK n \in Nat, m \in Nat : n = Len(Chosen) /\ m = Len(Others) /\ DOMAIN Chosen = 1 .. n /\ DOMAIN Others = 1 .. m
  <2>1. \A S : \A t \in Seq(S) : Len(t) \in Nat /\ DOMAIN t = 1 .. Len(t)
    OBVIOUS
  <2>2. Chosen \in Seq(DOMAIN Header) /\ Others \in Seq(DOMAIN Header)
    BY <1>2
  <2> QED BY ONLY <2>1, <2>2
<1>7. PICK s : s = Selection
  OBVIOUS
<1>8. /\ Len(s) = 1 + n + m /\ s[1] = TableAt
      /\ \A i \in 1 .. n : s[1 + i] = Chosen[i]
      /\ \A i \in 1 .. m : s[1 + n + i] = Others[i]
  <2>1. PICK a : a = <<TableAt>> \o Chosen
    OBVIOUS
  <2>2. <<TableAt>> \in Seq(DOMAIN Header) /\ Len(<<TableAt>>) = 1 /\ <<TableAt>>[1] = TableAt
    BY <1>2
  <2>3. /\ a \in Seq(DOMAIN Header) /\ Len(a) = 1 + n /\ a[1] = TableAt
        /\ \A i \in 1 .. n : a[1 + i] = Chosen[i]
    BY <1>2, <1>6, <2>1, <2>2, ConcatPlaces
  <2>4. s = a \o Others
    BY <1>2, <1>7, <2>1
  <2>5. /\ Len(s) = (1 + n) + m
        /\ \A i \in 1 .. 1 + n : s[i] = a[i]
        /\ \A i \in 1 .. m : s[(1 + n) + i] = Others[i]
    <3>1. a \in Seq(DOMAIN Header) /\ Others \in Seq(DOMAIN Header)
      BY <1>2, <2>3
    <3>2. /\ Len(s) = Len(a) + Len(Others)
          /\ \A i \in 1 .. Len(a) : s[i] = a[i]
          /\ \A i \in 1 .. Len(Others) : s[Len(a) + i] = Others[i]
      BY <2>4, <3>1, ConcatPlaces
    <3>3. Len(a) = 1 + n /\ Len(Others) = m
      BY <1>6, <2>3
    <3> QED BY ONLY <3>2, <3>3
  <2>6. ASSUME NEW i \in 1 .. n PROVE s[1 + i] = Chosen[i]
    <3>1. 1 + i \in 1 .. 1 + n
      OBVIOUS
    <3> QED BY <2>3, <2>5, <3>1
  <2> HIDE <2>1, <2>4
  <2> QED BY <2>3, <2>5, <2>6
<1>9. ASSUME NEW l \in 1 .. Len(s), Header[s[l]].table # job.table
      PROVE  l = 1 \/ (l - (1 + n) \in 1 .. m /\ s[l] = Others[l - (1 + n)])
  <2>1. CASE l = 1
    BY <2>1
  <2>2. CASE l \in 2 .. 1 + n
    <3>1. l - 1 \in 1 .. n /\ 1 + (l - 1) = l
      BY <2>2
    <3>2. s[l] = Chosen[l - 1]
      BY <1>8, <3>1
    <3> QED BY <1>4, <1>6, <1>9, <3>1, <3>2
  <2>3. CASE l \in 2 + n .. 1 + n + m
    <3>1. l - (1 + n) \in 1 .. m /\ 1 + n + (l - (1 + n)) = l
      BY <2>3
    <3> QED BY <1>8, <3>1
  <2> QED BY <1>8, <2>1, <2>2, <2>3
<1>10. ASSUME NEW i \in DOMAIN Header, Header[i].table # job.table PROVE \E l \in 1 .. Len(s) : s[l] = i
  <2>1. CASE i = TableAt
    BY <1>8, <2>1
  <2>2. CASE i # TableAt
    <3>1. i \in Range(Others)
      BY <1>5, <1>10, <2>2
    <3>2. PICK j \in 1 .. m : Others[j] = i
      BY <1>6, <3>1 DEF Range
    <3>3. 1 + n + j \in 1 .. Len(s) /\ s[1 + n + j] = i
      BY <1>8, <3>2
    <3> QED BY <3>3
  <2> QED BY <2>1, <2>2
<1>11. ASSUME NEW l \in 1 .. Len(s), NEW k \in 1 .. Len(s),
              l < k, Header[s[l]].table # job.table, Header[s[k]].table # job.table
       PROVE  s[l] = TableAt \/ s[l] <= s[k]
  <2>1. CASE l = 1
    BY <1>8, <2>1
  <2>2. CASE l # 1
    <3>1. /\ l - (1 + n) \in 1 .. m /\ s[l] = Others[l - (1 + n)]
          /\ k - (1 + n) \in 1 .. m /\ s[k] = Others[k - (1 + n)]
      <4>1. k # 1
        BY <1>11, <2>2
      <4> QED BY <1>9, <1>11, <2>2, <4>1
    <3>2. l - (1 + n) < k - (1 + n)
      BY <1>11, <3>1
    <3>3. s[l] < s[k]
      BY <1>5, <1>6, <3>1, <3>2
    <3>4. s[l] \in Nat /\ s[k] \in Nat
      <4>1. s \in Seq(DOMAIN Header)
        BY <1>2, <1>7
      <4>2. \A i \in 1 .. Len(s) : s[i] \in 1 .. Len(Header)
        BY ONLY <1>1, <4>1
      <4> QED BY <1>1, <4>2
    <3> QED BY <3>3, <3>4
  <2> QED BY <2>1, <2>2
<1>12. Len(s) \in Nat /\ \A l \in 1 .. Len(s) : s[l] \in DOMAIN Header
  BY <1>2, <1>7
<1> HIDE DEF P
<1>13. Rearranged(h, s)
  BY <1>7, <1>10, <1>11, <1>12 DEF Rearranged
<1> QED BY <1>2, <1>7, <1>8, <1>13

LEMMA DroppedRearranged ==
    ASSUME StreamInv, job.tool = "cut", job.table # NoTable, ~TableMissing, ~ColumnMissing,
           NEW h, h = Reordered(Header, Dropped)
    PROVE  Rearranged(h, Dropped)
<1>1. Len(Header) \in Nat /\ DOMAIN Header = 1 .. Len(Header)
  BY GivenStream DEF SeveralInputs
<1>2. \A i \in DOMAIN Chosen : Header[Chosen[i]].table = job.table
  BY ChosenOwn DEF Movers
<1>3. PICK s : s = Dropped
  OBVIOUS
<1>4. /\ s \in Seq(DOMAIN Header) /\ Range(s) = DOMAIN Header \ Range(Chosen)
      /\ \A i, j \in DOMAIN s : i < j => s[i] < s[j]
  BY <1>1, <1>3, ThoseIndices DEF Dropped
<1>5. Len(s) \in Nat /\ DOMAIN s = 1 .. Len(s) /\ \A l \in 1 .. Len(s) : s[l] \in DOMAIN Header /\ s[l] \in Nat
  BY <1>1, <1>4
<1>6. Len(h) = Len(s) /\ \A l \in 1 .. Len(s) : h[l] = Header[s[l]]
  <2>1. h = [i \in 1 .. Len(s) |-> Header[s[i]]]
    BY <1>3, <1>5 DEF Reordered
  <2> QED BY <1>5, <2>1
<1>7. ASSUME NEW i \in DOMAIN Header, Header[i].table # job.table PROVE \E l \in 1 .. Len(s) : s[l] = i
  <2>1. i \notin Range(Chosen)
    BY <1>2, <1>7 DEF Range
  <2>2. i \in Range(s)
    BY <1>4, <2>1
  <2> QED BY <1>5, <2>2 DEF Range
<1>8. \A l, m \in 1 .. Len(s) : l < m => s[l] <= s[m]
  BY <1>4, <1>5
<1> QED BY <1>3, <1>5, <1>6, <1>7, <1>8 DEF Rearranged

LEMMA FiltersOpen ==
    ASSUME StreamInv, pc = "open", pc' = "read", job.table # NoTable, OpenCut \/ OpenUniq
    PROVE  Passing'
<1>1. PICK s : /\ s = (IF job.tool = "cut" THEN Kept ELSE Selection)
               /\ cols' = s /\ hdr' = Reordered(Header, s) /\ ~TableMissing /\ ~ColumnMissing
               /\ job.tool \in {"cut", "uniq"} /\ UNCHANGED <<job, inputs, pos, out>>
  BY DEF OpenCut, OpenUniq, CutFails, Opening, Start, Fail, Exit, given
<1>2. job.tool \in Movers /\ job.tool \notin Functions
  BY <1>1 DEF Movers, Functions
<1>3. CASE s = Selection
  <2>1. Selection \in Seq(DOMAIN Header)
    BY <1>1, GivenSelection
  <2>2. DOMAIN s = 1 .. Len(s) /\ Len(s) \in Nat
    BY <1>3, <2>1
  <2>3. hdr' = [i \in 1 .. Len(s) |-> Header[s[i]]]
    BY <1>1, <2>2 DEF Reordered
  <2>4. PICK h : h = hdr'
    OBVIOUS
  <2>5. Len(h) = Len(s) /\ \A l \in 1 .. Len(s) : h[l] = Header[s[l]]
    BY <2>2, <2>3, <2>4
  <2>6. Rearranged(h, s) /\ s \in Seq(DOMAIN Header)
    BY <1>1, <1>2, <1>3, <2>5, SelectionRearranged
  <2> QED BY <1>1, <1>2, <2>4, <2>6, OpensMoved
<1>4. CASE s # Selection
  <2>1. s = Dropped /\ job.tool = "cut"
    BY <1>1, <1>4 DEF Kept
  <2>2. Rearranged(hdr', s)
    BY <1>1, <2>1, DroppedRearranged
  <2>3. s \in Seq(DOMAIN Header)
    <3>1. Len(Header) \in Nat /\ DOMAIN Header = 1 .. Len(Header)
      BY <1>1, GivenStream DEF SeveralInputs
    <3> QED BY <2>1, <3>1, ThoseIndices DEF Dropped
  <2> QED BY <1>1, <1>2, <2>2, <2>3, OpensMoved
<1> QED BY <1>3, <1>4

\* Columns keep their table where they get another name.
LEMMA AggregatesOpen ==
    ASSUME StreamInv, pc = "open", pc' = "read", job.table # NoTable, OpenAggregate
    PROVE  Passing'
<1>1. /\ job.tool \in Functions /\ ~AggregateFails
      /\ cols' = Selection /\ hdr' = ResultHeader /\ UNCHANGED <<job, inputs, pos, out>>
  BY DEF OpenAggregate, Start, Fail, Exit, given
<1>2. ~TableMissing /\ ~ColumnMissing /\ job.tool \in Movers
  BY <1>1 DEF AggregateFails, Movers
<1>3. /\ Selection \in Seq(DOMAIN Header)
      /\ Active = Before + 1 .. Before + Len(job.columns)
      /\ \A i \in DOMAIN Chosen : Selection[Before + i] = Chosen[i]
      /\ \A j \in Active : j - Before \in DOMAIN Chosen /\ Before + (j - Before) = j
  BY <1>1, ActiveColumns
<1>4. PICK s, h : s = Selection /\ h = ResultHeader
  OBVIOUS
<1>5. Len(s) \in Nat /\ DOMAIN s = 1 .. Len(s) /\ \A l \in 1 .. Len(s) : s[l] \in DOMAIN Header
  BY <1>3, <1>4
<1>6. h = [j \in 1 .. Len(s) |-> h[j]] /\ Len(h) = Len(s)
  BY <1>4, <1>5 DEF ResultHeader
<1>7. \A i \in DOMAIN Chosen : Header[Chosen[i]].table = job.table
  BY <1>2, ChosenOwn
<1>8. /\ Len(Header) \in Nat /\ DOMAIN Header = 1 .. Len(Header)
      /\ \A c \in DOMAIN Header : Header[c] = [table |-> Header[c].table, name |-> Header[c].name, type |-> Header[c].type]
  <2>1. Len(Header) \in Nat /\ DOMAIN Header = 1 .. Len(Header)
    BY <1>1, GivenStream DEF SeveralInputs, Functions
  <2>2. 1 \in DOMAIN inputs /\ \E i \in Invocations : job \in i.jobs /\ inputs \in i.inputs
    BY GivenInputs DEF StreamInv
  <2> QED BY <2>1, <2>2, GivenInputs DEF Header
<1>9. ASSUME NEW l \in 1 .. Len(s)
      PROVE  /\ Header[s[l]].table = job.table => h[l].table = job.table
             /\ Header[s[l]].table # job.table => h[l] = Header[s[l]]
             /\ l \notin Active => h[l] = Header[s[l]]
  <2> DEFINE c == Header[s[l]]
  <2>1. h[l] = IF l \notin Active THEN c
               ELSE IF l - Before <= Len(job.newNames) THEN [c EXCEPT !.name = job.newNames[l - Before]]
               ELSE [table |-> c.table, name |-> c.name, type |-> c.type, function |-> job.tool]
    BY <1>4, <1>5 DEF ResultHeader
  <2>2. CASE l \notin Active
    BY <2>1, <2>2
  <2>3. CASE l \in Active
    <3>1. s[l] = Chosen[l - Before] /\ l - Before \in DOMAIN Chosen
      BY <1>3, <1>4, <2>3
    <3>2. c.table = job.table
      BY <1>7, <3>1
    <3>3. c = [table |-> c.table, name |-> c.name, type |-> c.type]
      BY <1>5, <1>8
    <3> HIDE DEF c
    <3>4. h[l].table = c.table
      BY <2>1, <2>3, <3>3
    <3> QED BY <2>3, <3>2, <3>4 DEF c
  <2> QED BY <2>2, <2>3
<1>10. Rearranged(h, s) /\ s[1] = TableAt
  BY <1>2, <1>4, <1>6, <1>9, SelectionRearranged
<1>11. TableIn(h) = 1
  <2>1. TableAt \in DOMAIN Header /\ Header[TableAt].table = NoTable /\ Header[TableAt].name = TableColumn
    BY <1>2, <1>8, TablePlace
  <2>2. 1 \in 1 .. Len(s)
    <3>1. \E l \in 1 .. Len(s) : s[l] = TableAt
      BY <1>10, <2>1 DEF Rearranged
    <3> QED BY <1>5, <3>1
  <2>3. 1 \notin Active
    BY <1>3 DEF Before
  <2>4. h[1].table = NoTable /\ h[1].name = TableColumn
    BY <1>9, <1>10, <2>1, <2>2, <2>3
  <2> DEFINE L == {i \in 1 .. Len(h) : h[i].table = NoTable /\ h[i].name = TableColumn}
  <2>5. 1 \in L /\ L \in SUBSET Nat
    BY <1>6, <2>2, <2>4
  <2>6. Min(L) \in L /\ \A y \in L : Min(L) <= y
    <3> HIDE DEF L
    <3>1. \E x \in L : \A y \in L : x <= y
      BY <2>5, LeastMember
    <3> QED BY <3>1 DEF Min
  <2>7. Min(L) \in Nat /\ Min(L) >= 1 /\ Min(L) <= 1
    BY <2>5, <2>6
  <2>8. TableIn(h) = IF L # {} THEN Min(L) ELSE 0
    BY DEF TableIn, Find, SelectInSeq
  <2> HIDE DEF L
  <2> QED BY <2>5, <2>7, <2>8
<1>12. s \in Seq(DOMAIN Header)
  BY <1>3, <1>4
<1> QED BY <1>1, <1>2, <1>4, <1>10, <1>11, <1>12, OpensMoved

\* The header is printed as it is.
LEMMA WholeOpens ==
    ASSUME StreamInv, pc = "open", job.table # NoTable, ~TableMissing, hdr' = Header,
           job.tool \in {"grep", "sort", "grep_rpn", "grep_sql"}, UNCHANGED <<job, inputs, pos, out>>
    PROVE  Passing'
<1>1. Len(Header) \in Nat
  BY GivenStream DEF SeveralInputs
<1>2. job.tool \in Keepers \ Movers
  BY DEF Keepers, Movers, Functions, RpnToolNames
<1> QED BY <1>1, <1>2, OpensBehind

\* ... or with new columns.
LEMMA WidenedOpens ==
    ASSUME StreamInv, pc = "open", job.table # NoTable, ~TableMissing,
           NEW x, x \in Seq(Range(x)), hdr' = Header \o x,
           job.tool \in BuilderNames \cup {"add_rpn", "add_sql"}, UNCHANGED <<job, inputs, pos, out>>
    PROVE  Passing'
<1>1. Header \in Seq(Range(Header))
  BY GivenStream DEF SeveralInputs, BuilderNames
<1>2. job.tool \in Keepers \ Movers
  BY DEF Keepers, Movers, Functions, BuilderNames, RpnToolNames
<1>3. PICK h : h = Header \o x
  OBVIOUS
<1>4. Len(h) \in Nat /\ Len(Header) <= Len(h) /\ \A i \in 1 .. Len(Header) : h[i] = Header[i]
  BY <1>1, <1>3, BehindSeq
<1> QED BY <1>2, <1>3, <1>4, OpensBehind

LEMMA NamesSeq ==
    ASSUME \E i \in Invocations : job \in i.jobs /\ inputs \in i.inputs
    PROVE  NewNames \in Seq(Range(NewNames))
<1>1. CASE job.tool = "add_split"
  BY <1>1, SplitAssumption DEF NewNames
<1>2. CASE job.tool # "add_split"
  <2>1. PICK n : n = job.name
    OBVIOUS
  <2>2. NewNames = [i \in 1 .. 1 |-> n]
    BY <1>2, <2>1 DEF NewNames
  <2> QED BY <2>2, PlacesSeq
<1> QED BY <1>1, <1>2

LEMMA BuildersOpen ==
    ASSUME StreamInv, pc = "open", pc' = "read", job.table # NoTable, OpenBuilder
    PROVE  Passing'
<1>1. /\ job.tool \in BuilderNames /\ ~TableMissing /\ UNCHANGED <<job, inputs, pos, out>>
      /\ hdr' = Header \o [i \in DOMAIN NewNames |-> NewColumn(NewNames[i], "string")]
  BY DEF OpenBuilder, BuilderFails, Start, Fail, Exit, given
<1>2. PICK x : x = [i \in DOMAIN NewNames |-> NewColumn(NewNames[i], "string")]
  OBVIOUS
<1>3. PICK n \in Nat : DOMAIN NewNames = 1 .. n
  <2>1. NewNames \in Seq(Range(NewNames))
    BY NamesSeq DEF StreamInv
  <2>2. PICK y : y = NewNames
    OBVIOUS
  <2> QED BY <2>1, <2>2
<1>4. x \in Seq(Range(x))
  <2>1. DOMAIN x = 1 .. n /\ x = [i \in 1 .. n |-> x[i]]
    BY Zenon, <1>2, <1>3
  <2> QED BY <2>1, PlacesSeq
<1> QED BY <1>1, <1>2, <1>4, WidenedOpens

\* The new columns of csv-add-sql
Additions == FlattenSeq([i \in DOMAIN job.expressions |-> AddedBy(job.expressions[i])])

LEMMA AdditionsSeq ==
    ASSUME \E i \in Invocations : job \in i.jobs /\ inputs \in i.inputs, job.tool = "add_sql"
    PROVE  \E n \in Nat : DOMAIN Additions = 1 .. n
<1>1. PICK w : w = job.expressions
  OBVIOUS
<1>2. w \in Seq(Range(w)) /\ \A e \in Range(w) : e.columns \in Seq(Range(e.columns))
  BY <1>1, SqlAssumption
<1>3. PICK n \in Nat : n = Len(w) /\ DOMAIN w = 1 .. n
  BY <1>2
<1>4. PICK seqs : seqs = [i \in 1 .. n |-> AddedBy(w[i])]
  OBVIOUS
<1>5. PICK S : S = UNION {Range(AddedBy(w[i])) : i \in 1 .. n}
  OBVIOUS
<1>6. ASSUME NEW i \in 1 .. n PROVE AddedBy(w[i]) \in Seq(S)
  <2>1. PICK c : c = w[i].columns
    OBVIOUS
  <2>2. c \in Seq(Range(c))
    <3>1. w[i] \in Range(w)
      BY <1>3 DEF Range
    <3> QED BY <1>2, <2>1, <3>1
  <2>3. PICK m \in Nat : DOMAIN c = 1 .. m
    BY <2>2
  <2>4. PICK a : a = AddedBy(w[i])
    OBVIOUS
  <2>5. DOMAIN a = 1 .. m /\ a = [k \in 1 .. m |-> a[k]]
    BY <2>1, <2>3, <2>4 DEF AddedBy
  <2>6. a \in Seq(Range(a))
    BY <2>5, PlacesSeq
  <2>7. Range(a) \subseteq S
    BY <1>5, <2>4
  <2>8. a \in Seq(S)
    BY <2>6, <2>7
  <2> QED BY <2>4, <2>8
<1>7. seqs \in Seq(Seq(S))
  <2>1. \A i \in 1 .. n : seqs[i] \in Seq(S)
    BY <1>4, <1>6
  <2>2. seqs = [i \in 1 .. n |-> seqs[i]]
    BY <1>4
  <2> QED BY <2>1, <2>2
<1>8. FlattenSeq(seqs) \in Seq(S)
  BY <1>7, FlattenType
<1>9. Additions = FlattenSeq(seqs)
  BY <1>1, <1>3, <1>4 DEF Additions
<1>10. PICK y : y = Additions
  OBVIOUS
<1>11. y \in Seq(S)
  BY <1>8, <1>9, <1>10
<1>12. Len(y) \in Nat /\ DOMAIN y = 1 .. Len(y)
  BY <1>11
<1> QED BY <1>10, <1>12

LEMMA EvaluatorsOpen ==
    ASSUME StreamInv, pc = "open", pc' = "read", job.table # NoTable, OpenRpn \/ OpenAddSql \/ OpenGrepSql
    PROVE  Passing' /\ ValuesHeld'
<1>0. <<>> \in Seq(Range(<<>>))
  OBVIOUS
<1>1. CASE OpenRpn /\ job.tool = "add_rpn"
  <2>1. PICK types \in [DOMAIN job.expressions -> AnyType \cup {c.type : c \in Range(Header)} \cup {"crash"}] :
          /\ hdr' = Header \o [i \in DOMAIN types |-> NewColumn(job.names[i], types[i])]
          /\ mem' = Evaluation(job.expressions, None) /\ UNCHANGED <<job, inputs, pos, out>> /\ ~TableMissing
    BY <1>1 DEF OpenRpn, RpnFails, Start, Fail, Exit, Die, given
  <2>2. PICK n \in Nat : DOMAIN job.expressions = 1 .. n
    <3>1. job.expressions \in Seq(Range(job.expressions))
      BY <1>1, RpnAssumption DEF RpnToolNames, StreamInv
    <3>2. PICK y : y = job.expressions
      OBVIOUS
    <3> QED BY <3>1, <3>2
  <2>3. PICK x : x = [i \in DOMAIN types |-> NewColumn(job.names[i], types[i])]
    OBVIOUS
  <2>4. DOMAIN x = 1 .. n /\ x = [i \in 1 .. n |-> x[i]]
    BY <2>1, <2>2, <2>3
  <2>5. x \in Seq(Range(x))
    BY <2>4, PlacesSeq
  <2>6. Passing'
    BY <1>1, <2>1, <2>3, <2>5, WidenedOpens
  <2>7. mem'.values = <<>> /\ job'.tool = "add_rpn"
    BY <1>1, <2>1 DEF Evaluation
  <2> QED BY <1>0, <2>6, <2>7 DEF ValuesHeld
<1>2. CASE (OpenRpn /\ job.tool # "add_rpn") \/ OpenGrepSql
  <2>0. job.tool \in {"grep_rpn", "grep_sql"} /\ ~TableMissing /\ \E w : Start(Indices, Header, Evaluation(w, None))
    <3>1. CASE OpenRpn /\ job.tool # "add_rpn"
      BY <3>1 DEF OpenRpn, RpnFails, RpnToolNames, Fail, Exit, Die
    <3>2. CASE OpenGrepSql
      <4>1. ~Fail
        BY DEF Fail, Exit
      <4>2. job.tool = "grep_sql"
        BY <3>2 DEF OpenGrepSql, Opening
      <4>3. PICK w : w = [i \in DOMAIN job.expressions |-> Parsed(job.expressions[i])]
        OBVIOUS
      <4>4. IF TableMissing \/ \E e \in Range(w) : NoSuchColumn(e) \/ ExpressionTypes(e) # {"int"} THEN Fail
            ELSE Start(Indices, Header, Evaluation(w, None))
        BY <3>2, <4>3 DEF OpenGrepSql
      <4> QED BY <4>1, <4>2, <4>4
    <3> QED BY <1>2, <3>1, <3>2
  <2>1. /\ job.tool \in {"grep_rpn", "grep_sql"} /\ hdr' = Header /\ UNCHANGED <<job, inputs, pos, out>> /\ ~TableMissing
        /\ mem'.values = <<>>
    BY <2>0 DEF Start, given, Evaluation
  <2>2. Passing'
    BY <2>1, WholeOpens
  <2> QED BY <1>0, <2>1, <2>2 DEF ValuesHeld
<1>3. CASE OpenAddSql
  <2>1. PICK y : y = Additions
    OBVIOUS
  <2>2. /\ job.tool = "add_sql" /\ UNCHANGED <<job, inputs, pos, out>> /\ ~TableMissing
        /\ hdr' = Header \o [i \in DOMAIN y |->
                      NewColumn(y[i].name, CHOOSE type \in ExpressionTypes(y[i].tokens) : TRUE)]
        /\ mem' = Evaluation(TokensOf(y), None)
    <3>1. ~Fail
      BY DEF Fail, Exit
    <3>2. PICK x : x = [i \in DOMAIN y |->
                          NewColumn(y[i].name, CHOOSE type \in ExpressionTypes(y[i].tokens) : TRUE)]
      OBVIOUS
    <3>3. IF \/ TableMissing
             \/ \E e \in Range(job.expressions) : e.all \/ Misnamed(e)
             \/ \E c \in Range(y) : Exists(c.name) \/ NoSuchColumn(c.tokens)
          THEN Fail
          ELSE Start(Indices, Header \o x, Evaluation(TokensOf(y), None))
      BY <1>3, <2>1, <3>2 DEF OpenAddSql, Additions
    <3>4. ~TableMissing /\ Start(Indices, Header \o x, Evaluation(TokensOf(y), None))
      BY <3>1, <3>3
    <3>5. job.tool = "add_sql"
      BY <1>3 DEF OpenAddSql, Opening
    <3> QED BY <3>2, <3>4, <3>5 DEF Start, given
  <2>3. PICK n \in Nat : DOMAIN y = 1 .. n
    BY <2>1, <2>2, AdditionsSeq DEF StreamInv
  <2>4. PICK x : x = [i \in DOMAIN y |-> NewColumn(y[i].name, CHOOSE type \in ExpressionTypes(y[i].tokens) : TRUE)]
    OBVIOUS
  <2>5. DOMAIN x = 1 .. n /\ x = [i \in 1 .. n |-> x[i]]
    BY <2>3, <2>4
  <2>6. x \in Seq(Range(x))
    BY <2>5, PlacesSeq
  <2>7. Passing'
    BY <2>2, <2>4, <2>6, WidenedOpens
  <2>8. PICK z : z = TokensOf(y)
    OBVIOUS
  <2>9. DOMAIN z = 1 .. n /\ z = [i \in 1 .. n |-> z[i]]
    BY <2>3, <2>8 DEF TokensOf
  <2>10. z \in Seq(Range(z))
    BY <2>9, PlacesSeq
  <2>11. mem'.values = <<>> /\ mem'.todo = z
    BY <2>2, <2>8 DEF Evaluation
  <2> QED BY <1>0, <2>7, <2>10, <2>11 DEF ValuesHeld
<1> QED BY <1>1, <1>2, <1>3

\* What a row is when it is read
Turning ==
    /\ StreamInv /\ job.tool \in Keepers /\ job.table # NoTable /\ Passing
    /\ UNCHANGED <<job, inputs, cols, hdr>> /\ pos <= Len(Rows) /\ pos' = pos + 1

LEMMA TurningRow ==
    ASSUME Turning
    PROVE  Row \in Seq(Range(Row)) /\ Len(Row) = Len(Header) /\ Len(Header) \in Nat
<1>1. /\ Rows = AllRows /\ pos \in 1 .. Len(AllRows) + 1 /\ Len(AllRows) \in Nat /\ DOMAIN AllRows = 1 .. Len(AllRows)
      /\ Len(Header) \in Nat /\ DOMAIN Header = 1 .. Len(Header)
      /\ \A k \in DOMAIN AllRows : AllRows[k] \in [DOMAIN Header -> Seq(Int)]
  BY GivenStream DEF Turning, SeveralInputs, Keepers, Movers, Functions, BuilderNames, RpnToolNames
<1>2. pos \in DOMAIN AllRows
  BY <1>1 DEF Turning
<1>3. PICK r : r = Row
  OBVIOUS
<1>4. r \in [1 .. Len(Header) -> Seq(Int)]
  BY <1>1, <1>2, <1>3 DEF Row
<1>5. r = [i \in 1 .. Len(Header) |-> r[i]]
  BY <1>4
<1> QED BY <1>1, <1>3, <1>5, PlacesSeq

\* A row is printed, with new fields behind it
LEMMA ReadsBehind ==
    ASSUME Turning, job.tool \notin Movers, NEW x, x \in Seq(Range(x)), out' = out \o <<Row \o x>>
    PROVE  Passing'
<1>1. Row \in Seq(Range(Row)) /\ Len(Row) = Len(Header) /\ Len(Header) \in Nat
  BY TurningRow
<1>2. PICK r, p : r = Row /\ p = Row \o x
  OBVIOUS
<1>3. \A i \in 1 .. Len(r) : p[i] = r[i]
  BY <1>1, <1>2, BehindSeq
<1>4. Carries(p, r, Indices)
  <2>1. Indices = [i \in 1 .. Len(Header) |-> i]
    <3>1. DOMAIN Header = 1 .. Len(Header)
      BY GivenStream DEF Turning, SeveralInputs, Keepers, Movers, Functions, BuilderNames, RpnToolNames
    <3> QED BY <3>1 DEF Indices
  <2>2. Len(Indices) = Len(Header) /\ \A i \in 1 .. Len(Header) : Indices[i] = i
    BY <1>1, <2>1
  <2> QED BY <1>1, <1>2, <1>3, <2>2 DEF Carries
<1>5. Sources = Indices
  BY DEF Sources
<1> QED BY <1>2, <1>4, <1>5, PassingReads DEF Turning

\* ... or as it is
LEMMA ReadsWhole ==
    ASSUME Turning, job.tool \notin Movers, out' = out \o <<Row>>
    PROVE  Passing'
<1>1. Row \in Seq(Range(Row))
  BY TurningRow
<1>2. Row \o <<>> = Row /\ <<>> \in Seq(Range(<<>>))
  BY <1>1, PrintedLast
<1> QED BY <1>2, ReadsBehind

\* ... or with its fields in another order
LEMMA ReadsMoved ==
    ASSUME Turning, job.tool \in Movers, out' = out \o <<Reordered(Row, cols)>>
    PROVE  Passing'
<1>1. Sources = cols /\ cols \in Seq(DOMAIN Header)
  BY DEF Sources, Turning, Passing
<1>2. PICK s, p : s = cols /\ p = Reordered(Row, s)
  OBVIOUS
<1>3. DOMAIN s = 1 .. Len(s)
  BY <1>1, <1>2
<1>4. Carries(p, Row, s)
  BY <1>2, <1>3 DEF Carries, Reordered
<1> QED BY <1>1, <1>2, <1>4, PassingReads DEF Turning

LEMMA ReadsOwn ==
    ASSUME Turning, ~OfOtherTable(Row), out' = out \o <<>>
    PROVE  Passing'
BY PassingReads DEF Turning

LEMMA FiltersRead ==
    ASSUME StreamInv, job.tool \in Keepers, job.table # NoTable, Passing,
           \/ CutRow \/ PassOn("uniq") \/ UniqRow \/ PassOnRow \/ AddRow \/ CompareRow
           \/ GrepRow \/ PassOnUnsorted \/ KeepRow
    PROVE  Passing'
<1>1. Turning
  BY DEF Turning, CutRow, PassOn, UniqRow, PassOnRow, AddRow, CompareRow, Aggregating, Aggregated,
         GrepRow, PassOnUnsorted, KeepRow, Reading, Continue, given
<1>2. CASE CutRow \/ PassOn("uniq") \/ PassOnRow
  <2>1. job.tool \in Movers /\ out' = out \o <<Reordered(Row, cols)>>
    BY <1>2 DEF CutRow, PassOn, PassOnRow, Reading, Continue, Movers
  <2> QED BY <1>1, <2>1, ReadsMoved
<1>3. CASE UniqRow
  <2>1. job.tool \in Movers /\ ~OfOtherTable(Row)
        /\ (out' = out \o <<Reordered(Row, cols)>> \/ out' = out \o <<>>)
    BY <1>3 DEF UniqRow, Reading, Continue, Movers
  <2> QED BY <1>1, <2>1, ReadsMoved, ReadsOwn
<1>4. CASE AddRow \/ CompareRow \/ KeepRow
  <2>1. ~OfOtherTable(Row) /\ out' = out \o <<>>
    BY <1>4 DEF AddRow, CompareRow, KeepRow, Aggregating, Aggregated, Continue
  <2> QED BY <1>1, <2>1, ReadsOwn
<1>5. CASE GrepRow \/ PassOnUnsorted
  <2>1. /\ job.tool \notin Movers
        /\ out' = out \o <<Row>> \/ (out' = out \o <<>> /\ ~OfOtherTable(Row))
    BY <1>5 DEF GrepRow, PassOnUnsorted, Reading, Continue, Movers, Functions
  <2> QED BY <1>1, <2>1, ReadsWhole, ReadsOwn
<1> QED BY Zenon, <1>2, <1>3, <1>4, <1>5

LEMMA BuildersRead ==
    ASSUME StreamInv, job.tool \in Keepers, job.table # NoTable, Passing, pc' = "read",
           PassOnBuilder \/ AddConcat \/ AddRev \/ AddSubstring \/ AddReplace \/ AddReplaceRegex \/ AddSplit
    PROVE  Passing'
<1>1. ~Fail /\ \A how \in {"hung"} : ~Die(how)
  BY DEF Fail, Exit, Die
<1>2. ASSUME NEW v PROVE <<v>> \in Seq(Range(<<v>>))
  <2>1. <<v>> = [i \in 1 .. 1 |-> <<v>>[i]]
    OBVIOUS
  <2> QED BY <2>1, PlacesSeq
<1>3. ASSUME NEW v, NEW w PROVE <<v, w>> \in Seq(Range(<<v, w>>))
  <2>1. <<v, w>> \in Seq({v, w})
    OBVIOUS
  <2>2. Range(<<v, w>>) = {v, w}
    <3>1. DOMAIN <<v, w>> = {1, 2} /\ <<v, w>>[1] = v /\ <<v, w>>[2] = w
      OBVIOUS
    <3> QED BY <3>1 DEF Range
  <2> QED BY <2>1, <2>2
<1>4. /\ job.tool \in BuilderNames /\ pos <= Len(Rows) /\ \E x : x \in Seq(Range(x)) /\ Build(x)
  <2>1. CASE PassOnBuilder
    <3>1. PICK n \in Nat : DOMAIN NewNames = 1 .. n
      <4>1. NewNames \in Seq(Range(NewNames))
        BY NamesSeq DEF StreamInv
      <4>2. PICK y : y = NewNames
        OBVIOUS
      <4> QED BY <4>1, <4>2
    <3>2. PICK x : x = [i \in DOMAIN NewNames |-> Empty]
      OBVIOUS
    <3>3. DOMAIN x = 1 .. n /\ x = [i \in 1 .. n |-> x[i]]
      BY <3>1, <3>2
    <3>4. x \in Seq(Range(x))
      BY <3>3, PlacesSeq
    <3> QED BY <2>1, <3>2, <3>4 DEF PassOnBuilder, Reading
  <2>2. CASE AddConcat
    <3>1. \E v : Build(<<v>>)
      BY <2>2 DEF AddConcat
    <3> QED BY <1>2, <2>2, <3>1 DEF AddConcat, Building, Reading, BuilderNames
  <2>3. CASE AddRev \/ AddSubstring
    <3>1. \E v : Build(<<v>>)
      BY <2>3 DEF AddRev, AddSubstring
    <3> QED BY <1>2, <2>3, <3>1 DEF AddRev, AddSubstring, Building, Reading, BuilderNames
  <2>4. CASE AddReplace
    <3>1. \E v : Build(<<v>>)
      BY <1>1, <2>4 DEF AddReplace
    <3> QED BY <1>2, <2>4, <3>1 DEF AddReplace, Building, Reading, BuilderNames
  <2>5. CASE AddReplaceRegex
    <3>1. \E v : Build(<<v>>)
      BY <1>1, <2>5 DEF AddReplaceRegex
    <3> QED BY <1>2, <2>5, <3>1 DEF AddReplaceRegex, Building, Reading, BuilderNames
  <2>6. CASE AddSplit
    <3>1. \E v, w : Build(<<v, w>>)
      BY <2>6 DEF AddSplit
    <3> QED BY <1>3, <2>6, <3>1 DEF AddSplit, Building, Reading, BuilderNames
  <2> QED BY <2>1, <2>2, <2>3, <2>4, <2>5, <2>6
<1>5. PICK x : x \in Seq(Range(x)) /\ Build(x)
  BY <1>4
<1>6. Turning /\ out' = out \o <<Row \o x>>
  BY <1>4, <1>5 DEF Turning, Build, Continue, given
<1>7. job.tool \notin Movers
  BY <1>4 DEF BuilderNames, Movers, Functions
<1> QED BY <1>5, <1>6, <1>7, ReadsBehind

\* Nothing is printed.
LEMMA PassingStays ==
    ASSUME Passing, UNCHANGED <<job, inputs, cols, hdr, pos, out>>
    PROVE  Passing'
<1>1. out \in Seq(Range(out))
  BY DEF Passing
<1>2. out' = out \o <<>>
  BY <1>1, PrintedLast
<1>3. <<>> \in Seq({}) /\ DOMAIN <<>> = {}
  OBVIOUS
<1> QED BY <1>2, <1>3, PassingEnds

\* A memory with the same expressions and the same values
Shaped(m) ==
    m = [field \in {"todo", "exp", "at", "stack", "values", "query", "kept", "lines",
                    "cache", "seqs", "counts"} |-> m[field]]
KeptMemory(m) == Shaped(m) /\ m.todo = mem.todo /\ m.values = mem.values

LEMMA ExceptKeptMemory ==
    ASSUME NEW m, KeptMemory(m), NEW a, NEW b
    PROVE  /\ KeptMemory([m EXCEPT !.stack = a, !.at = b])
           /\ KeptMemory([m EXCEPT !.cache = a])
           /\ KeptMemory([m EXCEPT !.seqs = a, !.counts = b])
<1>1. KeptMemory([m EXCEPT !.stack = a, !.at = b])
  BY DEF KeptMemory, Shaped
<1>2. KeptMemory([m EXCEPT !.cache = a])
  BY DEF KeptMemory, Shaped
<1>3. KeptMemory([m EXCEPT !.seqs = a, !.counts = b])
  BY DEF KeptMemory, Shaped
<1> QED BY <1>1, <1>2, <1>3

LEMMA EvaluateKeeps ==
    ASSUME KeptMemory(mem), Evaluate, pc' = "read"
    PROVE  UNCHANGED <<job, inputs, cols, hdr, pos, out>> /\ KeptMemory(mem')
<1>1. ASSUME NEW m, KeptMemory(m), Step(m)
      PROVE  UNCHANGED <<job, inputs, cols, hdr, pos, out>> /\ KeptMemory(mem')
  BY <1>1 DEF Step, given, KeptMemory
<1>2. ~Fail /\ \A how \in {"crashed", "aborted", "hung"} : ~Die(how)
  BY Zenon DEF Fail, Exit, Die
<1>3. ASSUME NEW stack, NEW v, Step(Push(stack, v)) PROVE \E m : KeptMemory(m) /\ Step(m)
  BY <1>3, ExceptKeptMemory DEF Push
<1>4. ASSUME NEW result, NEW m, KeptMemory(m), Take(result, m) PROVE \E w : KeptMemory(w) /\ Step(w)
  <2>1. Step([m EXCEPT !.stack = Append(Beneath, result), !.at = m.at + 1])
    BY <1>2, <1>4 DEF Take
  <2> QED BY <1>4, <2>1, ExceptKeptMemory
<1>5. CASE PushConstant
  <2>1. \E stack, v : Step(Push(stack, v))
    BY <1>5 DEF PushConstant
  <2> QED BY <1>1, <1>3, <2>1
<1>6. CASE PushColumn
  <2>1. \E stack, v : Step(Push(stack, v))
    BY <1>2, <1>6 DEF PushColumn
  <2> QED BY <1>1, <1>3, <2>1
<1>7. CASE Operate
  <2>1. \E result : Take(result, mem)
    BY Zenon, <1>7 DEF Operate
  <2> QED BY <1>1, <1>4, <2>1
<1>8. CASE OperateRegex
  <2>1. \E result, c : Take(result, [mem EXCEPT !.cache = c])
    BY <1>8 DEF OperateRegex
  <2> QED BY <1>1, <1>4, <2>1, ExceptKeptMemory
<1>9. CASE OperateNext
  <2>1. \E result, a, b : Take(result, [mem EXCEPT !.seqs = a, !.counts = b])
    <3> DEFINE name == Operands[1].value
               known == Place(job.hash, mem.seqs, name) # 0
               cell == IF known THEN CellOf(job.hash, mem.seqs, name) ELSE Len(mem.counts) + 1
               n == IF known THEN mem.counts[cell] + 1 ELSE 1
               a == IF known THEN mem.seqs ELSE Added(job.hash, mem.seqs, name, cell)
               b == IF known THEN [mem.counts EXCEPT ![cell] = n] ELSE Append(mem.counts, n)
    <3>1. Take(Llong(n), [mem EXCEPT !.seqs = a, !.counts = b])
      BY <1>9 DEF OperateNext
    <3> HIDE DEF a, b, n
    <3> QED BY <3>1
  <2> QED BY <1>1, <1>4, <2>1, ExceptKeptMemory
<1>10. CASE Refuse \/ LeftOver
  BY <1>2, <1>10 DEF Refuse, LeftOver
<1> QED BY <1>5, <1>6, <1>7, <1>8, <1>9, <1>10 DEF Evaluate

LEMMA EvaluatorsRead ==
    ASSUME StreamInv, job.tool \in Keepers, job.tool \in Evaluators, job.table # NoTable, Passing, ValuesHeld,
           pc = "read", pc' = "read",
           \/ Evaluate \/ PassOnRpn \/ PassOnSql
           \/ PrintValue("add_rpn") \/ Decide("grep_rpn") \/ PrintValue("add_sql") \/ Decide("grep_sql")
    PROVE  Passing' /\ ValuesHeld'
<1>1. /\ job.tool \in {"add_rpn", "grep_rpn", "add_sql", "grep_sql"} /\ job.tool \notin Movers
      /\ mem.lines = <<>> /\ Held(mem)
  <2>1. job.tool # "sql"
    BY DEF Keepers, Movers, Functions, BuilderNames, RpnToolNames
  <2>2. job.tool \in {"add_rpn", "grep_rpn", "add_sql", "grep_sql"} /\ job.tool \notin Movers
    BY <2>1 DEF Evaluators, RpnToolNames, SqlToolNames, Movers, Functions
  <2>3. Held(mem)
    BY DEF StreamInv, CacheInv
  <2> QED BY <2>1, <2>2, <2>3 DEF Held
<1>2. KeptMemory(mem)
  BY <1>1 DEF Held, KeptMemory, Shaped
<1>3. ASSUME job' = job, mem'.todo = mem.todo, mem'.values = mem.values \/ mem'.values \in Seq(Range(mem'.values))
      PROVE  ValuesHeld'
  BY <1>3 DEF ValuesHeld, Evaluators, RpnToolNames, SqlToolNames
<1>4. <<>> \in Seq(Range(<<>>))
  OBVIOUS
<1>5. Fresh(mem).todo = mem.todo /\ Fresh(mem).values = <<>>
  BY <1>2 DEF Fresh, KeptMemory, Shaped
<1>6. ASSUME NEW values, values \in Seq(Range(values)), NextExpression(values) PROVE Passing' /\ ValuesHeld'
  <2>1. /\ UNCHANGED <<job, inputs, cols, hdr, pos, out>>
        /\ mem' = [mem EXCEPT !.exp = mem.exp + 1, !.at = 1, !.stack = <<>>, !.values = values]
    BY <1>6 DEF NextExpression, Step, given
  <2>2. mem'.todo = mem.todo /\ mem'.values = values
    BY <1>2, <2>1 DEF KeptMemory, Shaped
  <2> QED BY <1>3, <1>6, <2>1, <2>2, PassingStays
<1>7. ASSUME NEW rows, pos <= Len(Rows), RowDone(rows) \/ Continue(rows, mem)
      PROVE  Turning /\ out' = out \o rows /\ ValuesHeld'
  <2>1. /\ UNCHANGED <<job, inputs, cols, hdr>> /\ pos' = pos + 1 /\ out' = out \o rows
        /\ mem' = Fresh(mem) \/ mem' = mem
    BY <1>7 DEF RowDone, Continue, given
  <2>2. mem'.todo = mem.todo /\ (mem'.values = mem.values \/ mem'.values = <<>>)
    BY <1>5, <2>1
  <2> QED BY <1>3, <1>4, <1>7, <2>1, <2>2 DEF Turning
<1>8. CASE Evaluate
  <2>1. UNCHANGED <<job, inputs, cols, hdr, pos, out>> /\ KeptMemory(mem')
    BY <1>2, <1>8, EvaluateKeeps
  <2> QED BY <1>3, <2>1, PassingStays DEF KeptMemory
<1>9. ASSUME NEW tool, PrintValue(tool) \/ Decide(tool) PROVE pos <= Len(Rows) /\ ~OfOtherTable(Row)
  <2>1. Evaluating
    BY <1>9 DEF PrintValue, Decide, AtValue, AtEndOfExpression
  <2> QED BY <1>1, <2>1 DEF Evaluating, Reading
<1>10. CASE PrintValue("add_rpn") \/ PrintValue("add_sql")
  <2>1. PICK values : values = Append(mem.values, TextOf(Value1))
    OBVIOUS
  <2>2. values \in Seq(Range(values))
    <3>1. mem.values \in Seq(Range(mem.values))
      BY <1>1 DEF ValuesHeld, Evaluators, RpnToolNames, SqlToolNames
    <3>2. PICK w, e : w = mem.values /\ e = TextOf(Value1)
      OBVIOUS
    <3>3. w \in Seq(Range(w)) /\ values = Append(w, e)
      BY <2>1, <3>1, <3>2
    <3>4. w \o <<e>> = Append(w, e)
      BY <3>3, OneMore
    <3>5. w \o <<e>> \in Seq(Range(w \o <<e>>))
      BY <3>3, PrintedLast
    <3> QED BY <3>3, <3>4, <3>5
  <2>3. RowDone(<<Row \o values>>) \/ NextExpression(values)
    BY <1>10, <2>1 DEF PrintValue
  <2>4. CASE NextExpression(values)
    BY <1>6, <2>2, <2>4
  <2>5. CASE RowDone(<<Row \o values>>)
    <3>1. pos <= Len(Rows)
      BY <1>9, <1>10
    <3>2. Turning /\ out' = out \o <<Row \o values>> /\ ValuesHeld'
      BY <1>7, <2>5, <3>1
    <3> QED BY <1>1, <2>2, <3>2, ReadsBehind
  <2> QED BY <2>3, <2>4, <2>5
<1>11. CASE Decide("grep_rpn") \/ Decide("grep_sql")
  <2>1. RowDone(<<Row>>) \/ RowDone(<<>>) \/ NextExpression(<<>>)
    BY <1>11 DEF Decide, Die
  <2>2. pos <= Len(Rows) /\ ~OfOtherTable(Row)
    BY <1>9, <1>11
  <2>3. CASE NextExpression(<<>>)
    BY <1>4, <1>6, <2>3
  <2>4. CASE RowDone(<<Row>>)
    <3>1. Turning /\ out' = out \o <<Row>> /\ ValuesHeld'
      BY <1>7, <2>2, <2>4
    <3> QED BY <1>1, <3>1, ReadsWhole
  <2>5. CASE RowDone(<<>>)
    <3>1. Turning /\ out' = out \o <<>> /\ ValuesHeld'
      BY <1>7, <2>2, <2>5
    <3> QED BY <2>2, <3>1, ReadsOwn
  <2> QED BY <2>1, <2>3, <2>4, <2>5
<1>12. CASE PassOnRpn \/ PassOnSql
  <2>1. /\ pos <= Len(Rows)
        /\ \/ Continue(<<Row>>, mem)
           \/ Continue(<<Append(Row, Empty)>>, mem)
           \/ job.tool = "add_sql" /\ Continue(<<Row \o [i \in DOMAIN mem.todo |-> Empty]>>, mem)
    BY <1>1, <1>12 DEF PassOnRpn, PassOnSql, Reading, Expressions
  <2>2. CASE Continue(<<Row>>, mem)
    <3>1. Turning /\ out' = out \o <<Row>> /\ ValuesHeld'
      BY <1>7, <2>1, <2>2
    <3> QED BY <1>1, <3>1, ReadsWhole
  <2>3. CASE Continue(<<Append(Row, Empty)>>, mem)
    <3>1. Turning /\ out' = out \o <<Append(Row, Empty)>> /\ ValuesHeld'
      BY <1>7, <2>1, <2>3
    <3>2. <<Empty>> \in Seq(Range(<<Empty>>)) /\ Row \o <<Empty>> = Append(Row, Empty)
      <4>1. PICK r, e : r = Row /\ e = Empty
        OBVIOUS
      <4>2. r \in Seq(Range(r) \cup {e}) /\ e \in Range(r) \cup {e}
        <5>1. r \in Seq(Range(r))
          BY <3>1, <4>1, TurningRow
        <5> QED BY <5>1
      <4>3. r \o <<e>> = Append(r, e)
        BY <4>2, OneMore
      <4>4. <<e>> = [i \in 1 .. 1 |-> <<e>>[i]]
        OBVIOUS
      <4>5. <<e>> \in Seq(Range(<<e>>))
        BY <4>4, PlacesSeq
      <4> QED BY <4>1, <4>3, <4>5
    <3>3. out' = out \o <<Row \o <<Empty>>>>
      BY <3>1, <3>2
    <3> QED BY <1>1, <3>1, <3>2, <3>3, ReadsBehind
  <2>4. CASE job.tool = "add_sql" /\ Continue(<<Row \o [i \in DOMAIN mem.todo |-> Empty]>>, mem)
    <3>1. PICK w, x : w = mem.todo /\ x = [i \in DOMAIN w |-> Empty]
      OBVIOUS
    <3>2. w \in Seq(Range(w))
      BY <2>4, <3>1 DEF ValuesHeld
    <3>3. PICK n \in Nat : DOMAIN w = 1 .. n
      BY <3>2
    <3>4. DOMAIN x = 1 .. n /\ x = [i \in 1 .. n |-> x[i]]
      BY <3>1, <3>3
    <3>5. x \in Seq(Range(x))
      BY <3>4, PlacesSeq
    <3>6. Continue(<<Row \o x>>, mem)
      BY <2>4, <3>1
    <3>7. Turning /\ out' = out \o <<Row \o x>> /\ ValuesHeld'
      BY <1>7, <2>1, <3>6
    <3> QED BY <1>1, <3>5, <3>7, ReadsBehind
  <2> QED BY <2>1, <2>2, <2>3, <2>4
<1> QED BY <1>8, <1>10, <1>11, <1>12

\* The row with the results is one of the table.
LEMMA AggregateEnds ==
    ASSUME StreamInv, job.table # NoTable, Passing, EndAggregate
    PROVE  Passing'
<1>1. job.tool \in Functions /\ out' = out \o <<ResultRow>> /\ UNCHANGED <<job, inputs, cols, hdr, pos>>
  BY DEF EndAggregate, Exit, given
<1>2. TableIn(hdr) = 1
  BY <1>1 DEF Passing
<1>3. 1 \in DOMAIN cols
  <2>1. cols \in Seq(DOMAIN Header) /\ 1 \in 1 .. Len(cols)
    BY <1>1, <1>2 DEF Passing, Sources, Movers, Carried
  <2> QED BY <2>1
<1>4. 1 \notin Active /\ 1 <= Before
  <2>1. Len(job.columns) \in Nat
    BY <1>1, GivenColumns DEF StreamInv
  <2> QED BY <2>1 DEF Active, Before
<1>5. ResultRow[1] = <<job.table>>
  BY <1>3, <1>4 DEF ResultRow
<1>6. PICK p : p = ResultRow
  OBVIOUS
<1>7. <<p>> \in Seq({p}) /\ \A k \in DOMAIN <<p>> : <<p>>[k][1] = <<job.table>>
  BY <1>5, <1>6
<1> QED BY <1>1, <1>2, <1>6, <1>7, PassingEnds

LEMMA SortEndsPassing ==
    ASSUME StreamInv, job.table # NoTable, Gathering, Passing, EndSort
    PROVE  Passing'
<1>1. PICK z : z = mem.lines
  OBVIOUS
<1>2. z \in Seq(Range(AllRows)) /\ \A k \in DOMAIN z : ~OfOtherTable(z[k])
  BY <1>1 DEF Gathering
<1>3. PICK n \in Nat : n = Len(z) /\ DOMAIN z = 1 .. n
  BY <1>2
<1>4. PICK s \in Sorted(z) : /\ out' = out \o (IF job.reverse THEN Reverse(s) ELSE s)
                             /\ UNCHANGED <<job, inputs, cols, hdr, pos>> /\ job.tool = "sort"
  BY <1>1 DEF EndSort, AtEnd, Exit, given
<1>5. PICK p \in Bijection(DOMAIN z, DOMAIN z) : s = [i \in DOMAIN z |-> z[p[i]]]
  BY <1>4 DEF Sorted
<1>6. p \in [1 .. n -> 1 .. n]
  BY <1>3, <1>5 DEF Bijection, Injection
<1>7. ASSUME NEW i \in 1 .. n PROVE s[i] \in Range(AllRows) /\ ~OfOtherTable(s[i])
  <2>1. s[i] = z[p[i]] /\ p[i] \in 1 .. n
    BY <1>3, <1>5, <1>6
  <2> QED BY <1>2, <1>3, <2>1
<1>8. PICK y : y = IF job.reverse THEN Reverse(s) ELSE s
  OBVIOUS
<1>9. s = [i \in 1 .. n |-> s[i]] /\ Len(s) = n
  BY <1>3, <1>5
<1>10. y = [i \in 1 .. n |-> IF job.reverse THEN s[(n - i) + 1] ELSE s[i]]
  BY <1>8, <1>9 DEF Reverse
<1>11. ASSUME NEW i \in 1 .. n PROVE y[i] \in Range(AllRows) /\ ~OfOtherTable(y[i])
  <2>1. (n - i) + 1 \in 1 .. n
    OBVIOUS
  <2> QED BY <1>7, <1>10, <2>1
<1>12. y \in Seq(Range(AllRows)) /\ DOMAIN y = 1 .. n
  BY <1>10, <1>11
<1>13. TableIn(hdr) = TableAt
  <2>1. Sources = Indices
    BY <1>4 DEF Sources, Movers, Functions
  <2>2. Indices = [i \in 1 .. Len(Header) |-> i] /\ Len(Header) \in Nat
    BY <1>4, GivenStream DEF Indices, SeveralInputs
  <2>3. TableIn(hdr) \in 1 .. Len(Indices) /\ Indices[TableIn(hdr)] = TableAt
    BY <2>1 DEF Passing, Carried
  <2> QED BY <2>2, <2>3
<1>14. \A k \in DOMAIN y : y[k][TableIn(hdr)] = <<job.table>>
  BY <1>11, <1>12, <1>13 DEF OfOtherTable
<1> QED BY <1>4, <1>8, <1>12, <1>14, PassingEnds

LEMMA EndsWith ==
    ASSUME Passing, Exit(0, <<>>)
    PROVE  Passing'
<1>1. out \in Seq(Range(out))
  BY DEF Passing
<1>2. out' = out /\ UNCHANGED <<job, inputs, cols, hdr, pos>>
  BY <1>1, PrintedLast DEF Exit, given
<1> QED BY <1>2, PassingStays

\* The steps of these tools
KeeperOpens ==
    \/ OpenCut \/ OpenUniq \/ OpenGrep \/ OpenSort \/ OpenAggregate
    \/ OpenBuilder \/ OpenRpn \/ OpenAddSql \/ OpenGrepSql \/ Die("crashed")
KeeperFilters ==
    \/ CutRow \/ PassOn("uniq") \/ UniqRow \/ PassOnRow \/ AddRow \/ CompareRow
    \/ GrepRow \/ PassOnUnsorted \/ KeepRow
KeeperBuilds == PassOnBuilder \/ AddConcat \/ AddRev \/ AddSubstring \/ AddReplace \/ AddReplaceRegex \/ AddSplit
KeeperEvaluates ==
    \/ Evaluate \/ PassOnRpn \/ PassOnSql
    \/ PrintValue("add_rpn") \/ Decide("grep_rpn") \/ PrintValue("add_sql") \/ Decide("grep_sql")
KeeperEnds == Exit(0, <<>>) \/ EndSort \/ EndAggregate \/ Fail \/ Die("crashed")

LEMMA KeeperSteps ==
    ASSUME Next, job.tool \in Keepers
    PROVE  \/ Ended
           \/ pc = "open" /\ KeeperOpens
           \/ pc = "read" /\ (KeeperFilters \/ KeeperBuilds)
           \/ pc = "read" /\ job.tool \in Evaluators /\ KeeperEvaluates
           \/ pc = "read" /\ KeeperEnds
<1>1. CASE NextFilter
  <2>1. job.tool \in {"cut", "uniq", "grep"}
    BY <1>1, ToolSteps, FilterSteps DEF Keepers, Movers, Functions, BuilderNames, RpnToolNames
  <2>2. OpenCut \/ CutRow \/ EndCut \/ OpenUniq \/ PassOn("uniq") \/ UniqRow \/ EndUniq \/ OverrunUniq \/ OpenGrep \/ GrepRow \/ EndGrep
    BY <1>1, <2>1, FilterSteps
  <2> QED BY <2>2 DEF OpenCut, CutRow, EndCut, OpenUniq, PassOn, UniqRow, EndUniq, OverrunUniq, OpenGrep, GrepRow, EndGrep,
                      Opening, Reading, AtEnd, KeeperOpens, KeeperFilters, KeeperEnds
<1>2. CASE NextAggregate
  BY <1>2 DEF NextAggregate, OpenAggregate, AddRow, CompareRow, Aggregating, PassOnRow, PassOn, BadRow, EndAggregate,
              Crash, OverrunAggregate, Reading, AtEnd, KeeperOpens, KeeperFilters, KeeperEnds
<1>3. CASE NextSort
  BY <1>3 DEF NextSort, OpenSort, PassOnUnsorted, KeepRow, EndSort, SortFails, Opening, Reading, AtEnd,
              KeeperOpens, KeeperFilters, KeeperEnds
<1>4. CASE NextColumns
  <2>1. job.tool # "header"
    BY DEF Keepers, Movers, Functions, BuilderNames, RpnToolNames
  <2>2. NextBuilder
    BY <1>4, <2>1 DEF NextColumns, NextHeader, OpenHeader, CopyRow, GuessRow, EndHeader, PrintGuessed,
                      Opening, Reading, AtEnd
  <2> QED BY <2>2 DEF NextBuilder, OpenBuilder, PassOnBuilder, EndBuilder, AddConcat, AddRev, AddSubstring,
                      AddReplace, AddReplaceRegex, AddSplit, Building, Reading, AtEnd,
                      KeeperOpens, KeeperBuilds, KeeperEnds
<1>5. ASSUME Evaluating PROVE pc = "read" /\ job.tool \in Evaluators
  BY <1>5 DEF Evaluating, Reading, AtEnd
<1>6. CASE Evaluate
  <2>1. Evaluating
    BY <1>6 DEF Evaluate, Refuse, LeftOver, PushConstant, PushColumn, Operate, OperateRegex, OperateNext, AtToken,
                AtEndOfExpression
  <2> QED BY <1>5, <1>6, <2>1 DEF KeeperEvaluates
<1>7. ASSUME NEW tool, PrintValue(tool) \/ Decide(tool) PROVE pc = "read" /\ job.tool \in Evaluators
  BY <1>5, <1>7 DEF PrintValue, Decide, AtValue, AtEndOfExpression
<1>8. CASE NextRpn
  <2>1. CASE OpenRpn
    BY <2>1 DEF OpenRpn, KeeperOpens
  <2>2. CASE PassOnRpn
    BY <2>2 DEF PassOnRpn, Reading, KeeperEvaluates, Evaluators
  <2>3. CASE PrintValue("add_rpn") \/ Decide("grep_rpn")
    BY <1>7, <2>3 DEF KeeperEvaluates
  <2>4. CASE EndRpn
    BY <2>4 DEF EndRpn, AtEnd, KeeperEnds
  <2> QED BY <1>8, <2>1, <2>2, <2>3, <2>4 DEF NextRpn
<1>9. CASE NextSql
  <2>1. job.tool # "sql"
    BY Zenon DEF Keepers, Movers, Functions, BuilderNames, RpnToolNames
  <2>2. ~(OpenSql \/ WhereSql \/ KeepSql \/ SelectSql \/ SortSql \/ EndSql)
    BY <2>1 DEF OpenSql, WhereSql, KeepSql, SelectSql, SortSql, EndSql, AtValue, Opening, AtEnd
  <2>3. CASE OpenAddSql \/ OpenGrepSql
    BY <2>3 DEF OpenAddSql, OpenGrepSql, Opening, KeeperOpens
  <2>4. CASE PassOnSql
    BY <2>4 DEF PassOnSql, Reading, KeeperEvaluates, Evaluators, SqlToolNames
  <2>5. CASE PrintValue("add_sql") \/ Decide("grep_sql")
    BY <1>7, <2>5 DEF KeeperEvaluates
  <2>6. CASE EndAddSql
    BY Zenon, <2>6 DEF EndAddSql, AtEnd, KeeperEnds
  <2> QED BY <1>9, <2>2, <2>3, <2>4, <2>5, <2>6 DEF NextSql
<1>10. ~(NextMerge \/ NextTree \/ NextSqlite)
  <2>1. job.tool \notin {"merge", "tree", "sqlite"}
    BY DEF Keepers, Movers, Functions, BuilderNames, RpnToolNames
  <2> QED BY Zenon, <2>1 DEF NextMerge, OpenMerge, MergeRow, EndMerge, NextTree, OpenTree, ReadTreeRow, LinkRows, PassBy,
                      PrintTree, EndTree, Walking, NextSqlite, OpenSqlite, NextFile, InsertRow, NameMissing,
                      QuerySqlite, Opening, Reading, AtEnd
<1> QED BY <1>1, <1>2, <1>3, <1>4, <1>6, <1>8, <1>9, <1>10 DEF Next

LEMMA KeepersOpen ==
    ASSUME StreamInv, pc = "open", pc' = "read", job.tool \in Keepers, job.table # NoTable, KeeperOpens
    PROVE  Passing' /\ ValuesHeld'
<1>1. job' = job
  BY Zenon DEF KeeperOpens, OpenCut, OpenUniq, OpenGrep, OpenSort, OpenAggregate, OpenBuilder, OpenRpn, OpenAddSql,
         OpenGrepSql, Start, Exit, Fail, Die, given
<1>2. ASSUME job.tool \notin Evaluators PROVE ValuesHeld'
  BY <1>1, <1>2 DEF ValuesHeld, Evaluators, SqlToolNames, RpnToolNames
<1>3. CASE OpenCut \/ OpenUniq
  <2>1. job.tool \notin Evaluators
    BY <1>3 DEF OpenCut, OpenUniq, Opening, Evaluators, SqlToolNames, RpnToolNames
  <2> QED BY <1>2, <1>3, <2>1, FiltersOpen
<1>4. CASE OpenGrep \/ OpenSort
  <2>1. /\ job.tool \in {"grep", "sort"} /\ hdr' = Header /\ ~TableMissing
        /\ UNCHANGED <<job, inputs, pos, out>>
    BY <1>4 DEF OpenGrep, OpenSort, Opening, Start, Fail, Exit, given
  <2>2. job.tool \notin Evaluators
    BY <2>1 DEF Evaluators, SqlToolNames, RpnToolNames
  <2> QED BY <1>2, <2>1, <2>2, WholeOpens
<1>5. CASE OpenAggregate
  <2>1. job.tool \notin Evaluators
    BY <1>5 DEF OpenAggregate, Functions, Evaluators, SqlToolNames, RpnToolNames
  <2> QED BY <1>2, <1>5, <2>1, AggregatesOpen
<1>6. CASE OpenBuilder
  <2>1. job.tool \notin Evaluators
    BY <1>6 DEF OpenBuilder, BuilderNames, Evaluators, SqlToolNames, RpnToolNames
  <2> QED BY <1>2, <1>6, <2>1, BuildersOpen
<1>7. CASE OpenRpn \/ OpenAddSql \/ OpenGrepSql
  BY <1>7, EvaluatorsOpen
<1>8. ~Die("crashed")
  BY DEF Die
<1> QED BY <1>3, <1>4, <1>5, <1>6, <1>7, <1>8 DEF KeeperOpens

LEMMA KeepStep ==
    ASSUME KeepInv, [Next]_vars
    PROVE  KeepInv'
<1>0. SortInv' /\ StreamInv
  BY SortStep DEF KeepInv, SortInv
<1>1. UNCHANGED <<job, inputs>>
  BY GivenKept DEF vars, given
<1>2. SUFFICES ASSUME job.tool \in Keepers, job.table # NoTable
               PROVE  /\ pc' = "read" => ValuesHeld'
                      /\ pc' = "read" \/ (Printed' /\ hdr' # <<>>) => Passing'
  <2>1. (job.tool \in Keepers)' <=> job.tool \in Keepers
    BY <1>1 DEF Keepers, Movers, Functions, BuilderNames, RpnToolNames
  <2> QED BY <1>0, <1>1, <2>1 DEF KeepInv
<1>3. CASE UNCHANGED vars
  <2>1. UNCHANGED <<job, inputs, cols, hdr, pos, out, pc, status, mem>>
    BY <1>3 DEF vars, given
  <2>2. ValuesHeld' <=> ValuesHeld
    BY <2>1 DEF ValuesHeld, Evaluators, SqlToolNames, RpnToolNames
  <2>3. (Printed' <=> Printed) /\ hdr' = hdr /\ pc' = pc
    BY <2>1 DEF Printed
  <2> QED BY <1>2, <2>1, <2>2, <2>3, PassingStays DEF KeepInv
<1>4. CASE Ended
  BY <1>3, <1>4 DEF Ended
<1>5. CASE pc = "open" /\ KeeperOpens
  <2>1. CASE pc' = "read"
    BY <1>0, <1>2, <1>5, <2>1, KeepersOpen
  <2>2. CASE pc' # "read"
    <3>1. hdr' = hdr
      BY Zenon, <1>5, <2>2 DEF KeeperOpens, OpenCut, OpenUniq, OpenGrep, OpenSort, OpenAggregate, OpenBuilder, OpenRpn, OpenAddSql,
                        OpenGrepSql, Start, Exit, Fail, Die
    <3>2. hdr = <<>>
      BY <1>0, <1>5 DEF StreamInv
    <3> QED BY Zenon, <2>2, <3>1, <3>2
  <2> QED BY <2>1, <2>2
<1>6. CASE pc = "read" /\ KeeperFilters
  <2>1. Passing
    BY <1>2, <1>6 DEF KeepInv
  <2>2. Passing'
    BY <1>0, <1>2, <1>6, <2>1, FiltersRead DEF KeeperFilters
  <2>3. job.tool \notin Evaluators
    BY <1>6 DEF KeeperFilters, CutRow, PassOn, UniqRow, PassOnRow, AddRow, CompareRow, Aggregating, Functions,
                GrepRow, PassOnUnsorted, KeepRow, Reading, Evaluators, SqlToolNames, RpnToolNames
  <2>4. ValuesHeld'
    BY <1>1, <2>3 DEF ValuesHeld, Evaluators, SqlToolNames, RpnToolNames
  <2> QED BY <2>2, <2>4
<1>7. CASE pc = "read" /\ KeeperBuilds
  <2>1. Passing
    BY <1>2, <1>7 DEF KeepInv
  <2>2. job.tool \notin Evaluators
    BY <1>7 DEF KeeperBuilds, PassOnBuilder, AddConcat, AddRev, AddSubstring, AddReplace, AddReplaceRegex, AddSplit,
                Building, Reading, BuilderNames, Evaluators, SqlToolNames, RpnToolNames
  <2>3. ValuesHeld'
    BY <1>1, <2>2 DEF ValuesHeld, Evaluators, SqlToolNames, RpnToolNames
  <2>4. CASE pc' = "read"
    BY <1>0, <1>2, <1>7, <2>1, <2>3, <2>4, BuildersRead DEF KeeperBuilds
  <2>5. CASE pc' # "read"
    <3>1. \A x : ~Build(x)
      BY <1>7, <2>5 DEF Build, Continue
    <3>2. Fail \/ Die("hung")
      BY <1>7, <3>1 DEF KeeperBuilds, PassOnBuilder, AddConcat, AddRev, AddSubstring, AddReplace, AddReplaceRegex, AddSplit
    <3>3. ~Printed'
      BY <3>2 DEF Fail, Exit, Die, Printed
    <3> QED BY <2>5, <3>3
  <2> QED BY <2>4, <2>5
<1>8. CASE pc = "read" /\ job.tool \in Evaluators /\ KeeperEvaluates
  <2>1. Passing /\ ValuesHeld
    BY <1>2, <1>8 DEF KeepInv
  <2>2. CASE pc' = "read"
    BY <1>0, <1>2, <1>8, <2>1, <2>2, EvaluatorsRead DEF KeeperEvaluates
  <2>3. CASE pc' # "read"
    <3>1. ASSUME NEW result, NEW m, Take(result, m) PROVE ~Printed'
      BY <1>8, <2>3, <3>1 DEF Take, Step, Fail, Exit, Die, Printed
    <3>2. CASE Operate \/ OperateRegex \/ OperateNext
      <4>1. Operate => \E result, m : Take(result, m)
        BY DEF Operate
      <4>2. OperateRegex => \E result, m : Take(result, m)
        BY DEF OperateRegex
      <4>3. OperateNext => \E result, m : Take(result, m)
        BY DEF OperateNext
      <4> QED BY <2>3, <3>1, <3>2, <4>1, <4>2, <4>3
    <3>3. CASE Refuse \/ LeftOver \/ PushConstant \/ PushColumn
      BY <1>8, <2>3, <3>3 DEF Refuse, LeftOver, PushConstant, PushColumn, Step, Fail, Exit, Die, Printed
    <3>4. CASE PassOnRpn \/ PassOnSql
      BY <1>8, <2>3, <3>4 DEF PassOnRpn, PassOnSql, Continue
    <3>5. ASSUME NEW tool, PrintValue(tool) \/ Decide(tool) PROVE ~Printed'
      BY <1>8, <2>3, <3>5 DEF PrintValue, Decide, RowDone, NextExpression, Continue, Step, Die, Printed
    <3> QED BY <1>8, <2>3, <3>2, <3>3, <3>4, <3>5 DEF KeeperEvaluates, Evaluate
  <2> QED BY <2>2, <2>3
<1>9. CASE pc = "read" /\ KeeperEnds
  <2>1. Passing
    BY <1>2, <1>9 DEF KeepInv
  <2>2. pc' # "read"
    BY <1>9 DEF KeeperEnds, EndSort, EndAggregate, Fail, Exit, Die
  <2>3. CASE Fail \/ Die("crashed")
    <3>1. ~Printed'
      BY <2>3 DEF Fail, Exit, Die, Printed
    <3> QED BY <2>2, <3>1
  <2>4. CASE Exit(0, <<>>)
    BY <2>1, <2>2, <2>4, EndsWith
  <2>5. CASE EndAggregate
    BY Zenon, <1>0, <1>2, <2>1, <2>2, <2>5, AggregateEnds
  <2>6. CASE EndSort
    <3>1. job.tool = "sort"
      BY <2>6 DEF EndSort, AtEnd
    <3>2. Gathering
      BY <1>9, <3>1 DEF KeepInv, SortInv
    <3> QED BY <1>0, <1>2, <2>1, <2>2, <2>6, <3>2, SortEndsPassing
  <2> QED BY <1>9, <2>3, <2>4, <2>5, <2>6 DEF KeeperEnds
<1> QED BY <1>2, <1>3, <1>4, <1>5, <1>6, <1>7, <1>8, <1>9, KeeperSteps

\* What the rows that were printed have from those that were read
LEMMA PassingMeans ==
    ASSUME StreamInv, job.tool \in Keepers, job.table # NoTable, Passing
    PROVE  LET read == Foreign(Consumed) IN
           /\ Len(PrintedForeign) = Len(read)
           /\ \A k \in DOMAIN read : \A c \in Range(Header) :
                 c.table # job.table => Under(PrintedForeign[k], hdr, c) = Under(read[k], Header, c)
<1>1. Rows = AllRows
  BY GivenStream DEF SeveralInputs, Keepers, Movers, Functions, BuilderNames, RpnToolNames
<1>2. PICK q, z, f : /\ q = Elsewhere(out, TableIn(hdr))
                     /\ z = Elsewhere(SubSeq(AllRows, 1, pos - 1), TableAt)
                     /\ f = Sources
  OBVIOUS
<1>3. Foreign(Consumed) = z
  BY <1>1, <1>2 DEF Foreign, Consumed, Elsewhere, OfOtherTable
<1>4. PrintedForeign = q
  BY <1>2 DEF PrintedForeign, Elsewhere, TableIn, Find
<1>5. Matching(q, z, f) /\ Carried(hdr, f)
  BY <1>2 DEF Passing
<1>6. ASSUME NEW k \in DOMAIN z, NEW c \in Range(Header), c.table # job.table
      PROVE  Under(q[k], hdr, c) = Under(z[k], Header, c)
  <2>1. WhereIs(hdr, c) \in 1 .. Len(f) /\ f[WhereIs(hdr, c)] = WhereIs(Header, c)
    BY <1>5, <1>6 DEF Carried
  <2>2. q[k][WhereIs(hdr, c)] = z[k][WhereIs(Header, c)]
    BY <1>5, <1>6, <2>1 DEF Matching, Carries
  <2>3. Under(q[k], hdr, c) = q[k][WhereIs(hdr, c)] /\ Under(z[k], Header, c) = z[k][WhereIs(Header, c)]
    BY DEF Under, WhereIs
  <2> QED BY <2>2, <2>3
<1> QED BY <1>3, <1>4, <1>5, <1>6 DEF Matching

\* Under -T, whatever tool reads them, and wherever it moves their columns, the rows
\* of other tables are printed as soon as they are read, each once and in their
\* order, with the values they had under the same names; for any input, any columns
\* and any table.
THEOREM OthersPassedOn == Spec => []OtherTablesKept
<1>1. Init => KeepInv
  <2> SUFFICES ASSUME Init PROVE KeepInv
    OBVIOUS
  <2>1. StreamInv /\ pc = "open"
    BY StreamInit DEF Init
  <2> QED BY <2>1 DEF KeepInv, SortInv, SortRight, Printed
<1>2. KeepInv /\ [Next]_vars => KeepInv'
  BY KeepStep
<1>3. KeepInv => OtherTablesKept
  <2> SUFFICES ASSUME KeepInv, pc = "read" \/ (Printed /\ hdr # <<>>), job.tool \in Keepers, job.table # NoTable
               PROVE  LET read == Foreign(Consumed) IN
                      /\ Len(PrintedForeign) = Len(read)
                      /\ \A k \in DOMAIN read : \A c \in Range(Header) :
                            c.table # job.table => Under(PrintedForeign[k], hdr, c) = Under(read[k], Header, c)
    BY DEF OtherTablesKept, Keepers, Movers
  <2>1. Passing /\ StreamInv
    BY DEF KeepInv, SortInv
  <2> QED BY <2>1, PassingMeans
<1> QED BY <1>1, <1>2, <1>3, PTL DEF Spec
=============================================================================
