----------------------------- MODULE ColumnTools -----------------------------
(***************************************************************************)
(* The tools that add columns made of others, csv-add-concat,              *)
(* csv-add-replace, csv-add-rev, csv-add-split and csv-add-substring, and  *)
(* csv-header, which changes or guesses the header                         *)
(* (src/src/add-*.c, src/src/header.c).                                    *)
(***************************************************************************)
EXTENDS Rpn

CONSTANT Quote  \* the letter "

BuilderNames == {"add_concat", "add_replace", "add_rev", "add_split", "add_substring"}

\* csv-add-split has the names of its columns in their order.
ASSUME SplitAssumption ==
    \A i \in Invocations : \A j \in i.jobs : j.tool = "add_split" => j.names \in Seq(Range(j.names))

-----------------------------------------------------------------------------
(* main() of the builders *)

NewNames == IF job.tool = "add_split" THEN job.names ELSE <<job.name>>

\* The columns that are read
Needed ==
    IF job.tool = "add_concat" THEN {e.name : e \in {d \in Range(job.elements) : d.kind = "column"}}
    ELSE {job.column}

\* csv-add-replace -e, -E: the expression, and parse_replacement()
Replacing == Regcomp(job.pattern, (IF job.kind = "ere" THEN {"extended"} ELSE {})
                                     \cup (IF job.icase THEN {"icase"} ELSE {}))
BadTemplate == Expanded(job.replacement, [g \in 0 .. 9 |-> Pchar(Empty)]) = Failed
Uses(n) == Expanded(job.replacement, [g \in 0 .. 9 |-> IF g = n THEN Failed ELSE Pchar(Empty)]) = Failed
MaxExpr == LET used == {n \in 0 .. 9 : Uses(n)} \cup {0} IN CHOOSE n \in used : \A k \in used : k <= n

BuilderFails ==
    \/ TableMissing
    \/ \E n \in Range(NewNames) : Exists(n)
    \/ \E c \in Needed : ~Exists(c)
    \/ job.tool = "add_rev" /\ Header[Find(Header, job.table, job.column)].type # "string"
    \/ job.tool = "add_replace" /\ job.kind # "string" /\ (Replacing = BadRegex \/ BadTemplate)

OpenBuilder ==
    /\ pc = "open" /\ job.tool \in BuilderNames
    /\ IF BuilderFails THEN Fail
       ELSE Start(Indices, Header \o [i \in DOMAIN NewNames |-> NewColumn(NewNames[i], "string")], None)

-----------------------------------------------------------------------------
(* next_row() of the builders *)

Building(tool) == Reading(tool) /\ ~OfOtherTable(Row)
Field(name) == Row[Find(Header, job.table, name)]
Text == Field(job.column)
Build(values) == Continue(<<Row \o values>>, mem)

\* A row of another table has nothing in the new columns.
PassOnBuilder ==
    /\ job.tool \in BuilderNames /\ Reading(job.tool) /\ OfOtherTable(Row)
    /\ Build([i \in DOMAIN NewNames |-> Empty])

AddConcat ==
    /\ Building("add_concat")
    /\ LET Part(e) == IF e.kind = "column" THEN Field(e.name) ELSE e.value
       IN Build(<<FlattenSeq([i \in DOMAIN job.elements |-> Part(job.elements[i])])>>)

\* The quotes of a value are printed as they are: what is read then is no value.
AddRev ==
    /\ Building("add_rev")
    /\ Build(<<IF Quote \in Range(Text) THEN None ELSE Reverse(Text)>>)

AddSubstring ==
    /\ Building("add_substring")
    /\ Build(<<Substring(Text, job.start, job.length)>>)

\* -F: without a pattern the result grows until there is no memory left.
AddReplace ==
    /\ Building("add_replace") /\ job.kind = "string"
    /\ LET result == Replaced(Text, job.pattern, job.replacement, ~job.icase) IN
       \/ IsValue(result) /\ Build(<<result.value>>)
       \/ result = Failed /\ Fail
       \/ result = Endless /\ Die("hung")

\* -e, -E: a group that did not take part is empty, but the last one of the
\* replacement has to be there.  There are no groups from 9 on, and group 9 is
\* always empty.
AddReplaceRegex ==
    /\ Building("add_replace") /\ job.kind # "string"
    /\ IF Text \notin DOMAIN Replacing THEN Build(<<Text>>)
       ELSE LET found == Replacing[Text]
                group == [n \in 0 .. 9 |-> Pchar(IF n \in DOMAIN found \ {9} THEN found[n] ELSE Empty)]
            IN IF MaxExpr \notin DOMAIN found \cup {9} THEN Fail
               ELSE Build(<<Expanded(job.replacement, group).value>>)

KeepsSeparator == job.print = "yes" \/ (job.print = "auto" /\ Len(job.separators) > 1)

\* Where the text is cut: at the first separator, with -r at the last one
Cut ==
    LET at == {i \in DOMAIN Text : Text[i] \in Range(job.separators)}
    IN IF at = {} THEN 0
       ELSE CHOOSE i \in at : \A j \in at : IF job.reverse THEN j <= i ELSE i <= j

AddSplit ==
    /\ Building("add_split")
    /\ Build(IF Cut = 0 THEN <<Text, Empty>>
             ELSE <<SubSeq(Text, 1, Cut - 1),
                    SubSeq(Text, IF KeepsSeparator THEN Cut ELSE Cut + 1, Len(Text))>>)

EndBuilder == job.tool \in BuilderNames /\ AtEnd(job.tool) /\ Exit(0, <<>>)

NextBuilder ==
    \/ OpenBuilder \/ PassOnBuilder \/ EndBuilder
    \/ AddConcat \/ AddRev \/ AddSubstring \/ AddReplace \/ AddReplaceRegex \/ AddSplit

-----------------------------------------------------------------------------
(* csv-header: a change names a column and has a new name, a new type or both *)

\* With -a the input has no header of its own.
HeaderIn == IF job.added = None THEN Header ELSE job.added

NameOf(column) == [table |-> column.table, name |-> column.name]

\* The first change of a column counts.
ChangeOf(changes, column) == SelectInSeq(changes, LAMBDA ch : ch.of = NameOf(column))

Changed(changes, column) ==
    LET k == ChangeOf(changes, column)
        name == IF k = 0 \/ changes[k].name = None THEN NameOf(column) ELSE changes[k].name
        type == IF k = 0 \/ changes[k].type = None THEN column.type ELSE changes[k].type
    IN [table |-> name.table, name |-> name.name, type |-> IF job.types THEN type ELSE "string"]

ChangedHeader(changes) == [i \in DOMAIN HeaderIn |-> Changed(changes, HeaderIn[i])]

OpenHeader ==
    /\ Opening("header")
    /\ LET fails == \/ ~job.header /\ (job.show \/ job.guess)
                    \/ ~job.types /\ job.guess
       IN \/ fails /\ Fail
          \/ ~fails /\ job.guess
             /\ Start(<<>>, <<>>, [types |-> [i \in DOMAIN HeaderIn |-> "int"], lines |-> <<>>])
          \/ ~fails /\ ~job.guess
             /\ Start(<<>>, IF job.header THEN ChangedHeader(job.changes) ELSE <<>>, None)

CopyRow == Reading("header") /\ ~job.guess /\ Continue(<<Row>>, mem)

IsOf(type, text) ==
    CASE type = "int" -> IsValue(ReadInt(text, 0))
      [] type = "float" -> IsValue(ReadFloat(text))
      [] type = "string" -> TRUE

\* From int to float to string, and never back
Guessed(type, text) ==
    IF IsOf(type, text) THEN type
    ELSE IF type = "int" /\ IsOf("float", text) THEN "float" ELSE "string"

GuessRow ==
    /\ Reading("header") /\ job.guess
    /\ Continue(<<>>, [types |-> [i \in DOMAIN mem.types |-> Guessed(mem.types[i], Row[i])],
                       lines |-> Append(mem.lines, Row)])

EndHeader == AtEnd("header") /\ ~job.guess /\ Exit(0, <<>>)

\* A guess takes the place of the type given by the first change of the column.
WithGuesses ==
    FoldLeft(LAMBDA changes, i :
                LET k == ChangeOf(changes, HeaderIn[i]) IN
                IF k = 0
                THEN Append(changes, [of |-> NameOf(HeaderIn[i]), name |-> None, type |-> mem.types[i]])
                ELSE [changes EXCEPT ![k].type = mem.types[i]],
             job.changes, [i \in DOMAIN HeaderIn |-> i])

PrintGuessed ==
    /\ AtEnd("header") /\ job.guess
    /\ hdr' = ChangedHeader(WithGuesses)
    /\ out' = mem.lines
    /\ pc' = "exited"
    /\ UNCHANGED <<given, status, in, pos, cols, mem>>

NextHeader == OpenHeader \/ CopyRow \/ GuessRow \/ EndHeader \/ PrintGuessed

NextColumns == NextBuilder \/ NextHeader

-----------------------------------------------------------------------------
(* Properties *)

\* What the substring of a text is in SQL: of the characters, numbered from 1,
\* those from `start` on, `length` of them; a negative start counts from the
\* end, and at most to the first character.
SqlSubstring(text, start, length) ==
    LET first == IF start >= 0 THEN start ELSE IF start < -Len(text) THEN 1 ELSE Len(text) + 1 + start
    IN SelectSeq([i \in DOMAIN text |-> [at |-> i, letter |-> text[i]]],
                 LAMBDA l : l.at >= first /\ l.at < first + length)

\* Occurrences of the pattern, none of which overlaps another, and which no
\* further one could be put in front of
Replaceable(text, pattern, sensitive) ==
    LET all == {i \in DOMAIN text : OccursAt(text, pattern, i, sensitive)}
        Near(i) == i - Len(pattern) + 1 .. i - 1
    IN CHOOSE s \in SUBSET all : \A i \in all : i \in s <=> s \cap Near(i) = {}

\* The builders print every row they read and behind it: the substring as SQL has
\* it, except that of length 0 from character 0; the text with its non-overlapping
\* occurrences replaced; two parts that are the text around its first, or last,
\* separator; the text that reversed is the one in the column.  Under -T the rows
\* of other tables have as many fields as the header.
BuiltRight ==
    pc = "read" \/ (pc = "exited" /\ status = 0)
    =>
        /\ Len(out) = pos - 1
        /\ \A k \in DOMAIN out :
            LET row == Rows[k]
                new == SubSeq(out[k], Len(Header) + 1, Len(out[k]))
                text == row[Find(Header, job.table, job.column)]
                IsSeparator(i) == text[i] \in Range(job.separators)
                cut == Len(new[1]) + 1
            IN /\ Len(out[k]) = Len(hdr) /\ SubSeq(out[k], 1, Len(Header)) = row
               /\ OfOtherTable(row) => Range(new) = {Empty}
               /\ job.tool = "add_substring" /\ ~OfOtherTable(row) /\ <<job.start, job.length>> # <<0, 0>> =>
                    LET letters == SqlSubstring(text, job.start, job.length)
                    IN new[1] = [i \in DOMAIN letters |-> letters[i].letter]
               /\ job.tool = "add_replace" /\ ~OfOtherTable(row) /\ job.kind = "string" =>
                    LET s == Replaceable(text, job.pattern, ~job.icase)
                        Left(i) == s \cap (i - Len(job.pattern) + 1 .. i - 1) = {}
                        Piece(i) == IF i \in s THEN job.replacement
                                    ELSE IF Left(i) THEN <<text[i]>> ELSE Empty
                    IN new[1] = FlattenSeq([i \in DOMAIN text |-> Piece(i)])
               /\ job.tool = "add_split" /\ ~OfOtherTable(row) =>
                    IF \A i \in DOMAIN text : ~IsSeparator(i) THEN new = <<text, Empty>>
                    ELSE /\ IsSeparator(cut)
                         /\ \A i \in DOMAIN text : IsSeparator(i) =>
                                IF job.reverse THEN i <= cut ELSE i >= cut
                         /\ new[1] \o (IF KeepsSeparator THEN Empty ELSE <<text[cut]>>) \o new[2] = text
               /\ job.tool = "add_rev" /\ ~OfOtherTable(row) /\ Quote \notin Range(text) =>
                    Reverse(new[1]) = text

\* What csv-header -G guesses is true of every value, of the first row and the
\* last, and nothing narrower is; only an integer in base 2 is taken for a float
\* when a float comes after it.  A column keeps its place, and has the new name
\* the first change gives it.
GuessRight ==
    pc = "exited" /\ status = 0 /\ job.guess
    =>
        /\ out = Rows /\ Len(hdr) = Len(HeaderIn)
        /\ \A i \in DOMAIN hdr :
            LET values == {Rows[k][i] : k \in DOMAIN Rows}
                AllOf(type) == \A v \in values : IsOf(type, v) \/ (Len(v) = 2 /\ v[2] = 2)
                same == {k \in DOMAIN job.changes : job.changes[k].of = NameOf(HeaderIn[i])}
                first == CHOOSE k \in same : \A l \in same : k <= l
            IN /\ AllOf(hdr[i].type)
               /\ hdr[i].type # "int" => \E v \in values : ~IsOf("int", v)
               /\ hdr[i].type = "string" => \E v \in values : ~IsOf("float", v)
               /\ NameOf(hdr[i]) =
                    IF same = {} \/ job.changes[first].name = None THEN NameOf(HeaderIn[i])
                    ELSE job.changes[first].name

ColumnsRight ==
    /\ job.tool \in BuilderNames => BuiltRight
    /\ job.tool = "header" => GuessRight
=============================================================================
