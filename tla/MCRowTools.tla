----------------------------- MODULE MCRowTools -----------------------------
(* Values of the constants of RowTools for TLC. *)
EXTENDS RowTools

CONSTANTS t, u, v, w     \* names of tables, letters themselves

Column(table, name, type) == [table |-> table, name |-> name, type |-> type]
Stream(h, rows) == [header |-> h, rows |-> rows]
Single(streams) == {<<s>> : s \in streams}
Runs(jobs, sources) == {[jobs |-> jobs, inputs |-> sources]}

\* A column of numbers and one of strings; 4 is out of range.
PlainHeader == <<Column(NoTable, "a", "int"), Column(NoTable, "b", "string")>>
PlainRows == {<<<<1>>, <<>>>>, <<<<1>>, <<1>>>>, <<<<2>>, <<1>>>>, <<<<-2>>, <<2>>>>, <<<<4>>, <<1>>>>, <<<<>>, <<1>>>>}
Plain == {Stream(PlainHeader, rows) : rows \in BoundedSeq(PlainRows, 3)}

\* Two tables; column _table comes first, or last but one.
TableHeader ==
    <<Column(NoTable, TableColumn, "string"), Column(t, "a", "int"),
      Column(u, "a", "int"), Column(t, "b", "string")>>
TableRows ==
    {<<<<t>>, <<1>>, <<>>, <<>>>>, <<<<t>>, <<1>>, <<>>, <<1>>>>,
     <<<<t>>, <<2>>, <<>>, <<1>>>>, <<<<t>>, <<-2>>, <<>>, <<2>>>>,
     <<<<u>>, <<>>, <<1>>, <<>>>>, <<<<u>>, <<>>, <<2>>, <<>>>>}
Moved(s) == <<s[3], s[2], s[1], s[4]>>
Tables ==
    {Stream(TableHeader, rows) : rows \in BoundedSeq(TableRows, 3)}
        \cup {Stream(Moved(TableHeader), [k \in DOMAIN rows |-> Moved(rows[k])]) :
                rows \in BoundedSeq(TableRows, 2)}

\* Numbers with two spellings, for csv-sort
Spelled ==
    {Stream(PlainHeader, rows) :
        rows \in BoundedSeq({<<<<1>>, <<1>>>>, <<<<1, 0>>, <<2>>>>, <<<<1>>, <<2>>>>, <<<<>>, <<1>>>>, <<<<0>>, <<0>>>>}, 3)}

\* Second inputs of csv-cat, csv-tac and csv-merge: the columns in another order,
\* another type, another name, another number of columns, _table as the last one
Swapped == <<PlainHeader[2], PlainHeader[1]>>
Second ==
    {Stream(Swapped, rows) : rows \in BoundedSeq({<<<<1>>, <<1>>>>, <<<<2>>, <<1>>>>}, 2)}
        \cup {Stream(<<PlainHeader[1], Column(NoTable, "b", "int")>>, <<>>),
              Stream(<<PlainHeader[1], Column(NoTable, "d", "string")>>, <<<<<<1>>, <<2>>>>>>),
              Stream(<<PlainHeader[1]>>, <<<<<<2>>>>>>),
              Stream(<<Column(NoTable, TableColumn, "string")>>, <<>>)}
        \cup {Stream(<<Column(t, "a", "int"), Column(NoTable, TableColumn, "string")>>, rows) :
                rows \in BoundedSeq({<<<<1>>, <<t>>>>, <<<<2>>, <<t>>>>}, 2)}
First == {Stream(PlainHeader, rows) : rows \in BoundedSeq({<<<<1>>, <<1>>>>, <<<<2>>, <<1>>>>}, 2)}

\* Two columns of one name, in csv-cat, csv-tac and csv-sql
Twins ==
    {Stream(<<PlainHeader[1], PlainHeader[1]>>, rows) : rows \in BoundedSeq({<<<<1>>, <<2>>>>, <<<<2>>, <<1>>>>}, 2)}

OneInput == Single(Plain \cup Tables \cup Second)
Sources == OneInput \cup {<<f, s>> : f \in First \cup Second, s \in Second}

Columns == {<<"a">>, <<"a", "b">>, <<"b", "a">>, <<"a", "a">>, <<"c">>}
Wanted == {NoTable, t}

SortRuns ==
    Runs([tool : {"sort"}, table : Wanted, columns : Columns, reverse : BOOLEAN],
         OneInput \cup Single(Spelled))

FilterRuns ==
    Runs([tool : {"head", "tail"}, table : {NoTable}, lines : 0 .. 3]
            \cup [tool : {"cut"}, table : Wanted, columns : Columns, reverse : BOOLEAN]
            \cup [tool : {"uniq"}, table : Wanted, columns : Columns]
            \cup [tool : {"grep"}, table : Wanted, columns : {<<"b", "a">>, <<"c", "a">>},
                  patterns : {<<{<<>>}, {<<1>>}>>}, invert : BOOLEAN]
            \cup [tool : {"count"}, table : {NoTable}, c : BOOLEAN, r : BOOLEAN, R : BOOLEAN],
         OneInput)
    \cup Runs([tool : {"cat", "tac"}, table : {NoTable}],
              Sources \cup {<<f>> : f \in Twins} \cup {<<f, s>> : f \in Twins, s \in Twins \cup Second})

AggregateRuns ==
    Runs([tool : {"sum"}, table : Wanted, columns : Columns, newNames : {<<>>, <<"n">>},
          separator : {<<>>, <<0>>}]
            \cup [tool : {"min", "max", "avg"}, table : Wanted, columns : Columns, newNames : {<<>>}]
            \cup [tool : {"avg"}, table : {NoTable}, columns : {<<"a", "a", "a">>}, newNames : {<<>>}],
         OneInput)
    \cup Runs([tool : Functions, table : {t}, columns : {<<"a", "a", "a">>}, newNames : {<<>>}, separator : {<<>>}],
              Single({s \in Tables : Len(s.rows) <= 2}))

MergeRuns ==
    Runs([tool : {"merge"}, table : {NoTable},
          tables : {<<NoTable>>, <<v>>, <<v, NoTable>>, <<v, w>>, <<v, v>>}],
         Sources)

-----------------------------------------------------------------------------
(* Letters: 0 .. 9 are digits, numbers end at 16 *)
x == 20
X == 21
y == 22
Per == 30
Open == 31
Close == 32
Q == 38
MCPunctuation == [caret |-> 33, dollar |-> 34, dot |-> 35, star |-> 36, backslash |-> 37]
MCLower(letter) == IF letter = X THEN x ELSE letter

(* Regular expressions: a word, in ERE also as a group; or a word with one .*  *)
(* between ^ and $                                                             *)
MCTexts == BoundedSeq({x, X}, 3)
MCRegcomp(regex, cflags) ==
    LET extended == "extended" \in cflags
        sensitive == "icase" \notin cflags
        anchored == regex # <<>> /\ regex[1] = MCPunctuation.caret
        grouped == extended /\ Len(regex) = 3 /\ regex[1] = Open
        word == IF grouped THEN <<regex[2]>> ELSE regex
        First1(text) == {i \in 1 .. Len(text) : OccursAt(text, word, i, sensitive)}
        Match(text) ==
            LET i == CHOOSE i \in First1(text) : \A j \in First1(text) : i <= j
                m == SubSeq(text, i, i + Len(word) - 1)
            IN IF grouped THEN [n \in 0 .. 1 |-> m] ELSE [n \in {0} |-> m]
        dot == SelectInSeq(regex, LAMBDA l : l = MCPunctuation.dot)
        before == SubSeq(regex, 2, IF dot = 0 THEN Len(regex) - 1 ELSE dot - 1)
        after == IF dot = 0 THEN <<>> ELSE SubSeq(regex, dot + 2, Len(regex) - 1)
        Whole(text) ==
            IF dot = 0 THEN text = before
            ELSE /\ Len(text) >= Len(before) + Len(after)
                 /\ before = SubSeq(text, 1, Len(before))
                 /\ after = SubSeq(text, Len(text) - Len(after) + 1, Len(text))
    IN IF extended /\ regex = <<Open>> THEN BadRegex
       ELSE IF anchored THEN [text \in {s \in MCTexts : Whole(s)} |-> <<>>]
       ELSE [text \in {s \in MCTexts : First1(s) # {}} |-> Match(text)]

-----------------------------------------------------------------------------
(* Expressions *)

Col(name) == [kind |-> "column", name |-> name]
Const(value) == [kind |-> "constant", value |-> value]
Op(op) == [kind |-> "operator", operator |-> op]
Num(n) == Const(Llong(n))
Word(text) == Const(Pchar(text))

Atoms == {Col("a"), Col("f"), Col("b"), Num(-1), Const(Double(<<1, 2>>)), Word(<<3>>)}
Binary == Arithmetic \cup Bitwise2 \cup Logic2 \cup Comparisons \cup {"CONCAT", "INT2STRB", "STRB2INT"}
Unary == {"BIT_NEG", "LOGIC_NOT", "INT2STR", "INT2FLT", "FLT2INT", "FLT2STR", "STRLEN", "STR2INT",
          "STR2FLT", "TOFLOAT", "TOINT", "TOSTRING"}

Simple ==
    {<<p>> : p \in Atoms}
        \cup {<<p, Op(op)>> : p \in Atoms, op \in Unary}
        \cup {<<p, q, Op(op)>> : p \in Atoms, q \in Atoms, op \in Binary}
        \cup {<<Num(n), Num(m), Op(op)>> : n \in {-4, 2}, m \in {-1, 0, 1, 3}, op \in Binary}
        \cup {<<Num(n), Num(2), Op("INT2STRB"), Num(2), Op("STRB2INT")>> : n \in {-4, -1, 3}}

Nested ==
    LET leaves == {Col("a"), Num(1), Const(Double(<<1, 2>>))}
        ops == {"SUB", "LT", "DIV"}
    IN {<<p, q, Op(o1), r, Op(o2)>> : p, q, r \in leaves, o1, o2 \in ops}
        \cup {<<p, q, r, Op(o1), Op(o2)>> : p, q, r \in leaves, o1, o2 \in ops}
        \cup {<<Num(c), p, q, Op("IF")>> : c \in 0 .. 1, p, q \in Atoms}
        \cup {<<Num(1), p, q, r, Op("ADD"), Op("IF")>> : p, q, r \in leaves}

OnTexts ==
    LET text == Word(<<x, X, x>>) IN
    {<<text, Num(p), Num(n), Op("SUBSTR")>> : p \in -4 .. 3, n \in -1 .. 3}
        \cup {<<text, Word(p), Word(r), Num(c), Op("REPLACE")>> :
                p \in {<<>>, <<x>>, <<X, x>>, <<y>>}, r \in {<<>>, <<x>>}, c \in 0 .. 1}
        \cup {<<text, Word(p), Word(r), Num(c), Op(op)>> :
                p \in {<<x>>, <<Open, X, Close>>, <<Open>>},
                r \in {<<Per, 1, y>>, <<Per, Per>>, <<Per>>, <<Per, y>>, <<Per, 9>>, <<y, Per, 0>>},
                c \in 0 .. 1, op \in {"REPLACE_BRE", "REPLACE_ERE"}}

Malformed ==
    {<<>>, <<[kind |-> "unknown"]>>, <<Col("c")>>, <<Num(1), Num(1)>>, <<Num(1), Num(1), Num(1), Op("ADD")>>}
        \cup {<<Op(op)>> : op \in {"ADD", "IF", "NEXT"}} \cup {<<Num(1), Op("ADD")>>}

Matching(p, c, op) == <<Col("b"), Word(p), Num(c), Op(op)>>
Like(p) == <<Col("b"), Word(p), Op("LIKE")>>

RpnHeader == <<Column(NoTable, "a", "int"), Column(NoTable, "f", "float"), Column(NoTable, "b", "string")>>
RpnRows == {<<<<2>>, <<-5, 3, 2>>, <<x>>>>, <<<<-4>>, <<-1>>, <<X, x>>>>, <<<<4>>, <<x>>, <<X>>>>}
RpnStream(n) == {Stream(RpnHeader, rows) : rows \in {s \in BoundedSeq(RpnRows, n) : IsInjective(s)}}

NoHash == [k \in {} |-> 0]
AddRpn(names, expressions, table) ==
    [tool |-> "add_rpn", table |-> table, names |-> names, expressions |-> expressions, hash |-> NoHash]
GrepRpn(expressions, table) ==
    [tool |-> "grep_rpn", table |-> table, expressions |-> expressions, hash |-> NoHash]

\* `next` with names whose hashes collide
NextRuns ==
    Runs({[AddRpn(<<"n">>, <<<<Col("b"), Op("NEXT")>>>>, NoTable) EXCEPT !.hash = h] :
             h \in [{<<x>>, <<X>>, <<X, x>>} -> 0 .. 1]},
         Single({Stream(PlainHeader, [k \in DOMAIN names |-> <<<<1>>, names[k]>>]) :
                    names \in BoundedSeq({<<x>>, <<X>>, <<X, x>>}, 3)}))

CacheExpressions ==
    {Matching(<<X>>, 1, "MATCHES_ERE"), Matching(<<X>>, 0, "MATCHES_ERE"), Matching(<<x>>, 1, "MATCHES_BRE"),
     Like(<<X, Per>>), Like(<<>>)}

TwoRows == Single({Stream(RpnHeader, s) : s \in {<<<<<<2>>, <<-5, 3, 2>>, <<x>>>>, <<<<-4>>, <<-1>>, <<X, x>>>>>>}})
FewRows == Single(RpnStream(3))
SomeTables == Single({s \in Tables : Len(s.rows) = 2})

\* A column of arrays, which is told to be anything, or not evaluated at all
ArrayRuns ==
    LET streams == Single({Stream(<<Column(NoTable, "a", "int"), Column(NoTable, "l", "int[]")>>,
                                  <<<<<<1>>, <<5>>>>, <<<<0>>, <<5>>>>>>)})
    IN Runs({AddRpn(<<"n">>, <<e>>, NoTable) :
                e \in {<<Col("a")>>, <<Col("l")>>, <<Col("a"), Col("l"), Num(1), Op("IF")>>}}, streams)
       \cup Runs({GrepRpn(e, NoTable) :
                   e \in {<<<<Col("l")>>>>, <<<<Col("l"), Op("TOINT")>>>>,
                          <<<<Col("a")>>, <<Col("l"), Op("STRLEN")>>>>}}, streams)

RpnRuns ==
    Runs({AddRpn(<<"n">>, <<e>>, NoTable) : e \in Simple \cup Nested \cup OnTexts}, TwoRows)
    \cup Runs({AddRpn(<<"n">>, <<e>>, NoTable) : e \in Malformed \cup {<<Col("a")>>, <<Col("f")>>}}, FewRows)
    \cup Runs({AddRpn(<<"n", "m", "o">>, e, NoTable) : e \in [1 .. 3 -> CacheExpressions]}, TwoRows)
    \cup Runs({AddRpn(names, [i \in DOMAIN names |-> <<Col("a"), Num(1), Op("ADD")>>], table) :
                 names \in {<<"n">>, <<"n", "m">>, <<"a">>}, table \in Wanted}, SomeTables)
    \cup Runs({GrepRpn(<<e, <<Col("a"), Num(-4), Op("EQ")>>>>, NoTable) :
                 e \in Malformed \cup CacheExpressions \cup {<<Col("a"), q, Op(op)>> : q \in Atoms, op \in Comparisons}}, FewRows)
    \cup Runs({GrepRpn(<<<<Col("a"), Num(1), Op("SUB")>>>>, table) : table \in Wanted}, SomeTables)
    \cup NextRuns \cup ArrayRuns

\* Arithmetic with a float before an integer
AbortRuns ==
    Runs({GrepRpn(<<<<Col("f"), Num(1), Op(op)>>>>, NoTable) : op \in Arithmetic}, FewRows)

-----------------------------------------------------------------------------
(* SQL *)

Name(name) == [kind |-> "name", name |-> name]
Item(tokens, as) == [tokens |-> tokens, as |-> as]
By(tokens, asc) == [tokens |-> tokens, asc |-> asc]

Sql(all, select, where, order) ==
    [tool |-> "sql", table |-> NoTable, hash |-> NoHash, all |-> all, select |-> select,
     from |-> TRUE, where |-> where, order |-> order]

\* Names of columns and of the input, also one name for both, before and after
\* columns that have none
Items ==
    {Item(<<Name("a")>>, None), Item(<<Name("a"), Num(1), Op("ADD")>>, None), Item(<<Name("b")>>, "a"),
     Item(<<Name("a")>>, "c"), Item(<<Name("c"), Name("b"), Op("CONCAT")>>, "d"), Item(<<Word(<<y>>)>>, "c"),
     Item(<<Name("c")>>, None)}
Selects == {s \in BoundedSeq(Items, 3) : s # <<>>}
Wheres ==
    {<<>>, <<<<Name("f"), Num(0), Op("LT")>>>>, <<<<Name("b")>>>>, <<<<Num(3), Name("a"), Op("DIV")>>>>}

\* Values that are equal, or of two types, in both directions
Truths == <<Name("a"), Num(2), Op("GE")>>
OneOrOther == <<Name("a"), Num(0), Op("LT"), Name("b"), Name("a"), Op("IF")>>
Mixed == <<Name("a"), Num(2), Op("EQ"), Const(Double(<<1, 2>>)), Num(1), Op("IF")>>
Orders ==
    {<<By(e, asc)>> : e \in {<<Name("a")>>, <<Name("b")>>, <<Name("f")>>, OneOrOther, Mixed}, asc \in BOOLEAN}
        \cup {<<By(Truths, asc), By(<<Name("b")>>, desc)>> : asc, desc \in BOOLEAN}

SqlRows ==
    {<<<<2>>, <<-5, 3, 2>>, <<x>>>>, <<<<-4>>, <<-1>>, <<X, x>>>>, <<<<3>>, <<-1>>, <<X>>>>, <<<<0>>, <<1>>, <<x>>>>}
SqlStreams(n) == Single({Stream(RpnHeader, rows) : rows \in {s \in BoundedSeq(SqlRows, n) : IsInjective(s)}})

Additions ==
    {<<[name |-> name, all |-> all, columns |-> c]>> :
        name \in {None, "n"}, all \in BOOLEAN,
        c \in {<<Item(<<Name("a"), Num(1), Op("ADD")>>, as), Item(<<Name("b")>>, "m")>> : as \in {None, "o", "a"}}
                 \cup {<<Item(<<Name("b")>>, None), Item(<<Name("b")>>, None)>>, <<Item(<<Name("c")>>, None)>>}}
    \cup {[i \in 1 .. 2 |-> [name |-> None, all |-> FALSE, columns |-> <<Item(<<Name("a"), Num(2 * i), Op("DIV")>>, "n")>>]]}

SqlRuns ==
    Runs({Sql(FALSE, s, <<>>, <<>>) : s \in Selects}
            \cup {Sql(TRUE, s, c, o) : s \in {<<>>, <<Item(<<Name("a")>>, "c")>>}, c \in Wheres, o \in {<<>>, <<By(<<Name("f")>>, TRUE)>>}}
            \cup {[Sql(TRUE, <<>>, <<>>, <<>>) EXCEPT !.from = FALSE]},
         SqlStreams(2))
    \cup Runs({Sql(TRUE, s, <<>>, o) : s \in {<<>>, <<Item(<<Name("a")>>, None)>>},
                                       o \in {<<>>, <<By(<<Name("a")>>, FALSE)>>}},
              Single({[s EXCEPT !.header[2].type = "string"] : s \in Twins}))
    \cup Runs({Sql(FALSE, <<Item(<<Name("a")>>, None), Item(<<Num(3), Name("a"), Op("DIV")>>, "n")>>, <<>>, o) : o \in Orders}
                 \cup {Sql(FALSE, <<Item(<<Word(<<y>>)>>, "c"), Item(<<Name("b")>>, None)>>, <<>>, <<By(<<Name("c")>>, TRUE)>>)},
              SqlStreams(3))
    \cup Runs({[tool |-> "add_sql", table |-> table, hash |-> NoHash, expressions |-> e] :
                 table \in Wanted, e \in Additions}
                 \cup {[tool |-> "grep_sql", table |-> table, hash |-> NoHash, expressions |-> e] :
                         table \in Wanted,
                         e \in {<<<<Name("a"), Num(1), Op("SUB")>>, <<Name("a"), Num(2), Op("DIV")>>>>,
                                <<<<Name("b")>>>>, <<<<Name("c")>>>>, <<<<Num(2), Name("a"), Op("DIV")>>>>}},
              SomeTables \cup SqlStreams(2))

-----------------------------------------------------------------------------
(* The builders, csv-header and csv-tree *)

\* Strings, also with a quote, of two tables
TextHeader ==
    <<Column(NoTable, TableColumn, "string"), Column(t, "b", "string"), Column(t, "a", "int"), Column(u, "b", "string")>>
TextRows ==
    {<<<<t>>, <<>>, <<1>>, <<>>>>, <<<<t>>, <<x, X, x>>, <<2>>, <<>>>>, <<<<t>>, <<y, x, Q>>, <<3>>, <<>>>>,
     <<<<u>>, <<>>, <<>>, <<x>>>>}
TextTables == Single({Stream(TextHeader, s) : s \in {r \in BoundedSeq(TextRows, 2) : IsInjective(r)}})
\* ... and of none
Words ==
    {<<>>, <<x>>, <<x, x, X>>, <<X, y, x>>, <<x, X, x, x>>, <<y, y, Q>>, <<Q>>}
WordHeader == <<Column(NoTable, "b", "string"), Column(NoTable, "a", "int")>>
WordStreams == Single({Stream(WordHeader, <<<<s, <<1>>>>, <<<<x, y>>, <<2>>>>>>) : s \in Words})

Concats ==
    {[tool |-> "add_concat", table |-> table, name |-> name, elements |-> e] :
        table \in Wanted, name \in {"n", "a"},
        e \in {<<Col("a"), [kind |-> "constant", value |-> <<y>>], Col("b")>>, <<Col("c")>>}}
Substrings ==
    [tool : {"add_substring"}, table : Wanted, column : {"b"}, name : {"n"},
     start : -5 .. 5, length : {0, 1, 2, SizeMax}]
AllGroups == [i \in 1 .. 20 |-> IF i % 2 = 1 THEN Per ELSE i \div 2 - 1]   \* %0 to %9
Replacements ==
    [tool : {"add_replace"}, table : Wanted, column : {"b"}, name : {"n"}, kind : {"string"},
     pattern : {<<>>, <<x>>, <<x, x>>, <<X, x>>}, replacement : {<<>>, <<y, x>>}, icase : BOOLEAN]
    \cup [tool : {"add_replace"}, table : Wanted, column : {"b"}, name : {"n"}, kind : {"bre", "ere"},
          pattern : {<<x>>, <<Open, X, Close>>, <<Open>>},
          replacement : {<<Per, 1, y>>, <<Per, Per, Per, 0>>, <<Per>>, <<Per, y>>, <<Per, 9>>, <<Per, 1, Per, 9>>, AllGroups},
          icase : BOOLEAN]
Splits ==
    [tool : {"add_split"}, table : Wanted, column : {"b"}, names : {<<"n", "m">>, <<"n", "a">>},
     separators : {<<x>>, <<X, y>>}, print : {"yes", "no", "auto"}, reverse : BOOLEAN]
Reversals == [tool : {"add_rev"}, table : Wanted, column : {"a", "b", "c"}, name : {"n", "a"}]

\* Columns to guess: integers, one of them in base 2, floats, words
GuessHeader == <<Column(t, "a", "string"), Column(NoTable, "b", "string")>>
Guesses == {<<>>, <<1>>, <<3, 2>>, <<-5, 3, 2>>, <<4>>, <<x>>}
GuessRows == {<<p, q>> : p \in Guesses, q \in {<<1>>, <<y>>}}
GuessStreams(n) == Single({Stream(GuessHeader, s) : s \in BoundedSeq(GuessRows, n)})

Change(of, name, type) == [of |-> of, name |-> name, type |-> type]
Ident(table, name) == [table |-> table, name |-> name]
Changes ==
    {<<>>, <<Change(Ident(NoTable, "b"), Ident(NoTable, "a"), None), Change(Ident(NoTable, "b"), None, "int")>>,
     <<Change(Ident(t, "a"), None, "float"), Change(Ident(NoTable, "c"), Ident(NoTable, "d"), None)>>}
Headers ==
    [tool : {"header"}, table : {NoTable}, added : {None, <<Column(u, "c", "int"), Column(NoTable, "b", "string")>>},
     changes : Changes, guess : BOOLEAN, header : BOOLEAN, types : BOOLEAN, show : BOOLEAN]

ColumnRuns ==
    Runs(Concats \cup Reversals, TextTables \cup WordStreams)
    \cup Runs(Substrings \cup Replacements \cup Splits, WordStreams)
    \cup Runs({j \in Substrings \cup Splits : j.table = t}, TextTables)
    \cup Runs({j \in Replacements : j.table = t /\ j.pattern = <<x>>}, TextTables)
    \cup Runs({j \in Headers : j.guess /\ j.header /\ j.types /\ ~j.show}, GuessStreams(3))
    \cup Runs(Headers, GuessStreams(1))

\* Forests of up to three rows, with equal keys and cycles; the table of keys may
\* have to grow.
TreeHeader ==
    <<Column(NoTable, "k", "int"), Column(NoTable, "p", "int"), Column(NoTable, "m", "int"), Column(NoTable, "f", "float")>>
TreeRows ==
    {<<<<k>>, <<p>>, <<IF k = 2 THEN -2 ELSE k>>, <<-5, 2 * k - 1, 2>>>> : k \in 1 .. 3, p \in 0 .. 3}
Forests == Single({Stream(TreeHeader, s) : s \in BoundedSeq(TreeRows, 3)})
BadForests ==
    Single({Stream(TreeHeader, <<<<<<1>>, <<0>>, m, <<x>>>>, <<<<2>>, <<1>>, <<1>>, <<1>>>>>>) : m \in {<<x>>, <<3>>}})
LargeForests ==
    Single({Stream(TreeHeader, [k \in 1 .. 4 |-> <<<<5 - k>>, <<p[k]>>, <<IF k = 1 THEN 1 ELSE 0>>, <<-5, 2 * k - 1, 2>>>>]) :
                  p \in [1 .. 4 -> 0 .. 4]})

TreeJobs(indent, sum, filter, level) ==
    {[tool |-> "tree", table |-> NoTable, key |-> "k", parent |-> "p", indent |-> indent, sum |-> sum,
      filter |-> filter, level |-> level, hash |-> h] :
        h \in {[text \in {<<k>> : k \in 0 .. 4} |-> text[1]], [text \in {<<k>> : k \in 0 .. 4} |-> 4 * text[1]]}}

TreeRuns ==
    Runs(TreeJobs(None, <<"m", None>>, None, TRUE) \cup TreeJobs(<<"k", "tree">>, <<"f", "total">>, None, FALSE)
            \cup TreeJobs(<<"k", None>>, None, <<<<2>>>>, TRUE),
         Forests \cup LargeForests)
    \cup Runs(TreeJobs(None, <<"m", None>>, None, FALSE) \cup TreeJobs(None, <<"f", "s">>, None, FALSE)
                 \cup TreeJobs(<<"z", None>>, None, None, FALSE) \cup TreeJobs(None, <<"z", None>>, None, FALSE)
                 \cup {[j EXCEPT !.key = "z"] : j \in TreeJobs(None, None, None, FALSE)},
              BadForests)

-----------------------------------------------------------------------------
(* csv-sqlite: the name of table u begins with that of t. *)
MCShorter == {<<t, u>>}

Select(from) == [kind |-> "select", from |-> from]
Index(table) == [kind |-> "index", from |-> <<table>>]
Delete(table) == [kind |-> "delete", from |-> <<table>>]
OnTables(first, second) ==
    {<<Select(<<first>>)>>, <<Select(<<second, first>>)>>,
     <<Index(first), Select(<<first, second>>), Delete(second)>>,
     <<Delete(first), Select(<<first>>)>>, <<Delete(second), Select(<<first>>)>>,
     <<Index(first)>>, <<Index(v), Select(<<first>>)>>, <<Select(<<first>>), Select(<<v>>)>>, <<>>}

Sqlite(tables, files, statements) ==
    [tool : {"sqlite"}, table : {NoTable}, tables : {tables}, files : {files}, statements : statements]

\* Columns of t behind one of u, twice the same one, one of no table, no _table; and
\* a table v in a stream of its own
UpToOne(header, rows) == {Stream(header, r) : r \in {<<>>} \cup {<<row>> : row \in rows}}
OddTables ==
    UpToOne(<<Column(u, "c", "int"), Column(t, "a", "int"), Column(NoTable, TableColumn, "string"), Column(u, "b", "string")>>,
           {<<<<1>>, <<2>>, <<table>>, <<1>>>> : table \in {t, u}})
        \cup UpToOne(<<Column(NoTable, TableColumn, "string"), Column(t, "a", "int"), Column(t, "a", "int")>>,
                    {<<<<t>>, <<1>>, <<1>>>>})
        \cup UpToOne(PlainHeader, {<<<<1>>, <<1>>>>})
        \cup UpToOne(<<Column(t, "a", "int"), Column(u, "a", "int")>>, {<<<<1>>, <<1>>>>})
AlsoTables ==
    UpToOne(<<Column(v, "a", "string"), Column(NoTable, TableColumn, "string")>>, {<<<<1>>, <<table>>>> : table \in {v, t}})
        \cup UpToOne(<<Column(t, "a", "int"), Column(NoTable, TableColumn, "string")>>, {<<<<1>>, <<t>>>>})

TwoTables == {s \in Tables : Len(s.rows) <= 2}

SqliteRuns ==
    Runs(Sqlite(TRUE, FALSE, OnTables(t, u)), Single(TwoTables \cup OddTables))
    \cup Runs(Sqlite(TRUE, TRUE, OnTables(t, v)),
              {<<f, s>> : f \in {s \in TwoTables : Len(s.rows) < 2} \cup OddTables, s \in AlsoTables})
    \cup Runs(Sqlite(FALSE, FALSE, OnTables(0, 1)),
              Single({s \in Plain : Len(s.rows) <= 2} \cup OddTables))
    \cup Runs(Sqlite(FALSE, TRUE, OnTables(1, 2)), {<<f, s>> : f \in First, s \in Second \cup OddTables})

AllRuns ==
    FilterRuns \cup AggregateRuns \cup SortRuns \cup MergeRuns \cup RpnRuns \cup AbortRuns
        \cup SqlRuns \cup ColumnRuns \cup TreeRuns \cup SqliteRuns
=============================================================================
