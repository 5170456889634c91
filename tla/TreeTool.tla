------------------------------ MODULE TreeTool ------------------------------
(***************************************************************************)
(* csv-tree -k key -p parent [-i col[,new]] [-m col[,new]] [-f key] [-L]   *)
(* (src/src/tree.c): the rows are kept, linked to each other through a     *)
(* hash table of their keys and the keys of their parents, and printed     *)
(* from the roots down, each behind its parent, with the sum of its        *)
(* subtree.  The nodes are numbered; 0 is NULL.                            *)
(***************************************************************************)
EXTENDS Rpn, HtTable

CONSTANT Space  \* the letter ' '

IsSet(option) == option # None
\* -i and -m: a name of its own makes a new column.
IsNew(option) == IsSet(option) /\ option[2] # None

KeyAt == Find(Header, NoTable, job.key)
ParentAt == Find(Header, NoTable, job.parent)
IndentAt == IF IsSet(job.indent) THEN Find(Header, NoTable, job.indent[1]) ELSE 0
SumAt == IF IsSet(job.sum) THEN Find(Header, NoTable, job.sum[1]) ELSE 0

TreeFails ==
    \/ KeyAt = 0 \/ ParentAt = 0
    \/ IsSet(job.indent) /\ IndentAt = 0
    \/ IsSet(job.sum) /\ (SumAt = 0 \/ Header[SumAt].type \notin Numeric)

OpenTree ==
    /\ Opening("tree")
    /\ IF TreeFails THEN Exit(1, <<>>) ELSE Start(<<>>, <<>>, [lines |-> <<>>, linked |-> FALSE])

ReadTreeRow ==
    /\ Reading("tree")
    /\ Continue(<<>>, [mem EXCEPT !.lines = Append(@, Row)])

-----------------------------------------------------------------------------
(* main(): the rows are linked *)

\* get_line_info_slow(); the row it stands for is the first one until it is set.
NewNode == [row |-> 1, parent |-> 0, count |-> 0, children |-> <<>>, filtered |-> FALSE]

\* csv_ht_get_value(): the node of a key, and the forest with it
Node(forest, key) ==
    IF Place(job.hash, forest.ht, key) # 0 THEN CellOf(job.hash, forest.ht, key)
    ELSE Len(forest.nodes) + 1
WithNode(forest, key) ==
    IF Place(job.hash, forest.ht, key) # 0 THEN forest
    ELSE [forest EXCEPT !.ht = Added(job.hash, @, key, Len(forest.nodes) + 1),
                        !.nodes = Append(@, NewNode)]

\* The first pass, for row i: its node gets a parent, which counts its children.
Counted(forest, lines, i) ==
    LET key == lines[i][KeyAt]
        up == lines[i][ParentAt]
        own == Node(forest, key)
        with == WithNode(forest, key)
        parent == Node(with, up)
        first == IsSet(job.filter) /\ key = job.filter[1] /\ \A j \in 1 .. i - 1 : lines[j][KeyAt] # key
    IN [WithNode(with, up) EXCEPT
            !.infos = Append(@, own),
            !.nodes[own].row = i, !.nodes[own].parent = parent,
            !.nodes[own].filtered = @ \/ first,
            !.nodes[parent].count = @ + 1]

\* Mutant: a child is put in front of the others.
AdoptedFirst(nodes, n) == [nodes EXCEPT ![nodes[n].parent].children = <<n>> \o @]
\* The second pass, for the node of a row: its parent gets one more child.
Adopted(nodes, n) == [nodes EXCEPT ![nodes[n].parent].children = Append(@, n)]

Linked(lines) ==
    LET start == [ht |-> NewHt(Len(lines)), nodes |-> <<>>, infos |-> <<>>]
        counted == FoldLeft(LAMBDA f, i : Counted(f, lines, i), start, [i \in DOMAIN lines |-> i])
    IN [counted EXCEPT !.nodes = FoldLeft(Adopted, @, counted.infos)]

\* More children than were counted: the second pass writes behind its array.
Overrun(nodes) == \E n \in DOMAIN nodes : Len(nodes[n].children) > nodes[n].count
\* Children that were counted and have another parent now: there is no array.
Missing(node) == node.count > 0 /\ node.children = <<>>

NewColumns ==
    (IF IsNew(job.indent) THEN <<[table |-> NoTable, name |-> job.indent[2], type |-> "string"]>> ELSE <<>>)
    \o (IF IsNew(job.sum) THEN <<[table |-> NoTable, name |-> job.sum[2], type |-> Header[SumAt].type]>> ELSE <<>>)
    \o (IF job.level THEN <<[table |-> NoTable, name |-> "level", type |-> "int"]>> ELSE <<>>)

LinkRows ==
    /\ AtEnd("tree") /\ ~mem.linked
    /\ LET forest == Linked(mem.lines) IN
       \/ Overrun(forest.nodes) /\ Die("crashed")
       \/ /\ hdr' = Header \o NewColumns
          /\ mem' = [lines |-> mem.lines, linked |-> TRUE, nodes |-> forest.nodes,
                     infos |-> forest.infos, next |-> 1]
          /\ UNCHANGED <<given, pc, status, in, pos, cols, out>>

-----------------------------------------------------------------------------
(* aggregate() and process() *)

LineOf(n) == mem.lines[mem.nodes[n].row]

\* Integers are checked, floats are not.
Plus(v, w) ==
    IF v.type = "float" THEN Computed("ADD", <<v, w>>)
    ELSE IF v.value + w.value \in MinInt .. MaxInt THEN Llong(v.value + w.value) ELSE Failed

Aggregate ==
    LET sum[n \in DOMAIN mem.nodes] ==
            LET own == Converted(Pchar(LineOf(n)[SumAt]), Header[SumAt].type)
                With(v, child) ==
                    IF ~IsValue(v) THEN v ELSE IF ~IsValue(sum[child]) THEN sum[child] ELSE Plus(v, sum[child])
            IN IF ~IsValue(own) THEN own
               ELSE IF Missing(mem.nodes[n]) THEN Crashed
               ELSE FoldLeft(With, own, mem.nodes[n].children)
    IN sum

\* indent_column()
Indented(text, lvl) == [i \in 1 .. 4 * lvl |-> Space] \o text

\* The row of a node as it is printed
Line(n, lvl) ==
    LET row == LineOf(n)
        sum == TextOf(Aggregate[n])
        Shown(c) ==
            IF c = IndentAt /\ ~IsNew(job.indent) THEN Indented(row[c], lvl)
            ELSE IF c = SumAt /\ ~IsNew(job.sum) THEN sum
            ELSE row[c]
    IN [c \in DOMAIN row |-> Shown(c)]
       \o (IF IsNew(job.indent) THEN <<Indented(row[IndentAt], lvl)>> ELSE <<>>)
       \o (IF IsNew(job.sum) THEN <<sum>> ELSE <<>>)
       \o (IF job.level THEN <<<<lvl>>>> ELSE <<>>)

\* What process() prints for a node and below it; None in it is a crash.
Process ==
    LET lines[n \in DOMAIN mem.nodes, lvl \in 0 .. Len(mem.nodes), above \in BOOLEAN] ==
            LET print == above \/ mem.nodes[n].filtered
                own == IF print THEN <<Line(n, lvl)>> ELSE <<>>
                Child(c) == lines[c, IF print THEN lvl + 1 ELSE lvl, print]
                children == mem.nodes[n].children
            IN own \o (IF Missing(mem.nodes[n]) THEN <<None>>
                       ELSE FlattenSeq([i \in DOMAIN children |-> Child(children[i])]))
    IN lines

Tree(n) == Process[n, 0, ~IsSet(job.filter)]

\* The parent of a root is a node that no row has set.
IsRoot(n) == mem.nodes[mem.nodes[n].parent].parent = 0

Walking == AtEnd("tree") /\ mem.linked

\* The next row is no root ...
PassBy ==
    /\ Walking /\ mem.next <= Len(mem.infos)
    /\ ~IsRoot(mem.infos[mem.next])
    /\ Step([mem EXCEPT !.next = @ + 1])

\* ... or its tree is summed up and printed; a sum that fails ends the program.
PrintTree ==
    /\ Walking /\ mem.next <= Len(mem.infos)
    /\ IsRoot(mem.infos[mem.next])
    /\ LET n == mem.infos[mem.next]
           printed == Tree(n)
           sum == IF IsSet(job.sum) THEN Aggregate[n] ELSE Llong(0)
       IN \/ sum = Failed /\ Exit(1, <<>>)
          \/ sum = Crashed /\ Die("crashed")
          \/ IsValue(sum) /\ None \in Range(printed) /\ Die("crashed")
          \/ /\ IsValue(sum) /\ None \notin Range(printed)
             /\ out' = out \o printed
             /\ mem' = [mem EXCEPT !.next = @ + 1]
             /\ UNCHANGED <<given, pc, status, in, pos, cols, hdr>>

EndTree == Walking /\ mem.next > Len(mem.infos) /\ Exit(0, <<>>)

NextTree == OpenTree \/ ReadTreeRow \/ LinkRows \/ PassBy \/ PrintTree \/ EndTree

-----------------------------------------------------------------------------
(* Properties, stated over the rows and their keys alone *)

Key(i) == Rows[i][KeyAt]
DistinctKeys == \A i, j \in DOMAIN Rows : Key(i) = Key(j) => i = j
Texts == {Rows[i][c] : i \in DOMAIN Rows, c \in {KeyAt, ParentAt}}

\* From a row up to the row whose parent is no row; on a cycle it gets too long.
Path(i) ==
    LET Up(path) ==
            LET above == {j \in DOMAIN Rows : Key(j) = Rows[Head(path)][ParentAt]}
            IN IF above = {} THEN path ELSE <<CHOOSE j \in above : TRUE>> \o path
    IN FoldLeft(LAMBDA path, j : Up(path), <<i>>, Rows)
HasRoot(i) == Len(Path(i)) <= Len(Rows)

\* If no two rows have the same key, and the hash table has one node for each of
\* them, the rows that have a root are printed, with -f those on whose path the
\* key is, each once; in the order of their paths, so that every subtree comes
\* right behind its row; with the length of its path as level, and the total of
\* its subtree as sum.  The others, which are their own ancestors, are not
\* printed.  Only rows with the same key can make it crash.
TreeRight ==
    job.tool = "tree" =>
        /\ pc = "crashed" => ~DistinctKeys
        /\ pc = "exited" /\ status = 0 /\ DistinctKeys /\ Len(mem.nodes) = Cardinality(Texts) =>
            LET At(path) == IF ~IsSet(job.filter) THEN 1
                            ELSE SelectInSeq(path, LAMBDA j : Key(j) = job.filter[1])
                shown == {i \in DOMAIN Rows : HasRoot(i) /\ At(Path(i)) # 0}
                order == SetToSortSeq(shown, LAMBDA i, j : Less(Path(i), Path(j)))
                Total(i) ==
                    FoldSet(LAMBDA j, sum : Computed("ADD", <<Converted(Pchar(Rows[j][SumAt]), Header[SumAt].type), sum>>),
                            Converted(Pchar(<<0>>), Header[SumAt].type),
                            {j \in DOMAIN Rows : HasRoot(j) /\ i \in Range(Path(j))})
                Same(field, v) == Converted(Pchar(field), v.type) = v
            IN /\ Len(out) = Len(order)
               /\ \A k \in DOMAIN order :
                    LET i == order[k]
                        lvl == Len(Path(i)) - At(Path(i))
                        kept == Len(Header)
                    IN /\ Len(out[k]) = Len(hdr)
                       /\ \A c \in (1 .. kept) \ {IndentAt, SumAt} : out[k][c] = Rows[i][c]
                       /\ job.level => Last(out[k]) = <<lvl>>
                       /\ IsSet(job.indent) =>
                            out[k][IF IsNew(job.indent) THEN kept + 1 ELSE IndentAt] = Indented(Rows[i][IndentAt], lvl)
                       /\ IsSet(job.sum) =>
                            Same(out[k][IF ~IsNew(job.sum) THEN SumAt
                                        ELSE IF IsNew(job.indent) THEN kept + 2 ELSE kept + 1], Total(i))
=============================================================================
