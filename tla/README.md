# csv-nix-tools in TLA+

csv-nix-tools is a collection of about 48 small C programs that pass CSV
streams to each other through pipes. This directory holds TLA+ models of the
parts in which something can go wrong that a test hardly reaches, the TLC
configurations that check them on small instances, and theorems about them
with proofs checked by TLAPS. Paths below are relative to the repository.

To check a model: `tlc -config MCCsvDiff2.cfg MCCsvDiff`; to check proofs:
`tlapm CsvDiffProofs.tla`.

## The system

Every tool is one process: it reads a header line, calls `csv_read_all()` with
a callback for each row, and prints a stream of the same kind. The processes
interact through pipes only, except where a tool starts others: with `-s` or `-S`
every tool starts csv-show, csv-peek may start one, and csv-add-exec and csv-exec
run commands.

| part | state | operations | what makes it hard | what makes it correct |
|---|---|---|---|---|
| parser, `parse.c` | buffer, scanning position, column offsets, two quoting flags | `csv_read_header`, `csv_read_all` | rows, values and doubled quotes cut anywhere by a chunk; the buffer moves and grows under the offsets | the rows delivered are those the text stands for, in order; the result tells how the stream ended |
| quoting, `utils.c` | none | `csv_print_quoted`, `csv_unquot`, `csv_print_line` | must agree with the parser | what a tool prints, another one reads back |
| `csv-diff`, `diff.c` | a thread, a mutex, a condition and a parked row per input; two counters under a global mutex | reader threads, row callback, comparing main thread | threads meet for every row, the rows are compared in place in the parsers' buffers | a sequential walk over all files: same lines, same order, same exit status; no hang |
| hash table, `ht.c` | buckets with chains, two counters | get or create, resize | the table grows between the hashing and the insertion | a key has one value for ever |
| `csv-add-exec` | two pipes, a child process, a reused buffer | a command per row | both processes can block on pipes or die at any time | each row gets its command's output; failures are told; it ends |
| `csv-show`, `show*.c` | table, first and selected row, horizontal offset, colour caches | about 15 keys, resizing | unsigned positions, long sequences of keys, any size of terminal | the selection is on the screen, the screen in the table |
| row filters: head, tail, tac, uniq, cut, cat, count, grep | at most a ring of rows or the last values | one callback each | limits, first and last row, rows of other tables | the right rows in the right order |
| aggregates: sum, min, max, avg | accumulators | callback, print at the end | overflow, no rows at all | the mathematical result or an error |
| column builders: add-concat, add-replace, add-rev, add-split, add-substring | none | callback | empty patterns, positions at the ends, groups that do not take part | every row is printed with the values its new columns are defined to have; header and rows have the same number of columns |
| `csv-header` | with `-G` all rows and a type per column | changes of names and types, guessing | a type must hold for rows seen long before | what is guessed is true of every value |
| `csv-sort` | all rows, an index | comparison, `qsort_r` | equal numbers with different text, several columns | a total preorder, lexicographic over the columns |
| `csv-merge` | inputs with their columns | callback per input | tables with different columns | a rectangular result |
| `csv-tree` | hash table of nodes, children lists | two passes, aggregation, filter | unknown parents, cycles, duplicate keys | each row is printed once, below its parent |
| RPN: rpn_parse, rpn_eval, regex_cache | stack, cache of 10 compiled expressions, table of sequences | parse, type check, evaluate | types of operands, operators that fail half-way, reuse of cache entries | an expression has the value and the type it has when read as a tree, whatever was evaluated before |
| SQL: sql.l, sql.y.in, sql-shared.h, sql.c, add-sql.c, grep-sql.c | parsed query; stack, cache and sequences of RPN; rows kept for ORDER BY | parse a query, WHERE, SELECT, ORDER BY | names that stand for expressions; types nobody checks; several sort expressions, each with a direction | the rows for which WHERE is true, with the values of the columns, in the order asked for |
| csv-sqlite | an external database, a prepared statement per table | create the tables of each input, insert rows, run the statements, print one result | one stream carries several tables whose columns come in any order; rows are bound by counting columns | rows go to their own table and columns, and come back under their own names |
| exec, peek, plot, `csv_show()` | pipes, a child, stdio buffers in every process | fork and exec | shared standard input, exit statuses, SIGPIPE, ends of pipes that stay open | what is shown and run was sent; the exit status tells; all processes end |
| printf, to-html, to-json, to-xml, sources (ls, ps, netstat, users, ...) | none | format rows | formatting and system calls only | - |

## What is modelled

| module | code | |
|---|---|---|
| `DiffInputs` | `diff.c`: inputs, options, comparison of rows | constants and operators shared by the next two |
| `LockstepDiff` | what csv-diff promises | abstract: one sequential program that walks all files |
| `CsvDiff` | `diff.c`: `thr_work`, `next_row`, `thread_data_ready`, `gather_and_compare`, `main` | detailed: threads, mutexes, conditions; implements `LockstepDiff` |
| `CsvDiffProofs` | | proofs about `CsvDiff` |
| `CsvText` | `utils.c`: quoting; the meaning of a CSV text | operators |
| `CsvParse` | `parse.c`: `csv_read_all` | chunks, buffer, scanning |
| `CsvParseProofs` | | proofs about `CsvParse`, and about quoting |
| `HtTable` | `ht.c` | the table as a value, shared by `CsvHt`, `RpnEval` and `TreeTool` |
| `CsvHt` | `next` of `rpn_eval.c` | calls of the table, in any order and with any hashes |
| `CsvHtProofs` | | proofs about `CsvHt` |
| `AddExec` | `add-exec.c` | parent, command and two pipes |
| `AddExecProofs` | | proofs about `AddExec` |
| `RowStreams` | the loop around `next_row()`, column selection, passing on of rows of other tables (`utils.c`, `uniq.c`, `cut.c`, ...) | state and actions shared by the tools |
| `RowValues` | selecting columns and rows, division of C, `strcmp()` | pure operators of the tools, the part of `RowStreams` without state |
| `RowFilters` | `head.c`, `tail.c`, `cat.c`, `tac.c`, `cut.c`, `uniq.c`, `grep.c`, `count.c` | one action per phase of a tool |
| `Aggregates` | `sum.c`, `min.c`, `max.c`, `avg.c` | accumulators, overflow, the row of results |
| `SortRows` | `sort.c` | comparison of rows, order |
| `MergeRows` | `merge.c` | columns of all inputs |
| `TextTools` | `utils.c`: substrings, replacement of strings | operators |
| `Rpn` | `rpn_parse.c`, `rpn_eval.c` | values, and what each operator makes of them |
| `RegexCache` | `regex_cache.c` | the ring of compiled expressions as a value |
| `RpnEval` | `rpn_eval()`, `rpn_expression_type()` | the stack machine, one step per token, shared by the next two |
| `RpnTools` | `add-rpn.c`, `grep-rpn.c` | csv-add-rpn, csv-grep-rpn |
| `SqlTools` | `sql.c`, `add-sql.c`, `grep-sql.c`, `sql-shared.h`, the actions of `sql.y.in` | csv-sql, csv-add-sql, csv-grep-sql |
| `ColumnTools` | `add-concat.c`, `add-replace.c`, `add-rev.c`, `add-split.c`, `add-substring.c`, `header.c` | new columns, changed and guessed headers |
| `TreeTool` | `tree.c` | the forest, its sums, the walk |
| `SqliteTool` | `sqlite.c` | tables loaded from all inputs, the statements, the result |
| `RowTools` | | all these tools together, and what each promises of a whole stream |
| `RowToolsProofs` | | proofs about the ring of csv-tail, the sums of csv-sum and csv-avg, the cache of expressions, the types of RPN expressions, what the row filters, the aggregates, csv-sort and csv-merge print, and the rows of other tables under `-T` |
| `Pipes` | pipes and stdio; `parse.c` as a process that reads | base of `Pipeline` |
| `Pipeline` | `csv_show()` of `utils.c`, `show.c` and `show_static.c` for `-s`, `peek.c`, `exec.c` | processes that share streams |
| `PipelineProofs` | | proofs about csv-exec, csv-show and csv-peek in `Pipeline` |
| `ShowUi` | `show_ncurses.c`: the loop of `curses_ui` | positions and keys |
| `ShowUiProofs` | | proofs about `ShowUi` |
| `SeqLemmas` | | lemmas about sequences and induction that the proofs share |

`MC*.tla` give the constants that a configuration file cannot express.
Operators with the comment "Mutant:" stand before the definition they would
replace. No specification uses them: each is a plausible mistake in the code
which makes some property of the project fail, so that the property is known to
say something.

### csv-diff

A step of `CsvDiff` is the code between two operations on a mutex or a
condition. `wpc[i]` says where thread `i` is, `mpc` where the main thread is.
A row is `Torn` from the moment its thread returns to the parser, because the
parser then moves its buffer. Columns that differ in order between files are
permuted by `idx[]` when they are read, so a row of the model is already
permuted; colours and header lines do not influence the rendezvous and are left
out. `cnd_wait` may wake up for no reason (`SpuriousWakeup`). The end of the
process, from whichever thread, is one step: that two threads can call `exit()`
at the same time when one input is corrupted and others have ended is not
looked into.

`LockstepDiff` has no threads: judge the next row of every file, report its
lines one by one, or end. `CsvDiff` implements it with the refinement mapping
`line = cur` while lines are printed and `0` otherwise; a step of a thread is a
stutter. The abstract specification allows a corrupted file to end the process
after its last row at any time, because its thread does.

### Parser

A step of `CsvParse` is one iteration of the scanning loop or one `fread()`.
`text` is the stream behind the header line; it is either any short text or
what another tool prints for a small table. `CsvText!Meaning` says what a text
stands for with no buffer, chunk or offset. The callback stops for a chosen row
or never; `fread()` and `realloc()` may fail.

### Hash table

`HtTable` has the table as a record and the functions of `ht.c` as operators.
In `CsvHt`, `cells` are the values created so far and `ht.kvs` the chains of their
indices. `hash` is any function from keys to small numbers. A call is one step: the code
is sequential.

### csv-add-exec

A command is any program that reads all of its input or none and writes a fixed
number of bytes, in any order, and ends well, fails or is killed. A failing
command may end at any time. Writing to a full pipe blocks. Bytes of the output
are numbered per row, so that a byte of another row or a missing one shows.

### Tools that read rows

`RowTools` is one process that runs one of 27 tools: `job` is its command
line, `inputs` its streams. A tool opens its inputs, prints a header and then
makes one step per call of `next_row()`: `in` and `pos` say which row comes next,
`cols` is the selection of columns made at the start, `mem` what the tool keeps
between rows (the ring of csv-tail, the last values of csv-uniq, sums), `hdr` and
`out` what it has printed. Reading and quoting are the business of `CsvParse` and
`CsvText`, so that a row is a sequence of texts here, and a text is a sequence of
numbers: its first element is the number it stands for, if it is used as one, the
rest its spelling. The empty text stands for 0, because `strtoll_safe()` takes it;
a number out of range stands also for a text that is no number.

A header may have a name twice. csv-cat and csv-tac print the first input as it is
and look up the columns of the others by name (`IndexIn`); a name means the first
column that has it, but `*` of csv-sql takes every column by its place (`ColumnOf`).
A column may also be chosen twice. csv-uniq, and csv-sum, csv-min, csv-max and csv-avg with
`-T`, then write behind an array with one entry for each column of the input when
the selection is longer than that (`PastEnd`; `src/uniq.c:169`, `194` and `214`,
`src/sum.c:291`). This is undefined: `OverrunUniq` and `OverrunAggregate` let the
tool crash at any step, and the other actions let it go on as if it had room, which
it does when the allocator has rounded the array up. In a table of five columns or more the overrun of
an aggregate can reach the array of column types as well; what would be printed then is not
modelled. csv-sum without `-T` refuses the selection, csv-cut makes room for it.

The properties compare `out` with what each tool promises, stated over the whole
stream without ring, buffers or accumulators: `LinesRight` (head, tail, cat, tac,
count), `ChoiceRight` (cut, uniq, grep), `ResultRight` (sum, min, max, avg),
`SortRight` and `MergeRight`. `OverflowTold` says when a sum must fail, and that it
fails only then; `OtherTablesKept`, that with `-T` the rows of other tables come
out once each, in order, with their own values under their own columns.

csv-add-rpn and csv-grep-rpn take one step per token of an expression: the token
pushes a value, or an operator takes its operands and pushes the result, fails,
crashes or goes on for ever. `RpnRight` compares the rows printed with `Meaning`,
which reads the expression as a tree and knows neither a stack nor a cache;
`RpnTypesTold` compares the type in the header with the type of the value;
`CacheRight` says that the cache holds what its expressions compile to. Integers
wrap around at the width of `MaxInt`; floats are exact fractions, without rounding
or infinities. `regcomp()` is a constant, a function from the texts that match to
their groups. `replace_re()` reads `matches[9]`, which nobody has set: `%9` stands
for any text, a failure or a crash.

The SQL tools run on the same stack machine. The grammar pushes the tokens of an
expression in postfix order, so that a query of `SqlTools` is made of such
sequences: the columns of SELECT, WHERE, ORDER BY. What the parser does with a name
when it meets one is modelled: `Resolved` replaces the name of a column already
selected by a copy of its tokens, any other is one of the input. csv-sql evaluates
WHERE, then the columns, or keeps the row with the values to sort it by; when all
rows are read, `SortSql` orders them and `SelectSql` goes on with the rows in that
order. `SqlRight` compares what is printed with the meaning of the
expressions, over the whole stream: the rows for which WHERE is true, and, with ORDER BY, an order
in which the first expression that differs decides in its direction. It also says
when the tools may fail, abort or crash. The assertion of `cmp()` that the values of
two rows have one type is part of it (`sql.c:311`).

The builders and csv-header are compared in `ColumnsRight` with what their options
define: the substring as SQL has it, the non-overlapping occurrences of a pattern
replaced, a cut at the first or the last separator, the narrowest type that fits
all values. A replacement is bad only for a `%` that no digit or `%` follows; one
may use all of `%0` to `%9` (`BadTemplate`).

csv-tree numbers the nodes its hash table creates. `Linked` is the two passes over
the rows, with the table that may give a key a second node when it grows, and with
rows that share a node because they have the same key; the second pass may then
write behind an array, or the walk read one that was never made (`crashed`).
`TreeRight` is stated over the rows alone, by the path from each row up to its root:
the rows with a root come out once, in the order of their paths.

csv-sqlite builds the tables of an input from its header (`FileTables`), which fails if
one of them cannot be created, puts each row into the table that `_table` names, and
goes on to the next `-i`. `Home` is the search for the table of a column: it compares
names only as far as the one of the column goes, so `Shorter` says which names are
beginnings of others. The database is external: a select gives all combinations of
the rows of its tables, a delete empties one, and a column converts the values it can
(`Affinity`). `SqliteRight` is stated over the streams: the tool succeeds if and only
if every column and row has a table of its own and the statements can be answered, and
prints the columns and rows of the tables the first select names.

`csv_qsort_r()` is any order in which no two neighbours are out of order. The
library's merge sort compares all rows that end up next to each other, so this is
all that is known even though the comparison is not transitive.

### csv-show

A step of `ShowUi` is a key with the layout of the screen that follows it (the
loop starts with it). Positions are unsigned: `Wrapped` is arithmetic modulo
`Wrap`. The model is of the build with assertions, as a checkout of the
repository is built; a release build goes on where the model aborts. Drawing is
left out, and so are keys that do nothing.

### Processes

A stream in `Pipes` is a sequence of pieces, two to a row, so that a row can be cut
by a full pipe, a full stdio buffer or a full parser's buffer. `readers` and
`writers` are the processes that hold an end of a pipe, `pend` and `due` what a
process has printed and how much of it is being written, `ctx` what its `FILE` and
its parser have read. A process that exits writes its buffers first; one that is
killed, by a signal or by a pipe nobody reads, loses them. In `Pipeline` a job is
one of three shapes: a tool with `-s`, whose parent becomes csv-show or fails to;
csv-peek, with or without a viewer, before a reader that may end at any time; and
csv-exec, whose commands may read from its standard input and end in any way.

`ViewRight` relates what is on the terminal to what was sent; `ExecRight` relates the
rows commands were run for to what is left of the stream when the pieces the
commands took are cut out; `AllEnd` says that no process stays behind.

## Runs

| run | instance | question |
|---|---|---|
| `diff_two` | 2 files of up to 2 rows with one column of 2 values, corrupted or not, all options, one spurious wakeup | all properties of csv-diff |
| `ht` | 4 keys, hashes 0..3, 7 calls, table of one bucket | properties of the table |
| `ht_next` | the same | *violated:* `NextCountsUp` |
| `parse` | all texts of up to 5 characters of 4 kinds in 1 or 2 columns, and printed tables, read by 1 and 3 characters | rows, result, buffer, round trip, termination |
| `add_exec` | 2 rows, pipes of 3 bytes, outputs that fit and that do not | output, input, exit status, termination |
| `add_exec_ends` | the same | *violated:* `AlwaysEnds` |
| `show` | tables of 0, 1 and 5 rows, terminals of 1 to 5 lines, resizing | positions |
| `show_assert` | the same | *violated:* `AssertionHolds` |
| `row_tools` | all streams of up to 3 rows of 6 kinds, with and without tables, pairs of streams, for the filters, aggregates, sort and merge with their options; about 700 expressions over three columns, and queries with WHERE, names, stars and up to two sort expressions; texts of up to 4 letters for the builders; headers with a name twice and columns chosen twice; forests of up to 4 rows; one or two inputs for csv-sqlite, with and without `-T`, with tables in any order and names that begin alike, and up to three statements; `LLONG_MAX` is 3, the cache has 2 slots | output, overflow, other tables, the ring, expressions and their types, the cache, columns, trees, queries, the database |
| `sort_order` | the streams for csv-sort only | *violated:* `SortedByAll` |
| `rpn_abort` | csv-grep-rpn with a float, an integer and an arithmetic operator | *violated:* `NeverAborts` |
| `pipeline` | streams of up to 3 rows of two pieces, cut off or corrupted; pipes of 2 pieces, stdio buffers and parser buffers of 3 | view, commands, end of all processes |

Bounds. In csv-diff nothing compares more than the next row of each file: two
rows give a first, a middle and a last meeting, equal and unequal lengths, and
differences that a later equal row must not hide. The proofs of
everything but `Termination` hold for any number of inputs and rows; that the
threads end is checked for two inputs. The proofs about the parser, the hash table,
csv-add-exec, csv-exec and csv-show hold for every size too, so that the bounds matter only
for what the list of properties under Proofs calls only model-checked. In the hash table 4 keys force two growths
from one bucket, with keys inserted before, at and after each of them. In the
parser the chunk is shorter than a row and than a value, so that every state of
the scanner meets the end of a chunk. In csv-add-exec an output is shorter than,
as long as or longer than a pipe, and the buffer of one byte doubles several
times. In the tools that read rows, three rows fill a ring of
one, two or three lines or go round it, repeat a value with another between, and
make a sum leave the range from -4 to 3 on both sides and come back; two columns
are enough for a first that decides and one that must not; the second of two
streams has its columns in another order, of another type, or one more or less.
The
expressions have every operator with operands of every type and of the values at
the ends of its range, two operators in every shape, and three expressions that
push each other out of a cache with two slots; a few read a column of arrays. The queries name a
column before and after it is there, sort three rows by two expressions in both
directions, and have conditions of every type. The texts have occurrences of
a pattern that overlap, that differ in case only, and at both ends. Three rows make
every forest with a child before its parent, a cycle, a self-parent and equal keys;
the four of `LargeForests` make the table of keys grow. In the pipeline two pieces fill
a pipe and three a buffer, so that neither is a whole number of rows and a process
can block, end or be killed in the middle of one.
In csv-show a screen holds none, one, some or all of the rows.

Deadlock is not checked where the system really stops: the hash table has made
all calls, the interface or the process has ended, or csv-add-exec hangs, which
is what `add_exec_ends` is about. In `CsvDiff`, `CsvParse`, `RowTools` and
`Pipeline` it is checked; there the ended processes stutter.

### What the violated runs show

* `ht_next`: `csv_ht_get_value()` computes the bucket before `resize()` and uses
  it after (`src/ht.c:161`, `:175`, `:178`). The key that makes the table grow may
  land where no lookup looks. The next call of `next` for it returns 1 again.
  csv-tree uses the table for nodes and is affected too. `AtMostOneMisplaced` and
  `OtherKeysRight` say how far the damage goes: only that key, and only until the
  next growth.
* `add_exec_ends`: `wait()` comes before the output is read (`src/add-exec.c:218`,
  `:246`). A command that writes more than a pipe holds (64 KiB on Linux) blocks
  for ever, and csv-add-exec with it: `csv-add-exec ... -- head -c 70000 /dev/zero`.
  `EndsIfOutputFits` is the guarantee that is left.
* `show_assert`: with no room for a row the key End sets `first_line` behind
  `selected_line`, and the assertion at `src/show_ncurses.c:609` fails.
  `AbortsOnlyWithoutRoom` says that this is the only case.
* `rpn_abort`: `expression_type()` gives arithmetic and `if` the type of the token
  before them (`src/rpn_parse.c:329`), so `%float 1 +` passes for an integer, and
  `next_row()` of csv-grep-rpn aborts on its value (`src/grep-rpn.c:76`).
  csv-add-rpn writes the wrong type into its header. `RpnTypesTold` says that only
  a float told to be an integer, and only through one of these operators, is
  wrong; with `%float 1 +` it is the *last* operand that counts.
* `sort_order`: `cmp()` gives up at the first int column whose texts differ, also
  when they stand for one number (`src/sort.c:118`): `1,2` may come before `01,1` or
  after it, whatever the second column says. `SortRight` is what is left: rows are
  sorted by all columns if no number is spelled in two ways, and by the first
  column in any case.

Smaller observations, in the properties' own words: the selection can be off the
screen after the terminal became smaller (`SelectedShown` excepts it); with one
row on the screen, the page keys of the non-interactive view do not move; a key
action on an empty table is given a row that does not exist (`PrintsRows` excepts
it); a last row without a newline is dropped and the result is still 0
(`ResultRight`); csv-min and csv-max of a string column without a row read a null
pointer (`src/max.c:333`, the state `crashed` of `Aggregates`); csv-merge prints one
field too many when `_table` is the last column of an input (`MergeRight` excepts it,
`Trailing` models it); csv-sum puts no separator behind leading empty strings;
csv-sort compares strings with their quotes, csv-min and csv-max without.
csv-header `-G` calls a column float when an int in base 2 comes before a float
(`src/header.c:76`; `GuessRight` excepts it), and of two changes of one column it
takes the first, so that `-n a,b -e a:int` loses the type. csv-add-rev prints
quotes as they are, so that what it prints may be no value (`src/add-rev.c`).
csv-add-rpn `-T` with several expressions gives the rows of other tables one empty
field (`src/add-rpn.c:144`). A
column of SELECT that is an expression without AS has no name, and the next name in
the query is compared with it: `select id / 2, name` hands a null pointer to
`strcmp()` (`src/sql-shared.h:41`), although csv-sql(1) says that AS may be left out.
A name that stands for a string copies the pointer, and `rpn_free()` frees the string
twice after all rows are printed (`src/rpn_parse.c:374`). In `select a as b, b` the
second `b` is the first, also if the input has a column of that name. A WHERE that
is no integer aborts at the first row (`src/sql.c:109`); csv-grep-sql refuses such
an expression at the start. An empty pattern never ends, or ends without memory
(`src/utils.c:115`). A substring of length 0 from position 0 is the whole text
(`src/utils.c:708`). `like` computes its buffer as three times the pattern, which
is too small for the shortest patterns; the model has no buffer there.
csv-tree with two rows of the same key can write behind an array or follow a null
pointer (`src/tree.c:418`); rows on a cycle are printed nowhere, and a key whose
insertion made the table grow can have two nodes. csv-sqlite `-T` adds a column to an earlier table whose name only begins
with the column's (`src/sqlite.c:336`: `us.id` goes to a table `users`, see
`Swallowed`): the rows of the shorter table are refused, and those of the longer one are
put into its columns by counting, so that a value can end up under a column of the
other table without a word; csv-sqlite(1) says that each table is imported into its
own SQL table, and `SqliteRight` holds for streams without such names. Without a
`_table` column, `-T` aborts at the first row (`src/sqlite.c:75`). The types in the header it
prints are those of the values in the first row, so a table without rows comes back with
columns of strings. csv-peek drops a last row that is
not complete although it is said to pass the stream on unchanged; the shell sees
the status of csv-show and not of the tool before it, so a table that was cut off
by an error is shown with status 0; a command run by csv-exec that reads its
standard input takes rows away from it, and the rest of a row it has cut joins
the next one.

### Fairness

`CsvDiff`: every thread that can make a step makes one in the end. The code
leaves scheduling to the kernel, and each mutex is free again after a bounded
piece of code of its owner; spurious wakeups are never owed. `CsvParse` is
sequential: it is run. `AddExec`: both processes are scheduled, and the command
does not wait for anything but its pipes. Failing of system calls is never owed.
`ShowUi` has no liveness property: it waits for the user. `RowTools` has none
either: each step takes a row or a token, or ends. `Pipeline`: the tool, csv-show,
csv-peek and csv-exec are each scheduled; a command, and the reader behind csv-peek,
ends of itself at some time but need not read (a command that waits for something
else for ever makes csv-exec wait for ever, and that is right).

## Proofs

`CsvDiffProofs` assumes what `DiffInputs` and `CsvDiff` assume: at least two
inputs, files that are sequences of rows with a flag, a natural bound of spurious
wakeups. `IInv` strengthens the properties with what the code relies on silently:
which threads have been counted in the current round, that `ThreadsReady` is
their number and `Eofs` the number of those at their end, that a thread waits for
its mutex only with a row parked, how far its position is from the main thread's
round, and what the differences seen so far say about `ret`. None of the
properties is inductive alone: that the buffers hold one round's rows, for
instance, needs that all threads are parked, which needs that the counter counts
each thread once. The invariance proof has one lemma per action; the counting
arguments use cardinalities of the sets of counted threads. The refinement
theorem takes the invariant for granted and shows for each action that it is a
step of `LockstepDiff` or leaves its variables alone.

Proved for every value of the constants: `TypeOK`, `MutexUse`, `NoLostWakeup`,
`ReadsOneRound`, `NoRowSkipped`, `VerdictSound`, and `Contract`, the refinement.

`ShowUiProofs` proves of the interface `TypeOK`, `SelectedShown`,
`AbortsOnlyWithoutRoom`, `PrintsRows`, `PagingSkipsNothing` and `ColumnsShown`, for
every table and terminal small enough for twice their sizes not to wrap around (the
assumption `ShowUiAssumption` in `ShowUi`). The width of the table is the recursive
function `Width`; that it never falls from column to column, and that a key that
scrolls sideways moves by whole columns, is all that `ColumnsShown` needs of it.

`CsvParseProofs` proves `RowsInOrder`, `ResultRight`, `BufferBounded` and `RoundTrip` for
every text, number of columns, size of the chunks and growth of the buffer (positive
numbers: `CsvParseAssumption`). The reader that gives a text its meaning is a recursive
function over the places of the text (`States`), and the invariant relates what the
loop keeps to the state `Now` of that reader behind the last character scanned: the
buffer behind `i` and what `fread()` has not given yet are the rest of the text
(`Rest`); the columns ended so far lie between their offsets, each behind a NUL, and are
the columns of the reader's row (`OpenRow`); the two flags are its mode (`Mode`); the
rows given are its rows, and all of them ended before the place where the buffer starts
(`Given`). The properties are not inductive: they speak of rows, and a step of the loop
moves an offset. `BufferBounded` says that some stretch of the text in which no row
ends is as long as the buffer without its last growth (`Stretch`), so that a long
stream of short rows does not make it grow. `RoundTrip` follows from `RowsInOrder` and
from what the reader makes of a printed value: the quotes `csv_print_quoted()` doubles are
those `csv_unquot()` (`Unquot`, also a recursive function) makes single.

`CsvHtProofs` proves `NothingLost`, `AtMostOneMisplaced` and `OtherKeysRight` for any keys, any
hash function, any initial size and number of calls. `HtInv` says that every value
created is in exactly one place: the chains have no entry twice, no two chains have
an entry in common, and together they hold all (`Sound`); `collisions` is the number
of values less the number of buckets in use (`Counted`); an entry that is not in the
bucket of its key made the table grow, and there is at most one (`StraysStale`, `OneStray`);
and the value of every other key is the number of its calls (`CountersRight`). That
resizing keeps `Sound` is an induction over the entries moved: `resize()` takes them
from the old table one by one, and the table on the way holds those moved so far.
That at most one is astray after the insertion needs that resizing puts *all* of
those before it right.

`RowToolsProofs` proves `RingHoldsLast` for any number of lines and any stream.
`RingInv` says for each slot which row it holds: `RowAt(i, f, p, n)`, by whether the
slot is before or after the next one to be overwritten, and, while the ring is not
full, that slot `i` holds row `i + 1`. The property is about the ring read in two
pieces, from which one cannot tell what the next row overwrites. That the other
tools leave csv-tail's state alone is `TailSteps`.

It proves `OutputRight` (`OutputsRight`), for any options, any streams and any order the
sorting leaves open. That is one theorem per part:

* `LinesRight`, of csv-head, csv-tail, csv-cat and csv-tac. `LinesInv` says what is
  printed while rows are read; for csv-cat and csv-tac that every input fits the first
  header, that the inputs before this one are printed whole, and that the rows read of
  this one are printed or, by csv-tac, kept (`Filing`), both with the columns where
  `cols` has them. The property asks for each column where its name, table *and* type are
  in the input, the code looks for name and table only and compares the type after that:
  that both find the same column is `FirstNamesake`.
* `ChoiceRight`, of csv-uniq, csv-grep, csv-cut and csv-count. `ChoiceInv` has a part
  for each: what is printed are the rows read so far that should be chosen, and what
  csv-uniq remembers is the last row of the table, whatever rows of other tables came
  after it (`Uniqing`). The property does not mention that memory.
* `ResultRight`, of csv-sum, csv-avg, csv-min and csv-max. `ResultInv` adds to `SumInv`
  (below) what each accumulator is of the rows of the table read so far: the texts joined, with
  nothing before the first that is not empty (`Joining`), or a value that occurs and
  that none of them passes (`Unpassed`). That the division is towards zero is a lemma about
  `Quotient`.
* `SortRight`, of csv-sort. While rows are read, each is printed or kept as often as it was
  read, those of other tables printed, those of the table kept (`Gathering`). Any order
  of the kept rows in which no neighbour is above the next, by the comparisons of the
  code, is in the order of the columns. That is where spelling matters: the code stops
  at two numbers that are equal but spelled differently, and the columns after that decide nothing, so
  that its comparison is transitive over all columns only if no number is spelled in two ways,
  and over the first column always.
* `MergeRight`, of csv-merge. The columns an input contributes are in one piece in the merged header,
  behind those of the inputs before it (`MergedColumns`), no other column has their name and
  table, and the columns of the input are found again by them (`GivenPlace`). While rows are read,
  every row read so far is printed at its place (`Merging`).
* `TypeOK`, from the invariants of the others.

It proves `OtherTablesKept` (`OthersPassedOn`) for every tool the property names: the
aggregates, the builders, csv-cut, csv-uniq, csv-grep, csv-sort and the tools of RPN and SQL. What
they have in common is `Passing`. Each row of the output begins with columns of the input, in the
order of `Sources`: that of `params->cols` for the tools that move columns (`Movers`), their own order
for the others. The header agrees with that (`Carried`): column `_table` is among them, and of
each name of another table the first place in the output is the first in the input. And the rows of other
tables in the output are those read, one for one, with these values (`Matching`).
The tools look up a column by name and table and take the first, so the proof needs that
moving columns leaves the first of a name the first (`RearrangedCarries`, `FirstKept`), and that a
column put behind those of the input is never the first of a name they have (`BehindCarries`). What is printed at the end, the result of an aggregate
and the rows csv-sort has kept, are rows of the table itself (`AggregateEnds`,
`SortEndsPassing`). The evaluators print a row when its last expression is done, or at once if it is of
another table; what they print behind it is a sequence (`ValuesHeld`). Two assumptions say what a command line is: `SplitAssumption`, that
csv-add-split has its new names in an order, and `SqlAssumption`, that csv-add-sql has its
expressions and the columns of each in theirs.

It proves `OverflowTold` for any stream, any chosen columns and any `MaxInt`.
`SumInv` says, while the rows are read, that every accumulator is the sum of the
numbers in the rows before (`Sums`, a recursive function over the `Addends` of the
column, in which a row of another table counts 0), and that none of the sums before
has left the range (`Summing`). The assumption `RowStreamsAssumption` says what
an input is: a sequence of at least one stream, a header of at least one column, each with a
table, a name and a type, and rows of as many texts, as `csv_read_all()` makes sure; and what
a command line is: a natural number of lines, a list of columns, of which csv-uniq has one at
least, and for csv-merge inputs with one column `_table` at most, which it asserts
(`src/merge.c:80`). An empty `-c` of csv-uniq is not modelled.

It proves `CacheRight` for a cache of any size, any rows and any
expressions. `CacheTransparent` is about the cache alone: what `csv_regex_get()` returns
of a sound cache is what compiling anew returns. The invariant `CacheInv` adds to
soundness that the memory of the five tools of RPN and SQL has a cache at all (`Held`): no other
tool's action is enabled in their runs.

It proves `RpnTypesTold` for any expressions and any stream. The type that
`rpn_expression_type()` guesses is that of the last token that tells one, the type of the
value comes from a stack: `TypedAs` says of every place in an expression that the value
on the top of the stack has the type of the last telling token up to there, or is a float where
that token tells an integer and the last one is arithmetic or `if` (`Typing`). The
property speaks of the end of an expression only, and of a stack of one value; the
proof needs the top of the stack after every token, because arithmetic and `if` take
the type of their last operand, whatever it was made from. The assumption `RpnAssumption`
has at least one expression, and operators that `rpn_parse()` knows. The proof found what the
streams of the runs had left out: a column that holds arrays makes `rpn_eval()` abort
(`src/rpn_eval.c:1281`), also in csv-add-rpn, which checks no types; the property says
so now, and `ArrayRuns` of `MCRowTools` has such columns.

`PipelineProofs` proves `ExecRight` for any stream, any sizes of pipe, stdio buffer and
parser buffer, any end of the source and any commands. `ExecInv` divides the stream:
what the source has not printed, what waits in its buffer and what is in the pipe are
parts of it that follow each other (`InOrder`), and what csv-exec has had, rows,
buffer and `FILE` together, is what is left of the rest when the pieces that commands
took are cut out (`HadRight`). The rows are whole, that is, `Parsed` makes the same rows of
their pieces; this has to be known of what is taken out of the buffer when a command
has just taken the pieces behind it. `Stages` says how far csv-exec and its command
have come together, and how the commands before have ended. The assumption
`PipesAssumption` has no corrupted piece in a header, and an exit status of the source
from 0 to 255, as the system has it.

It proves `ViewRight` under the same conditions, for csv-show behind a tool and for
csv-peek with csv-show and without. `ViewInv` has two parts. `Flows` follows the pieces:
what the first reader has had, what is in the pipe before it, what the source keeps
back and what it has not printed are the stream, in this order (`SourceFlow`); what
csv-peek has passed on and copied for csv-show are the rows it has taken, again with what is
on the way (`Copied`); and what a parser has taken is whole rows, none before the header, with
`eof` only behind a closed and empty pipe (`Reading`). `Control` says how far each process
may be when another is where it is, and what has been shown by then (`ShowStages`,
`PeekStages`): that csv-show prints nothing before it has all rows, that csv-peek relays
nothing before it has closed the pipe to csv-show, and that each keeps its end of a pipe
open while something is still to be written to it. `ViewRight` is not inductive: that
nothing is shown after an error, and that what is shown is all, is decided when the
last writer of the pipe has closed it, which is a fact about three processes. The proof has one
lemma per action and process, over lemmas about any process that reads or writes
(`RowKeeps`, `FreadKeeps`, `PullKeeps`).

Two of the model's definitions were put right by these proofs. In TLA+ a `CASE` whose
arms overlap has any of their values, while TLC takes the first: the start of the source in
`Pipes`, and division and conversion in `Rpn`, have arms that exclude each other now.

`AddExecProofs` proves `ColumnsRight`, `InputWhole` and `StatusTells` for any number of
rows, any lengths of inputs and outputs and any capacity of a pipe. Its invariant `IInv` says what holds in each phase of the parent: the bytes
of the input not yet written, in the pipe and read by the command are always the
whole column together (`InputInv`); while the output is collected, the pipe holds
the bytes that follow those in the buffer, and both together are all the command
wrote (`OutputInv`); and the lines printed are those of the rows before the current one, which
ended well (`LinesInv`). `ColumnsRight` alone is not inductive: that a line is
complete follows from the end of the output, which the parent sees only when the
command has ended and the pipe is empty.

`SeqLemmas` has what these proofs keep needing of sequences: prefixes, parts,
concatenation of many, selections, places, how often an element occurs, and induction, and what the
proofs need of the operators of `RowValues`. The library's induction theorems take an
operator, so induction is stated here with sets: a set of numbers that has 0 and with
each number the next has all of them (`NatSetInduction`), and what follows from it for
`0 .. n`, for the least member of a set and for sequences built by `Append`.

Only model-checked: liveness (`Termination`, `Terminates`, `EndsIfOutputFits`,
`AllEnd`), which is out of the prover's reach; `RpnRight`, `SqlRight`, `ColumnsRight` and
`TreeRight`, whose references are recursive operators or whose tools are (the lists of
tokens, the paths of a tree); and `SqliteRight`, whose reference folds over all inputs.

## Not modelled

* The SQL that csv-sqlite leaves to an external library, beyond whole tables; the scanner `sql.l` and
  the precedence of operators in `sql.y.in`, which are inputs of generators;
  `merge_utils.c`, which merges the tables of the sources for their option -M.
* csv-plot: it writes a script and becomes gnuplot. csv-printf, csv-to-html,
  csv-to-json, csv-to-xml: formatting of one row. The sources (ls, ps, netstat,
  users, groups, env): they copy what the system reports, and keep no state that
  anything depends on.
* Float columns of csv-sum, csv-min, csv-max, csv-avg and csv-sort: doubles
  neither overflow visibly nor fail there.
* Drawing and colours of csv-show, the widths of its static table, the pager.
* `token_next()`, which cuts the text of an expression into tokens; characters of
  more than one byte in csv-add-rev; times and the column lists of the sources in
  `utils.c`.
* The allocation wrappers, which end the process on failure, and the injection of
  faults into them, which serves the tests.

What is checked and not proved is named under Proofs, with the reason.
