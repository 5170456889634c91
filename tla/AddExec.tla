------------------------------ MODULE AddExec -------------------------------
(***************************************************************************)
(* csv-add-exec (src/src/add-exec.c): for each row of the chosen table it  *)
(* forks a command between two pipes, feeds it one column, waits for it to *)
(* end, and makes a new column of what it has written.                     *)
(*                                                                         *)
(* The command is any program that writes a fixed number of bytes and      *)
(* either reads its standard input to the end or none of it, in any order. *)
(* A pipe holds Capacity bytes: writing to a full one blocks, writing to   *)
(* one that nobody reads kills the writer (SIGPIPE).                       *)
(***************************************************************************)
EXTENDS Integers, Sequences, SequencesExt

CONSTANTS
    Capacity,       \* of a pipe
    Jobs,           \* rows: the column and what the command will do with it
    MaxRows         \* bound on the number of rows

Ok == "exits with status 0"
Fails == "exits with another status"
Dies == "is killed by a signal"

Row == [selected : BOOLEAN, length : Nat, reads : BOOLEAN, writes : Nat, ends : {Ok, Fails, Dies}]

ASSUME AddExecAssumption ==
    Capacity \in Nat \ {0} /\ MaxRows \in Nat /\ \A job \in Jobs : job \in Row

VARIABLES
    rows,       \* the rows of the stream and what the command does for each
    fed,        \* -c is given: the command gets a column on its standard input
    row,        \* the row next_row() is called for
    pc,         \* where next_row() is
    left,       \* write_all(): bytes of the column still to write
    inPipe,     \* child_in: bytes in the pipe
    inClosed,   \* child_in[1] is closed
    outPipe,    \* child_out: the bytes in the pipe, numbered from 1
    child,      \* the child process
    eaten, written, sawEof,     \* what the child has read and written
    buf, buflen,    \* input_buf up to readin; input_buf_len
    out,        \* lines given to stdio, each the row and its new column
    status      \* exit status, or Running

parent == <<row, pc, left, inClosed, buf, buflen, out, status>>
process == <<child, eaten, written, sawEof>>
vars == <<rows, fed, parent, inPipe, outPipe, process>>

Running == -1
KilledBySigpipe == 141  \* as the shell reports it
Bytes(n) == [k \in 1 .. n |-> k]
Least(a, b) == IF a < b THEN a ELSE b

Init ==
    /\ rows \in SeqOf(Jobs, MaxRows)
    /\ fed \in BOOLEAN
    /\ row = 1 /\ pc = "row" /\ left = 0 /\ inClosed = TRUE
    /\ inPipe = 0 /\ outPipe = <<>>
    /\ child = "none" /\ eaten = 0 /\ written = 0 /\ sawEof = FALSE
    /\ buf = <<>> /\ buflen = 0
    /\ out = <<>> /\ status = Running

Job == rows[row]
At(where) == pc = where /\ row <= Len(rows)
PrintColumn(column) == out' = Append(out, [row |-> row, column |-> column])

-----------------------------------------------------------------------------
(* next_row() *)

\* A row of another table gets an empty column.
OtherTable ==
    /\ At("row") /\ ~Job.selected
    /\ PrintColumn(<<>>)
    /\ row' = row + 1
    /\ UNCHANGED <<rows, fed, pc, left, inClosed, buf, buflen, status, inPipe, outPipe, process>>

\* Two pipe()s and fork(): the child closes the other ends before execvp().
Fork ==
    /\ At("row") /\ Job.selected
    /\ pc' = "feed"
    /\ left' = IF fed THEN Job.length ELSE 0
    /\ inPipe' = 0 /\ inClosed' = FALSE /\ outPipe' = <<>>
    /\ child' = "alive" /\ eaten' = 0 /\ written' = 0 /\ sawEof' = FALSE
    /\ UNCHANGED <<rows, fed, row, buf, buflen, out, status>>

\* pipe() or fork() fails.
ForkFails ==
    /\ At("row") /\ Job.selected
    /\ status' = 2
    /\ UNCHANGED <<rows, fed, row, pc, left, inClosed, buf, buflen, out, inPipe, outPipe, process>>

\* write_all()
Feed ==
    /\ At("feed") /\ left > 0 /\ child = "alive"
    /\ \E n \in 1 .. Least(left, Capacity - inPipe) :
          inPipe' = inPipe + n /\ left' = left - n
    /\ UNCHANGED <<rows, fed, row, pc, inClosed, buf, buflen, out, status, outPipe, process>>

\* write() to a child that has ended: what stdio has not written yet is lost.
BrokenPipe ==
    /\ At("feed") /\ left > 0 /\ child = "ended"
    /\ status' = KilledBySigpipe
    /\ \E n \in 0 .. Len(out) : out' = SubSeq(out, 1, n)
    /\ UNCHANGED <<rows, fed, row, pc, left, inClosed, buf, buflen, inPipe, outPipe, process>>

\* Mutant: the write end stays open while the child is waited for.
CloseInputLate ==
    /\ At("feed") /\ left = 0
    /\ pc' = "wait"
    /\ UNCHANGED <<rows, fed, row, left, inClosed, buf, buflen, out, status, inPipe, outPipe, process>>
\* Mutant: the write end is closed before everything is written.
CloseInputEarly ==
    /\ At("feed")
    /\ inClosed' = TRUE
    /\ pc' = "wait"
    /\ UNCHANGED <<rows, fed, row, left, buf, buflen, out, status, inPipe, outPipe, process>>
\* close(child_in[1])
CloseInput ==
    /\ At("feed") /\ left = 0
    /\ inClosed' = TRUE
    /\ pc' = "wait"
    /\ UNCHANGED <<rows, fed, row, left, buf, buflen, out, status, inPipe, outPipe, process>>

\* Mutant: the new column is read whatever became of the command.
WaitUnchecked ==
    /\ At("wait") /\ child = "ended"
    /\ pc' = "collect" /\ buf' = <<>> /\ buflen' = IF buflen < 1 THEN 1 ELSE buflen
    /\ UNCHANGED <<rows, fed, row, left, inClosed, out, status, inPipe, outPipe, process>>
\* wait(): nothing is read before the child has ended.
Wait ==
    /\ At("wait") /\ child = "ended"
    /\ CASE Job.ends = Ok ->
              /\ pc' = "collect" /\ buf' = <<>> /\ buflen' = IF buflen < 1 THEN 1 ELSE buflen
              /\ UNCHANGED status
         [] Job.ends = Fails -> status' = 3 /\ UNCHANGED <<pc, buf, buflen>>
         [] Job.ends = Dies -> status' = 4 /\ UNCHANGED <<pc, buf, buflen>>
    /\ UNCHANGED <<rows, fed, row, left, inClosed, out, inPipe, outPipe, process>>

\* Mutant: a full buffer is not enlarged.
EnlargedNever(len, readin) == len
\* A full buffer doubles: read() into no space would return 0, as at the end.
Enlarged(len, readin) == IF len = readin THEN 2 * len ELSE len

\* read_all(): what one read() returns
Readin == Least(buflen - Len(buf), Len(outPipe))

Collect ==
    /\ At("collect") /\ Readin > 0
    /\ buf' = buf \o SubSeq(outPipe, 1, Readin)
    /\ outPipe' = SubSeq(outPipe, Readin + 1, Len(outPipe))
    /\ buflen' = Enlarged(buflen, Len(buf'))
    /\ UNCHANGED <<rows, fed, row, pc, left, inClosed, out, status, inPipe, process>>

Collected ==
    /\ At("collect") /\ Readin = 0
    /\ PrintColumn(buf)
    /\ row' = row + 1 /\ pc' = "row" /\ child' = "none"
    /\ UNCHANGED <<rows, fed, left, inClosed, buf, buflen, status, inPipe, outPipe, eaten, written, sawEof>>

\* csv_read_all() returns, and main() with it.
End ==
    /\ row > Len(rows)
    /\ status' = 0
    /\ UNCHANGED <<rows, fed, row, pc, left, inClosed, buf, buflen, out, inPipe, outPipe, process>>

-----------------------------------------------------------------------------
(* The command *)

ChildReads ==
    /\ child = "alive" /\ Job.reads /\ ~sawEof
    /\ IF inPipe > 0
       THEN \E n \in 1 .. inPipe : inPipe' = inPipe - n /\ eaten' = eaten + n /\ UNCHANGED sawEof
       ELSE inClosed /\ sawEof' = TRUE /\ UNCHANGED <<inPipe, eaten>>
    /\ UNCHANGED <<rows, fed, parent, outPipe, child, written>>

ChildWrites ==
    /\ child = "alive" /\ written < Job.writes
    /\ Len(outPipe) < Capacity
    /\ written' = written + 1
    /\ outPipe' = Append(outPipe, written')
    /\ UNCHANGED <<rows, fed, parent, inPipe, child, eaten, sawEof>>

\* A command that fails may do so at any time.
ChildEnds ==
    /\ child = "alive"
    /\ Job.ends = Ok => written = Job.writes /\ (Job.reads => sawEof)
    /\ child' = "ended"
    /\ UNCHANGED <<rows, fed, parent, inPipe, outPipe, eaten, written, sawEof>>

-----------------------------------------------------------------------------
ParentStep ==
    \/ OtherTable \/ Fork \/ Feed \/ BrokenPipe \/ CloseInput
    \/ Wait \/ Collect \/ Collected \/ End

ChildStep == ChildReads \/ ChildWrites \/ ChildEnds

Next == status = Running /\ (ParentStep \/ ForkFails \/ ChildStep)

Spec == Init /\ [][Next]_vars

\* Both processes are scheduled; the command itself never waits for anything
\* but its pipes.
FairSpec ==
    /\ Spec
    /\ WF_vars(status = Running /\ ParentStep)
    /\ WF_vars(status = Running /\ ChildStep)

-----------------------------------------------------------------------------
(* Properties *)

\* Types.  A pipe never holds more than its capacity, and read_all() always
\* has room for one more byte.
TypeOK ==
    /\ row \in 1 .. Len(rows) + 1
    /\ pc \in {"row", "feed", "wait", "collect"} /\ inClosed \in BOOLEAN
    /\ left \in Nat /\ inPipe \in 0 .. Capacity
    /\ Len(outPipe) \in 0 .. Capacity
    /\ child \in {"none", "alive", "ended"} /\ sawEof \in BOOLEAN
    /\ pc = "collect" => Len(buf) < buflen
    /\ status \in {Running, 0, 2, 3, 4, KilledBySigpipe}

\* The new column of each row is all that the command wrote for that row and
\* nothing of an earlier one, although input_buf is shared between the rows and
\* grows while it is filled.
ColumnsRight ==
    /\ TypeOK
    /\ \A k \in DOMAIN out :
           out[k] = [row |-> k,
                     column |-> IF rows[k].selected THEN Bytes(rows[k].writes) ELSE <<>>]

\* A command that reads its input to the end reads all of the column.
InputWhole == child # "none" /\ sawEof => eaten = IF fed THEN Job.length ELSE 0

\* Status 0 says that there is a line for every row and that every command
\* ended well; 3 and 4 tell about the command of the first row that has no
\* line; and SIGPIPE is the fault of a command that left its input unread.
StatusTells ==
    /\ status = 0 =>
          Len(out) = Len(rows) /\ \A k \in DOMAIN rows : rows[k].selected => rows[k].ends = Ok
    /\ status = 3 => Len(out) = row - 1 /\ Job.ends = Fails
    /\ status = 4 => Len(out) = row - 1 /\ Job.ends = Dies
    /\ status = KilledBySigpipe => fed /\ (Job.ends = Ok => ~Job.reads)

\* If what each command writes fits into a pipe, csv-add-exec ends, in whatever
\* order the commands read and write.
EndsIfOutputFits ==
    (\A k \in DOMAIN rows : rows[k].writes <= Capacity) => <>(status # Running)

\* What csv-add-exec(1) says, "a new column produced by reading standard output
\* of an external command", whatever its length: the tool gets through.
AlwaysEnds == <>(status # Running)
=============================================================================
