------------------------------- MODULE Pipes --------------------------------
(***************************************************************************)
(* Processes that pipes connect, with stdio at both ends of each, and the  *)
(* parser of src/src/parse.c as the process that reads.                    *)
(*                                                                         *)
(* A stream is a sequence of pieces of rows; the last piece of a row has   *)
(* the end of the line.  A pipe holds Capacity pieces: writing to a full   *)
(* one blocks, writing to one that nobody can read kills.  stdio writes    *)
(* when StdioSize pieces have been printed, when the stream is closed and  *)
(* on exit().                                                              *)
(***************************************************************************)
EXTENDS Integers, Sequences, SequencesExt

CONSTANTS
    Capacity,
    StdioSize,
    Grow,       \* by how much the buffer of csv_read_all() grows
    Jobs        \* the pipelines, see Pipeline

ASSUME PipesAssumption ==
    /\ {Capacity, StdioSize, Grow} \subseteq Nat \ {0}
    /\ \A j \in Jobs :
          /\ j.kind \in {"show", "peek", "exec"}
          /\ j.ends \in 0 .. 255
          /\ j.stream \in Seq(Range(j.stream))
          /\ \A i \in DOMAIN j.stream : j.stream[i].bad => \E k \in 1 .. i - 1 : j.stream[k].last

Procs == {"source", "peek", "show", "down", "exec", "command"}
Pipes == {"in", "out", "side", "shown"}

VARIABLES
    job,        \* [kind, stream, ends, show, reads]
    pc,         \* where each process is
    status,     \* its exit status, Running or Killed
    readers, writers,   \* the processes that hold an end of a pipe
    data,       \* the pieces in a pipe
    pend, due,  \* what has been printed and not written, and how much of it is to be written now
    left,       \* what the source has not printed yet
    ctx,        \* the parser of a process: FILE, its own buffer, and its length
    got,        \* the rows it has had, the header first
    received,   \* what the end of the pipeline has read from csv-peek
    screen,     \* the pieces on the terminal
    taken,      \* the places in the stream of the pieces that commands have read
    results     \* how they have ended

ends == <<readers, writers>>
stdio == <<pend, due>>
reading == <<ctx, got>>
told == <<received, screen, taken, results>>
vars == <<job, pc, status, ends, data, stdio, left, reading, told>>

Running == -1
Killed == 141

Is(kind) == job.kind = kind

\* The pipe a process reads rows from, and those it prints to
Stdin(q) == IF q = "show" THEN "side" ELSE "in"
Prints(q) ==
    CASE q = "source" -> {IF Is("show") THEN "side" ELSE "in"}
      [] q = "peek" -> {"out", "side"}
      [] q = "show" -> {"shown"}
      [] OTHER -> {}

Init ==
    /\ job \in Jobs
    /\ pc = [q \in Procs |->
                CASE Is("show") /\ q \in {"source", "show"} -> "forked"
                  [] ~Is("show") /\ q = "source" -> "run"
                  [] q \in {"peek", "exec"} /\ Is(q) -> "header"
                  [] Is("peek") /\ q = "down" -> "read"
                  [] OTHER -> "none"]
    /\ status = [q \in Procs |-> Running]
    /\ readers = [p \in Pipes |->
                    CASE p = "side" /\ Is("show") -> {"source", "show"}
                      [] p = "in" /\ ~Is("show") -> {job.kind}
                      [] p = "out" /\ Is("peek") -> {"down"}
                      [] OTHER -> {}]
    /\ writers = [p \in Pipes |->
                    CASE p = "side" /\ Is("show") -> {"source", "show"}
                      [] p = "in" /\ ~Is("show") -> {"source"}
                      [] p = "out" /\ Is("peek") -> {"peek"}
                      [] OTHER -> {}]
    /\ data = [p \in Pipes |-> <<>>] /\ pend = [p \in Pipes |-> <<>>] /\ due = [p \in Pipes |-> 0]
    /\ left = job.stream
    /\ ctx = [q \in Procs |-> [file |-> <<>>, buf |-> <<>>, buflen |-> 0, eof |-> FALSE]]
    /\ got = [q \in Procs |-> <<>>]
    /\ received = <<>> /\ screen = <<>> /\ taken = {} /\ results = <<>>

-----------------------------------------------------------------------------
(* Pipes, stdio and the end of a process *)

\* write() has returned.
Idle(q) == \A p \in Prints(q) : due[p] = 0
At(q, where) == pc[q] = where /\ Idle(q)
Goto(q, where) == pc' = [pc EXCEPT ![q] = where]

Without(q, held) == [p \in Pipes |-> held[p] \ {q}]
Closed(p) == data[p] = <<>> /\ writers[p] = {}

\* All that was printed to some pipes is to be written.
Flush(pipes) == due' = [p \in Pipes |-> IF p \in pipes THEN Len(pend[p]) ELSE due[p]]

\* fwrite() of pieces to some pipes: full buffers are to be written.
PrintTo(pipes, pieces) ==
    /\ pend' = [p \in Pipes |-> IF p \in pipes THEN pend[p] \o pieces ELSE pend[p]]
    /\ due' = [p \in Pipes |-> IF p \in pipes THEN Len(pend'[p]) - (Len(pend'[p]) % StdioSize) ELSE due[p]]

\* exit() closes the streams first.
Exit(q, code) ==
    /\ Goto(q, "exiting") /\ status' = [status EXCEPT ![q] = code]
    /\ Flush(Prints(q))
    /\ UNCHANGED <<job, ends, data, pend, left, reading, told>>

End(q) ==
    /\ At(q, "exiting") /\ Goto(q, "ended")
    /\ readers' = Without(q, readers) /\ writers' = Without(q, writers)
    /\ UNCHANGED <<job, status, data, stdio, left, reading, told>>

\* What was not written is lost.
Kill(q) ==
    /\ Goto(q, "ended") /\ status' = [status EXCEPT ![q] = Killed]
    /\ readers' = Without(q, readers) /\ writers' = Without(q, writers)
    /\ due' = [p \in Pipes |-> IF p \in Prints(q) THEN 0 ELSE due[p]]
    /\ UNCHANGED <<job, data, pend, left, reading, told>>

Write(q) ==
    \E p \in Prints(q) :
        /\ pc[q] \notin {"none", "ended"} /\ due[p] > 0
        /\ IF readers[p] = {} THEN Kill(q)
           ELSE /\ Len(data[p]) < Capacity
                /\ data' = [data EXCEPT ![p] = Append(@, Head(pend[p]))]
                /\ pend' = [pend EXCEPT ![p] = Tail(@)]
                /\ due' = [due EXCEPT ![p] = @ - 1]
                /\ UNCHANGED <<job, pc, status, ends, left, reading, told>>

-----------------------------------------------------------------------------
(* csv_read_header() and csv_read_all(), as CsvParse has them, with the buffer *)
(* of stdio between the pipe and the parser *)

Lasts(pieces) == {i \in DOMAIN pieces : pieces[i].last}
FirstRow(pieces) == SubSeq(pieces, 1, CHOOSE i \in Lasts(pieces) : \A j \in Lasts(pieces) : i <= j)
From(pieces, n) == SubSeq(pieces, n + 1, Len(pieces))

Buf(q) == ctx[q].buf
HasRow(q) == Lasts(Buf(q)) # {}
NextRowOf(q) == IF HasRow(q) THEN FirstRow(Buf(q)) ELSE Buf(q)
\* The scan comes across a quote where none may be.
Corrupted(q) == At(q, "read") /\ \E i \in DOMAIN NextRowOf(q) : NextRowOf(q)[i].bad
Scanned(q) == At(q, "read") /\ ~HasRow(q) /\ ~Corrupted(q)

Wanted(q) == IF Len(Buf(q)) = ctx[q].buflen THEN ctx[q].buflen + Grow ELSE ctx[q].buflen
Short(q) == Len(Buf(q)) + Len(ctx[q].file) < Wanted(q)

NeedsHeader(q) == At(q, "header") /\ Lasts(ctx[q].file) = {}
NeedsMore(q) == Scanned(q) /\ ~ctx[q].eof /\ Short(q)

\* read() takes what is there, up to the size of the buffer of FILE.
Pull(q) ==
    LET p == Stdin(q)
        n == IF Len(data[p]) < StdioSize THEN Len(data[p]) ELSE StdioSize
    IN /\ NeedsHeader(q) \/ NeedsMore(q)
       /\ n > 0
       /\ ctx' = [ctx EXCEPT ![q].file = @ \o SubSeq(data[p], 1, n)]
       /\ data' = [data EXCEPT ![p] = From(@, n)]
       /\ UNCHANGED <<job, pc, status, ends, stdio, left, got, told>>

\* Mutant: what is there is taken for the rest, as if read() had been called.
FreadOnce(q) ==
    LET n == IF Short(q) THEN Len(ctx[q].file) ELSE Wanted(q) - Len(Buf(q)) IN
    /\ Scanned(q) /\ ~ctx[q].eof
    /\ Short(q) => Len(ctx[q].file) > 0 \/ Closed(Stdin(q))
    /\ ctx' = [ctx EXCEPT ![q] = [file |-> From(@.file, n), buf |-> @.buf \o SubSeq(@.file, 1, n),
                                  buflen |-> Wanted(q), eof |-> Short(q)]]
    /\ UNCHANGED <<job, pc, status, ends, data, stdio, left, got, told>>
\* fread() returns when it has what it was asked for, or at the end.
Fread(q) ==
    LET n == IF Short(q) THEN Len(ctx[q].file) ELSE Wanted(q) - Len(Buf(q)) IN
    /\ Scanned(q) /\ ~ctx[q].eof
    /\ Short(q) => Closed(Stdin(q))
    /\ ctx' = [ctx EXCEPT ![q] = [file |-> From(@.file, n), buf |-> @.buf \o SubSeq(@.file, 1, n),
                                  buflen |-> Wanted(q), eof |-> Short(q)]]
    /\ UNCHANGED <<job, pc, status, ends, data, stdio, left, got, told>>

NoHeader(q) == NeedsHeader(q) /\ Closed(Stdin(q)) /\ Exit(q, 2)
ParseError(q) == Corrupted(q) /\ Exit(q, 2)

ParserSteps(q) == Pull(q) \/ Fread(q) \/ NoHeader(q) \/ ParseError(q)

\* The header, or a row, is taken out of the buffer.
TakeHeader(q) ==
    /\ At(q, "header") /\ ~NeedsHeader(q)
    /\ got' = [got EXCEPT ![q] = <<FirstRow(ctx[q].file)>>]
    /\ ctx' = [ctx EXCEPT ![q].file = From(@, Len(FirstRow(@)))]

TakeRow(q) ==
    /\ At(q, "read") /\ HasRow(q) /\ ~Corrupted(q)
    /\ got' = [got EXCEPT ![q] = Append(@, NextRowOf(q))]
    /\ ctx' = [ctx EXCEPT ![q].buf = From(@, Len(NextRowOf(q)))]

\* csv_read_all() has returned: a row that is not complete is dropped.
AllRead(q) == Scanned(q) /\ ctx[q].eof
=============================================================================
