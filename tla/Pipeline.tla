------------------------------ MODULE Pipeline ------------------------------
(***************************************************************************)
(* Tools that start other programs and share their streams with them:      *)
(*   "show": a tool with -s or -S.  csv_show() (src/src/utils.c) forks; the *)
(*           parent, whose exit status the shell sees, becomes csv-show,   *)
(*           and the child goes on as the tool;                            *)
(*   "peek": csv-peek (src/src/peek.c) passes a stream on and copies it to *)
(*           stderr or, with -s, to a csv-show whose output it relays;     *)
(*   "exec": csv-exec (src/src/exec.c) runs a command for each row, which  *)
(*           has the same standard input.                                  *)
(* A job says which of them it is (kind), what the source of the stream    *)
(* prints (stream) and how it ends (ends), whether csv-peek has -s (show), *)
(* and whether the commands read (reads).                                  *)
(***************************************************************************)
EXTENDS Pipes

-----------------------------------------------------------------------------
(* The source: the tool itself, or what precedes csv-peek and csv-exec *)

\* Mutant: csv_show() leaves the end open from which csv-show reads.
ToolKeepingEnd ==
    /\ Is("show") /\ At("source", "forked") /\ Goto("source", "run")
    /\ UNCHANGED <<job, status, ends, data, stdio, left, reading, told>>
\* csv_show(), child: standard output is the pipe.
ToolStarts ==
    /\ Is("show") /\ At("source", "forked") /\ Goto("source", "run")
    /\ readers' = [readers EXCEPT !["side"] = @ \ {"source"}]
    /\ UNCHANGED <<job, status, writers, data, stdio, left, reading, told>>

SourcePrints ==
    /\ At("source", "run") /\ left # <<>>
    /\ PrintTo(Prints("source"), <<Head(left)>>)
    /\ left' = Tail(left)
    /\ UNCHANGED <<job, pc, status, ends, data, reading, told>>

SourceEnds ==
    /\ At("source", "run") /\ left = <<>> /\ job.ends # Killed
    /\ Exit("source", job.ends)

\* A signal, abort() or a failed assertion
SourceKilled == pc["source"] = "run" /\ job.ends = Killed /\ Kill("source")

Source ==
    \/ ToolStarts \/ SourcePrints \/ SourceEnds \/ SourceKilled
    \/ Write("source") \/ End("source")

-----------------------------------------------------------------------------
(* csv-show -s *)

\* What the process has inherited besides its standard streams is closed, and
\* csv-show replaces it.
ShowStarts ==
    /\ At("show", "forked") /\ Goto("show", "header")
    /\ readers' = [p \in Pipes |-> IF p = "side" THEN readers[p] ELSE readers[p] \ {"show"}]
    /\ writers' = [p \in Pipes |-> IF p = "shown" THEN writers[p] ELSE writers[p] \ {"show"}]
    /\ UNCHANGED <<job, status, data, stdio, left, reading, told>>

\* "csv-show not installed?"
ShowMissing == At("show", "forked") /\ Exit("show", 2)

ShowHeader ==
    /\ TakeHeader("show") /\ Goto("show", "read")
    /\ UNCHANGED <<job, status, ends, data, stdio, left, told>>

ShowRow == TakeRow("show") /\ UNCHANGED <<job, pc, status, ends, data, stdio, left, told>>

\* The table is printed when all of it is there: its widths depend on all rows.
ShowPrints ==
    /\ pc["show"] = "read" /\ AllRead("show") /\ Goto("show", "printed")
    /\ LET table == FlattenSeq(got["show"]) IN
       IF Is("show")
       THEN /\ screen' = screen \o table
            /\ UNCHANGED <<job, status, ends, data, stdio, left, reading, received, taken, results>>
       ELSE /\ PrintTo({"shown"}, table)
            /\ UNCHANGED <<job, status, ends, data, left, reading, told>>

ShowEnds == At("show", "printed") /\ Exit("show", 0)

Show ==
    \/ ShowStarts \/ ShowMissing \/ ParserSteps("show") \/ ShowHeader \/ ShowRow
    \/ ShowPrints \/ ShowEnds \/ Write("show") \/ End("show")

-----------------------------------------------------------------------------
(* csv-peek, and the tool that reads what it passes on *)

\* A row goes to standard output first; without -s the copy goes to stderr, which
\* has no buffer.
PassOn(row) ==
    IF job.show THEN PrintTo({"out", "side"}, row) /\ UNCHANGED screen
    ELSE PrintTo({"out"}, row) /\ screen' = screen \o row

\* csv_peek_show() forks; csv-peek keeps the ends it needs, the child has all.
PeekHeader ==
    /\ Is("peek") /\ TakeHeader("peek") /\ Goto("peek", "start")
    /\ UNCHANGED <<job, status, ends, data, stdio, left, told>>

PeekForks ==
    /\ At("peek", "start") /\ pc["show"] = "none"
    /\ IF job.show
       THEN /\ pc' = [pc EXCEPT !["peek"] = "read", !["show"] = "forked"]
            /\ readers' = [p \in Pipes |->
                  CASE p = "in" -> readers[p] \cup {"show"}
                    [] p = "side" -> {"show"}
                    [] p = "shown" -> {"peek", "show"}
                    [] OTHER -> readers[p]]
            /\ writers' = [p \in Pipes |->
                  CASE p = "out" -> writers[p] \cup {"show"}
                    [] p = "side" -> {"peek", "show"}
                    [] p = "shown" -> {"show"}
                    [] OTHER -> writers[p]]
       ELSE Goto("peek", "read") /\ UNCHANGED ends
    /\ PassOn(got["peek"][1])
    /\ UNCHANGED <<job, status, data, left, reading, received, taken, results>>

PeekRow ==
    /\ Is("peek") /\ TakeRow("peek")
    /\ PassOn(NextRowOf("peek"))
    /\ UNCHANGED <<job, pc, status, ends, data, left, received, taken, results>>

\* fclose() of the copy; the end of standard output is not written yet.
PeekFlushes ==
    /\ pc["peek"] = "read" /\ AllRead("peek")
    /\ IF job.show
       THEN /\ Goto("peek", "close") /\ Flush({"side"})
            /\ UNCHANGED <<job, status, ends, data, pend, left, reading, told>>
       ELSE Exit("peek", 0)

PeekCloses ==
    /\ At("peek", "close") /\ Goto("peek", "relay")
    /\ writers' = [writers EXCEPT !["side"] = @ \ {"peek"}]
    /\ UNCHANGED <<job, status, readers, data, stdio, left, reading, told>>

PeekRelays ==
    /\ At("peek", "relay") /\ data["shown"] # <<>>
    /\ screen' = Append(screen, Head(data["shown"]))
    /\ data' = [data EXCEPT !["shown"] = Tail(@)]
    /\ UNCHANGED <<job, pc, status, ends, stdio, left, reading, received, taken, results>>

PeekEnds == At("peek", "relay") /\ Closed("shown") /\ Exit("peek", 0)

Peek ==
    \/ ParserSteps("peek") \/ PeekHeader \/ PeekForks \/ PeekRow \/ PeekFlushes
    \/ PeekCloses \/ PeekRelays \/ PeekEnds \/ Write("peek") \/ End("peek")

DownReads ==
    /\ At("down", "read") /\ data["out"] # <<>>
    /\ received' = Append(received, Head(data["out"]))
    /\ data' = [data EXCEPT !["out"] = Tail(@)]
    /\ UNCHANGED <<job, pc, status, ends, stdio, left, reading, screen, taken, results>>

\* At the end, or, as csv-head does, when it has read enough
DownEnds == At("down", "read") /\ Exit("down", 0)

Down == DownReads \/ DownEnds \/ End("down")

-----------------------------------------------------------------------------
(* csv-exec and its commands *)

ExecHeader ==
    /\ Is("exec") /\ TakeHeader("exec") /\ Goto("exec", "read")
    /\ UNCHANGED <<job, status, ends, data, stdio, left, told>>

\* fork() and wait()
ExecRow ==
    /\ Is("exec") /\ TakeRow("exec")
    /\ pc' = [pc EXCEPT !["exec"] = "wait", !["command"] = "run"]
    /\ readers' = [readers EXCEPT !["in"] = @ \cup {"command"}]
    /\ UNCHANGED <<job, status, writers, data, stdio, left, told>>

\* Mutant: the next row is taken whatever became of the command.
GoingOn(code) == Goto("exec", "read") /\ UNCHANGED <<job, status, ends, data, stdio, left, reading, told>>
Waited(code) ==
    CASE code = 0 -> Goto("exec", "read") /\ UNCHANGED <<job, status, ends, data, stdio, left, reading, told>>
      [] code = Killed -> Exit("exec", 4)
      [] OTHER -> Exit("exec", 3)

ExecWaits == At("exec", "wait") /\ pc["command"] = "ended" /\ Waited(Last(results))

ExecEnds == pc["exec"] = "read" /\ AllRead("exec") /\ Exit("exec", 0)

Exec ==
    \/ ParserSteps("exec") \/ ExecHeader \/ ExecRow \/ ExecWaits \/ ExecEnds \/ End("exec")

\* How many pieces have been read from the pipe
Passed == Len(job.stream) - Len(left) - Len(pend["in"]) - Len(data["in"])

\* The command may read some of what csv-exec has not read yet.
CommandReads ==
    /\ At("command", "run") /\ job.reads /\ data["in"] # <<>>
    /\ taken' = taken \cup {Passed + 1}
    /\ data' = [data EXCEPT !["in"] = Tail(@)]
    /\ UNCHANGED <<job, pc, status, ends, stdio, left, reading, received, screen, results>>

CommandEnds ==
    /\ At("command", "run") /\ Goto("command", "ended")
    /\ \E code \in {0, 1, Killed} : results' = Append(results, code)
    /\ readers' = Without("command", readers)
    /\ UNCHANGED <<job, status, writers, data, stdio, left, reading, received, screen, taken>>

Command == CommandReads \/ CommandEnds

-----------------------------------------------------------------------------

Over == \A q \in Procs : pc[q] \in {"none", "ended"}

Next ==
    \/ Source \/ Show \/ Peek \/ Down \/ Exec \/ Command
    \/ Over /\ UNCHANGED vars

\* Every process gets to run; a command, and what reads from csv-peek, ends.
Fairness ==
    /\ WF_vars(Source) /\ WF_vars(Show) /\ WF_vars(Peek) /\ WF_vars(Exec)
    /\ WF_vars(DownEnds) /\ WF_vars(End("down")) /\ WF_vars(CommandEnds)

Spec == Init /\ [][Next]_vars /\ Fairness

-----------------------------------------------------------------------------
(* Properties *)

\* The rows of a stream, the header first, up to what is no row
Unparsed == [rows |-> <<>>, part |-> <<>>, bad |-> FALSE]
Parsing(s, piece) ==
    IF s.bad \/ piece.bad THEN [rows |-> s.rows, part |-> s.part, bad |-> TRUE]
    ELSE IF piece.last THEN [rows |-> Append(s.rows, Append(s.part, piece)), part |-> <<>>, bad |-> FALSE]
    ELSE [rows |-> s.rows, part |-> Append(s.part, piece), bad |-> FALSE]
Parsed(pieces) ==
    LET state[k \in 0 .. Len(pieces)] == IF k = 0 THEN Unparsed ELSE Parsing(state[k - 1], pieces[k])
    IN  state[Len(pieces)]

\* What the source has written
Sent ==
    LET unwritten(p) == Len(left) + Len(pend[p])
    IN SubSeq(job.stream, 1, Len(job.stream) - unwritten(IF Is("show") THEN "side" ELSE "in"))

\* What remains of the first k pieces when those that commands have read are cut out
Untaken[k \in 0 .. Len(job.stream)] ==
    IF k = 0 THEN <<>>
    ELSE IF k \in taken THEN Untaken[k - 1] ELSE Append(Untaken[k - 1], job.stream[k])

\* The table on the terminal never has part of a row, nor a row the stream does
\* not have.  A csv-show that ends well has shown all that the tool wrote, but the
\* shell does not learn how the tool has ended (src/src/utils.c:650).
\* csv-peek -s shows nothing before it has read all rows, and nothing at all after
\* an error; if it ends well it has passed on what it has shown
\* (src/src/peek.c:46).
ViewRight ==
    LET sent == Parsed(Sent)
        whole == FlattenSeq(sent.rows)
    IN /\ IsPrefix(screen, whole)
       /\ Is("show") =>
            /\ screen # <<>> => Last(screen).last /\ status["source"] # Running
            /\ status["show"] = 0 => screen = whole
            /\ status["show"] = 2 => screen = <<>>
       /\ Is("peek") =>
            /\ job.show /\ screen # <<>> => got["peek"] = sent.rows /\ ~sent.bad
            /\ status["peek"] = 0 =>
                  /\ pc["peek"] = "ended" => received \o data["out"] = whole
                  /\ ~job.show \/ status["show"] = 0 => screen = whole

\* csv-exec runs a command for each row of what remains of its input when the
\* pieces the commands have read are cut out, in order and once; it stops at the
\* first command that fails, and its exit status tells (src/src/exec.c:52).
ExecRight ==
    LET rest == Parsed(Untaken[Len(Sent)])
        failed == {i \in DOMAIN results : results[i] # 0}
    IN Is("exec") =>
        /\ IsPrefix(got["exec"], rest.rows)
        /\ failed \subseteq {Len(got["exec"]) - 1}
        /\ CASE status["exec"] = 0 -> failed = {} /\ ~rest.bad /\ got["exec"] = rest.rows
             [] status["exec"] = 2 -> failed = {} /\ (rest.bad \/ got["exec"] = <<>>)
             [] status["exec"] \in {3, 4} -> (Last(results) = Killed) = (status["exec"] = 4) /\ failed # {}
             [] OTHER -> TRUE

\* Whatever fails or ends early, in whatever order: no process is left behind that
\* waits for the others.
AllEnd == <>Over
=============================================================================
