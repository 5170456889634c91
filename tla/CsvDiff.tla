------------------------------- MODULE CsvDiff -------------------------------
(***************************************************************************)
(* csv-diff (src/src/diff.c): one thread per input parses its file with    *)
(* csv_read_all() and parks in the row callback next_row(); the main       *)
(* thread waits in gather_and_compare() until every thread has parked a    *)
(* row (or reached the end of its file), compares the parked rows in place *)
(* and releases the threads one by one.                                    *)
(*                                                                         *)
(* A step is a piece of code between two operations on a mutex or a        *)
(* condition variable.  A row lives in the parser's buffer: it is gone     *)
(* (Torn) as soon as next_row() returns to the parser.                     *)
(***************************************************************************)
EXTENDS DiffInputs

CONSTANT MaxSpurious    \* bound on spurious wakeups of cnd_wait()

ASSUME MaxSpuriousAssumption == MaxSpurious \in Nat

VARIABLES
    file, opts,     \* the command line
    wpc,            \* wpc[i]: where thread i is in thr_work()
    pos,            \* pos[i]: rows the parser of thread i has delivered
    buf,            \* inputs[i].buf, .col_offs: the row the main thread would see
    consumed, eof,  \* inputs[i].consumed, inputs[i].eof
    mtx,            \* inputs[i].mtx: the owner
    global,         \* GlobalDataMtx: the owner
    threadsReady, eofs,     \* ThreadsReady, Eofs
    mpc, cur,       \* where the main thread is, and its loop index
    diff, ret,      \* locals of gather_and_compare()
    out, status,    \* lines printed, exit status
    round,          \* (history) groups of rows the main thread has released
    spurious        \* (bound) spurious wakeups so far

data == <<file, opts, pos, buf, consumed, eof>>
locks == <<mtx, global, threadsReady, eofs>>
main == <<mpc, cur, diff, ret, out, round>>
vars == <<data, locks, main, wpc, status, spurious>>

\* Owners of a mutex.  Threads are numbered as their inputs are.
Main == 0
Nobody == -1
Dead == -2      \* not initialised yet, or destroyed

Torn == [h \in Headers |-> "torn"]

\* Threads that told the main thread about their current row or end of file.
AfterCount == {"relock", "check", "wait", "woken", "finish", "destroy", "done"}
WorkerHolds == {"read", "publish", "check", "finish"}
WorkerStates == AfterCount \cup WorkerHolds \cup {"none", "start", "lock", "glock", "count"}
MainStates == {"create", "glock", "gcheck", "gwait", "gwoken", "lock", "compare", "emit", "join"}

Init ==
    /\ file \in [Inputs -> Files]
    /\ opts \in Options
    /\ wpc = [i \in Inputs |-> "none"]
    /\ pos = [i \in Inputs |-> 0]
    /\ buf = [i \in Inputs |-> Torn]
    /\ consumed = [i \in Inputs |-> FALSE]
    /\ eof = [i \in Inputs |-> FALSE]
    /\ mtx = [i \in Inputs |-> Dead]
    /\ global = Nobody /\ threadsReady = 0 /\ eofs = 0
    /\ mpc = "create" /\ cur = 1 /\ diff = {} /\ ret = 0
    /\ out = <<>> /\ status = Running /\ round = 0 /\ spurious = 0

-----------------------------------------------------------------------------
(* thr_work(), next_row() and thread_data_ready() of thread i *)

WorkerGoes(i, from, to) == wpc[i] = from /\ wpc' = [wpc EXCEPT ![i] = to]

\* mtx_init, cnd_init, eof = false, consumed = false
Start(i) ==
    /\ WorkerGoes(i, "start", "lock")
    /\ mtx' = [mtx EXCEPT ![i] = Nobody]
    /\ eof' = [eof EXCEPT ![i] = FALSE]
    /\ consumed' = [consumed EXCEPT ![i] = FALSE]
    /\ UNCHANGED <<file, opts, pos, buf, global, threadsReady, eofs, main, status, spurious>>

\* Mutant: next_row() waits with `if` instead of `while`, so any wakeup releases it.
LockOwnNoRecheck(i) ==
    /\ mtx[i] = Nobody
    /\ mtx' = [mtx EXCEPT ![i] = i]
    /\ \/ WorkerGoes(i, "lock", "read") /\ UNCHANGED buf
       \/ WorkerGoes(i, "relock", IF eof[i] THEN "finish" ELSE "check") /\ UNCHANGED buf
       \/ WorkerGoes(i, "woken", "read") /\ buf' = [buf EXCEPT ![i] = Torn]
    /\ UNCHANGED <<file, opts, pos, consumed, eof, global, threadsReady, eofs, main, status, spurious>>
\* mtx_lock(&in->mtx): first, at the end of thread_data_ready() (which returns
\* to next_row() or to the end of thr_work()), or inside cnd_wait()
LockOwn(i) ==
    /\ mtx[i] = Nobody
    /\ mtx' = [mtx EXCEPT ![i] = i]
    /\ \/ WorkerGoes(i, "lock", "read")
       \/ WorkerGoes(i, "relock", IF eof[i] THEN "finish" ELSE "check")
       \/ WorkerGoes(i, "woken", "check")
    /\ UNCHANGED <<data, global, threadsReady, eofs, main, status, spurious>>

\* Mutant: next_row() does not reset `consumed`.
ReadRowNoReset(i) ==
    /\ WorkerGoes(i, "read", "publish")
    /\ pos[i] < Len(file[i].rows)
    /\ pos' = [pos EXCEPT ![i] = @ + 1]
    /\ buf' = [buf EXCEPT ![i] = file[i].rows[pos[i] + 1]]
    /\ UNCHANGED <<file, opts, consumed, eof, locks, main, status, spurious>>
\* csv_read_all() calls next_row() with the next row
ReadRow(i) ==
    /\ WorkerGoes(i, "read", "publish")
    /\ pos[i] < Len(file[i].rows)
    /\ pos' = [pos EXCEPT ![i] = @ + 1]
    /\ buf' = [buf EXCEPT ![i] = file[i].rows[pos[i] + 1]]
    /\ consumed' = [consumed EXCEPT ![i] = FALSE]
    /\ UNCHANGED <<file, opts, eof, locks, main, status, spurious>>

\* csv_read_all() returns 0
ReadEof(i) ==
    /\ WorkerGoes(i, "read", "publish")
    /\ pos[i] = Len(file[i].rows) /\ ~file[i].corrupted
    /\ eof' = [eof EXCEPT ![i] = TRUE]
    /\ UNCHANGED <<file, opts, pos, buf, consumed, locks, main, status, spurious>>

\* csv_read_all() fails: csv_read_all_nofail() ends the process from this thread
ReadCorrupted(i) ==
    /\ wpc[i] = "read"
    /\ pos[i] = Len(file[i].rows) /\ file[i].corrupted
    /\ status' = 2
    /\ UNCHANGED <<data, locks, main, wpc, spurious>>

\* thread_data_ready(): mtx_unlock(&in->mtx)
Publish(i) ==
    /\ WorkerGoes(i, "publish", "glock")
    /\ mtx' = [mtx EXCEPT ![i] = Nobody]
    /\ UNCHANGED <<data, global, threadsReady, eofs, main, status, spurious>>

LockGlobal(i) ==
    /\ WorkerGoes(i, "glock", "count")
    /\ global = Nobody
    /\ global' = i
    /\ UNCHANGED <<data, mtx, threadsReady, eofs, main, status, spurious>>

\* Mutant: the signal is lost when the last thread to arrive is at its end of file.
MainSignalledUnlessEof(ready) ==
    IF ready = Ninputs /\ mpc = "gwait" /\ eofs' = eofs THEN "gwoken" ELSE mpc
\* cnd_signal(&AllThreadsReady), only by the last thread to arrive.
MainSignalled(ready) == IF ready = Ninputs /\ mpc = "gwait" THEN "gwoken" ELSE mpc

\* thread_data_ready(): the critical section under GlobalDataMtx
Count(i) ==
    /\ WorkerGoes(i, "count", "relock")
    /\ eofs' = IF eof[i] THEN eofs + 1 ELSE eofs
    /\ threadsReady' = threadsReady + 1
    /\ mpc' = MainSignalled(threadsReady')
    /\ global' = Nobody
    /\ UNCHANGED <<data, mtx, cur, diff, ret, out, round, status, spurious>>

\* next_row(): while (!in->consumed) cnd_wait(...); return 0
Check(i) ==
    /\ IF consumed[i]
       THEN /\ WorkerGoes(i, "check", "read")
            /\ buf' = [buf EXCEPT ![i] = Torn]
            /\ UNCHANGED mtx
       ELSE /\ WorkerGoes(i, "check", "wait")
            /\ mtx' = [mtx EXCEPT ![i] = Nobody]
            /\ UNCHANGED buf
    /\ UNCHANGED <<file, opts, pos, consumed, eof, global, threadsReady, eofs, main, status, spurious>>

\* thr_work() after thread_data_ready(in, true): mtx_unlock
Finish(i) ==
    /\ WorkerGoes(i, "finish", "destroy")
    /\ mtx' = [mtx EXCEPT ![i] = Nobody]
    /\ UNCHANGED <<data, global, threadsReady, eofs, main, status, spurious>>

\* cnd_destroy, mtx_destroy, return
Destroy(i) ==
    /\ WorkerGoes(i, "destroy", "done")
    /\ mtx' = [mtx EXCEPT ![i] = Dead]
    /\ UNCHANGED <<data, global, threadsReady, eofs, main, status, spurious>>

\* cnd_wait() may return without a signal
SpuriousWakeup(i) ==
    /\ spurious < MaxSpurious
    /\ spurious' = spurious + 1
    /\ WorkerGoes(i, "wait", "woken")
    /\ UNCHANGED <<data, locks, main, status>>

-----------------------------------------------------------------------------
(* main() and gather_and_compare() *)

MainGoes(from, to) == mpc = from /\ mpc' = to

\* A loop over the inputs goes on to the next one, or leaves for `to`.
NextInput(in, to) ==
    /\ mpc = in
    /\ IF cur = Ninputs
       THEN mpc' = to /\ cur' = 1
       ELSE mpc' = in /\ cur' = cur + 1

CreateThread ==
    /\ NextInput("create", "glock")
    /\ WorkerGoes(cur, "none", "start")
    /\ UNCHANGED <<data, locks, diff, ret, out, round, status, spurious>>

\* mtx_lock(&GlobalDataMtx), at the top of the loop or inside cnd_wait()
MainLockGlobal ==
    /\ MainGoes("glock", "gcheck") \/ MainGoes("gwoken", "gcheck")
    /\ global = Nobody
    /\ global' = Main
    /\ UNCHANGED <<data, mtx, threadsReady, eofs, cur, diff, ret, out, round, wpc, status, spurious>>

\* while (ThreadsReady != Ninputs) cnd_wait(...)
MainWait ==
    /\ MainGoes("gcheck", "gwait")
    /\ threadsReady # Ninputs
    /\ global' = Nobody
    /\ UNCHANGED <<data, mtx, threadsReady, eofs, cur, diff, ret, out, round, wpc, status, spurious>>

MainSpuriousWakeup ==
    /\ spurious < MaxSpurious
    /\ spurious' = spurious + 1
    /\ MainGoes("gwait", "gwoken")
    /\ UNCHANGED <<data, locks, cur, diff, ret, out, round, wpc, status>>

\* Eofs == Ninputs: return ret
AllEnded ==
    /\ MainGoes("gcheck", "join")
    /\ threadsReady = Ninputs /\ eofs = Ninputs
    /\ global' = Nobody
    /\ UNCHANGED <<data, mtx, threadsReady, eofs, cur, diff, ret, out, round, wpc, status, spurious>>

\* 0 < Eofs < Ninputs: "input file %zu ended before other(s)", exit(2)
SomeEnded ==
    /\ mpc = "gcheck"
    /\ threadsReady = Ninputs /\ eofs # Ninputs /\ eofs > 0
    /\ status' = 2
    /\ UNCHANGED <<data, locks, main, wpc, spurious>>

\* Mutant: ThreadsReady is not reset for the next round.
BeginRoundNoReset ==
    /\ MainGoes("gcheck", "lock")
    /\ threadsReady = Ninputs /\ eofs = 0
    /\ global' = Nobody
    /\ UNCHANGED <<data, mtx, threadsReady, eofs, cur, diff, ret, out, round, wpc, status, spurious>>
\* Mutant: the end of a file is not looked at when some other file goes on.
BeginRoundIgnoringEofs ==
    /\ MainGoes("gcheck", "lock")
    /\ threadsReady = Ninputs /\ eofs # Ninputs
    /\ threadsReady' = 0
    /\ global' = Nobody
    /\ UNCHANGED <<data, mtx, eofs, cur, diff, ret, out, round, wpc, status, spurious>>
\* A row of every input is ready.
BeginRound ==
    /\ MainGoes("gcheck", "lock")
    /\ threadsReady = Ninputs /\ eofs = 0
    /\ threadsReady' = 0
    /\ global' = Nobody
    /\ UNCHANGED <<data, mtx, eofs, cur, diff, ret, out, round, wpc, status, spurious>>

MainLockInput ==
    /\ NextInput("lock", "compare")
    /\ mtx[cur] = Nobody
    /\ mtx' = [mtx EXCEPT ![cur] = Main]
    /\ UNCHANGED <<data, global, threadsReady, eofs, diff, ret, out, round, wpc, status, spurious>>

\* Mutant: the exit status tells about the last row only.
CompareForgetful ==
    /\ MainGoes("compare", "emit")
    /\ diff' = DifferingColumns(buf)
    /\ ret' = IF diff' # {} THEN 1 ELSE 0
    /\ UNCHANGED <<data, locks, cur, out, round, wpc, status, spurious>>
Compare ==
    /\ MainGoes("compare", "emit")
    /\ diff' = DifferingColumns(buf)
    /\ ret' = IF diff' # {} THEN 1 ELSE ret
    /\ UNCHANGED <<data, locks, cur, out, round, wpc, status, spurious>>

\* Mutant: the input's mutex stays locked.
EmitNoUnlock ==
    /\ NextInput("emit", "glock")
    /\ out' = IF Printed(opts, diff) THEN Append(out, Line(cur, buf[cur], diff)) ELSE out
    /\ consumed' = [consumed EXCEPT ![cur] = TRUE]
    /\ wpc' = [wpc EXCEPT ![cur] = IF @ = "wait" THEN "woken" ELSE @]
    /\ round' = IF cur = Ninputs THEN round + 1 ELSE round
    /\ UNCHANGED <<file, opts, pos, buf, eof, mtx, global, threadsReady, eofs, diff, ret, status, spurious>>
\* Print the row of one input and release its thread:
\* consumed = true; cnd_signal; mtx_unlock
Emit ==
    /\ NextInput("emit", "glock")
    /\ out' = IF Printed(opts, diff) THEN Append(out, Line(cur, buf[cur], diff)) ELSE out
    /\ consumed' = [consumed EXCEPT ![cur] = TRUE]
    /\ wpc' = [wpc EXCEPT ![cur] = IF @ = "wait" THEN "woken" ELSE @]
    /\ mtx' = [mtx EXCEPT ![cur] = Nobody]
    /\ round' = IF cur = Ninputs THEN round + 1 ELSE round
    /\ UNCHANGED <<file, opts, pos, buf, eof, global, threadsReady, eofs, diff, ret, status, spurious>>

\* thrd_join() in turn; main() returns ret after the last one
Join ==
    /\ mpc = "join"
    /\ wpc[cur] = "done"
    /\ IF cur = Ninputs
       THEN status' = ret /\ UNCHANGED cur
       ELSE cur' = cur + 1 /\ UNCHANGED status
    /\ UNCHANGED <<data, locks, mpc, diff, ret, out, round, wpc, spurious>>

-----------------------------------------------------------------------------
WorkerStep(i) ==
    \/ Start(i) \/ LockOwn(i) \/ ReadRow(i) \/ ReadEof(i) \/ ReadCorrupted(i)
    \/ Publish(i) \/ LockGlobal(i) \/ Count(i) \/ Check(i) \/ Finish(i) \/ Destroy(i)

MainStep ==
    \/ CreateThread \/ MainLockGlobal \/ MainWait \/ AllEnded \/ SomeEnded
    \/ BeginRound \/ MainLockInput \/ Compare \/ Emit \/ Join

\* The process ends at once for all its threads.
Next ==
    \/ /\ status = Running
       /\ \/ MainStep \/ MainSpuriousWakeup
          \/ \E i \in Inputs : WorkerStep(i) \/ SpuriousWakeup(i)
    \/ status # Running /\ UNCHANGED vars

Spec == Init /\ [][Next]_vars

\* The kernel runs every runnable thread, and a mutex that stays free is taken
\* in the end by a thread that waits for it.
FairSpec ==
    /\ Spec
    /\ WF_vars(status = Running /\ MainStep)
    /\ \A i \in Inputs : WF_vars(status = Running /\ WorkerStep(i))

-----------------------------------------------------------------------------
(* Properties *)

\* Types.  ThreadsReady and Eofs never exceed the number of threads.
TypeOK ==
    /\ file \in [Inputs -> Files] /\ opts \in Options
    /\ wpc \in [Inputs -> WorkerStates]
    /\ pos \in [Inputs -> Nat]
    /\ buf \in [Inputs -> Row \cup {Torn}]
    /\ consumed \in [Inputs -> BOOLEAN] /\ eof \in [Inputs -> BOOLEAN]
    /\ mtx \in [Inputs -> Inputs \cup {Main, Nobody, Dead}]
    /\ global \in Inputs \cup {Main, Nobody}
    /\ threadsReady \in 0 .. Ninputs /\ eofs \in 0 .. Ninputs
    /\ mpc \in MainStates /\ cur \in Inputs
    /\ diff \in SUBSET Headers /\ ret \in {0, 1}
    /\ status \in {Running, 0, 1, 2}
    /\ round \in Nat /\ spurious \in 0 .. MaxSpurious

\* The inputs whose parked row the main thread has yet to release in this round.
Pending ==
    IF mpc \in {"lock", "compare"} THEN Inputs
    ELSE IF mpc = "emit" THEN cur .. Ninputs ELSE {}

\* The inputs whose mutex the main thread has locked and not yet unlocked.
LockedByMain ==
    IF mpc = "lock" THEN 1 .. cur - 1 ELSE IF mpc = "compare" THEN Inputs
    ELSE IF mpc = "emit" THEN cur .. Ninputs ELSE {}

\* Rows of input i that the main thread has compared, printed and released.
Released(i) == IF mpc = "emit" /\ i < cur THEN round + 1 ELSE round

\* Every mutex is owned by exactly the thread that is between its lock and its
\* unlock, so no mutex is unlocked by a stranger; and no thread locks, waits on
\* or signals a mutex or condition that is not initialised or already destroyed.
MutexUse ==
    /\ \A i \in Inputs :
          /\ mtx[i] = i <=> wpc[i] \in WorkerHolds
          /\ mtx[i] = Main <=> i \in LockedByMain
          /\ mtx[i] = Dead <=> wpc[i] \in {"none", "start", "done"}
          /\ global = i <=> wpc[i] = "count"
          /\ i \in Pending => mtx[i] # Dead
    /\ global = Main <=> mpc = "gcheck"

\* While the main thread compares and prints, the buffers it has not released
\* yet hold, for every input, the row of one and the same number: no thread has
\* returned to its parser, which would overwrite the row being read.
ReadsOneRound ==
    \A i \in Pending :
        round < Len(file[i].rows) /\ buf[i] = file[i].rows[round + 1]

\* A thread is never more than one row ahead of the main thread: no row is
\* skipped, and none is compared twice.
NoRowSkipped == \A i \in Inputs : pos[i] \in Released(i) .. Released(i) + 1

SameRows(k) == DifferingColumns([i \in Inputs |-> file[i].rows[k]]) = {}

\* Exit status 0 only for equal files, 1 only for files of one length that
\* differ, 2 only for trouble: a corrupted file or unequal lengths.
VerdictSound ==
    LET length(i) == Len(file[i].rows)
        trouble == \E i \in Inputs : file[i].corrupted \/ length(i) # length(1)
    IN  /\ status \in {0, 1} => ~trouble
        /\ status = 0 => \A k \in 1 .. length(1) : SameRows(k)
        /\ status = 1 => \E k \in 1 .. length(1) : ~SameRows(k)
        /\ status = 2 => trouble

\* No wakeup is lost: a thread waits only while its row is not consumed, and the
\* main thread only while some thread is still to arrive.
NoLostWakeup ==
    /\ \A i \in Inputs : wpc[i] = "wait" => ~consumed[i]
    /\ mpc = "gwait" => threadsReady # Ninputs

\* The threads implement the sequential walk over all files: what is printed,
\* in which order, and the exit status.
Lockstep == INSTANCE LockstepDiff WITH line <- IF mpc = "emit" THEN cur ELSE 0
Contract == Lockstep!Spec

\* The process always exits: no rendezvous is missed and no wakeup is lost.
Termination == <>(status # Running)
=============================================================================
