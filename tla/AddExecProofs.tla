--------------------------- MODULE AddExecProofs ----------------------------
(* Proofs about csv-add-exec. *)
EXTENDS AddExec, TLAPS, SequenceTheorems

\* What the command is given on its standard input.
Given == IF fed THEN Job.length ELSE 0
Line == [row : Nat, column : Seq(Nat)]

-----------------------------------------------------------------------------
(* The inductive invariant *)

TypeInv ==
    /\ rows \in Seq(Jobs) /\ fed \in BOOLEAN
    /\ row \in 1 .. Len(rows) + 1
    /\ pc \in {"row", "feed", "wait", "collect"} /\ inClosed \in BOOLEAN
    /\ left \in Nat /\ inPipe \in 0 .. Capacity
    /\ outPipe \in Seq(Nat) /\ Len(outPipe) <= Capacity
    /\ child \in {"none", "alive", "ended"} /\ sawEof \in BOOLEAN
    /\ eaten \in Nat /\ written \in Nat
    /\ buf \in Seq(Nat) /\ buflen \in Nat
    /\ out \in Seq(Line)
    /\ status \in {Running, 0, 2, 3, 4, KilledBySigpipe}

\* A child exists while next_row() is past fork(); its standard input is open
\* for writing only while the column is written.
Phases ==
    /\ pc = "row" <=> child = "none"
    /\ pc # "row" => row <= Len(rows) /\ Job.selected
    /\ pc = "feed" => ~inClosed
    /\ pc \in {"wait", "collect"} => inClosed /\ left = 0
    /\ pc = "collect" => child = "ended" /\ Job.ends = Ok /\ Len(buf) < buflen

\* No byte of the column is lost, and the command sees the end of its input
\* only behind the last one.
InputInv ==
    child # "none" =>
        /\ left + inPipe + eaten = Given
        /\ sawEof => inClosed /\ inPipe = 0
        /\ child = "ended" /\ Job.ends = Ok => written = Job.writes /\ (Job.reads => sawEof)

\* The pipe holds what the command has written, behind what was collected.
OutputInv ==
    /\ pc \in {"feed", "wait"} =>
          /\ Len(outPipe) = written
          /\ \A k \in 1 .. written : outPipe[k] = k
    /\ pc = "collect" =>
          /\ Len(buf) + Len(outPipe) = Job.writes
          /\ \A k \in 1 .. Len(buf) : buf[k] = k
          /\ \A k \in 1 .. Len(outPipe) : outPipe[k] = Len(buf) + k

LinesInv ==
    /\ status # KilledBySigpipe => Len(out) = row - 1
    /\ Len(out) <= row - 1
    /\ \A k \in 1 .. Len(out) :
           out[k] = [row |-> k, column |-> IF rows[k].selected THEN Bytes(rows[k].writes) ELSE <<>>]
    /\ \A k \in 1 .. row - 1 : rows[k].selected => rows[k].ends = Ok

StatusInv ==
    /\ status = 0 => row = Len(rows) + 1
    /\ status = 3 => row <= Len(rows) /\ Job.ends = Fails
    /\ status = 4 => row <= Len(rows) /\ Job.ends = Dies
    /\ status = KilledBySigpipe => fed /\ (Job.ends = Ok => ~Job.reads)

IInv == TypeInv /\ Phases /\ InputInv /\ OutputInv /\ LinesInv /\ StatusInv

-----------------------------------------------------------------------------
LEMMA JobIsRow ==
    ASSUME TypeInv, row <= Len(rows)
    PROVE  Job \in Row /\ Given \in Nat
BY AddExecAssumption DEF TypeInv, Job, Row, Given

LEMMA BytesAre ==
    ASSUME NEW s \in Seq(Nat), \A k \in 1 .. Len(s) : s[k] = k
    PROVE  s = Bytes(Len(s))
BY DEF Bytes

LEMMA BytesInSeq ==
    ASSUME NEW n \in Nat
    PROVE  Bytes(n) \in Seq(Nat) /\ Len(Bytes(n)) = n
BY DEF Bytes

LEMMA Empty == <<>> \in Seq(Nat) /\ <<>> \in Seq(Line) /\ Len(<<>>) = 0
OBVIOUS

LEMMA InitInv == Init => IInv
<1> SUFFICES ASSUME Init PROVE IInv
  OBVIOUS
<1>1. rows \in Seq(Jobs)
  BY DEF Init, SeqOf
<1>2. TypeInv
  <2>1. row \in 1 .. Len(rows) + 1
    BY <1>1 DEF Init
  <2>2. outPipe \in Seq(Nat) /\ Len(outPipe) <= Capacity /\ buf \in Seq(Nat) /\ out \in Seq(Line)
    BY Empty, AddExecAssumption DEF Init
  <2>3. left \in Nat /\ inPipe \in 0 .. Capacity /\ eaten \in Nat /\ written \in Nat /\ buflen \in Nat
    BY AddExecAssumption DEF Init
  <2> QED
    BY <1>1, <2>1, <2>2, <2>3 DEF Init, TypeInv
<1> QED
  BY <1>2 DEF Init, IInv, Phases, InputInv, OutputInv, LinesInv, StatusInv, Running, KilledBySigpipe

-----------------------------------------------------------------------------
(* The steps of the parent *)

\* A line for the row, and on to the next.
LEMMA LinePrinted ==
    ASSUME IInv, status = Running, status' = status, row <= Len(rows),
           Job.selected => Job.ends = Ok,
           UNCHANGED rows, row' = row + 1,
           NEW column \in Seq(Nat), PrintColumn(column),
           column = IF Job.selected THEN Bytes(Job.writes) ELSE <<>>
    PROVE  LinesInv' /\ out' \in Seq(Line)
<1> DEFINE line == [row |-> row, column |-> column]
<1>1. /\ rows \in Seq(Jobs) /\ row \in Nat \ {0} /\ out \in Seq(Line)
      /\ Len(out) = row - 1
  BY DEF IInv, TypeInv, LinesInv, Running, KilledBySigpipe
<1>2. line \in Line
  BY <1>1 DEF Line
<1>3. out' = Append(out, line)
  BY DEF PrintColumn
<1> HIDE DEF line
<1>4. /\ out' \in Seq(Line) /\ Len(out') = row
      /\ out'[row] = line /\ \A k \in 1 .. row - 1 : out'[k] = out[k]
  BY <1>1, <1>2, <1>3
<1>5. \A k \in 1 .. row : out'[k] = [row |-> k, column |-> IF rows[k].selected THEN Bytes(rows[k].writes) ELSE <<>>]
  <2> SUFFICES ASSUME NEW k \in 1 .. row
               PROVE  out'[k] = [row |-> k, column |-> IF rows[k].selected THEN Bytes(rows[k].writes) ELSE <<>>]
    OBVIOUS
  <2>1. CASE k = row
    BY <2>1, <1>4 DEF line, Job
  <2>2. CASE k \in 1 .. row - 1
    BY <2>2, <1>1, <1>4 DEF IInv, LinesInv
  <2> QED
    BY <2>1, <2>2, <1>1
<1>6. \A k \in 1 .. row : rows[k].selected => rows[k].ends = Ok
  BY <1>1 DEF IInv, LinesInv, Job
<1> QED
  BY <1>1, <1>4, <1>5, <1>6 DEF LinesInv, Running

LEMMA OtherTableInv == IInv /\ status = Running /\ OtherTable => IInv'
<1> SUFFICES ASSUME IInv, status = Running, OtherTable PROVE IInv'
  OBVIOUS
<1> USE DEF OtherTable, process
<1>1. row <= Len(rows) /\ ~Job.selected /\ pc = "row"
  BY DEF At
<1>2. LinesInv' /\ out' \in Seq(Line)
  <2>1. <<>> \in Seq(Nat)
    BY Empty
  <2>2. UNCHANGED <<rows, status>> /\ row' = row + 1 /\ PrintColumn(<<>>)
    OBVIOUS
  <2> QED
    BY ONLY IInv, status = Running, <1>1, <2>1, <2>2, LinePrinted
<1>3. TypeInv'
  BY <1>1, <1>2 DEF IInv, TypeInv
<1>4. Phases' /\ InputInv' /\ OutputInv'
  BY <1>1 DEF IInv, Phases, InputInv, OutputInv
<1>5. StatusInv'
  BY DEF StatusInv, Running, KilledBySigpipe
<1> QED
  BY <1>2, <1>3, <1>4, <1>5 DEF IInv

LEMMA ForkInv == IInv /\ status = Running /\ Fork => IInv'
<1> SUFFICES ASSUME IInv, status = Running, Fork PROVE IInv'
  OBVIOUS
<1> USE DEF Fork
<1>1. row <= Len(rows) /\ Job.selected /\ Job \in Row /\ Job' = Job /\ Given' = Given /\ Given \in Nat
  BY JobIsRow DEF At, IInv, Job, Given
<1>2. left' = Given /\ Given \in Nat
  BY <1>1 DEF Given
<1>3. TypeInv'
  <2>1. outPipe' \in Seq(Nat) /\ Len(outPipe') <= Capacity
    BY Empty, AddExecAssumption
  <2>2. inPipe' \in 0 .. Capacity /\ eaten' \in Nat /\ written' \in Nat
    BY AddExecAssumption
  <2> QED
    BY <1>2, <2>1, <2>2 DEF IInv, TypeInv
<1>4. Phases'
  BY <1>1 DEF Phases
<1>5. InputInv'
  BY <1>1, <1>2 DEF InputInv
<1>6. OutputInv'
  BY DEF OutputInv
<1>7. LinesInv'
  BY DEF IInv, LinesInv
<1>8. StatusInv'
  BY DEF StatusInv, Running, KilledBySigpipe
<1> QED
  BY <1>3, <1>4, <1>5, <1>6, <1>7, <1>8 DEF IInv

LEMMA ForkFailsInv == IInv /\ status = Running /\ ForkFails => IInv'
<1> SUFFICES ASSUME IInv, status = Running, ForkFails PROVE IInv'
  OBVIOUS
<1> USE DEF ForkFails, process
<1>1. Job' = Job /\ Given' = Given
  BY DEF Job, Given
<1>2. TypeInv' /\ Phases' /\ InputInv' /\ OutputInv'
  BY <1>1 DEF IInv, TypeInv, Phases, InputInv, OutputInv
<1>3. LinesInv' /\ StatusInv'
  BY DEF IInv, LinesInv, StatusInv, Running, KilledBySigpipe
<1> QED
  BY <1>2, <1>3 DEF IInv

LEMMA FeedInv == IInv /\ status = Running /\ Feed => IInv'
<1> SUFFICES ASSUME IInv, status = Running, Feed PROVE IInv'
  OBVIOUS
<1> USE DEF Feed, process
<1>1. Job' = Job /\ Given' = Given /\ pc = "feed" /\ child # "none" /\ row <= Len(rows)
  BY DEF Job, Given, At
<1>2. Given \in Nat
  BY <1>1, JobIsRow DEF IInv
<1>3. PICK n \in 1 .. Least(left, Capacity - inPipe) : inPipe' = inPipe + n /\ left' = left - n
  OBVIOUS
<1>4. n \in Nat /\ n <= left /\ n <= Capacity - inPipe
  BY <1>3, AddExecAssumption DEF Least, IInv, TypeInv
<1>5. left' \in Nat /\ inPipe' \in 0 .. Capacity /\ left' + inPipe' = left + inPipe
  BY <1>3, <1>4, AddExecAssumption DEF IInv, TypeInv
<1>6. TypeInv'
  BY <1>5 DEF IInv, TypeInv
<1>7. Phases'
  BY <1>1 DEF IInv, Phases
<1>8. InputInv'
  BY <1>1, <1>5 DEF IInv, InputInv, Phases, TypeInv
<1>9. OutputInv' /\ LinesInv' /\ StatusInv'
  BY <1>1 DEF IInv, OutputInv, LinesInv, StatusInv, Running, KilledBySigpipe
<1> QED
  BY <1>6, <1>7, <1>8, <1>9 DEF IInv

LEMMA BrokenPipeInv == IInv /\ status = Running /\ BrokenPipe => IInv'
<1> SUFFICES ASSUME IInv, status = Running, BrokenPipe PROVE IInv'
  OBVIOUS
<1> USE DEF BrokenPipe, process
<1>1. /\ Job' = Job /\ Given' = Given /\ row <= Len(rows)
      /\ pc = "feed" /\ left > 0 /\ child = "ended" /\ status' = KilledBySigpipe
  BY DEF Job, Given, At
<1>2. PICK n \in 0 .. Len(out) : out' = SubSeq(out, 1, n)
  OBVIOUS
<1>3. /\ out' \in Seq(Line) /\ Len(out') = n
      /\ \A k \in 1 .. n : out'[k] = out[k]
  BY <1>2 DEF IInv, TypeInv
<1>4. TypeInv' /\ Phases' /\ InputInv' /\ OutputInv'
  BY <1>1, <1>3 DEF IInv, TypeInv, Phases, InputInv, OutputInv
<1>5. LinesInv'
  BY <1>1, <1>2, <1>3 DEF IInv, TypeInv, LinesInv, KilledBySigpipe, Running
<1>6. fed
  BY <1>1 DEF IInv, InputInv, Given, TypeInv
<1>7. Job.ends = Ok => ~Job.reads
  BY <1>1 DEF IInv, InputInv, Phases
<1>8. StatusInv'
  BY <1>1, <1>6, <1>7 DEF StatusInv, KilledBySigpipe
<1> QED
  BY <1>4, <1>5, <1>8 DEF IInv

LEMMA CloseInputInv == IInv /\ status = Running /\ CloseInput => IInv'
<1> SUFFICES ASSUME IInv, status = Running, CloseInput PROVE IInv'
  OBVIOUS
<1> USE DEF CloseInput, process
<1>1. Job' = Job /\ Given' = Given /\ pc = "feed" /\ left = 0
  BY DEF Job, Given, At
<1>2. TypeInv' /\ Phases' /\ InputInv' /\ OutputInv'
  BY <1>1 DEF IInv, TypeInv, Phases, InputInv, OutputInv
<1>3. LinesInv' /\ StatusInv'
  BY <1>1 DEF IInv, LinesInv, StatusInv, Running, KilledBySigpipe
<1> QED
  BY <1>2, <1>3 DEF IInv

LEMMA WaitInv == IInv /\ status = Running /\ Wait => IInv'
<1> SUFFICES ASSUME IInv, status = Running, Wait PROVE IInv'
  OBVIOUS
<1> USE DEF Wait, process
<1>1. Job' = Job /\ Given' = Given /\ pc = "wait" /\ child = "ended" /\ row <= Len(rows)
  BY DEF Job, Given, At
<1>2. Job \in Row
  BY <1>1, JobIsRow DEF IInv
<1>3. CASE Job.ends = Ok
  <2>1. pc' = "collect" /\ buf' = <<>> /\ buflen' = (IF buflen < 1 THEN 1 ELSE buflen) /\ UNCHANGED status
    BY <1>3 DEF Ok, Fails, Dies
  <2>2. TypeInv'
    BY <2>1 DEF IInv, TypeInv
  <2>3. Phases' /\ InputInv'
    BY <1>1, <1>3, <2>1 DEF IInv, Phases, InputInv, TypeInv
  <2>4. OutputInv'
    BY <1>1, <1>3, <2>1 DEF IInv, TypeInv, InputInv, OutputInv
  <2>5. LinesInv' /\ StatusInv'
    BY <1>1, <2>1 DEF IInv, LinesInv, StatusInv, Running, KilledBySigpipe
  <2> QED
    BY <2>2, <2>3, <2>4, <2>5 DEF IInv
<1>4. CASE Job.ends \in {Fails, Dies}
  <2>1. /\ \/ Job.ends = Fails /\ status' = 3
           \/ Job.ends = Dies /\ status' = 4
        /\ UNCHANGED <<pc, buf, buflen>>
    <3>1. CASE Job.ends = Fails
      BY <3>1 DEF Ok, Fails, Dies
    <3>2. CASE Job.ends = Dies
      BY <3>2 DEF Ok, Fails, Dies
    <3> QED
      BY <1>4, <3>1, <3>2
  <2>2. TypeInv' /\ Phases' /\ InputInv' /\ OutputInv'
    BY <1>1, <2>1 DEF IInv, TypeInv, Phases, InputInv, OutputInv
  <2>3. LinesInv' /\ StatusInv'
    BY <1>1, <2>1 DEF IInv, LinesInv, StatusInv, Running, KilledBySigpipe
  <2> QED
    BY <2>2, <2>3 DEF IInv
<1> QED
  BY <1>2, <1>3, <1>4 DEF Row

LEMMA CollectInv == IInv /\ status = Running /\ Collect => IInv'
<1> SUFFICES ASSUME IInv, status = Running, Collect PROVE IInv'
  OBVIOUS
<1> DEFINE n == Readin
<1>1. Job' = Job /\ Given' = Given /\ pc = "collect" /\ row <= Len(rows)
  BY DEF Collect, Job, Given, At
<1>2. Job \in Row
  BY <1>1, JobIsRow DEF IInv
<1>3. /\ buf \in Seq(Nat) /\ outPipe \in Seq(Nat) /\ buflen \in Nat
      /\ Len(buf) + Len(outPipe) = Job.writes /\ Len(buf) < buflen
  BY <1>1 DEF IInv, TypeInv, Phases, OutputInv
<1>4. n \in Nat \ {0} /\ n <= Len(outPipe) /\ n <= buflen - Len(buf)
  BY <1>3 DEF Collect, Readin, Least
<1> HIDE DEF n
<1>5. buf' = buf \o SubSeq(outPipe, 1, n) /\ outPipe' = SubSeq(outPipe, n + 1, Len(outPipe))
  BY DEF Collect, n
<1>6. /\ SubSeq(outPipe, 1, n) \in Seq(Nat) /\ Len(SubSeq(outPipe, 1, n)) = n
      /\ \A k \in 1 .. n : SubSeq(outPipe, 1, n)[k] = outPipe[k]
  BY <1>3, <1>4, SubSeqProperties
<1>7. /\ buf' \in Seq(Nat) /\ Len(buf') = Len(buf) + n
      /\ \A k \in 1 .. Len(buf) + n : buf'[k] = IF k <= Len(buf) THEN buf[k] ELSE outPipe[k - Len(buf)]
  <2> DEFINE s == SubSeq(outPipe, 1, n)
  <2>1. s \in Seq(Nat) /\ Len(s) = n /\ \A k \in 1 .. n : s[k] = outPipe[k]
    BY <1>6
  <2> HIDE DEF s
  <2>2. buf' = buf \o s
    BY <1>5 DEF s
  <2>3. /\ buf \o s \in Seq(Nat) /\ Len(buf \o s) = Len(buf) + n
        /\ \A k \in 1 .. Len(buf) + n : (buf \o s)[k] = IF k <= Len(buf) THEN buf[k] ELSE s[k - Len(buf)]
    <3>1. buf \in Seq(Nat)
      BY <1>3
    <3> QED
      BY ONLY <2>1, <3>1, ConcatProperties
  <2>4. Len(buf) \in Nat
    BY <1>3
  <2> QED
    BY <1>4, <2>1, <2>2, <2>3, <2>4
<1>8. /\ outPipe' \in Seq(Nat) /\ Len(outPipe') = Len(outPipe) - n
      /\ \A k \in 1 .. Len(outPipe) - n : outPipe'[k] = outPipe[n + k]
  <2>1. \A k \in n + 1 .. Len(outPipe) : outPipe[k] \in Nat
    BY <1>3, <1>4
  <2>2. Len(outPipe) \in Nat
    BY <1>3
  <2>3. /\ SubSeq(outPipe, n + 1, Len(outPipe)) \in Seq(Nat)
        /\ Len(SubSeq(outPipe, n + 1, Len(outPipe))) = IF n + 1 <= Len(outPipe) THEN Len(outPipe) - (n + 1) + 1 ELSE 0
        /\ \A k \in 1 .. Len(outPipe) - (n + 1) + 1 : SubSeq(outPipe, n + 1, Len(outPipe))[k] = outPipe[n + 1 + k - 1]
    <3>1. n + 1 \in Int /\ Len(outPipe) \in Int
      BY <1>4, <2>2
    <3> QED
      BY ONLY <2>1, <3>1, SubSeqProperties
  <2> DEFINE rest == SubSeq(outPipe, n + 1, Len(outPipe))
             l == Len(outPipe)
  <2>4. n \in Nat /\ n <= l /\ outPipe' = rest
    BY <1>4, <1>5, <2>2
  <2> HIDE DEF rest, l, n
  <2>5. /\ rest \in Seq(Nat) /\ Len(rest) = IF n + 1 <= l THEN l - (n + 1) + 1 ELSE 0
        /\ \A k \in 1 .. l - (n + 1) + 1 : rest[k] = outPipe[n + 1 + k - 1]
    BY <2>3 DEF rest, l
  <2>6. l \in Nat
    BY <2>2 DEF l
  <2>7. Len(rest) = l - n
    BY <2>4, <2>5, <2>6
  <2>8. \A k \in 1 .. l - n : rest[k] = outPipe[n + k]
    <3> TAKE k \in 1 .. l - n
    <3>1. k \in 1 .. l - (n + 1) + 1 /\ n + 1 + k - 1 = n + k
      BY <2>4, <2>6
    <3> QED BY <2>5, <3>1
  <2> QED
    BY ONLY <2>4, <2>5, <2>7, <2>8 DEF l
<1>9. buflen' \in Nat /\ Len(buf') < buflen'
  <2> DEFINE l == Len(buf')
  <2>1. buflen' = Enlarged(buflen, l)
    BY DEF Collect
  <2>2. buflen \in Nat /\ l \in Nat /\ l <= buflen /\ l > 0
    BY <1>3, <1>4, <1>7
  <2> HIDE DEF l
  <2> QED BY ONLY <2>1, <2>2 DEF Enlarged, l
<1>10. OutputInv'
  <2>1. \A k \in 1 .. Len(buf') : buf'[k] = k
    <3>1. /\ Len(buf) \in Nat /\ \A k \in 1 .. Len(buf) : buf[k] = k
          /\ \A k \in 1 .. Len(outPipe) : outPipe[k] = Len(buf) + k
      BY <1>1, <1>3 DEF IInv, OutputInv
    <3>2. Len(outPipe) \in Nat
      BY <1>3
    <3> SUFFICES ASSUME NEW k \in 1 .. Len(buf) + n PROVE buf'[k] = k
      BY <1>7
    <3>3. CASE k <= Len(buf)
      BY <1>7, <3>1, <3>3
    <3>4. CASE k > Len(buf)
      <4>1. k - Len(buf) \in 1 .. Len(outPipe)
        BY <1>4, <3>1, <3>2, <3>4
      <4>2. buf'[k] = outPipe[k - Len(buf)]
        BY <1>7, <3>1, <3>4
      <4>3. outPipe[k - Len(buf)] = Len(buf) + (k - Len(buf))
        BY <3>1, <4>1
      <4> QED
        BY <3>1, <4>2, <4>3
    <3> QED
      BY <3>1, <3>3, <3>4
  <2>2. \A k \in 1 .. Len(outPipe') : outPipe'[k] = Len(buf') + k
    <3>1. Len(buf) \in Nat /\ \A k \in 1 .. Len(outPipe) : outPipe[k] = Len(buf) + k
      BY <1>1, <1>3 DEF IInv, OutputInv
    <3>2. Len(outPipe) \in Nat
      BY <1>3
    <3> SUFFICES ASSUME NEW k \in 1 .. Len(outPipe) - n PROVE outPipe'[k] = Len(buf) + n + k
      BY <1>7, <1>8
    <3>3. n + k \in 1 .. Len(outPipe)
      BY <1>4, <3>2
    <3>4. outPipe'[k] = outPipe[n + k]
      BY <1>8
    <3> QED
      BY <1>4, <3>1, <3>3, <3>4
  <2>3. Len(buf') + Len(outPipe') = Job'.writes
    <3>1. Len(buf) \in Nat /\ Len(outPipe) \in Nat
      BY <1>3
    <3> QED
      BY <1>1, <1>3, <1>4, <1>7, <1>8, <3>1
  <2>4. pc' = "collect"
    BY <1>1 DEF Collect
  <2> QED
    BY <2>1, <2>2, <2>3, <2>4 DEF OutputInv, Job
<1>11. TypeInv'
  <2>1. Len(outPipe) \in Nat /\ Capacity \in Nat
    BY <1>3, AddExecAssumption
  <2>2. Len(outPipe') <= Capacity
    BY <1>4, <1>8, <2>1 DEF IInv, TypeInv
  <2> QED
    BY <1>7, <1>8, <1>9, <2>2 DEF Collect, process, IInv, TypeInv
<1>12. Phases' /\ InputInv'
  BY <1>1, <1>9 DEF Collect, process, IInv, Phases, InputInv
<1>13. LinesInv' /\ StatusInv'
  BY <1>1 DEF Collect, process, IInv, LinesInv, StatusInv, Running, KilledBySigpipe
<1> QED
  BY <1>10, <1>11, <1>12, <1>13 DEF IInv

LEMMA CollectedInv == IInv /\ status = Running /\ Collected => IInv'
<1> SUFFICES ASSUME IInv, status = Running, Collected PROVE IInv'
  OBVIOUS
<1> USE DEF Collected
<1>1. row <= Len(rows) /\ pc = "collect" /\ Job.selected /\ Job.ends = Ok
  BY DEF At, IInv, Phases
<1>2. Job \in Row
  BY <1>1, JobIsRow DEF IInv
<1>3. /\ buf \in Seq(Nat) /\ outPipe \in Seq(Nat) /\ buflen \in Nat
      /\ Len(buf) + Len(outPipe) = Job.writes /\ Len(buf) < buflen
      /\ \A k \in 1 .. Len(buf) : buf[k] = k
  BY <1>1 DEF IInv, TypeInv, Phases, OutputInv
<1>4. Len(outPipe) = 0
  BY <1>3 DEF Readin, Least
<1>5. buf = Bytes(Job.writes)
  BY <1>2, <1>3, <1>4, BytesAre DEF Row
<1>6. LinesInv' /\ out' \in Seq(Line)
  BY <1>1, <1>3, <1>5, LinePrinted
<1>7. TypeInv'
  BY <1>1, <1>6 DEF IInv, TypeInv
<1>8. Phases' /\ InputInv' /\ OutputInv'
  BY DEF Phases, InputInv, OutputInv
<1>9. StatusInv'
  BY DEF StatusInv, Running, KilledBySigpipe
<1> QED
  BY <1>6, <1>7, <1>8, <1>9 DEF IInv

LEMMA EndInv == IInv /\ status = Running /\ End => IInv'
<1> SUFFICES ASSUME IInv, status = Running, End PROVE IInv'
  OBVIOUS
<1> USE DEF End, process
<1>1. Job' = Job /\ Given' = Given /\ row = Len(rows) + 1
  BY DEF Job, Given, IInv, TypeInv
<1>2. TypeInv' /\ Phases' /\ InputInv' /\ OutputInv'
  BY <1>1 DEF IInv, TypeInv, Phases, InputInv, OutputInv
<1>3. LinesInv' /\ StatusInv'
  BY <1>1 DEF IInv, LinesInv, StatusInv, Running, KilledBySigpipe
<1> QED
  BY <1>2, <1>3 DEF IInv

-----------------------------------------------------------------------------
(* The steps of the command *)

LEMMA ChildReadsInv == IInv /\ status = Running /\ ChildReads => IInv'
<1> SUFFICES ASSUME IInv, status = Running, ChildReads PROVE IInv'
  OBVIOUS
<1> USE DEF ChildReads, parent
<1>1. Job' = Job /\ Given' = Given /\ child = "alive" /\ row <= Len(rows)
  BY DEF Job, Given, IInv, Phases, TypeInv
<1>2. Given \in Nat
  BY <1>1, JobIsRow DEF IInv
<1>3. /\ inPipe' \in 0 .. Capacity /\ eaten' \in Nat /\ sawEof' \in BOOLEAN
      /\ inPipe' + eaten' = inPipe + eaten
      /\ sawEof' => inClosed /\ inPipe' = 0
  <2>1. CASE inPipe > 0
    <3>1. PICK n \in 1 .. inPipe : inPipe' = inPipe - n /\ eaten' = eaten + n /\ UNCHANGED sawEof
      BY <2>1
    <3> QED
      BY <3>1, AddExecAssumption DEF IInv, TypeInv
  <2>2. CASE inPipe = 0
    BY <2>2 DEF IInv, TypeInv
  <2> QED
    BY <2>1, <2>2, AddExecAssumption DEF IInv, TypeInv
<1>4. TypeInv'
  BY <1>3 DEF IInv, TypeInv
<1>5. Phases' /\ OutputInv'
  BY <1>1 DEF IInv, Phases, OutputInv
<1>6. InputInv'
  <2>1. left \in Nat /\ inPipe \in Nat /\ eaten \in Nat /\ inPipe' \in Nat
    BY <1>3, AddExecAssumption DEF IInv, TypeInv
  <2>2. left + inPipe + eaten = Given
    BY <1>1 DEF IInv, InputInv
  <2>3. left + inPipe' + eaten' = Given
    BY <1>3, <2>1, <2>2
  <2> QED
    BY <1>1, <1>3, <2>3 DEF InputInv
<1>7. LinesInv' /\ StatusInv'
  BY <1>1 DEF IInv, LinesInv, StatusInv, Running, KilledBySigpipe
<1> QED
  BY <1>4, <1>5, <1>6, <1>7 DEF IInv

LEMMA ChildWritesInv == IInv /\ status = Running /\ ChildWrites => IInv'
<1> SUFFICES ASSUME IInv, status = Running, ChildWrites PROVE IInv'
  OBVIOUS
<1> USE DEF ChildWrites, parent
<1>1. Job' = Job /\ Given' = Given /\ child = "alive" /\ pc \in {"feed", "wait"}
  BY DEF Job, Given, IInv, Phases, TypeInv
<1>2. /\ outPipe \in Seq(Nat) /\ written \in Nat /\ Len(outPipe) = written
      /\ written' = written + 1 /\ outPipe' = Append(outPipe, written')
      /\ \A k \in 1 .. written : outPipe[k] = k
  BY <1>1 DEF IInv, TypeInv, OutputInv
<1>3. outPipe' \in Seq(Nat) /\ Len(outPipe') = written' /\ \A k \in 1 .. written' : outPipe'[k] = k
  BY <1>2
<1>4. TypeInv'
  BY <1>2, <1>3, AddExecAssumption DEF IInv, TypeInv
<1>5. Phases' /\ InputInv'
  BY <1>1 DEF IInv, Phases, InputInv
<1>6. OutputInv'
  BY <1>1, <1>3 DEF OutputInv
<1>7. LinesInv' /\ StatusInv'
  BY <1>1 DEF IInv, LinesInv, StatusInv, Running, KilledBySigpipe
<1> QED
  BY <1>4, <1>5, <1>6, <1>7 DEF IInv

LEMMA ChildEndsInv == IInv /\ status = Running /\ ChildEnds => IInv'
<1> SUFFICES ASSUME IInv, status = Running, ChildEnds PROVE IInv'
  OBVIOUS
<1> USE DEF ChildEnds, parent
<1>1. Job' = Job /\ Given' = Given /\ child = "alive" /\ child' = "ended"
  BY DEF Job, Given
<1>2. TypeInv' /\ Phases' /\ OutputInv'
  BY <1>1 DEF IInv, TypeInv, Phases, OutputInv
<1>3. InputInv'
  BY <1>1 DEF IInv, InputInv
<1>4. LinesInv' /\ StatusInv'
  BY <1>1 DEF IInv, LinesInv, StatusInv, Running, KilledBySigpipe
<1> QED
  BY <1>2, <1>3, <1>4 DEF IInv

-----------------------------------------------------------------------------
\* Where the parent and the command are, what the pipes hold and what has been
\* printed are always consistent.
THEOREM Invariant == Spec => []IInv
<1>1. IInv /\ [Next]_vars => IInv'
  <2> SUFFICES ASSUME IInv, [Next]_vars PROVE IInv'
    OBVIOUS
  <2>1. CASE UNCHANGED vars
    BY <2>1 DEF vars, parent, process, IInv, TypeInv, Phases, InputInv, OutputInv, LinesInv,
                StatusInv, Given, Job
  <2>2. CASE Next
    BY <2>2, OtherTableInv, ForkInv, ForkFailsInv, FeedInv, BrokenPipeInv, CloseInputInv, WaitInv,
       CollectInv, CollectedInv, EndInv, ChildReadsInv, ChildWritesInv, ChildEndsInv
       DEF Next, ParentStep, ChildStep
  <2> QED
    BY <2>1, <2>2
<1> QED
  BY <1>1, InitInv, PTL DEF Spec

\* The new column of each row is what its command wrote, all of it and nothing
\* else, however the reads and writes are cut and whatever the size of a pipe
\* (read_all() and the shared input_buf).
THEOREM Columns == Spec => []ColumnsRight
<1>1. IInv => ColumnsRight
  <2> SUFFICES ASSUME IInv PROVE ColumnsRight
    OBVIOUS
  <2>1. Len(outPipe) \in 0 .. Capacity
    BY AddExecAssumption DEF IInv, TypeInv
  <2>2. TypeOK
    BY <2>1 DEF IInv, TypeInv, Phases, TypeOK
  <2>3. DOMAIN out = 1 .. Len(out)
    BY DEF IInv, TypeInv
  <2> QED
    BY <2>2, <2>3 DEF IInv, LinesInv, ColumnsRight
<1> QED
  BY <1>1, Invariant, PTL

\* A command that reads to the end of its input has been given the whole column
\* (write_all(), and close() only after it).
THEOREM Input == Spec => []InputWhole
<1>1. IInv => InputWhole
  <2> SUFFICES ASSUME IInv, child # "none", sawEof PROVE eaten = Given
    BY DEF InputWhole, Given
  <2>1. row <= Len(rows) /\ inClosed /\ inPipe = 0 /\ left = 0
    BY DEF IInv, TypeInv, Phases, InputInv
  <2> QED
    BY <2>1 DEF IInv, TypeInv, InputInv
<1> QED
  BY <1>1, Invariant, PTL

\* The exit status tells which commands ended well and how many lines there are
\* (wait(), and the end by SIGPIPE).
THEOREM Status == Spec => []StatusTells
<1>1. IInv => StatusTells
  <2> SUFFICES ASSUME IInv PROVE StatusTells
    OBVIOUS
  <2>1. status = 0 => Len(out) = Len(rows) /\ \A k \in DOMAIN rows : rows[k].selected => rows[k].ends = Ok
    BY DEF IInv, TypeInv, LinesInv, StatusInv, KilledBySigpipe
  <2> QED
    BY <2>1 DEF IInv, LinesInv, StatusInv, StatusTells, KilledBySigpipe
<1> QED
  BY <1>1, Invariant, PTL
=============================================================================
