--------------------------- MODULE CsvParseProofs ---------------------------
(***************************************************************************)
(* Safety of csv_read_all() for every stream, number of columns, size of   *)
(* the chunks and growth of the buffer: the rows given to the callback are *)
(* the rows of the text, and what the tools print is read back unchanged.  *)
(***************************************************************************)
EXTENDS CsvParse, SeqLemmas, TLAPS

\* The reader's state after each prefix of the stream, by which the stream is judged.
Reader == States(Nothing, text, nheaders)

\* How much of the text was moved out of the buffer, and how much was looked at.
Moved == Len(text) - Len(unread) - Ready
Seen == Moved + i
Now == Reader[Seen]

Inputs ==
    /\ text \in Seq(Char) /\ nheaders \in Nat \ {0} /\ chunk \in Nat \ {0}
    /\ table # <<>> =>
          /\ text = Printout(table) /\ table \in Seq(Seq(Seq(Char)))
          /\ \A k \in DOMAIN table : Len(table[k]) = nheaders

Types ==
    /\ TypeOK
    /\ buf \in Seq(Char \cup {Nul}) /\ unread \in Seq(Char)
    /\ buflen \in Nat /\ Moved \in Nat

\* What is not looked at yet is the rest of the text.
Rest ==
    /\ \A k \in DOMAIN unread : unread[k] = text[Moved + Ready + k]
    /\ \A k \in i + 1 .. Ready : buf[k] = text[Moved + k]
    /\ eof => unread = <<>>

\* The columns of the row, each ended by a NUL, and the column that is being read.
OpenRow ==
    /\ column < nheaders /\ colOffs[0] = 0 /\ Len(Now.row) = column
    /\ \A k \in 0 .. column - 1 :
          /\ colOffs[k] < colOffs[k + 1] /\ colOffs[k + 1] <= i
          /\ buf[colOffs[k + 1]] = Nul
          /\ Now.row[k + 1] = SubSeq(buf, colOffs[k] + 1, colOffs[k + 1] - 1)
    /\ colOffs[column] <= i
    /\ Now.column = SubSeq(buf, colOffs[column] + 1, i)

\* The flags tell how the reader goes on.
Mode ==
    /\ lastQuot => inQuoted
    /\ inQuoted =>
          i > colOffs[column] /\ Now.mode = IF lastQuot THEN "quot" ELSE "quoted"
    /\ ~inQuoted /\ i = colOffs[column] => Now.mode = "start"
    /\ ~inQuoted /\ i > colOffs[column] =>
          Now.mode = "plain" \/ (Now.mode = "quot" /\ Scanning /\ buf[i + 1] # Quot)

\* The callback has had the rows of the text so far, no row of which ends in the buffer.
Given == rows = Now.rows /\ Reader[Moved].rows = rows

\* How the loop ends.
Result ==
    /\ ret = AtEnd => rows = Reader[Len(text)].rows /\ Reader[Len(text)].mode # "corrupted"
    /\ ret = Failed =>
          \E k \in 0 .. Len(text) :
              rows = Reader[k].rows /\ (ioError \/ Reader[k].mode = "corrupted")
    /\ ret = Stopped =>
          /\ Len(rows) = stopAfter
          /\ \E k \in 0 .. Len(text) : rows = Reader[k].rows

\* The inductive invariant
IInv ==
    /\ Inputs /\ Types /\ BufferBounded
    /\ ret = Running => Rest /\ OpenRow /\ Mode /\ Given
    /\ Result

-----------------------------------------------------------------------------
(* The reader *)

Modes == {"start", "quoted", "quot", "plain", "corrupted"}
Text == Seq(Char)
Row == Seq(Text)
ReaderState == [rows : Seq(Row), row : Row, column : Text, mode : Modes]

\* A character that goes into the column.
Into(s, c, mode) == [rows |-> s.rows, row |-> s.row, column |-> Append(s.column, c), mode |-> mode]

\* The states of the reader follow from one another.
LEMMA StatesByStep ==
    ASSUME NEW s, NEW t \in Text, NEW n
    PROVE  /\ States(s, t, n)[0] = s
           /\ \A k \in 1 .. Len(t) : States(s, t, n)[k] = Reading(States(s, t, n)[k - 1], t[k], n)
<1> DEFINE Upto(f, m) == [k \in 0 .. m |-> IF k = 0 THEN s ELSE Reading(f[k - 1], t[k], n)]
           T == {m \in Nat : \E f : f = Upto(f, m)}
<1>1. 0 \in T
  <2> DEFINE f == [k \in 0 .. 0 |-> s]
  <2>1. f = Upto(f, 0)
    OBVIOUS
  <2> HIDE DEF f, Upto
  <2> QED BY <2>1
<1>2. ASSUME NEW m \in Nat, m \in T PROVE m + 1 \in T
  <2>1. PICK f : f = Upto(f, m)
    BY <1>2
  <2> DEFINE g == [k \in 0 .. m + 1 |-> IF k <= m THEN f[k] ELSE Reading(f[m], t[k], n)]
  <2>2. \A k \in 0 .. m + 1 : g[k] = IF k = 0 THEN s ELSE Reading(g[k - 1], t[k], n)
    <3> TAKE k \in 0 .. m + 1
    <3>1. CASE k <= m
      <4>1. f[k] = IF k = 0 THEN s ELSE Reading(f[k - 1], t[k], n)
        <5>1. Upto(f, m)[k] = IF k = 0 THEN s ELSE Reading(f[k - 1], t[k], n)
          BY <3>1
        <5> HIDE DEF Upto
        <5> QED BY <2>1, <5>1
      <4>2. k # 0 => g[k - 1] = f[k - 1]
        BY <3>1
      <4> QED BY <3>1, <4>1, <4>2
    <3>2. CASE k = m + 1
      BY <3>2
    <3> QED BY <3>1, <3>2
  <2>3. g = Upto(g, m + 1)
    <3>1. g = [k \in 0 .. m + 1 |-> g[k]]
      OBVIOUS
    <3> HIDE DEF g
    <3> QED BY <2>2, <3>1
  <2> HIDE DEF g, Upto
  <2> QED BY <2>3
<1>3. Len(t) \in T
  <2> HIDE DEF T
  <2> QED BY <1>1, <1>2, NatSetInduction
<1> DEFINE F == CHOOSE f : f = Upto(f, Len(t))
<1>4. F = Upto(F, Len(t))
  <2>1. \E f : f = Upto(f, Len(t))
    BY <1>3
  <2> HIDE DEF Upto
  <2> QED BY <2>1
<1>5. States(s, t, n) = F
  BY DEF States
<1> HIDE DEF F
<1>6. ASSUME NEW k \in 0 .. Len(t)
      PROVE  F[k] = IF k = 0 THEN s ELSE Reading(F[k - 1], t[k], n)
  <2>1. Upto(F, Len(t))[k] = IF k = 0 THEN s ELSE Reading(F[k - 1], t[k], n)
    OBVIOUS
  <2> HIDE DEF Upto
  <2> QED BY <1>4, <2>1
<1>7. Len(t) \in Nat
  BY DEF Text
<1> QED BY <1>5, <1>6, <1>7

\* Closing a column keeps the types.
LEMMA ClosedType ==
    ASSUME NEW s \in ReaderState, NEW n
    PROVE  /\ Closed(s, n) \in ReaderState
           /\ Closed(s, n).rows \in {s.rows, Append(s.rows, Append(s.row, s.column))}
<1> DEFINE row == Append(s.row, s.column)
<1>1. row \in Row
  BY DEF ReaderState, Row
<1>2. /\ s.rows \in Seq(Row) /\ Append(s.rows, row) \in Seq(Row)
      /\ <<>> \in Row /\ <<>> \in Text
  BY <1>1 DEF ReaderState, Row, Text
<1> QED BY <1>1, <1>2 DEF Closed, ReaderState, Modes

\* A character keeps the types and the rows so far, and nothing is read after
\* what is corrupted.
LEMMA ReadingType ==
    ASSUME NEW s \in ReaderState, NEW c \in Char, NEW n
    PROVE  /\ Reading(s, c, n) \in ReaderState
           /\ IsPrefix(s.rows, Reading(s, c, n).rows)
           /\ s.mode = "corrupted" => Reading(s, c, n) = s
<1> DEFINE into(mode) == [rows |-> s.rows, row |-> s.row, column |-> Append(s.column, c), mode |-> mode]
<1>1. s.rows \in Seq(Row) /\ s.row \in Row /\ s.column \in Text /\ s.mode \in Modes
  BY DEF ReaderState
<1>2. \A mode \in Modes : into(mode) \in ReaderState /\ into(mode).rows = s.rows
  <2>1. Append(s.column, c) \in Text
    BY <1>1 DEF Text
  <2> QED BY <2>1 DEF ReaderState
<1>3. Closed(s, n) \in ReaderState /\ IsPrefix(s.rows, Closed(s, n).rows)
  <2>1. Append(s.row, s.column) \in Row
    BY <1>1 DEF Row
  <2>2. IsPrefix(s.rows, s.rows) /\ IsPrefix(s.rows, Append(s.rows, Append(s.row, s.column)))
    BY <1>1, <2>1, PrefixOrder
  <2> QED BY <2>2, ClosedType
<1>4. IsPrefix(s.rows, s.rows)
  BY <1>1, PrefixOrder, <<>> \in Row DEF Row
<1>5. [s EXCEPT !.mode = "corrupted"] \in ReaderState /\ [s EXCEPT !.mode = "corrupted"].rows = s.rows
  BY DEF ReaderState, Modes
<1>6. \/ s.mode # "corrupted" /\ \E mode \in Modes : Reading(s, c, n) = into(mode)
      \/ s.mode # "corrupted" /\ Reading(s, c, n) = Closed(s, n)
      \/ s.mode # "corrupted" /\ Reading(s, c, n) = [s EXCEPT !.mode = "corrupted"]
      \/ Reading(s, c, n) = s
  <2> HIDE DEF into
  <2> QED BY <1>1 DEF Reading, Modes, Char, Separators, Quot, Comma, Newline, Other, into
<1> HIDE DEF into
<1> QED BY <1>2, <1>3, <1>4, <1>5, <1>6

\* The states of a reader are states, and Nothing is the first of them.
LEMMA StatesType ==
    ASSUME NEW s \in ReaderState, NEW t \in Text, NEW n
    PROVE  \A k \in 0 .. Len(t) : States(s, t, n)[k] \in ReaderState
<1> DEFINE R == States(s, t, n)
           T == {k \in Nat : k \in 0 .. Len(t) => R[k] \in ReaderState}
<1>1. /\ R[0] = s /\ Len(t) \in Nat
      /\ \A k \in 1 .. Len(t) : R[k] = Reading(R[k - 1], t[k], n) /\ t[k] \in Char
  BY StatesByStep DEF Text
<1> HIDE DEF R
<1>2. 0 \in T
  BY <1>1
<1>3. ASSUME NEW k \in Nat, k \in T PROVE k + 1 \in T
  <2> SUFFICES ASSUME k + 1 \in 0 .. Len(t) PROVE R[k + 1] \in ReaderState
    OBVIOUS
  <2> DEFINE next == k + 1
  <2>1. next \in 1 .. Len(t) /\ next - 1 = k /\ R[k] \in ReaderState
    BY <1>1, <1>3
  <2> HIDE DEF next
  <2>2. R[next] = Reading(R[k], t[next], n) /\ t[next] \in Char
    BY <1>1, <2>1
  <2>3. R[next] \in ReaderState
    BY <2>1, <2>2, ReadingType
  <2> QED BY <2>3 DEF next
<1>4. Nat \subseteq T
  <2> HIDE DEF T
  <2> QED BY <1>2, <1>3, NatSetInduction
<1> QED BY <1>1, <1>4 DEF R

\* The rows of a prefix are the first rows of the text, and what is corrupted stays so.
LEMMA StatesGrow ==
    ASSUME NEW s \in ReaderState, NEW t \in Text, NEW n, NEW j \in 0 .. Len(t)
    PROVE  \A k \in j .. Len(t) :
              /\ IsPrefix(States(s, t, n)[j].rows, States(s, t, n)[k].rows)
              /\ States(s, t, n)[j].mode = "corrupted" => States(s, t, n)[k] = States(s, t, n)[j]
<1> DEFINE R == States(s, t, n)
           P(k) == /\ IsPrefix(R[j].rows, R[k].rows)
                   /\ R[j].mode = "corrupted" => R[k] = R[j]
           T == {d \in Nat : j + d \in 0 .. Len(t) => P(j + d)}
<1>1. /\ Len(t) \in Nat /\ j \in Nat
      /\ \A k \in 1 .. Len(t) : R[k] = Reading(R[k - 1], t[k], n) /\ t[k] \in Char
      /\ \A k \in 0 .. Len(t) : R[k] \in ReaderState
  BY StatesByStep, StatesType DEF Text
<1>2. \A q \in ReaderState : q.rows \in Seq(Row)
  BY DEF ReaderState
<1>3. <<>> \in Row
  BY DEF Row
<1> HIDE DEF R
<1>4. 0 \in T
  BY <1>1, <1>2, <1>3, PrefixOrder
<1>5. ASSUME NEW d \in Nat, d \in T PROVE d + 1 \in T
  <2> SUFFICES ASSUME j + (d + 1) \in 0 .. Len(t) PROVE P(j + (d + 1))
    OBVIOUS
  <2> DEFINE k == j + d
             next == j + (d + 1)
  <2>1. next \in 1 .. Len(t) /\ next - 1 = k /\ k \in 0 .. Len(t) /\ P(k)
    BY <1>1, <1>5
  <2> HIDE DEF next, k
  <2>2. R[next] = Reading(R[k], t[next], n) /\ t[next] \in Char /\ R[k] \in ReaderState
    BY <1>1, <2>1
  <2>3. /\ IsPrefix(R[k].rows, R[next].rows) /\ (R[k].mode = "corrupted" => R[next] = R[k])
    BY <2>2, ReadingType
  <2>4. R[j].rows \in Seq(Row) /\ R[k].rows \in Seq(Row) /\ R[next].rows \in Seq(Row)
    BY <1>1, <1>2, <2>1
  <2>5. IsPrefix(R[j].rows, R[next].rows)
    BY <1>3, <2>1, <2>3, <2>4, PrefixOrder
  <2>6. P(next)
    BY <2>1, <2>3, <2>5
  <2> QED BY <2>6 DEF next
<1>6. Nat \subseteq T
  <2> HIDE DEF T
  <2> QED BY <1>4, <1>5, NatSetInduction
<1>7. ASSUME NEW k \in j .. Len(t) PROVE P(k)
  <2> DEFINE d == k - j
  <2>1. d \in Nat /\ j + d = k /\ k \in 0 .. Len(t)
    BY <1>1
  <2>2. d \in T
    BY <1>6, <2>1
  <2> HIDE DEF d, P
  <2> QED BY <2>1, <2>2
<1> QED BY <1>7 DEF R

-----------------------------------------------------------------------------
(* A step of the loop *)

\* A stretch of the text in which no row ends, as long as the buffer but for its growth.
Stretch ==
    \E from, to \in 0 .. Len(text) :
        /\ buflen <= to - from + Grow
        /\ Reader[to].rows = Reader[from].rows /\ Reader[to].mode # "corrupted"

\* The sizes are numbers.
LEMMA Sizes ==
    ASSUME IInv
    PROVE  /\ Len(text) \in Nat /\ Ready \in Nat /\ Len(unread) \in Nat
           /\ buflen \in Nat /\ Ready <= buflen /\ i \in 0 .. Ready /\ column \in Nat
           /\ nheaders \in Nat \ {0}
           /\ Moved \in Nat /\ Moved + Ready + Len(unread) = Len(text)
           /\ Seen = Moved + i /\ Seen \in 0 .. Len(text)
<1>1. Inputs /\ Types
  BY DEF IInv
<1>2. Len(text) \in Nat /\ nheaders \in Nat \ {0}
  BY <1>1 DEF Inputs
<1>3. Ready \in Nat /\ Len(unread) \in Nat /\ buflen \in Nat /\ Moved \in Nat
  BY <1>1 DEF Types, Ready
<1>4. Ready <= buflen /\ i \in 0 .. Ready /\ column \in Nat
  BY <1>1, <1>2 DEF Types, TypeOK
<1>5. Moved + Ready + Len(unread) = Len(text) /\ Seen = Moved + i /\ Seen \in 0 .. Len(text)
  BY <1>2, <1>3, <1>4 DEF Moved, Seen
<1> QED BY <1>2, <1>3, <1>4, <1>5

\* The reader goes from state to state.
LEMMA Facts ==
    ASSUME IInv
    PROVE  /\ text \in Text /\ buf \in Seq(Char \cup {Nul}) /\ unread \in Seq(Char)
           /\ colOffs \in [0 .. nheaders - 1 -> 0 .. buflen]
           /\ \A k \in 0 .. Len(text) : Reader[k] \in ReaderState
           /\ \A k \in 1 .. Len(text) : /\ text[k] \in Char
                                        /\ Reader[k] = Reading(Reader[k - 1], text[k], nheaders)
           /\ Now \in ReaderState /\ Inputs /\ Types /\ TypeOK /\ Stretch
<1>1. Inputs /\ Types /\ BufferBounded
  BY DEF IInv
<1>2. text \in Text /\ \A k \in 1 .. Len(text) : text[k] \in Char
  BY <1>1 DEF Inputs, Text
<1>3. TypeOK /\ colOffs \in [0 .. nheaders - 1 -> 0 .. buflen] /\ buf \in Seq(Char \cup {Nul}) /\ unread \in Seq(Char)
  BY <1>1 DEF Types, TypeOK
<1>4. Nothing \in ReaderState
  BY DEF Nothing, ReaderState, Row, Text, Modes
<1>5. \A k \in 0 .. Len(text) : Reader[k] \in ReaderState
  BY <1>2, <1>4, StatesType DEF Reader
<1>6. \A k \in 1 .. Len(text) : Reader[k] = Reading(Reader[k - 1], text[k], nheaders)
  BY <1>2, StatesByStep DEF Reader
<1>7. Stretch
  BY <1>1 DEF BufferBounded, Stretch, Reader
<1>8. Now \in ReaderState
  BY <1>5, Sizes DEF Now
<1> QED BY <1>1, <1>2, <1>3, <1>5, <1>6, <1>7, <1>8

\* The character looked at is the next one of the text.
LEMMA Looked ==
    ASSUME IInv, ret = Running, Scanning
    PROVE  /\ Seen + 1 \in 1 .. Len(text) /\ i + 1 \in 1 .. Ready
           /\ buf[i + 1] = text[Seen + 1] /\ buf[i + 1] \in Char
           /\ Reader[Seen + 1] = Reading(Now, buf[i + 1], nheaders)
<1> DEFINE next == Seen + 1
<1>1. i < Ready /\ Rest
  BY DEF Scanning, IInv
<1>2. next \in 1 .. Len(text) /\ next - 1 = Seen /\ i + 1 \in 1 .. Ready /\ next = Moved + (i + 1)
  <2>1. /\ Len(text) \in Nat /\ Ready \in Nat /\ Len(unread) \in Nat /\ Moved \in Nat /\ i \in Nat
        /\ Moved + Ready + Len(unread) = Len(text) /\ Seen = Moved + i
    BY Sizes
  <2> QED BY ONLY <1>1, <2>1
<1> HIDE DEF next
<1>3. buf[i + 1] = text[next]
  <2>1. i + 1 \in i + 1 .. Ready
    BY <1>1, Sizes
  <2> QED BY <1>1, <1>2, <2>1 DEF Rest
<1>4. text[next] \in Char /\ Reader[next] = Reading(Reader[Seen], text[next], nheaders)
  BY <1>2, Facts
<1> QED BY <1>2, <1>3, <1>4 DEF next, Now

\* What a step keeps that leaves the text and the size of the buffer alone.
LEMMA BasesKept ==
    ASSUME IInv, UNCHANGED <<inputs, buflen>>, TypeOK',
           buf' \in Seq(Char \cup {Nul}), unread' \in Seq(Char), Moved' \in Nat
    PROVE  Inputs' /\ Types' /\ BufferBounded' /\ Reader' = Reader
<1>1. UNCHANGED <<text, table, nheaders, chunk, stopAfter, buflen>>
  BY DEF inputs
<1>2. Inputs /\ Stretch /\ buflen \in Nat
  BY Facts, Sizes
<1>3. Reader' = Reader
  BY <1>1 DEF Reader
<1>4. Inputs'
  BY <1>1, <1>2 DEF Inputs
<1>5. Types'
  BY <1>1, <1>2 DEF Types
<1>6. BufferBounded'
  <2>1. Stretch'
    BY <1>1, <1>2, <1>3 DEF Stretch
  <2> QED BY <2>1 DEF BufferBounded, Stretch, Reader
<1> QED BY <1>3, <1>4, <1>5, <1>6

\* A character that goes into the column.
LEMMA Taken ==
    ASSUME IInv, ret = Running, Scanning,
           UNCHANGED <<inputs, stream, buf, column, colOffs, rows, ret, ioError>>,
           i' = i + 1, inQuoted' \in BOOLEAN, lastQuot' \in BOOLEAN, NEW mode \in Modes,
           Reading(Now, buf[i + 1], nheaders) = Into(Now, buf[i + 1], mode)
    PROVE  /\ Mode' => IInv'
           /\ Now'.mode = mode /\ i' > colOffs'[column'] /\ colOffs[column] <= i /\ colOffs[column] \in Nat
<1>1. /\ UNCHANGED <<text, table, nheaders, chunk, stopAfter, unread, buflen, eof>>
      /\ UNCHANGED <<buf, column, colOffs, rows, ret, ioError>>
  BY DEF inputs, stream
<1>2. /\ Ready' = Ready /\ Moved' = Moved /\ i < Ready /\ Ready \in Nat /\ Moved \in Nat /\ i \in Nat
      /\ Seen' = Seen + 1
  <2>1. Ready' = Ready /\ Moved' = Moved
    BY <1>1 DEF Ready, Moved
  <2>2. i < Ready /\ Ready \in Nat /\ Moved \in Nat /\ i \in Nat /\ Seen = Moved + i
    BY Sizes DEF Scanning
  <2>3. Seen' = Moved' + i'
    BY DEF Seen
  <2> QED BY ONLY <2>1, <2>2, <2>3, i' = i + 1
<1>3. Inputs' /\ Types' /\ BufferBounded' /\ Reader' = Reader
  <2>1. TypeOK'
    <3>1. TypeOK
      BY Facts
    <3>2. i' \in 0 .. Ready'
      BY ONLY <1>2, i' = i + 1
    <3> QED BY <1>1, <1>2, <3>1, <3>2 DEF TypeOK
  <2>2. buf' \in Seq(Char \cup {Nul}) /\ unread' \in Seq(Char) /\ Moved' \in Nat
    BY <1>1, <1>2, Facts
  <2> QED BY <2>1, <2>2, <1>1, BasesKept
<1>4. Now' = Into(Now, buf[i + 1], mode)
  <2>1. Now' = Reader[Seen + 1]
    BY <1>2, <1>3 DEF Now
  <2> QED BY <2>1, Looked
<1>5. Now \in ReaderState /\ Now'.rows = Now.rows /\ Now'.row = Now.row /\ Now'.column = Append(Now.column, buf[i + 1])
  BY <1>4, Facts DEF Into
<1>6. Rest /\ OpenRow /\ Given
  BY DEF IInv
<1>7. Rest'
  BY <1>1, <1>2, <1>6 DEF Rest
<1>8. OpenRow'
  <2> DEFINE off == colOffs[column]
  <2>1. off \in Nat /\ off <= i
    <3>1. column \in 0 .. nheaders - 1
      BY <1>6, Sizes DEF OpenRow
    <3>2. off \in 0 .. buflen /\ off <= i
      BY <1>6, <3>1, Facts DEF OpenRow
    <3> QED BY <3>2, Sizes
  <2>2. SubSeq(buf, off + 1, i + 1) = Append(SubSeq(buf, off + 1, i), buf[i + 1])
    <3>1. buf \in Seq(Char \cup {Nul}) /\ i \in 0 .. Len(buf) - 1
      BY <1>2, Facts DEF Ready
    <3>2. off + 1 \in 1 .. i + 1
      BY <1>2, <2>1
    <3> QED BY <3>1, <3>2, SubSeqGrows
  <2>3. Now'.column = SubSeq(buf, off + 1, i')
    BY <1>5, <1>6, <2>2 DEF OpenRow
  <2>4. \A k \in 0 .. column - 1 : colOffs[k + 1] <= i => colOffs[k + 1] <= i'
    <3> SUFFICES ASSUME NEW k \in 0 .. column - 1, colOffs[k + 1] <= i PROVE colOffs[k + 1] <= i'
      OBVIOUS
    <3>1. k + 1 \in 0 .. nheaders - 1
      <4>1. column < nheaders /\ column \in Nat /\ nheaders \in Nat
        BY <1>6, Sizes DEF OpenRow
      <4> QED BY ONLY <4>1, k \in 0 .. column - 1
    <3>2. colOffs[k + 1] \in 0 .. buflen
      BY <3>1, Facts
    <3>3. buflen \in Nat
      BY Sizes
    <3> DEFINE at == colOffs[k + 1]
    <3>4. at \in Nat /\ at <= i
      BY <3>2, <3>3
    <3> HIDE DEF at
    <3>5. at <= i'
      BY ONLY <1>2, <3>4, i' = i + 1
    <3> QED BY <3>5 DEF at
  <2>5. off <= i'
    BY <1>2, <2>1
  <2> HIDE DEF off
  <2> QED BY <1>1, <1>5, <1>6, <2>3, <2>4, <2>5 DEF OpenRow, off
<1>9. Given'
  BY <1>1, <1>2, <1>3, <1>5, <1>6 DEF Given
<1>10. Result'
  BY <1>1 DEF Result, Running, AtEnd, Failed, Stopped
<1>11. Now'.mode = mode
  BY <1>4 DEF Into
<1>12. colOffs[column] <= i /\ colOffs[column] \in Nat /\ i' > colOffs'[column']
  <2>1. column \in 0 .. nheaders - 1
    BY <1>6, Sizes DEF OpenRow
  <2>2. colOffs[column] \in 0 .. buflen /\ colOffs[column] <= i
    BY <1>6, <2>1, Facts DEF OpenRow
  <2>3. buflen \in Nat
    BY Sizes
  <2>4. colOffs'[column'] = colOffs[column]
    BY <1>1
  <2> DEFINE off == colOffs[column]
  <2>5. off \in Nat /\ off <= i
    BY <2>2, <2>3
  <2> HIDE DEF off
  <2>6. i' > off
    BY ONLY <1>2, <2>5, i' = i + 1
  <2> QED BY <2>4, <2>5, <2>6 DEF off
<1> QED BY <1>3, <1>7, <1>8, <1>9, <1>10, <1>11, <1>12 DEF IInv

\* The modes of the reader, one character at a time.
LEMMA ReadingInto ==
    ASSUME NEW s \in ReaderState, NEW c \in Char, NEW n, s.mode # "corrupted"
    PROVE  /\ s.mode = "quoted" => Reading(s, c, n) = Into(s, c, IF c = Quot THEN "quot" ELSE "quoted")
           /\ s.mode = "quot" /\ c = Quot => Reading(s, c, n) = Into(s, c, "quoted")
           /\ s.mode \in {"start", "plain", "quot"} /\ c \in Separators => Reading(s, c, n) = Closed(s, n)
           /\ s.mode = "start" /\ c = Quot => Reading(s, c, n) = Into(s, c, "quoted")
           /\ s.mode = "plain" /\ c = Quot => Reading(s, c, n) = [s EXCEPT !.mode = "corrupted"]
           /\ s.mode \in {"start", "plain", "quot"} /\ c = Other => Reading(s, c, n) = Into(s, c, "plain")
<1>1. Reading(s, c, n) = CASE s.mode = "corrupted" -> s
          [] s.mode = "quoted" -> Into(s, c, IF c = Quot THEN "quot" ELSE "quoted")
          [] s.mode = "quot" /\ c = Quot -> Into(s, c, "quoted")
          [] s.mode \in {"start", "plain", "quot"} /\ c \in Separators -> Closed(s, n)
          [] s.mode = "start" /\ c = Quot -> Into(s, c, "quoted")
          [] s.mode = "plain" /\ c = Quot -> [s EXCEPT !.mode = "corrupted"]
          [] s.mode \in {"start", "plain", "quot"} /\ c = Other -> Into(s, c, "plain")
  BY DEF Reading, Into
<1>2. s.mode = "quoted" => Reading(s, c, n) = Into(s, c, IF c = Quot THEN "quot" ELSE "quoted")
  BY <1>1
<1>3. s.mode = "quot" /\ c = Quot => Reading(s, c, n) = Into(s, c, "quoted")
  BY <1>1 DEF Separators, Quot, Comma, Newline, Other
<1>4. s.mode \in {"start", "plain", "quot"} /\ c \in Separators => Reading(s, c, n) = Closed(s, n)
  BY <1>1 DEF Separators, Quot, Comma, Newline, Other
<1>5. s.mode = "start" /\ c = Quot => Reading(s, c, n) = Into(s, c, "quoted")
  BY <1>1 DEF Separators, Quot, Comma, Newline, Other
<1>6. s.mode = "plain" /\ c = Quot => Reading(s, c, n) = [s EXCEPT !.mode = "corrupted"]
  BY <1>1 DEF Separators, Quot, Comma, Newline, Other
<1>7. s.mode \in {"start", "plain", "quot"} /\ c = Other => Reading(s, c, n) = Into(s, c, "plain")
  BY <1>1 DEF Separators, Quot, Comma, Newline, Other
<1> QED BY <1>2, <1>3, <1>4, <1>5, <1>6, <1>7

\* A quote after a quote goes into the column.
LEMMA EscapedQuotStep == IInv /\ ret = Running /\ EscapedQuot => IInv'
<1> SUFFICES ASSUME IInv, ret = Running, EscapedQuot PROVE IInv'
  OBVIOUS
<1>1. /\ Scanning /\ buf[i + 1] = Quot /\ lastQuot /\ lastQuot' = FALSE /\ i' = i + 1
      /\ UNCHANGED <<inputs, stream, buf, column, colOffs, inQuoted, rows, ret, ioError>>
  BY DEF EscapedQuot, Looking
<1>2. Now.mode = "quot" /\ inQuoted /\ inQuoted' /\ inQuoted' \in BOOLEAN
  BY <1>1, Facts DEF IInv, Mode, TypeOK
<1>3. Reading(Now, buf[i + 1], nheaders) = Into(Now, buf[i + 1], "quoted")
  BY <1>1, <1>2, Looked, Facts, ReadingInto
<1>4. (Mode' => IInv') /\ Now'.mode = "quoted" /\ i' > colOffs'[column']
  BY <1>1, <1>2, <1>3, Taken DEF Modes
<1>5. Mode'
  BY <1>1, <1>2, <1>4 DEF Mode
<1> QED BY <1>4, <1>5

\* Within a quoted column every character goes into the column.
LEMMA InsideQuotedStep == IInv /\ ret = Running /\ InsideQuoted => IInv'
<1> SUFFICES ASSUME IInv, ret = Running, InsideQuoted PROVE IInv'
  OBVIOUS
<1> DEFINE mode == IF buf[i + 1] = Quot THEN "quot" ELSE "quoted"
<1>1. /\ Scanning /\ inQuoted /\ ~lastQuot /\ lastQuot' = (buf[i + 1] = Quot) /\ i' = i + 1
      /\ UNCHANGED <<inputs, stream, buf, column, colOffs, inQuoted, rows, ret, ioError>>
  BY DEF InsideQuoted, Looking
<1>2. Now.mode = "quoted" /\ inQuoted' /\ inQuoted' \in BOOLEAN /\ lastQuot' \in BOOLEAN
  BY <1>1, Facts DEF IInv, Mode, TypeOK
<1>3. Reading(Now, buf[i + 1], nheaders) = Into(Now, buf[i + 1], mode)
  BY <1>1, <1>2, Looked, Facts, ReadingInto
<1>4. mode \in Modes /\ mode = IF lastQuot' THEN "quot" ELSE "quoted"
  BY <1>1 DEF Modes
<1> HIDE DEF mode
<1>5. (Mode' => IInv') /\ Now'.mode = mode /\ i' > colOffs'[column']
  BY <1>1, <1>2, <1>3, <1>4, Taken
<1>6. Mode'
  BY <1>1, <1>2, <1>4, <1>5 DEF Mode
<1> QED BY <1>5, <1>6

\* A quote at the start of a column opens a quoted one.
LEMMA OpenQuotedStep == IInv /\ ret = Running /\ OpenQuoted => IInv'
<1> SUFFICES ASSUME IInv, ret = Running, OpenQuoted PROVE IInv'
  OBVIOUS
<1>1. /\ Scanning /\ buf[i + 1] = Quot /\ ~inQuoted /\ ~lastQuot /\ inQuoted' = TRUE /\ i' = i + 1
      /\ i = colOffs[column]
      /\ UNCHANGED <<inputs, stream, buf, column, colOffs, lastQuot, rows, ret, ioError>>
  BY DEF OpenQuoted, Looking, Unquoted
<1>2. Now.mode = "start" /\ lastQuot' \in BOOLEAN
  BY <1>1, Facts DEF IInv, Mode, TypeOK
<1>3. Reading(Now, buf[i + 1], nheaders) = Into(Now, buf[i + 1], "quoted")
  BY <1>1, <1>2, Looked, Facts, ReadingInto
<1>4. (Mode' => IInv') /\ Now'.mode = "quoted" /\ i' > colOffs'[column']
  BY <1>1, <1>2, <1>3, Taken DEF Modes
<1>5. Mode'
  BY <1>1, <1>2, <1>4 DEF Mode
<1> QED BY <1>4, <1>5

\* Outside of a quoted string the reader is at the start of a column, in the middle
\* of one, or behind a quoted string that no quote follows.
LEMMA OutsideModes ==
    ASSUME IInv, ret = Running, Unquoted
    PROVE  /\ Now.mode \in {"start", "plain", "quot"}
           /\ i # colOffs[column] /\ Scanning /\ buf[i + 1] = Quot => Now.mode = "plain"
<1>1. ~inQuoted /\ Mode /\ OpenRow
  BY DEF IInv, Unquoted
<1>2. column \in 0 .. nheaders - 1
  BY <1>1, Sizes DEF OpenRow
<1>3. colOffs[column] \in 0 .. buflen /\ colOffs[column] <= i
  BY <1>1, <1>2, Facts DEF OpenRow
<1>4. i \in Nat /\ buflen \in Nat
  BY Sizes
<1>5. i = colOffs[column] \/ i > colOffs[column]
  BY ONLY <1>3, <1>4
<1> QED BY <1>1, <1>5 DEF Mode

\* Any other character goes into the column.
LEMMA MiddleOfColumnStep == IInv /\ ret = Running /\ MiddleOfColumn => IInv'
<1> SUFFICES ASSUME IInv, ret = Running, MiddleOfColumn PROVE IInv'
  OBVIOUS
<1>1. /\ Scanning /\ buf[i + 1] = Other /\ Unquoted /\ ~inQuoted /\ ~lastQuot /\ i' = i + 1
      /\ UNCHANGED <<inputs, stream, buf, column, colOffs, inQuoted, lastQuot, rows, ret, ioError>>
  BY DEF MiddleOfColumn, Looking, Unquoted, quoting
<1>2. Now.mode \in {"start", "plain", "quot"} /\ lastQuot' \in BOOLEAN /\ inQuoted' \in BOOLEAN
  BY <1>1, OutsideModes, Facts DEF TypeOK
<1>3. Reading(Now, buf[i + 1], nheaders) = Into(Now, buf[i + 1], "plain")
  BY <1>1, <1>2, Looked, Facts, ReadingInto
<1>4. (Mode' => IInv') /\ Now'.mode = "plain" /\ i' > colOffs'[column'] /\ colOffs[column] \in Nat
  BY <1>1, <1>2, <1>3, Taken DEF Modes
<1>5. ~(i' = colOffs'[column'])
  <2>1. i' \in Nat /\ colOffs'[column'] \in Nat
    BY <1>1, <1>4, Sizes
  <2> QED BY ONLY <1>4, <2>1
<1>6. Mode'
  BY <1>1, <1>2, <1>4, <1>5 DEF Mode
<1> QED BY <1>4, <1>6

\* What ends the loop leaves the buffer as it is.
LEMMA AllKept ==
    ASSUME IInv, UNCHANGED <<inputs, stream, buf, i, column, colOffs>>,
           inQuoted' \in BOOLEAN, lastQuot' \in BOOLEAN, ret' \in {Running, AtEnd, Stopped, Failed}
    PROVE  Inputs' /\ Types' /\ BufferBounded' /\ Reader' = Reader /\ Moved' = Moved /\ Now' = Now /\ Ready' = Ready
<1>1. /\ UNCHANGED <<text, table, nheaders, chunk, stopAfter, unread, buflen, eof>>
      /\ UNCHANGED <<buf, i, column, colOffs>>
  BY DEF inputs, stream
<1>2. Ready' = Ready /\ Moved' = Moved /\ Seen' = Seen
  BY <1>1 DEF Ready, Moved, Seen
<1>3. TypeOK'
  BY <1>1, <1>2, Facts DEF TypeOK
<1>4. Inputs' /\ Types' /\ BufferBounded' /\ Reader' = Reader
  <2>1. buf' \in Seq(Char \cup {Nul}) /\ unread' \in Seq(Char) /\ Moved' \in Nat
    BY <1>1, <1>2, Facts, Sizes
  <2> QED BY <1>1, <1>3, <2>1, BasesKept
<1> QED BY <1>2, <1>4 DEF Now

\* A quoted string ends before a character that is no quote.
LEMMA EndOfQuotedStep == IInv /\ ret = Running /\ EndOfQuoted => IInv'
<1> SUFFICES ASSUME IInv, ret = Running, EndOfQuoted PROVE IInv'
  OBVIOUS
<1>1. /\ lastQuot /\ Scanning /\ buf[i + 1] # Quot /\ lastQuot' = FALSE /\ inQuoted' = FALSE
      /\ UNCHANGED <<text, table, nheaders, chunk, stopAfter, unread, buflen, eof>>
      /\ UNCHANGED <<buf, i, column, colOffs, rows, ret, ioError>>
  BY DEF EndOfQuoted, Looking, inputs, stream
<1>2. Rest /\ OpenRow /\ Mode /\ Given
  BY DEF IInv
<1>3. /\ Inputs' /\ Types' /\ BufferBounded'
      /\ Reader' = Reader /\ Moved' = Moved /\ Now' = Now /\ Ready' = Ready
  BY <1>1, Facts, AllKept DEF TypeOK, inputs, stream
<1>4. Rest' /\ OpenRow' /\ Given'
  BY <1>1, <1>2, <1>3 DEF Rest, OpenRow, Given
<1>5. Now.mode = "quot" /\ i > colOffs[column]
  BY <1>1, <1>2 DEF Mode
<1>6. Mode'
  <2>1. i # colOffs[column]
    <3>1. column \in 0 .. nheaders - 1
      BY <1>2, Sizes DEF OpenRow
    <3>2. colOffs[column] \in 0 .. buflen
      BY <3>1, Facts
    <3>3. buflen \in Nat /\ i \in Nat
      BY Sizes
    <3> QED BY ONLY <1>5, <3>2, <3>3
  <2>2. Scanning'
    BY <1>1, <1>3 DEF Scanning
  <2> QED BY <1>1, <1>3, <1>5, <2>1, <2>2 DEF Mode
<1>7. Result'
  BY <1>1 DEF Result, Running, AtEnd, Failed, Stopped
<1> QED BY <1>3, <1>4, <1>6, <1>7 DEF IInv

\* The offsets of the columns are behind one another, up to the character looked at.
LEMMA Offsets ==
    ASSUME IInv, ret = Running
    PROVE  /\ column \in 0 .. nheaders - 1
           /\ \A k \in 0 .. column : colOffs[k] \in Nat /\ colOffs[k] <= i
           /\ \A k \in 0 .. column - 1 : colOffs[k] < colOffs[k + 1]
<1>1. OpenRow /\ column \in Nat /\ nheaders \in Nat /\ i \in Nat /\ buflen \in Nat
  BY Sizes DEF IInv
<1>2. column \in 0 .. nheaders - 1
  BY <1>1 DEF OpenRow
<1>3. \A k \in 0 .. column : colOffs[k] \in 0 .. buflen
  <2>1. \A k \in 0 .. column : k \in 0 .. nheaders - 1
    BY ONLY <1>1, <1>2
  <2> QED BY <2>1, Facts
<1>4. \A k \in 0 .. column - 1 : colOffs[k] < colOffs[k + 1] /\ colOffs[k + 1] <= i
  BY <1>1 DEF OpenRow
<1>5. \A k \in 0 .. column : colOffs[k] \in Nat
  BY <1>1, <1>3
<1>6. colOffs[column] <= i
  BY <1>1 DEF OpenRow
<1>7. \A k \in 0 .. column : colOffs[k] <= i
  <2> SUFFICES ASSUME NEW k \in 0 .. column PROVE colOffs[k] <= i
    OBVIOUS
  <2>1. CASE k = column
    BY <1>6, <2>1
  <2>2. CASE k # column
    <3> DEFINE next == k + 1
    <3>1. k \in 0 .. column - 1 /\ next \in 0 .. column
      BY ONLY <1>1, <2>2
    <3>2. colOffs[k] < colOffs[next] /\ colOffs[next] <= i /\ colOffs[next] \in Nat /\ colOffs[k] \in Nat
      BY <1>4, <1>5, <3>1
    <3> HIDE DEF next
    <3> QED BY ONLY <1>1, <3>2
  <2> QED BY <2>1, <2>2
<1> QED BY <1>2, <1>4, <1>5, <1>7

\* A comma or a newline outside of a quoted string closes the column.
LEMMA Separating ==
    ASSUME IInv, ret = Running, AtSeparator
    PROVE  /\ Scanning /\ Unquoted /\ i + 1 \in 1 .. Ready
           /\ Seen + 1 \in 1 .. Len(text) /\ Reader[Seen + 1] = Closed(Now, nheaders)
           /\ Terminated \in Seq(Char \cup {Nul}) /\ Len(Terminated) = Ready
           /\ Terminated[i + 1] = Nul
           /\ \A k \in 1 .. Ready : k # i + 1 => Terminated[k] = buf[k]
<1>1. Scanning /\ Unquoted /\ buf[i + 1] \in Separators
  BY DEF AtSeparator, Looking
<1>2. Now.mode \in {"start", "plain", "quot"}
  BY <1>1, OutsideModes
<1>3. i + 1 \in 1 .. Ready /\ Seen + 1 \in 1 .. Len(text) /\ Reader[Seen + 1] = Reading(Now, buf[i + 1], nheaders)
  BY <1>1, Looked
<1>4. Reading(Now, buf[i + 1], nheaders) = Closed(Now, nheaders)
  BY <1>1, <1>2, Looked, Facts, ReadingInto
<1>5. buf \in Seq(Char \cup {Nul}) /\ Ready \in Nat /\ Ready = Len(buf)
  BY Facts, Sizes DEF Ready
<1>6. /\ Terminated \in Seq(Char \cup {Nul}) /\ Len(Terminated) = Ready /\ Terminated[i + 1] = Nul
      /\ \A k \in 1 .. Ready : k # i + 1 => Terminated[k] = buf[k]
  <2> DEFINE at == i + 1
  <2>1. Terminated = [buf EXCEPT ![at] = Nul] /\ at \in 1 .. Len(buf)
    BY <1>3, <1>5 DEF Terminated
  <2> HIDE DEF at
  <2> QED BY <1>5, <2>1 DEF at
<1> QED BY <1>1, <1>3, <1>4, <1>6

\* The columns before the last separator are in the buffer, each up to a NUL.
LEMMA ColumnsEnded ==
    ASSUME IInv, ret = Running, AtSeparator
    PROVE  /\ \A k \in 0 .. column - 1 :
                 /\ Terminated[colOffs[k + 1]] = Nul
                 /\ Now.row[k + 1] = SubSeq(Terminated, colOffs[k] + 1, colOffs[k + 1] - 1)
           /\ Now.column = SubSeq(Terminated, colOffs[column] + 1, i)
<1>1. OpenRow /\ Ready \in Nat /\ i \in Nat /\ buf \in Seq(Char \cup {Nul}) /\ Ready = Len(buf)
  BY Sizes, Facts DEF IInv, Ready
<1>2. /\ i + 1 \in 1 .. Ready /\ Terminated \in Seq(Char \cup {Nul}) /\ Len(Terminated) = Ready
      /\ \A k \in 1 .. Ready : k # i + 1 => Terminated[k] = buf[k]
  BY Separating
<1> DEFINE b == Terminated
<1> HIDE DEF b
<1>3. ASSUME NEW from \in Nat, NEW to \in Nat, from <= to, to <= i
      PROVE  SubSeq(buf, from + 1, to) = SubSeq(b, from + 1, to)
  <2>1. \A k \in from + 1 .. to : k \in 1 .. Ready /\ k # i + 1
    BY ONLY <1>1, <1>2, <1>3
  <2>2. \A k \in from + 1 .. to : buf[k] = b[k]
    BY <1>2, <2>1 DEF b
  <2>3. /\ from + 1 \in Nat \ {0} /\ from + 1 <= to + 1 /\ to <= Len(buf) /\ to <= Len(b)
        /\ b \in Seq(Char \cup {Nul}) /\ buf \in Seq(Char \cup {Nul})
    BY <1>1, <1>2, <1>3 DEF b
  <2> DEFINE m == from + 1
  <2> HIDE DEF m
  <2>4. SubSeq(buf, m, to) = SubSeq(b, m, to)
    BY <2>2, <2>3, SameStretch DEF m
  <2> QED BY <2>4 DEF m
<1>4. Now.column = SubSeq(b, colOffs[column] + 1, i)
  <2> DEFINE off == colOffs[column]
  <2>1. off \in Nat /\ off <= i /\ Now.column = SubSeq(buf, off + 1, i)
    BY <1>1, Offsets DEF OpenRow
  <2> HIDE DEF off
  <2>2. i \in Nat /\ i <= i
    BY <1>1
  <2>3. SubSeq(buf, off + 1, i) = SubSeq(b, off + 1, i)
    BY <1>3, <2>1, <2>2
  <2> QED BY <2>1, <2>3 DEF off
<1>5. ASSUME NEW k \in 0 .. column - 1
      PROVE  b[colOffs[k + 1]] = Nul /\ Now.row[k + 1] = SubSeq(b, colOffs[k] + 1, colOffs[k + 1] - 1)
  <2> DEFINE from == colOffs[k]
             next == colOffs[k + 1]
  <2>1. k \in 0 .. column /\ k + 1 \in 0 .. column
    BY Offsets
  <2>2. /\ from \in Nat /\ next \in Nat /\ from < next /\ next <= i
    BY <2>1, Offsets
  <2>3. buf[next] = Nul /\ Now.row[k + 1] = SubSeq(buf, from + 1, next - 1)
    BY <1>1 DEF OpenRow
  <2> HIDE DEF from, next
  <2>4. next \in 1 .. Ready /\ next # i + 1 /\ next - 1 \in Nat /\ from <= next - 1 /\ next - 1 <= i
    BY ONLY <1>1, <1>2, <2>2
  <2>5. b[next] = Nul
    BY <1>2, <2>3, <2>4 DEF b
  <2> DEFINE to == next - 1
  <2> HIDE DEF to
  <2>6. SubSeq(buf, from + 1, to) = SubSeq(b, from + 1, to)
    BY <1>3, <2>2, <2>4 DEF to
  <2> QED BY <2>3, <2>5, <2>6 DEF from, next, to
<1> QED BY <1>4, <1>5 DEF b

\* A separator closes a column that is not the last one of its row.
LEMMA EndOfColumnStep == IInv /\ ret = Running /\ EndOfColumn => IInv'
<1> SUFFICES ASSUME IInv, ret = Running, EndOfColumn PROVE IInv'
  OBVIOUS
<1> DEFINE next == column + 1
<1>1. /\ AtSeparator /\ next < nheaders /\ buf' = Terminated /\ column' = next /\ i' = i + 1
      /\ colOffs' = [colOffs EXCEPT ![next] = i + 1]
      /\ UNCHANGED <<text, table, nheaders, chunk, stopAfter, unread, buflen, eof>>
      /\ UNCHANGED <<inQuoted, lastQuot, rows, ret, ioError>>
  BY DEF EndOfColumn, inputs, stream, quoting
<1>2. Rest /\ OpenRow /\ Mode /\ Given
  BY DEF IInv
<1>3. /\ Ready \in Nat /\ i \in Nat /\ i + 1 \in 1 .. Ready /\ column \in Nat /\ nheaders \in Nat
      /\ Ready <= buflen /\ buflen \in Nat /\ Moved \in Nat /\ Seen = Moved + i
  BY <1>1, Sizes, Separating
<1>4. Ready' = Ready /\ Moved' = Moved /\ Seen' = Seen + 1
  <2>1. Ready' = Ready
    BY <1>1, Separating DEF Ready
  <2>2. Moved' = Moved
    BY <1>1, <2>1 DEF Moved
  <2>3. Seen' = Moved' + i'
    BY DEF Seen
  <2> QED BY ONLY <1>1, <1>3, <2>1, <2>2, <2>3
<1>5. /\ next \in 0 .. nheaders - 1 /\ next \in Nat /\ next \in 0 .. nheaders /\ i + 1 \in 0 .. buflen
      /\ i' \in 0 .. Ready'
  BY ONLY <1>1, <1>3, <1>4
<1>6. /\ colOffs' \in [0 .. nheaders - 1 -> 0 .. buflen] /\ colOffs'[next] = i + 1
      /\ \A k \in 0 .. nheaders - 1 : k # next => colOffs'[k] = colOffs[k]
  <2>1. colOffs \in [0 .. nheaders - 1 -> 0 .. buflen]
    BY Facts
  <2> HIDE DEF next
  <2> QED BY <1>1, <1>5, <2>1
<1> HIDE DEF next
<1>7. Inputs' /\ Types' /\ BufferBounded' /\ Reader' = Reader
  <2>1. TypeOK'
    <3>1. TypeOK
      BY Facts
    <3> QED BY <1>1, <1>3, <1>4, <1>5, <1>6, <3>1 DEF TypeOK
  <2>2. buf' \in Seq(Char \cup {Nul}) /\ unread' \in Seq(Char) /\ Moved' \in Nat
    BY <1>1, <1>3, <1>4, Facts, Separating
  <2> QED BY <1>1, <2>1, <2>2, BasesKept DEF inputs
<1>8. Now' = Closed(Now, nheaders)
  <2>1. Now' = Reader[Seen + 1]
    BY <1>4, <1>7 DEF Now
  <2> QED BY <1>1, <2>1, Separating
<1>9. /\ Now'.rows = Now.rows /\ Now'.row = Append(Now.row, Now.column) /\ Now'.column = <<>>
      /\ Now'.mode = "start" /\ Now.row \in Seq(Text) /\ Now.column \in Text
      /\ Len(Now.row) = column /\ Len(Now'.row) = next
  <2>1. Now.row \in Seq(Text) /\ Now.column \in Text
    BY Facts DEF ReaderState, Row
  <2>2. Len(Now.row) = column
    BY <1>2 DEF OpenRow
  <2>3. Len(Append(Now.row, Now.column)) = next
    BY <2>1, <2>2 DEF next
  <2>4. next # nheaders
    BY ONLY <1>1, <1>3, <1>5
  <2> DEFINE row == Append(Now.row, Now.column)
  <2>5. row = Append(Now.row, Now.column) /\ Len(row) # nheaders
    BY <2>3, <2>4
  <2> HIDE DEF row
  <2>6. Closed(Now, nheaders) = [rows |-> Now.rows, row |-> row, column |-> <<>>, mode |-> "start"]
    BY <2>5 DEF Closed
  <2> QED BY <1>8, <2>1, <2>2, <2>3, <2>5, <2>6
<1>10. Rest'
  <2>1. \A k \in i' + 1 .. Ready' : buf'[k] = text'[Moved' + k]
    <3> SUFFICES ASSUME NEW k \in i' + 1 .. Ready' PROVE buf'[k] = text'[Moved' + k]
      OBVIOUS
    <3>1. k \in i + 1 .. Ready /\ k \in 1 .. Ready /\ k # i + 1
      BY ONLY <1>1, <1>3, <1>4, k \in i' + 1 .. Ready'
    <3>2. buf[k] = text[Moved + k]
      BY <1>2, <3>1 DEF Rest
    <3>3. buf'[k] = buf[k]
      BY <1>1, <3>1, Separating
    <3> QED BY <1>1, <1>4, <3>2, <3>3
  <2>2. \A k \in DOMAIN unread' : unread'[k] = text'[Moved' + Ready' + k]
    BY <1>1, <1>2, <1>4 DEF Rest
  <2> QED BY <1>1, <1>2, <2>1, <2>2 DEF Rest
<1>11. OpenRow'
  <2>1. next < nheaders' /\ column' = next
    BY <1>1
  <2>2. colOffs'[0] = 0
    <3>1. 0 \in 0 .. nheaders - 1 /\ 0 # next
      BY ONLY <1>1, <1>3, <1>5 DEF next
    <3> QED BY <1>2, <1>6, <3>1 DEF OpenRow
  <2>3. ASSUME NEW k \in 0 .. next - 1
        PROVE  /\ colOffs'[k] < colOffs'[k + 1] /\ colOffs'[k + 1] <= i'
               /\ buf'[colOffs'[k + 1]] = Nul
               /\ Now'.row[k + 1] = SubSeq(buf', colOffs'[k] + 1, colOffs'[k + 1] - 1)
    <3> DEFINE after == k + 1
    <3>1. /\ k \in 0 .. column /\ k \in 0 .. nheaders - 1 /\ k # next /\ after \in 0 .. nheaders - 1
          /\ after \in 1 .. next /\ k \in Nat
      BY ONLY <1>1, <1>3, <1>5, k \in 0 .. next - 1 DEF next
    <3>2. colOffs'[k] = colOffs[k]
      BY <1>6, <3>1
    <3>3. CASE k = column
      <4>1. after = next
        BY <3>3 DEF next
      <4> HIDE DEF after
      <4>2. colOffs'[after] = i + 1
        BY <1>6, <4>1
      <4>3. Now'.row[after] = Now.column
        BY <1>9, <4>1 DEF next
      <4>4. Now.column = SubSeq(buf', colOffs[k] + 1, i)
        BY <1>1, <3>3, ColumnsEnded
      <4>5. colOffs[k] \in Nat /\ colOffs[k] <= i
        BY <3>1, Offsets
      <4>6. buf'[i + 1] = Nul
        BY <1>1, Separating
      <4>7. i + 1 - 1 = i /\ colOffs[k] < i + 1 /\ i + 1 <= i'
        BY ONLY <1>1, <1>3, <4>5
      <4>8. /\ colOffs'[k] < colOffs'[after] /\ colOffs'[after] <= i'
            /\ buf'[colOffs'[after]] = Nul
            /\ Now'.row[after] = SubSeq(buf', colOffs'[k] + 1, colOffs'[after] - 1)
        <5> DEFINE end == colOffs'[after]
                   from == colOffs'[k]
                   col == Now'.row[after]
        <5>1. end = i + 1 /\ from = colOffs[k]
          BY <3>2, <4>2
        <5> HIDE DEF end, from, col
        <5>2. end - 1 = i
          BY ONLY <1>3, <5>1
        <5>3. from < end /\ end <= i'
          BY ONLY <4>7, <5>1
        <5>4. buf'[end] = Nul
          BY ONLY <4>6, <5>1
        <5>5. col = SubSeq(buf', from + 1, end - 1)
          BY ONLY <4>3, <4>4, <5>1, <5>2 DEF col
        <5> QED BY ONLY <5>3, <5>4, <5>5 DEF end, from, col
      <4> QED BY <4>8 DEF after
    <3>4. CASE k # column
      <4>1. k \in 0 .. column - 1 /\ after \in 0 .. column /\ after # next /\ after \in 1 .. column
        BY ONLY <1>3, <3>1, <3>4 DEF next
      <4>2. /\ Terminated[colOffs[after]] = Nul
            /\ Now.row[after] = SubSeq(Terminated, colOffs[k] + 1, colOffs[after] - 1)
        BY <1>1, <4>1, ColumnsEnded
      <4>3. colOffs[k] < colOffs[after] /\ colOffs[after] <= i /\ colOffs[after] \in Nat
        BY <4>1, Offsets
      <4> HIDE DEF after
      <4>4. colOffs'[after] = colOffs[after]
        BY <1>6, <3>1, <4>1
      <4>5. Now'.row[after] = Now.row[after]
        BY <1>9, <4>1
      <4>6. colOffs[after] <= i'
        <5> DEFINE off == colOffs[after]
        <5>1. off \in Nat /\ off <= i
          BY <4>3
        <5> HIDE DEF off
        <5>2. off <= i'
          BY ONLY <1>1, <1>3, <5>1
        <5> QED BY <5>2 DEF off
      <4>7. /\ colOffs'[k] < colOffs'[after] /\ colOffs'[after] <= i'
            /\ buf'[colOffs'[after]] = Nul
            /\ Now'.row[after] = SubSeq(buf', colOffs'[k] + 1, colOffs'[after] - 1)
        BY <1>1, <3>2, <4>2, <4>3, <4>4, <4>5, <4>6
      <4> QED BY <4>7 DEF after
    <3> QED BY <3>3, <3>4
  <2>4. colOffs'[column'] <= i' /\ Now'.column = SubSeq(buf', colOffs'[column'] + 1, i')
    <3>1. colOffs'[column'] = i' /\ i' \in Nat
      BY <1>1, <1>3, <1>6
    <3>2. SubSeq(buf', i' + 1, i') = <<>>
      <4> DEFINE from == i + 1 + 1
                 to == i + 1
      <4>1. from \in Int /\ to \in Int /\ to < from
        BY <1>3
      <4> HIDE DEF from, to
      <4>2. SubSeq(buf', from, to) = <<>>
        BY <4>1, SubSeqEmpty
      <4>3. from = i' + 1 /\ to = i'
        BY <1>1 DEF from, to
      <4> QED BY <4>2, <4>3
    <3>3. i' <= i'
      BY <3>1
    <3> QED BY <1>9, <3>1, <3>2, <3>3
  <2> QED BY <1>9, <2>1, <2>2, <2>3, <2>4 DEF OpenRow
<1>12. Mode'
  <2>1. ~inQuoted' /\ ~lastQuot' /\ i' = colOffs'[column'] /\ i' \in Nat
    BY <1>1, <1>3, <1>6, Separating DEF Unquoted
  <2> QED BY <1>9, <2>1 DEF Mode
<1>13. Given'
  BY <1>1, <1>2, <1>4, <1>7, <1>9 DEF Given
<1>14. Result'
  BY <1>1 DEF Result, Running, AtEnd, Failed, Stopped
<1> QED BY <1>7, <1>10, <1>11, <1>12, <1>13, <1>14 DEF IInv

\* A string of the buffer ends at the first NUL.
LEMMA StringEnds ==
    ASSUME NEW b, NEW off \in Nat, NEW end \in off + 1 .. Len(b), Len(b) \in Nat, b[end] = Nul,
           \A j \in off + 1 .. end - 1 : b[j] # Nul
    PROVE  CString(b, off) = SubSeq(b, off + 1, end - 1)
<1> DEFINE Ends(k) == b[k] = Nul /\ \A j \in off + 1 .. k - 1 : b[j] # Nul
<1>1. end \in off + 1 .. Len(b) /\ Ends(end)
  OBVIOUS
<1>2. ASSUME NEW k \in off + 1 .. Len(b), Ends(k) PROVE k = end
  <2>1. k \in Int /\ end \in Int /\ off \in Nat
    OBVIOUS
  <2>2. CASE k < end
    <3>1. k \in off + 1 .. end - 1
      BY <2>1, <2>2
    <3> QED BY <1>2, <3>1
  <2>3. CASE k > end
    <3>1. end \in off + 1 .. k - 1
      BY <2>1, <2>3
    <3> QED BY <1>2, <3>1
  <2> QED BY <2>1, <2>2, <2>3
<1> DEFINE found == CHOOSE k \in off + 1 .. Len(b) : Ends(k)
<1>3. CString(b, off) = SubSeq(b, off + 1, found - 1)
  BY DEF CString
<1> HIDE DEF Ends
<1>4. found \in off + 1 .. Len(b) /\ Ends(found)
  <2>1. \E k \in off + 1 .. Len(b) : Ends(k)
    BY <1>1
  <2> QED BY <2>1
<1> HIDE DEF found
<1>5. found = end
  BY <1>2, <1>4
<1> QED BY <1>3, <1>5

\* A column of the row is the string at its offset, up to the NUL that ends it.
LEMMA ColumnGiven ==
    ASSUME IInv, ret = Running, AtSeparator,
           NEW off \in Nat, NEW end \in off + 1 .. Ready, NEW v \in Text, Terminated[end] = Nul,
           v = SubSeq(Terminated, off + 1, end - 1)
    PROVE  CString(Terminated, off) = v
<1> DEFINE b == Terminated
           l == end - off - 1
<1>1. b \in Seq(Char \cup {Nul}) /\ Len(b) = Ready /\ Ready \in Nat /\ b[end] = Nul
  BY Separating, Sizes
<1> HIDE DEF b
<1>2. /\ off + 1 \in Nat \ {0} /\ end - 1 \in Nat /\ off + 1 <= end - 1 + 1 /\ end - 1 <= Len(b)
      /\ end - 1 - (off + 1) + 1 = l /\ l \in Nat
  BY ONLY <1>1, off \in Nat, end \in off + 1 .. Ready
<1> DEFINE m == off + 1
           n == end - 1
<1>3. m \in Nat \ {0} /\ n \in Nat /\ m <= n + 1 /\ n <= Len(b) /\ n - m + 1 = l
  BY <1>2
<1>4. v = SubSeq(b, m, n)
  BY DEF b
<1> HIDE DEF m, n, l
<1>5. Len(v) = l /\ \A k \in 1 .. l : v[k] = b[m + k - 1]
  BY <1>1, <1>3, <1>4, StretchElements
<1>6. \A j \in m .. n : b[j] # Nul
  <2> SUFFICES ASSUME NEW j \in m .. n PROVE b[j] # Nul
    OBVIOUS
  <2> DEFINE k == j - m + 1
  <2>1. k \in 1 .. l /\ m + k - 1 = j
    BY ONLY <1>3, j \in m .. n
  <2> HIDE DEF k
  <2>2. b[j] = v[k]
    BY <1>5, <2>1
  <2>3. v[k] \in Char
    BY <1>5, <2>1 DEF Text
  <2> QED BY <2>2, <2>3 DEF Char, Nul, Quot, Comma, Newline, Other
<1>7. CString(b, off) = SubSeq(b, off + 1, end - 1)
  <2>1. \A j \in off + 1 .. end - 1 : b[j] # Nul
    BY <1>6 DEF m, n
  <2>2. end \in off + 1 .. Len(b) /\ Len(b) \in Nat
    BY <1>1
  <2> QED BY <1>1, <2>1, <2>2, StringEnds
<1> QED BY <1>4, <1>7 DEF b, m, n

\* The row that the callback gets is the row that the separator closes.
LEMMA RowGiven ==
    ASSUME IInv, ret = Running, AtSeparator, column + 1 = nheaders
    PROVE  /\ [k \in 1 .. nheaders |-> CString(Terminated, colOffs[k - 1])] = Append(Now.row, Now.column)
           /\ Reader[Seen + 1] = [rows |-> Append(rows, Append(Now.row, Now.column)),
                                  row |-> <<>>, column |-> <<>>, mode |-> "start"]
           /\ rows \in Seq(Row) /\ Append(Now.row, Now.column) \in Row
<1> DEFINE row == Append(Now.row, Now.column)
<1>1. Now.row \in Seq(Text) /\ Now.column \in Text /\ Now.rows \in Seq(Row)
  BY Facts DEF ReaderState, Row
<1>2. /\ Len(Now.row) = column /\ rows = Now.rows /\ column \in Nat /\ nheaders \in Nat /\ i \in Nat
      /\ i + 1 \in 1 .. Ready /\ Ready \in Nat
  BY Sizes, Separating DEF IInv, OpenRow, Given
<1>3. /\ row \in Seq(Text) /\ Len(row) = nheaders /\ row[column + 1] = Now.column
      /\ \A k \in 1 .. column : row[k] = Now.row[k]
  BY <1>1, <1>2
<1>4. ASSUME NEW k \in 1 .. nheaders PROVE CString(Terminated, colOffs[k - 1]) = row[k]
  <2> DEFINE before == k - 1
             off == colOffs[before]
  <2>1. before \in 0 .. column /\ before + 1 = k
    BY ONLY <1>2, k \in 1 .. nheaders, column + 1 = nheaders
  <2>2. off \in Nat /\ off <= i
    BY <2>1, Offsets
  <2>3. row[k] \in Text
    BY <1>3
  <2>4. CASE before = column
    <3>1. k = column + 1
      BY <2>1, <2>4
    <3>2. row[k] = SubSeq(Terminated, off + 1, i)
      BY <1>3, <2>4, <3>1, ColumnsEnded
    <3> HIDE DEF off
    <3> DEFINE end == i + 1
    <3>3. end \in off + 1 .. Ready /\ end - 1 = i
      BY ONLY <1>2, <2>2
    <3>4. Terminated[end] = Nul
      BY Separating
    <3> HIDE DEF end
    <3>5. CString(Terminated, off) = row[k]
      BY <2>2, <2>3, <3>2, <3>3, <3>4, ColumnGiven
    <3> QED BY <3>5 DEF off
  <2>5. CASE before # column
    <3> DEFINE end == colOffs[k]
    <3>1. before \in 0 .. column - 1 /\ k \in 1 .. column /\ k \in 0 .. column
      BY ONLY <1>2, <2>1, <2>5
    <3>2. Terminated[end] = Nul /\ Now.row[k] = SubSeq(Terminated, off + 1, end - 1)
      BY <2>1, <3>1, ColumnsEnded
    <3>3. off < end /\ end <= i /\ end \in Nat
      BY <2>1, <3>1, Offsets
    <3>4. row[k] = SubSeq(Terminated, off + 1, end - 1)
      BY <1>3, <3>1, <3>2
    <3> HIDE DEF off, end
    <3>5. end \in off + 1 .. Ready
      BY ONLY <1>2, <2>2, <3>3
    <3>6. CString(Terminated, off) = row[k]
      BY <2>2, <2>3, <3>2, <3>4, <3>5, ColumnGiven
    <3> QED BY <3>6 DEF off
  <2> QED BY <2>4, <2>5
<1>5. row = [k \in 1 .. nheaders |-> row[k]]
  BY <1>3
<1> HIDE DEF row
<1>6. [k \in 1 .. nheaders |-> CString(Terminated, colOffs[k - 1])] = row
  <2>1. [k \in 1 .. nheaders |-> CString(Terminated, colOffs[k - 1])] = [k \in 1 .. nheaders |-> row[k]]
    BY <1>4
  <2> QED BY <1>5, <2>1
<1>7. Closed(Now, nheaders) = [rows |-> Append(rows, row), row |-> <<>>, column |-> <<>>, mode |-> "start"]
  <2>1. Closed(Now, nheaders) =
            [rows |-> IF Len(row) = nheaders THEN Append(Now.rows, row) ELSE Now.rows,
             row |-> IF Len(row) = nheaders THEN <<>> ELSE row, column |-> <<>>, mode |-> "start"]
    BY DEF Closed, row
  <2> QED BY <1>2, <1>3, <2>1
<1>8. Reader[Seen + 1] = Closed(Now, nheaders)
  BY Separating
<1> QED BY <1>1, <1>2, <1>3, <1>6, <1>7, <1>8 DEF row, Row

\* The last separator of a row hands it to the callback, and what follows it is moved
\* to the front of the buffer.
LEMMA EndOfRowStep == IInv /\ ret = Running /\ EndOfRow => IInv'
<1> SUFFICES ASSUME IInv, ret = Running, EndOfRow PROVE IInv'
  OBVIOUS
<1> DEFINE row == Append(Now.row, Now.column)
           next == Seen + 1
<1>1. /\ AtSeparator /\ column + 1 = nheaders
      /\ UNCHANGED <<text, table, nheaders, chunk, stopAfter, unread, buflen, eof>>
      /\ UNCHANGED <<colOffs, inQuoted, lastQuot, ioError>>
  BY DEF EndOfRow, inputs, stream, quoting
<1>2. rows' = Append(rows, row)
  BY <1>1, RowGiven DEF EndOfRow
<1>3. /\ Reader[next] = [rows |-> rows', row |-> <<>>, column |-> <<>>, mode |-> "start"]
      /\ next \in 0 .. Len(text) /\ next = Seen + 1
  <2>1. next \in 1 .. Len(text) /\ next \in 0 .. Len(text)
    BY <1>1, Separating, Sizes
  <2>2. Reader[next] = [rows |-> Append(rows, row), row |-> <<>>, column |-> <<>>, mode |-> "start"]
    BY <1>1, RowGiven
  <2> HIDE DEF row, next
  <2> QED BY <1>2, <2>1, <2>2 DEF next
<1>4. Rest /\ OpenRow /\ TypeOK
  BY Facts DEF IInv
<1>5. /\ Ready \in Nat /\ i \in Nat /\ i + 1 \in 1 .. Ready /\ column \in Nat /\ nheaders \in Nat \ {0}
      /\ Ready <= buflen /\ buflen \in Nat /\ Moved \in Nat /\ Seen = Moved + i
      /\ Len(text) \in Nat /\ Len(unread) \in Nat /\ Moved + Ready + Len(unread) = Len(text)
  BY <1>1, Sizes, Separating
<1>6. Reader[next].rows = rows' /\ Reader[next].mode = "start"
      /\ Reader[next].row = <<>> /\ Reader[next].column = <<>>
  BY <1>3
<1> HIDE DEF row, next
<1>7. CASE Len(rows') = stopAfter
  <2>1. ret' = Stopped /\ buf' = Terminated /\ column' = column + 1 /\ i' = i
    BY <1>7 DEF EndOfRow
  <2>2. Ready' = Ready /\ Moved' = Moved
    <3>1. Ready' = Ready
      BY <1>1, <2>1, Separating DEF Ready
    <3> QED BY <1>1, <3>1 DEF Moved
  <2>3. TypeOK'
    <3>1. column' \in 0 .. nheaders' /\ i' \in 0 .. Ready' /\ Ready' <= buflen'
      BY ONLY <1>1, <1>5, <2>1, <2>2
    <3> QED BY <1>1, <1>4, <2>1, <3>1 DEF TypeOK
  <2>4. Inputs' /\ Types' /\ BufferBounded' /\ Reader' = Reader
    <3>1. buf' \in Seq(Char \cup {Nul}) /\ unread' \in Seq(Char) /\ Moved' \in Nat
      BY <1>1, <1>5, <2>1, <2>2, Facts, Separating
    <3> QED BY <1>1, <2>3, <3>1, BasesKept DEF inputs
  <2>5. Result'
    <3>1. rows' = Reader'[next].rows /\ next \in 0 .. Len(text')
      BY <1>1, <1>3, <1>6, <2>4
    <3> QED BY <1>1, <1>7, <2>1, <3>1 DEF Result, Running, AtEnd, Failed, Stopped
  <2>6. ret' # Running
    BY <2>1 DEF Stopped, Running
  <2> QED BY <2>4, <2>5, <2>6 DEF IInv
<1>8. CASE Len(rows') # stopAfter
  <2> DEFINE from == i + 2
             l == Ready - i - 1
  <2>1. ret' = Running /\ buf' = SubSeq(buf, from, Ready) /\ column' = 0 /\ i' = 0
    BY <1>8 DEF EndOfRow
  <2>2. /\ from \in Nat \ {0} /\ from <= Ready + 1 /\ l \in Nat /\ Ready - from + 1 = l
    BY ONLY <1>5
  <2>3. /\ buf' \in Seq(Char \cup {Nul}) /\ Len(buf') = l
        /\ \A k \in 1 .. l : buf'[k] = buf[from + k - 1]
    <3>1. buf \in Seq(Char \cup {Nul}) /\ Ready = Len(buf) /\ Ready <= Len(buf)
      BY <1>5, Facts DEF Ready
    <3> DEFINE last == Ready
    <3>2. /\ from \in Nat \ {0} /\ from <= last + 1 /\ last - from + 1 = l /\ last \in Nat
          /\ last <= Len(buf) /\ buf \in Seq(Char \cup {Nul}) /\ buf' = SubSeq(buf, from, last)
      BY <1>5, <2>1, <2>2, <3>1
    <3> HIDE DEF from, l, last
    <3> QED BY ONLY <3>2, StretchElements
  <2>4. Ready' = l
    BY <2>3 DEF Ready
  <2>5. Moved' = next /\ Seen' = next /\ Moved' \in Nat
    <3>1. Moved' = Len(text) - Len(unread) - l
      BY <1>1, <2>4 DEF Moved
    <3>2. Seen' = Moved' + i'
      BY DEF Seen
    <3>3. next = Seen + 1 /\ i' = 0 /\ l = Ready - i - 1
      BY <1>3, <2>1
    <3> HIDE DEF l
    <3>4. Moved' = next /\ Moved' \in Nat
      BY ONLY <1>5, <3>1, <3>3
    <3> QED BY ONLY <3>2, <3>3, <3>4
  <2>6. TypeOK'
    <3>1. column' \in 0 .. nheaders' /\ i' \in 0 .. Ready' /\ Ready' <= buflen'
      BY ONLY <1>1, <1>5, <2>1, <2>4
    <3> QED BY <1>1, <1>4, <2>1, <3>1 DEF TypeOK
  <2>7. Inputs' /\ Types' /\ BufferBounded' /\ Reader' = Reader
    <3>1. unread' \in Seq(Char)
      BY <1>1, Facts
    <3> QED BY <1>1, <2>3, <2>5, <2>6, <3>1, BasesKept DEF inputs
  <2>8. Now' = Reader[next]
    BY <2>5, <2>7 DEF Now
  <2>9. Rest'
    <3>1. \A k \in i' + 1 .. Ready' : buf'[k] = text'[Moved' + k]
      <4> SUFFICES ASSUME NEW k \in i' + 1 .. Ready' PROVE buf'[k] = text'[Moved' + k]
        OBVIOUS
      <4> DEFINE at == from + k - 1
      <4>1. k \in 1 .. l /\ at \in i + 1 .. Ready /\ Moved + at = Moved' + k
        BY ONLY <1>3, <1>5, <2>1, <2>4, <2>5, k \in i' + 1 .. Ready'
      <4> HIDE DEF l
      <4>2. buf'[k] = buf[at]
        BY <2>3, <4>1
      <4> HIDE DEF at
      <4>3. buf[at] = text[Moved + at]
        BY <1>4, <4>1 DEF Rest
      <4> QED BY <1>1, <4>1, <4>2, <4>3
    <3>2. Moved' + Ready' = Moved + Ready
      BY ONLY <1>3, <1>5, <2>4, <2>5
    <3>3. \A k \in DOMAIN unread' : unread'[k] = text'[Moved' + Ready' + k]
      BY <1>1, <1>4, <3>2 DEF Rest
    <3> QED BY <1>1, <1>4, <3>1, <3>3 DEF Rest
  <2>10. OpenRow'
    <3>1. column' < nheaders' /\ colOffs'[0] = 0 /\ i' = 0 /\ 0 .. column' - 1 = {} /\ colOffs'[column'] <= i'
      BY <1>1, <1>4, <1>5, <2>1 DEF OpenRow
    <3>2. SubSeq(buf', 0 + 1, 0) = <<>>
      BY <2>2, <2>3, SubSeqEmpty
    <3>3. Now'.column = SubSeq(buf', colOffs'[column'] + 1, i')
      BY <1>6, <2>1, <2>8, <3>1, <3>2
    <3>4. Len(Now'.row) = column'
      BY <1>6, <2>1, <2>8
    <3> QED BY <3>1, <3>3, <3>4 DEF OpenRow
  <2>11. Mode'
    <3>1. ~inQuoted' /\ ~lastQuot' /\ i' = 0 /\ colOffs'[column'] = 0 /\ Now'.mode = "start"
      BY <1>1, <1>4, <1>6, <2>1, <2>8, Separating DEF Unquoted, OpenRow
    <3> QED BY <3>1 DEF Mode
  <2>12. Given'
    BY <1>6, <2>5, <2>7, <2>8 DEF Given
  <2>13. Result'
    BY <2>1 DEF Result, Running, AtEnd, Failed, Stopped
  <2> QED BY <2>7, <2>9, <2>10, <2>11, <2>12, <2>13 DEF IInv
<1> QED BY <1>7, <1>8

\* A quote within a column that does not start with one corrupts the stream.
LEMMA CorruptedStep == IInv /\ ret = Running /\ Corrupted => IInv'
<1> SUFFICES ASSUME IInv, ret = Running, Corrupted PROVE IInv'
  OBVIOUS
<1> DEFINE next == Seen + 1
<1>1. /\ Unquoted /\ Scanning /\ buf[i + 1] = Quot /\ i # colOffs[column] /\ ret' = Failed
      /\ UNCHANGED <<inputs, stream, buf, i, column, colOffs, rows, ioError>>
      /\ UNCHANGED <<text, inQuoted, lastQuot>>
  BY DEF Corrupted, Looking, quoting, inputs
<1>2. Inputs' /\ Types' /\ BufferBounded' /\ Reader' = Reader
  BY <1>1, Facts, AllKept DEF TypeOK
<1>3. Now.mode = "plain" /\ rows = Now.rows
  BY <1>1, OutsideModes DEF IInv, Given
<1>4. /\ next \in 1 .. Len(text) /\ next \in 0 .. Len(text)
      /\ Reader[next] = Reading(Now, buf[i + 1], nheaders)
  BY <1>1, Looked, Sizes
<1>5. Reader[next] = [Now EXCEPT !.mode = "corrupted"]
  BY <1>1, <1>3, <1>4, Looked, Facts, ReadingInto
<1> HIDE DEF next
<1>6. Reader[next].rows = rows /\ Reader[next].mode = "corrupted"
  BY <1>3, <1>5, Facts DEF ReaderState
<1>7. Result'
  BY <1>1, <1>2, <1>4, <1>6 DEF Result, Running, AtEnd, Failed, Stopped
<1> QED BY <1>1, <1>2, <1>7 DEF IInv, Failed, Running

\* An error ends the loop with the rows so far.
LEMMA ReadErrorStep == IInv /\ ret = Running /\ ReadError => IInv'
<1> SUFFICES ASSUME IInv, ret = Running, ReadError PROVE IInv'
  OBVIOUS
<1>1. /\ ret' = Failed /\ ioError' = TRUE
      /\ UNCHANGED <<inputs, stream, buf, i, column, colOffs, rows>> /\ UNCHANGED <<text, inQuoted, lastQuot>>
  BY DEF ReadError, quoting, inputs
<1>2. Inputs' /\ Types' /\ BufferBounded' /\ Reader' = Reader
  BY <1>1, Facts, AllKept DEF TypeOK
<1>3. rows = Reader[Seen].rows /\ Seen \in 0 .. Len(text)
  BY Sizes DEF IInv, Given, Now
<1>4. Result'
  BY <1>1, <1>2, <1>3 DEF Result, Running, AtEnd, Failed, Stopped
<1> QED BY <1>1, <1>2, <1>4 DEF IInv, Failed, Running

\* Between two characters the reader is not stuck.
LEMMA NotCorrupted == IInv /\ ret = Running => Now.mode # "corrupted"
<1> SUFFICES ASSUME IInv, ret = Running PROVE Now.mode # "corrupted"
  OBVIOUS
<1>1. Mode /\ colOffs[column] \in Nat /\ colOffs[column] <= i /\ i \in Nat
  BY Offsets, Sizes DEF IInv
<1>2. i = colOffs[column] \/ i > colOffs[column]
  BY ONLY <1>1
<1> QED BY <1>1, <1>2 DEF Mode

\* At the end of the stream the whole text was looked at.
LEMMA FinishStep == IInv /\ ret = Running /\ Finish => IInv'
<1> SUFFICES ASSUME IInv, ret = Running, Finish PROVE IInv'
  OBVIOUS
<1>1. /\ ~Scanning /\ eof /\ ret' = AtEnd
      /\ UNCHANGED <<inputs, stream, buf, i, column, colOffs, rows, ioError>>
      /\ UNCHANGED <<text, inQuoted, lastQuot>>
  BY DEF Finish, quoting, inputs
<1>2. Inputs' /\ Types' /\ BufferBounded' /\ Reader' = Reader
  BY <1>1, Facts, AllKept DEF TypeOK
<1>3. Seen = Len(text)
  <2>1. unread = <<>> /\ ~(i < Ready)
    BY <1>1 DEF IInv, Rest, Scanning
  <2>2. Len(unread) = 0
    BY <2>1
  <2> QED BY <2>1, <2>2, Sizes
<1>4. rows = Reader[Len(text)].rows /\ Reader[Len(text)].mode # "corrupted"
  BY <1>3, NotCorrupted DEF IInv, Given, Now
<1>5. Result'
  BY <1>1, <1>2, <1>4 DEF Result, Running, AtEnd, Failed, Stopped
<1> QED BY <1>1, <1>2, <1>5 DEF IInv, AtEnd, Running

\* How much is read: there is room for it in the buffer, and less than what was asked
\* for at the end only.
LEMMA ReadSizes ==
    ASSUME IInv, ret = Running, Read
    PROVE  /\ Readin \in 0 .. Len(unread) /\ Ready + Readin <= Wanted
           /\ AtEof => Readin = Len(unread)
           /\ Wanted \in Nat /\ buflen <= Wanted /\ (Wanted = buflen \/ (Wanted = buflen + Grow /\ Ready = buflen))
<1> DEFINE left == Len(unread)
<1>1. /\ Ready \in Nat /\ buflen \in Nat /\ Ready <= buflen /\ left \in Nat /\ Grow \in Nat \ {0}
      /\ chunk \in Nat \ {0}
  BY Sizes, Facts, CsvParseAssumption DEF Inputs
<1>2. Wanted = IF Ready = buflen THEN buflen + Grow ELSE buflen
  BY DEF Wanted
<1>3. /\ Wanted \in Nat /\ buflen <= Wanted /\ Ready < Wanted
      /\ (Wanted = buflen \/ (Wanted = buflen + Grow /\ Ready = buflen))
  BY ONLY <1>1, <1>2
<1>4. Nmemb = IF Wanted - Ready < chunk THEN Wanted - Ready ELSE chunk
  BY DEF Nmemb, Least
<1>5. Nmemb \in Nat /\ Nmemb <= Wanted - Ready
  BY ONLY <1>1, <1>3, <1>4
<1>6. Readin = IF Nmemb < left THEN Nmemb ELSE left
  BY DEF Readin, Least
<1>7. AtEof => Readin < Nmemb
  BY DEF AtEof
<1> HIDE DEF left
<1>8. Readin \in 0 .. left /\ Ready + Readin <= Wanted /\ (AtEof => Readin = left)
  BY ONLY <1>1, <1>3, <1>5, <1>6, <1>7
<1> QED BY <1>3, <1>8 DEF left

\* What is read goes behind what is in the buffer.
LEMMA ReadMoves ==
    ASSUME IInv, ret = Running, Read
    PROVE  /\ buf' \in Seq(Char \cup {Nul}) /\ unread' \in Seq(Char)
           /\ Ready' = Ready + Readin /\ Len(unread') = Len(unread) - Readin
           /\ \A k \in 1 .. Ready : buf'[k] = buf[k]
           /\ \A k \in 1 .. Readin : buf'[Ready + k] = unread[k]
           /\ \A k \in 1 .. Len(unread) - Readin : unread'[k] = unread[Readin + k]
<1> DEFINE got == SubSeq(unread, 1, Readin)
           all == Len(unread)
           n == Readin
           m == Ready
<1>1. buf \in Seq(Char \cup {Nul}) /\ unread \in Seq(Char) /\ m = Len(buf) /\ m \in Nat /\ all \in Nat /\ all = Len(unread)
  BY Facts, Sizes DEF Ready
<1>2. n \in 0 .. all /\ n \in Nat
  BY <1>1, ReadSizes
<1>3. buf' = buf \o got /\ unread' = SubSeq(unread, n + 1, all)
  BY DEF Read
<1> HIDE DEF n, m, all
<1>4. got \in Seq(Char) /\ Len(got) = n /\ \A k \in 1 .. n : got[k] = unread[k]
  <2>1. 1 \in Nat \ {0} /\ 1 <= n + 1 /\ n <= Len(unread) /\ n - 1 + 1 = n /\ \A k \in 1 .. n : 1 + k - 1 = k
    BY ONLY <1>1, <1>2
  <2>2. /\ SubSeq(unread, 1, n) \in Seq(Char) /\ Len(SubSeq(unread, 1, n)) = n - 1 + 1
        /\ \A k \in 1 .. n - 1 + 1 : SubSeq(unread, 1, n)[k] = unread[1 + k - 1]
    BY <1>1, <1>2, <2>1, StretchElements
  <2> QED BY <2>1, <2>2 DEF n
<1> HIDE DEF got
<1>5. unread' \in Seq(Char) /\ Len(unread') = all - n /\ \A k \in 1 .. all - n : unread'[k] = unread[n + k]
  <2> DEFINE next == n + 1
  <2>1. /\ next \in Nat \ {0} /\ next <= all + 1 /\ all <= Len(unread) /\ all - next + 1 = all - n
        /\ \A k \in 1 .. all - n : next + k - 1 = n + k
    BY ONLY <1>1, <1>2
  <2> HIDE DEF next
  <2>2. /\ SubSeq(unread, next, all) \in Seq(Char) /\ Len(SubSeq(unread, next, all)) = all - next + 1
        /\ \A k \in 1 .. all - next + 1 : SubSeq(unread, next, all)[k] = unread[next + k - 1]
    BY <1>1, <2>1, StretchElements
  <2> QED BY <1>3, <2>1, <2>2 DEF next
<1>6. /\ buf' \in Seq(Char \cup {Nul}) /\ Len(buf') = m + n
      /\ \A k \in 1 .. m : buf'[k] = buf[k]
      /\ \A k \in 1 .. n : buf'[m + k] = got[k]
  <2>1. got \in Seq(Char \cup {Nul})
    BY <1>4
  <2>2. /\ buf \o got \in Seq(Char \cup {Nul}) /\ Len(buf \o got) = Len(buf) + Len(got)
        /\ \A k \in 1 .. Len(buf) + Len(got) :
              (buf \o got)[k] = IF k <= Len(buf) THEN buf[k] ELSE got[k - Len(buf)]
    BY <1>1, <2>1, ConcatProperties
  <2>3. /\ \A k \in 1 .. m : k \in 1 .. m + n /\ k <= m
        /\ \A k \in 1 .. n : m + k \in 1 .. m + n /\ ~(m + k <= m) /\ m + k - m = k
    BY ONLY <1>1, <1>2
  <2> QED BY <1>1, <1>3, <1>4, <2>2, <2>3
<1>7. Ready' = Len(buf')
  BY DEF Ready
<1> QED BY <1>4, <1>5, <1>6, <1>7 DEF n, m, all

\* Reading on leaves the reader where it is, and the buffer grows only when it is full
\* of a row.
LEMMA ReadStep == IInv /\ ret = Running /\ Read => IInv'
<1> SUFFICES ASSUME IInv, ret = Running, Read PROVE IInv'
  OBVIOUS
<1>1. /\ ~(i < Ready) /\ ~Scanning /\ buflen' = Wanted /\ eof' = AtEof /\ eof' \in BOOLEAN
      /\ UNCHANGED <<text, table, nheaders, chunk, stopAfter>>
      /\ UNCHANGED <<i, column, colOffs, inQuoted, lastQuot, rows, ret, ioError>>
  BY DEF Read, Scanning, inputs, quoting, AtEof
<1>2. Rest /\ OpenRow /\ Mode /\ Given /\ Inputs /\ TypeOK /\ Stretch
  BY Facts DEF IInv
<1>3. /\ Ready \in Nat /\ i \in 0 .. Ready /\ buflen \in Nat /\ Moved \in Nat /\ Seen = Moved + i
      /\ Len(text) \in Nat /\ Len(unread) \in Nat /\ Moved + Ready + Len(unread) = Len(text)
      /\ Moved = Len(text) - Len(unread) - Ready
  BY Sizes DEF Moved
<1>4. i = Ready
  BY ONLY <1>1, <1>3
<1>5. /\ buf' \in Seq(Char \cup {Nul}) /\ unread' \in Seq(Char)
      /\ Ready' = Ready + Readin /\ Len(unread') = Len(unread) - Readin
      /\ \A k \in 1 .. Ready : buf'[k] = buf[k]
      /\ \A k \in 1 .. Readin : buf'[Ready + k] = unread[k]
      /\ \A k \in 1 .. Len(unread) - Readin : unread'[k] = unread[Readin + k]
  BY ReadMoves
<1>6. /\ Readin \in 0 .. Len(unread) /\ Ready + Readin <= Wanted /\ Wanted \in Nat /\ buflen <= Wanted
      /\ (AtEof => Readin = Len(unread))
      /\ (Wanted = buflen \/ (Wanted = buflen + Grow /\ Ready = buflen))
  BY ReadSizes
<1>7. Moved' = Moved /\ Seen' = Seen
  <2>1. Moved' = Len(text) - Len(unread') - Ready' /\ Seen' = Moved' + i
    BY <1>1 DEF Moved, Seen
  <2>2. Len(unread') = Len(unread) - Readin /\ Ready' = Ready + Readin
    BY <1>5
  <2>3. Readin \in 0 .. Len(unread)
    BY <1>6
  <2> QED BY ONLY <1>3, <2>1, <2>2, <2>3
<1>8. Reader' = Reader /\ Now' = Now
  BY <1>1, <1>7 DEF Reader, Now
<1>9. TypeOK'
  <2>1. i' \in 0 .. Ready' /\ Ready' <= buflen'
    <3>1. Ready' = Ready + Readin
      BY <1>5
    <3> QED BY ONLY <1>1, <1>3, <1>6, <3>1
  <2>2. 0 .. buflen \subseteq 0 .. buflen'
    BY ONLY <1>1, <1>3, <1>6
  <2>3. colOffs \in [0 .. nheaders - 1 -> 0 .. buflen']
    <3>1. colOffs \in [0 .. nheaders - 1 -> 0 .. buflen]
      BY <1>2 DEF TypeOK
    <3> QED BY <2>2, <3>1
  <2> QED BY <1>1, <1>2, <2>1, <2>3 DEF TypeOK
<1>10. Inputs' /\ Types'
  <2>1. Inputs'
    BY <1>1, <1>2 DEF Inputs
  <2> QED BY <1>1, <1>3, <1>5, <1>6, <1>7, <1>9, <2>1 DEF Types
<1>11. BufferBounded'
  <2>1. Stretch'
    <3>1. CASE Wanted = buflen
      BY <1>1, <1>2, <1>8, <3>1 DEF Stretch
    <3>2. CASE Wanted = buflen + Grow /\ Ready = buflen
      <4>1. Moved \in 0 .. Len(text) /\ Seen \in 0 .. Len(text)
        BY ONLY <1>3
      <4>2. Grow \in Nat
        BY CsvParseAssumption
      <4>3. buflen' <= Seen - Moved + Grow
        BY ONLY <1>1, <1>3, <1>4, <3>2, <4>2
      <4>4. Reader[Seen].rows = Reader[Moved].rows /\ Reader[Seen].mode # "corrupted"
        BY <1>2, NotCorrupted DEF Given, Now
      <4> QED BY <1>1, <1>8, <4>1, <4>3, <4>4 DEF Stretch
    <3> QED BY <1>6, <3>1, <3>2
  <2> QED BY <1>9, <2>1 DEF BufferBounded, Stretch, Reader
<1>12. Rest'
  <2>1. \A k \in DOMAIN unread' : unread'[k] = text'[Moved' + Ready' + k]
    <3> SUFFICES ASSUME NEW k \in DOMAIN unread' PROVE unread'[k] = text'[Moved' + Ready' + k]
      OBVIOUS
    <3> DEFINE at == Readin + k
    <3>1. k \in 1 .. Len(unread) - Readin
      BY <1>5
    <3>2. at \in 1 .. Len(unread) /\ Moved' + Ready' + k = Moved + Ready + at
      <4>1. Ready' = Ready + Readin
        BY <1>5
      <4> QED BY ONLY <1>3, <1>6, <1>7, <3>1, <4>1
    <3>3. unread'[k] = unread[at]
      BY <1>5, <3>1
    <3> HIDE DEF at
    <3>4. at \in DOMAIN unread
      BY <3>2, Facts
    <3> QED BY <1>1, <1>2, <3>2, <3>3, <3>4 DEF Rest
  <2>2. \A k \in i' + 1 .. Ready' : buf'[k] = text'[Moved' + k]
    <3> SUFFICES ASSUME NEW k \in i' + 1 .. Ready' PROVE buf'[k] = text'[Moved' + k]
      OBVIOUS
    <3> DEFINE at == k - Ready
    <3>1. at \in 1 .. Readin /\ at \in 1 .. Len(unread) /\ Ready + at = k /\ Moved' + k = Moved + Ready + at
      <4>1. Ready' = Ready + Readin
        BY <1>5
      <4> QED BY ONLY <1>1, <1>3, <1>4, <1>6, <1>7, <4>1, k \in i' + 1 .. Ready'
    <3> HIDE DEF at
    <3>2. buf'[Ready + at] = unread[at]
      BY <1>5, <3>1
    <3>3. at \in DOMAIN unread
      BY <3>1, Facts
    <3>4. unread[at] = text[Moved + Ready + at]
      BY <1>2, <3>3 DEF Rest
    <3> QED BY <1>1, <3>1, <3>2, <3>4
  <2>3. eof' => unread' = <<>>
    <3> SUFFICES ASSUME AtEof PROVE unread' = <<>>
      BY <1>1
    <3>1. Len(unread') = 0
      BY <1>3, <1>5, <1>6
    <3> QED BY <1>5, <3>1, EmptySeq
  <2> QED BY <2>1, <2>2, <2>3 DEF Rest
<1>13. OpenRow'
  <2>1. buf \in Seq(Char \cup {Nul}) /\ Ready = Len(buf) /\ Ready' = Len(buf') /\ Ready <= Ready' /\ i <= Ready /\ i \in Nat
    <3>1. Ready' = Ready + Readin
      BY <1>5
    <3>2. Ready <= Ready' /\ i <= Ready /\ i \in Nat
      BY ONLY <1>3, <1>6, <3>1
    <3> QED BY <3>2, Facts DEF Ready
  <2>2. ASSUME NEW from \in Nat, NEW to \in Nat, from <= to, to <= i
        PROVE  SubSeq(buf, from + 1, to) = SubSeq(buf', from + 1, to)
    <3> DEFINE m == from + 1
    <3>1. /\ m \in Nat \ {0} /\ m <= to + 1 /\ to <= Len(buf) /\ to <= Len(buf')
          /\ \A k \in m .. to : k \in 1 .. Ready
      BY ONLY <1>3, <1>4, <2>1, <2>2
    <3> HIDE DEF m
    <3>2. \A k \in m .. to : buf[k] = buf'[k]
      BY <1>5, <3>1
    <3>3. SubSeq(buf, m, to) = SubSeq(buf', m, to)
      BY <1>5, <2>1, <3>1, <3>2, SameStretch
    <3> QED BY <3>3 DEF m
  <2>3. Now.column = SubSeq(buf', colOffs[column] + 1, i)
    <3> DEFINE off == colOffs[column]
    <3>1. off \in Nat /\ off <= i /\ Now.column = SubSeq(buf, off + 1, i) /\ i \in Nat /\ i <= i
      BY <1>2, <2>1, Offsets DEF OpenRow
    <3> HIDE DEF off
    <3>2. SubSeq(buf, off + 1, i) = SubSeq(buf', off + 1, i)
      BY <2>2, <3>1
    <3> QED BY <3>1, <3>2 DEF off
  <2>4. ASSUME NEW k \in 0 .. column - 1
        PROVE  buf'[colOffs[k + 1]] = Nul /\ Now.row[k + 1] = SubSeq(buf', colOffs[k] + 1, colOffs[k + 1] - 1)
    <3> DEFINE from == colOffs[k]
               next == colOffs[k + 1]
    <3>1. k \in 0 .. column /\ k + 1 \in 0 .. column
      BY Offsets
    <3>2. from \in Nat /\ next \in Nat /\ from < next /\ next <= i
      BY <3>1, Offsets
    <3>3. buf[next] = Nul /\ Now.row[k + 1] = SubSeq(buf, from + 1, next - 1)
      BY <1>2 DEF OpenRow
    <3> HIDE DEF from, next
    <3> DEFINE to == next - 1
    <3>4. next \in 1 .. Ready /\ to \in Nat /\ from <= to /\ to <= i
      BY ONLY <1>3, <2>1, <3>2
    <3>5. buf'[next] = Nul
      BY <1>5, <3>3, <3>4
    <3> HIDE DEF to
    <3>6. SubSeq(buf, from + 1, to) = SubSeq(buf', from + 1, to)
      BY <2>2, <3>2, <3>4
    <3> QED BY <3>3, <3>5, <3>6 DEF from, next, to
  <2> QED BY <1>1, <1>2, <1>8, <2>3, <2>4 DEF OpenRow
<1>14. Mode'
  <2>1. ~inQuoted /\ i > colOffs[column] => Now.mode = "plain"
    BY <1>1, <1>2 DEF Mode
  <2> QED BY <1>1, <1>2, <1>8, <2>1 DEF Mode
<1>15. Given'
  BY <1>1, <1>2, <1>7, <1>8 DEF Given
<1>16. Result'
  BY <1>1 DEF Result, Running, AtEnd, Failed, Stopped
<1> QED BY <1>10, <1>11, <1>12, <1>13, <1>14, <1>15, <1>16 DEF IInv

-----------------------------------------------------------------------------
(* The invariant *)

\* What is printed is text.
LEMMA PrintedType ==
    /\ \A str \in Text : Doubled(str) \in Text /\ PrintQuoted(str) \in Text
    /\ \A row \in Row : PrintRow(row) \in Text
    /\ \A t \in Seq(Row) : Printout(t) \in Text
<1>1. \A str \in Text : Doubled(str) \in Text
  <2> SUFFICES ASSUME NEW str \in Text PROVE Doubled(str) \in Text
    OBVIOUS
  <2> DEFINE seqs == [k \in DOMAIN str |-> IF str[k] = Quot THEN <<Quot, Quot>> ELSE <<str[k]>>]
  <2>1. seqs \in Seq(Seq(Char))
    <3>1. ASSUME NEW k \in 1 .. Len(str) PROVE seqs[k] \in Seq(Char)
      <4>1. str[k] \in Char /\ k \in DOMAIN str /\ Quot \in Char
        BY DEF Text, Char
      <4>2. <<Quot, Quot>> \in Seq(Char) /\ <<str[k]>> \in Seq(Char)
        BY <4>1
      <4> QED BY <4>1, <4>2
    <3>2. seqs = [k \in 1 .. Len(str) |-> seqs[k]] /\ Len(str) \in Nat
      BY DEF Text
    <3> HIDE DEF seqs
    <3> QED BY <3>1, <3>2
  <2>2. Doubled(str) = FlattenSeq(seqs)
    BY DEF Doubled
  <2> HIDE DEF seqs
  <2> QED BY <2>1, <2>2, FlattenType DEF Text
<1>2. \A str \in Text : PrintQuoted(str) \in Text
  <2>1. <<Quot>> \in Text
    BY DEF Text, Char
  <2>2. \A a, b, c \in Text : a \o b \o c \in Text
    BY DEF Text
  <2> QED BY <1>1, <2>1, <2>2 DEF PrintQuoted
<1>3. \A row \in Row : PrintRow(row) \in Text
  <2> SUFFICES ASSUME NEW row \in Row PROVE PrintRow(row) \in Text
    OBVIOUS
  <2> DEFINE seqs == [k \in DOMAIN row |-> Append(PrintQuoted(row[k]), IF k = Len(row) THEN Newline ELSE Comma)]
  <2>1. seqs \in Seq(Seq(Char))
    <3>1. ASSUME NEW k \in 1 .. Len(row) PROVE seqs[k] \in Seq(Char)
      <4>1. PrintQuoted(row[k]) \in Seq(Char)
        BY <1>2 DEF Row, Text
      <4>2. (IF k = Len(row) THEN Newline ELSE Comma) \in Char /\ k \in DOMAIN row
        BY DEF Row, Char
      <4> QED BY <4>1, <4>2
    <3>2. seqs = [k \in 1 .. Len(row) |-> seqs[k]] /\ Len(row) \in Nat
      BY DEF Row
    <3> HIDE DEF seqs
    <3> QED BY <3>1, <3>2
  <2>2. PrintRow(row) = FlattenSeq(seqs)
    BY DEF PrintRow
  <2> HIDE DEF seqs
  <2> QED BY <2>1, <2>2, FlattenType DEF Text
<1>4. \A t \in Seq(Row) : Printout(t) \in Text
  <2> SUFFICES ASSUME NEW t \in Seq(Row) PROVE Printout(t) \in Text
    OBVIOUS
  <2> DEFINE seqs == [k \in DOMAIN t |-> PrintRow(t[k])]
  <2>1. seqs \in Seq(Seq(Char))
    <3>1. \A k \in 1 .. Len(t) : seqs[k] \in Seq(Char)
      BY <1>3 DEF Text
    <3>2. seqs = [k \in 1 .. Len(t) |-> seqs[k]] /\ Len(t) \in Nat
      OBVIOUS
    <3> HIDE DEF seqs
    <3> QED BY <3>1, <3>2
  <2>2. Printout(t) = FlattenSeq(seqs)
    BY DEF Printout
  <2> HIDE DEF seqs
  <2> QED BY <2>1, <2>2, FlattenType DEF Text
<1> QED BY <1>1, <1>2, <1>3, <1>4

\* At the start nothing is read.
LEMMA InitInv == Init => IInv
<1> SUFFICES ASSUME Init PROVE IInv
  OBVIOUS
<1>1. /\ unread = text /\ buf = <<>> /\ buflen = 0 /\ i = 0 /\ column = 0
      /\ colOffs = [k \in 0 .. nheaders - 1 |-> 0]
      /\ inQuoted = FALSE /\ lastQuot = FALSE /\ eof = FALSE
      /\ rows = <<>> /\ ret = Running /\ ioError = FALSE
  BY DEF Init
<1>2. Inputs
  <2>1. nheaders \in Nat \ {0} /\ chunk \in Nat \ {0}
    BY CsvParseAssumption DEF Init
  <2>2. CASE text \in Texts /\ table = <<>>
    BY <2>1, <2>2, CsvParseAssumption DEF Inputs
  <2>3. CASE table \in {t \in Tables : \A k \in DOMAIN t : Len(t[k]) = nheaders} /\ text = Printout(table)
    <3>1. table \in Seq(Row)
      BY <2>3, CsvParseAssumption DEF Row, Text
    <3>2. text \in Seq(Char)
      BY <2>3, <3>1, PrintedType DEF Text
    <3> QED BY <2>1, <2>3, <3>1, <3>2 DEF Inputs, Row, Text
  <2> QED BY <2>2, <2>3 DEF Init
<1>3. /\ Len(text) \in Nat /\ text \in Text /\ nheaders \in Nat \ {0} /\ 0 \in 0 .. Len(text)
      /\ 0 \in 0 .. nheaders - 1
  BY <1>2 DEF Inputs, Text
<1>4. Ready = 0 /\ Moved = 0 /\ Seen = 0
  <2>1. Ready = 0
    BY <1>1 DEF Ready
  <2>2. Moved = Len(text) - Len(text) - 0
    BY <1>1, <2>1 DEF Moved
  <2>3. Moved = 0
    BY ONLY <1>3, <2>2
  <2>4. Seen = 0 + 0
    BY <1>1, <2>3 DEF Seen
  <2> QED BY <2>1, <2>3, <2>4
<1>5. Now = Nothing /\ Reader[0] = Nothing
  BY <1>3, <1>4, StatesByStep DEF Now, Reader
<1>6. TypeOK
  <2>1. 0 \in 0 .. nheaders /\ 0 \in 0 .. 0 /\ 0 <= 0
    BY <1>3
  <2>2. colOffs \in [0 .. nheaders - 1 -> 0 .. buflen]
    BY <1>1, <2>1
  <2> QED BY <1>1, <1>4, <2>1, <2>2 DEF TypeOK
<1>7. Types
  BY <1>1, <1>2, <1>4, <1>6 DEF Types, Inputs
<1>8. BufferBounded
  <2>1. buflen <= 0 - 0 + Grow
    BY <1>1, CsvParseAssumption
  <2>2. Reader[0].mode # "corrupted"
    BY <1>5 DEF Nothing
  <2>3. Stretch
    BY <1>3, <2>1, <2>2 DEF Stretch
  <2> QED BY <1>6, <2>3 DEF BufferBounded, Stretch, Reader
<1>9. Rest
  <2>1. \A k \in DOMAIN unread : Moved + Ready + k = k /\ unread[k] = text[k]
    BY <1>1, <1>3, <1>4 DEF Text
  <2> QED BY <1>1, <1>4, <2>1 DEF Rest
<1>10. OpenRow
  <2>1. colOffs[0] = 0 /\ 0 .. column - 1 = {} /\ column < nheaders
    BY <1>1, <1>3
  <2>2. SubSeq(buf, 0 + 1, 0) = <<>>
    BY <1>1, <1>7, SubSeqEmpty DEF Types
  <2>3. Now.column = <<>> /\ Len(Now.row) = column
    BY <1>1, <1>5 DEF Nothing
  <2>4. colOffs[column] <= i /\ Now.column = SubSeq(buf, colOffs[column] + 1, i)
    <3>1. colOffs[column] = 0 /\ i = 0 /\ 0 <= 0
      BY <1>1, <2>1
    <3> QED BY ONLY <2>2, <2>3, <3>1
  <2> QED BY <2>1, <2>3, <2>4 DEF OpenRow
<1>11. Mode
  <2>1. colOffs[column] = 0 /\ Now.mode = "start"
    BY <1>1, <1>3, <1>5 DEF Nothing
  <2> QED BY <1>1, <2>1 DEF Mode
<1>12. Given
  BY <1>1, <1>4, <1>5 DEF Given, Nothing
<1>13. Result
  BY <1>1 DEF Result, Running, AtEnd, Failed, Stopped
<1> QED BY <1>2, <1>7, <1>8, <1>9, <1>10, <1>11, <1>12, <1>13 DEF IInv

\* Every step keeps the invariant.
LEMMA NextInv == IInv /\ [Next]_vars => IInv'
<1> SUFFICES ASSUME IInv, [Next]_vars PROVE IInv'
  OBVIOUS
<1>1. CASE ret = Running /\ EscapedQuot
  BY <1>1, EscapedQuotStep
<1>2. CASE ret = Running /\ EndOfQuoted
  BY <1>2, EndOfQuotedStep
<1>3. CASE ret = Running /\ InsideQuoted
  BY <1>3, InsideQuotedStep
<1>4. CASE ret = Running /\ EndOfColumn
  BY <1>4, EndOfColumnStep
<1>5. CASE ret = Running /\ EndOfRow
  BY <1>5, EndOfRowStep
<1>6. CASE ret = Running /\ OpenQuoted
  BY <1>6, OpenQuotedStep
<1>7. CASE ret = Running /\ Corrupted
  BY <1>7, CorruptedStep
<1>8. CASE ret = Running /\ MiddleOfColumn
  BY <1>8, MiddleOfColumnStep
<1>9. CASE ret = Running /\ Read
  BY <1>9, ReadStep
<1>10. CASE ret = Running /\ Finish
  BY <1>10, FinishStep
<1>11. CASE ret = Running /\ ReadError
  BY <1>11, ReadErrorStep
<1>12. CASE UNCHANGED vars
  <2>1. /\ UNCHANGED <<text, table, nheaders, chunk, stopAfter, unread, buflen, eof, buf, i, column>>
        /\ UNCHANGED <<colOffs, inQuoted, lastQuot, rows, ret, ioError>>
    BY <1>12 DEF vars, inputs, stream, quoting
  <2>2. Inputs' /\ Types' /\ BufferBounded' /\ Reader' = Reader /\ Moved' = Moved /\ Now' = Now /\ Ready' = Ready
    BY <2>1, Facts, AllKept DEF TypeOK, inputs, stream
  <2>3. Result'
    BY <2>1, <2>2 DEF IInv, Result
  <2>4. ret = Running => Rest' /\ OpenRow' /\ Mode' /\ Given'
    BY <2>1, <2>2 DEF IInv, Rest, OpenRow, Mode, Given, Scanning
  <2> QED BY <2>1, <2>2, <2>3, <2>4 DEF IInv
<1> QED BY <1>1, <1>2, <1>3, <1>4, <1>5, <1>6, <1>7, <1>8, <1>9, <1>10, <1>11, <1>12 DEF Next, Step

\* The invariant holds whatever the stream, the number of columns, the size of the chunks
\* and the growth of the buffer.
THEOREM ParserInvariant == Spec => []IInv
<1> QED BY InitInv, NextInv, PTL DEF Spec

\* The offsets stay inside the buffer, and its size is bounded by the longest row and not
\* by the stream (csv_read_all's realloc).
THEOREM ParserBufferBounded == Spec => []BufferBounded
<1>1. IInv => BufferBounded
  BY DEF IInv
<1> QED BY <1>1, ParserInvariant, PTL

\* The rows of a state of the reader are the first rows of the text.
LEMMA ReaderGrows ==
    ASSUME IInv, NEW k \in 0 .. Len(text)
    PROVE  /\ Expected = Reader[Len(text)] /\ IsPrefix(Reader[k].rows, Expected.rows)
           /\ Reader[k].mode = "corrupted" => Reader[k] = Expected
<1>1. text \in Text /\ Nothing \in ReaderState
  BY Facts DEF Nothing, ReaderState, Row, Text, Modes
<1>2. Len(text) \in k .. Len(text)
  BY <1>1 DEF Text
<1>3. Expected = Reader[Len(text)]
  BY DEF Expected, Meaning, Reader
<1>4. /\ IsPrefix(Reader[k].rows, Reader[Len(text)].rows)
      /\ Reader[k].mode = "corrupted" => Reader[Len(text)] = Reader[k]
  BY <1>1, <1>2, StatesGrow DEF Reader
<1> QED BY <1>3, <1>4

\* Wherever the chunks end and the buffer grows or moves, the callback of csv_read_all
\* gets the rows of the text, in order, and nothing else.
THEOREM ParserRowsInOrder == Spec => []RowsInOrder
<1>1. IInv => RowsInOrder
  <2> SUFFICES ASSUME IInv PROVE RowsInOrder
    OBVIOUS
  <2>1. \E k \in 0 .. Len(text) : rows = Reader[k].rows
    <3>1. CASE ret = Running
      BY <3>1, Sizes DEF IInv, Given, Now
    <3>2. CASE ret = AtEnd
      <4>1. Len(text) \in 0 .. Len(text)
        BY Sizes
      <4> QED BY <3>2, <4>1 DEF IInv, Result
    <3>3. CASE ret = Failed \/ ret = Stopped
      BY <3>3 DEF IInv, Result
    <3> QED BY <3>1, <3>2, <3>3, Facts DEF TypeOK
  <2> QED BY <2>1, ReaderGrows DEF RowsInOrder
<1> QED BY <1>1, ParserInvariant, PTL

\* What csv_read_all returns tells whether the rows are all the rows of the text: 0 after
\* the last one, -1 for a corrupted stream, 1 where the callback stopped it.
THEOREM ParserResultRight == Spec => []ResultRight
<1>1. IInv => ResultRight
  <2> SUFFICES ASSUME IInv PROVE ResultRight
    OBVIOUS
  <2>1. Result /\ Len(text) \in 0 .. Len(text)
    BY Sizes DEF IInv
  <2>2. ret = AtEnd => rows = Expected.rows /\ Expected.mode # "corrupted"
    BY <2>1, ReaderGrows DEF Result
  <2>3. ret = Failed /\ ~ioError => rows = Expected.rows /\ Expected.mode = "corrupted"
    BY <2>1, ReaderGrows DEF Result
  <2>4. ret = Stopped => Len(rows) = stopAfter
    BY <2>1 DEF Result
  <2> QED BY <2>2, <2>3, <2>4 DEF ResultRight
<1> QED BY <1>1, ParserInvariant, PTL

-----------------------------------------------------------------------------
(* What is printed is read back *)

\* The state after the whole text.
End(s, t, n) == States(s, t, n)[Len(t)]

\* A text is read on from where the text before it ends.
LEMMA ReadingOn ==
    ASSUME NEW s, NEW t \in Text, NEW u \in Text, NEW n
    PROVE  End(s, t \o u, n) = End(End(s, t, n), u, n)
<1> DEFINE R == States(s, t \o u, n)
           A == States(s, t, n)
           B == States(A[Len(t)], u, n)
           lt == Len(t)
           lu == Len(u)
<1>1. /\ lt \in Nat /\ lu \in Nat /\ t \o u \in Text /\ Len(t \o u) = lt + lu
      /\ \A k \in 1 .. lt : (t \o u)[k] = t[k]
      /\ \A k \in 1 .. lu : (t \o u)[lt + k] = u[k]
  <2>1. /\ t \o u \in Text /\ Len(t \o u) = Len(t) + Len(u) /\ Len(t) \in Nat /\ Len(u) \in Nat
        /\ \A k \in 1 .. Len(t) + Len(u) :
              (t \o u)[k] = IF k <= Len(t) THEN t[k] ELSE u[k - Len(t)]
    BY ConcatProperties DEF Text
  <2> HIDE DEF lt, lu
  <2>2. \A k \in 1 .. lu : lt + k \in 1 .. lt + lu /\ ~(lt + k <= lt) /\ lt + k - lt = k
    BY <2>1 DEF lt, lu
  <2>3. \A k \in 1 .. lt : k \in 1 .. lt + lu /\ k <= lt
    BY <2>1 DEF lt, lu
  <2> QED BY <2>1, <2>2, <2>3 DEF lt, lu
<1>2. /\ R[0] = s /\ A[0] = s /\ B[0] = A[lt]
      /\ \A k \in 1 .. lt + lu : R[k] = Reading(R[k - 1], (t \o u)[k], n)
      /\ \A k \in 1 .. lt : A[k] = Reading(A[k - 1], t[k], n)
      /\ \A k \in 1 .. lu : B[k] = Reading(B[k - 1], u[k], n)
  <2>1. R[0] = s /\ \A k \in 1 .. Len(t \o u) : R[k] = Reading(R[k - 1], (t \o u)[k], n)
    <3> DEFINE d == t \o u
    <3>1. d \in Text
      BY <1>1
    <3> HIDE DEF d
    <3>2. States(s, d, n)[0] = s /\ \A k \in 1 .. Len(d) : States(s, d, n)[k] = Reading(States(s, d, n)[k - 1], d[k], n)
      BY <3>1, StatesByStep
    <3> QED BY <3>2 DEF d
  <2>2. A[0] = s /\ \A k \in 1 .. Len(t) : A[k] = Reading(A[k - 1], t[k], n)
    BY StatesByStep
  <2> HIDE DEF A
  <2>3. B[0] = A[Len(t)] /\ \A k \in 1 .. Len(u) : B[k] = Reading(B[k - 1], u[k], n)
    BY StatesByStep
  <2> HIDE DEF R, B
  <2> QED BY <1>1, <2>1, <2>2, <2>3
<1>3. End(s, t \o u, n) = R[lt + lu] /\ End(End(s, t, n), u, n) = B[lu]
  BY <1>1 DEF End
<1> HIDE DEF R, A, B, lt, lu
<1> DEFINE T == {k \in Nat : k <= lt => R[k] = A[k]}
           U == {k \in Nat : k <= lu => R[lt + k] = B[k]}
<1>4. Nat \subseteq T
  <2>1. 0 \in T
    BY <1>2
  <2>2. ASSUME NEW k \in Nat, k \in T PROVE k + 1 \in T
    <3> SUFFICES ASSUME k + 1 <= lt PROVE R[k + 1] = A[k + 1]
      OBVIOUS
    <3> DEFINE next == k + 1
    <3>1. next \in 1 .. lt /\ next \in 1 .. lt + lu /\ next - 1 = k /\ R[k] = A[k]
      BY <1>1, <2>2
    <3> HIDE DEF next
    <3>2. R[next] = A[next]
      BY <1>1, <1>2, <3>1
    <3> QED BY <3>2 DEF next
  <2> HIDE DEF T
  <2> QED BY <2>1, <2>2, NatSetInduction
<1>5. R[lt] = B[0]
  <2>1. lt \in T /\ lt <= lt
    BY <1>1, <1>4
  <2> QED BY <1>2, <2>1
<1>6. Nat \subseteq U
  <2>1. 0 \in U
    BY <1>1, <1>5
  <2>2. ASSUME NEW k \in Nat, k \in U PROVE k + 1 \in U
    <3> SUFFICES ASSUME k + 1 <= lu PROVE R[lt + (k + 1)] = B[k + 1]
      OBVIOUS
    <3> DEFINE next == k + 1
               at == lt + (k + 1)
    <3>1. /\ next \in 1 .. lu /\ at \in 1 .. lt + lu /\ next - 1 = k /\ at - 1 = lt + k /\ at = lt + next
          /\ R[lt + k] = B[k]
      BY <1>1, <2>2
    <3> HIDE DEF next, at
    <3>2. R[at] = Reading(R[lt + k], u[next], n)
      BY <1>1, <1>2, <3>1
    <3>3. B[next] = Reading(B[k], u[next], n)
      BY <1>2, <3>1
    <3> QED BY <3>1, <3>2, <3>3 DEF next, at
  <2> HIDE DEF U
  <2> QED BY <2>1, <2>2, NatSetInduction
<1>7. lu \in U /\ lu <= lu
  BY <1>1, <1>6
<1> QED BY <1>3, <1>7

\* A text of one character.
LEMMA ReadingOne ==
    ASSUME NEW s, NEW c \in Char, NEW n
    PROVE  End(s, <<c>>, n) = Reading(s, c, n)
<1> DEFINE w == <<c>>
<1>1. w \in Text /\ Len(w) = 1 /\ w[1] = c
  BY DEF Text
<1> HIDE DEF w
<1>2. States(s, w, n)[0] = s /\ \A k \in 1 .. Len(w) : States(s, w, n)[k] = Reading(States(s, w, n)[k - 1], w[k], n)
  <2>1. w \in Text
    BY <1>1
  <2> QED BY ONLY <2>1, StatesByStep
<1>3. 1 \in 1 .. Len(w) /\ 1 - 1 = 0
  BY <1>1
<1>4. States(s, w, n)[1] = Reading(s, c, n)
  BY <1>1, <1>2, <1>3
<1> QED BY <1>1, <1>4 DEF End, w

\* Nothing is read of an empty text, and a character behind a text is read last.
LEMMA ReadingLast ==
    ASSUME NEW s, NEW t \in Text, NEW c \in Char, NEW n
    PROVE  End(s, <<>>, n) = s /\ End(s, Append(t, c), n) = Reading(End(s, t, n), c, n)
<1>1. <<>> \in Text /\ Len(<<>>) = 0 /\ <<c>> \in Text /\ Len(<<c>>) = 1 /\ <<c>>[1] = c
  BY DEF Text
<1>2. End(s, <<>>, n) = s
  BY <1>1, StatesByStep DEF End
<1> DEFINE e == End(s, t, n)
<1>3. Append(t, c) = t \o <<c>>
  BY DEF Text
<1>4. End(s, t \o <<c>>, n) = End(e, <<c>>, n)
  BY <1>1, ReadingOn
<1> HIDE DEF e
<1>5. End(e, <<c>>, n) = Reading(e, c, n)
  BY ReadingOne
<1> QED BY <1>2, <1>3, <1>4, <1>5 DEF e

\* What Doubled makes of a string, character by character.
LEMMA DoubledLast ==
    ASSUME NEW v \in Text, NEW c \in Char
    PROVE  /\ Doubled(<<>>) = <<>>
           /\ Doubled(Append(v, c)) = Doubled(v) \o (IF c = Quot THEN <<Quot, Quot>> ELSE <<c>>)
<1> DEFINE D(w) == [k \in DOMAIN w |-> IF w[k] = Quot THEN <<Quot, Quot>> ELSE <<w[k]>>]
           x == IF c = Quot THEN <<Quot, Quot>> ELSE <<c>>
           av == Append(v, c)
           l == Len(v)
<1>1. Doubled(<<>>) = <<>>
  <2>1. D(<<>>) = <<>>
    OBVIOUS
  <2> QED BY <2>1, FlattenEmpty DEF Doubled
<1>2. ASSUME NEW w \in Text PROVE D(w) \in Seq(Text) /\ Len(D(w)) = Len(w)
  <2>1. \A k \in 1 .. Len(w) : D(w)[k] \in Text
    <3> SUFFICES ASSUME NEW k \in 1 .. Len(w) PROVE D(w)[k] \in Text
      OBVIOUS
    <3>1. w[k] \in Char /\ k \in DOMAIN w /\ Quot \in Char
      BY DEF Text, Char
    <3>2. <<Quot, Quot>> \in Text /\ <<w[k]>> \in Text
      BY <3>1 DEF Text
    <3> QED BY <3>1, <3>2
  <2>2. D(w) = [k \in 1 .. Len(w) |-> D(w)[k]] /\ Len(w) \in Nat
    BY DEF Text
  <2> HIDE DEF D
  <2> QED BY <2>1, <2>2
<1>3. /\ l \in Nat /\ av \in Text /\ Len(av) = l + 1 /\ av[l + 1] = c /\ DOMAIN av = 1 .. l + 1
      /\ DOMAIN v = 1 .. l
      /\ \A k \in 1 .. l : av[k] = v[k]
  BY DEF Text
<1>4. x \in Text
  <2>1. <<Quot, Quot>> \in Text /\ <<c>> \in Text
    BY DEF Text, Char
  <2> QED BY <2>1
<1> HIDE DEF av, l
<1>5. D(av) = Append(D(v), x)
  <2>1. \A k \in 1 .. l : D(av)[k] = D(v)[k] /\ D(av)[l + 1] = x
    BY <1>3
  <2>2. D(av)[l + 1] = x
    BY <1>3
  <2>3. /\ D(v) \in Seq(Text) /\ Len(D(v)) = l
        /\ D(av) \in Seq(Text) /\ Len(D(av)) = l + 1
    BY <1>2, <1>3 DEF l
  <2> HIDE DEF D, x
  <2>4. /\ Append(D(v), x) \in Seq(Text) /\ Len(Append(D(v), x)) = l + 1
        /\ \A k \in 1 .. l : Append(D(v), x)[k] = D(v)[k]
        /\ Append(D(v), x)[l + 1] = x
    BY <1>3, <1>4, <2>3
  <2>5. \A k \in 1 .. l + 1 : D(av)[k] = Append(D(v), x)[k]
    <3>1. \A k \in 1 .. l + 1 : k = l + 1 \/ k \in 1 .. l
      BY <1>3
    <3> QED BY <2>1, <2>2, <2>4, <3>1
  <2> QED BY ONLY <2>3, <2>4, <2>5, SeqEqual
<1>6. Doubled(av) = FlattenSeq(D(av)) /\ Doubled(v) = FlattenSeq(D(v))
  BY DEF Doubled
<1>7. D(v) \in Seq(Text)
  BY <1>2
<1> HIDE DEF D, x
<1>8. FlattenSeq(Append(D(v), x)) = FlattenSeq(D(v)) \o x
  BY <1>4, <1>7, FlattenAppend DEF Text
<1> QED BY <1>1, <1>5, <1>6, <1>8 DEF av, x

\* A state of the reader in its parts.
At(rs, r, col, mode) == [rows |-> rs, row |-> r, column |-> col, mode |-> mode]

\* How the parts change with a character.
LEMMA ReadingAt ==
    ASSUME NEW rs \in Seq(Row), NEW r \in Row, NEW col \in Text, NEW c \in Char, NEW n
    PROVE  /\ Reading(At(rs, r, col, "quoted"), c, n) = At(rs, r, Append(col, c), IF c = Quot THEN "quot" ELSE "quoted")
           /\ Reading(At(rs, r, col, "quot"), Quot, n) = At(rs, r, Append(col, Quot), "quoted")
           /\ Reading(At(rs, r, col, "start"), Quot, n) = At(rs, r, Append(col, Quot), "quoted")
           /\ \A mode \in {"start", "plain"} :
                 Reading(At(rs, r, col, mode), Other, n) = At(rs, r, Append(col, Other), "plain")
           /\ \A mode \in {"start", "plain", "quot"} :
                 c \in Separators =>
                     Reading(At(rs, r, col, mode), c, n) = Closed(At(rs, r, col, "start"), n)
<1>1. \A m \in Modes : At(rs, r, col, m) \in ReaderState /\ At(rs, r, col, m).mode = m
  BY DEF At, ReaderState
<1>2. \A ch, m, m2 : Into(At(rs, r, col, m), ch, m2) = At(rs, r, Append(col, ch), m2)
  BY DEF At, Into
<1>3. \A m : Closed(At(rs, r, col, m), n) = Closed(At(rs, r, col, "start"), n)
  BY DEF At, Closed
<1>4. Quot \in Char /\ Other \in Char
  BY DEF Char
<1>5. {"start", "plain", "quot", "quoted"} \subseteq Modes \ {"corrupted"}
  BY DEF Modes
<1>6. Reading(At(rs, r, col, "quoted"), c, n) = Into(At(rs, r, col, "quoted"), c, IF c = Quot THEN "quot" ELSE "quoted")
  BY <1>1, <1>5, ReadingInto
<1>7. Reading(At(rs, r, col, "quot"), Quot, n) = Into(At(rs, r, col, "quot"), Quot, "quoted")
  BY <1>1, <1>4, <1>5, ReadingInto
<1>8. Reading(At(rs, r, col, "start"), Quot, n) = Into(At(rs, r, col, "start"), Quot, "quoted")
  BY <1>1, <1>4, <1>5, ReadingInto
<1>9. \A mode \in {"start", "plain"} :
          Reading(At(rs, r, col, mode), Other, n) = Into(At(rs, r, col, mode), Other, "plain")
  BY <1>1, <1>4, <1>5, ReadingInto
<1>10. \A mode \in {"start", "plain", "quot"} :
          c \in Separators => Reading(At(rs, r, col, mode), c, n) = Closed(At(rs, r, col, mode), n)
  BY <1>1, <1>5, ReadingInto
<1> QED BY <1>2, <1>3, <1>4, <1>5, <1>6, <1>7, <1>8, <1>9, <1>10

\* A column of other characters is read as it is.
LEMMA PlainRead ==
    ASSUME NEW rs \in Seq(Row), NEW r \in Row, NEW n, NEW v \in Text, \A k \in DOMAIN v : v[k] = Other
    PROVE  End(At(rs, r, <<>>, "start"), v, n) = At(rs, r, v, IF v = <<>> THEN "start" ELSE "plain")
<1> DEFINE s == At(rs, r, <<>>, "start")
           Mode2(w) == IF w = <<>> THEN "start" ELSE "plain"
           T == {w \in Text : (\A k \in DOMAIN w : w[k] = Other) => End(s, w, n) = At(rs, r, w, Mode2(w))}
<1>1. <<>> \in T
  <2>1. <<>> \in Text
    BY DEF Text
  <2>2. End(s, <<>>, n) = s
    BY <2>1, ReadingLast, Other \in Char DEF Char
  <2> QED BY <2>1, <2>2
<1>2. ASSUME NEW w \in Seq(Char), NEW c \in Char, w \in T PROVE Append(w, c) \in T
  <2> DEFINE a == Append(w, c)
  <2>1. a \in Text /\ w \in Text /\ a # <<>>
    BY DEF Text
  <2> SUFFICES ASSUME \A k \in DOMAIN a : a[k] = Other PROVE End(s, a, n) = At(rs, r, a, "plain")
    BY <2>1
  <2>2. c = Other /\ \A k \in DOMAIN w : w[k] = Other
    <3>1. /\ Len(w) + 1 \in DOMAIN a /\ a[Len(w) + 1] = c
          /\ \A k \in DOMAIN w : k \in DOMAIN a /\ a[k] = w[k]
      OBVIOUS
    <3> HIDE DEF a
    <3> QED BY <3>1
  <2>3. End(s, w, n) = At(rs, r, w, Mode2(w)) /\ Mode2(w) \in {"start", "plain"}
    BY <1>2, <2>2
  <2>4. End(s, a, n) = Reading(End(s, w, n), c, n)
    BY <2>1, ReadingLast
  <2> HIDE DEF s, Mode2
  <2>5. Reading(At(rs, r, w, Mode2(w)), Other, n) = At(rs, r, Append(w, Other), "plain")
    BY <2>1, <2>3, ReadingAt, Other \in Char DEF Char
  <2> QED BY <2>2, <2>3, <2>4, <2>5
<1>3. Text \subseteq T
  <2> HIDE DEF T
  <2> QED BY <1>1, <1>2, AppendInduction DEF Text
<1> QED BY <1>3

\* Texts are put together in any order.
LEMMA Associated == \A t, u, v \in Text : (t \o u) \o v = t \o (u \o v)
BY ConcatAssociative DEF Text

\* A quoted column is read up to where its last quote follows.
LEMMA QuotedRead ==
    ASSUME NEW rs \in Seq(Row), NEW r \in Row, NEW n, NEW v \in Text
    PROVE  End(At(rs, r, <<>>, "start"), <<Quot>> \o Doubled(v), n) = At(rs, r, <<Quot>> \o Doubled(v), "quoted")
<1> DEFINE s == At(rs, r, <<>>, "start")
           T == {w \in Text : End(s, <<Quot>> \o Doubled(w), n) = At(rs, r, <<Quot>> \o Doubled(w), "quoted")}
<1>1. <<>> \in Text /\ Quot \in Char /\ <<Quot>> \in Text
  BY DEF Text, Char
<1>2. <<>> \in T
  <2>1. Doubled(<<>>) = <<>>
    BY <1>1, DoubledLast
  <2>2. <<Quot>> \o <<>> = <<Quot>> /\ Append(<<>>, Quot) = <<Quot>>
    BY <1>1 DEF Text
  <2>3. End(s, <<Quot>>, n) = Reading(s, Quot, n)
    BY <1>1, ReadingOne
  <2>4. Reading(s, Quot, n) = At(rs, r, Append(<<>>, Quot), "quoted")
    <3> DEFINE empty == <<>>
    <3>1. empty \in Text
      BY <1>1
    <3> HIDE DEF empty
    <3>2. Reading(At(rs, r, empty, "start"), Quot, n) = At(rs, r, Append(empty, Quot), "quoted")
      BY <1>1, <3>1, ReadingAt
    <3> QED BY <3>2 DEF empty
  <2> QED BY <1>1, <2>1, <2>2, <2>3, <2>4
<1>3. ASSUME NEW w \in Seq(Char), NEW c \in Char, w \in T PROVE Append(w, c) \in T
  <2> DEFINE a == Append(w, c)
             d == Doubled(w)
             q == <<Quot>> \o d
  <2>1. w \in Text /\ a \in Text
    BY DEF Text
  <2>2. d \in Text /\ Doubled(a) \in Text
    BY <2>1, PrintedType
  <2>3. q \in Text
    BY <1>1, <2>2 DEF Text
  <2>4. End(s, q, n) = At(rs, r, q, "quoted")
    BY <1>3
  <2>5. Doubled(a) = d \o (IF c = Quot THEN <<Quot, Quot>> ELSE <<c>>)
    BY <2>1, DoubledLast
  <2> HIDE DEF a, s, d
  <2>6. CASE c # Quot
    <3> DEFINE x == <<c>>
    <3>1. x \in Text
      BY DEF Text
    <3>2. <<Quot>> \o Doubled(a) = q \o x
      <4>1. Doubled(a) = d \o x
        BY <2>5, <2>6
      <4> HIDE DEF x
      <4>2. (<<Quot>> \o d) \o x = <<Quot>> \o (d \o x)
        BY <1>1, <2>2, <3>1, Associated
      <4> QED BY <4>1, <4>2
    <3> HIDE DEF q
    <3>3. q \o x = Append(q, c)
      BY <2>3 DEF Text
    <3>4. End(s, Append(q, c), n) = Reading(At(rs, r, q, "quoted"), c, n)
      BY <2>3, <2>4, ReadingLast
    <3>5. Reading(At(rs, r, q, "quoted"), c, n) = At(rs, r, Append(q, c), "quoted")
      BY <2>3, <2>6, ReadingAt
    <3>6. End(s, <<Quot>> \o Doubled(a), n) = At(rs, r, <<Quot>> \o Doubled(a), "quoted")
      BY <3>2, <3>3, <3>4, <3>5
    <3> QED BY <2>1, <3>6 DEF a, s
  <2>7. CASE c = Quot
    <3> DEFINE x == <<Quot, Quot>>
               q1 == Append(q, Quot)
    <3>1. x \in Text
      BY <1>1 DEF Text
    <3>2. <<Quot>> \o Doubled(a) = q \o x
      <4>1. Doubled(a) = d \o x
        BY <2>5, <2>7
      <4> HIDE DEF x
      <4>2. (<<Quot>> \o d) \o x = <<Quot>> \o (d \o x)
        BY <1>1, <2>2, <3>1, Associated
      <4> QED BY <4>1, <4>2
    <3> HIDE DEF q
    <3>3. q1 \in Text /\ q \o x = Append(q1, Quot)
      BY <1>1, <2>3 DEF Text
    <3>4. End(s, q1, n) = At(rs, r, q1, "quot")
      <4>1. End(s, q1, n) = Reading(At(rs, r, q, "quoted"), Quot, n)
        BY <1>1, <2>3, <2>4, ReadingLast
      <4>2. Reading(At(rs, r, q, "quoted"), Quot, n) = At(rs, r, q1, "quot")
        BY <1>1, <2>3, ReadingAt
      <4> QED BY <4>1, <4>2
    <3> HIDE DEF q1
    <3>5. End(s, Append(q1, Quot), n) = Reading(At(rs, r, q1, "quot"), Quot, n)
      BY <1>1, <3>3, <3>4, ReadingLast
    <3>6. Reading(At(rs, r, q1, "quot"), Quot, n) = At(rs, r, Append(q1, Quot), "quoted")
      BY <1>1, <3>3, ReadingAt
    <3>7. End(s, <<Quot>> \o Doubled(a), n) = At(rs, r, <<Quot>> \o Doubled(a), "quoted")
      BY <3>2, <3>3, <3>5, <3>6
    <3> QED BY <2>1, <3>7 DEF a, s
  <2> QED BY <2>6, <2>7
<1>4. Text \subseteq T
  <2> HIDE DEF T
  <2> QED BY <1>2, <1>3, AppendInduction DEF Text
<1> QED BY <1>4

\* A printed value is read as a column, up to the separator that follows.
LEMMA ColumnRead ==
    ASSUME NEW rs \in Seq(Row), NEW r \in Row, NEW n, NEW v \in Text, NEW c \in Separators
    PROVE  End(At(rs, r, <<>>, "start"), Append(PrintQuoted(v), c), n) = Closed(At(rs, r, PrintQuoted(v), "start"), n)
<1> DEFINE s == At(rs, r, <<>>, "start")
           p == PrintQuoted(v)
<1>1. p \in Text /\ Doubled(v) \in Text /\ c \in Char /\ Quot \in Char /\ <<Quot>> \in Text
  <2>1. c \in Char /\ Quot \in Char /\ <<Quot>> \in Text
    BY DEF Text, Char, Separators
  <2> QED BY <2>1, PrintedType
<1>2. \E mode \in {"start", "plain", "quot"} : End(s, p, n) = At(rs, r, p, mode)
  <2>1. CASE RequiresQuoting(v)
    <3> DEFINE q == <<Quot>> \o Doubled(v)
    <3>1. q \in Text
      BY <1>1 DEF Text
    <3>2. End(s, q, n) = At(rs, r, q, "quoted")
      BY QuotedRead
    <3>3. p = q \o <<Quot>>
      BY <2>1 DEF PrintQuoted
    <3> HIDE DEF q, p, s
    <3>4. p = Append(q, Quot)
      BY <3>1, <3>3 DEF Text
    <3>5. End(s, Append(q, Quot), n) = Reading(At(rs, r, q, "quoted"), Quot, n)
      BY <1>1, <3>1, <3>2, ReadingLast
    <3>6. Reading(At(rs, r, q, "quoted"), Quot, n) = At(rs, r, Append(q, Quot), "quot")
      BY <1>1, <3>1, ReadingAt
    <3> QED BY <3>4, <3>5, <3>6
  <2>2. CASE ~RequiresQuoting(v)
    <3>1. p = v /\ \A k \in DOMAIN v : v[k] = Other
      BY <2>2 DEF PrintQuoted, RequiresQuoting
    <3>2. End(s, v, n) = At(rs, r, v, IF v = <<>> THEN "start" ELSE "plain")
      BY <3>1, PlainRead
    <3> QED BY <3>1, <3>2
  <2> QED BY <2>1, <2>2
<1> HIDE DEF s, p
<1>3. PICK mode \in {"start", "plain", "quot"} : End(s, p, n) = At(rs, r, p, mode)
  BY <1>2
<1>4. End(s, Append(p, c), n) = Reading(At(rs, r, p, mode), c, n)
  BY <1>1, <1>3, ReadingLast
<1>5. Reading(At(rs, r, p, mode), c, n) = Closed(At(rs, r, p, "start"), n)
  BY <1>1, <1>3, ReadingAt
<1> QED BY <1>4, <1>5 DEF s, p

\* A row as it is printed, column by column.
Printed(row) == [k \in DOMAIN row |-> PrintQuoted(row[k])]

\* It is a row.
LEMMA PrintedRow ==
    ASSUME NEW row \in Row
    PROVE  Printed(row) \in Row /\ Len(Printed(row)) = Len(row) /\ DOMAIN row = 1 .. Len(row)
<1>1. \A k \in 1 .. Len(row) : PrintQuoted(row[k]) \in Text
  BY PrintedType DEF Row
<1>2. Printed(row) = [k \in 1 .. Len(row) |-> PrintQuoted(row[k])] /\ DOMAIN row = 1 .. Len(row)
  BY DEF Printed, Row
<1>3. Len(row) \in Nat
  BY DEF Row
<1> QED BY <1>1, <1>2, <1>3 DEF Row

\* A printed row is read as a row.
LEMMA RowRead ==
    ASSUME NEW rs \in Seq(Row), NEW n \in Nat \ {0}, NEW row \in Row, Len(row) = n
    PROVE  End(At(rs, <<>>, <<>>, "start"), PrintRow(row), n) = At(Append(rs, Printed(row)), <<>>, <<>>, "start")
<1> DEFINE s == At(rs, <<>>, <<>>, "start")
           p == Printed(row)
           sep(k) == IF k = n THEN Newline ELSE Comma
           seqs == [k \in 1 .. n |-> Append(PrintQuoted(row[k]), sep(k))]
           after(k) == IF k = n THEN At(Append(rs, p), <<>>, <<>>, "start") ELSE At(rs, SubSeq(p, 1, k), <<>>, "start")
<1>1. /\ p \in Row /\ Len(p) = n /\ n \in Nat
      /\ \A k \in 1 .. n : row[k] \in Text /\ p[k] = PrintQuoted(row[k]) /\ p[k] \in Text
  <2>1. p \in Row /\ Len(p) = n /\ DOMAIN row = 1 .. n
    BY PrintedRow
  <2>2. \A k \in 1 .. n : row[k] \in Text /\ p[k] = PrintQuoted(row[k])
    BY <2>1 DEF Row, Printed
  <2>3. \A k \in 1 .. n : p[k] \in Text
    BY <2>2, PrintedType
  <2> QED BY <2>1, <2>2, <2>3
<1>2. PrintRow(row) = FlattenSeq(seqs)
  BY PrintedRow DEF PrintRow
<1>3. \A k \in 1 .. n : seqs[k] = Append(PrintQuoted(row[k]), sep(k)) /\ sep(k) \in Separators
  BY DEF Separators
<1>4. seqs \in Seq(Text) /\ Len(seqs) = n
  <2>1. \A k \in 1 .. n : seqs[k] \in Text
    <3> SUFFICES ASSUME NEW k \in 1 .. n PROVE seqs[k] \in Text
      OBVIOUS
    <3>1. PrintQuoted(row[k]) \in Text
      BY <1>1
    <3>2. sep(k) \in Char
      BY DEF Char
    <3>3. seqs[k] = Append(PrintQuoted(row[k]), sep(k))
      BY <1>3
    <3> HIDE DEF seqs, sep
    <3>4. Append(PrintQuoted(row[k]), sep(k)) \in Text
      BY ONLY <3>1, <3>2, AppendProperties DEF Text
    <3> QED BY <3>3, <3>4
  <2>2. seqs = [k \in 1 .. n |-> seqs[k]]
    OBVIOUS
  <2> HIDE DEF seqs
  <2> QED BY <2>1, <2>2
<1> HIDE DEF seqs, p, sep
<1>5. PICK f : Joins(f, seqs) /\ FlattenSeq(seqs) = f[n]
  BY <1>4, FlattenJoins
<1>6. \A k \in 1 .. n : f[k] \in Text /\ seqs[k] \in Text
  <2>1. seqs \in Seq(Seq(Char))
    BY <1>4 DEF Text
  <2>2. \A k \in 1 .. Len(seqs) : f[k] \in Seq(Char)
    BY <1>5, <2>1, JoinsType
  <2> QED BY <1>4, <2>2 DEF Text
<1> DEFINE T == {k \in Nat : k \in 1 .. n => End(s, f[k], n) = after(k)}
<1>7. 0 \in T
  OBVIOUS
<1>8. ASSUME NEW k \in Nat, k \in T PROVE k + 1 \in T
  <2> SUFFICES ASSUME k + 1 \in 1 .. n PROVE End(s, f[k + 1], n) = after(k + 1)
    OBVIOUS
  <2> DEFINE next == k + 1
             part == SubSeq(p, 1, k)
             open == At(rs, part, <<>>, "start")
  <2>1. next \in 1 .. n /\ next - 1 = k /\ (next = 1 <=> k = 0) /\ k \in 0 .. n - 1 /\ (k # 0 => k \in 1 .. n) /\ k # n
    BY <1>1
  <2>2. part \in Row /\ Len(part) = k /\ SubSeq(p, 1, next) = Append(part, p[next])
    <3>1. p \in Seq(Text) /\ k \in 0 .. Len(p) - 1 /\ 1 \in 1 .. k + 1 /\ Len(p) \in Nat
      BY <1>1, <2>1 DEF Row
    <3>2. SubSeq(p, 1, k + 1) = Append(SubSeq(p, 1, k), p[k + 1])
      BY <3>1, SubSeqGrows
    <3>3. 1 \in Nat \ {0} /\ 1 <= k + 1 /\ k <= Len(p) /\ k - 1 + 1 = k
      BY <3>1
    <3>4. SubSeq(p, 1, k) \in Seq(Text) /\ Len(SubSeq(p, 1, k)) = k - 1 + 1
      BY <3>1, <3>3, StretchElements
    <3> QED BY <3>2, <3>3, <3>4 DEF Row
  <2> HIDE DEF next, part
  <2>3. End(s, f[next], n) = End(open, seqs[next], n)
    <3>1. f[next] = JoinedOn(f, seqs, next)
      BY <1>4, <1>5, <2>1 DEF Joins
    <3>2. CASE k = 0
      <4>1. part = <<>>
        BY <3>2, SubSeqEmpty DEF part
      <4>2. f[next] = seqs[next]
        BY <2>1, <3>1, <3>2 DEF JoinedOn
      <4> QED BY <4>1, <4>2
    <3>3. CASE k # 0
      <4>1. f[next] = f[k] \o seqs[next]
        BY <2>1, <3>1, <3>3 DEF JoinedOn
      <4>2. End(s, f[k], n) = open
        BY <1>8, <2>1, <3>3 DEF part
      <4> HIDE DEF s, open
      <4>3. End(s, f[k] \o seqs[next], n) = End(End(s, f[k], n), seqs[next], n)
        BY <1>6, <2>1, <3>3, ReadingOn
      <4> QED BY <4>1, <4>2, <4>3
    <3> QED BY <3>2, <3>3
  <2>4. End(open, seqs[next], n) = Closed(At(rs, part, p[next], "start"), n)
    <3>1. seqs[next] = Append(PrintQuoted(row[next]), sep(next)) /\ sep(next) \in Separators
      BY <1>3, <2>1
    <3>2. row[next] \in Text /\ p[next] = PrintQuoted(row[next])
      BY <1>1, <2>1
    <3> QED BY <2>2, <3>1, <3>2, ColumnRead
  <2>5. Closed(At(rs, part, p[next], "start"), n) = after(next)
    <3> DEFINE closed == Append(part, p[next])
    <3>1. Len(closed) = next /\ SubSeq(p, 1, next) = closed
      <4>1. p[next] \in Text /\ part \in Seq(Text)
        BY <1>1, <2>1, <2>2 DEF Row
      <4> QED BY <2>1, <2>2, <4>1 DEF next
    <3>2. Closed(At(rs, part, p[next], "start"), n) =
              [rows |-> IF Len(closed) = n THEN Append(rs, closed) ELSE rs,
               row |-> IF Len(closed) = n THEN <<>> ELSE closed, column |-> <<>>, mode |-> "start"]
      BY DEF Closed, At
    <3> HIDE DEF closed
    <3>3. CASE next = n
      <4>1. closed = p
        BY <1>1, <3>1, <3>3, SubSeqFull DEF Row
      <4> QED BY <3>1, <3>2, <3>3, <4>1 DEF At
    <3>4. CASE next # n
      BY <3>1, <3>2, <3>4 DEF At
    <3> QED BY <3>3, <3>4
  <2> QED BY <2>3, <2>4, <2>5 DEF next
<1>9. Nat \subseteq T
  <2> HIDE DEF T
  <2> QED BY <1>7, <1>8, NatSetInduction
<1>10. End(s, f[n], n) = after(n)
  <2>1. n \in T /\ n \in 1 .. n
    BY <1>1, <1>9
  <2> QED BY <2>1
<1> QED BY <1>2, <1>5, <1>10 DEF p

\* What is printed of a table is read as its rows.
LEMMA TableRead ==
    ASSUME NEW n \in Nat \ {0}, NEW t \in Seq(Row), t # <<>>, \A k \in DOMAIN t : Len(t[k]) = n
    PROVE  End(Nothing, Printout(t), n).rows = [k \in DOMAIN t |-> Printed(t[k])]
<1> DEFINE l == Len(t)
           p == [k \in DOMAIN t |-> Printed(t[k])]
           seqs == [k \in DOMAIN t |-> PrintRow(t[k])]
           after(k) == At(SubSeq(p, 1, k), <<>>, <<>>, "start")
<1>1. l \in Nat \ {0} /\ DOMAIN t = 1 .. l /\ \A k \in 1 .. l : t[k] \in Row /\ Len(t[k]) = n
  BY EmptySeq
<1>2. p \in Seq(Row) /\ Len(p) = l /\ \A k \in 1 .. l : p[k] = Printed(t[k])
  <2>1. \A k \in 1 .. l : Printed(t[k]) \in Row
    BY <1>1, PrintedRow
  <2> QED BY <1>1, <2>1
<1>3. seqs \in Seq(Text) /\ Len(seqs) = l /\ \A k \in 1 .. l : seqs[k] = PrintRow(t[k])
  <2>1. \A k \in 1 .. l : PrintRow(t[k]) \in Text
    BY <1>1, PrintedType
  <2> QED BY <1>1, <2>1
<1>4. Printout(t) = FlattenSeq(seqs)
  BY DEF Printout
<1>5. Nothing = At(<<>>, <<>>, <<>>, "start")
  BY DEF Nothing, At
<1> HIDE DEF seqs, p, l
<1>6. PICK f : Joins(f, seqs) /\ FlattenSeq(seqs) = f[l]
  BY <1>1, <1>3, FlattenJoins
<1>7. \A k \in 1 .. l : f[k] \in Text /\ seqs[k] \in Text
  <2>1. seqs \in Seq(Seq(Char))
    BY <1>3 DEF Text
  <2>2. \A k \in 1 .. Len(seqs) : f[k] \in Seq(Char)
    BY <1>6, <2>1, JoinsType
  <2> QED BY <1>3, <2>2 DEF Text
<1> DEFINE T == {k \in Nat : k \in 1 .. l => End(Nothing, f[k], n) = after(k)}
<1>8. 0 \in T
  OBVIOUS
<1>9. ASSUME NEW k \in Nat, k \in T PROVE k + 1 \in T
  <2> SUFFICES ASSUME k + 1 \in 1 .. l PROVE End(Nothing, f[k + 1], n) = after(k + 1)
    OBVIOUS
  <2> DEFINE next == k + 1
             part == SubSeq(p, 1, k)
             open == At(part, <<>>, <<>>, "start")
  <2>1. next \in 1 .. l /\ next - 1 = k /\ (next = 1 <=> k = 0) /\ k \in 0 .. l - 1 /\ (k # 0 => k \in 1 .. l)
    BY <1>1
  <2>2. part \in Seq(Row) /\ SubSeq(p, 1, next) = Append(part, p[next])
    <3>1. k \in 0 .. Len(p) - 1 /\ 1 \in 1 .. k + 1 /\ Len(p) \in Nat
      BY <1>1, <1>2, <2>1
    <3>2. SubSeq(p, 1, k + 1) = Append(SubSeq(p, 1, k), p[k + 1])
      BY <1>2, <3>1, SubSeqGrows
    <3>3. 1 \in Nat \ {0} /\ 1 <= k + 1 /\ k <= Len(p)
      BY <3>1
    <3>4. SubSeq(p, 1, k) \in Seq(Row)
      BY <1>2, <3>1, <3>3, StretchElements
    <3> QED BY <3>2, <3>4
  <2> HIDE DEF next, part
  <2>3. End(Nothing, f[next], n) = End(open, seqs[next], n)
    <3>1. f[next] = JoinedOn(f, seqs, next)
      BY <1>3, <1>6, <2>1 DEF Joins
    <3>2. CASE k = 0
      <4>1. part = <<>>
        BY <3>2, SubSeqEmpty DEF part
      <4>2. f[next] = seqs[next]
        BY <2>1, <3>1, <3>2 DEF JoinedOn
      <4> QED BY <1>5, <4>1, <4>2
    <3>3. CASE k # 0
      <4>1. f[next] = f[k] \o seqs[next]
        BY <2>1, <3>1, <3>3 DEF JoinedOn
      <4>2. End(Nothing, f[k], n) = open
        BY <1>9, <2>1, <3>3 DEF part
      <4> HIDE DEF open
      <4>3. End(Nothing, f[k] \o seqs[next], n) = End(End(Nothing, f[k], n), seqs[next], n)
        BY <1>7, <2>1, <3>3, ReadingOn
      <4> QED BY <4>1, <4>2, <4>3
    <3> QED BY <3>2, <3>3
  <2>4. End(open, seqs[next], n) = At(Append(part, p[next]), <<>>, <<>>, "start")
    <3>1. t[next] \in Row /\ Len(t[next]) = n /\ seqs[next] = PrintRow(t[next]) /\ p[next] = Printed(t[next])
      BY <1>1, <1>2, <1>3, <2>1
    <3> QED BY <2>2, <3>1, RowRead
  <2>5. End(Nothing, f[next], n) = At(SubSeq(p, 1, next), <<>>, <<>>, "start")
    BY <2>2, <2>3, <2>4
  <2> QED BY <2>5 DEF next
<1>10. Nat \subseteq T
  <2> HIDE DEF T
  <2> QED BY <1>8, <1>9, NatSetInduction
<1>11. End(Nothing, f[l], n) = after(l)
  <2>1. l \in T /\ l \in 1 .. l
    BY <1>1, <1>10
  <2> QED BY <2>1
<1>12. SubSeq(p, 1, l) = p
  BY <1>2, SubSeqFull
<1> QED BY <1>4, <1>6, <1>11, <1>12 DEF At, p

\* One turn of the loop of csv_unquot.
Copied(before, c) ==
    IF before.skip THEN [before EXCEPT !.skip = FALSE]
    ELSE [text |-> Append(before.text, c), skip |-> c = Quot]

\* What the loop has made of the string, character by character.
LEMMA UnquotByStep ==
    ASSUME NEW str \in Text, NEW l \in Nat \ {0, 1}, Len(str) = l
    PROVE  \E f : /\ f[1] = [text |-> <<>>, skip |-> FALSE]
                  /\ \A k \in 2 .. l - 1 : f[k] = Copied(f[k - 1], str[k])
                  /\ Unquot(str) = f[l - 1].text
<1> DEFINE G(f, k) == IF k = 1 THEN [text |-> <<>>, skip |-> FALSE]
                      ELSE IF k = l THEN f[k - 1] ELSE Copied(f[k - 1], str[k])
           Upto(f, m) == [k \in 1 .. m |-> G(f, k)]
           T == {m \in Nat : \E f : f = Upto(f, m)}
<1>1. 0 \in T
  <2>1. <<>> = Upto(<<>>, 0)
    OBVIOUS
  <2> HIDE DEF Upto
  <2> QED BY <2>1
<1>2. ASSUME NEW m \in Nat, m \in T PROVE m + 1 \in T
  <2>1. PICK f : f = Upto(f, m)
    BY <1>2
  <2> DEFINE last == G(f, m + 1)
             g == [k \in 1 .. m + 1 |-> IF k <= m THEN f[k] ELSE last]
  <2>2. \A k \in 1 .. m + 1 : g[k] = G(g, k)
    <3> TAKE k \in 1 .. m + 1
    <3>1. k # 1 => k - 1 \in 1 .. m /\ k - 1 <= m
      OBVIOUS
    <3>2. CASE k <= m
      <4>1. f[k] = G(f, k)
        <5>1. Upto(f, m)[k] = G(f, k)
          BY <3>2
        <5> HIDE DEF Upto, G
        <5> QED BY <2>1, <5>1
      <4>2. k # 1 => g[k - 1] = f[k - 1]
        BY <3>1, <3>2
      <4>3. g[k] = f[k]
        BY <3>2
      <4> HIDE DEF g
      <4> QED BY <4>1, <4>2, <4>3
    <3>3. CASE k = m + 1
      <4>1. k # 1 => g[k - 1] = f[k - 1]
        BY <3>1, <3>3
      <4>2. g[k] = G(f, k)
        BY <3>3
      <4> HIDE DEF g
      <4> QED BY <4>1, <4>2
    <3> QED BY <3>2, <3>3
  <2>3. g = Upto(g, m + 1)
    <3>1. g = [k \in 1 .. m + 1 |-> g[k]]
      OBVIOUS
    <3> HIDE DEF g, G
    <3> QED BY <2>2, <3>1
  <2> HIDE DEF g, Upto
  <2> QED BY <2>3
<1>3. l \in T
  <2> HIDE DEF T
  <2> QED BY <1>1, <1>2, NatSetInduction
<1> DEFINE F == CHOOSE f : f = Upto(f, l)
<1>4. F = Upto(F, l)
  <2>1. \E f : f = Upto(f, l)
    BY <1>3
  <2> HIDE DEF Upto
  <2> QED BY <2>1
<1>5. Unquot(str) = F[l].text
  <2>1. DOMAIN str = 1 .. l
    BY DEF Text
  <2> QED BY <2>1 DEF Unquot, Copied
<1> HIDE DEF F
<1>6. \A k \in 1 .. l : F[k] = G(F, k)
  <2> TAKE k \in 1 .. l
  <2>1. Upto(F, l)[k] = G(F, k)
    OBVIOUS
  <2> HIDE DEF Upto, G
  <2> QED BY <1>4, <2>1
<1> HIDE DEF Upto
<1>7. F[1] = [text |-> <<>>, skip |-> FALSE]
  BY <1>6
<1>8. F[l] = F[l - 1]
  BY <1>6
<1>9. \A k \in 2 .. l - 1 : F[k] = Copied(F[k - 1], str[k])
  <2> SUFFICES ASSUME NEW k \in 2 .. l - 1 PROVE F[k] = Copied(F[k - 1], str[k])
    OBVIOUS
  <2>1. k \in 1 .. l /\ k # 1 /\ k # l
    OBVIOUS
  <2> QED BY <1>6, <2>1
<1> QED BY <1>5, <1>7, <1>8, <1>9

\* A new flag leaves the text.
LEMMA SkipSet ==
    ASSUME NEW C, NEW D, NEW s \in [text : C, skip : D], NEW x \in D
    PROVE  [s EXCEPT !.skip = x] = [text |-> s.text, skip |-> x]
OBVIOUS

\* A doubled string is copied with every second quote left out.
LEMMA DoubledCopied ==
    ASSUME NEW v \in Text, NEW g, g[1] = [text |-> <<>>, skip |-> FALSE],
           \A k \in 1 .. Len(Doubled(v)) : g[k + 1] = Copied(g[k], Doubled(v)[k])
    PROVE  g[Len(Doubled(v)) + 1] = [text |-> v, skip |-> FALSE]
<1> DEFINE Follows(f, w) == /\ f[1] = [text |-> <<>>, skip |-> FALSE]
                            /\ \A k \in 1 .. Len(Doubled(w)) : f[k + 1] = Copied(f[k], Doubled(w)[k])
           T == {w \in Text : \A f : Follows(f, w) => f[Len(Doubled(w)) + 1] = [text |-> w, skip |-> FALSE]}
<1>1. <<>> \in T
  <2>1. <<>> \in Text /\ Quot \in Char
    BY DEF Text, Char
  <2>2. Doubled(<<>>) = <<>>
    BY <2>1, DoubledLast
  <2>3. Len(Doubled(<<>>)) + 1 = 1
    BY <2>2
  <2> QED BY <2>1, <2>3
<1>2. ASSUME NEW w \in Seq(Char), NEW c \in Char, w \in T PROVE Append(w, c) \in T
  <2> DEFINE a == Append(w, c)
             d == Doubled(w)
             x == IF c = Quot THEN <<Quot, Quot>> ELSE <<c>>
             l == Len(d)
  <2>1. a \in Text /\ w \in Text
    BY DEF Text
  <2> SUFFICES ASSUME NEW f, Follows(f, a) PROVE f[Len(Doubled(a)) + 1] = [text |-> a, skip |-> FALSE]
    BY <2>1
  <2>2. d \in Text /\ Doubled(a) = d \o x
    BY <2>1, PrintedType, DoubledLast
  <2>3. x \in Text /\ Len(x) = (IF c = Quot THEN 2 ELSE 1) /\ x[1] = c /\ (c = Quot => x[2] = Quot)
    <3>1. Quot \in Char
      BY DEF Char
    <3>2. <<c>> \in Text /\ <<Quot, Quot>> \in Text
      BY <3>1 DEF Text
    <3> QED BY <3>2
  <2> HIDE DEF x, d, a
  <2>4. /\ l \in Nat /\ Len(Doubled(a)) = l + Len(x)
        /\ \A k \in 1 .. l : Doubled(a)[k] = d[k]
        /\ \A k \in 1 .. Len(x) : Doubled(a)[l + k] = x[k]
    <3>1. /\ Len(d \o x) = Len(d) + Len(x)
          /\ \A k \in 1 .. Len(d) + Len(x) : (d \o x)[k] = IF k <= Len(d) THEN d[k] ELSE x[k - Len(d)]
      BY <2>2, <2>3, ConcatProperties DEF Text
    <3>2. l \in Nat /\ Len(x) \in Nat
      BY <2>2, <2>3 DEF Text
    <3>3. /\ \A k \in 1 .. l : k \in 1 .. l + Len(x) /\ k <= l
          /\ \A k \in 1 .. Len(x) : l + k \in 1 .. l + Len(x) /\ ~(l + k <= l) /\ l + k - l = k
      BY ONLY <3>2
    <3> QED BY <2>2, <3>1, <3>2, <3>3
  <2> HIDE DEF l
  <2>5. f[l + 1] = [text |-> w, skip |-> FALSE]
    <3>1. \A k \in 1 .. l : k \in 1 .. Len(Doubled(a))
      BY <2>3, <2>4
    <3>2. Follows(f, w)
      BY <2>4, <3>1 DEF d, l
    <3> HIDE DEF Follows
    <3> QED BY <1>2, <3>2 DEF d, l
  <2> DEFINE m == l + 1
  <2>6. m \in 1 .. Len(Doubled(a)) /\ Doubled(a)[m] = c
    <3>1. 1 \in 1 .. Len(x) /\ m \in 1 .. l + Len(x)
      BY <2>3, <2>4
    <3> QED BY <2>3, <2>4, <3>1
  <2>7. f[m + 1] = Copied(f[m], c)
    BY <2>6
  <2>8. f[m + 1] = [text |-> a, skip |-> c = Quot]
    BY <2>5, <2>7 DEF Copied, a
  <2>9. CASE c # Quot
    <3>1. Len(Doubled(a)) = m
      BY <2>3, <2>4, <2>9
    <3>2. (c = Quot) = FALSE
      BY <2>9
    <3> QED BY <2>8, <3>1, <3>2
  <2>10. CASE c = Quot
    <3> DEFINE next == m + 1
    <3>1. next \in 1 .. Len(Doubled(a)) /\ Len(Doubled(a)) = next
      BY <2>3, <2>4, <2>10
    <3>2. f[next] = [text |-> a, skip |-> TRUE]
      BY <2>8, <2>10
    <3> HIDE DEF next, m
    <3>3. f[next + 1] = Copied(f[next], Doubled(a)[next])
      BY <3>1
    <3>4. f[next + 1] = [text |-> a, skip |-> FALSE]
      <4> DEFINE before == [text |-> a, skip |-> TRUE]
      <4>1. before \in [text : Text, skip : BOOLEAN] /\ before.text = a /\ before.skip
        BY <2>1 DEF a
      <4> HIDE DEF before
      <4>2. [before EXCEPT !.skip = FALSE] = [text |-> before.text, skip |-> FALSE]
        <5> DEFINE off == FALSE
                   B == BOOLEAN
        <5>1. off \in B /\ before \in [text : Text, skip : B]
          BY <4>1
        <5> HIDE DEF off, B
        <5>2. [before EXCEPT !.skip = off] = [text |-> before.text, skip |-> off]
          BY <5>1, SkipSet
        <5> QED BY <5>2 DEF off
      <4>3. f[next + 1] = [before EXCEPT !.skip = FALSE]
        BY <3>2, <3>3, <4>1 DEF Copied, before
      <4> QED BY <4>1, <4>2, <4>3
    <3> QED BY <3>1, <3>4
  <2> QED BY <2>9, <2>10
<1>3. Text \subseteq T
  <2> HIDE DEF T
  <2> QED BY <1>1, <1>2, AppendInduction DEF Text
<1> QED BY <1>3

\* Every value is what its printed form stands for.
LEMMA PrintedValue == \A v \in Text : Value(PrintQuoted(v)) = v
<1> SUFFICES ASSUME NEW v \in Text PROVE Value(PrintQuoted(v)) = v
  OBVIOUS
<1>1. CASE ~RequiresQuoting(v)
  <2>1. PrintQuoted(v) = v /\ \A k \in DOMAIN v : v[k] = Other
    BY <1>1 DEF PrintQuoted, RequiresQuoting
  <2>2. v # <<>> => 1 \in DOMAIN v
    BY EmptySeq DEF Text
  <2> QED BY <2>1, <2>2 DEF Value, Other, Quot
<1>2. CASE RequiresQuoting(v)
  <2> DEFINE d == Doubled(v)
             q == <<Quot>> \o d
             str == q \o <<Quot>>
             m == Len(d)
             l == m + 2
  <2>1. d \in Text /\ <<Quot>> \in Text /\ q \in Text /\ str \in Text
    <3>1. d \in Text
      BY PrintedType
    <3>2. <<Quot>> \in Text
      BY DEF Text, Char
    <3> HIDE DEF d
    <3> QED BY <3>1, <3>2 DEF Text
  <2>2. PrintQuoted(v) = str
    BY <1>2 DEF PrintQuoted
  <2> HIDE DEF d
  <2>3. m \in Nat /\ l \in Nat \ {0, 1} /\ Len(str) = l /\ str[1] = Quot /\ \A k \in 1 .. m : str[k + 1] = d[k]
    <3>1. m \in Nat /\ l \in Nat \ {0, 1}
      BY <2>1 DEF Text
    <3>2. Len(q) = m + 1 /\ q[1] = Quot /\ \A k \in 1 .. m : q[k + 1] = d[k]
      BY <2>1 DEF Text
    <3> HIDE DEF q
    <3>3. Len(str) = m + 1 + 1 /\ \A k \in 1 .. m + 1 : str[k] = q[k]
      BY <2>1, <3>1, <3>2 DEF Text
    <3> HIDE DEF str
    <3>4. 1 \in 1 .. m + 1 /\ \A k \in 1 .. m : k + 1 \in 1 .. m + 1
      BY <3>1
    <3> QED BY <3>1, <3>2, <3>3, <3>4
  <2> HIDE DEF str, m, l
  <2>4. PICK f : /\ f[1] = [text |-> <<>>, skip |-> FALSE]
                 /\ \A k \in 2 .. l - 1 : f[k] = Copied(f[k - 1], str[k])
                 /\ Unquot(str) = f[l - 1].text
    BY <2>1, <2>3, UnquotByStep
  <2>5. \A k \in 1 .. m : f[k + 1] = Copied(f[k], d[k])
    <3> SUFFICES ASSUME NEW k \in 1 .. m PROVE f[k + 1] = Copied(f[k], d[k])
      OBVIOUS
    <3> DEFINE next == k + 1
    <3>1. next \in 2 .. l - 1 /\ next - 1 = k /\ str[next] = d[k]
      BY <2>3 DEF l
    <3> HIDE DEF next
    <3>2. f[next] = Copied(f[k], d[k])
      BY <2>4, <3>1
    <3> QED BY <3>2 DEF next
  <2>6. f[m + 1] = [text |-> v, skip |-> FALSE]
    BY <2>4, <2>5, DoubledCopied DEF d, m
  <2>7. l - 1 = m + 1
    BY <2>3 DEF l
  <2>8. Unquot(str) = v
    BY <2>4, <2>6, <2>7
  <2>9. str # <<>>
    BY <2>3
  <2> QED BY <2>2, <2>3, <2>8, <2>9 DEF Value
<1> QED BY <1>1, <1>2

\* What csv_print_quoted and csv_print_line write of a table, csv_read_all reads, and
\* csv_unquot gives the values back.
THEOREM ParserRoundTrip == Spec => []RoundTrip
<1>1. IInv => RoundTrip
  <2> SUFFICES ASSUME IInv, table # <<>>, ret = AtEnd
               PROVE  /\ rows # <<>>
                      /\ table = [r \in DOMAIN rows |-> [k \in DOMAIN rows[r] |-> Value(rows[r][k])]]
    BY DEF RoundTrip
  <2>1. /\ text = Printout(table) /\ table \in Seq(Row) /\ nheaders \in Nat \ {0}
        /\ \A k \in DOMAIN table : Len(table[k]) = nheaders
    BY Facts DEF Inputs, Row, Text
  <2>2. rows = End(Nothing, Printout(table), nheaders).rows
    BY <2>1 DEF IInv, Result, Reader, End
  <2>3. rows = [r \in DOMAIN table |-> Printed(table[r])]
    BY <2>1, <2>2, TableRead
  <2>4. DOMAIN table = 1 .. Len(table) /\ Len(table) \in Nat \ {0}
    BY <2>1, EmptySeq
  <2>5. DOMAIN rows = DOMAIN table /\ \A r \in DOMAIN table : rows[r] = Printed(table[r])
    BY <2>3
  <2>6. rows # <<>>
    <3>1. 1 \in DOMAIN rows
      BY <2>4, <2>5
    <3> QED BY <3>1
  <2>7. ASSUME NEW r \in DOMAIN table
        PROVE  table[r] = [k \in DOMAIN rows[r] |-> Value(rows[r][k])]
    <3> DEFINE v == table[r]
    <3>1. v \in Row
      BY <2>1
    <3>2. rows[r] = Printed(v)
      BY <2>5
    <3> HIDE DEF v
    <3>3. DOMAIN Printed(v) = DOMAIN v /\ \A k \in DOMAIN v : Printed(v)[k] = PrintQuoted(v[k])
      BY DEF Printed
    <3>4. \A k \in DOMAIN v : v[k] \in Text
      BY <3>1 DEF Row
    <3>5. \A k \in DOMAIN v : Value(Printed(v)[k]) = v[k]
      BY <3>3, <3>4, PrintedValue
    <3>6. v = [k \in DOMAIN v |-> v[k]]
      BY <3>1 DEF Row
    <3>7. v = [k \in DOMAIN Printed(v) |-> Value(Printed(v)[k])]
      BY <3>3, <3>5, <3>6
    <3> QED BY <3>2, <3>7 DEF v
  <2>8. table = [r \in DOMAIN rows |-> table[r]]
    BY <2>1, <2>4, <2>5
  <2>9. table = [r \in DOMAIN rows |-> [k \in DOMAIN rows[r] |-> Value(rows[r][k])]]
    BY <2>5, <2>7, <2>8
  <2> QED BY <2>6, <2>9
<1> QED BY <1>1, ParserInvariant, PTL
=============================================================================
