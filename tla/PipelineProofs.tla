--------------------------- MODULE PipelineProofs ---------------------------
(***************************************************************************)
(* csv-exec and its commands, which read the same standard input, then     *)
(* csv-show and csv-peek, which show what another process printed: for any *)
(* stream, any sizes of the pipes and of the buffers, whoever ends or is   *)
(* killed early, and however the processes take turns.                     *)
(***************************************************************************)
EXTENDS Pipeline, SeqLemmas, FiniteSetTheorems, TLAPS

-----------------------------------------------------------------------------
(* The invariant *)

\* The pieces of the stream
Piece == Range(job.stream)

Contexts == [file : Seq(Piece), buf : Seq(Piece), buflen : Nat, eof : BOOLEAN]

\* Types, as far as they are needed here
Typed ==
    /\ job \in Jobs
    /\ DOMAIN pc = Procs /\ DOMAIN status = Procs
    /\ readers \in [Pipes -> SUBSET Procs] /\ writers \in [Pipes -> SUBSET Procs]
    /\ data \in [Pipes -> Seq(Piece)] /\ pend \in [Pipes -> Seq(Piece)] /\ due \in [Pipes -> Int]
    /\ \A p \in Pipes : due[p] <= Len(pend[p])
    /\ left \in Seq(Piece)
    /\ ctx \in [Procs -> Contexts]
    /\ got \in [Procs -> Seq(Seq(Piece))]
    /\ results \in Seq({0, 1, Killed})

\* The other processes are not there.
Alone ==
    /\ pc["show"] = "none" /\ pc["peek"] = "none" /\ pc["down"] = "none"
    /\ \A p \in Pipes \ {"in"} : pend[p] = <<>>

\* How many pieces the source has written, and those that wait in a buffer or in
\* the pipe, as parts of the stream
Written == Len(job.stream) - Len(left) - Len(pend["in"])
Follows(pieces, n) == \A i \in 1 .. Len(pieces) : pieces[i] = job.stream[n + i]
InOrder ==
    /\ Passed \in Nat
    /\ Follows(left, Written + Len(pend["in"]))
    /\ Follows(pend["in"], Written)
    /\ Follows(data["in"], Passed)

\* The source keeps its end of the pipe until it ends.
SourceHolds ==
    /\ pc["source"] \in {"run", "exiting", "ended"}
    /\ pc["source"] # "ended" => "source" \in writers["in"]

\* What csv-exec has read, and what it has made of it: rows, and what its buffers hold
Rows == got["exec"]
Had == FlattenSeq(Rows) \o (Buf("exec") \o ctx["exec"].file)
Whole(rows) == Parsed(FlattenSeq(rows)) = [rows |-> rows, part |-> <<>>, bad |-> FALSE]
HadRight ==
    /\ taken \subseteq 1 .. Passed
    /\ Had = Untaken[Passed]
    /\ Whole(Rows)
    /\ ctx["exec"].eof => ctx["exec"].file = <<>> /\ Closed("in")
    /\ Len(Buf("exec")) <= ctx["exec"].buflen
    /\ pc["exec"] = "header" => Rows = <<>> /\ Buf("exec") = <<>> /\ taken = {}

\* No command has failed, but for the last one perhaps.
Good == \A i \in DOMAIN results : results[i] = 0
GoodButLast == \A i \in DOMAIN results : i # Len(results) => results[i] = 0

\* What was left over when csv-exec stopped
Finished == ctx["exec"].eof /\ ~HasRow("exec") /\ \A i \in DOMAIN Buf("exec") : ~Buf("exec")[i].bad
Stuck == \E i \in DOMAIN NextRowOf("exec") : NextRowOf("exec")[i].bad

\* How far csv-exec has come, and how its commands have ended
Stages ==
    \/ /\ pc["exec"] = "header" /\ status["exec"] = Running /\ pc["command"] = "none"
       /\ results = <<>>
    \/ /\ pc["exec"] = "read" /\ status["exec"] = Running /\ pc["command"] \in {"none", "ended"}
       /\ Len(results) = Len(Rows) - 1 /\ Good
    \/ /\ pc["exec"] = "wait" /\ status["exec"] = Running /\ pc["command"] = "run"
       /\ Len(results) = Len(Rows) - 2 /\ Good
    \/ /\ pc["exec"] = "wait" /\ status["exec"] = Running /\ pc["command"] = "ended"
       /\ Len(results) = Len(Rows) - 1 /\ Len(Rows) > 1 /\ GoodButLast
    \/ /\ pc["exec"] \in {"exiting", "ended"} /\ pc["command"] \in {"none", "ended"}
       /\ \/ status["exec"] = 0 /\ Finished /\ Len(results) = Len(Rows) - 1 /\ Good
          \/ status["exec"] = 2 /\ Rows = <<>> /\ results = <<>>
          \/ status["exec"] = 2 /\ Stuck /\ Len(results) = Len(Rows) - 1 /\ Good
          \/ /\ status["exec"] \in {3, 4} /\ Len(results) = Len(Rows) - 1 /\ Len(Rows) > 1 /\ GoodButLast
             /\ Last(results) # 0 /\ (Last(results) = Killed) = (status["exec"] = 4)

ExecInv == Is("exec") => Typed /\ Alone /\ InOrder /\ SourceHolds /\ HadRight /\ Stages

-----------------------------------------------------------------------------
(* What Parsed() makes of a stream that goes on *)

\* The pieces are parsed one after the other.
LEMMA ParsingByStep ==
    ASSUME NEW pieces, Len(pieces) \in Nat
    PROVE  \E f : /\ f[0] = Unparsed
                  /\ \A k \in 1 .. Len(pieces) : f[k] = Parsing(f[k - 1], pieces[k])
                  /\ Parsed(pieces) = f[Len(pieces)]
<1> DEFINE l == Len(pieces)
           G(f, k) == IF k = 0 THEN Unparsed ELSE Parsing(f[k - 1], pieces[k])
           Upto(f, m) == [k \in 0 .. m |-> G(f, k)]
           T == {m \in Nat : \E f : f = Upto(f, m)}
<1>1. 0 \in T
  <2> DEFINE f == [k \in 0 .. 0 |-> Unparsed]
  <2>1. f = Upto(f, 0)
    OBVIOUS
  <2> HIDE DEF f, Upto
  <2> QED BY <2>1
<1>2. ASSUME NEW m \in Nat, m \in T PROVE m + 1 \in T
  <2>1. PICK f : f = Upto(f, m)
    BY <1>2
  <2> DEFINE last == G(f, m + 1)
             g == [k \in 0 .. m + 1 |-> IF k <= m THEN f[k] ELSE last]
  <2>2. \A k \in 0 .. m + 1 : g[k] = G(g, k)
    <3> TAKE k \in 0 .. m + 1
    <3>1. k # 0 => k - 1 \in 0 .. m /\ k - 1 <= m /\ k - 1 \in 0 .. m + 1
      OBVIOUS
    <3>2. k # 0 => g[k - 1] = f[k - 1]
      BY <3>1
    <3>3. G(g, k) = G(f, k)
      <4> HIDE DEF g
      <4> QED BY <3>2
    <3>4. CASE k <= m
      <4>1. f[k] = G(f, k)
        <5>1. Upto(f, m)[k] = G(f, k)
          BY <3>4
        <5> HIDE DEF Upto, G
        <5> QED BY <2>1, <5>1
      <4>2. g[k] = f[k]
        BY <3>4
      <4> HIDE DEF g, G
      <4> QED BY <3>3, <4>1, <4>2
    <3>5. CASE k = m + 1
      <4>1. g[k] = last
        BY <3>5
      <4>2. last = G(f, k)
        BY <3>5
      <4> HIDE DEF g, G, last
      <4> QED BY <3>3, <4>1, <4>2
    <3> QED BY <3>4, <3>5
  <2>3. g = Upto(g, m + 1)
    <3>1. g = [k \in 0 .. m + 1 |-> g[k]]
      OBVIOUS
    <3> HIDE DEF g, G
    <3> QED BY <2>2, <3>1
  <2> HIDE DEF g, Upto
  <2> QED BY <2>3
<1>3. l \in T
  <2> HIDE DEF T
  <2> QED BY <1>1, <1>2, NatSetInduction
<1> DEFINE F == CHOOSE f : f = Upto(f, l)
<1>4. F = Upto(F, l)
  <2>1. \E f : f = Upto(f, l)
    BY <1>3
  <2> HIDE DEF Upto
  <2> QED BY <2>1
<1>5. Parsed(pieces) = F[l]
  BY DEF Parsed
<1> HIDE DEF F
<1>6. \A k \in 0 .. l : F[k] = G(F, k)
  <2> TAKE k \in 0 .. l
  <2>1. Upto(F, l)[k] = G(F, k)
    OBVIOUS
  <2> HIDE DEF Upto, G
  <2> QED BY <1>4, <2>1
<1> HIDE DEF Upto
<1>7. F[0] = Unparsed
  BY <1>6
<1>8. \A k \in 1 .. l : F[k] = Parsing(F[k - 1], pieces[k])
  BY <1>6
<1> QED BY <1>5, <1>7, <1>8

\* One more piece
LEMMA ParsedAppend ==
    ASSUME NEW S, NEW w \in Seq(S), NEW e \in S
    PROVE  Parsed(Append(w, e)) = Parsing(Parsed(w), e)
<1> DEFINE v == Append(w, e)
           l == Len(w)
<1>1. l \in Nat /\ Len(v) = l + 1 /\ v[l + 1] = e /\ \A k \in 1 .. l : v[k] = w[k]
  OBVIOUS
<1> HIDE DEF v
<1>2. PICK f : /\ f[0] = Unparsed
               /\ \A k \in 1 .. l : f[k] = Parsing(f[k - 1], w[k])
               /\ Parsed(w) = f[l]
  BY <1>1, ParsingByStep
<1>3. PICK g : /\ g[0] = Unparsed
               /\ \A k \in 1 .. l + 1 : g[k] = Parsing(g[k - 1], v[k])
               /\ Parsed(v) = g[l + 1]
  <2>1. Len(v) \in Nat
    BY <1>1
  <2> QED BY <1>1, <2>1, ParsingByStep
<1> DEFINE T == {k \in Nat : k <= l => g[k] = f[k]}
<1>4. 0 \in T
  BY <1>2, <1>3
<1>5. ASSUME NEW k \in Nat, k \in T PROVE k + 1 \in T
  <2> SUFFICES ASSUME k + 1 <= l PROVE g[k + 1] = f[k + 1]
    OBVIOUS
  <2>1. k + 1 \in 1 .. l /\ k + 1 \in 1 .. l + 1 /\ (k + 1) - 1 = k /\ k <= l
    BY <1>1
  <2>2. g[k] = f[k]
    BY <1>5, <2>1
  <2>3. g[k + 1] = Parsing(g[k], v[k + 1]) /\ f[k + 1] = Parsing(f[k], w[k + 1])
    BY <1>2, <1>3, <2>1
  <2> QED BY <1>1, <2>1, <2>2, <2>3
<1>6. l \in T
  <2> HIDE DEF T
  <2> QED BY <1>1, <1>4, <1>5, NatSetInduction
<1>7. g[l + 1] = Parsing(g[l], v[l + 1])
  <2>1. l + 1 \in 1 .. l + 1 /\ (l + 1) - 1 = l
    BY <1>1
  <2> QED BY <1>3, <2>1
<1>8. g[l] = f[l]
  BY <1>1, <1>6
<1> QED BY <1>1, <1>2, <1>3, <1>7, <1>8 DEF v

LEMMA ParsedNothing == Parsed(<<>>) = Unparsed
<1>1. Len(<<>>) = 0 /\ Len(<<>>) \in Nat
  OBVIOUS
<1> QED BY <1>1, ParsingByStep

\* A result has its parts, and rows are rows.
LEMMA ParsedType ==
    ASSUME NEW S
    PROVE  \A w \in Seq(S) : /\ Parsed(w) = [rows |-> Parsed(w).rows, part |-> Parsed(w).part, bad |-> Parsed(w).bad]
                             /\ Parsed(w).rows \in Seq(Seq(S)) /\ Parsed(w).part \in Seq(S)
<1> DEFINE Fine(s) == /\ s = [rows |-> s.rows, part |-> s.part, bad |-> s.bad]
                      /\ s.rows \in Seq(Seq(S)) /\ s.part \in Seq(S)
           T == {w \in Seq(S) : Fine(Parsed(w))}
<1>1. Fine(Unparsed)
  BY DEF Unparsed
<1>2. ASSUME NEW s, NEW e \in S, Fine(s) PROVE Fine(Parsing(s, e))
  <2>1. Append(s.part, e) \in Seq(S)
    BY <1>2
  <2>2. Append(s.rows, Append(s.part, e)) \in Seq(Seq(S))
    BY <1>2, <2>1
  <2>3. <<>> \in Seq(S)
    OBVIOUS
  <2> QED BY <1>2, <2>1, <2>2, <2>3 DEF Parsing
<1>3. <<>> \in T
  BY <1>1, ParsedNothing
<1>4. \A w \in Seq(S), e \in S : w \in T => Append(w, e) \in T
  <2> HIDE DEF Fine
  <2> QED BY <1>2, ParsedAppend
<1>5. Seq(S) \subseteq T
  <2> HIDE DEF T
  <2> QED BY <1>3, <1>4, AppendInduction
<1> QED BY <1>5

\* What follows adds rows at the end, and what was no row stays none.
LEMMA ParsedGoesOn ==
    ASSUME NEW S, NEW a \in Seq(S)
    PROVE  \A b \in Seq(S) : /\ IsPrefix(Parsed(a).rows, Parsed(a \o b).rows)
                             /\ Parsed(a).bad => Parsed(a \o b).bad
<1> DEFINE T == {b \in Seq(S) : /\ IsPrefix(Parsed(a).rows, Parsed(a \o b).rows)
                                /\ Parsed(a).bad => Parsed(a \o b).bad}
           R == Seq(S)
<1>1. Parsed(a).rows \in Seq(R)
  BY ParsedType
<1>2. <<>> \in T
  <2>1. a \o <<>> = a /\ <<>> \in Seq(S)
    OBVIOUS
  <2>2. IsPrefix(Parsed(a).rows, Parsed(a).rows)
    <3>1. <<>> \in R
      OBVIOUS
    <3> HIDE DEF R
    <3> QED BY <1>1, <3>1, PrefixOrder
  <2> QED BY <2>1, <2>2
<1>3. ASSUME NEW w \in Seq(S), NEW e \in S, w \in T PROVE Append(w, e) \in T
  <2> DEFINE s == Parsed(a \o w)
             t == Parsed(a \o Append(w, e))
  <2>1. a \o Append(w, e) = Append(a \o w, e) /\ a \o w \in Seq(S) /\ Append(w, e) \in Seq(S)
    <3>1. a \o w \in Seq(S)
      OBVIOUS
    <3>2. a \o Append(w, e) = Append(a \o w, e)
      OBVIOUS
    <3> QED BY <3>1, <3>2
  <2>2. t = Parsing(s, e)
    <3> DEFINE aw == a \o w
    <3>1. aw \in Seq(S) /\ a \o Append(w, e) = Append(aw, e)
      BY <2>1
    <3> HIDE DEF aw
    <3>2. Parsed(Append(aw, e)) = Parsing(Parsed(aw), e)
      BY <3>1, ParsedAppend
    <3> QED BY <3>1, <3>2 DEF aw
  <2>3. s.rows \in Seq(R) /\ s.part \in R
    BY <2>1, ParsedType
  <2>4. IsPrefix(Parsed(a).rows, s.rows) /\ (Parsed(a).bad => s.bad)
    BY <1>3
  <2> HIDE DEF s, t
  <2>5. s.bad => t.bad
    BY <2>2 DEF Parsing
  <2>6. t.rows = s.rows \/ t.rows = Append(s.rows, Append(s.part, e))
    BY <2>2 DEF Parsing
  <2>7. Append(s.part, e) \in R
    BY <2>3
  <2>8. IsPrefix(s.rows, t.rows) /\ t.rows \in Seq(R)
    <3> DEFINE v == s.rows
               x == t.rows
               more == Append(s.part, e)
    <3>1. v \in Seq(R) /\ more \in R /\ (x = v \/ x = Append(v, more))
      BY <2>3, <2>6, <2>7
    <3> HIDE DEF v, x, more, R
    <3>2. Append(v, more) \in Seq(R)
      BY <3>1
    <3>3. IsPrefix(v, v) /\ IsPrefix(v, Append(v, more))
      BY <3>1, PrefixOrder
    <3> QED BY <3>1, <3>2, <3>3 DEF v, x
  <2>9. IsPrefix(Parsed(a).rows, t.rows)
    <3> DEFINE u == Parsed(a).rows
               v == s.rows
               x == t.rows
    <3>1. u \in Seq(R) /\ v \in Seq(R) /\ x \in Seq(R) /\ IsPrefix(u, v) /\ IsPrefix(v, x)
      BY <1>1, <2>3, <2>4, <2>8
    <3> HIDE DEF u, v, x, R
    <3>2. IsPrefix(u, x)
      BY <2>7, <3>1, PrefixOrder
    <3> QED BY <3>2 DEF u, x
  <2> QED BY <2>1, <2>4, <2>5, <2>9 DEF t
<1>4. Seq(S) \subseteq T
  <2> HIDE DEF T
  <2> QED BY <1>2, <1>3, AppendInduction
<1> QED BY <1>4

\* Pieces none of which ends a row make part of one.
LEMMA ParsedPart ==
    ASSUME NEW S, NEW a \in Seq(S), NEW rows, Parsed(a) = [rows |-> rows, part |-> <<>>, bad |-> FALSE]
    PROVE  \A b \in Seq(S) :
              (\A i \in DOMAIN b : ~b[i].last /\ ~b[i].bad)
                  => Parsed(a \o b) = [rows |-> rows, part |-> b, bad |-> FALSE]
<1> DEFINE Plain(b) == \A i \in DOMAIN b : ~b[i].last /\ ~b[i].bad
           T == {b \in Seq(S) : Plain(b) => Parsed(a \o b) = [rows |-> rows, part |-> b, bad |-> FALSE]}
<1>1. <<>> \in T
  <2>1. a \o <<>> = a /\ <<>> \in Seq(S)
    OBVIOUS
  <2> QED BY <2>1
<1>2. ASSUME NEW w \in Seq(S), NEW e \in S, w \in T PROVE Append(w, e) \in T
  <2> DEFINE v == Append(w, e)
             aw == a \o w
  <2>1. /\ v \in Seq(S) /\ aw \in Seq(S) /\ a \o v = Append(aw, e)
        /\ DOMAIN v = 1 .. Len(w) + 1 /\ DOMAIN w = 1 .. Len(w) /\ Len(w) \in Nat
        /\ v[Len(w) + 1] = e /\ \A i \in 1 .. Len(w) : v[i] = w[i]
    <3>1. aw \in Seq(S) /\ v \in Seq(S)
      OBVIOUS
    <3>2. a \o v = Append(aw, e)
      OBVIOUS
    <3> QED BY <3>1, <3>2
  <2> SUFFICES ASSUME Plain(v) PROVE Parsed(a \o v) = [rows |-> rows, part |-> v, bad |-> FALSE]
    BY <2>1
  <2> HIDE DEF v, aw
  <2>2. Plain(w) /\ ~e.last /\ ~e.bad
    <3>1. Len(w) + 1 \in DOMAIN v /\ \A i \in DOMAIN w : i \in DOMAIN v
      BY <2>1
    <3> QED BY <2>1, <3>1
  <2>3. Parsed(aw) = [rows |-> rows, part |-> w, bad |-> FALSE]
    BY <1>2, <2>2 DEF aw
  <2>4. Parsed(a \o v) = Parsing(Parsed(aw), e)
    BY <2>1, ParsedAppend
  <2> QED BY <2>2, <2>3, <2>4 DEF Parsing, v
<1>3. Seq(S) \subseteq T
  <2> HIDE DEF T
  <2> QED BY <1>1, <1>2, AppendInduction
<1> QED BY <1>3

\* What is no piece of a row is told, wherever it is.
LEMMA ParsedBad ==
    ASSUME NEW S, NEW a \in Seq(S)
    PROVE  \A b \in Seq(S) : (\E i \in DOMAIN b : b[i].bad) => Parsed(a \o b).bad
<1> DEFINE Bad(b) == \E i \in DOMAIN b : b[i].bad
           T == {b \in Seq(S) : Bad(b) => Parsed(a \o b).bad}
<1>1. <<>> \in T
  OBVIOUS
<1>2. ASSUME NEW w \in Seq(S), NEW e \in S, w \in T PROVE Append(w, e) \in T
  <2> DEFINE v == Append(w, e)
             aw == a \o w
  <2>1. /\ v \in Seq(S) /\ aw \in Seq(S) /\ a \o v = Append(aw, e)
        /\ DOMAIN v = 1 .. Len(w) + 1 /\ DOMAIN w = 1 .. Len(w) /\ Len(w) \in Nat
        /\ v[Len(w) + 1] = e /\ \A i \in 1 .. Len(w) : v[i] = w[i]
    <3>1. aw \in Seq(S) /\ v \in Seq(S)
      OBVIOUS
    <3>2. a \o v = Append(aw, e)
      OBVIOUS
    <3> QED BY <3>1, <3>2
  <2> SUFFICES ASSUME Bad(v) PROVE Parsed(a \o v).bad
    BY <2>1
  <2> HIDE DEF v
  <2>2. Bad(w) \/ e.bad
    <3>1. \A i \in DOMAIN v : i \in DOMAIN w \/ i = Len(w) + 1
      BY <2>1
    <3> QED BY <2>1, <3>1
  <2>3. Bad(w) => Parsed(aw).bad
    BY <1>2
  <2> HIDE DEF aw, Bad
  <2>4. Parsed(a \o v) = Parsing(Parsed(aw), e)
    BY <2>1, ParsedAppend
  <2> QED BY <2>2, <2>3, <2>4 DEF Parsing
<1>3. Seq(S) \subseteq T
  <2> HIDE DEF T
  <2> QED BY <1>1, <1>2, AppendInduction
<1> QED BY <1>3

\* Pieces of which only the last ends a row make one more row.
LEMMA ParsedRow ==
    ASSUME NEW S, NEW a \in Seq(S), NEW rows, Parsed(a) = [rows |-> rows, part |-> <<>>, bad |-> FALSE],
           NEW b \in Seq(S), b # <<>>, b[Len(b)].last,
           \A i \in 1 .. Len(b) : ~b[i].bad, \A i \in 1 .. Len(b) : i # Len(b) => ~b[i].last
    PROVE  Parsed(a \o b) = [rows |-> Append(rows, b), part |-> <<>>, bad |-> FALSE]
<1>1. PICK w \in Seq(S), e \in S : b = Append(w, e) /\ Len(b) = Len(w) + 1
  BY LastSplit
<1> DEFINE aw == a \o w
<1>2. /\ aw \in Seq(S) /\ DOMAIN w = 1 .. Len(w) /\ Len(w) \in Nat /\ b[Len(b)] = e
      /\ \A i \in 1 .. Len(w) : b[i] = w[i] /\ i \in 1 .. Len(b) /\ i # Len(b)
      /\ Len(b) \in 1 .. Len(b)
  BY <1>1
<1>3. a \o b = Append(aw, e)
  BY <1>1
<1>4. \A i \in DOMAIN w : ~w[i].last /\ ~w[i].bad
  BY <1>2
<1>5. Parsed(aw) = [rows |-> rows, part |-> w, bad |-> FALSE]
  BY <1>4, ParsedPart
<1> HIDE DEF aw
<1>6. Parsed(a \o b) = Parsing(Parsed(aw), e)
  BY <1>2, <1>3, ParsedAppend
<1> QED BY <1>1, <1>2, <1>5, <1>6 DEF Parsing

-----------------------------------------------------------------------------
(* What remains of a stream *)

\* Untaken, of any stream and any places
Kept(s, places) ==
    LET kept[k \in 0 .. Len(s)] ==
            IF k = 0 THEN <<>> ELSE IF k \in places THEN kept[k - 1] ELSE Append(kept[k - 1], s[k])
    IN  kept

\* It is built piece by piece.
LEMMA KeptByStep ==
    ASSUME NEW s, Len(s) \in Nat, NEW places
    PROVE  /\ Kept(s, places)[0] = <<>>
           /\ \A k \in 1 .. Len(s) :
                 Kept(s, places)[k] = IF k \in places THEN Kept(s, places)[k - 1]
                                      ELSE Append(Kept(s, places)[k - 1], s[k])
<1> DEFINE l == Len(s)
           G(f, k) == IF k = 0 THEN <<>> ELSE IF k \in places THEN f[k - 1] ELSE Append(f[k - 1], s[k])
           Upto(f, m) == [k \in 0 .. m |-> G(f, k)]
           T == {m \in Nat : \E f : f = Upto(f, m)}
<1>1. 0 \in T
  <2> DEFINE f == [k \in 0 .. 0 |-> <<>>]
  <2>1. f = Upto(f, 0)
    OBVIOUS
  <2> HIDE DEF f, Upto
  <2> QED BY <2>1
<1>2. ASSUME NEW m \in Nat, m \in T PROVE m + 1 \in T
  <2>1. PICK f : f = Upto(f, m)
    BY <1>2
  <2> DEFINE last == G(f, m + 1)
             g == [k \in 0 .. m + 1 |-> IF k <= m THEN f[k] ELSE last]
  <2>2. \A k \in 0 .. m + 1 : g[k] = G(g, k)
    <3> TAKE k \in 0 .. m + 1
    <3>1. k # 0 => k - 1 \in 0 .. m /\ k - 1 <= m /\ k - 1 \in 0 .. m + 1
      OBVIOUS
    <3>2. k # 0 => g[k - 1] = f[k - 1]
      BY <3>1
    <3>3. G(g, k) = G(f, k)
      <4> HIDE DEF g
      <4> QED BY <3>2
    <3>4. CASE k <= m
      <4>1. f[k] = G(f, k)
        <5>1. Upto(f, m)[k] = G(f, k)
          BY <3>4
        <5> HIDE DEF Upto, G
        <5> QED BY <2>1, <5>1
      <4>2. g[k] = f[k]
        BY <3>4
      <4> HIDE DEF g, G
      <4> QED BY <3>3, <4>1, <4>2
    <3>5. CASE k = m + 1
      <4>1. g[k] = last
        BY <3>5
      <4>2. last = G(f, k)
        BY <3>5
      <4> HIDE DEF g, G, last
      <4> QED BY <3>3, <4>1, <4>2
    <3> QED BY <3>4, <3>5
  <2>3. g = Upto(g, m + 1)
    <3>1. g = [k \in 0 .. m + 1 |-> g[k]]
      OBVIOUS
    <3> HIDE DEF g, G
    <3> QED BY <2>2, <3>1
  <2> HIDE DEF g, Upto
  <2> QED BY <2>3
<1> DEFINE F == Kept(s, places)
<1>3. F = Upto(F, l)
  <2>1. l \in T
    <3> HIDE DEF T
    <3> QED BY <1>1, <1>2, NatSetInduction
  <2>2. F = CHOOSE f : f = Upto(f, l)
    BY DEF Kept
  <2>3. \E f : f = Upto(f, l)
    BY <2>1
  <2> HIDE DEF Upto, F
  <2> QED BY <2>2, <2>3
<1> HIDE DEF F
<1>4. \A k \in 0 .. l : F[k] = G(F, k)
  <2> TAKE k \in 0 .. l
  <2>1. Upto(F, l)[k] = G(F, k)
    OBVIOUS
  <2> HIDE DEF Upto, G
  <2> QED BY <1>3, <2>1
<1>5. F[0] = <<>>
  <2>1. 0 \in 0 .. l /\ G(F, 0) = <<>>
    OBVIOUS
  <2> HIDE DEF G
  <2> QED BY <1>4, <2>1
<1>6. \A k \in 1 .. l : F[k] = IF k \in places THEN F[k - 1] ELSE Append(F[k - 1], s[k])
  <2> TAKE k \in 1 .. l
  <2>1. k \in 0 .. l /\ G(F, k) = IF k \in places THEN F[k - 1] ELSE Append(F[k - 1], s[k])
    OBVIOUS
  <2> HIDE DEF G
  <2> QED BY <1>4, <2>1
<1> QED BY <1>5, <1>6 DEF F

\* A sequence of the pieces of the stream
LEMMA KeptType ==
    ASSUME NEW S, NEW s \in Seq(S), NEW places
    PROVE  \A k \in 0 .. Len(s) : Kept(s, places)[k] \in Seq(S)
<1> DEFINE l == Len(s)
           F == Kept(s, places)
           T == {k \in Nat : F[k] \in Seq(S)}
<1>1. l \in Nat /\ \A k \in 1 .. l : s[k] \in S
  OBVIOUS
<1>2. /\ F[0] = <<>>
      /\ \A k \in 1 .. l : F[k] = IF k \in places THEN F[k - 1] ELSE Append(F[k - 1], s[k])
  BY <1>1, KeptByStep
<1> HIDE DEF F, l
<1>3. 0 \in T
  <2>1. <<>> \in Seq(S)
    OBVIOUS
  <2> QED BY <1>2, <2>1
<1>4. ASSUME NEW k \in 0 .. l - 1, k \in T PROVE k + 1 \in T
  <2> DEFINE m == k + 1
  <2>1. m \in 1 .. l /\ m - 1 = k /\ m \in Nat
    BY <1>1
  <2>2. F[m] = IF m \in places THEN F[k] ELSE Append(F[k], s[m])
    BY <1>2, <2>1
  <2>3. F[k] \in Seq(S) /\ s[m] \in S
    BY <1>1, <1>4, <2>1
  <2> HIDE DEF m
  <2>4. Append(F[k], s[m]) \in Seq(S)
    BY <2>3
  <2>5. m \in T
    BY <2>1, <2>2, <2>3, <2>4
  <2> QED BY <2>5 DEF m
<1>5. 0 .. l \subseteq T
  <2> HIDE DEF T
  <2> QED BY <1>1, <1>3, <1>4, UpToInduction
<1> QED BY <1>5 DEF F, l

\* Where nothing is taken, the stream goes on as it is.
LEMMA KeptOn ==
    ASSUME NEW S, NEW s \in Seq(S), NEW places, NEW n \in 0 .. Len(s), NEW m \in n .. Len(s),
           \A k \in n + 1 .. m : k \notin places
    PROVE  Kept(s, places)[m] = Kept(s, places)[n] \o SubSeq(s, n + 1, m)
<1> DEFINE l == Len(s)
           F == Kept(s, places)
           T == {k \in Nat : F[n + k] = F[n] \o SubSeq(s, n + 1, n + k)}
<1>1. l \in Nat /\ n \in Nat /\ m \in Nat /\ n <= l /\ n <= m /\ m <= l /\ \A k \in 1 .. l : s[k] \in S
  OBVIOUS
<1>2. \A k \in 1 .. l : F[k] = IF k \in places THEN F[k - 1] ELSE Append(F[k - 1], s[k])
  BY <1>1, KeptByStep
<1>3. F[n] \in Seq(S)
  BY KeptType
<1> HIDE DEF F
<1>4. 0 \in T
  <2>1. n + 1 > n + 0 /\ n + 0 = n
    BY <1>1
  <2>2. SubSeq(s, n + 1, n) = <<>>
    <3>1. n + 1 \in Nat \ {0} /\ n \in Nat /\ n + 1 <= n + 1 /\ n <= Len(s) /\ n - (n + 1) + 1 = 0
      BY <1>1
    <3> DEFINE a == SubSeq(s, n + 1, n)
    <3>2. a \in Seq(S) /\ Len(a) = 0
      <4> DEFINE n1 == n + 1
      <4>1. n1 \in Nat \ {0} /\ n \in Nat /\ n1 <= n + 1 /\ n <= Len(s) /\ n - n1 + 1 = 0
        BY <3>1
      <4> HIDE DEF n1
      <4>2. SubSeq(s, n1, n) \in Seq(S) /\ Len(SubSeq(s, n1, n)) = 0
        BY <4>1, StretchElements
      <4> QED BY <4>2 DEF n1
    <3> HIDE DEF a
    <3> QED BY <3>2, EmptySeq DEF a
  <2>3. F[n] \o <<>> = F[n]
    BY <1>3
  <2> QED BY <2>1, <2>2, <2>3
<1>5. ASSUME NEW k \in 0 .. (m - n) - 1, k \in T PROVE k + 1 \in T
  <2> DEFINE i == n + k
             a == SubSeq(s, n + 1, i)
  <2>1. /\ k \in Nat /\ i \in 0 .. l - 1 /\ n + 1 \in 1 .. i + 1 /\ i + 1 \in 1 .. l /\ (i + 1) - 1 = i
        /\ i + 1 \in n + 1 .. m /\ n + (k + 1) = i + 1
    BY <1>1
  <2>2. F[i + 1] = Append(F[i], s[i + 1])
    BY <1>2, <2>1
  <2>3. F[i] = F[n] \o a
    BY <1>5
  <2>4. SubSeq(s, n + 1, i + 1) = Append(a, s[i + 1])
    <3> DEFINE n1 == n + 1
    <3>1. n1 \in 1 .. i + 1
      BY <2>1
    <3> HIDE DEF n1, i
    <3>2. SubSeq(s, n1, i + 1) = Append(SubSeq(s, n1, i), s[i + 1])
      BY <2>1, <3>1, SubSeqGrows
    <3> QED BY <3>2 DEF n1
  <2>5. a \in Seq(S) /\ s[i + 1] \in S
    <3>1. \A j \in n + 1 .. i : s[j] \in S
      BY <1>1, <2>1
    <3>2. a \in Seq(S)
      BY <3>1, SubSeqProperties
    <3> QED BY <1>1, <2>1, <3>2
  <2> HIDE DEF a, i
  <2>6. Append(F[n] \o a, s[i + 1]) = F[n] \o Append(a, s[i + 1])
    <3> DEFINE b == F[n]
               e == s[i + 1]
    <3>1. b \in Seq(S) /\ a \in Seq(S) /\ e \in S
      BY <1>3, <2>5
    <3> HIDE DEF b, e
    <3>3. EndJoined(b, a, e)
      BY ONLY <3>1, ConcatAppend
    <3>2. Append(b \o a, e) = b \o Append(a, e)
      BY ONLY <3>3 DEF EndJoined
    <3> QED BY <3>2 DEF b, e
  <2>7. F[i + 1] = F[n] \o SubSeq(s, n + 1, i + 1)
    BY <2>2, <2>3, <2>4, <2>6
  <2> DEFINE x == n + (k + 1)
  <2>8. x = i + 1 /\ k + 1 \in Nat
    BY <2>1
  <2> HIDE DEF x
  <2>9. F[x] = F[n] \o SubSeq(s, n + 1, x)
    BY ONLY <2>7, <2>8
  <2> QED BY <2>8, <2>9 DEF x
<1>6. 0 .. m - n \subseteq T
  <2> DEFINE d == m - n
  <2>1. d \in Nat
    BY <1>1
  <2>3. \A k \in 0 .. d - 1 : k \in T => k + 1 \in T
    <3> HIDE DEF T
    <3> QED BY <1>5
  <2> HIDE DEF T, d
  <2>2. 0 .. d \subseteq T
    BY <1>4, <2>1, <2>3, UpToInduction
  <2> QED BY <2>2 DEF d
<1>7. m - n \in 0 .. m - n /\ n + (m - n) = m
  BY <1>1
<1>8. F[n + (m - n)] = F[n] \o SubSeq(s, n + 1, n + (m - n))
  BY <1>6, <1>7
<1> QED BY <1>7, <1>8 DEF F

\* What is taken later changes nothing of what came before.
LEMMA KeptSame ==
    ASSUME NEW S, NEW s \in Seq(S), NEW places, NEW more, NEW n \in 0 .. Len(s),
           \A k \in 1 .. n : k \in places <=> k \in more
    PROVE  Kept(s, places)[n] = Kept(s, more)[n]
<1> DEFINE F == Kept(s, places)
           G == Kept(s, more)
           l == Len(s)
           T == {k \in Nat : F[k] = G[k]}
<1>1. l \in Nat /\ n \in Nat /\ n <= l
  OBVIOUS
<1>2. /\ F[0] = <<>> /\ G[0] = <<>>
      /\ \A k \in 1 .. l : F[k] = IF k \in places THEN F[k - 1] ELSE Append(F[k - 1], s[k])
      /\ \A k \in 1 .. l : G[k] = IF k \in more THEN G[k - 1] ELSE Append(G[k - 1], s[k])
  BY <1>1, KeptByStep
<1> HIDE DEF F, G
<1>3. 0 \in T
  BY <1>2
<1>4. ASSUME NEW k \in 0 .. n - 1, k \in T PROVE k + 1 \in T
  <2> DEFINE m == k + 1
  <2>1. m \in 1 .. n /\ m \in 1 .. l /\ m - 1 = k /\ m \in Nat
    BY <1>1
  <2> HIDE DEF m
  <2>2. F[m] = G[m]
    BY <1>2, <1>4, <2>1
  <2> QED BY <2>1, <2>2 DEF m
<1>5. 0 .. n \subseteq T
  <2> HIDE DEF T
  <2> QED BY <1>1, <1>3, <1>4, UpToInduction
<1> QED BY <1>1, <1>5 DEF F, G

-----------------------------------------------------------------------------
(* Rows and buffers *)

\* A sequence cut in two
LEMMA CutAt ==
    ASSUME NEW S, NEW s \in Seq(S), NEW n \in 0 .. Len(s)
    PROVE  /\ From(s, n) \in Seq(S) /\ Len(From(s, n)) = Len(s) - n
           /\ \A k \in 1 .. Len(s) - n : From(s, n)[k] = s[n + k]
           /\ SubSeq(s, 1, n) \in Seq(S) /\ Len(SubSeq(s, 1, n)) = n
           /\ \A k \in 1 .. n : SubSeq(s, 1, n)[k] = s[k]
           /\ s = SubSeq(s, 1, n) \o From(s, n)
<1> DEFINE l == Len(s)
           a == SubSeq(s, 1, n)
           b == From(s, n)
<1>1. l \in Nat /\ n \in Nat /\ n <= l
  OBVIOUS
<1>2. b \in Seq(S) /\ Len(b) = l - n /\ \A k \in 1 .. l - n : b[k] = s[n + k]
  <2> DEFINE m == n + 1
  <2>1. m \in Nat \ {0} /\ m <= l + 1 /\ l - m + 1 = l - n /\ \A k \in Int : m + k - 1 = n + k
    BY <1>1
  <2>2. b = SubSeq(s, m, l)
    BY DEF From
  <2> HIDE DEF m, b
  <2>3. /\ SubSeq(s, m, l) \in Seq(S) /\ Len(SubSeq(s, m, l)) = l - m + 1
        /\ \A k \in 1 .. l - m + 1 : SubSeq(s, m, l)[k] = s[m + k - 1]
    BY <1>1, <2>1, StretchElements
  <2> DEFINE d == l - n
  <2>4. \A k \in 1 .. d : m + k - 1 = n + k /\ k \in 1 .. l - m + 1
    BY <2>1
  <2> HIDE DEF l
  <2>5. b \in Seq(S) /\ Len(b) = l - m + 1 /\ \A k \in 1 .. l - m + 1 : b[k] = s[m + k - 1]
    BY ONLY <2>2, <2>3
  <2>6. l - m + 1 = d
    BY <2>1
  <2> HIDE DEF d
  <2>7. \A k \in 1 .. d : b[k] = s[n + k]
    BY ONLY <2>4, <2>5
  <2> QED BY <2>5, <2>6, <2>7 DEF d
<1>3. a \in Seq(S) /\ Len(a) = n /\ \A k \in 1 .. n : a[k] = s[k]
  <2>1. 1 \in Nat \ {0} /\ 1 <= n + 1 /\ n - 1 + 1 = n /\ \A k \in Int : 1 + k - 1 = k
    BY <1>1
  <2>2. /\ SubSeq(s, 1, n) \in Seq(S) /\ Len(SubSeq(s, 1, n)) = n - 1 + 1
        /\ \A k \in 1 .. n - 1 + 1 : SubSeq(s, 1, n)[k] = s[1 + k - 1]
    BY <1>1, <2>1, StretchElements
  <2> QED BY <2>1, <2>2
<1> HIDE DEF a, b, l
<1>4. s = a \o b
  <2> DEFINE c == a \o b
  <2>1. c \in Seq(S) /\ Len(c) = Len(a) + Len(b)
        /\ \A k \in 1 .. Len(a) + Len(b) : c[k] = IF k <= Len(a) THEN a[k] ELSE b[k - Len(a)]
    BY <1>2, <1>3, ConcatProperties
  <2>2. Len(c) = l
    BY <1>1, <1>2, <1>3, <2>1
  <2> HIDE DEF c
  <2>3. \A k \in 1 .. l : c[k] = s[k]
    <3> TAKE k \in 1 .. l
    <3>1. CASE k <= n
      BY <1>1, <1>2, <1>3, <2>1, <3>1
    <3>2. CASE k > n
      <4> DEFINE i == k - n
      <4>1. i \in 1 .. l - n /\ n + i = k /\ k \in 1 .. n + (l - n) /\ ~(k <= n)
        BY <1>1, <3>2
      <4>2. c[k] = b[i]
        BY <1>2, <1>3, <2>1, <4>1
      <4> HIDE DEF i
      <4> QED BY <1>2, <4>1, <4>2
    <3> QED BY <1>1, <3>1, <3>2
  <2>4. c = s
    BY ONLY s \in Seq(S), <2>1, <2>2, <2>3, SeqEqual DEF l
  <2> QED BY <2>4 DEF c
<1> QED BY <1>2, <1>3, <1>4 DEF a, b, l

\* The first row of what has a row
LEMMA FirstRowRight ==
    ASSUME NEW S, NEW b \in Seq(S), Lasts(b) # {}
    PROVE  /\ FirstRow(b) \in Seq(S) /\ Len(FirstRow(b)) \in 1 .. Len(b) /\ FirstRow(b) # <<>>
           /\ \A i \in 1 .. Len(FirstRow(b)) : FirstRow(b)[i] = b[i]
           /\ FirstRow(b)[Len(FirstRow(b))].last
           /\ \A i \in 1 .. Len(FirstRow(b)) : i # Len(FirstRow(b)) => ~FirstRow(b)[i].last
           /\ From(b, Len(FirstRow(b))) \in Seq(S)
           /\ b = FirstRow(b) \o From(b, Len(FirstRow(b)))
<1> DEFINE I == Lasts(b)
           n == CHOOSE i \in I : \A j \in I : i <= j
           r == FirstRow(b)
<1>1. I \subseteq 1 .. Len(b) /\ I \in SUBSET Nat /\ \A i \in 1 .. Len(b) : i \in I <=> b[i].last
  BY DEF Lasts
<1>2. n \in I /\ \A j \in I : n <= j
  <2>1. \E i \in I : \A j \in I : i <= j
    BY <1>1, LeastMember
  <2> HIDE DEF I
  <2> QED BY <2>1
<1>3. r = SubSeq(b, 1, n)
  BY DEF FirstRow
<1> HIDE DEF I, n, r
<1>4. n \in 1 .. Len(b) /\ n \in 0 .. Len(b) /\ Len(b) \in Nat
  BY <1>1, <1>2
<1>5. /\ r \in Seq(S) /\ Len(r) = n /\ \A k \in 1 .. n : r[k] = b[k]
      /\ From(b, n) \in Seq(S) /\ b = r \o From(b, n)
  BY ONLY b \in Seq(S), <1>3, <1>4, CutAt
<1>6. r[n].last /\ \A i \in 1 .. n : i # n => ~r[i].last
  <2>1. n \in 1 .. n /\ \A i \in 1 .. n : i \in 1 .. Len(b) /\ (i # n => ~(n <= i))
    BY <1>4
  <2>2. \A i \in 1 .. n : i # n => i \notin I
    BY <1>2, <2>1
  <2> QED BY <1>1, <1>2, <1>4, <1>5, <2>1, <2>2
<1>7. r # <<>>
  BY <1>4, <1>5
<1> QED BY <1>4, <1>5, <1>6, <1>7 DEF r

LEMMA Associated ==
    ASSUME NEW S, NEW a \in Seq(S), NEW b \in Seq(S), NEW c \in Seq(S)
    PROVE  (a \o b) \o c = a \o (b \o c) /\ a \o b \in Seq(S) /\ <<>> \in Seq(S) /\ a \o <<>> = a /\ <<>> \o a = a
OBVIOUS

\* A buffer changes, and the rest of the parser does not.
LEMMA OneField ==
    ASSUME ctx \in [Procs -> Contexts], NEW x
    PROVE  /\ [ctx EXCEPT !["exec"].file = x] =
                 [ctx EXCEPT !["exec"] = [file |-> x, buf |-> ctx["exec"].buf,
                                          buflen |-> ctx["exec"].buflen, eof |-> ctx["exec"].eof]]
           /\ [ctx EXCEPT !["exec"].buf = x] =
                 [ctx EXCEPT !["exec"] = [file |-> ctx["exec"].file, buf |-> x,
                                          buflen |-> ctx["exec"].buflen, eof |-> ctx["exec"].eof]]
<1>1. ctx["exec"] \in Contexts
  BY DEF Procs
<1> DEFINE c == ctx["exec"]
<1>2. [c EXCEPT !.file = x] = [file |-> x, buf |-> c.buf, buflen |-> c.buflen, eof |-> c.eof]
  BY <1>1 DEF Contexts
<1>3. [c EXCEPT !.buf = x] = [file |-> c.file, buf |-> x, buflen |-> c.buflen, eof |-> c.eof]
  BY <1>1 DEF Contexts
<1> HIDE DEF c
<1> QED BY <1>2, <1>3 DEF c

-----------------------------------------------------------------------------
(* The invariant says what csv-exec has done right. *)

LEMMA UntakenKept == Untaken = Kept(job.stream, taken)
  BY DEF Untaken, Kept

\* The sizes, and what is in the pipe
LEMMA Sizes ==
    ASSUME Is("exec"), Typed, InOrder
    PROVE  /\ job.stream \in Seq(Piece) /\ Len(job.stream) \in Nat
           /\ Len(left) \in Nat /\ Len(pend["in"]) \in Nat /\ Len(data["in"]) \in Nat
           /\ left \in Seq(Piece) /\ pend["in"] \in Seq(Piece) /\ data["in"] \in Seq(Piece)
           /\ Written \in Nat /\ Written = Passed + Len(data["in"]) /\ Written <= Len(job.stream)
           /\ Passed \in 0 .. Len(job.stream)
           /\ Len(Sent) = Written
           /\ data["in"] = SubSeq(job.stream, Passed + 1, Written)
<1>1. job.stream \in Seq(Piece)
  BY PipesAssumption DEF Typed, Piece
<1>2. left \in Seq(Piece) /\ pend["in"] \in Seq(Piece) /\ data["in"] \in Seq(Piece)
  BY DEF Typed, Pipes
<1>3. Len(job.stream) \in Nat /\ Len(left) \in Nat /\ Len(pend["in"]) \in Nat /\ Len(data["in"]) \in Nat
  BY <1>1, <1>2
<1>4. /\ Written \in Nat /\ Written = Passed + Len(data["in"]) /\ Written <= Len(job.stream)
      /\ Passed \in 0 .. Len(job.stream) /\ Passed \in Nat
  <2>1. Passed \in Nat
    BY DEF InOrder
  <2> DEFINE l == Len(job.stream)
             a == Len(left)
             p == Len(pend["in"])
             d == Len(data["in"])
  <2>2. Passed = l - a - p - d /\ Written = l - a - p
    BY DEF Passed, Written
  <2>3. l \in Nat /\ a \in Nat /\ p \in Nat /\ d \in Nat
    BY <1>3
  <2> HIDE DEF l, a, p, d
  <2>4. Written \in Nat /\ Written = Passed + d /\ Written <= l /\ Passed \in 0 .. l /\ Passed \in Nat
    BY <2>1, <2>2, <2>3
  <2> QED BY <2>4 DEF l, d
<1>5. Len(Sent) = Written
  <2>1. ~Is("show") /\ Len(job.stream) - (Len(left) + Len(pend["in"])) = Written
    BY <1>3 DEF Is, Written
  <2>2. Sent = SubSeq(job.stream, 1, Written)
    BY <2>1 DEF Sent
  <2>3. Written \in 0 .. Len(job.stream)
    BY <1>3, <1>4
  <2> QED BY <1>1, <2>2, <2>3, CutAt
<1>6. data["in"] = SubSeq(job.stream, Passed + 1, Written)
  <2> DEFINE d == data["in"]
             m == Passed + 1
             t == SubSeq(job.stream, m, Written)
  <2>1. m \in Nat \ {0} /\ m <= Written + 1 /\ Written - m + 1 = Len(d) /\ \A k \in Int : m + k - 1 = Passed + k
    BY <1>3, <1>4
  <2>2. /\ t \in Seq(Piece) /\ Len(t) = Written - m + 1
        /\ \A k \in 1 .. Written - m + 1 : t[k] = job.stream[m + k - 1]
    <3> HIDE DEF m
    <3> QED BY <1>1, <1>4, <2>1, StretchElements
  <2>3. \A k \in 1 .. Len(d) : d[k] = job.stream[Passed + k]
    BY DEF InOrder, Follows
  <2> HIDE DEF t, m, d
  <2>4. \A k \in 1 .. Len(d) : k \in 1 .. Written - m + 1 /\ m + k - 1 = Passed + k
    BY <2>1
  <2>5. \A k \in 1 .. Len(d) : d[k] = t[k]
    BY ONLY <2>2, <2>3, <2>4
  <2>6. d \in Seq(Piece) /\ Len(d) = Len(t)
    BY <1>2, <2>1, <2>2 DEF d
  <2>7. d = t
    BY ONLY <2>2, <2>5, <2>6, SeqEqual
  <2> QED BY <2>7 DEF t, m, d
<1> QED BY <1>1, <1>2, <1>3, <1>4, <1>5, <1>6

\* The parser of csv-exec, and what it has had
LEMMA Buffers ==
    ASSUME Typed
    PROVE  /\ ctx["exec"] \in Contexts /\ Buf("exec") \in Seq(Piece) /\ ctx["exec"].file \in Seq(Piece)
           /\ ctx["exec"].buflen \in Nat /\ ctx["exec"].eof \in BOOLEAN
           /\ Rows \in Seq(Seq(Piece)) /\ FlattenSeq(Rows) \in Seq(Piece)
           /\ Buf("exec") \o ctx["exec"].file \in Seq(Piece) /\ Had \in Seq(Piece)
<1>1. ctx["exec"] \in Contexts /\ Rows \in Seq(Seq(Piece))
  BY DEF Typed, Procs, Rows
<1>2. /\ Buf("exec") \in Seq(Piece) /\ ctx["exec"].file \in Seq(Piece)
      /\ ctx["exec"].buflen \in Nat /\ ctx["exec"].eof \in BOOLEAN
  BY <1>1 DEF Contexts, Buf
<1>3. FlattenSeq(Rows) \in Seq(Piece)
  BY <1>1, FlattenType
<1>4. Buf("exec") \o ctx["exec"].file \in Seq(Piece)
  BY <1>2, Associated
<1>5. Had \in Seq(Piece)
  <2> DEFINE rest == Buf("exec") \o ctx["exec"].file
  <2>1. rest \in Seq(Piece)
    BY <1>4
  <2> HIDE DEF rest
  <2>2. FlattenSeq(Rows) \o rest \in Seq(Piece)
    BY <1>3, <2>1, Associated
  <2> QED BY <2>2 DEF Had, rest
<1> QED BY <1>1, <1>2, <1>3, <1>4, <1>5

\* What the source has written and no command has read: what csv-exec has had, and
\* what is in the pipe.
LEMMA Unread ==
    ASSUME Is("exec"), Typed, InOrder, HadRight
    PROVE  Untaken[Len(Sent)] = Had \o data["in"]
<1> DEFINE s == job.stream
<1>1. /\ s \in Seq(Piece) /\ Passed \in 0 .. Len(s) /\ Written \in Passed .. Len(s)
      /\ Len(Sent) = Written /\ data["in"] = SubSeq(s, Passed + 1, Written)
  BY Sizes
<1>2. \A k \in Passed + 1 .. Written : k \notin taken
  <2>1. taken \subseteq 1 .. Passed /\ Passed \in Nat /\ Written \in Nat
    BY <1>1 DEF HadRight
  <2> QED BY <2>1
<1> HIDE DEF s
<1>3. Kept(s, taken)[Written] = Kept(s, taken)[Passed] \o SubSeq(s, Passed + 1, Written)
  BY <1>1, <1>2, KeptOn
<1>4. Had = Untaken[Passed]
  BY DEF HadRight
<1> QED BY <1>1, <1>3, <1>4, UntakenKept DEF s

LEMMA InvariantSuffices == ExecInv => ExecRight
<1> SUFFICES ASSUME ExecInv, Is("exec") PROVE ExecRight
  BY DEF ExecRight
<1>1. Typed /\ InOrder /\ HadRight /\ Stages
  BY DEF ExecInv
<1> DEFINE flat == FlattenSeq(Rows)
           b == Buf("exec")
           file == ctx["exec"].file
           d == data["in"]
           rest == Parsed(Untaken[Len(Sent)])
           failed == {i \in DOMAIN results : results[i] # 0}
           tail == b \o (file \o d)
<1>2. /\ flat \in Seq(Piece) /\ b \in Seq(Piece) /\ file \in Seq(Piece) /\ d \in Seq(Piece)
      /\ Rows \in Seq(Seq(Piece))
  BY <1>1, Buffers, Sizes
<1>3. Parsed(flat) = [rows |-> Rows, part |-> <<>>, bad |-> FALSE]
  BY <1>1 DEF HadRight, Whole
<1>4. rest = Parsed(flat \o tail) /\ tail \in Seq(Piece)
  <2>1. Untaken[Len(Sent)] = (flat \o (b \o file)) \o d
    BY <1>1, Unread DEF Had
  <2> HIDE DEF flat, b, file, d
  <2> DEFINE S == Piece
  <2>2. flat \in Seq(S) /\ b \in Seq(S) /\ file \in Seq(S) /\ d \in Seq(S)
    BY <1>2
  <2> HIDE DEF S
  <2> DEFINE bf == b \o file
             fd == file \o d
  <2>3. (flat \o bf) \o d = flat \o (bf \o d) /\ bf \o d = b \o fd /\ b \o fd \in Seq(Piece)
    <3>1. bf \o d = b \o fd
      BY ONLY <2>2
    <3>2. bf \in Seq(S) /\ fd \in Seq(S)
      BY ONLY <2>2
    <3> HIDE DEF bf, fd
    <3>3. (flat \o bf) \o d = flat \o (bf \o d)
      BY ONLY <2>2, <3>2
    <3>4. b \o fd \in Seq(S)
      BY ONLY <2>2, <3>2
    <3> QED BY <3>1, <3>3, <3>4 DEF S
  <2> QED BY <2>1, <2>3
<1>5. IsPrefix(Rows, rest.rows)
  <2> HIDE DEF flat, tail
  <2> QED BY <1>2, <1>3, <1>4, ParsedGoesOn
<1>6. results \in Seq({0, 1, Killed}) /\ DOMAIN results = 1 .. Len(results) /\ Len(results) \in Nat
  BY <1>1 DEF Typed
<1>7. Good => failed = {}
  BY DEF Good
<1>8. GoodButLast => failed \subseteq {Len(results)}
  BY DEF GoodButLast
<1>9. Len(Rows) \in Nat
  BY <1>2
<1>10. failed \subseteq {Len(Rows) - 1}
  <2>1. Good \/ results = <<>> \/ (GoodButLast /\ Len(results) = Len(Rows) - 1)
    BY <1>1 DEF Stages
  <2>2. results = <<>> => failed = {}
    BY <1>6
  <2> HIDE DEF failed
  <2> QED BY <1>7, <1>8, <2>1, <2>2
<1>11. CASE status["exec"] = 0
  <2>1. Finished /\ Good
    BY <1>1, <1>11 DEF Stages, Running
  <2>2. file = <<>> /\ d = <<>>
    BY <1>1, <2>1 DEF Finished, HadRight, Closed
  <2>3. tail = b
    <3>1. <<>> \o <<>> = <<>>
      OBVIOUS
    <3> HIDE DEF b, file, d
    <3> QED BY <1>2, <2>2, <3>1, Associated
  <2>4. \A i \in DOMAIN b : ~b[i].last /\ ~b[i].bad
    <3>1. Lasts(b) = {} /\ \A i \in DOMAIN b : ~b[i].bad
      BY <2>1 DEF Finished, HasRow
    <3> QED BY <3>1 DEF Lasts
  <2>5. rest = [rows |-> Rows, part |-> b, bad |-> FALSE]
    <3>1. Parsed(flat \o b) = [rows |-> Rows, part |-> b, bad |-> FALSE]
      <4> HIDE DEF flat, b
      <4> QED BY <1>2, <1>3, <2>4, ParsedPart
    <3> HIDE DEF rest, tail, b
    <3> QED BY <1>4, <2>3, <3>1
  <2> HIDE DEF rest, failed
  <2>6. failed = {} /\ ~rest.bad /\ got["exec"] = rest.rows
    BY <1>7, <2>1, <2>5 DEF Rows
  <2> QED BY <1>5, <1>10, <1>11, <2>6 DEF ExecRight, rest, failed, Rows
<1>12. CASE status["exec"] = 2
  <2>1. failed = {} /\ (rest.bad \/ got["exec"] = <<>>)
    <3>1. \/ Rows = <<>> /\ results = <<>>
          \/ Stuck /\ Good
      BY <1>1, <1>12 DEF Stages, Running
    <3>2. CASE Rows = <<>> /\ results = <<>>
      BY <1>6, <3>2 DEF Rows
    <3>3. CASE Stuck /\ Good
      <4>1. PICK i \in DOMAIN NextRowOf("exec") : NextRowOf("exec")[i].bad
        BY <3>3 DEF Stuck
      <4>2. i \in DOMAIN b /\ b[i].bad
        <5>1. CASE HasRow("exec")
          <6>1. Lasts(b) # {} /\ NextRowOf("exec") = FirstRow(b)
            BY <5>1 DEF HasRow, NextRowOf
          <6> HIDE DEF b
          <6>2. /\ Len(FirstRow(b)) \in 1 .. Len(b) /\ FirstRow(b) \in Seq(Piece)
                /\ \A k \in 1 .. Len(FirstRow(b)) : FirstRow(b)[k] = b[k]
            BY <1>2, <6>1, FirstRowRight
          <6>3. i \in 1 .. Len(FirstRow(b)) /\ FirstRow(b)[i].bad
            BY <4>1, <6>1, <6>2
          <6>4. i \in 1 .. Len(b) /\ b[i] = FirstRow(b)[i]
            BY <1>2, <6>2, <6>3
          <6> QED BY <1>2, <6>3, <6>4
        <5>2. CASE ~HasRow("exec")
          BY <4>1, <5>2 DEF NextRowOf
        <5> QED BY <5>1, <5>2
      <4>3. \E k \in DOMAIN tail : tail[k].bad
        <5> DEFINE fd == file \o d
        <5>1. fd \in Seq(Piece)
          BY <1>2, Associated
        <5> HIDE DEF b, fd
        <5>2. i \in 1 .. Len(b)
          BY <1>2, <4>2
        <5>3. i \in DOMAIN (b \o fd) /\ (b \o fd)[i] = b[i]
          BY <1>2, <5>1, <5>2
        <5> QED BY <4>2, <5>3 DEF fd
      <4>4. Parsed(flat \o tail).bad
        <5> HIDE DEF flat, tail
        <5> QED BY <1>2, <1>4, <4>3, ParsedBad
      <4> HIDE DEF rest, failed
      <4> QED BY <1>4, <1>7, <3>3, <4>4
    <3> QED BY <3>1, <3>2, <3>3
  <2> HIDE DEF rest, failed
  <2> QED BY <1>5, <1>10, <1>12, <2>1 DEF ExecRight, rest, failed, Rows
<1>13. CASE status["exec"] \in {3, 4}
  <2>1. /\ Len(results) = Len(Rows) - 1 /\ Len(Rows) > 1
        /\ Last(results) # 0 /\ (Last(results) = Killed) = (status["exec"] = 4)
    BY <1>1, <1>13 DEF Stages, Running
  <2>2. Len(results) \in failed
    <3>1. Len(results) \in DOMAIN results
      BY <1>6, <1>9, <2>1
    <3> QED BY <2>1, <3>1 DEF Last
  <2> HIDE DEF rest, failed
  <2>3. (Last(results) = Killed) = (status["exec"] = 4) /\ failed # {}
    BY <2>1, <2>2
  <2> QED BY <1>5, <1>10, <1>13, <2>3 DEF ExecRight, rest, failed, Rows
<1>14. CASE status["exec"] \notin {0, 2, 3, 4}
  <2> HIDE DEF rest, failed
  <2> QED BY <1>5, <1>10, <1>14 DEF ExecRight, rest, failed, Rows
<1> QED BY <1>11, <1>12, <1>13, <1>14

-----------------------------------------------------------------------------
(* The steps that can happen, and what they leave alone *)

LEMMA ExecSteps ==
    ASSUME Is("exec"), Typed, Alone, Next
    PROVE  \/ SourcePrints \/ SourceEnds \/ SourceKilled \/ Write("source") \/ End("source")
           \/ Pull("exec") \/ Fread("exec") \/ NoHeader("exec") \/ ParseError("exec")
           \/ ExecHeader \/ ExecRow \/ ExecWaits \/ ExecEnds \/ End("exec")
           \/ CommandReads \/ CommandEnds \/ UNCHANGED vars
<1>1. ~Is("show") /\ ~Is("peek")
  BY DEF Is
<1>2. pc["show"] = "none" /\ pc["peek"] = "none" /\ pc["down"] = "none"
  BY DEF Alone
<1>3. \A p \in {"out", "side", "shown"} : ~(due[p] > 0)
  <2> TAKE p \in {"out", "side", "shown"}
  <2>1. p \in Pipes /\ p # "in"
    BY DEF Pipes
  <2>2. pend[p] = <<>> /\ due[p] \in Int /\ due[p] <= Len(pend[p])
    BY <2>1 DEF Alone, Typed
  <2>3. Len(<<>>) = 0
    OBVIOUS
  <2> QED BY <2>2, <2>3
<1>4. ~Write("show") /\ ~Write("peek")
  <2>1. Prints("show") = {"shown"} /\ Prints("peek") = {"out", "side"}
    BY DEF Prints
  <2> QED BY <1>3, <2>1 DEF Write
<1>5. ~Write("exec")
  BY DEF Write, Prints
<1>6. ~ToolStarts
  BY <1>1 DEF ToolStarts
<1>7. \A q \in {"show", "peek"} : ~ParserSteps(q) /\ ~End(q)
  BY <1>2 DEF ParserSteps, Pull, Fread, NoHeader, ParseError, NeedsHeader, NeedsMore, Scanned, Corrupted, At, End
<1>8. ~Show
  BY <1>2, <1>4, <1>7 DEF Show, ShowStarts, ShowMissing, ShowHeader, ShowRow, ShowPrints, ShowEnds, At, TakeHeader, TakeRow
<1>9. ~Peek
  BY <1>1, <1>2, <1>4, <1>7 DEF Peek, PeekHeader, PeekForks, PeekRow, PeekFlushes, PeekCloses, PeekRelays, PeekEnds, At
<1>10. ~Down
  BY <1>2 DEF Down, DownReads, DownEnds, End, At
<1> QED BY <1>6, <1>8, <1>9, <1>10 DEF Next, Source, Exec, ParserSteps, Command

LEMMA OrderKept ==
    ASSUME InOrder, UNCHANGED <<job, left, pend, data>>
    PROVE  InOrder' /\ Passed' = Passed
<1>1. Passed' = Passed /\ Written' = Written
  BY DEF Passed, Written
<1> QED BY <1>1 DEF InOrder, Follows

LEMMA HadKept ==
    ASSUME HadRight, Passed' = Passed, UNCHANGED <<job, ctx, got, taken>>,
           Closed("in") => Closed("in")', pc'["exec"] = "header" => pc["exec"] = "header"
    PROVE  HadRight'
<1>1. Had' = Had /\ Rows' = Rows /\ Buf("exec")' = Buf("exec")
  BY DEF Had, Rows, Buf
<1>2. Untaken' = Untaken
  BY DEF Untaken
<1>3. Whole(Rows)'
  BY <1>1 DEF HadRight, Whole
<1>4. ctx'["exec"].eof => ctx'["exec"].file = <<>> /\ Closed("in")'
  BY DEF HadRight
<1>5. taken' \subseteq 1 .. Passed'
  BY DEF HadRight
<1>6. Had' = Untaken'[Passed']
  BY <1>1, <1>2 DEF HadRight
<1>7. pc'["exec"] = "header" => Rows' = <<>> /\ Buf("exec")' = <<>> /\ taken' = {}
  BY <1>1 DEF HadRight
<1>8. Len(Buf("exec")') <= ctx'["exec"].buflen
  BY <1>1 DEF HadRight
<1> QED BY <1>3, <1>4, <1>5, <1>6, <1>7, <1>8 DEF HadRight

\* csv-exec and the command stay where they are.
LEMMA StagesKept ==
    ASSUME Stages, pc'["exec"] = pc["exec"], pc'["command"] = pc["command"],
           status'["exec"] = status["exec"], results' = results, got' = got,
           Buf("exec")' = Buf("exec"), ctx'["exec"].eof = ctx["exec"].eof
    PROVE  Stages'
<1>1. Rows' = Rows
  BY DEF Rows
<1>2. HasRow("exec")' = HasRow("exec")
  BY DEF HasRow
<1>3. NextRowOf("exec")' = NextRowOf("exec")
  BY <1>2 DEF NextRowOf
<1>4. Good' = Good /\ GoodButLast' = GoodButLast
  BY DEF Good, GoodButLast
<1>5. Finished' = Finished /\ Stuck' = Stuck
  BY <1>2, <1>3 DEF Finished, Stuck
<1>6. Last(results)' = Last(results) /\ Len(results') = Len(results) /\ Len(Rows') = Len(Rows)
  BY <1>1
<1> QED BY <1>1, <1>4, <1>5, <1>6 DEF Stages

\* A sequence gives its first element to another.
LEMMA Moves ==
    ASSUME NEW S, NEW a \in Seq(S), a # <<>>, NEW b \in Seq(S)
    PROVE  /\ Len(a) \in Nat \ {0} /\ Len(b) \in Nat
           /\ Tail(a) \in Seq(S) /\ Len(Tail(a)) = Len(a) - 1
           /\ \A i \in 1 .. Len(a) - 1 : Tail(a)[i] = a[i + 1]
           /\ Head(a) = a[1] /\ Head(a) \in S
           /\ Append(b, Head(a)) \in Seq(S) /\ b \o <<Head(a)>> = Append(b, Head(a))
           /\ Len(Append(b, Head(a))) = Len(b) + 1
           /\ \A i \in 1 .. Len(b) : Append(b, Head(a))[i] = b[i]
           /\ Append(b, Head(a))[Len(b) + 1] = a[1]
<1>1. Len(a) \in Nat \ {0} /\ Len(b) \in Nat
  BY EmptySeq
<1>2. Tail(a) \in Seq(S) /\ Len(Tail(a)) = Len(a) - 1 /\ \A i \in 1 .. Len(a) - 1 : Tail(a)[i] = a[i + 1]
  BY HeadTailProperties
<1>3. Head(a) = a[1] /\ Head(a) \in S
  BY <1>1
<1> DEFINE e == Head(a)
<1> HIDE DEF e
<1>4. e \in S
  BY <1>3 DEF e
<1>5. Append(b, e) \in Seq(S) /\ Len(Append(b, e)) = Len(b) + 1
      /\ \A i \in 1 .. Len(b) : Append(b, e)[i] = b[i]
      /\ Append(b, e)[Len(b) + 1] = e
  BY <1>4, AppendProperties
<1>6. b \o <<e>> = Append(b, e)
  BY <1>4
<1> QED BY <1>1, <1>2, <1>3, <1>5, <1>6 DEF e

-----------------------------------------------------------------------------
(* The source *)

\* The first element of what precedes becomes the last of what follows, and the
\* stream stays as it is: n pieces have left b before.
LEMMA OrderMoves ==
    ASSUME NEW S, NEW a \in Seq(S), a # <<>>, NEW b \in Seq(S), NEW n \in Nat,
           Follows(a, n + Len(b)), Follows(b, n)
    PROVE  Follows(Tail(a), n + Len(Append(b, Head(a)))) /\ Follows(Append(b, Head(a)), n)
<1> DEFINE s == job.stream
           c == Append(b, Head(a))
           t == Tail(a)
           la == Len(a)
           lb == Len(b)
<1>1. /\ la \in Nat \ {0} /\ lb \in Nat
      /\ Len(t) = la - 1 /\ \A i \in 1 .. la - 1 : t[i] = a[i + 1]
      /\ Len(c) = lb + 1 /\ \A i \in 1 .. lb : c[i] = b[i]
      /\ c[lb + 1] = a[1]
  BY Moves
<1>2. \A i \in 1 .. la : a[i] = s[n + lb + i]
  BY DEF Follows
<1>3. \A i \in 1 .. lb : b[i] = s[n + i]
  BY DEF Follows
<1> HIDE DEF c, t, la, lb, s
<1>4. \A i \in 1 .. Len(t) : t[i] = s[n + Len(c) + i]
  <2> TAKE i \in 1 .. Len(t)
  <2> DEFINE j == i + 1
  <2>1. i \in 1 .. la - 1 /\ j \in 1 .. la /\ n + Len(c) + i = n + lb + j
    BY <1>1
  <2>2. t[i] = a[j]
    BY <1>1, <2>1
  <2> HIDE DEF j
  <2>3. a[j] = s[n + lb + j]
    BY <1>2, <2>1
  <2> QED BY <2>1, <2>2, <2>3
<1>5. \A i \in 1 .. Len(c) : c[i] = s[n + i]
  <2> TAKE i \in 1 .. Len(c)
  <2>1. CASE i \in 1 .. lb
    BY <1>1, <1>3, <2>1
  <2>2. CASE i = lb + 1
    <3>1. 1 \in 1 .. la /\ n + i = n + lb + 1
      BY <1>1, <2>2
    <3>2. a[1] = s[n + lb + 1]
      BY <1>2, <3>1
    <3> QED BY <1>1, <2>2, <3>1, <3>2
  <2> QED BY <1>1, <2>1, <2>2
<1> QED BY <1>4, <1>5 DEF c, t, s, Follows

\* What of the state the source does not touch
LEMMA SourceKeeps ==
    ASSUME Stages, HadRight, UNCHANGED <<job, ctx, got, taken, results>>, Passed' = Passed,
           pc'["exec"] = pc["exec"], pc'["command"] = pc["command"], status'["exec"] = status["exec"],
           Closed("in") => Closed("in")'
    PROVE  HadRight' /\ Stages'
<1>1. Buf("exec")' = Buf("exec") /\ ctx'["exec"].eof = ctx["exec"].eof
  BY DEF Buf
<1>2. HadRight'
  BY HadKept
<1> QED BY <1>1, <1>2, StagesKept

LEMMA SourcePrintsStep == ExecInv /\ Is("exec") /\ SourcePrints => ExecInv'
<1> SUFFICES ASSUME ExecInv, Is("exec"), SourcePrints PROVE ExecInv'
  OBVIOUS
<1> DEFINE b == pend["in"]
           c == Append(b, Head(left))
<1>1. Typed /\ Alone /\ InOrder /\ SourceHolds /\ HadRight /\ Stages
  BY DEF ExecInv
<1>2. /\ left # <<>> /\ left' = Tail(left) /\ PrintTo({"in"}, <<Head(left)>>)
      /\ UNCHANGED <<job, pc, status, readers, writers, data, ctx, got, received, screen, taken, results>>
  BY DEF SourcePrints, Prints, Is, ends, reading, told
<1>3. left \in Seq(Piece) /\ b \in Seq(Piece) /\ Len(data["in"]) \in Nat /\ Written \in Nat
  BY <1>1, Sizes
<1>4. /\ Len(left) \in Nat \ {0} /\ Len(b) \in Nat
      /\ Tail(left) \in Seq(Piece) /\ Len(Tail(left)) = Len(left) - 1
      /\ c \in Seq(Piece) /\ b \o <<Head(left)>> = c /\ Len(c) = Len(b) + 1
  BY <1>2, <1>3, Moves
<1>5. /\ pend' \in [Pipes -> Seq(Piece)] /\ pend'["in"] = c
      /\ \A p \in Pipes \ {"in"} : pend'[p] = pend[p]
  BY <1>1, <1>2, <1>4 DEF PrintTo, Pipes, Typed
<1>6. due' \in [Pipes -> Int] /\ \A p \in Pipes : due'[p] <= Len(pend'[p])
  <2>1. \A x \in Nat : x - (x % StdioSize) \in Int /\ x - (x % StdioSize) <= x
    BY PipesAssumption
  <2>2. \A p \in Pipes : Len(pend'[p]) \in Nat
    BY <1>5
  <2>3. due' = [p \in Pipes |-> IF p \in {"in"} THEN Len(pend'[p]) - (Len(pend'[p]) % StdioSize) ELSE due[p]]
    BY <1>2 DEF PrintTo
  <2>4. due \in [Pipes -> Int] /\ \A p \in Pipes \ {"in"} : due[p] <= Len(pend'[p])
    BY <1>1, <1>5 DEF Typed
  <2> QED BY <2>1, <2>2, <2>3, <2>4
<1>7. Piece' = Piece
  BY <1>2 DEF Piece
<1>8. Typed'
  BY <1>1, <1>2, <1>4, <1>5, <1>6, <1>7 DEF Typed, Contexts
<1>9. Alone'
  BY <1>1, <1>2, <1>5 DEF Alone
<1>10. Passed' = Passed /\ Written' = Written
  <2> DEFINE l == Len(job.stream)
             d == Len(data["in"])
             x == Len(left)
             y == Len(b)
  <2>1. l \in Nat /\ d \in Nat /\ x \in Nat /\ y \in Nat
    BY <1>1, Sizes
  <2>2. Passed = l - x - y - d /\ Written = l - x - y
    BY DEF Passed, Written
  <2>3. Passed' = l - (x - 1) - (y + 1) - d /\ Written' = l - (x - 1) - (y + 1)
    BY <1>2, <1>4, <1>5 DEF Passed, Written
  <2> HIDE DEF l, d, x, y
  <2> QED BY <2>1, <2>2, <2>3
<1>11. InOrder'
  <2>1. Follows(left, Written + Len(b)) /\ Follows(b, Written) /\ Follows(data["in"], Passed) /\ Passed \in Nat
    BY <1>1 DEF InOrder
  <2>2. Follows(Tail(left), Written + Len(c)) /\ Follows(c, Written)
    <3> HIDE DEF b
    <3> QED BY <1>2, <1>3, <2>1, OrderMoves
  <2> HIDE DEF c, b
  <2>3. Follows(left, Written + Len(pend["in"]))' /\ Follows(pend["in"], Written)'
    BY <1>2, <1>5, <1>10, <2>2 DEF Follows
  <2>4. Follows(data["in"], Passed)'
    BY <1>2, <1>10, <2>1 DEF Follows
  <2> QED BY <1>10, <2>1, <2>3, <2>4 DEF InOrder
<1>12. SourceHolds'
  BY <1>1, <1>2 DEF SourceHolds
<1>13. HadRight' /\ Stages'
  <2>1. Closed("in") => Closed("in")'
    BY <1>2 DEF Closed
  <2> QED BY <1>1, <1>2, <1>10, <2>1, SourceKeeps
<1> QED BY <1>8, <1>9, <1>11, <1>12, <1>13 DEF ExecInv

\* The source writes.
LEMMA SourceWritesStep ==
    ASSUME ExecInv, Is("exec"), pc["source"] # "ended", due["in"] > 0,
           data' = [data EXCEPT !["in"] = Append(@, Head(pend["in"]))],
           pend' = [pend EXCEPT !["in"] = Tail(@)], due' = [due EXCEPT !["in"] = @ - 1],
           UNCHANGED <<job, pc, status, readers, writers, left, ctx, got, received, screen, taken, results>>
    PROVE  ExecInv'
<1> DEFINE a == pend["in"]
           b == data["in"]
           c == Append(b, Head(a))
<1>1. Typed /\ Alone /\ InOrder /\ SourceHolds /\ HadRight /\ Stages
  BY DEF ExecInv
<1>2. a \in Seq(Piece) /\ b \in Seq(Piece) /\ Passed \in Nat /\ Len(left) \in Nat /\ Len(a) \in Nat /\ Len(b) \in Nat
  BY <1>1, Sizes
<1>3. "in" \in Pipes /\ due["in"] \in Int /\ due["in"] <= Len(a)
  BY <1>1 DEF Typed, Pipes
<1>4. a # <<>>
  <2>1. Len(a) # 0
    BY <1>2, <1>3
  <2>2. Len(<<>>) = 0
    OBVIOUS
  <2> QED BY <2>1, <2>2
<1>5. /\ Tail(a) \in Seq(Piece) /\ Len(Tail(a)) = Len(a) - 1
      /\ c \in Seq(Piece) /\ Len(c) = Len(b) + 1
  BY <1>2, <1>4, Moves
<1> HIDE DEF c
<1>6. /\ data' \in [Pipes -> Seq(Piece)] /\ data'["in"] = c
      /\ \A p \in Pipes \ {"in"} : data'[p] = data[p]
  BY <1>1, <1>3, <1>5 DEF Typed, c
<1>7. /\ pend' \in [Pipes -> Seq(Piece)] /\ pend'["in"] = Tail(a)
      /\ \A p \in Pipes \ {"in"} : pend'[p] = pend[p]
  BY <1>1, <1>3, <1>5 DEF Typed
<1>8. /\ due' \in [Pipes -> Int] /\ due'["in"] = due["in"] - 1
      /\ \A p \in Pipes \ {"in"} : due'[p] = due[p]
  BY <1>1, <1>3 DEF Typed
<1>9. \A p \in Pipes : due'[p] <= Len(pend'[p])
  <2>1. due'["in"] <= Len(pend'["in"])
    BY <1>2, <1>3, <1>5, <1>7, <1>8
  <2>2. \A p \in Pipes \ {"in"} : due'[p] <= Len(pend'[p])
    BY <1>1, <1>7, <1>8 DEF Typed
  <2> QED BY <2>1, <2>2
<1>10. Piece' = Piece
  BY DEF Piece
<1>11. Typed'
  BY <1>1, <1>6, <1>7, <1>8, <1>9, <1>10 DEF Typed, Contexts
<1>12. Alone'
  BY <1>1, <1>7 DEF Alone
<1>13. Passed' = Passed /\ Written' = Passed' + Len(c) /\ Written = Passed + Len(b)
  <2> DEFINE l == Len(job.stream)
             d == Len(b)
             x == Len(left)
             y == Len(a)
  <2>1. l \in Nat /\ d \in Nat /\ x \in Nat /\ y \in Nat
    BY <1>1, Sizes
  <2>2. Passed = l - x - y - d /\ Written = l - x - y
    BY DEF Passed, Written
  <2>3. Passed' = l - x - (y - 1) - (d + 1) /\ Written' = l - x - (y - 1) /\ Len(c) = d + 1
    BY <1>5, <1>6, <1>7 DEF Passed, Written
  <2> HIDE DEF l, d, x, y
  <2>4. Passed' = Passed /\ Written' = Passed' + (d + 1) /\ Written = Passed + d
    BY <2>1, <2>2, <2>3
  <2> QED BY <2>3, <2>4 DEF d
<1>14. InOrder'
  <2>1. Follows(left, Written + Len(a)) /\ Follows(a, Written) /\ Follows(b, Passed) /\ Passed \in Nat
    BY <1>1 DEF InOrder
  <2>2. Follows(Tail(a), Passed + Len(c)) /\ Follows(c, Passed)
    <3>1. Follows(a, Passed + Len(b))
      BY <1>13, <2>1
    <3> HIDE DEF a, b
    <3> QED BY <1>2, <1>4, <2>1, <3>1, OrderMoves DEF c
  <2>3. Written' + Len(Tail(a)) = Written + Len(a)
    <3> DEFINE x == Len(a)
               y == Len(b)
    <3>1. x \in Nat /\ y \in Nat /\ Len(Tail(a)) = x - 1 /\ Len(c) = y + 1 /\ Written = Passed + y
      BY <1>2, <1>5, <1>13
    <3> HIDE DEF x, y
    <3>2. Written' = Passed + (y + 1)
      BY <1>13, <3>1
    <3>3. Written' + (x - 1) = Written + x
      BY <1>2, <3>1, <3>2
    <3> QED BY <3>1, <3>3 DEF x
  <2> HIDE DEF b, a
  <2>4. Follows(left, Written' + Len(Tail(a))) /\ Follows(Tail(a), Written')
    BY <1>13, <2>1, <2>2, <2>3
  <2>5. Follows(left, Written + Len(pend["in"]))' /\ Follows(pend["in"], Written)'
    BY <1>7, <2>4 DEF Follows
  <2>6. Follows(data["in"], Passed)'
    BY <1>6, <1>13, <2>2 DEF Follows
  <2> QED BY <1>13, <2>1, <2>5, <2>6 DEF InOrder
<1>15. SourceHolds'
  BY <1>1 DEF SourceHolds
<1>16. HadRight' /\ Stages'
  <2>1. ~Closed("in")
    BY <1>1 DEF Closed, SourceHolds
  <2> QED BY <1>1, <1>13, <2>1, SourceKeeps
<1> QED BY <1>11, <1>12, <1>14, <1>15, <1>16 DEF ExecInv

\* The source goes on to exit(), or ends.
LEMMA SourceStops ==
    ASSUME ExecInv, Is("exec"), NEW where \in {"exiting", "ended"},
           UNCHANGED <<job, data, pend, left, ctx, got, taken, results>>,
           pc' = [pc EXCEPT !["source"] = where],
           DOMAIN status' = Procs, status'["exec"] = status["exec"],
           readers' \in [Pipes -> SUBSET Procs], writers' \in [Pipes -> SUBSET Procs],
           writers'["in"] \subseteq writers["in"],
           where = "exiting" => pc["source"] # "ended" /\ writers' = writers,
           due' \in [Pipes -> Int], \A p \in Pipes : due'[p] <= Len(pend[p])
    PROVE  ExecInv'
<1>1. Typed /\ Alone /\ InOrder /\ SourceHolds /\ HadRight /\ Stages
  BY DEF ExecInv
<1>2. /\ pc'["source"] = where /\ DOMAIN pc' = Procs
      /\ \A q \in Procs \ {"source"} : pc'[q] = pc[q]
  BY <1>1 DEF Typed, Procs
<1>3. Piece' = Piece
  BY DEF Piece
<1>4. Typed'
  BY <1>1, <1>2, <1>3 DEF Typed, Contexts
<1>5. Alone'
  BY <1>1, <1>2 DEF Alone, Procs
<1>6. InOrder' /\ Passed' = Passed
  BY <1>1, OrderKept
<1>7. SourceHolds'
  BY <1>1, <1>2 DEF SourceHolds
<1>8. HadRight' /\ Stages'
  <2>1. Closed("in") => Closed("in")'
    BY DEF Closed
  <2>2. pc'["exec"] = pc["exec"] /\ pc'["command"] = pc["command"]
    BY <1>2 DEF Procs
  <2> QED BY <1>1, <1>6, <2>1, <2>2, SourceKeeps
<1> QED BY <1>4, <1>5, <1>6, <1>7, <1>8 DEF ExecInv

\* A process that lets go of its ends of pipes
LEMMA HeldType ==
    ASSUME Typed, NEW q
    PROVE  /\ Without(q, readers) \in [Pipes -> SUBSET Procs]
           /\ Without(q, writers) \in [Pipes -> SUBSET Procs]
           /\ Without(q, writers)["in"] = writers["in"] \ {q}
  BY DEF Typed, Without, Pipes

LEMMA SourceEndsStep == ExecInv /\ Is("exec") /\ SourceEnds => ExecInv'
<1> SUFFICES ASSUME ExecInv, Is("exec"), SourceEnds PROVE ExecInv'
  OBVIOUS
<1>1. Typed
  BY DEF ExecInv
<1>2. /\ pc["source"] = "run" /\ pc' = [pc EXCEPT !["source"] = "exiting"]
      /\ status' = [status EXCEPT !["source"] = job.ends]
      /\ Flush(Prints("source"))
      /\ UNCHANGED <<job, readers, writers, data, pend, left, ctx, got, taken, results>>
  BY DEF SourceEnds, At, Exit, Goto, ends, reading, told
<1>3. due' \in [Pipes -> Int] /\ \A p \in Pipes : due'[p] <= Len(pend[p])
  <2>1. \A p \in Pipes : Len(pend[p]) \in Int
    BY <1>1 DEF Typed
  <2>2. \A p \in Pipes : due[p] \in Int /\ due[p] <= Len(pend[p])
    BY <1>1 DEF Typed
  <2>3. due' = [p \in Pipes |-> IF p \in Prints("source") THEN Len(pend[p]) ELSE due[p]]
    BY <1>2 DEF Flush
  <2> QED BY <2>1, <2>2, <2>3
<1>4. DOMAIN status' = Procs /\ status'["exec"] = status["exec"]
  BY <1>1, <1>2 DEF Typed, Procs
<1>5. readers' \in [Pipes -> SUBSET Procs] /\ writers' \in [Pipes -> SUBSET Procs]
  BY <1>1, <1>2 DEF Typed
<1> QED BY <1>2, <1>3, <1>4, <1>5, SourceStops

LEMMA SourceDies == ExecInv /\ Is("exec") /\ Kill("source") => ExecInv'
<1> SUFFICES ASSUME ExecInv, Is("exec"), Kill("source") PROVE ExecInv'
  OBVIOUS
<1>1. Typed
  BY DEF ExecInv
<1>2. /\ pc' = [pc EXCEPT !["source"] = "ended"]
      /\ status' = [status EXCEPT !["source"] = Killed]
      /\ readers' = Without("source", readers) /\ writers' = Without("source", writers)
      /\ due' = [p \in Pipes |-> IF p \in Prints("source") THEN 0 ELSE due[p]]
      /\ UNCHANGED <<job, data, pend, left, ctx, got, taken, results>>
  BY DEF Kill, Goto, reading, told
<1>3. due' \in [Pipes -> Int] /\ \A p \in Pipes : due'[p] <= Len(pend[p])
  <2>1. \A p \in Pipes : Len(pend[p]) \in Nat
    BY <1>1 DEF Typed
  <2>2. \A p \in Pipes : due[p] \in Int /\ due[p] <= Len(pend[p])
    BY <1>1 DEF Typed
  <2>3. 0 \in Int /\ \A p \in Pipes : 0 <= Len(pend[p])
    BY <2>1
  <2> QED BY <1>2, <2>2, <2>3
<1>4. DOMAIN status' = Procs /\ status'["exec"] = status["exec"]
  BY <1>1, <1>2 DEF Typed, Procs
<1>5. /\ readers' \in [Pipes -> SUBSET Procs] /\ writers' \in [Pipes -> SUBSET Procs]
      /\ writers'["in"] \subseteq writers["in"]
  BY <1>1, <1>2, HeldType
<1> QED BY <1>2, <1>3, <1>4, <1>5, SourceStops

LEMMA SourceEndStep == ExecInv /\ Is("exec") /\ End("source") => ExecInv'
<1> SUFFICES ASSUME ExecInv, Is("exec"), End("source") PROVE ExecInv'
  OBVIOUS
<1>1. Typed
  BY DEF ExecInv
<1>2. /\ pc' = [pc EXCEPT !["source"] = "ended"]
      /\ readers' = Without("source", readers) /\ writers' = Without("source", writers)
      /\ UNCHANGED <<job, status, data, pend, due, left, ctx, got, taken, results>>
  BY DEF End, Goto, stdio, reading, told
<1>3. due' \in [Pipes -> Int] /\ \A p \in Pipes : due'[p] <= Len(pend[p])
  BY <1>1, <1>2 DEF Typed
<1>4. DOMAIN status' = Procs /\ status'["exec"] = status["exec"]
  BY <1>1, <1>2 DEF Typed
<1>5. /\ readers' \in [Pipes -> SUBSET Procs] /\ writers' \in [Pipes -> SUBSET Procs]
      /\ writers'["in"] \subseteq writers["in"]
  BY <1>1, <1>2, HeldType
<1> QED BY <1>2, <1>3, <1>4, <1>5, SourceStops

LEMMA SourceWriteStep == ExecInv /\ Is("exec") /\ Write("source") => ExecInv'
<1> SUFFICES ASSUME ExecInv, Is("exec"), Write("source") PROVE ExecInv'
  OBVIOUS
<1>1. Prints("source") = {"in"}
  BY DEF Prints, Is
<1>2. CASE readers["in"] = {}
  BY <1>1, <1>2, SourceDies DEF Write
<1>3. CASE readers["in"] # {}
  <2>1. /\ pc["source"] # "ended" /\ due["in"] > 0
        /\ data' = [data EXCEPT !["in"] = Append(@, Head(pend["in"]))]
        /\ pend' = [pend EXCEPT !["in"] = Tail(@)] /\ due' = [due EXCEPT !["in"] = @ - 1]
        /\ UNCHANGED <<job, pc, status, ends, left, reading, told>>
    BY <1>1, <1>3 DEF Write
  <2>2. UNCHANGED <<job, pc, status, readers, writers, left, ctx, got, received, screen, taken, results>>
    BY <2>1 DEF ends, reading, told
  <2> QED BY <2>1, <2>2, SourceWritesStep
<1> QED BY <1>2, <1>3

LEMMA SourceKilledStep == ExecInv /\ Is("exec") /\ SourceKilled => ExecInv'
  BY SourceDies DEF SourceKilled

-----------------------------------------------------------------------------
(* csv-exec ends *)

\* exit() in csv-exec, and what it changes
LEMMA ExecExits ==
    ASSUME ExecInv, Is("exec"), NEW code, Exit("exec", code)
    PROVE  /\ Typed' /\ Alone' /\ InOrder' /\ SourceHolds' /\ HadRight'
           /\ pc'["exec"] = "exiting" /\ pc'["command"] = pc["command"] /\ status'["exec"] = code
           /\ results' = results /\ got' = got /\ ctx' = ctx
<1>1. Typed /\ Alone /\ InOrder /\ SourceHolds /\ HadRight
  BY DEF ExecInv
<1>2. /\ pc' = [pc EXCEPT !["exec"] = "exiting"] /\ status' = [status EXCEPT !["exec"] = code]
      /\ due' = [p \in Pipes |-> due[p]]
      /\ UNCHANGED <<job, readers, writers, data, pend, left, ctx, got, taken, results>>
  BY DEF Exit, Goto, Flush, Prints, ends, reading, told
<1>3. /\ pc'["exec"] = "exiting" /\ DOMAIN pc' = Procs
      /\ \A q \in Procs \ {"exec"} : pc'[q] = pc[q]
      /\ status'["exec"] = code /\ DOMAIN status' = Procs
  BY <1>1, <1>2 DEF Typed, Procs
<1>4. Piece' = Piece
  BY <1>2 DEF Piece
<1>5. due' = due
  BY <1>1, <1>2 DEF Typed
<1>6. Typed'
  BY <1>1, <1>2, <1>3, <1>4, <1>5 DEF Typed, Contexts
<1>7. Alone'
  BY <1>1, <1>2, <1>3 DEF Alone, Procs
<1>8. InOrder' /\ Passed' = Passed
  BY <1>1, <1>2, OrderKept
<1>9. SourceHolds'
  BY <1>1, <1>2, <1>3 DEF SourceHolds, Procs
<1>10. HadRight'
  <2>1. Closed("in") => Closed("in")'
    BY <1>2 DEF Closed
  <2>2. ~(pc'["exec"] = "header")
    BY <1>3
  <2> QED BY <1>1, <1>2, <1>8, <2>1, <2>2, HadKept
<1>11. pc'["command"] = pc["command"]
  BY <1>3 DEF Procs
<1> QED BY <1>2, <1>3, <1>6, <1>7, <1>8, <1>9, <1>10, <1>11

LEMMA NoHeaderStep == ExecInv /\ Is("exec") /\ NoHeader("exec") => ExecInv'
<1> SUFFICES ASSUME ExecInv, Is("exec"), NoHeader("exec") PROVE ExecInv'
  OBVIOUS
<1>1. Exit("exec", 2) /\ pc["exec"] = "header"
  BY DEF NoHeader, NeedsHeader, At
<1>2. results = <<>> /\ Rows = <<>> /\ pc["command"] = "none"
  BY <1>1 DEF ExecInv, HadRight, Stages
<1>3. /\ Typed' /\ Alone' /\ InOrder' /\ SourceHolds' /\ HadRight'
      /\ pc'["exec"] = "exiting" /\ pc'["command"] = pc["command"] /\ status'["exec"] = 2
      /\ results' = results /\ got' = got
  BY <1>1, ExecExits
<1>4. Rows' = <<>>
  BY <1>2, <1>3 DEF Rows
<1>5. Stages'
  BY <1>2, <1>3, <1>4 DEF Stages
<1> QED BY <1>3, <1>5 DEF ExecInv

\* What has been said of the rows and the commands stays true.
LEMMA SameRows ==
    ASSUME UNCHANGED <<results, got, ctx>>
    PROVE  /\ Rows' = Rows /\ Len(Rows') = Len(Rows) /\ Len(results') = Len(results) /\ Last(results)' = Last(results)
           /\ Good' = Good /\ GoodButLast' = GoodButLast /\ Finished' = Finished /\ Stuck' = Stuck
<1>1. Rows' = Rows /\ Buf("exec")' = Buf("exec")
  BY DEF Rows, Buf
<1>2. HasRow("exec")' = HasRow("exec")
  BY <1>1 DEF HasRow
<1>3. NextRowOf("exec")' = NextRowOf("exec")
  BY <1>1, <1>2 DEF NextRowOf
<1>4. Good' = Good /\ GoodButLast' = GoodButLast
  BY DEF Good, GoodButLast
<1>5. Finished' = Finished /\ Stuck' = Stuck
  BY <1>1, <1>2, <1>3 DEF Finished, Stuck
<1> QED BY <1>1, <1>4, <1>5

LEMMA ParseErrorStep == ExecInv /\ Is("exec") /\ ParseError("exec") => ExecInv'
<1> SUFFICES ASSUME ExecInv, Is("exec"), ParseError("exec") PROVE ExecInv'
  OBVIOUS
<1>1. Exit("exec", 2) /\ pc["exec"] = "read" /\ Stuck
  BY DEF ParseError, Corrupted, At, Stuck
<1>2. Len(results) = Len(Rows) - 1 /\ Good /\ pc["command"] \in {"none", "ended"}
  BY <1>1 DEF ExecInv, Stages
<1>3. /\ Typed' /\ Alone' /\ InOrder' /\ SourceHolds' /\ HadRight'
      /\ pc'["exec"] = "exiting" /\ pc'["command"] = pc["command"] /\ status'["exec"] = 2
      /\ UNCHANGED <<results, got, ctx>>
  BY <1>1, ExecExits
<1>4. Len(results') = Len(Rows') - 1 /\ Good' /\ Stuck'
  BY <1>1, <1>2, <1>3, SameRows
<1>5. Stages'
  BY <1>2, <1>3, <1>4 DEF Stages
<1> QED BY <1>3, <1>5 DEF ExecInv

LEMMA ExecEndsStep == ExecInv /\ Is("exec") /\ ExecEnds => ExecInv'
<1> SUFFICES ASSUME ExecInv, Is("exec"), ExecEnds PROVE ExecInv'
  OBVIOUS
<1>1. Exit("exec", 0) /\ pc["exec"] = "read" /\ Finished
  <2>1. AllRead("exec") /\ Exit("exec", 0) /\ pc["exec"] = "read"
    BY DEF ExecEnds
  <2>2. At("exec", "read") /\ ~HasRow("exec") /\ ~Corrupted("exec") /\ ctx["exec"].eof
    BY <2>1 DEF AllRead, Scanned
  <2>3. NextRowOf("exec") = Buf("exec")
    BY <2>2 DEF NextRowOf
  <2>4. \A i \in DOMAIN Buf("exec") : ~Buf("exec")[i].bad
    BY <2>2, <2>3 DEF Corrupted
  <2> QED BY <2>1, <2>2, <2>4 DEF Finished
<1>2. Len(results) = Len(Rows) - 1 /\ Good /\ pc["command"] \in {"none", "ended"}
  BY <1>1 DEF ExecInv, Stages
<1>3. /\ Typed' /\ Alone' /\ InOrder' /\ SourceHolds' /\ HadRight'
      /\ pc'["exec"] = "exiting" /\ pc'["command"] = pc["command"] /\ status'["exec"] = 0
      /\ UNCHANGED <<results, got, ctx>>
  BY <1>1, ExecExits
<1>4. Len(results') = Len(Rows') - 1 /\ Good' /\ Finished'
  BY <1>1, <1>2, <1>3, SameRows
<1>5. Stages'
  BY <1>2, <1>3, <1>4 DEF Stages
<1> QED BY <1>3, <1>5 DEF ExecInv

-----------------------------------------------------------------------------
(* csv-exec and its commands *)

\* csv-exec and a command change places; nothing is read.
LEMMA ExecTurns ==
    ASSUME ExecInv, Is("exec"),
           UNCHANGED <<job, status, data, pend, due, left, ctx, got, taken>>,
           DOMAIN pc' = Procs, \A q \in Procs \ {"exec", "command"} : pc'[q] = pc[q],
           pc'["exec"] = "header" => pc["exec"] = "header",
           readers' \in [Pipes -> SUBSET Procs], writers' \in [Pipes -> SUBSET Procs],
           writers'["in"] \subseteq writers["in"], "source" \in writers["in"] => "source" \in writers'["in"],
           results' \in Seq({0, 1, Killed})
    PROVE  Typed' /\ Alone' /\ InOrder' /\ SourceHolds' /\ HadRight'
<1>1. Typed /\ Alone /\ InOrder /\ SourceHolds /\ HadRight
  BY DEF ExecInv
<1>2. Piece' = Piece
  BY DEF Piece
<1>3. Typed'
  BY <1>1, <1>2 DEF Typed, Contexts
<1>4. Alone'
  BY <1>1 DEF Alone, Procs
<1>5. InOrder' /\ Passed' = Passed
  BY <1>1, OrderKept
<1>6. SourceHolds'
  BY <1>1 DEF SourceHolds, Procs
<1>7. HadRight'
  <2>1. Closed("in") => Closed("in")'
    BY DEF Closed
  <2> QED BY <1>1, <1>5, <2>1, HadKept
<1> QED BY <1>3, <1>4, <1>5, <1>6, <1>7

LEMMA ExecWaitsStep == ExecInv /\ Is("exec") /\ ExecWaits => ExecInv'
<1> SUFFICES ASSUME ExecInv, Is("exec"), ExecWaits PROVE ExecInv'
  OBVIOUS
<1>1. Typed
  BY DEF ExecInv
<1>2. pc["exec"] = "wait" /\ pc["command"] = "ended" /\ Waited(Last(results))
  BY DEF ExecWaits, At
<1>3. Len(results) = Len(Rows) - 1 /\ Len(Rows) > 1 /\ GoodButLast /\ status["exec"] = Running
  BY <1>2 DEF ExecInv, Stages
<1>4. CASE Last(results) = 0
  <2>1. pc' = [pc EXCEPT !["exec"] = "read"] /\ UNCHANGED <<job, status, ends, data, stdio, left, reading, told>>
    BY <1>2, <1>4 DEF Waited, Goto, Killed
  <2>2. UNCHANGED <<job, status, readers, writers, data, pend, due, left, ctx, got, taken, results>>
    BY <2>1 DEF ends, stdio, reading, told
  <2>3. pc'["exec"] = "read" /\ DOMAIN pc' = Procs /\ \A q \in Procs \ {"exec"} : pc'[q] = pc[q]
    BY <1>1, <2>1 DEF Typed, Procs
  <2>4. /\ readers' \in [Pipes -> SUBSET Procs] /\ writers' \in [Pipes -> SUBSET Procs]
        /\ results' \in Seq({0, 1, Killed})
    BY <1>1, <2>2 DEF Typed
  <2>5. Typed' /\ Alone' /\ InOrder' /\ SourceHolds' /\ HadRight'
    BY <2>2, <2>3, <2>4, ExecTurns
  <2>6. Good
    BY <1>3, <1>4 DEF GoodButLast, Good, Last
  <2>7. Len(results') = Len(Rows') - 1 /\ Good'
    BY <1>3, <2>2, <2>6, SameRows
  <2>8. pc'["command"] = "ended"
    BY <1>2, <2>3 DEF Procs
  <2>9. Stages'
    BY <1>3, <2>2, <2>3, <2>7, <2>8 DEF Stages
  <2> QED BY <2>5, <2>9 DEF ExecInv
<1>5. CASE Last(results) # 0
  <2> DEFINE code == IF Last(results) = Killed THEN 4 ELSE 3
  <2>1. Exit("exec", code)
    BY <1>2, <1>5 DEF Waited, Killed
  <2>2. code \in {3, 4} /\ (Last(results) = Killed) = (code = 4)
    OBVIOUS
  <2> HIDE DEF code
  <2>3. /\ Typed' /\ Alone' /\ InOrder' /\ SourceHolds' /\ HadRight'
        /\ pc'["exec"] = "exiting" /\ pc'["command"] = pc["command"] /\ status'["exec"] = code
        /\ UNCHANGED <<results, got, ctx>>
    BY <2>1, ExecExits
  <2>4. Len(results') = Len(Rows') - 1 /\ Len(Rows') > 1 /\ GoodButLast' /\ Last(results)' = Last(results)
    BY <1>3, <2>3, SameRows
  <2>5. Stages'
    BY <1>2, <1>5, <2>2, <2>3, <2>4 DEF Stages
  <2> QED BY <2>3, <2>5 DEF ExecInv
<1> QED BY <1>4, <1>5

LEMMA ExecEndStep == ExecInv /\ Is("exec") /\ End("exec") => ExecInv'
<1> SUFFICES ASSUME ExecInv, Is("exec"), End("exec") PROVE ExecInv'
  OBVIOUS
<1>1. Typed /\ Stages
  BY DEF ExecInv
<1>2. /\ pc["exec"] = "exiting" /\ pc' = [pc EXCEPT !["exec"] = "ended"]
      /\ readers' = Without("exec", readers) /\ writers' = Without("exec", writers)
      /\ UNCHANGED <<job, status, data, pend, due, left, ctx, got, taken, results>>
  BY DEF End, At, Goto, stdio, reading, told
<1>3. pc'["exec"] = "ended" /\ DOMAIN pc' = Procs /\ \A q \in Procs \ {"exec"} : pc'[q] = pc[q]
  BY <1>1, <1>2 DEF Typed, Procs
<1>4. /\ readers' \in [Pipes -> SUBSET Procs] /\ writers' \in [Pipes -> SUBSET Procs]
      /\ writers'["in"] = writers["in"] \ {"exec"}
      /\ results' \in Seq({0, 1, Killed})
  BY <1>1, <1>2, HeldType DEF Typed
<1>5. Typed' /\ Alone' /\ InOrder' /\ SourceHolds' /\ HadRight'
  BY <1>2, <1>3, <1>4, ExecTurns
<1>6. pc'["command"] = pc["command"]
  BY <1>3 DEF Procs
<1>7. Stages'
  <2>1. /\ Rows' = Rows /\ Len(Rows') = Len(Rows) /\ Len(results') = Len(results) /\ Last(results)' = Last(results)
        /\ Good' = Good /\ GoodButLast' = GoodButLast /\ Finished' = Finished /\ Stuck' = Stuck
    BY <1>2, SameRows
  <2> QED BY <1>1, <1>2, <1>3, <1>6, <2>1 DEF Stages
<1> QED BY <1>5, <1>7 DEF ExecInv

LEMMA CommandEndsStep == ExecInv /\ Is("exec") /\ CommandEnds => ExecInv'
<1> SUFFICES ASSUME ExecInv, Is("exec"), CommandEnds PROVE ExecInv'
  OBVIOUS
<1>1. Typed /\ Stages
  BY DEF ExecInv
<1>2. /\ pc["command"] = "run" /\ pc' = [pc EXCEPT !["command"] = "ended"]
      /\ readers' = Without("command", readers)
      /\ UNCHANGED <<job, status, writers, data, pend, due, left, ctx, got, taken>>
  BY DEF CommandEnds, At, Goto, stdio, reading
<1>3. PICK code \in {0, 1, Killed} : results' = Append(results, code)
  BY DEF CommandEnds
<1>4. pc["exec"] = "wait" /\ status["exec"] = Running /\ Len(results) = Len(Rows) - 2 /\ Good
  BY <1>1, <1>2 DEF Stages
<1>5. results \in Seq({0, 1, Killed}) /\ Len(results) \in Nat /\ Len(Rows) \in Nat
  <2>1. Rows \in Seq(Seq(Piece))
    BY <1>1, Buffers
  <2>2. Len(Rows) \in Nat
    BY <2>1
  <2> QED BY <1>1, <2>2 DEF Typed
<1>6. /\ results' \in Seq({0, 1, Killed}) /\ Len(results') = Len(results) + 1
      /\ \A i \in 1 .. Len(results) : results'[i] = results[i]
  BY <1>3, <1>5
<1>7. pc'["command"] = "ended" /\ DOMAIN pc' = Procs /\ \A q \in Procs \ {"command"} : pc'[q] = pc[q]
  BY <1>1, <1>2 DEF Typed, Procs
<1>8. readers' \in [Pipes -> SUBSET Procs] /\ writers' \in [Pipes -> SUBSET Procs]
  BY <1>1, <1>2, HeldType DEF Typed
<1>9. pc'["exec"] = pc["exec"]
  BY <1>7 DEF Procs
<1>10. Typed' /\ Alone' /\ InOrder' /\ SourceHolds' /\ HadRight'
  BY <1>2, <1>6, <1>7, <1>8, <1>9, ExecTurns
<1>11. Rows' = Rows
  BY <1>2 DEF Rows
<1>12. GoodButLast'
  <2>1. DOMAIN results' = 1 .. Len(results) + 1 /\ DOMAIN results = 1 .. Len(results)
    BY <1>5, <1>6
  <2>2. \A i \in 1 .. Len(results) + 1 : i # Len(results) + 1 => i \in 1 .. Len(results)
    BY <1>5
  <2> QED BY <1>4, <1>6, <2>1, <2>2 DEF Good, GoodButLast
<1>13. Len(results') = Len(Rows') - 1 /\ Len(Rows') > 1
  BY <1>4, <1>5, <1>6, <1>11
<1>14. status'["exec"] = Running
  BY <1>2, <1>4
<1>15. Stages'
  BY <1>4, <1>7, <1>9, <1>12, <1>13, <1>14 DEF Stages
<1> QED BY <1>10, <1>15 DEF ExecInv

\* What is read from the pipe is what comes next of the stream.
LEMMA OrderRead ==
    ASSUME Is("exec"), Typed, InOrder, NEW n \in 0 .. Len(data["in"]), UNCHANGED <<job, left, pend>>,
           data' = [data EXCEPT !["in"] = From(@, n)]
    PROVE  /\ InOrder' /\ Passed' = Passed + n
           /\ data' \in [Pipes -> Seq(Piece)]
           /\ SubSeq(data["in"], 1, n) = SubSeq(job.stream, Passed + 1, Passed + n)
           /\ Passed + n <= Len(job.stream)
<1> DEFINE d == data["in"]
           s == job.stream
<1>1. /\ s \in Seq(Piece) /\ Len(s) \in Nat /\ Len(left) \in Nat /\ Len(pend["in"]) \in Nat
      /\ Len(d) \in Nat /\ d \in Seq(Piece) /\ Passed \in Nat
      /\ Written = Passed + Len(d) /\ Written <= Len(s)
  BY Sizes
<1>2. /\ From(d, n) \in Seq(Piece) /\ Len(From(d, n)) = Len(d) - n
      /\ \A k \in 1 .. Len(d) - n : From(d, n)[k] = d[n + k]
      /\ SubSeq(d, 1, n) \in Seq(Piece) /\ Len(SubSeq(d, 1, n)) = n
      /\ \A k \in 1 .. n : SubSeq(d, 1, n)[k] = d[k]
  BY <1>1, CutAt
<1>3. /\ data' \in [Pipes -> Seq(Piece)] /\ data'["in"] = From(d, n)
  BY <1>2 DEF Typed, Pipes
<1>4. n \in Nat /\ n <= Len(d)
  BY <1>1
<1>5. Passed' = Passed + n /\ Written' = Written
  <2> DEFINE l == Len(s)
             x == Len(left)
             y == Len(pend["in"])
             z == Len(d)
  <2>1. Passed = l - x - y - z /\ Written = l - x - y
    BY DEF Passed, Written
  <2>2. Passed' = l - x - y - (z - n) /\ Written' = l - x - y
    BY <1>2, <1>3 DEF Passed, Written
  <2>3. l \in Nat /\ x \in Nat /\ y \in Nat /\ z \in Nat
    BY <1>1
  <2> HIDE DEF l, x, y, z
  <2> QED BY <1>4, <2>1, <2>2, <2>3
<1>6. \A k \in 1 .. Len(d) : d[k] = s[Passed + k]
  BY DEF InOrder, Follows
<1>7. Passed + n <= Len(s)
  <2> DEFINE l == Len(s)
             z == Len(d)
  <2>1. l \in Nat /\ z \in Nat /\ Written = Passed + z /\ Written <= l /\ n <= z
    BY <1>1, <1>4
  <2> HIDE DEF l, z
  <2>2. Passed + n <= l
    BY <1>1, <1>4, <2>1
  <2> QED BY <2>2 DEF l
<1>8. SubSeq(d, 1, n) = SubSeq(s, Passed + 1, Passed + n)
  <2> DEFINE m == Passed + 1
             j == Passed + n
             a == SubSeq(d, 1, n)
             t == SubSeq(s, m, j)
  <2>1. m \in Nat \ {0} /\ j \in Nat /\ m <= j + 1 /\ j <= Len(s) /\ j - m + 1 = n
        /\ \A k \in Int : m + k - 1 = Passed + k
    BY <1>1, <1>4, <1>7
  <2> HIDE DEF m, j, s, d
  <2>2. t \in Seq(Piece) /\ Len(t) = j - m + 1 /\ \A k \in 1 .. j - m + 1 : t[k] = s[m + k - 1]
    BY <1>1, <2>1, StretchElements
  <2> HIDE DEF a, t
  <2>3. \A k \in 1 .. n : k \in 1 .. j - m + 1 /\ k \in 1 .. Len(d) /\ m + k - 1 = Passed + k
    BY <1>1, <1>4, <2>1
  <2>4. \A k \in 1 .. n : a[k] = t[k]
    BY <1>2, <1>6, <2>2, <2>3 DEF a
  <2>5. a \in Seq(Piece) /\ Len(a) = n /\ Len(t) = n
    BY <1>2, <2>1, <2>2 DEF a
  <2>6. a = t
    BY ONLY <2>2, <2>4, <2>5, SeqEqual
  <2> QED BY <2>6 DEF a, t, m, j
<1>9. InOrder'
  <2>1. Follows(left, Written + Len(pend["in"])) /\ Follows(pend["in"], Written)
    BY DEF InOrder
  <2>2. Follows(left, Written + Len(pend["in"]))' /\ Follows(pend["in"], Written)'
    BY <1>5, <2>1 DEF Follows
  <2>3. Follows(data["in"], Passed)'
    <3> SUFFICES ASSUME NEW i \in 1 .. Len(From(d, n)) PROVE From(d, n)[i] = s[(Passed + n) + i]
      BY <1>3, <1>5 DEF Follows
    <3> DEFINE k == n + i
    <3>1. i \in 1 .. Len(d) - n /\ k \in 1 .. Len(d) /\ (Passed + n) + i = Passed + k
      BY <1>1, <1>2, <1>4
    <3>2. From(d, n)[i] = d[k]
      BY <1>2, <3>1
    <3> HIDE DEF k, d, s
    <3> QED BY <1>6, <3>1, <3>2
  <2>4. Passed' \in Nat
    BY <1>1, <1>4, <1>5
  <2> QED BY <2>2, <2>3, <2>4 DEF InOrder
<1> QED BY <1>3, <1>5, <1>7, <1>8, <1>9

\* The stream is read on from where no command has taken anything.
LEMMA UntakenOn ==
    ASSUME Is("exec"), Typed, InOrder, HadRight, NEW n \in Nat, Passed + n <= Len(job.stream)
    PROVE  Untaken[Passed + n] = Untaken[Passed] \o SubSeq(job.stream, Passed + 1, Passed + n)
<1> DEFINE s == job.stream
           m == Passed + n
<1>1. s \in Seq(Piece) /\ Len(s) \in Nat /\ Passed \in 0 .. Len(s)
  BY Sizes
<1>2. m \in Passed .. Len(s) /\ \A k \in Passed + 1 .. m : k \notin taken
  <2>1. taken \subseteq 1 .. Passed
    BY DEF HadRight
  <2> QED BY <1>1, <2>1
<1> HIDE DEF s, m
<1>3. Kept(s, taken)[m] = Kept(s, taken)[Passed] \o SubSeq(s, Passed + 1, m)
  BY <1>1, <1>2, KeptOn
<1> QED BY <1>3, UntakenKept DEF s, m

LEMMA PullStep == ExecInv /\ Is("exec") /\ Pull("exec") => ExecInv'
<1> SUFFICES ASSUME ExecInv, Is("exec"), Pull("exec") PROVE ExecInv'
  OBVIOUS
<1> DEFINE d == data["in"]
           n == IF Len(d) < StdioSize THEN Len(d) ELSE StdioSize
           x == SubSeq(d, 1, n)
           c == ctx["exec"]
           flat == FlattenSeq(Rows)
<1>1. Typed /\ Alone /\ InOrder /\ SourceHolds /\ HadRight /\ Stages
  BY DEF ExecInv
<1>2. /\ n > 0 /\ data' = [data EXCEPT !["in"] = From(@, n)]
      /\ ctx' = [ctx EXCEPT !["exec"].file = @ \o x]
      /\ UNCHANGED <<job, pc, status, readers, writers, pend, due, left, got, received, screen, taken, results>>
  BY DEF Pull, Stdin, ends, stdio, told
<1>3. d \in Seq(Piece) /\ Len(d) \in Nat /\ n \in 0 .. Len(d) /\ n \in Nat
  <2>1. d \in Seq(Piece) /\ Len(d) \in Nat
    BY <1>1, Sizes
  <2> QED BY <2>1, PipesAssumption
<1>4. /\ InOrder' /\ Passed' = Passed + n /\ data' \in [Pipes -> Seq(Piece)]
      /\ x = SubSeq(job.stream, Passed + 1, Passed + n) /\ Passed + n <= Len(job.stream)
  <2> HIDE DEF n
  <2> QED BY <1>1, <1>2, <1>3, OrderRead DEF x
<1>5. x \in Seq(Piece)
  <2> HIDE DEF n, d
  <2> QED BY <1>3, CutAt
<1>6. ~c.eof
  <2>1. d # <<>>
    <3>1. Len(d) # 0
      BY <1>2, <1>3
    <3>2. Len(<<>>) = 0
      OBVIOUS
    <3> QED BY <3>1, <3>2
  <2> QED BY <1>1, <2>1 DEF HadRight, Closed
<1> HIDE DEF n, x
<1>7. /\ c \in Contexts /\ c.buf \in Seq(Piece) /\ c.file \in Seq(Piece) /\ flat \in Seq(Piece)
      /\ c.buflen \in Nat /\ c.eof \in BOOLEAN
  BY <1>1, Buffers DEF Buf
<1>8. c.file \o x \in Seq(Piece)
  BY <1>5, <1>7, Associated
<1>9. ctx' = [ctx EXCEPT !["exec"] = [file |-> c.file \o x, buf |-> c.buf, buflen |-> c.buflen, eof |-> c.eof]]
  BY <1>1, <1>2, OneField DEF Typed
<1>10. /\ ctx' \in [Procs -> Contexts]
       /\ ctx'["exec"] = [file |-> c.file \o x, buf |-> c.buf, buflen |-> c.buflen, eof |-> c.eof]
  <2>1. [file |-> c.file \o x, buf |-> c.buf, buflen |-> c.buflen, eof |-> c.eof] \in Contexts
    BY <1>7, <1>8 DEF Contexts
  <2> QED BY <1>1, <1>9, <2>1 DEF Typed, Procs
<1>11. Buf("exec")' = Buf("exec") /\ ctx'["exec"].eof = ctx["exec"].eof /\ ctx'["exec"].file = c.file \o x
  BY <1>10 DEF Buf
<1>12. Piece' = Piece
  BY <1>2 DEF Piece
<1>13. Typed'
  BY <1>1, <1>2, <1>4, <1>10, <1>12 DEF Typed, Contexts
<1>14. Alone'
  BY <1>1, <1>2 DEF Alone
<1>15. SourceHolds'
  BY <1>1, <1>2 DEF SourceHolds
<1>16. Rows' = Rows
  BY <1>2 DEF Rows
<1>17. HadRight'
  <2>1. Had' = Had \o x
    <3> DEFINE u == c.buf
               v == c.file
    <3>1. Had = flat \o (u \o v) /\ Had' = flat \o (u \o (v \o x))
      BY <1>11, <1>16 DEF Had, Buf
    <3>2. u \in Seq(Piece) /\ v \in Seq(Piece)
      BY <1>7
    <3>4. flat \in Seq(Piece)
      BY <1>7
    <3> HIDE DEF u, v, flat
    <3>3. (flat \o (u \o v)) \o x = flat \o (u \o (v \o x))
      <4> DEFINE S == Piece
      <4>1. flat \in Seq(S) /\ u \in Seq(S) /\ v \in Seq(S) /\ x \in Seq(S)
        BY <1>5, <3>2, <3>4
      <4> HIDE DEF S
      <4>2. u \o v \in Seq(S)
        BY ONLY <4>1
      <4>3. (flat \o (u \o v)) \o x = flat \o ((u \o v) \o x)
        BY ONLY <4>1, <4>2
      <4>4. (u \o v) \o x = u \o (v \o x)
        BY ONLY <4>1
      <4> QED BY ONLY <4>3, <4>4
    <3> QED BY <3>1, <3>3
  <2>2. Untaken[Passed + n] = Had \o x
    BY <1>1, <1>3, <1>4, UntakenOn DEF HadRight
  <2>3. Untaken' = Untaken
    BY <1>2 DEF Untaken
  <2>4. Had' = Untaken'[Passed']
    BY <1>4, <2>1, <2>2, <2>3
  <2>5. taken' \subseteq 1 .. Passed'
    <3>1. taken \subseteq 1 .. Passed /\ Passed \in Nat
      BY <1>1 DEF HadRight, InOrder
    <3> QED BY <1>2, <1>3, <1>4, <3>1
  <2>6. Whole(Rows)'
    BY <1>1, <1>16 DEF HadRight, Whole
  <2>7. ~ctx'["exec"].eof
    BY <1>6, <1>11
  <2>8. pc'["exec"] = "header" => Rows' = <<>> /\ Buf("exec")' = <<>> /\ taken' = {}
    BY <1>1, <1>2, <1>11, <1>16 DEF HadRight
  <2>9. Len(Buf("exec")') <= ctx'["exec"].buflen
    BY <1>1, <1>10, <1>11 DEF HadRight
  <2> QED BY <2>4, <2>5, <2>6, <2>7, <2>8, <2>9 DEF HadRight
<1>18. Stages'
  BY <1>1, <1>2, <1>11, StagesKept
<1> QED BY <1>4, <1>13, <1>14, <1>15, <1>17, <1>18 DEF ExecInv

\* The parser moves what it has; nothing else changes.
LEMMA ParserMoves ==
    ASSUME ExecInv, Is("exec"), UNCHANGED <<job, status, writers, data, pend, due, left, taken, results>>,
           DOMAIN pc' = Procs, \A q \in Procs \ {"exec", "command"} : pc'[q] = pc[q], pc'["exec"] # "header",
           readers' \in [Pipes -> SUBSET Procs],
           ctx' \in [Procs -> Contexts], got' \in [Procs -> Seq(Seq(Piece))],
           Had' = Had, Whole(Rows)', ctx'["exec"].eof => ctx'["exec"].file = <<>> /\ Closed("in"),
           Len(Buf("exec")') <= ctx'["exec"].buflen
    PROVE  Typed' /\ Alone' /\ InOrder' /\ SourceHolds' /\ HadRight'
<1>1. Typed /\ Alone /\ InOrder /\ SourceHolds /\ HadRight
  BY DEF ExecInv
<1>2. Piece' = Piece
  BY DEF Piece
<1>3. Typed'
  BY <1>1, <1>2 DEF Typed, Contexts
<1>4. Alone'
  BY <1>1 DEF Alone, Procs
<1>5. InOrder' /\ Passed' = Passed
  BY <1>1, OrderKept
<1>6. SourceHolds'
  BY <1>1 DEF SourceHolds, Procs
<1>7. HadRight'
  <2>1. Untaken' = Untaken
    BY DEF Untaken
  <2>2. Had' = Untaken'[Passed'] /\ taken' \subseteq 1 .. Passed'
    BY <1>1, <1>5, <2>1 DEF HadRight
  <2>3. Closed("in")' = Closed("in")
    BY DEF Closed
  <2>4. ctx'["exec"].eof => ctx'["exec"].file = <<>> /\ Closed("in")'
    BY <2>3
  <2> QED BY <2>2, <2>4 DEF HadRight
<1> QED BY <1>3, <1>4, <1>5, <1>6, <1>7

LEMMA FreadStep == ExecInv /\ Is("exec") /\ Fread("exec") => ExecInv'
<1> SUFFICES ASSUME ExecInv, Is("exec"), Fread("exec") PROVE ExecInv'
  OBVIOUS
<1> DEFINE c == ctx["exec"]
           short == Short("exec")
           w == Wanted("exec")
           n == IF short THEN Len(c.file) ELSE w - Len(c.buf)
           new == [file |-> From(c.file, n), buf |-> c.buf \o SubSeq(c.file, 1, n), buflen |-> w, eof |-> short]
           flat == FlattenSeq(Rows)
<1>1. Typed /\ Alone /\ InOrder /\ SourceHolds /\ HadRight /\ Stages
  BY DEF ExecInv
<1>2. /\ pc["exec"] = "read" /\ (short => Closed("in")) /\ ctx' = [ctx EXCEPT !["exec"] = new]
      /\ UNCHANGED <<job, pc, status, readers, writers, data, pend, due, left, got, received, screen, taken, results>>
  BY DEF Fread, Scanned, At, Stdin, Buf, ends, stdio, told
<1>3. /\ c \in Contexts /\ c.buf \in Seq(Piece) /\ c.file \in Seq(Piece) /\ flat \in Seq(Piece)
      /\ c.buflen \in Nat
  BY <1>1, Buffers DEF Buf
<1>4. /\ n \in 0 .. Len(c.file) /\ w \in Nat /\ short \in BOOLEAN
      /\ Len(c.buf) + n <= w /\ (short => n = Len(c.file))
  <2> DEFINE lb == Len(c.buf)
             lf == Len(c.file)
  <2>1. lb \in Nat /\ lf \in Nat /\ lb <= c.buflen
    BY <1>1, <1>3 DEF HadRight, Buf
  <2>2. w \in Nat /\ lb <= w
    <3>1. Grow \in Nat \ {0}
      BY PipesAssumption
    <3>2. w = IF lb = c.buflen THEN c.buflen + Grow ELSE c.buflen
      BY DEF Wanted, Buf
    <3> HIDE DEF w, lb, c
    <3> QED BY <1>3, <2>1, <3>1, <3>2
  <2>3. short \in BOOLEAN /\ (short <=> lb + lf < w)
    BY DEF Short, Buf
  <2>4. n = IF short THEN lf ELSE w - lb
    OBVIOUS
  <2> HIDE DEF n, short, w, lb, lf
  <2>5. /\ n \in 0 .. lf /\ short \in BOOLEAN /\ lb + n <= w /\ (short => n = lf)
    BY <2>1, <2>2, <2>3, <2>4
  <2> QED BY <2>2, <2>5 DEF lb, lf
<1> DEFINE u == c.buf
           v == c.file
           x == SubSeq(v, 1, n)
           y == From(v, n)
<1>5. new = [file |-> y, buf |-> u \o x, buflen |-> w, eof |-> short]
  OBVIOUS
<1> HIDE DEF new, n, short, w
<1>6. u \in Seq(Piece) /\ v \in Seq(Piece) /\ n \in 0 .. Len(v)
  BY <1>3, <1>4
<1> HIDE DEF u, v
<1>7. /\ y \in Seq(Piece) /\ Len(y) = Len(v) - n
      /\ x \in Seq(Piece) /\ Len(x) = n /\ v = x \o y
  BY <1>6, CutAt
<1> HIDE DEF x, y
<1>8. /\ u \o x \in Seq(Piece) /\ Len(u \o x) = Len(u) + n
      /\ (u \o x) \o y = u \o v
  <2>1. Len(u \o x) = Len(u) + Len(x)
    BY <1>6, <1>7, ConcatProperties
  <2> QED BY <1>6, <1>7, <2>1, Associated
<1>9. new \in Contexts
  BY <1>4, <1>5, <1>7, <1>8 DEF Contexts
<1>10. ctx' \in [Procs -> Contexts] /\ ctx'["exec"] = new
  BY <1>1, <1>2, <1>9 DEF Typed, Procs
<1>11. Buf("exec")' = u \o x /\ ctx'["exec"].file = y /\ ctx'["exec"].buflen = w /\ ctx'["exec"].eof = short
  BY <1>5, <1>10 DEF Buf
<1>12. Rows' = Rows
  BY <1>2 DEF Rows
<1>13. Had' = Had
  <2>1. Had = flat \o (u \o v)
    BY DEF Had, Buf, u, v
  <2>2. Had' = flat \o ((u \o x) \o y)
    BY <1>11, <1>12 DEF Had
  <2> QED BY <1>8, <2>1, <2>2
<1>14. Whole(Rows)'
  BY <1>1, <1>12 DEF HadRight, Whole
<1>15. ctx'["exec"].eof => ctx'["exec"].file = <<>> /\ Closed("in")
  <2> SUFFICES ASSUME short PROVE y = <<>> /\ Closed("in")
    BY <1>11
  <2>1. Len(v) = n /\ Len(v) \in Nat
    BY <1>4, <1>6 DEF v
  <2>2. Len(y) = 0
    BY <1>7, <2>1
  <2> QED BY <1>2, <1>7, <2>2, EmptySeq
<1>16. Len(Buf("exec")') <= ctx'["exec"].buflen
  BY <1>4, <1>8, <1>11 DEF u
<1>17. got' \in [Procs -> Seq(Seq(Piece))] /\ readers' \in [Pipes -> SUBSET Procs] /\ DOMAIN pc' = Procs
  BY <1>1, <1>2 DEF Typed
<1>18. Typed' /\ Alone' /\ InOrder' /\ SourceHolds' /\ HadRight'
  BY <1>2, <1>10, <1>13, <1>14, <1>15, <1>16, <1>17, ParserMoves
<1>19. Stages'
  <2>1. status["exec"] = Running /\ pc["command"] \in {"none", "ended"} /\ Len(results) = Len(Rows) - 1 /\ Good
    BY <1>1, <1>2 DEF Stages
  <2>2. Len(results') = Len(Rows') - 1 /\ Good'
    BY <1>2, <1>12, <2>1 DEF Good
  <2> QED BY <1>2, <2>1, <2>2 DEF Stages
<1> QED BY <1>18, <1>19 DEF ExecInv

-----------------------------------------------------------------------------
(* csv-exec takes a row, a command reads *)

\* One more row
LEMMA RowAdded ==
    ASSUME NEW S, NEW rows \in Seq(Seq(S)), Whole(rows), NEW r \in Seq(S), r # <<>>, r[Len(r)].last,
           \A i \in 1 .. Len(r) : ~r[i].bad, \A i \in 1 .. Len(r) : i # Len(r) => ~r[i].last
    PROVE  /\ Append(rows, r) \in Seq(Seq(S)) /\ Whole(Append(rows, r))
           /\ FlattenSeq(rows) \in Seq(S) /\ FlattenSeq(Append(rows, r)) = FlattenSeq(rows) \o r
<1>1. FlattenSeq(rows) \in Seq(S) /\ FlattenSeq(Append(rows, r)) = FlattenSeq(rows) \o r
  BY FlattenType, FlattenAppend
<1>2. Append(rows, r) \in Seq(Seq(S))
  <2> DEFINE R == Seq(S)
  <2>1. rows \in Seq(R) /\ r \in R
    OBVIOUS
  <2> HIDE DEF R
  <2>2. Append(rows, r) \in Seq(R)
    BY <2>1
  <2> QED BY <2>2 DEF R
<1>3. Whole(Append(rows, r))
  <2> DEFINE a == FlattenSeq(rows)
  <2>1. a \in Seq(S) /\ Parsed(a) = [rows |-> rows, part |-> <<>>, bad |-> FALSE]
    BY <1>1 DEF Whole
  <2> HIDE DEF a
  <2>2. Parsed(a \o r) = [rows |-> Append(rows, r), part |-> <<>>, bad |-> FALSE]
    BY <2>1, ParsedRow
  <2> QED BY <1>1, <2>2 DEF Whole, a
<1> QED BY <1>1, <1>2, <1>3

LEMMA ExecRowStep == ExecInv /\ Is("exec") /\ ExecRow => ExecInv'
<1> SUFFICES ASSUME ExecInv, Is("exec"), ExecRow PROVE ExecInv'
  OBVIOUS
<1> DEFINE c == ctx["exec"]
           u == Buf("exec")
           v == c.file
           r == FirstRow(u)
           y == From(u, Len(r))
           flat == FlattenSeq(Rows)
           new == [file |-> v, buf |-> y, buflen |-> c.buflen, eof |-> c.eof]
<1>1. Typed /\ Alone /\ InOrder /\ SourceHolds /\ HadRight /\ Stages
  BY DEF ExecInv
<1>2. /\ pc["exec"] = "read" /\ HasRow("exec") /\ ~Corrupted("exec")
      /\ got' = [got EXCEPT !["exec"] = Append(@, NextRowOf("exec"))]
      /\ ctx' = [ctx EXCEPT !["exec"].buf = From(@, Len(NextRowOf("exec")))]
      /\ pc' = [pc EXCEPT !["exec"] = "wait", !["command"] = "run"]
      /\ readers' = [readers EXCEPT !["in"] = @ \cup {"command"}]
      /\ UNCHANGED <<job, status, writers, data, pend, due, left, received, screen, taken, results>>
  BY DEF ExecRow, TakeRow, At, stdio, told
<1>3. Lasts(u) # {} /\ NextRowOf("exec") = r
  BY <1>2 DEF HasRow, NextRowOf
<1>4. \A i \in DOMAIN r : ~r[i].bad
  <2>1. At("exec", "read")
    BY <1>2 DEF At, Idle, Prints
  <2> HIDE DEF r
  <2> QED BY <1>2, <1>3, <2>1 DEF Corrupted
<1>5. /\ c \in Contexts /\ u \in Seq(Piece) /\ v \in Seq(Piece) /\ flat \in Seq(Piece)
      /\ c.buflen \in Nat /\ c.eof \in BOOLEAN /\ Rows \in Seq(Seq(Piece))
  BY <1>1, Buffers
<1>6. ctx' = [ctx EXCEPT !["exec"] = new]
  <2>1. ctx' = [ctx EXCEPT !["exec"].buf = y]
    BY <1>2, <1>3 DEF Buf
  <2> HIDE DEF y
  <2> QED BY <1>1, <2>1, OneField DEF Typed
<1> HIDE DEF u, v, new
<1>7. /\ r \in Seq(Piece) /\ Len(r) \in 1 .. Len(u) /\ r # <<>>
      /\ r[Len(r)].last /\ \A i \in 1 .. Len(r) : i # Len(r) => ~r[i].last
      /\ y \in Seq(Piece) /\ u = r \o y
  BY <1>3, <1>5, FirstRowRight
<1>8. Len(y) <= Len(u) /\ Len(y) \in Nat
  <2>1. Len(r) \in 0 .. Len(u) /\ Len(u) \in Nat /\ Len(r) \in Nat
    BY <1>5, <1>7
  <2> HIDE DEF r
  <2>2. Len(From(u, Len(r))) = Len(u) - Len(r)
    BY <1>5, <2>1, CutAt
  <2> QED BY <1>7, <2>1, <2>2
<1> HIDE DEF r, y
<1>9. \A i \in 1 .. Len(r) : ~r[i].bad
  BY <1>4, <1>7
<1>10. /\ Append(Rows, r) \in Seq(Seq(Piece)) /\ Whole(Append(Rows, r))
       /\ FlattenSeq(Append(Rows, r)) = flat \o r
  <2>1. Whole(Rows)
    BY <1>1 DEF HadRight
  <2> QED BY <1>5, <1>7, <1>9, <2>1, RowAdded
<1>11. got' \in [Procs -> Seq(Seq(Piece))] /\ Rows' = Append(Rows, r)
  <2>1. got' = [got EXCEPT !["exec"] = Append(Rows, r)]
    BY <1>2, <1>3 DEF Rows
  <2>2. got' \in [Procs -> Seq(Seq(Piece))] /\ got'["exec"] = Append(Rows, r)
    BY <1>1, <1>10, <2>1 DEF Typed, Procs
  <2> QED BY <2>2 DEF Rows
<1>12. ctx' \in [Procs -> Contexts] /\ ctx'["exec"] = new
  <2>1. new \in Contexts
    BY <1>5, <1>7 DEF new, Contexts
  <2> QED BY <1>1, <1>6, <2>1 DEF Typed, Procs
<1>13. Buf("exec")' = y /\ ctx'["exec"].file = v /\ ctx'["exec"].buflen = c.buflen /\ ctx'["exec"].eof = c.eof
  BY <1>12 DEF Buf, new
<1>14. Had' = Had
  <2>1. Had = flat \o (u \o v)
    BY DEF Had, u, v
  <2>2. Had' = FlattenSeq(Append(Rows, r)) \o (y \o v)
    BY <1>11, <1>13 DEF Had
  <2> HIDE DEF flat
  <2> DEFINE S == Piece
  <2>5. flat \in Seq(S) /\ r \in Seq(S) /\ y \in Seq(S) /\ v \in Seq(S)
    BY <1>5, <1>7
  <2> HIDE DEF S
  <2>3. (flat \o r) \o (y \o v) = flat \o (r \o (y \o v))
    <3>1. y \o v \in Seq(S)
      BY ONLY <2>5
    <3> DEFINE yv == y \o v
    <3> HIDE DEF yv
    <3>2. yv \in Seq(S)
      BY <3>1 DEF yv
    <3>3. (flat \o r) \o yv = flat \o (r \o yv)
      BY ONLY <2>5, <3>2
    <3> QED BY <3>3 DEF yv
  <2>4. r \o (y \o v) = (r \o y) \o v
    BY ONLY <2>5
  <2> QED BY <1>7, <1>10, <2>1, <2>2, <2>3, <2>4
<1>15. Whole(Rows)'
  BY <1>10, <1>11 DEF Whole
<1>16. ctx'["exec"].eof => ctx'["exec"].file = <<>> /\ Closed("in")
  BY <1>1, <1>13 DEF HadRight, v
<1>17. Len(Buf("exec")') <= ctx'["exec"].buflen
  <2>1. Len(u) <= c.buflen
    BY <1>1 DEF HadRight, u
  <2>2. Len(u) \in Nat
    BY <1>5
  <2> QED BY <1>5, <1>8, <1>13, <2>1, <2>2
<1>18. /\ DOMAIN pc' = Procs /\ pc'["exec"] = "wait" /\ pc'["command"] = "run"
       /\ \A q \in Procs \ {"exec", "command"} : pc'[q] = pc[q]
       /\ readers' \in [Pipes -> SUBSET Procs]
  BY <1>1, <1>2 DEF Typed, Procs, Pipes
<1>19. Typed' /\ Alone' /\ InOrder' /\ SourceHolds' /\ HadRight'
  BY <1>2, <1>11, <1>12, <1>14, <1>15, <1>16, <1>17, <1>18, ParserMoves
<1>20. Stages'
  <2>1. status["exec"] = Running /\ Len(results) = Len(Rows) - 1 /\ Good
    BY <1>1, <1>2 DEF Stages
  <2>2. Len(Rows') = Len(Rows) + 1 /\ Len(Rows) \in Nat
    BY <1>5, <1>7, <1>11
  <2>3. Len(results') = Len(Rows') - 2 /\ Good'
    BY <1>2, <2>1, <2>2 DEF Good
  <2> QED BY <1>2, <1>18, <2>1, <2>3 DEF Stages
<1> QED BY <1>19, <1>20 DEF ExecInv

\* While no command has run, what csv-exec has had is the stream.
LEMMA FromTheStart ==
    ASSUME Is("exec"), Typed, InOrder, HadRight, taken = {}
    PROVE  Len(Had) = Passed /\ \A k \in 1 .. Passed : Had[k] = job.stream[k]
<1> DEFINE s == job.stream
<1>1. s \in Seq(Piece) /\ Len(s) \in Nat /\ Passed \in 0 .. Len(s)
  BY Sizes
<1>2. Had = Kept(s, taken)[Passed]
  BY UntakenKept DEF HadRight
<1> HIDE DEF s
<1>3. Kept(s, taken)[0] = <<>>
  BY <1>1, KeptByStep
<1>4. Kept(s, taken)[Passed] = Kept(s, taken)[0] \o SubSeq(s, 0 + 1, Passed)
  <2>1. 0 \in 0 .. Len(s) /\ Passed \in 0 .. Len(s)
    BY <1>1
  <2>2. \A k \in 0 + 1 .. Passed : k \notin taken
    OBVIOUS
  <2> QED BY <1>1, <2>1, <2>2, KeptOn
<1>5. /\ SubSeq(s, 1, Passed) \in Seq(Piece) /\ Len(SubSeq(s, 1, Passed)) = Passed
      /\ \A k \in 1 .. Passed : SubSeq(s, 1, Passed)[k] = s[k]
  BY <1>1, CutAt
<1>6. Had = SubSeq(s, 1, Passed)
  BY <1>2, <1>3, <1>4, <1>5, Associated
<1> QED BY <1>5, <1>6 DEF s

LEMMA ExecHeaderStep == ExecInv /\ Is("exec") /\ ExecHeader => ExecInv'
<1> SUFFICES ASSUME ExecInv, Is("exec"), ExecHeader PROVE ExecInv'
  OBVIOUS
<1> DEFINE c == ctx["exec"]
           v == c.file
           r == FirstRow(v)
           y == From(v, Len(r))
           new == [file |-> y, buf |-> c.buf, buflen |-> c.buflen, eof |-> c.eof]
<1>1. Typed /\ Alone /\ InOrder /\ SourceHolds /\ HadRight /\ Stages
  BY DEF ExecInv
<1>2. /\ At("exec", "header") /\ ~NeedsHeader("exec")
      /\ got' = [got EXCEPT !["exec"] = <<r>>]
      /\ ctx' = [ctx EXCEPT !["exec"].file = y]
      /\ pc' = [pc EXCEPT !["exec"] = "read"]
      /\ UNCHANGED <<job, status, readers, writers, data, pend, due, left, received, screen, taken, results>>
  BY DEF ExecHeader, TakeHeader, Goto, ends, stdio, told
<1>3. Lasts(v) # {} /\ pc["exec"] = "header"
  BY <1>2 DEF NeedsHeader, At
<1>4. /\ c \in Contexts /\ c.buf \in Seq(Piece) /\ v \in Seq(Piece)
      /\ c.buflen \in Nat /\ c.eof \in BOOLEAN
  BY <1>1, Buffers DEF Buf
<1>5. Rows = <<>> /\ c.buf = <<>> /\ taken = {} /\ Len(c.buf) <= c.buflen
  BY <1>1, <1>3 DEF HadRight, Buf
<1>6. Had = v
  <2>1. Had = <<>> \o (<<>> \o v)
    BY <1>5, FlattenEmpty DEF Had, Buf
  <2> HIDE DEF v
  <2> QED BY <1>4, <2>1, Associated
<1>7. ctx' = [ctx EXCEPT !["exec"] = new]
  <2>1. ctx' = [ctx EXCEPT !["exec"].file = y]
    BY <1>2
  <2> HIDE DEF y
  <2> QED BY <1>1, <2>1, OneField DEF Typed
<1> HIDE DEF v, new
<1>8. /\ r \in Seq(Piece) /\ Len(r) \in 1 .. Len(v) /\ r # <<>> /\ \A i \in 1 .. Len(r) : r[i] = v[i]
      /\ r[Len(r)].last /\ \A i \in 1 .. Len(r) : i # Len(r) => ~r[i].last
      /\ y \in Seq(Piece) /\ v = r \o y
  BY <1>3, <1>4, FirstRowRight
<1> HIDE DEF r, y
<1>9. \A i \in 1 .. Len(r) : ~r[i].bad
  <2> DEFINE s == job.stream
             l == Len(s)
             m == Len(r)
  <2>1. Len(v) = Passed /\ \A k \in 1 .. Passed : v[k] = s[k]
    BY <1>1, <1>5, <1>6, FromTheStart
  <2>2. s \in Seq(Piece) /\ l \in Nat /\ Passed \in 0 .. l /\ DOMAIN s = 1 .. l
    BY <1>1, Sizes
  <2>3. \A i \in 1 .. l : s[i].bad => \E k \in 1 .. i - 1 : s[k].last
    BY <1>1, <2>2, PipesAssumption DEF Typed
  <2>4. m \in 1 .. Passed
    BY <1>8, <2>1
  <2> HIDE DEF s, l, m
  <2>5. \A i \in 1 .. m : i \in 1 .. l /\ r[i] = s[i]
    BY <1>8, <2>1, <2>2, <2>4 DEF m
  <2> SUFFICES ASSUME NEW i \in 1 .. m, r[i].bad PROVE FALSE
    BY DEF m
  <2>6. PICK k \in 1 .. i - 1 : s[k].last
    BY <2>3, <2>5
  <2>7. k \in 1 .. m /\ k # m
    BY <2>4
  <2> QED BY <1>8, <2>5, <2>6, <2>7 DEF m
<1>10. /\ <<r>> \in Seq(Seq(Piece)) /\ Whole(<<r>>) /\ FlattenSeq(<<r>>) = r
  <2> DEFINE none == <<>>
  <2>1. none \in Seq(Seq(Piece)) /\ FlattenSeq(none) = <<>> /\ Append(none, r) = <<r>>
    BY FlattenEmpty
  <2>2. Whole(none)
    BY <2>1, ParsedNothing DEF Whole, Unparsed
  <2> HIDE DEF none
  <2>3. /\ Append(none, r) \in Seq(Seq(Piece)) /\ Whole(Append(none, r))
        /\ FlattenSeq(Append(none, r)) = FlattenSeq(none) \o r
    BY <1>8, <1>9, <2>1, <2>2, RowAdded
  <2> QED BY <1>8, <2>1, <2>3, Associated
<1>11. got' \in [Procs -> Seq(Seq(Piece))] /\ Rows' = <<r>>
  BY <1>1, <1>2, <1>10 DEF Typed, Procs, Rows
<1>12. ctx' \in [Procs -> Contexts] /\ ctx'["exec"] = new
  <2>1. new \in Contexts
    BY <1>4, <1>8 DEF new, Contexts
  <2> QED BY <1>1, <1>7, <2>1 DEF Typed, Procs
<1>13. Buf("exec")' = <<>> /\ ctx'["exec"].file = y /\ ctx'["exec"].buflen = c.buflen /\ ctx'["exec"].eof = c.eof
  BY <1>5, <1>12 DEF Buf, new
<1>14. Had' = Had
  <2>1. Had' = r \o (<<>> \o y)
    BY <1>10, <1>11, <1>13 DEF Had
  <2> QED BY <1>6, <1>8, <2>1, Associated
<1>15. Whole(Rows)'
  BY <1>10, <1>11 DEF Whole
<1>16. ctx'["exec"].eof => ctx'["exec"].file = <<>> /\ Closed("in")
  <2>1. v # <<>>
    <3>1. Len(v) # 0
      BY <1>8
    <3>2. Len(<<>>) = 0
      OBVIOUS
    <3> QED BY <3>1, <3>2
  <2>2. ~c.eof
    BY <1>1, <2>1 DEF HadRight, v
  <2> QED BY <1>13, <2>2
<1>17. Len(Buf("exec")') <= ctx'["exec"].buflen
  BY <1>5, <1>13
<1>18. /\ DOMAIN pc' = Procs /\ pc'["exec"] = "read"
       /\ \A q \in Procs \ {"exec"} : pc'[q] = pc[q]
       /\ readers' \in [Pipes -> SUBSET Procs]
  BY <1>1, <1>2 DEF Typed, Procs
<1>19. Typed' /\ Alone' /\ InOrder' /\ SourceHolds' /\ HadRight'
  BY <1>2, <1>11, <1>12, <1>14, <1>15, <1>16, <1>17, <1>18, ParserMoves
<1>20. Stages'
  <2>1. status["exec"] = Running /\ pc["command"] = "none" /\ results = <<>>
    BY <1>1, <1>3 DEF Stages
  <2>2. pc'["command"] = "none" /\ status'["exec"] = Running
    BY <1>2, <1>18, <2>1 DEF Procs
  <2>3. Len(results') = 0 /\ Len(Rows') = 1 /\ results' = <<>>
    BY <1>2, <1>11, <2>1
  <2>4. Good'
    BY <2>3 DEF Good
  <2> QED BY <1>18, <2>2, <2>3, <2>4 DEF Stages
<1> QED BY <1>19, <1>20 DEF ExecInv

LEMMA CommandReadsStep == ExecInv /\ Is("exec") /\ CommandReads => ExecInv'
<1> SUFFICES ASSUME ExecInv, Is("exec"), CommandReads PROVE ExecInv'
  OBVIOUS
<1> DEFINE d == data["in"]
           s == job.stream
<1>1. Typed /\ Alone /\ InOrder /\ SourceHolds /\ HadRight /\ Stages
  BY DEF ExecInv
<1>2. /\ pc["command"] = "run" /\ d # <<>> /\ taken' = taken \cup {Passed + 1}
      /\ data' = [data EXCEPT !["in"] = Tail(@)]
      /\ UNCHANGED <<job, pc, status, readers, writers, pend, due, left, ctx, got, received, screen, results>>
  BY DEF CommandReads, At, ends, stdio, reading
<1>3. /\ d \in Seq(Piece) /\ Len(d) \in Nat /\ s \in Seq(Piece) /\ Len(s) \in Nat
      /\ Passed \in Nat /\ Passed \in 0 .. Len(s)
  BY <1>1, Sizes
<1>4. Len(d) \in Nat \ {0} /\ Tail(d) = From(d, 1)
  <2> HIDE DEF d
  <2>1. /\ Len(d) \in Nat \ {0} /\ Tail(d) \in Seq(Piece) /\ Len(Tail(d)) = Len(d) - 1
        /\ \A i \in 1 .. Len(d) - 1 : Tail(d)[i] = d[i + 1]
    BY <1>2, <1>3, Moves
  <2>2. 1 \in 0 .. Len(d)
    BY <2>1
  <2> DEFINE f == From(d, 1)
             t == Tail(d)
  <2>3. /\ f \in Seq(Piece) /\ Len(f) = Len(d) - 1
        /\ \A k \in 1 .. Len(d) - 1 : f[k] = d[1 + k]
    BY <1>3, <2>2, CutAt
  <2>4. \A k \in 1 .. Len(d) - 1 : f[k] = t[k]
    <3> HIDE DEF f
    <3>1. \A k \in Int : k + 1 = 1 + k
      OBVIOUS
    <3> QED BY <2>1, <2>3, <3>1
  <2> HIDE DEF f, t
  <2>5. t \in Seq(Piece) /\ Len(t) = Len(f)
    BY <2>1, <2>3 DEF t
  <2>6. \A k \in 1 .. Len(t) : t[k] = f[k]
    BY <2>3, <2>4, <2>5
  <2>7. t = f
    BY ONLY <2>3, <2>5, <2>6, SeqEqual
  <2> QED BY <2>1, <2>7 DEF t, f
<1>5. /\ InOrder' /\ Passed' = Passed + 1 /\ data' \in [Pipes -> Seq(Piece)] /\ Passed + 1 <= Len(s)
  <2>1. 1 \in 0 .. Len(d)
    BY <1>4
  <2>2. data' = [data EXCEPT !["in"] = From(@, 1)]
    BY <1>2, <1>4
  <2> QED BY <1>1, <1>2, <2>1, <2>2, OrderRead
<1>6. Piece' = Piece
  BY <1>2 DEF Piece
<1>7. Typed'
  BY <1>1, <1>2, <1>5, <1>6 DEF Typed, Contexts
<1>8. Alone'
  BY <1>1, <1>2 DEF Alone
<1>9. SourceHolds'
  BY <1>1, <1>2 DEF SourceHolds
<1>10. Had' = Had /\ Rows' = Rows /\ Buf("exec")' = Buf("exec")
  BY <1>2 DEF Had, Rows, Buf
<1>11. taken' \subseteq 1 .. Passed'
  <2>1. taken \subseteq 1 .. Passed
    BY <1>1 DEF HadRight
  <2> QED BY <1>2, <1>3, <1>5, <2>1
<1>12. Had' = Untaken'[Passed']
  <2> DEFINE n == Passed + 1
             more == taken \cup {n}
  <2>1. Had = Kept(s, taken)[Passed]
    BY <1>1, UntakenKept DEF HadRight
  <2>2. n \in 1 .. Len(s) /\ n - 1 = Passed /\ n \in more
    BY <1>3, <1>5
  <2>3. \A k \in 1 .. Passed : k \in taken <=> k \in more
    BY <1>3
  <2>4. Untaken' = Kept(s, more)
    <3>1. Untaken' = Kept(job.stream', taken')
      BY UntakenKept DEF Untaken, Kept
    <3> QED BY <1>2, <3>1
  <2> HIDE DEF n, more, s
  <2>5. Kept(s, taken)[Passed] = Kept(s, more)[Passed]
    BY <1>3, <2>3, KeptSame
  <2>6. Kept(s, more)[n] = Kept(s, more)[n - 1]
    BY <1>3, <2>2, KeptByStep
  <2>7. Kept(s, more)[n] = Had
    BY <2>1, <2>2, <2>5, <2>6
  <2> QED BY <1>5, <1>10, <2>4, <2>7 DEF n
<1>13. HadRight'
  <2>1. Whole(Rows)'
    BY <1>1, <1>10 DEF HadRight, Whole
  <2>2. ~ctx'["exec"].eof
    BY <1>1, <1>2 DEF HadRight, Closed
  <2>3. pc'["exec"] # "header"
    BY <1>1, <1>2 DEF Stages
  <2>4. Len(Buf("exec")') <= ctx'["exec"].buflen
    BY <1>1, <1>2, <1>10 DEF HadRight
  <2> QED BY <1>11, <1>12, <2>1, <2>2, <2>3, <2>4 DEF HadRight
<1>14. Stages'
  <2>1. ctx'["exec"].eof = ctx["exec"].eof
    BY <1>2
  <2> QED BY <1>1, <1>2, <1>10, <2>1, StagesKept
<1> QED BY <1>5, <1>7, <1>8, <1>9, <1>13, <1>14 DEF ExecInv

-----------------------------------------------------------------------------

LEMMA InitExecInv == Init => ExecInv
<1> SUFFICES ASSUME Init, Is("exec") PROVE ExecInv
  BY DEF ExecInv
<1>1. /\ job \in Jobs /\ job.kind = "exec" /\ left = job.stream
      /\ pc = [q \in Procs |->
                CASE Is("show") /\ q \in {"source", "show"} -> "forked"
                  [] ~Is("show") /\ q = "source" -> "run"
                  [] q \in {"peek", "exec"} /\ Is(q) -> "header"
                  [] Is("peek") /\ q = "down" -> "read"
                  [] OTHER -> "none"]
      /\ status = [q \in Procs |-> Running]
      /\ data = [p \in Pipes |-> <<>>] /\ pend = [p \in Pipes |-> <<>>] /\ due = [p \in Pipes |-> 0]
      /\ ctx = [q \in Procs |-> [file |-> <<>>, buf |-> <<>>, buflen |-> 0, eof |-> FALSE]]
      /\ got = [q \in Procs |-> <<>>] /\ taken = {} /\ results = <<>>
  BY DEF Init, Is
<1>2. ~Is("show") /\ ~Is("peek")
  BY DEF Is
<1>3. /\ DOMAIN pc = Procs /\ pc["source"] = "run" /\ pc["exec"] = "header" /\ pc["command"] = "none"
      /\ pc["show"] = "none" /\ pc["peek"] = "none" /\ pc["down"] = "none"
  BY <1>1, <1>2 DEF Procs
<1>4. /\ readers \in [Pipes -> SUBSET Procs] /\ writers \in [Pipes -> SUBSET Procs]
      /\ writers["in"] = {"source"}
  <2>1. readers = [p \in Pipes |->
                    CASE p = "side" /\ Is("show") -> {"source", "show"}
                      [] p = "in" /\ ~Is("show") -> {job.kind}
                      [] p = "out" /\ Is("peek") -> {"down"}
                      [] OTHER -> {}]
    BY DEF Init
  <2>2. writers = [p \in Pipes |->
                    CASE p = "side" /\ Is("show") -> {"source", "show"}
                      [] p = "in" /\ ~Is("show") -> {"source"}
                      [] p = "out" /\ Is("peek") -> {"peek"}
                      [] OTHER -> {}]
    BY DEF Init
  <2>3. readers = [p \in Pipes |-> IF p = "in" THEN {"exec"} ELSE {}]
    BY <1>1, <1>2, <2>1
  <2>4. writers = [p \in Pipes |-> IF p = "in" THEN {"source"} ELSE {}]
    BY <1>2, <2>2
  <2> QED BY <2>3, <2>4 DEF Procs, Pipes
<1>5. job.stream \in Seq(Piece) /\ Len(job.stream) \in Nat
  BY <1>1, PipesAssumption DEF Piece
<1>6. <<>> \in Seq(Piece) /\ <<>> \in Seq(Seq(Piece)) /\ <<>> \in Seq({0, 1, Killed}) /\ Len(<<>>) = 0
  OBVIOUS
<1>7. Typed
  <2>1. [file |-> <<>>, buf |-> <<>>, buflen |-> 0, eof |-> FALSE] \in Contexts
    BY <1>6 DEF Contexts
  <2>2. \A p \in Pipes : due[p] <= Len(pend[p])
    BY <1>1, <1>6
  <2> QED BY <1>1, <1>3, <1>4, <1>5, <1>6, <2>1, <2>2 DEF Typed
<1>8. Alone
  BY <1>1, <1>3 DEF Alone
<1>9. Passed = 0 /\ Written = 0 /\ data["in"] = <<>> /\ pend["in"] = <<>>
  <2>1. data["in"] = <<>> /\ pend["in"] = <<>>
    BY <1>1 DEF Pipes
  <2> DEFINE l == Len(job.stream)
  <2>2. Len(left) = l /\ Len(pend["in"]) = 0 /\ Len(data["in"]) = 0 /\ l \in Nat
    BY <1>1, <1>5, <1>6, <2>1
  <2>3. Passed = l - l - 0 - 0 /\ Written = l - l - 0
    BY <2>2 DEF Passed, Written
  <2> HIDE DEF l
  <2> QED BY <2>1, <2>2, <2>3
<1>10. InOrder
  <2>1. Follows(left, Written + Len(pend["in"])) /\ Follows(pend["in"], Written) /\ Follows(data["in"], Passed)
    BY <1>1, <1>5, <1>6, <1>9 DEF Follows
  <2> QED BY <1>9, <2>1 DEF InOrder
<1>11. SourceHolds
  BY <1>3, <1>4 DEF SourceHolds
<1>12. Rows = <<>> /\ ctx["exec"] = [file |-> <<>>, buf |-> <<>>, buflen |-> 0, eof |-> FALSE]
  BY <1>1 DEF Rows, Procs
<1>13. HadRight
  <2>1. Had = <<>> /\ Buf("exec") = <<>>
    <3>1. <<>> \o (<<>> \o <<>>) = <<>>
      OBVIOUS
    <3> QED BY <1>12, <3>1, FlattenEmpty DEF Had, Buf
  <2>2. Untaken[Passed] = <<>>
    BY <1>5, <1>9, KeptByStep, UntakenKept
  <2>3. Whole(Rows)
    BY <1>12, FlattenEmpty, ParsedNothing DEF Whole, Unparsed
  <2> QED BY <1>1, <1>6, <1>12, <2>1, <2>2, <2>3 DEF HadRight
<1>14. Stages
  BY <1>1, <1>3 DEF Stages, Procs
<1> QED BY <1>7, <1>8, <1>10, <1>11, <1>13, <1>14 DEF ExecInv

LEMMA StutterStep == ExecInv /\ UNCHANGED vars => ExecInv'
<1> SUFFICES ASSUME ExecInv, UNCHANGED vars PROVE ExecInv'
  OBVIOUS
<1>1. UNCHANGED <<job, pc, status, readers, writers, data, pend, due, left, ctx, got, taken, results>>
  BY DEF vars, ends, stdio, reading, told
<1>2. Is("exec")' = Is("exec")
  BY <1>1 DEF Is
<1> SUFFICES ASSUME Is("exec") PROVE ExecInv'
  BY <1>2 DEF ExecInv
<1>3. Typed /\ Alone /\ InOrder /\ SourceHolds /\ HadRight /\ Stages
  BY DEF ExecInv
<1>4. Typed' /\ Alone' /\ SourceHolds'
  BY <1>1, <1>3 DEF Typed, Piece, Contexts, Alone, SourceHolds
<1>5. InOrder' /\ Passed' = Passed
  BY <1>1, <1>3, OrderKept
<1>6. Closed("in") => Closed("in")'
  BY <1>1 DEF Closed
<1>7. HadRight' /\ Stages'
  BY <1>1, <1>3, <1>5, <1>6, SourceKeeps
<1> QED BY <1>4, <1>5, <1>7 DEF ExecInv

\* The pipeline stays what it is.
LEMMA NextKeepsJob == [Next]_vars => job' = job
<1> SUFFICES ASSUME [Next]_vars PROVE job' = job
  OBVIOUS
<1>1. \A q : (Exit(q, 0) \/ End(q) \/ Kill(q) \/ Write(q)) => job' = job
  BY DEF End, Kill, Write, Exit
<1>2. \A q, code : Exit(q, code) => job' = job
  BY DEF Exit
<1>3. \A q : ParserSteps(q) => job' = job
  BY <1>2 DEF ParserSteps, Pull, Fread, NoHeader, ParseError
<1>4. Source => job' = job
  BY <1>1, <1>2 DEF Source, ToolStarts, SourcePrints, SourceEnds, SourceKilled
<1>5. Show => job' = job
  BY <1>1, <1>2, <1>3 DEF Show, ShowStarts, ShowMissing, ShowHeader, ShowRow, ShowPrints, ShowEnds
<1>6. Peek => job' = job
  BY <1>1, <1>2, <1>3 DEF Peek, PeekHeader, PeekForks, PeekRow, PeekFlushes, PeekCloses, PeekRelays, PeekEnds
<1>7. Down => job' = job
  BY <1>1, <1>2 DEF Down, DownReads, DownEnds
<1>8. Exec => job' = job
  BY <1>1, <1>2, <1>3 DEF Exec, ExecHeader, ExecRow, ExecWaits, ExecEnds, Waited
<1>9. Command => job' = job
  BY DEF Command, CommandReads, CommandEnds
<1>10. UNCHANGED vars => job' = job
  BY DEF vars
<1> QED BY <1>4, <1>5, <1>6, <1>7, <1>8, <1>9, <1>10 DEF Next

LEMMA NextExecInv == ExecInv /\ [Next]_vars => ExecInv'
<1> SUFFICES ASSUME ExecInv, [Next]_vars PROVE ExecInv'
  OBVIOUS
<1>1. CASE UNCHANGED vars
  BY <1>1, StutterStep
<1>2. CASE ~(UNCHANGED vars) /\ ~Is("exec")
  <2>1. job' = job
    BY <1>2, NextKeepsJob
  <2> QED BY <1>2, <2>1 DEF ExecInv, Is
<1>3. CASE ~(UNCHANGED vars) /\ Is("exec")
  <2>1. Typed /\ Alone /\ Next
    BY <1>3 DEF ExecInv
  <2>2. \/ SourcePrints \/ SourceEnds \/ SourceKilled \/ Write("source") \/ End("source")
        \/ Pull("exec") \/ Fread("exec") \/ NoHeader("exec") \/ ParseError("exec")
        \/ ExecHeader \/ ExecRow \/ ExecWaits \/ ExecEnds \/ End("exec")
        \/ CommandReads \/ CommandEnds
    BY <1>3, <2>1, ExecSteps
  <2> QED BY <1>3, <2>2, SourcePrintsStep, SourceEndsStep, SourceKilledStep, SourceWriteStep, SourceEndStep,
             PullStep, FreadStep, NoHeaderStep, ParseErrorStep, ExecHeaderStep, ExecRowStep,
             ExecWaitsStep, ExecEndsStep, ExecEndStep, CommandReadsStep, CommandEndsStep
<1> QED BY <1>1, <1>2, <1>3

\* csv-exec runs a command for each row of what the commands leave of its input,
\* in order and once, and stops at the first that fails (src/src/exec.c:52): for
\* every stream, every size of pipes and buffers, and every interleaving.
THEOREM CommandsRight == Spec => []ExecRight
<1>1. Init => ExecInv
  BY InitExecInv
<1>2. ExecInv /\ [Next]_vars => ExecInv'
  BY NextExecInv
<1>3. ExecInv => ExecRight
  BY InvariantSuffices
<1> QED BY <1>1, <1>2, <1>3, PTL DEF Spec

-----------------------------------------------------------------------------
(* The invariant of csv-show and csv-peek *)

\* What a process has read: rows, and what its buffers hold; and what has been
\* written to the pipe it reads from
Has(q) == FlattenSeq(got[q]) \o (Buf(q) \o ctx[q].file)
Came(q) == Has(q) \o data[Stdin(q)]

\* The process that reads what the source writes, and the pipe between them
First == IF Is("show") THEN "show" ELSE "peek"
Supply == IF Is("show") THEN "side" ELSE "in"

\* What the source has printed is the beginning of the stream.
SourceFlow == Came(First) \o (pend[Supply] \o left) = job.stream

\* The source keeps its end of the pipe until it ends, and its exit status is known
\* then.
SourceStages ==
    /\ pc["source"] \in {"forked", "run", "exiting", "ended"}
    /\ pc["source"] # "ended" => "source" \in writers[Supply]
    /\ pc["source"] \in {"exiting", "ended"} => status["source"] # Running

\* The parser of a process takes whole rows out of its buffer, and has not begun
\* before the header.
Reading(q) ==
    /\ Whole(got[q])
    /\ ctx[q].eof => ctx[q].file = <<>> /\ Closed(Stdin(q))
    /\ Len(Buf(q)) <= ctx[q].buflen
Fresh(q) ==
    /\ pc[q] \in {"none", "forked", "header"} => got[q] = <<>> /\ Buf(q) = <<>> /\ ~ctx[q].eof
    /\ pc[q] = "start" => Len(got[q]) = 1

\* It has read all rows, and nothing else but the beginning of one.
Done(q) == ctx[q].eof /\ ~HasRow(q) /\ \A i \in DOMAIN Buf(q) : ~Buf(q)[i].bad

\* What csv-show has printed, to the terminal or for csv-peek
ShownNothing == screen = <<>> /\ data["shown"] = <<>> /\ pend["shown"] = <<>>
ShownAll == Done("show") /\ (screen \o data["shown"]) \o pend["shown"] = FlattenSeq(got["show"])

ShowStages ==
    \/ pc["show"] \in {"none", "forked", "header", "read"} /\ status["show"] = Running /\ ShownNothing
    \/ pc["show"] = "printed" /\ status["show"] = Running /\ ShownAll
    \/ pc["show"] \in {"exiting", "ended"} /\ status["show"] = 2 /\ ShownNothing
    \/ pc["show"] = "exiting" /\ status["show"] = 0 /\ ShownAll /\ due["shown"] = Len(pend["shown"])
    \/ pc["show"] = "ended" /\ status["show"] = 0 /\ ShownAll /\ pend["shown"] = <<>>
    \/ Is("peek") /\ pc["show"] = "ended" /\ status["show"] = Killed /\ ShownAll

\* A tool with -s: nothing but the tool and csv-show
ShowAlone ==
    /\ pc["show"] # "none"
    /\ \A q \in {"peek", "down", "exec", "command"} : pc[q] = "none"
    /\ \A p \in Pipes \ {"side"} : data[p] = <<>> /\ pend[p] = <<>>

\* What csv-peek has passed on, and copied
PassedOn == IF pc["peek"] = "start" THEN <<>> ELSE FlattenSeq(got["peek"])
Copied ==
    /\ (received \o data["out"]) \o pend["out"] = PassedOn
    /\ IF job.show THEN Came("show") \o pend["side"] = PassedOn
       ELSE screen = PassedOn /\ pend["side"] = <<>>

PeekStages ==
    \/ /\ pc["peek"] \in {"header", "start", "read"} /\ status["peek"] = Running
       /\ job.show => screen = <<>>
    \/ /\ pc["peek"] = "close" /\ status["peek"] = Running /\ job.show /\ Done("peek")
       /\ screen = <<>> /\ due["side"] = Len(pend["side"])
    \/ /\ pc["peek"] = "relay" /\ status["peek"] = Running /\ job.show /\ Done("peek")
       /\ pend["side"] = <<>>
    \/ /\ pc["peek"] \in {"exiting", "ended"} /\ status["peek"] = 0 /\ Done("peek")
       /\ IF pc["peek"] = "ended" THEN pend["out"] = <<>> ELSE due["out"] = Len(pend["out"])
       /\ job.show => pend["side"] = <<>> /\ data["shown"] = <<>> /\ pc["show"] \in {"none", "ended"}
    \/ /\ pc["peek"] \in {"exiting", "ended"} /\ status["peek"] = 2
       /\ job.show => screen = <<>>
    \/ /\ pc["peek"] = "ended" /\ status["peek"] = Killed
       /\ job.show => screen = <<>> \/ Done("peek")

\* csv-peek, with a viewer or without; both keep the ends they write to.
PeekAlone ==
    /\ pc["exec"] = "none" /\ pc["command"] = "none"
    /\ job.show /\ pc["peek"] # "ended" /\ (pc["peek"] \in {"read", "close"} \/ pend["side"] # <<>>)
          => "peek" \in writers["side"]
    /\ IF job.show THEN pc["show"] \notin {"none", "ended"} => "show" \in writers["shown"]
       ELSE pc["show"] = "none"

ViewTyped == Typed /\ screen \in Seq(Piece) /\ received \in Seq(Piece)

\* What the steps leave alone unless they concern it, and the rest
Flows == SourceFlow /\ Reading("show") /\ Reading("peek") /\ (Is("peek") => Copied)
Control ==
    /\ SourceStages /\ Fresh("show") /\ Fresh("peek")
    /\ IF Is("show") THEN ShowAlone /\ ShowStages
       ELSE PeekAlone /\ PeekStages /\ (job.show => ShowStages)
ViewInv == ~Is("exec") => ViewTyped /\ Flows /\ Control

-----------------------------------------------------------------------------
(* A process that reads *)

\* What moves from the beginning of the last of some buffers to the end of the one
\* before it
SameTogether(a, b, c, d, e) == (a \o (b \o c)) \o (d \o e) = (a \o (b \o (c \o d))) \o e
LEMMA Regrouped ==
    ASSUME NEW S, NEW a \in Seq(S), NEW b \in Seq(S), NEW c \in Seq(S), NEW d \in Seq(S), NEW e \in Seq(S)
    PROVE  SameTogether(a, b, c, d, e)
<1>1. b \o (c \o d) = (b \o c) \o d /\ b \o c \in Seq(S)
  OBVIOUS
<1>2. PICK w \in Seq(S) : w = b \o c
  BY <1>1
<1>3. a \o (w \o d) = (a \o w) \o d /\ a \o w \in Seq(S)
  OBVIOUS
<1>4. PICK z \in Seq(S) : z = a \o w
  BY <1>3
<1>5. (z \o d) \o e = z \o (d \o e)
  OBVIOUS
<1> QED BY <1>1, <1>2, <1>3, <1>4, <1>5 DEF SameTogether

\* A buffer changes, and the rest of the parser does not.
LEMMA OneFieldQ ==
    ASSUME ctx \in [Procs -> Contexts], NEW q \in Procs, NEW x
    PROVE  /\ [ctx EXCEPT ![q].file = x] =
                 [ctx EXCEPT ![q] = [file |-> x, buf |-> ctx[q].buf,
                                     buflen |-> ctx[q].buflen, eof |-> ctx[q].eof]]
           /\ [ctx EXCEPT ![q].buf = x] =
                 [ctx EXCEPT ![q] = [file |-> ctx[q].file, buf |-> x,
                                     buflen |-> ctx[q].buflen, eof |-> ctx[q].eof]]
<1>1. ctx[q] \in Contexts
  OBVIOUS
<1>2. PICK c : c = ctx[q]
  OBVIOUS
<1>3. c \in [file : Seq(Piece), buf : Seq(Piece), buflen : Nat, eof : BOOLEAN]
  BY <1>1, <1>2 DEF Contexts
<1>4. [c EXCEPT !.file = x] = [file |-> x, buf |-> c.buf, buflen |-> c.buflen, eof |-> c.eof]
  BY <1>3
<1>5. [c EXCEPT !.buf = x] = [file |-> c.file, buf |-> x, buflen |-> c.buflen, eof |-> c.eof]
  BY <1>3
<1> QED BY <1>2, <1>4, <1>5

\* The parser of a process, and what it has had
LEMMA BuffersQ ==
    ASSUME Typed, NEW q \in Procs
    PROVE  /\ ctx[q] \in Contexts /\ Buf(q) \in Seq(Piece) /\ ctx[q].file \in Seq(Piece)
           /\ ctx[q].buflen \in Nat /\ ctx[q].eof \in BOOLEAN
           /\ got[q] \in Seq(Seq(Piece)) /\ FlattenSeq(got[q]) \in Seq(Piece)
           /\ Buf(q) \o ctx[q].file \in Seq(Piece) /\ Has(q) \in Seq(Piece)
<1>1. ctx[q] \in Contexts /\ got[q] \in Seq(Seq(Piece))
  BY DEF Typed
<1>2. /\ Buf(q) \in Seq(Piece) /\ ctx[q].file \in Seq(Piece)
      /\ ctx[q].buflen \in Nat /\ ctx[q].eof \in BOOLEAN
  BY <1>1 DEF Contexts, Buf
<1>3. FlattenSeq(got[q]) \in Seq(Piece)
  BY <1>1, FlattenType
<1>4. Buf(q) \o ctx[q].file \in Seq(Piece)
  BY <1>2, Associated
<1>5. Has(q) \in Seq(Piece)
  <2> DEFINE rest == Buf(q) \o ctx[q].file
  <2>1. rest \in Seq(Piece)
    BY <1>4
  <2> HIDE DEF rest
  <2>2. FlattenSeq(got[q]) \o rest \in Seq(Piece)
    BY <1>3, <2>1, Associated
  <2> QED BY <2>2 DEF Has, rest
<1> QED BY <1>1, <1>2, <1>3, <1>4, <1>5

\* The parser of a process gets new contents.
LEMMA NewContext ==
    ASSUME Typed, NEW q \in Procs, NEW new \in Contexts, ctx' = [ctx EXCEPT ![q] = new]
    PROVE  /\ ctx' \in [Procs -> Contexts] /\ ctx'[q] = new
           /\ Buf(q)' = new.buf /\ \A o \in Procs \ {q} : ctx'[o] = ctx[o]
<1>1. ctx' \in [Procs -> Contexts] /\ ctx'[q] = new /\ \A o \in Procs \ {q} : ctx'[o] = ctx[o]
  BY DEF Typed
<1> QED BY <1>1 DEF Buf

\* fread() gives the parser what is in FILE.
LEMMA FreadKeeps ==
    ASSUME Typed, NEW q \in Procs, Reading(q), Fread(q)
    PROVE  /\ ctx' \in [Procs -> Contexts] /\ \A o \in Procs \ {q} : ctx'[o] = ctx[o]
           /\ Has(q)' = Has(q) /\ Reading(q)'
<1> DEFINE c == ctx[q]
           short == Short(q)
           w == Wanted(q)
           n == IF short THEN Len(c.file) ELSE w - Len(c.buf)
           new == [file |-> From(c.file, n), buf |-> c.buf \o SubSeq(c.file, 1, n), buflen |-> w, eof |-> short]
           flat == FlattenSeq(got[q])
<1>2. /\ (short => Closed(Stdin(q))) /\ ctx' = [ctx EXCEPT ![q] = new]
      /\ UNCHANGED <<job, writers, data, got>>
  BY DEF Fread, Buf, ends
<1>3. /\ c \in Contexts /\ c.buf \in Seq(Piece) /\ c.file \in Seq(Piece) /\ flat \in Seq(Piece)
      /\ c.buflen \in Nat
  BY BuffersQ DEF Buf
<1>4. /\ n \in 0 .. Len(c.file) /\ w \in Nat /\ short \in BOOLEAN
      /\ Len(c.buf) + n <= w /\ (short => n = Len(c.file))
  <2> DEFINE lb == Len(c.buf)
             lf == Len(c.file)
  <2>1. lb \in Nat /\ lf \in Nat /\ lb <= c.buflen
    BY <1>3 DEF Reading, Buf
  <2>2. w \in Nat /\ lb <= w
    <3>1. Grow \in Nat \ {0}
      BY PipesAssumption
    <3>2. w = IF lb = c.buflen THEN c.buflen + Grow ELSE c.buflen
      BY DEF Wanted, Buf
    <3> HIDE DEF w, lb, c
    <3> QED BY <1>3, <2>1, <3>1, <3>2
  <2>3. short \in BOOLEAN /\ (short <=> lb + lf < w)
    BY DEF Short, Buf
  <2>4. n = IF short THEN lf ELSE w - lb
    OBVIOUS
  <2> HIDE DEF n, short, w, lb, lf
  <2>5. /\ n \in 0 .. lf /\ short \in BOOLEAN /\ lb + n <= w /\ (short => n = lf)
    BY <2>1, <2>2, <2>3, <2>4
  <2> QED BY <2>2, <2>5 DEF lb, lf
<1> DEFINE u == c.buf
           v == c.file
           x == SubSeq(v, 1, n)
           y == From(v, n)
<1>5. new = [file |-> y, buf |-> u \o x, buflen |-> w, eof |-> short]
  OBVIOUS
<1> HIDE DEF new, n, short, w
<1>6. u \in Seq(Piece) /\ v \in Seq(Piece) /\ n \in 0 .. Len(v)
  BY <1>3, <1>4
<1> HIDE DEF u, v
<1>7. /\ y \in Seq(Piece) /\ Len(y) = Len(v) - n
      /\ x \in Seq(Piece) /\ Len(x) = n /\ v = x \o y
  BY <1>6, CutAt
<1> HIDE DEF x, y
<1>8. /\ u \o x \in Seq(Piece) /\ Len(u \o x) = Len(u) + n
      /\ (u \o x) \o y = u \o v
  <2> DEFINE S == Piece
  <2>1. u \in Seq(S) /\ x \in Seq(S) /\ y \in Seq(S)
    BY <1>6, <1>7
  <2> HIDE DEF S
  <2>2. u \o x \in Seq(S) /\ Len(u \o x) = Len(u) + Len(x)
    BY ONLY <2>1
  <2>3. (u \o x) \o y = u \o (x \o y)
    BY ONLY <2>1
  <2> QED BY <1>7, <2>2, <2>3 DEF S
<1>9. new \in Contexts
  BY <1>4, <1>5, <1>7, <1>8 DEF Contexts
<1>10. /\ ctx' \in [Procs -> Contexts] /\ ctx'[q] = new
       /\ Buf(q)' = new.buf /\ \A o \in Procs \ {q} : ctx'[o] = ctx[o]
  BY <1>2, <1>9, NewContext
<1>11. Buf(q)' = u \o x /\ ctx'[q].file = y /\ ctx'[q].buflen = w /\ ctx'[q].eof = short
  BY <1>5, <1>10
<1>12. Has(q)' = Has(q)
  <2>1. Has(q) = flat \o (u \o v)
    BY DEF Has, Buf, u, v
  <2>2. Has(q)' = flat \o ((u \o x) \o y)
    BY <1>2, <1>11 DEF Has
  <2> QED BY <1>8, <2>1, <2>2
<1>13. Reading(q)'
  <2>1. Whole(got[q])'
    BY <1>2 DEF Reading, Whole
  <2>2. ctx'[q].eof => ctx'[q].file = <<>> /\ Closed(Stdin(q))'
    <3> SUFFICES ASSUME short PROVE y = <<>> /\ Closed(Stdin(q))'
      BY <1>11
    <3>1. Len(v) = n /\ Len(v) \in Nat
      BY <1>4, <1>6 DEF v
    <3>2. Len(y) = 0
      BY <1>7, <3>1
    <3> QED BY <1>2, <1>7, <3>2, EmptySeq DEF Closed, Stdin
  <2>3. Len(Buf(q)') <= ctx'[q].buflen
    BY <1>4, <1>8, <1>11 DEF u
  <2> QED BY <2>1, <2>2, <2>3 DEF Reading
<1> QED BY <1>10, <1>12, <1>13
\* read() moves pieces from the pipe to FILE.
LEMMA PullKeeps ==
    ASSUME Typed, NEW q \in Procs, Reading(q), Pull(q)
    PROVE  /\ ctx' \in [Procs -> Contexts] /\ \A o \in Procs \ {q} : ctx'[o] = ctx[o]
           /\ data' \in [Pipes -> Seq(Piece)] /\ \A p \in Pipes \ {Stdin(q)} : data'[p] = data[p]
           /\ Came(q)' = Came(q) /\ Reading(q)' /\ ctx[q].eof = FALSE
           /\ Buf(q)' = Buf(q) /\ ctx'[q].eof = ctx[q].eof
<1> DEFINE p == Stdin(q)
           d == data[p]
           n == IF Len(d) < StdioSize THEN Len(d) ELSE StdioSize
           x == SubSeq(d, 1, n)
           y == From(d, n)
           c == ctx[q]
           flat == FlattenSeq(got[q])
<1>1. p \in Pipes /\ p' = p
  BY DEF Stdin, Pipes
<1>2. /\ n > 0 /\ data' = [data EXCEPT ![p] = y]
      /\ ctx' = [ctx EXCEPT ![q].file = @ \o x]
      /\ UNCHANGED <<job, writers, got>>
  BY DEF Pull, ends
<1>3. d \in Seq(Piece) /\ Len(d) \in Nat /\ n \in 0 .. Len(d)
  <2>1. d \in Seq(Piece) /\ Len(d) \in Nat
    BY <1>1 DEF Typed
  <2> QED BY <2>1, PipesAssumption
<1>4. c.eof = FALSE
  <2>1. d # <<>>
    <3>1. Len(d) # 0
      BY <1>2, <1>3
    <3>2. Len(<<>>) = 0
      OBVIOUS
    <3> QED BY <3>1, <3>2
  <2>2. c.eof \in BOOLEAN
    BY BuffersQ
  <2> QED BY <2>1, <2>2 DEF Reading, Closed
<1>5. x \in Seq(Piece) /\ y \in Seq(Piece) /\ d = x \o y
  <2> HIDE DEF n, d
  <2> QED BY <1>3, CutAt
<1> HIDE DEF n, x, y, p
<1>6. /\ c \in Contexts /\ c.buf \in Seq(Piece) /\ c.file \in Seq(Piece) /\ flat \in Seq(Piece)
      /\ c.buflen \in Nat /\ c.eof \in BOOLEAN
  BY BuffersQ DEF Buf
<1>7. c.file \o x \in Seq(Piece)
  BY <1>5, <1>6, Associated
<1> DEFINE new == [file |-> c.file \o x, buf |-> c.buf, buflen |-> c.buflen, eof |-> c.eof]
<1>8. ctx' = [ctx EXCEPT ![q] = new]
  BY <1>2, OneFieldQ DEF Typed
<1>9. new \in Contexts
  BY <1>6, <1>7 DEF Contexts
<1>10. /\ ctx' \in [Procs -> Contexts] /\ ctx'[q] = new
       /\ Buf(q)' = c.buf /\ \A o \in Procs \ {q} : ctx'[o] = ctx[o]
  <2> HIDE DEF new
  <2>1. /\ ctx' \in [Procs -> Contexts] /\ ctx'[q] = new
        /\ Buf(q)' = new.buf /\ \A o \in Procs \ {q} : ctx'[o] = ctx[o]
    BY <1>8, <1>9, NewContext
  <2> QED BY <2>1 DEF new
<1>11. Buf(q)' = Buf(q) /\ ctx'[q].eof = c.eof /\ ctx'[q].file = c.file \o x /\ ctx'[q].buflen = c.buflen
  BY <1>10 DEF Buf
<1>12. data' \in [Pipes -> Seq(Piece)] /\ data'[p] = y /\ \A o \in Pipes \ {p} : data'[o] = data[o]
  BY <1>1, <1>2, <1>5 DEF Typed
<1>13. Came(q)' = Came(q)
  <2> DEFINE u == c.buf
             v == c.file
  <2>1. Came(q) = (flat \o (u \o v)) \o (x \o y) /\ Came(q)' = (flat \o (u \o (v \o x))) \o y
    <3>1. Came(q) = (flat \o (u \o v)) \o d
      BY DEF Came, Has, Buf, p
    <3>2. data'[Stdin(q)'] = y
      BY <1>1, <1>12 DEF p
    <3> QED BY <1>2, <1>5, <1>11, <3>1, <3>2 DEF Came, Has, Buf
  <2>2. u \in Seq(Piece) /\ v \in Seq(Piece) /\ flat \in Seq(Piece)
    BY <1>6
  <2> HIDE DEF u, v, flat
  <2>3. SameTogether(flat, u, v, x, y)
    BY <1>5, <2>2, Regrouped
  <2> QED BY <2>1, <2>3 DEF SameTogether
<1>14. Reading(q)'
  <2>1. Whole(got[q])' /\ ~ctx'[q].eof
    BY <1>2, <1>4, <1>11 DEF Reading, Whole
  <2>2. Len(Buf(q)') <= ctx'[q].buflen
    BY <1>11 DEF Reading
  <2> QED BY <2>1, <2>2 DEF Reading
<1> QED BY <1>4, <1>10, <1>11, <1>12, <1>13, <1>14 DEF p
\* A row is taken out of the buffer.
LEMMA RowKeeps ==
    ASSUME Typed, NEW q \in Procs, Reading(q), TakeRow(q), UNCHANGED <<job, data, writers>>
    PROVE  /\ ctx' \in [Procs -> Contexts] /\ \A o \in Procs \ {q} : ctx'[o] = ctx[o]
           /\ got' \in [Procs -> Seq(Seq(Piece))] /\ \A o \in Procs \ {q} : got'[o] = got[o]
           /\ NextRowOf(q) \in Seq(Piece)
           /\ got'[q] = Append(got[q], NextRowOf(q))
           /\ FlattenSeq(got[q])' = FlattenSeq(got[q]) \o NextRowOf(q)
           /\ Has(q)' = Has(q) /\ Reading(q)'
<1> DEFINE c == ctx[q]
           u == Buf(q)
           v == c.file
           r == FirstRow(u)
           y == From(u, Len(r))
           rows == got[q]
           flat == FlattenSeq(rows)
           new == [file |-> v, buf |-> y, buflen |-> c.buflen, eof |-> c.eof]
<1>2. /\ At(q, "read") /\ HasRow(q) /\ ~Corrupted(q)
      /\ got' = [got EXCEPT ![q] = Append(@, NextRowOf(q))]
      /\ ctx' = [ctx EXCEPT ![q].buf = From(@, Len(NextRowOf(q)))]
  BY DEF TakeRow
<1>3. Lasts(u) # {} /\ NextRowOf(q) = r
  BY <1>2 DEF HasRow, NextRowOf
<1>4. \A i \in DOMAIN r : ~r[i].bad
  <2> HIDE DEF r
  <2> QED BY <1>2, <1>3 DEF Corrupted
<1>5. /\ c \in Contexts /\ u \in Seq(Piece) /\ v \in Seq(Piece) /\ flat \in Seq(Piece)
      /\ c.buflen \in Nat /\ c.eof \in BOOLEAN /\ rows \in Seq(Seq(Piece))
  BY BuffersQ
<1>6. ctx' = [ctx EXCEPT ![q] = new]
  <2>1. ctx' = [ctx EXCEPT ![q].buf = y]
    BY <1>2, <1>3 DEF Buf
  <2> HIDE DEF y
  <2> QED BY <2>1, OneFieldQ DEF Typed
<1> HIDE DEF u, v, new
<1>7. /\ r \in Seq(Piece) /\ Len(r) \in 1 .. Len(u) /\ r # <<>>
      /\ r[Len(r)].last /\ \A i \in 1 .. Len(r) : i # Len(r) => ~r[i].last
      /\ y \in Seq(Piece) /\ u = r \o y
  BY <1>3, <1>5, FirstRowRight
<1>8. Len(y) <= Len(u) /\ Len(y) \in Nat
  <2>1. Len(r) \in 0 .. Len(u) /\ Len(u) \in Nat /\ Len(r) \in Nat
    BY <1>5, <1>7
  <2> HIDE DEF r
  <2>2. Len(From(u, Len(r))) = Len(u) - Len(r)
    BY <1>5, <2>1, CutAt
  <2> QED BY <1>7, <2>1, <2>2
<1> HIDE DEF r, y
<1>9. \A i \in 1 .. Len(r) : ~r[i].bad
  BY <1>4, <1>7
<1>10. /\ Append(rows, r) \in Seq(Seq(Piece)) /\ Whole(Append(rows, r))
       /\ FlattenSeq(Append(rows, r)) = flat \o r
  <2>1. Whole(rows)
    BY DEF Reading
  <2> HIDE DEF rows
  <2> QED BY <1>5, <1>7, <1>9, <2>1, RowAdded
<1>11. /\ got' \in [Procs -> Seq(Seq(Piece))] /\ got'[q] = Append(rows, r)
       /\ \A o \in Procs \ {q} : got'[o] = got[o]
  <2>1. got' = [got EXCEPT ![q] = Append(rows, r)]
    BY <1>2, <1>3
  <2> HIDE DEF rows
  <2> QED BY <1>10, <2>1 DEF Typed
<1>12. /\ ctx' \in [Procs -> Contexts] /\ ctx'[q] = new
       /\ Buf(q)' = new.buf /\ \A o \in Procs \ {q} : ctx'[o] = ctx[o]
  <2>1. new \in Contexts
    BY <1>5, <1>7 DEF new, Contexts
  <2> QED BY <1>6, <2>1, NewContext
<1>13. Buf(q)' = y /\ ctx'[q].file = v /\ ctx'[q].buflen = c.buflen /\ ctx'[q].eof = c.eof
  BY <1>12 DEF new
<1> HIDE DEF rows
<1>14. Has(q)' = Has(q)
  <2>1. Has(q) = flat \o (u \o v)
    BY DEF Has, u, v, rows
  <2>2. Has(q)' = FlattenSeq(Append(rows, r)) \o (y \o v)
    BY <1>11, <1>13 DEF Has
  <2> HIDE DEF flat
  <2> DEFINE S == Piece
  <2>5. flat \in Seq(S) /\ r \in Seq(S) /\ y \in Seq(S) /\ v \in Seq(S)
    BY <1>5, <1>7
  <2> HIDE DEF S
  <2>3. (flat \o r) \o (y \o v) = flat \o (r \o (y \o v))
    <3>1. y \o v \in Seq(S)
      BY ONLY <2>5
    <3> DEFINE yv == y \o v
    <3> HIDE DEF yv
    <3>2. yv \in Seq(S)
      BY <3>1 DEF yv
    <3>3. (flat \o r) \o yv = flat \o (r \o yv)
      BY ONLY <2>5, <3>2
    <3> QED BY <3>3 DEF yv
  <2>4. r \o (y \o v) = (r \o y) \o v
    BY ONLY <2>5
  <2> QED BY <1>7, <1>10, <2>1, <2>2, <2>3, <2>4
<1>15. Reading(q)'
  <2>1. Whole(got[q])'
    BY <1>10, <1>11 DEF Whole
  <2>2. ctx'[q].eof => ctx'[q].file = <<>> /\ Closed(Stdin(q))'
    BY <1>13 DEF Reading, v, Closed, Stdin
  <2>3. Len(Buf(q)') <= ctx'[q].buflen
    <3>1. Len(u) <= c.buflen
      BY DEF Reading, u
    <3>2. Len(u) \in Nat
      BY <1>5
    <3> QED BY <1>5, <1>8, <1>13, <3>1, <3>2
  <2> QED BY <2>1, <2>2, <2>3 DEF Reading
<1>16. FlattenSeq(got[q])' = flat \o r
  BY <1>10, <1>11
<1> QED BY <1>3, <1>7, <1>11, <1>12, <1>14, <1>15, <1>16 DEF rows

\* The header is taken out of FILE: where the stream begins, a row is complete
\* before it is corrupted.
LEMMA HeaderKeeps ==
    ASSUME Typed, NEW q \in Procs, Reading(q), Fresh(q), TakeHeader(q), UNCHANGED <<job, data, writers>>,
           IsPrefix(Has(q), job.stream)
    PROVE  /\ ctx' \in [Procs -> Contexts] /\ \A o \in Procs \ {q} : ctx'[o] = ctx[o]
           /\ got' \in [Procs -> Seq(Seq(Piece))] /\ \A o \in Procs \ {q} : got'[o] = got[o]
           /\ Len(got'[q]) = 1 /\ got[q] = <<>>
           /\ Has(q)' = Has(q) /\ Reading(q)'
<1> DEFINE c == ctx[q]
           v == c.file
           r == FirstRow(v)
           y == From(v, Len(r))
           new == [file |-> y, buf |-> c.buf, buflen |-> c.buflen, eof |-> c.eof]
<1>2. /\ At(q, "header") /\ ~NeedsHeader(q)
      /\ got' = [got EXCEPT ![q] = <<r>>]
      /\ ctx' = [ctx EXCEPT ![q].file = y]
  BY DEF TakeHeader
<1>3. Lasts(v) # {} /\ pc[q] = "header"
  BY <1>2 DEF NeedsHeader, At
<1>4. /\ c \in Contexts /\ c.buf \in Seq(Piece) /\ v \in Seq(Piece)
      /\ c.buflen \in Nat /\ c.eof \in BOOLEAN
  BY BuffersQ DEF Buf
<1>5. got[q] = <<>> /\ c.buf = <<>> /\ ~c.eof /\ Len(c.buf) <= c.buflen
  BY <1>3 DEF Reading, Fresh, Buf
<1>6. Has(q) = v
  <2>1. Has(q) = <<>> \o (<<>> \o v)
    BY <1>5, FlattenEmpty DEF Has, Buf
  <2> HIDE DEF v
  <2> QED BY <1>4, <2>1, Associated
<1>7. ctx' = [ctx EXCEPT ![q] = new]
  <2>1. ctx' = [ctx EXCEPT ![q].file = y]
    BY <1>2
  <2> HIDE DEF y
  <2> QED BY <2>1, OneFieldQ DEF Typed
<1> HIDE DEF v, new
<1>8. /\ r \in Seq(Piece) /\ Len(r) \in 1 .. Len(v) /\ r # <<>> /\ \A i \in 1 .. Len(r) : r[i] = v[i]
      /\ r[Len(r)].last /\ \A i \in 1 .. Len(r) : i # Len(r) => ~r[i].last
      /\ y \in Seq(Piece) /\ v = r \o y
  BY <1>3, <1>4, FirstRowRight
<1> HIDE DEF r, y
<1>9. \A i \in 1 .. Len(r) : ~r[i].bad
  <2> DEFINE s == job.stream
             l == Len(s)
             m == Len(r)
  <2>1. s \in Seq(Piece) /\ l \in Nat /\ DOMAIN s = 1 .. l
    BY PipesAssumption DEF Typed, Piece
  <2>2. Len(v) \in 0 .. l /\ \A k \in 1 .. Len(v) : v[k] = s[k]
    <3> HIDE DEF s
    <3>1. IsPrefix(v, s)
      BY <1>6 DEF s
    <3> QED BY <1>4, <2>1, <3>1, PrefixByPosition
  <2>3. \A i \in 1 .. l : s[i].bad => \E k \in 1 .. i - 1 : s[k].last
    BY <2>1, PipesAssumption DEF Typed
  <2>4. m \in 1 .. Len(v)
    BY <1>8
  <2> HIDE DEF s, l, m
  <2>5. \A i \in 1 .. m : i \in 1 .. l /\ r[i] = s[i]
    BY <1>8, <2>1, <2>2, <2>4 DEF m
  <2> SUFFICES ASSUME NEW i \in 1 .. m, r[i].bad PROVE FALSE
    BY DEF m
  <2>6. PICK k \in 1 .. i - 1 : s[k].last
    BY <2>3, <2>5
  <2>7. k \in 1 .. m /\ k # m
    BY <2>4
  <2> QED BY <1>8, <2>5, <2>6, <2>7 DEF m
<1>10. /\ <<r>> \in Seq(Seq(Piece)) /\ Whole(<<r>>) /\ FlattenSeq(<<r>>) = r
  <2> DEFINE none == <<>>
  <2>1. none \in Seq(Seq(Piece)) /\ FlattenSeq(none) = <<>> /\ Append(none, r) = <<r>>
    BY FlattenEmpty
  <2>2. Whole(none)
    BY <2>1, ParsedNothing DEF Whole, Unparsed
  <2> HIDE DEF none
  <2>3. /\ Append(none, r) \in Seq(Seq(Piece)) /\ Whole(Append(none, r))
        /\ FlattenSeq(Append(none, r)) = FlattenSeq(none) \o r
    BY <1>8, <1>9, <2>1, <2>2, RowAdded
  <2> QED BY <1>8, <2>1, <2>3, Associated
<1>11. got' \in [Procs -> Seq(Seq(Piece))] /\ got'[q] = <<r>> /\ \A o \in Procs \ {q} : got'[o] = got[o]
  <2> PICK rows : rows = <<r>>
    OBVIOUS
  <2>1. got' = [got EXCEPT ![q] = rows] /\ rows \in Seq(Seq(Piece))
    BY <1>2, <1>10
  <2>2. got' \in [Procs -> Seq(Seq(Piece))] /\ got'[q] = rows /\ \A o \in Procs \ {q} : got'[o] = got[o]
    BY <2>1 DEF Typed
  <2> QED BY <2>2
<1>12. /\ ctx' \in [Procs -> Contexts] /\ ctx'[q] = new
       /\ Buf(q)' = new.buf /\ \A o \in Procs \ {q} : ctx'[o] = ctx[o]
  <2>1. new \in Contexts
    BY <1>4, <1>8 DEF new, Contexts
  <2> QED BY <1>7, <2>1, NewContext
<1>13. Buf(q)' = <<>> /\ ctx'[q].file = y /\ ctx'[q].buflen = c.buflen /\ ctx'[q].eof = c.eof
  BY <1>5, <1>12 DEF new
<1>14. Has(q)' = Has(q)
  <2>1. Has(q)' = r \o (<<>> \o y)
    BY <1>10, <1>11, <1>13 DEF Has
  <2> QED BY <1>6, <1>8, <2>1, Associated
<1>15. Reading(q)'
  <2>1. Whole(got[q])'
    BY <1>10, <1>11 DEF Whole
  <2>2. Len(Buf(q)') <= ctx'[q].buflen
    BY <1>5, <1>13
  <2> QED BY <1>5, <1>13, <2>1, <2>2 DEF Reading
<1>16. Len(got'[q]) = 1
  BY <1>11
<1> QED BY <1>5, <1>11, <1>12, <1>14, <1>15, <1>16
-----------------------------------------------------------------------------
(* What moves through the pipes *)

\* The beginning of what is put together
LEMMA PrefixJoined ==
    ASSUME NEW S, NEW a \in Seq(S), NEW b \in Seq(S)
    PROVE  a \o b \in Seq(S) /\ IsPrefix(a, a \o b) /\ Len(a \o b) = Len(a) + Len(b)
<1>1. /\ a \o b \in Seq(S) /\ Len(a \o b) = Len(a) + Len(b)
      /\ \A k \in 1 .. Len(a) : (a \o b)[k] = a[k]
  OBVIOUS
<1>2. PICK c \in Seq(S) : c = a \o b
  BY <1>1
<1>3. Len(a) <= Len(c)
  BY <1>1, <1>2
<1>4. IsPrefix(a, c)
  BY <1>1, <1>2, <1>3, PrefixByPosition
<1> QED BY <1>1, <1>2, <1>4

LEMMA NothingFirst ==
    ASSUME NEW S, NEW g \in Seq(S)
    PROVE  <<>> \in Seq(S) /\ IsPrefix(<<>>, g) /\ IsPrefix(g, g)
<1>1. <<>> \in Seq(S)
  OBVIOUS
<1>2. PICK z \in Seq(S) : z = <<>> /\ Len(z) = 0
  BY <1>1
<1>3. Len(g) \in Nat /\ Len(z) <= Len(g) /\ \A k \in 1 .. Len(z) : z[k] = g[k]
  BY <1>2
<1>4. IsPrefix(z, g)
  BY <1>3, PrefixByPosition
<1>5. IsPrefix(g, g)
  BY <1>3, PrefixByPosition
<1> QED BY <1>1, <1>2, <1>4, <1>5

LEMMA FlattenPrefix ==
    ASSUME NEW S, NEW a \in Seq(Seq(S)), NEW b \in Seq(Seq(S)), IsPrefix(a, b)
    PROVE  IsPrefix(FlattenSeq(a), FlattenSeq(b))
<1> DEFINE T == {c \in Seq(Seq(S)) : a \o c \in Seq(Seq(S)) /\ IsPrefix(FlattenSeq(a), FlattenSeq(a \o c))}
<1>1. FlattenSeq(a) \in Seq(S)
  BY FlattenType
<1>2. <<>> \in T
  <2>1. a \o <<>> = a /\ <<>> \in Seq(Seq(S))
    OBVIOUS
  <2>2. IsPrefix(FlattenSeq(a), FlattenSeq(a))
    BY <1>1, PrefixByPosition
  <2> QED BY <2>1, <2>2
<1>3. \A w \in Seq(Seq(S)), e \in Seq(S) : w \in T => Append(w, e) \in T
  <2> SUFFICES ASSUME NEW w \in Seq(Seq(S)), NEW e \in Seq(S), w \in T
               PROVE  Append(w, e) \in T
    OBVIOUS
  <2>1. PICK u \in Seq(Seq(S)) : u = a \o w /\ IsPrefix(FlattenSeq(a), FlattenSeq(u))
    OBVIOUS
  <2>2. a \o Append(w, e) = Append(u, e) /\ Append(u, e) \in Seq(Seq(S)) /\ Append(w, e) \in Seq(Seq(S))
    BY <2>1
  <2>3. FlattenSeq(Append(u, e)) = FlattenSeq(u) \o e /\ FlattenSeq(u) \in Seq(S)
    BY FlattenAppend, FlattenType
  <2>4. FlattenSeq(u) \o e \in Seq(S) /\ IsPrefix(FlattenSeq(u), FlattenSeq(u) \o e)
    BY <2>3, PrefixJoined
  <2>5. IsPrefix(FlattenSeq(a), FlattenSeq(Append(u, e)))
    <3> PICK fa \in Seq(S), fu \in Seq(S), fe \in Seq(S) :
            fa = FlattenSeq(a) /\ fu = FlattenSeq(u) /\ fe = FlattenSeq(u) \o e
      BY <1>1, <2>3, <2>4
    <3>1. IsPrefix(fa, fu) /\ IsPrefix(fu, fe)
      BY <2>1, <2>4
    <3>2. Len(fa) <= Len(fe) /\ \A k \in 1 .. Len(fa) : fa[k] = fe[k]
      BY <3>1, PrefixByPosition
    <3>3. IsPrefix(fa, fe)
      BY <3>2, PrefixByPosition
    <3> QED BY <2>3, <3>3
  <2> QED BY <2>2, <2>5
<1>4. Seq(Seq(S)) \subseteq T
  <2> DEFINE U == T
  <2>1. <<>> \in U /\ \A w \in Seq(Seq(S)), e \in Seq(S) : w \in U => Append(w, e) \in U
    BY <1>2, <1>3
  <2> HIDE DEF U
  <2>2. Seq(Seq(S)) \subseteq U
    BY <2>1, AppendInduction
  <2> QED BY <2>2 DEF U
<1>5. PICK n \in Nat : n = Len(a)
  OBVIOUS
<1>6. n \in 0 .. Len(b) /\ \A k \in 1 .. n : a[k] = b[k]
  BY <1>5, PrefixByPosition
<1>7. /\ From(b, n) \in Seq(Seq(S)) /\ b = SubSeq(b, 1, n) \o From(b, n)
      /\ SubSeq(b, 1, n) \in Seq(Seq(S)) /\ Len(SubSeq(b, 1, n)) = n
      /\ \A k \in 1 .. n : SubSeq(b, 1, n)[k] = b[k]
  BY <1>6, CutAt
<1>8. SubSeq(b, 1, n) = a
  <2> PICK c : c = SubSeq(b, 1, n)
    OBVIOUS
  <2>1. c \in Seq(Seq(S)) /\ Len(c) = Len(a) /\ \A k \in 1 .. Len(a) : c[k] = a[k]
    BY <1>5, <1>6, <1>7
  <2>2. c = a
    <3> DEFINE R == Seq(S)
    <3>1. c \in Seq(R) /\ a \in Seq(R)
      BY <2>1
    <3> HIDE DEF R
    <3> QED BY <2>1, <3>1, SeqEqual
  <2> QED BY <2>2
<1>9. From(b, n) \in T
  BY <1>4, <1>7
<1> QED BY <1>7, <1>8, <1>9

\* A piece is written: it leaves the buffer of stdio for the pipe.
SameWritten(a, d, e, x) == (a \o Append(d, Head(x))) \o (Tail(x) \o e) = (a \o d) \o (x \o e)
LEMMA WrittenSame ==
    ASSUME NEW S, NEW a \in Seq(S), NEW d \in Seq(S), NEW e \in Seq(S), NEW x \in Seq(S), x # <<>>
    PROVE  SameWritten(a, d, e, x)
<1>1. PICK h \in S, t \in Seq(S) : h = Head(x) /\ t = Tail(x) /\ x = <<h>> \o t
  <2>1. Head(x) \in S /\ Tail(x) \in Seq(S) /\ Len(Tail(x)) = Len(x) - 1
        /\ (\A i \in 1 .. Len(x) - 1 : Tail(x)[i] = x[i + 1]) /\ Head(x) = x[1] /\ Len(x) \in Nat \ {0}
    BY Moves
  <2>2. PICK h \in S, t \in Seq(S) : h = Head(x) /\ t = Tail(x)
    BY <2>1
  <2>3. /\ <<h>> \o t \in Seq(S) /\ Len(<<h>> \o t) = Len(t) + 1 /\ (<<h>> \o t)[1] = h
        /\ \A i \in 2 .. Len(t) + 1 : (<<h>> \o t)[i] = t[i - 1]
    OBVIOUS
  <2>4. PICK y \in Seq(S) : y = <<h>> \o t
    BY <2>3
  <2>5. Len(x) = Len(y) /\ \A i \in 1 .. Len(x) : x[i] = y[i]
    BY <2>1, <2>2, <2>3, <2>4
  <2>6. x = y
    BY <2>5, SeqEqual
  <2> QED BY <2>2, <2>4, <2>6
<1>2. Append(d, h) = d \o <<h>> /\ <<h>> \in Seq(S)
  OBVIOUS
<1>3. PICK o \in Seq(S) : o = <<h>>
  BY <1>2
<1>4. a \o (d \o o) = (a \o d) \o o /\ a \o d \in Seq(S)
  OBVIOUS
<1>5. (o \o t) \o e = o \o (t \o e) /\ t \o e \in Seq(S)
  OBVIOUS
<1>6. PICK b \in Seq(S), c \in Seq(S) : b = a \o d /\ c = t \o e
  BY <1>4, <1>5
<1>7. (b \o o) \o c = b \o (o \o c)
  <2>1. b \in Seq(S) /\ o \in Seq(S) /\ c \in Seq(S)
    OBVIOUS
  <2> QED BY ONLY <2>1
<1>8. a \o Append(d, Head(x)) = b \o o
  BY <1>1, <1>2, <1>3, <1>4, <1>6
<1>9. x \o e = o \o c
  BY <1>1, <1>3, <1>5, <1>6
<1> QED BY <1>1, <1>6, <1>7, <1>8, <1>9 DEF SameWritten

LEMMA WriteKeeps ==
    ASSUME Typed, NEW p \in Pipes, due[p] > 0,
           data' = [data EXCEPT ![p] = Append(@, Head(pend[p]))],
           pend' = [pend EXCEPT ![p] = Tail(@)], due' = [due EXCEPT ![p] = @ - 1]
    PROVE  /\ data' \in [Pipes -> Seq(Piece)] /\ pend' \in [Pipes -> Seq(Piece)]
           /\ due' \in [Pipes -> Int] /\ \A o \in Pipes : due'[o] <= Len(pend'[o])
           /\ \A o \in Pipes \ {p} : data'[o] = data[o] /\ pend'[o] = pend[o] /\ due'[o] = due[o]
           /\ data'[p] = Append(data[p], Head(pend[p])) /\ pend'[p] = Tail(pend[p])
           /\ due'[p] = due[p] - 1 /\ Len(pend'[p]) = Len(pend[p]) - 1 /\ pend[p] # <<>>
<1>1. /\ data \in [Pipes -> Seq(Piece)] /\ pend \in [Pipes -> Seq(Piece)]
      /\ due \in [Pipes -> Int] /\ \A o \in Pipes : due[o] <= Len(pend[o])
  BY DEF Typed
<1>2. PICK x \in Seq(Piece), d \in Seq(Piece) : x = pend[p] /\ d = data[p]
  BY <1>1
<1>3. x # <<>>
  <2>1. Len(x) # 0
    BY <1>1, <1>2
  <2> QED BY <2>1
<1>4. /\ Append(d, Head(x)) \in Seq(Piece) /\ Tail(x) \in Seq(Piece)
      /\ Len(Tail(x)) = Len(x) - 1 /\ Len(x) \in Nat
  BY <1>2, <1>3, Moves
<1>5. PICK y \in Seq(Piece), e \in Seq(Piece) : y = Tail(x) /\ e = Append(d, Head(x)) /\ Len(y) = Len(x) - 1
  BY <1>4
<1>6. data' = [data EXCEPT ![p] = e] /\ pend' = [pend EXCEPT ![p] = y]
  BY <1>1, <1>2, <1>5
<1>7. /\ data' \in [Pipes -> Seq(Piece)] /\ pend' \in [Pipes -> Seq(Piece)]
      /\ data'[p] = e /\ pend'[p] = y
      /\ \A o \in Pipes \ {p} : data'[o] = data[o] /\ pend'[o] = pend[o]
  BY <1>1, <1>6
<1>8. due' \in [Pipes -> Int] /\ due'[p] = due[p] - 1 /\ \A o \in Pipes \ {p} : due'[o] = due[o]
  BY <1>1
<1>9. \A o \in Pipes : due'[o] <= Len(pend'[o])
  <2> SUFFICES ASSUME NEW o \in Pipes PROVE due'[o] <= Len(pend'[o])
    OBVIOUS
  <2>1. CASE o = p
    <3>1. due[p] <= Len(x) /\ due[p] \in Int /\ Len(x) \in Nat
      BY <1>1, <1>2, <1>4
    <3> QED BY <1>5, <1>7, <1>8, <2>1, <3>1
  <2>2. CASE o # p
    BY <1>1, <1>7, <1>8, <2>2
  <2> QED BY <2>1, <2>2
<1> QED BY <1>2, <1>3, <1>5, <1>7, <1>8, <1>9

\* Pieces are printed: they come to the end of buffers.
LEMMA PrintKeeps ==
    ASSUME Typed, NEW pipes \in SUBSET Pipes, NEW pieces \in Seq(Piece), PrintTo(pipes, pieces)
    PROVE  /\ pend' \in [Pipes -> Seq(Piece)]
           /\ due' \in [Pipes -> Int] /\ \A o \in Pipes : due'[o] <= Len(pend'[o])
           /\ \A o \in Pipes \ pipes : pend'[o] = pend[o] /\ due'[o] = due[o]
           /\ \A o \in pipes : pend'[o] = pend[o] \o pieces
<1>1. /\ pend \in [Pipes -> Seq(Piece)]
      /\ due \in [Pipes -> Int] /\ \A o \in Pipes : due[o] <= Len(pend[o])
  BY DEF Typed
<1>2. /\ pend' = [p \in Pipes |-> IF p \in pipes THEN pend[p] \o pieces ELSE pend[p]]
      /\ due' = [p \in Pipes |-> IF p \in pipes THEN Len(pend'[p]) - (Len(pend'[p]) % StdioSize) ELSE due[p]]
  BY DEF PrintTo
<1>3. \A p \in Pipes : pend[p] \o pieces \in Seq(Piece)
  BY <1>1
<1>4. /\ pend' \in [Pipes -> Seq(Piece)]
      /\ \A o \in Pipes \ pipes : pend'[o] = pend[o]
      /\ \A o \in pipes : pend'[o] = pend[o] \o pieces
  BY <1>1, <1>2, <1>3
<1>5. \A o \in Pipes : Len(pend'[o]) \in Nat
  BY <1>4
<1>6. \A n \in Nat : n % StdioSize \in Nat
  BY PipesAssumption
<1>7. \A o \in Pipes : due'[o] = IF o \in pipes THEN Len(pend'[o]) - (Len(pend'[o]) % StdioSize) ELSE due[o]
  BY <1>2
<1>8. \A o \in Pipes : due'[o] \in Int /\ due'[o] <= Len(pend'[o])
  <2> SUFFICES ASSUME NEW o \in Pipes PROVE due'[o] \in Int /\ due'[o] <= Len(pend'[o])
    OBVIOUS
  <2>1. PICK l \in Nat : l = Len(pend'[o])
    BY <1>5
  <2>2. l % StdioSize \in Nat
    BY <1>6
  <2>3. CASE o \in pipes
    <3>1. due'[o] = l - (l % StdioSize)
      BY <1>7, <2>1, <2>3
    <3> PICK m \in Nat : m = l % StdioSize
      BY <2>2
    <3> QED BY <2>1, <3>1
  <2>4. CASE o \notin pipes
    BY <1>1, <1>4, <1>7, <2>4
  <2> QED BY <2>3, <2>4
<1>9. due' \in [Pipes -> Int]
  BY <1>2, <1>8
<1> QED BY <1>4, <1>7, <1>8, <1>9
LEMMA PrefixThrough ==
    ASSUME NEW S, NEW s \in Seq(S), NEW t \in Seq(S), NEW u \in Seq(S), IsPrefix(s, t), IsPrefix(t, u)
    PROVE  IsPrefix(s, u)
<1>1. /\ Len(s) <= Len(t) /\ \A k \in 1 .. Len(s) : s[k] = t[k]
      /\ Len(t) <= Len(u) /\ \A k \in 1 .. Len(t) : t[k] = u[k]
  BY PrefixByPosition
<1>2. Len(s) \in Nat /\ Len(t) \in Nat /\ Len(u) \in Nat
  OBVIOUS
<1>3. Len(s) <= Len(u) /\ \A k \in 1 .. Len(s) : s[k] = u[k]
  BY <1>1, <1>2
<1> QED BY <1>3, PrefixByPosition

-----------------------------------------------------------------------------
(* What has come to a process, and what it makes of it *)

\* It begins with the rows the process has had.
LEMMA CameType ==
    ASSUME Typed, NEW q \in Procs
    PROVE  /\ Stdin(q) \in Pipes /\ data[Stdin(q)] \in Seq(Piece) /\ Came(q) \in Seq(Piece)
           /\ IsPrefix(Has(q), Came(q)) /\ IsPrefix(FlattenSeq(got[q]), Came(q))
           /\ \E rest \in Seq(Piece) : Came(q) = FlattenSeq(got[q]) \o rest
<1>1. Stdin(q) \in Pipes
  BY DEF Stdin, Pipes
<1>2. data[Stdin(q)] \in Seq(Piece)
  BY <1>1 DEF Typed
<1>3. PICK f \in Seq(Piece), b \in Seq(Piece), d \in Seq(Piece), h \in Seq(Piece) :
          /\ f = FlattenSeq(got[q]) /\ b = Buf(q) \o ctx[q].file /\ d = data[Stdin(q)] /\ h = Has(q)
  BY <1>2, BuffersQ
<1>4. h = f \o b /\ Came(q) = h \o d
  BY <1>3 DEF Has, Came
<1>5. h \o d = f \o (b \o d) /\ b \o d \in Seq(Piece)
  <2> DEFINE S == Piece
  <2>1. f \in Seq(S) /\ b \in Seq(S) /\ d \in Seq(S)
    OBVIOUS
  <2> HIDE DEF S
  <2>2. (f \o b) \o d = f \o (b \o d) /\ b \o d \in Seq(S)
    BY ONLY <2>1
  <2> QED BY <1>4, <2>2 DEF S
<1>6. PICK r \in Seq(Piece) : r = b \o d
  BY <1>5
<1>7. h \o d \in Seq(Piece) /\ IsPrefix(h, h \o d) /\ IsPrefix(f, f \o r)
  BY PrefixJoined
<1> QED BY <1>1, <1>2, <1>3, <1>4, <1>5, <1>6, <1>7

LEMMA RowsOfCame ==
    ASSUME Typed, NEW q \in Procs, Reading(q)
    PROVE  /\ Parsed(Came(q)).rows \in Seq(Seq(Piece)) /\ IsPrefix(got[q], Parsed(Came(q)).rows)
           /\ IsPrefix(FlattenSeq(got[q]), FlattenSeq(Parsed(Came(q)).rows))
<1>1. Came(q) \in Seq(Piece) /\ FlattenSeq(got[q]) \in Seq(Piece) /\ got[q] \in Seq(Seq(Piece))
  BY CameType, BuffersQ
<1>2. PICK rest \in Seq(Piece) : Came(q) = FlattenSeq(got[q]) \o rest
  BY CameType
<1>3. Parsed(FlattenSeq(got[q])).rows = got[q]
  BY DEF Reading, Whole
<1>4. Parsed(Came(q)).rows \in Seq(Seq(Piece))
  BY <1>1, ParsedType
<1>5. IsPrefix(got[q], Parsed(Came(q)).rows)
  BY <1>1, <1>2, <1>3, ParsedGoesOn
<1>6. IsPrefix(FlattenSeq(got[q]), FlattenSeq(Parsed(Came(q)).rows))
  BY <1>1, <1>4, <1>5, FlattenPrefix
<1> QED BY <1>4, <1>5, <1>6

\* A process that has read all rows has had those of what has come to it.
LEMMA DoneParsed ==
    ASSUME Typed, NEW q \in Procs, Reading(q), Done(q)
    PROVE  /\ Closed(Stdin(q)) /\ Came(q) = FlattenSeq(got[q]) \o Buf(q)
           /\ Parsed(Came(q)) = [rows |-> got[q], part |-> Buf(q), bad |-> FALSE]
<1>1. /\ Buf(q) \in Seq(Piece) /\ FlattenSeq(got[q]) \in Seq(Piece)
  BY BuffersQ
<1>2. ctx[q].file = <<>> /\ data[Stdin(q)] = <<>> /\ Closed(Stdin(q))
  BY DEF Done, Reading, Closed
<1>3. PICK b \in Seq(Piece), f \in Seq(Piece) : b = Buf(q) /\ f = FlattenSeq(got[q])
  BY <1>1
<1>4. Came(q) = (f \o (b \o <<>>)) \o <<>>
  BY <1>2, <1>3 DEF Came, Has
<1>5. b \o <<>> = b /\ (f \o b) \o <<>> = f \o b
  <2>1. f \o b \in Seq(Piece)
    BY Associated
  <2> QED BY <2>1, Associated
<1>6. Came(q) = f \o b
  BY <1>4, <1>5
<1>7. \A i \in DOMAIN b : ~b[i].last /\ ~b[i].bad
  BY <1>3 DEF Done, HasRow, Lasts
<1>8. Parsed(f) = [rows |-> got[q], part |-> <<>>, bad |-> FALSE]
  BY <1>3 DEF Reading, Whole
<1>9. Parsed(f \o b) = [rows |-> got[q], part |-> b, bad |-> FALSE]
  BY <1>7, <1>8, ParsedPart
<1> QED BY <1>2, <1>3, <1>6, <1>9

LEMMA Kinds ==
    ASSUME Typed, ~Is("exec")
    PROVE  /\ Is("show") => First = "show" /\ Supply = "side"
           /\ ~Is("show") => Is("peek") /\ First = "peek" /\ Supply = "in"
           /\ First \in Procs /\ Supply \in Pipes /\ Stdin(First) = Supply
BY PipesAssumption DEF Typed, Is, First, Supply, Stdin, Procs, Pipes

\* What has come to the first process is the beginning of the stream.
LEMMA SentCame ==
    ASSUME Typed, ~Is("exec"), SourceFlow
    PROVE  Sent = Came(First) /\ IsPrefix(Came(First), job.stream) /\ job.stream \in Seq(Piece)
<1>1. job.stream \in Seq(Piece)
  BY PipesAssumption DEF Typed, Piece
<1>2. First \in Procs /\ Supply \in Pipes /\ Supply = (IF Is("show") THEN "side" ELSE "in")
  BY Kinds DEF Supply
<1>3. PICK c \in Seq(Piece), x \in Seq(Piece), l \in Seq(Piece), s \in Seq(Piece) :
          c = Came(First) /\ x = pend[Supply] /\ l = left /\ s = job.stream
  BY <1>1, <1>2, CameType DEF Typed
<1>4. s = c \o (x \o l)
  BY <1>3 DEF SourceFlow
<1>5. PICK r \in Seq(Piece) : r = x \o l /\ Len(r) = Len(x) + Len(l)
  BY PrefixJoined
<1>6. Len(s) = Len(c) + Len(r) /\ IsPrefix(c, s)
  BY <1>4, <1>5, PrefixJoined
<1>7. Len(s) - (Len(l) + Len(x)) = Len(c) /\ Len(c) \in 0 .. Len(s)
  BY <1>5, <1>6
<1>8. Sent = SubSeq(s, 1, Len(s) - (Len(l) + Len(x)))
  BY <1>2, <1>3 DEF Sent
<1>9. Sent = c
  <2>1. PICK n \in 0 .. Len(s) : n = Len(c)
    BY <1>7
  <2>2. /\ SubSeq(s, 1, n) \in Seq(Piece) /\ Len(SubSeq(s, 1, n)) = n
        /\ \A k \in 1 .. n : SubSeq(s, 1, n)[k] = s[k]
    BY CutAt
  <2>3. \A k \in 1 .. n : c[k] = s[k]
    BY <1>6, <2>1, PrefixByPosition
  <2>4. SubSeq(s, 1, n) = c
    BY <2>1, <2>2, <2>3, SeqEqual
  <2> QED BY <1>7, <1>8, <2>1, <2>4
<1> QED BY <1>1, <1>3, <1>6, <1>9

\* What has come to the viewer of csv-peek is the beginning of what csv-peek has read.
LEMMA ShowCame ==
    ASSUME Typed, Is("peek"), job.show, SourceFlow, Copied
    PROVE  IsPrefix(Came("show"), FlattenSeq(got["peek"])) /\ IsPrefix(Came("show"), job.stream)
<1>1. "show" \in Procs /\ "peek" \in Procs /\ "side" \in Pipes /\ ~Is("exec") /\ First = "peek"
  BY DEF Procs, Pipes, Is, First
<1>2. PICK c \in Seq(Piece), x \in Seq(Piece), g \in Seq(Piece), e \in Seq(Piece), s \in Seq(Piece) :
          /\ c = Came("show") /\ x = pend["side"] /\ g = FlattenSeq(got["peek"]) /\ e = Came("peek")
          /\ s = job.stream
  BY <1>1, CameType, BuffersQ, SentCame DEF Typed
<1>3. c \o x = PassedOn /\ IsPrefix(c, c \o x)
  BY <1>2, PrefixJoined DEF Copied
<1>4. <<>> \in Seq(Piece) /\ IsPrefix(<<>>, g) /\ IsPrefix(g, g)
  BY NothingFirst
<1>5. PassedOn \in Seq(Piece) /\ IsPrefix(PassedOn, g)
  BY <1>2, <1>4 DEF PassedOn
<1>6. IsPrefix(c, g)
  BY <1>3, <1>5, PrefixThrough
<1>7. IsPrefix(g, e) /\ IsPrefix(e, s)
  BY <1>1, <1>2, CameType, SentCame
<1>8. IsPrefix(g, s)
  BY <1>7, PrefixThrough
<1>9. IsPrefix(c, s)
  BY <1>6, <1>8, PrefixThrough
<1> QED BY <1>2, <1>6, <1>9
\* Whole rows end with the end of a line.
LEMMA WholeEnds ==
    ASSUME NEW S, NEW rows \in Seq(Seq(S)), Whole(rows), FlattenSeq(rows) # <<>>
    PROVE  Last(FlattenSeq(rows)).last
<1>1. PICK f \in Seq(S) : f = FlattenSeq(rows)
  BY FlattenType
<1>2. PICK w \in Seq(S), e \in S : f = Append(w, e) /\ Len(f) = Len(w) + 1
  BY <1>1, LastSplit
<1>3. Parsing(Parsed(w), e).part = <<>> /\ Parsing(Parsed(w), e).bad = FALSE
  BY <1>1, <1>2, ParsedAppend DEF Whole
<1>4. PICK p \in Seq(S) : p = Parsed(w).part
  BY ParsedType
<1>5. Append(p, e) # <<>>
  OBVIOUS
<1>6. e.last
  BY <1>3, <1>4, <1>5 DEF Parsing
<1>7. Last(f) = e
  BY <1>2 DEF Last
<1> QED BY <1>1, <1>6, <1>7

\* What the end of a csv-show that has printed all it was sent looks like
LEMMA ShownWhole ==
    ASSUME ViewTyped, Reading("show"), ShownAll, data["shown"] = <<>>, pend["shown"] = <<>>
    PROVE  /\ screen = FlattenSeq(got["show"]) /\ Parsed(Came("show")).rows = got["show"]
           /\ Closed(Stdin("show")) /\ (screen # <<>> => Last(screen).last)
<1>1. Typed /\ "show" \in Procs /\ screen \in Seq(Piece)
  BY DEF ViewTyped, Procs
<1>2. (screen \o <<>>) \o <<>> = screen
  BY <1>1, Associated
<1>3. screen = FlattenSeq(got["show"]) /\ Done("show")
  BY <1>2 DEF ShownAll
<1>4. Parsed(Came("show")).rows = got["show"] /\ Closed(Stdin("show"))
  <2>1. /\ Closed(Stdin("show"))
        /\ Parsed(Came("show")) = [rows |-> got["show"], part |-> Buf("show"), bad |-> FALSE]
    BY <1>1, <1>3, DoneParsed
  <2> QED BY <2>1
<1>5. screen # <<>> => Last(screen).last
  <2>1. got["show"] \in Seq(Seq(Piece)) /\ Whole(got["show"])
    BY <1>1, BuffersQ DEF Reading
  <2> QED BY <1>3, <2>1, WholeEnds
<1> QED BY <1>3, <1>4, <1>5

LEMMA ToolViewRight == ViewInv /\ Is("show") => ViewRight
<1> SUFFICES ASSUME ViewInv, Is("show") PROVE ViewRight
  OBVIOUS
<1>1. /\ ViewTyped /\ Typed /\ SourceFlow /\ Reading("show")
      /\ SourceStages /\ ShowAlone /\ ShowStages /\ ~Is("exec") /\ ~Is("peek")
  BY DEF ViewInv, Is, Flows, Control, ViewTyped
<1>2. Sent = Came("show") /\ "show" \in Procs /\ Supply = "side" /\ Stdin("show") = "side"
  BY <1>1, SentCame, Kinds DEF Procs, Stdin
<1>3. data["shown"] = <<>> /\ pend["shown"] = <<>>
  BY <1>1 DEF ShowAlone, Pipes
<1>4. PICK rows \in Seq(Seq(Piece)) : rows = Parsed(Sent).rows
  BY <1>1, <1>2, RowsOfCame
<1>5. PICK whole \in Seq(Piece) : whole = FlattenSeq(rows)
  BY FlattenType
<1>6. CASE ShownAll
  <2>1. /\ screen = FlattenSeq(got["show"]) /\ Parsed(Came("show")).rows = got["show"]
        /\ Closed("side") /\ (screen # <<>> => Last(screen).last)
    BY <1>1, <1>2, <1>3, <1>6, ShownWhole
  <2>2. screen = whole
    BY <1>2, <1>4, <1>5, <2>1
  <2>3. pc["source"] \in {"exiting", "ended"} /\ status["source"] # Running
    BY <1>1, <1>2, <2>1 DEF SourceStages, Closed
  <2>4. status["show"] = 2 => screen = <<>>
    BY <1>1 DEF ShowStages, ShownNothing, Running, Killed
  <2> QED BY <1>1, <1>4, <1>5, <2>1, <2>2, <2>3, <2>4, NothingFirst DEF ViewRight
<1>7. CASE ShownNothing /\ status["show"] # 0
  <2>1. screen = <<>>
    BY <1>7 DEF ShownNothing
  <2> QED BY <1>1, <1>4, <1>5, <1>7, <2>1, NothingFirst DEF ViewRight
<1>8. (ShownNothing /\ status["show"] # 0) \/ ShownAll
  BY <1>1 DEF ShowStages, Running, Killed
<1> QED BY <1>6, <1>7, <1>8
LEMMA PeekViewRight == ViewInv /\ Is("peek") => ViewRight
<1> SUFFICES ASSUME ViewInv, Is("peek") PROVE ViewRight
  OBVIOUS
<1>1. /\ ViewTyped /\ Typed /\ SourceFlow /\ Reading("show") /\ Reading("peek") /\ Copied
      /\ PeekAlone /\ PeekStages /\ (job.show => ShowStages) /\ ~Is("exec") /\ ~Is("show")
      /\ Fresh("peek")
  BY DEF ViewInv, Is, Flows, Control, ViewTyped
<1>2. /\ Sent = Came("peek") /\ {"peek", "show"} \subseteq Procs
      /\ Stdin("show") = "side" /\ Stdin("peek") = "in"
      /\ {"in", "out", "side", "shown"} \subseteq Pipes
  BY <1>1, SentCame, Kinds DEF Procs, Pipes, Stdin
<1>3. PICK rows \in Seq(Seq(Piece)) : rows = Parsed(Sent).rows
  BY <1>1, <1>2, RowsOfCame
<1>4. PICK whole \in Seq(Piece) : whole = FlattenSeq(rows)
  BY FlattenType
<1>5. PICK g \in Seq(Piece) : g = FlattenSeq(got["peek"]) /\ IsPrefix(g, whole)
  BY <1>1, <1>2, <1>3, <1>4, BuffersQ, RowsOfCame
<1>6. Done("peek") => got["peek"] = rows /\ g = whole /\ ~Parsed(Sent).bad
  <2> SUFFICES ASSUME Done("peek") PROVE got["peek"] = rows /\ g = whole /\ ~Parsed(Sent).bad
    OBVIOUS
  <2>1. Parsed(Sent) = [rows |-> got["peek"], part |-> Buf("peek"), bad |-> FALSE]
    BY <1>1, <1>2, DoneParsed
  <2> QED BY <1>3, <1>4, <1>5, <2>1
<1>7. /\ PassedOn \in Seq(Piece) /\ IsPrefix(PassedOn, whole)
      /\ (pc["peek"] # "start" => PassedOn = g)
  BY <1>5, NothingFirst DEF PassedOn
<1>8. status["peek"] = 0 => pc["peek"] \in {"exiting", "ended"} /\ Done("peek")
  BY <1>1 DEF PeekStages, Running, Killed
<1>9. status["peek"] = 0 => (pc["peek"] = "ended" => received \o data["out"] = whole)
  <2> SUFFICES ASSUME status["peek"] = 0, pc["peek"] = "ended" PROVE received \o data["out"] = whole
    OBVIOUS
  <2>1. pend["out"] = <<>>
    BY <1>1 DEF PeekStages, Running, Killed
  <2>2. (received \o data["out"]) \o pend["out"] = whole
    BY <1>1, <1>6, <1>7, <1>8 DEF Copied
  <2>3. PICK r \in Seq(Piece), d \in Seq(Piece) : r = received /\ d = data["out"]
    BY <1>1, <1>2 DEF ViewTyped, Typed
  <2>4. r \o d \in Seq(Piece)
    BY PrefixJoined
  <2>5. PICK z \in Seq(Piece) : z = r \o d
    BY <2>4
  <2>6. z \o <<>> = z
    OBVIOUS
  <2> QED BY <2>1, <2>2, <2>3, <2>5, <2>6
<1>10. CASE ~job.show
  <2>1. screen = PassedOn
    BY <1>1, <1>10 DEF Copied
  <2>2. status["peek"] = 0 => screen = whole
    BY <1>6, <1>7, <1>8, <2>1
  <2> QED BY <1>1, <1>3, <1>4, <1>7, <1>9, <1>10, <2>1, <2>2 DEF ViewRight, Is
<1>11. CASE job.show
  <2>1. screen # <<>> => Done("peek")
    BY <1>1, <1>11 DEF PeekStages
  <2>2. IsPrefix(FlattenSeq(got["show"]), whole) /\ FlattenSeq(got["show"]) \in Seq(Piece)
    <3>1. PICK f \in Seq(Piece), c \in Seq(Piece) : f = FlattenSeq(got["show"]) /\ c = Came("show")
      BY <1>1, <1>2, BuffersQ, CameType
    <3>2. IsPrefix(f, c) /\ IsPrefix(c, g)
      BY <1>1, <1>2, <1>5, <1>11, <3>1, CameType, ShowCame
    <3>3. IsPrefix(f, g)
      BY <3>2, PrefixThrough
    <3>4. IsPrefix(f, whole)
      BY <1>5, <3>3, PrefixThrough
    <3> QED BY <3>1, <3>4
  <2>3. IsPrefix(screen, whole)
    <3>1. CASE screen = <<>>
      BY <3>1, NothingFirst
    <3>2. CASE ShownAll
      <4>1. PICK s \in Seq(Piece), d \in Seq(Piece), x \in Seq(Piece), f \in Seq(Piece) :
                s = screen /\ d = data["shown"] /\ x = pend["shown"] /\ f = FlattenSeq(got["show"])
        BY <1>1, <1>2, <2>2 DEF ViewTyped, Typed
      <4>2. PICK y \in Seq(Piece) : y = s \o d /\ IsPrefix(s, y)
        BY PrefixJoined
      <4>3. f = y \o x
        BY <3>2, <4>1, <4>2 DEF ShownAll
      <4>4. IsPrefix(y, f)
        BY <4>3, PrefixJoined
      <4>5. IsPrefix(s, f)
        BY <4>2, <4>4, PrefixThrough
      <4>6. IsPrefix(s, whole)
        BY <2>2, <4>1, <4>5, PrefixThrough
      <4> QED BY <4>1, <4>6
    <3> QED BY <1>1, <1>11, <3>1, <3>2 DEF ShowStages, ShownNothing
  <2>4. status["peek"] = 0 /\ status["show"] = 0 => screen = whole
    <3> SUFFICES ASSUME status["peek"] = 0, status["show"] = 0 PROVE screen = whole
      OBVIOUS
    <3>1. pend["side"] = <<>> /\ data["shown"] = <<>> /\ pc["show"] \in {"none", "ended"}
      BY <1>1, <1>11 DEF PeekStages, Running, Killed
    <3>2. ShownAll /\ pend["shown"] = <<>>
      BY <1>1, <1>11, <3>1 DEF ShowStages, Running, Killed
    <3>3. screen = FlattenSeq(got["show"]) /\ Parsed(Came("show")).rows = got["show"]
      BY <1>1, <3>1, <3>2, ShownWhole
    <3>4. Came("show") = g
      <4>1. Came("show") \o <<>> = PassedOn /\ PassedOn = g
        BY <1>1, <1>7, <1>8, <1>11, <3>1 DEF Copied
      <4>2. PICK z \in Seq(Piece) : z = Came("show")
        BY <1>1, <1>2, CameType
      <4>3. z \o <<>> = z
        OBVIOUS
      <4> QED BY <4>1, <4>2, <4>3
    <3>5. Parsed(g).rows = got["peek"]
      BY <1>1, <1>5 DEF Reading, Whole
    <3> QED BY <1>4, <1>6, <1>8, <3>3, <3>4, <3>5
  <2>5. job.show /\ screen # <<>> => got["peek"] = rows /\ ~Parsed(Sent).bad
    BY <1>6, <2>1
  <2> QED BY <1>1, <1>3, <1>4, <1>9, <1>11, <2>3, <2>4, <2>5 DEF ViewRight, Is
<1> QED BY <1>10, <1>11
-----------------------------------------------------------------------------
(* Steps that move no piece *)

LEMMA Parts ==
    ASSUME ViewInv, ~Is("exec")
    PROVE  /\ ViewTyped /\ Typed /\ Flows /\ SourceFlow /\ Reading("show") /\ Reading("peek")
           /\ Control /\ SourceStages /\ Fresh("show") /\ Fresh("peek")
           /\ Is("show") => ~Is("peek") /\ ShowAlone /\ ShowStages
           /\ ~Is("show") => Is("peek") /\ Copied /\ PeekAlone /\ PeekStages /\ (job.show => ShowStages)
           /\ {"source", "show", "peek", "down"} \subseteq Procs
           /\ {"in", "out", "side", "shown"} = Pipes
<1>1. ViewTyped /\ Flows /\ Control
  BY DEF ViewInv
<1>2. Typed
  BY <1>1 DEF ViewTyped
<1>3. ~Is("show") => Is("peek")
  BY <1>2, Kinds
<1>4. Is("show") => ~Is("peek")
  BY DEF Is
<1>5. {"source", "show", "peek", "down"} \subseteq Procs /\ {"in", "out", "side", "shown"} = Pipes
  BY DEF Procs, Pipes
<1> QED BY <1>1, <1>2, <1>3, <1>4, <1>5 DEF Flows, Control

\* The flows of pieces are right after a step, and what has been done stays done.
FlowsStay ==
    /\ ViewTyped' /\ Flows' /\ Fresh("show")' /\ Fresh("peek")'
    /\ Done("show") => Done("show")'
    /\ Done("peek") => Done("peek")'
    /\ ShownAll => ShownAll'

LEMMA StillFlows ==
    ASSUME ViewInv, ~Is("exec"),
           UNCHANGED <<job, data, pend, left, ctx, got, received, screen, results>>,
           DOMAIN pc' = Procs, DOMAIN status' = Procs,
           readers' \in [Pipes -> SUBSET Procs], writers' \in [Pipes -> SUBSET Procs],
           due' \in [Pipes -> Int], \A p \in Pipes : due'[p] <= Len(pend[p]),
           \A p \in Pipes : writers[p] = {} => writers'[p] = {},
           \A q \in {"show", "peek"} : pc'[q] = "start" <=> pc[q] = "start",
           \A q \in {"show", "peek"} :
              pc'[q] \in {"none", "forked", "header"} => pc[q] \in {"none", "forked", "header"}
    PROVE  FlowsStay
<1>1. /\ ViewTyped /\ Typed /\ Flows /\ Fresh("show") /\ Fresh("peek")
  BY Parts
<1>2. Piece' = Piece
  BY DEF Piece
<1>3. ViewTyped'
  <2>1. Typed'
    BY <1>1, <1>2 DEF Typed, Contexts
  <2> QED BY <1>1, <1>2, <2>1 DEF ViewTyped
<1>4. \A q \in {"show", "peek"} : Buf(q)' = Buf(q) /\ Has(q)' = Has(q) /\ Came(q)' = Came(q) /\ Stdin(q)' = Stdin(q)
  BY DEF Buf, Has, Came, Stdin
<1>5. \A q \in {"show", "peek"} : Stdin(q) \in Pipes
  BY DEF Stdin, Pipes
<1>6. \A q \in {"show", "peek"} : Reading(q) => Reading(q)'
  <2> SUFFICES ASSUME NEW q \in {"show", "peek"}, Reading(q) PROVE Reading(q)'
    OBVIOUS
  <2>1. Whole(got[q])' = Whole(got[q])
    BY DEF Whole
  <2>2. Closed(Stdin(q)) => Closed(Stdin(q))'
    BY <1>4, <1>5 DEF Closed
  <2>3. Buf(q)' = Buf(q)
    BY <1>4
  <2> QED BY <2>1, <2>2, <2>3 DEF Reading
<1>7. SourceFlow' = SourceFlow
  <2>1. First' = First /\ Supply' = Supply /\ First \in {"show", "peek"}
    BY DEF First, Supply, Is
  <2>2. Came(First)' = Came(First)
    BY <1>4, <2>1 DEF Came, Has, Buf, Stdin
  <2> QED BY <2>1, <2>2 DEF SourceFlow
<1>8. Copied => Copied'
  <2>1. PassedOn' = PassedOn
    BY DEF PassedOn
  <2> QED BY <1>4, <2>1 DEF Copied
<1>9. Flows'
  BY <1>1, <1>6, <1>7, <1>8 DEF Flows, Is
<1>10. Fresh("show")' /\ Fresh("peek")'
  BY <1>1, <1>4 DEF Fresh
<1>11. \A q \in {"show", "peek"} : Done(q)' = Done(q)
  BY <1>4 DEF Done, HasRow
<1>12. ShownAll' = ShownAll
  BY <1>11 DEF ShownAll
<1> QED BY <1>3, <1>9, <1>10, <1>11, <1>12 DEF FlowsStay

\* The stages do not depend on anything else.
LEMMA SourceStagesKept ==
    ASSUME SourceStages, job' = job, pc'["source"] = pc["source"], status'["source"] = status["source"],
           "source" \in writers[Supply] => "source" \in writers'[Supply]
    PROVE  SourceStages'
BY DEF SourceStages, Supply, Is

LEMMA ShowStagesKept ==
    ASSUME ShowStages, job' = job, pc'["show"] = pc["show"], status'["show"] = status["show"],
           ShownNothing => ShownNothing', ShownAll => ShownAll',
           due'["shown"] = due["shown"], pend'["shown"] = pend["shown"]
    PROVE  ShowStages'
BY DEF ShowStages, Is

LEMMA PeekStagesKept ==
    ASSUME PeekStages, job' = job, pc'["peek"] = pc["peek"], status'["peek"] = status["peek"],
           Done("peek") => Done("peek")', screen = <<>> => screen' = <<>>,
           due'["side"] = due["side"], due'["out"] = due["out"],
           pend'["side"] = pend["side"], pend'["out"] = pend["out"],
           data["shown"] = <<>> => data'["shown"] = <<>>,
           pc["show"] \in {"none", "ended"} => pc'["show"] \in {"none", "ended"}
    PROVE  PeekStages'
BY DEF PeekStages

LEMMA ShowAloneKept ==
    ASSUME ShowAlone, pc["show"] # "none" => pc'["show"] # "none",
           \A q \in {"peek", "down", "exec", "command"} : pc'[q] = pc[q],
           \A p \in Pipes \ {"side"} : data'[p] = data[p] /\ pend'[p] = pend[p]
    PROVE  ShowAlone'
BY DEF ShowAlone

LEMMA PeekAloneKept ==
    ASSUME PeekAlone, job' = job, \A q \in {"peek", "exec", "command"} : pc'[q] = pc[q],
           pend["side"] = <<>> => pend'["side"] = <<>>,
           "peek" \in writers["side"] => "peek" \in writers'["side"],
           pc["show"] = "none" => pc'["show"] = "none",
           pc["show"] = "ended" => pc'["show"] = "ended",
           pc["show"] \notin {"none", "ended"} =>
              pc'["show"] # "none" /\ (pc'["show"] = "ended" \/ ("show" \in writers["shown"] => "show" \in writers'["shown"]))
    PROVE  PeekAlone'
BY DEF PeekAlone
\* The source takes a step: the stages of the others are as before.
LEMMA SourceMoves ==
    ASSUME ViewInv, ~Is("exec"), FlowsStay, SourceStages', job' = job,
           \A q \in Procs \ {"source"} : pc'[q] = pc[q] /\ status'[q] = status[q],
           \A q \in {"show", "peek"}, p \in Pipes : q \in writers[p] => q \in writers'[p],
           \A p \in Pipes \ {Supply} : data'[p] = data[p] /\ pend'[p] = pend[p] /\ due'[p] = due[p],
           screen' = screen
    PROVE  ViewInv'
<1>1. /\ Control /\ Flows' /\ ViewTyped' /\ Fresh("show")' /\ Fresh("peek")'
      /\ {"in", "out", "side", "shown"} = Pipes
      /\ (Done("peek") => Done("peek")') /\ (ShownAll => ShownAll')
      /\ Supply \in {"side", "in"} /\ (Is("show") => Supply = "side") /\ (~Is("show") => Supply = "in")
  BY Parts DEF FlowsStay, Supply
<1>2. \A q \in {"show", "peek", "down", "exec", "command"} : pc'[q] = pc[q] /\ status'[q] = status[q]
  BY DEF Procs
<1>3. /\ data'["shown"] = data["shown"] /\ pend'["shown"] = pend["shown"] /\ due'["shown"] = due["shown"]
      /\ data'["out"] = data["out"] /\ pend'["out"] = pend["out"] /\ due'["out"] = due["out"]
  BY <1>1
<1>4. ShownNothing => ShownNothing'
  BY <1>3 DEF ShownNothing
<1>5. ShowStages => ShowStages'
  BY <1>1, <1>2, <1>3, <1>4, ShowStagesKept
<1>6. Is("show") => ShowAlone' /\ ShowStages'
  <2> SUFFICES ASSUME Is("show") PROVE ShowAlone' /\ ShowStages'
    OBVIOUS
  <2>1. ShowAlone /\ ShowStages
    BY Parts
  <2> QED BY <1>1, <1>2, <1>5, <2>1, ShowAloneKept
<1>7. ~Is("show") => PeekAlone' /\ PeekStages' /\ (job.show => ShowStages')
  <2> SUFFICES ASSUME ~Is("show") PROVE PeekAlone' /\ PeekStages' /\ (job.show => ShowStages')
    OBVIOUS
  <2>1. PeekAlone /\ PeekStages /\ (job.show => ShowStages)
    BY Parts
  <2>2. data'["side"] = data["side"] /\ pend'["side"] = pend["side"] /\ due'["side"] = due["side"]
    BY <1>1
  <2>3. PeekAlone'
    BY <1>1, <1>2, <2>1, <2>2, PeekAloneKept
  <2>4. PeekStages'
    BY <1>1, <1>2, <1>3, <2>1, <2>2, PeekStagesKept
  <2> QED BY <1>5, <2>1, <2>3, <2>4
<1>8. Is("show")' = Is("show")
  BY DEF Is
<1>9. Control'
  BY <1>1, <1>6, <1>7, <1>8 DEF Control
<1> QED BY <1>1, <1>9 DEF ViewInv

\* csv-show takes a step.
LEMMA ShowMoves ==
    ASSUME ViewInv, ~Is("exec"), FlowsStay, ShowStages', job' = job,
           pc["show"] \notin {"none", "ended"}, pc'["show"] # "none",
           \A q \in Procs \ {"show"} : pc'[q] = pc[q] /\ status'[q] = status[q],
           \A q \in {"source", "peek"}, p \in Pipes : q \in writers[p] => q \in writers'[p],
           pc'["show"] # "ended" => ("show" \in writers["shown"] => "show" \in writers'["shown"]),
           \A p \in Pipes \ {"shown"} : pend'[p] = pend[p] /\ due'[p] = due[p],
           Is("show") => data'["shown"] = <<>> /\ pend'["shown"] = <<>>,
           \A p \in Pipes \ {"shown", "side"} : data'[p] = data[p],
           ~Is("show") => screen' = screen
    PROVE  ViewInv'
<1>1. /\ SourceStages /\ Flows' /\ ViewTyped' /\ Fresh("show")' /\ Fresh("peek")'
      /\ {"in", "out", "side", "shown"} = Pipes
      /\ (Done("peek") => Done("peek")') /\ Supply \in Pipes
  BY Parts, Kinds DEF FlowsStay
<1>2. /\ \A q \in {"source", "peek", "down", "exec", "command"} : pc'[q] = pc[q] /\ status'[q] = status[q]
      /\ pend'["side"] = pend["side"] /\ pend'["out"] = pend["out"]
      /\ due'["side"] = due["side"] /\ due'["out"] = due["out"]
  BY <1>1 DEF Procs
<1>3. SourceStages'
  BY <1>1, <1>2, SourceStagesKept
<1>4. Is("show") => ShowAlone'
  <2> SUFFICES ASSUME Is("show") PROVE ShowAlone'
    OBVIOUS
  <2>1. ShowAlone
    BY Parts
  <2> QED BY <1>1, <1>2, <2>1 DEF ShowAlone
<1>5. ~Is("show") => PeekAlone' /\ PeekStages'
  <2> SUFFICES ASSUME ~Is("show") PROVE PeekAlone' /\ PeekStages'
    OBVIOUS
  <2>1. PeekAlone /\ PeekStages
    BY Parts
  <2>2. job.show
    BY <2>1 DEF PeekAlone
  <2>3. PeekAlone'
    BY <1>1, <1>2, <2>1, <2>2 DEF PeekAlone
  <2>4. PeekStages'
    BY <1>1, <1>2, <2>1, <2>2 DEF PeekStages
  <2> QED BY <2>3, <2>4
<1>6. Is("show")' = Is("show")
  BY DEF Is
<1>7. Control'
  BY <1>1, <1>3, <1>4, <1>5, <1>6 DEF Control
<1> QED BY <1>1, <1>7 DEF ViewInv

\* csv-peek, or what reads from it, takes a step.
LEMMA PeekMoves ==
    ASSUME ViewInv, ~Is("exec"), ~Is("show"), FlowsStay, job' = job,
           pc'["source"] = pc["source"], status'["source"] = status["source"],
           "source" \in writers["in"] => "source" \in writers'["in"],
           PeekStages', PeekAlone', job.show => ShowStages'
    PROVE  ViewInv'
<1>1. /\ SourceStages /\ Flows' /\ ViewTyped' /\ Fresh("show")' /\ Fresh("peek")' /\ Supply = "in"
  BY Parts, Kinds DEF FlowsStay
<1>2. SourceStages'
  BY <1>1, SourceStagesKept
<1>3. Is("show")' = Is("show")
  BY DEF Is
<1>4. Control'
  BY <1>1, <1>2, <1>3 DEF Control
<1> QED BY <1>1, <1>4 DEF ViewInv

-----------------------------------------------------------------------------
(* The end of a process *)

Active == {"source", "show", "peek", "down"}

LEMMA ExitStay ==
    ASSUME ViewInv, ~Is("exec"), NEW q \in Active, NEW code, pc[q] # "start", Exit(q, code)
    PROVE  /\ FlowsStay
           /\ UNCHANGED <<job, readers, writers, data, pend, screen>>
           /\ pc'[q] = "exiting" /\ status'[q] = code
           /\ \A o \in Procs \ {q} : pc'[o] = pc[o] /\ status'[o] = status[o]
           /\ \A p \in Prints(q) : due'[p] = Len(pend[p])
           /\ \A p \in Pipes \ Prints(q) : due'[p] = due[p]
<1>1. ViewTyped /\ Typed /\ Active \subseteq Procs /\ Prints(q) \subseteq Pipes
  BY Parts DEF Active, Prints, Pipes
<1>2. /\ pc' = [pc EXCEPT ![q] = "exiting"] /\ status' = [status EXCEPT ![q] = code]
      /\ due' = [p \in Pipes |-> IF p \in Prints(q) THEN Len(pend[p]) ELSE due[p]]
      /\ UNCHANGED <<job, readers, writers, data, pend, left, ctx, got, received, screen, results>>
  BY DEF Exit, Goto, Flush, ends, reading, told
<1>3. /\ pc'[q] = "exiting" /\ status'[q] = code /\ DOMAIN pc' = Procs /\ DOMAIN status' = Procs
      /\ \A o \in Procs \ {q} : pc'[o] = pc[o] /\ status'[o] = status[o]
  BY <1>1, <1>2 DEF Typed
<1>4. /\ due' \in [Pipes -> Int] /\ \A p \in Pipes : due'[p] <= Len(pend[p])
      /\ \A p \in Prints(q) : due'[p] = Len(pend[p])
      /\ \A p \in Pipes \ Prints(q) : due'[p] = due[p]
  <2>1. \A p \in Pipes : Len(pend[p]) \in Nat /\ due[p] \in Int /\ due[p] <= Len(pend[p])
    BY <1>1 DEF Typed
  <2> HIDE DEF Pipes
  <2> QED BY <1>1, <1>2, <2>1
<1>5. readers' \in [Pipes -> SUBSET Procs] /\ writers' \in [Pipes -> SUBSET Procs]
  BY <1>1, <1>2 DEF Typed
<1>6. /\ \A o \in {"show", "peek"} : pc'[o] = "start" <=> pc[o] = "start"
      /\ \A o \in {"show", "peek"} :
            pc'[o] \in {"none", "forked", "header"} => pc[o] \in {"none", "forked", "header"}
  <2> SUFFICES ASSUME NEW o \in {"show", "peek"}
               PROVE  /\ pc'[o] = "start" <=> pc[o] = "start"
                      /\ pc'[o] \in {"none", "forked", "header"} => pc[o] \in {"none", "forked", "header"}
    OBVIOUS
  <2>1. o \in Procs
    BY Parts
  <2>2. CASE o = q
    BY <1>3, <2>2
  <2>3. CASE o # q
    BY <1>3, <2>1, <2>3
  <2> QED BY <2>2, <2>3
<1>7. FlowsStay
  BY <1>2, <1>3, <1>4, <1>5, <1>6, StillFlows
<1> QED BY <1>2, <1>3, <1>4, <1>7

\* end() and kill: the process holds nothing any more.
LEMMA GoneStay ==
    ASSUME ViewInv, ~Is("exec"), NEW q \in Active, pc[q] # "start",
           UNCHANGED <<job, data, pend, left, ctx, got, received, screen, results>>,
           pc' = [pc EXCEPT ![q] = "ended"], DOMAIN status' = Procs,
           readers' = Without(q, readers), writers' = Without(q, writers),
           due' \in [Pipes -> Int], \A p \in Pipes : due'[p] <= Len(pend[p])
    PROVE  /\ FlowsStay
           /\ pc'[q] = "ended" /\ \A o \in Procs \ {q} : pc'[o] = pc[o]
           /\ \A o \in Procs \ {q}, p \in Pipes : o \in writers[p] => o \in writers'[p]
<1>1. ViewTyped /\ Typed /\ Active \subseteq Procs
  BY Parts DEF Active
<1>2. /\ pc'[q] = "ended" /\ DOMAIN pc' = Procs
      /\ \A o \in Procs \ {q} : pc'[o] = pc[o]
  BY <1>1 DEF Typed
<1>3. readers' \in [Pipes -> SUBSET Procs] /\ writers' \in [Pipes -> SUBSET Procs]
  BY <1>1, HeldType
<1>4. \A p \in Pipes : writers'[p] = writers[p] \ {q}
  BY DEF Without
<1>5. /\ \A p \in Pipes : writers[p] = {} => writers'[p] = {}
      /\ \A o \in Procs \ {q}, p \in Pipes : o \in writers[p] => o \in writers'[p]
  BY <1>4
<1>6. /\ \A o \in {"show", "peek"} : pc'[o] = "start" <=> pc[o] = "start"
      /\ \A o \in {"show", "peek"} :
            pc'[o] \in {"none", "forked", "header"} => pc[o] \in {"none", "forked", "header"}
  <2> SUFFICES ASSUME NEW o \in {"show", "peek"}
               PROVE  /\ pc'[o] = "start" <=> pc[o] = "start"
                      /\ pc'[o] \in {"none", "forked", "header"} => pc[o] \in {"none", "forked", "header"}
    OBVIOUS
  <2>1. o \in Procs
    BY Parts
  <2>2. CASE o = q
    BY <1>2, <2>2
  <2>3. CASE o # q
    BY <1>2, <2>1, <2>3
  <2> QED BY <2>2, <2>3
<1>7. FlowsStay
  BY <1>2, <1>3, <1>5, <1>6, StillFlows
<1> QED BY <1>2, <1>5, <1>7

LEMMA EndStay ==
    ASSUME ViewInv, ~Is("exec"), NEW q \in Active, End(q)
    PROVE  /\ FlowsStay /\ pc[q] = "exiting" /\ \A p \in Prints(q) : due[p] = 0
           /\ UNCHANGED <<job, status, data, pend, due, screen>>
           /\ pc'[q] = "ended" /\ \A o \in Procs \ {q} : pc'[o] = pc[o]
           /\ \A o \in Procs \ {q}, p \in Pipes : o \in writers[p] => o \in writers'[p]
<1>1. /\ pc[q] = "exiting" /\ pc' = [pc EXCEPT ![q] = "ended"] /\ \A p \in Prints(q) : due[p] = 0
      /\ readers' = Without(q, readers) /\ writers' = Without(q, writers)
      /\ UNCHANGED <<job, status, data, pend, due, left, ctx, got, received, screen, results>>
  BY DEF End, At, Idle, Goto, stdio, reading, told
<1>2. DOMAIN status' = Procs /\ due' \in [Pipes -> Int] /\ \A p \in Pipes : due'[p] <= Len(pend[p])
  BY <1>1, Parts DEF Typed
<1> QED BY <1>1, <1>2, GoneStay

LEMMA KillStay ==
    ASSUME ViewInv, ~Is("exec"), NEW q \in Active, pc[q] # "start", Kill(q)
    PROVE  /\ FlowsStay
           /\ UNCHANGED <<job, data, pend, screen>>
           /\ pc'[q] = "ended" /\ status'[q] = Killed
           /\ \A o \in Procs \ {q} : pc'[o] = pc[o] /\ status'[o] = status[o]
           /\ \A o \in Procs \ {q}, p \in Pipes : o \in writers[p] => o \in writers'[p]
           /\ \A p \in Pipes \ Prints(q) : due'[p] = due[p]
<1>1. /\ pc' = [pc EXCEPT ![q] = "ended"] /\ status' = [status EXCEPT ![q] = Killed]
      /\ readers' = Without(q, readers) /\ writers' = Without(q, writers)
      /\ due' = [p \in Pipes |-> IF p \in Prints(q) THEN 0 ELSE due[p]]
      /\ UNCHANGED <<job, data, pend, left, ctx, got, received, screen, results>>
  BY DEF Kill, Goto, reading, told
<1>2. Typed /\ Active \subseteq Procs
  BY Parts DEF Active
<1>3. /\ DOMAIN status' = Procs /\ status'[q] = Killed
      /\ \A o \in Procs \ {q} : status'[o] = status[o]
  BY <1>1, <1>2 DEF Typed
<1>4. /\ due' \in [Pipes -> Int] /\ \A p \in Pipes : due'[p] <= Len(pend[p])
      /\ \A p \in Pipes \ Prints(q) : due'[p] = due[p]
  <2>1. \A p \in Pipes : Len(pend[p]) \in Nat /\ due[p] \in Int /\ due[p] <= Len(pend[p])
    BY <1>2 DEF Typed
  <2> QED BY <1>1, <2>1
<1> QED BY <1>1, <1>3, <1>4, GoneStay
-----------------------------------------------------------------------------
(* The source *)

LEMMA SourceFacts ==
    ASSUME ViewInv, ~Is("exec")
    PROVE  /\ "source" \in Active /\ Prints("source") = {Supply} /\ Supply \in Pipes
           /\ pc["source"] # "start" /\ "source" \in Procs
           /\ {"show", "peek"} \subseteq Procs \ {"source"}
           /\ pc["source"] # "ended" => "source" \in writers[Supply]
           /\ Supply' = (IF Is("show")' THEN "side" ELSE "in")
<1>1. SourceStages /\ Supply \in Pipes
  BY Parts, Kinds
<1> QED BY <1>1 DEF Active, Prints, Supply, SourceStages, Procs

LEMMA ToolStartsStep == ViewInv /\ ~Is("exec") /\ ToolStarts => ViewInv'
<1> SUFFICES ASSUME ViewInv, ~Is("exec"), ToolStarts PROVE ViewInv'
  OBVIOUS
<1>1. /\ pc["source"] = "forked" /\ pc' = [pc EXCEPT !["source"] = "run"]
      /\ readers' = [readers EXCEPT !["side"] = @ \ {"source"}]
      /\ UNCHANGED <<job, status, writers, data, pend, due, left, ctx, got, received, screen, results>>
  BY DEF ToolStarts, At, Goto, stdio, reading, told
<1>2. Typed /\ SourceStages /\ "source" \in Procs
  BY Parts
<1>3. /\ pc'["source"] = "run" /\ DOMAIN pc' = Procs /\ \A q \in Procs \ {"source"} : pc'[q] = pc[q]
      /\ readers' \in [Pipes -> SUBSET Procs] /\ writers' \in [Pipes -> SUBSET Procs]
      /\ DOMAIN status' = Procs /\ due' \in [Pipes -> Int] /\ \A p \in Pipes : due'[p] <= Len(pend[p])
  BY <1>1, <1>2 DEF Typed
<1>4. FlowsStay
  <2>1. \A q \in {"show", "peek"} : pc'[q] = pc[q]
    BY <1>3 DEF Procs
  <2> QED BY <1>1, <1>3, <2>1, StillFlows
<1>5. SourceStages'
  BY <1>1, <1>2, <1>3 DEF SourceStages, Supply, Is
<1> QED BY <1>1, <1>3, <1>4, <1>5, SourceMoves

LEMMA SourceEndsView == ViewInv /\ ~Is("exec") /\ SourceEnds => ViewInv'
<1> SUFFICES ASSUME ViewInv, ~Is("exec"), SourceEnds PROVE ViewInv'
  OBVIOUS
<1>1. pc["source"] = "run" /\ Exit("source", job.ends)
  BY DEF SourceEnds, At
<1>2. job.ends \in 0 .. 255
  BY Parts, PipesAssumption DEF Typed
<1>3. /\ FlowsStay /\ UNCHANGED <<job, readers, writers, data, pend, screen>>
      /\ pc'["source"] = "exiting" /\ status'["source"] = job.ends
      /\ \A o \in Procs \ {"source"} : pc'[o] = pc[o] /\ status'[o] = status[o]
      /\ \A p \in Pipes \ Prints("source") : due'[p] = due[p]
  BY <1>1, ExitStay DEF Active
<1>4. SourceStages'
  BY <1>1, <1>2, <1>3, Parts DEF SourceStages, Supply, Is, Running
<1> QED BY <1>3, <1>4, SourceMoves, SourceFacts

LEMMA SourceDiesView == ViewInv /\ ~Is("exec") /\ Kill("source") => ViewInv'
<1> SUFFICES ASSUME ViewInv, ~Is("exec"), Kill("source") PROVE ViewInv'
  OBVIOUS
<1>1. /\ FlowsStay /\ UNCHANGED <<job, data, pend, screen>>
      /\ pc'["source"] = "ended" /\ status'["source"] = Killed
      /\ \A o \in Procs \ {"source"} : pc'[o] = pc[o] /\ status'[o] = status[o]
      /\ \A o \in Procs \ {"source"}, p \in Pipes : o \in writers[p] => o \in writers'[p]
      /\ \A p \in Pipes \ Prints("source") : due'[p] = due[p]
  BY KillStay, SourceFacts
<1>2. SourceStages'
  BY <1>1 DEF SourceStages, Running, Killed
<1> QED BY <1>1, <1>2, SourceMoves, SourceFacts

LEMMA SourceEndView == ViewInv /\ ~Is("exec") /\ End("source") => ViewInv'
<1> SUFFICES ASSUME ViewInv, ~Is("exec"), End("source") PROVE ViewInv'
  OBVIOUS
<1>1. /\ FlowsStay /\ pc["source"] = "exiting"
      /\ UNCHANGED <<job, status, data, pend, due, screen>>
      /\ pc'["source"] = "ended" /\ \A o \in Procs \ {"source"} : pc'[o] = pc[o]
      /\ \A o \in Procs \ {"source"}, p \in Pipes : o \in writers[p] => o \in writers'[p]
  BY EndStay, SourceFacts
<1>2. SourceStages'
  BY <1>1, Parts DEF SourceStages
<1> QED BY <1>1, <1>2, SourceMoves, SourceFacts
-----------------------------------------------------------------------------
(* Steps that move pieces, but none to a parser *)

\* The same, when nothing follows, and for what reads a pipe piece by piece
SameWrittenLast(a, d, x) == (a \o Append(d, Head(x))) \o Tail(x) = (a \o d) \o x
SameRead(a, d) == Append(a, Head(d)) \o Tail(d) = a \o d
SameAdded(a, x, r) == a \o (x \o r) = (a \o x) \o r

LEMMA WrittenLast ==
    ASSUME NEW S, NEW a \in Seq(S), NEW d \in Seq(S), NEW x \in Seq(S), x # <<>>
    PROVE  SameWrittenLast(a, d, x)
<1> <<>> \in Seq(S)
  OBVIOUS
<1>1. PICK e \in Seq(S) : e = <<>>
  OBVIOUS
<1>2. SameWritten(a, d, e, x)
  BY WrittenSame
<1>3. PICK t \in Seq(S), b \in Seq(S) : t = Tail(x) /\ b = x
  BY Moves
<1>4. t \o e = t /\ b \o e = b
  BY <1>1, Associated
<1> QED BY <1>2, <1>3, <1>4 DEF SameWritten, SameWrittenLast

LEMMA ReadSame ==
    ASSUME NEW S, NEW a \in Seq(S), NEW d \in Seq(S), d # <<>>
    PROVE  SameRead(a, d) /\ Append(a, Head(d)) \in Seq(S) /\ Tail(d) \in Seq(S)
<1> <<>> \in Seq(S)
  OBVIOUS
<1>1. PICK e \in Seq(S) : e = <<>>
  OBVIOUS
<1>2. SameWritten(e, a, e, d)
  BY <1>1, WrittenSame
<1>3. PICK t \in Seq(S), b \in Seq(S), c \in Seq(S) : t = Tail(d) /\ b = d /\ c = Append(a, Head(d))
  BY Moves
<1>4. t \o e = t /\ b \o e = b /\ e \o c = c /\ e \o a = a
  BY <1>1, Associated
<1> QED BY <1>2, <1>3, <1>4 DEF SameWritten, SameRead

LEMMA AddedSame ==
    ASSUME NEW S, NEW a \in Seq(S), NEW x \in Seq(S), NEW r \in Seq(S)
    PROVE  SameAdded(a, x, r)
<1>1. a \o (x \o r) = (a \o x) \o r
  OBVIOUS
<1> QED BY <1>1 DEF SameAdded

LEMMA MovedFlows ==
    ASSUME ViewInv, ~Is("exec"), UNCHANGED <<job, ctx, got, results>>,
           DOMAIN pc' = Procs, DOMAIN status' = Procs,
           readers' \in [Pipes -> SUBSET Procs], writers' \in [Pipes -> SUBSET Procs],
           data' \in [Pipes -> Seq(Piece)], pend' \in [Pipes -> Seq(Piece)],
           due' \in [Pipes -> Int], \A p \in Pipes : due'[p] <= Len(pend'[p]),
           left' \in Seq(Piece), screen' \in Seq(Piece), received' \in Seq(Piece),
           \A q \in {"show", "peek"} : pc'[q] = "start" => pc[q] = "start",
           \A q \in {"show", "peek"} :
              pc'[q] \in {"none", "forked", "header"} => pc[q] \in {"none", "forked", "header"},
           \A q \in {"show", "peek"} : ctx[q].eof /\ Closed(Stdin(q)) => Closed(Stdin(q))',
           SourceFlow', Is("peek") => Copied', ShownAll => ShownAll'
    PROVE  FlowsStay
<1>1. /\ ViewTyped /\ Typed /\ Flows /\ Fresh("show") /\ Fresh("peek")
  BY Parts
<1>2. Piece' = Piece
  BY DEF Piece
<1>3. ViewTyped'
  <2>1. Typed'
    BY <1>1, <1>2 DEF Typed, Contexts
  <2> QED BY <1>1, <1>2, <2>1 DEF ViewTyped
<1>4. \A q \in {"show", "peek"} : Buf(q)' = Buf(q)
  BY DEF Buf
<1>5. \A q \in {"show", "peek"} : Reading(q) => Reading(q)'
  <2> SUFFICES ASSUME NEW q \in {"show", "peek"}, Reading(q) PROVE Reading(q)'
    OBVIOUS
  <2>1. Whole(got[q])' = Whole(got[q])
    BY DEF Whole
  <2>3. Buf(q)' = Buf(q)
    BY <1>4
  <2> QED BY <2>1, <2>3 DEF Reading
<1>6. Flows'
  BY <1>1, <1>5 DEF Flows, Is
<1>7. Fresh("show")' /\ Fresh("peek")'
  BY <1>1, <1>4 DEF Fresh
<1>8. \A q \in {"show", "peek"} : Done(q)' = Done(q)
  BY <1>4 DEF Done, HasRow
<1> QED BY <1>3, <1>6, <1>7, <1>8 DEF FlowsStay

\* The rows of the source go to its end of the pipe.
LEMMA SourcePrintsView == ViewInv /\ ~Is("exec") /\ SourcePrints => ViewInv'
<1> SUFFICES ASSUME ViewInv, ~Is("exec"), SourcePrints PROVE ViewInv'
  OBVIOUS
<1>1. /\ left # <<>> /\ left' = Tail(left) /\ PrintTo({Supply}, <<Head(left)>>)
      /\ UNCHANGED <<job, pc, status, readers, writers, data, ctx, got, received, screen, results>>
  BY SourceFacts DEF SourcePrints, ends, reading, told
<1>2. /\ ViewTyped /\ Typed /\ SourceFlow /\ SourceStages /\ Supply \in Pipes /\ First \in Procs
      /\ (Is("peek") => Copied) /\ (Is("peek") => Supply = "in")
  BY Parts, Kinds DEF Flows, Is
<1>3. /\ left \in Seq(Piece) /\ Tail(left) \in Seq(Piece) /\ Head(left) \in Piece
  BY <1>1, <1>2, Moves DEF Typed
<1>4. PICK h \in Seq(Piece) : h = <<Head(left)>>
  <2>1. PICK e \in Piece : e = Head(left)
    BY <1>3
  <2>2. <<e>> \in Seq(Piece)
    OBVIOUS
  <2> QED BY <2>1, <2>2
<1>5. /\ pend' \in [Pipes -> Seq(Piece)]
      /\ due' \in [Pipes -> Int] /\ \A o \in Pipes : due'[o] <= Len(pend'[o])
      /\ \A o \in Pipes \ {Supply} : pend'[o] = pend[o] /\ due'[o] = due[o]
      /\ pend'[Supply] = pend[Supply] \o h
  BY <1>1, <1>2, <1>4, PrintKeeps
<1>6. /\ Supply' = Supply /\ First' = First /\ \A q \in Procs : Came(q)' = Came(q)
      /\ \A q \in Procs : Closed(Stdin(q))' = Closed(Stdin(q))
  BY <1>1 DEF Supply, First, Is, Came, Has, Buf, Closed, Stdin
<1>7. SourceFlow'
  <2>1. PICK x \in Seq(Piece), l \in Seq(Piece), t \in Seq(Piece) : x = pend[Supply] /\ l = left /\ t = Tail(l)
    BY <1>2, <1>3 DEF Typed
  <2>2. (x \o h) \o t = x \o (h \o t)
    <3> DEFINE S == Piece
    <3>1. x \in Seq(S) /\ h \in Seq(S) /\ t \in Seq(S)
      OBVIOUS
    <3> HIDE DEF S
    <3> QED BY ONLY <3>1
  <2>3. h \o t = l
    <3>1. PICK e \in Seq(Piece) : e = <<>>
      BY NothingFirst
    <3>2. SameRead(e, l)
      BY <1>1, <2>1, ReadSame
    <3>3. Append(e, Head(l)) = h /\ e \o l = l
      BY <1>4, <2>1, <3>1
    <3> QED BY <2>1, <3>2, <3>3 DEF SameRead
  <2> QED BY <1>1, <1>2, <1>5, <1>6, <2>1, <2>2, <2>3 DEF SourceFlow
<1>8. Is("peek") => Copied'
  <2> SUFFICES ASSUME Is("peek") PROVE Copied'
    OBVIOUS
  <2>1. PassedOn' = PassedOn
    BY <1>1 DEF PassedOn
  <2>2. pend'["out"] = pend["out"] /\ pend'["side"] = pend["side"] /\ Came("show")' = Came("show")
    BY <1>2, <1>5, <1>6 DEF Pipes, Procs
  <2> QED BY <1>1, <1>2, <2>1, <2>2 DEF Copied
<1>9. ShownAll => ShownAll'
  <2>1. pend'["shown"] = pend["shown"]
    BY <1>2, <1>5 DEF Pipes, Supply
  <2>2. Done("show")' = Done("show")
    BY <1>1 DEF Done, HasRow, Buf
  <2> QED BY <1>1, <2>1, <2>2 DEF ShownAll
<1>10. FlowsStay
  <2>1. /\ DOMAIN pc' = Procs /\ DOMAIN status' = Procs
        /\ readers' \in [Pipes -> SUBSET Procs] /\ writers' \in [Pipes -> SUBSET Procs]
        /\ data' \in [Pipes -> Seq(Piece)] /\ screen' \in Seq(Piece) /\ received' \in Seq(Piece)
        /\ left' \in Seq(Piece)
    BY <1>1, <1>2, <1>3 DEF Typed, ViewTyped
  <2>2. \A q \in {"show", "peek"} : Closed(Stdin(q)) => Closed(Stdin(q))'
    BY <1>6 DEF Procs
  <2> QED BY <1>1, <1>5, <1>7, <1>8, <1>9, <2>1, <2>2, MovedFlows
<1>11. SourceStages'
  BY <1>1, <1>2, <1>6, SourceStagesKept
<1> QED BY <1>1, <1>5, <1>10, <1>11, SourceMoves
\* A piece that is written comes after those that have been written before.
LEMMA WriteFlows ==
    ASSUME ViewInv, ~Is("exec"), NEW p \in Pipes, due[p] > 0,
           p \in {"in", "side"} => writers[p] # {},
           data' = [data EXCEPT ![p] = Append(@, Head(pend[p]))],
           pend' = [pend EXCEPT ![p] = Tail(@)], due' = [due EXCEPT ![p] = @ - 1],
           UNCHANGED <<job, pc, status, readers, writers, left, ctx, got, received, screen, results>>
    PROVE  /\ FlowsStay /\ pend[p] # <<>>
           /\ \A o \in Pipes \ {p} : data'[o] = data[o] /\ pend'[o] = pend[o] /\ due'[o] = due[o]
           /\ due'[p] = due[p] - 1 /\ Len(pend'[p]) = Len(pend[p]) - 1
<1>1. /\ ViewTyped /\ Typed /\ SourceFlow /\ Supply \in Pipes /\ First \in Procs /\ Stdin(First) = Supply
      /\ (Is("peek") => Copied) /\ {"in", "out", "side", "shown"} = Pipes
      /\ {"show", "peek"} \subseteq Procs
  BY Parts, Kinds DEF Flows
<1>2. /\ data' \in [Pipes -> Seq(Piece)] /\ pend' \in [Pipes -> Seq(Piece)]
      /\ due' \in [Pipes -> Int] /\ \A o \in Pipes : due'[o] <= Len(pend'[o])
      /\ \A o \in Pipes \ {p} : data'[o] = data[o] /\ pend'[o] = pend[o] /\ due'[o] = due[o]
      /\ data'[p] = Append(data[p], Head(pend[p])) /\ pend'[p] = Tail(pend[p])
      /\ due'[p] = due[p] - 1 /\ Len(pend'[p]) = Len(pend[p]) - 1 /\ pend[p] # <<>>
  BY <1>1, WriteKeeps
<1>3. PICK x \in Seq(Piece), d \in Seq(Piece), l \in Seq(Piece) : x = pend[p] /\ d = data[p] /\ l = left
  BY <1>1 DEF Typed
<1>4. /\ Supply' = Supply /\ First' = First
      /\ \A q \in Procs : Stdin(q)' = Stdin(q) /\ Has(q)' = Has(q)
  BY DEF Supply, First, Is, Has, Buf, Stdin
<1>5. SourceFlow'
  <2>1. CASE p = Supply
    <3>1. PICK h \in Seq(Piece) : h = Has(First)
      BY <1>1, BuffersQ
    <3>2. SameWritten(h, d, l, x)
      BY <1>2, <1>3, WrittenSame
    <3>3. SourceFlow = ((h \o d) \o (x \o l) = job.stream)
      BY <1>1, <1>3, <2>1, <3>1 DEF SourceFlow, Came
    <3>4. Came(First)' = h \o Append(d, Head(x))
      BY <1>1, <1>2, <1>3, <1>4, <2>1, <3>1 DEF Came
    <3>5. pend'[Supply'] = Tail(x)
      BY <1>2, <1>3, <1>4, <2>1
    <3>6. SourceFlow' = ((h \o Append(d, Head(x))) \o (Tail(x) \o l) = job.stream)
      BY <1>3, <3>4, <3>5 DEF SourceFlow
    <3> QED BY <1>1, <3>2, <3>3, <3>6 DEF SameWritten
  <2>2. CASE p # Supply
    <3>1. Came(First)' = Came(First) /\ pend'[Supply'] = pend[Supply]
      BY <1>1, <1>2, <1>4, <2>2 DEF Came
    <3> QED BY <1>1, <3>1 DEF SourceFlow
  <2> QED BY <2>1, <2>2
<1>6. Is("peek") => Copied'
  <2> SUFFICES ASSUME Is("peek") PROVE Copied'
    OBVIOUS
  <2>1. PassedOn' = PassedOn /\ Copied
    BY <1>1 DEF PassedOn
  <2>2. (received \o data'["out"]) \o pend'["out"] = PassedOn
    <3>1. CASE p = "out"
      <4>1. PICK r \in Seq(Piece) : r = received
        BY <1>1 DEF ViewTyped
      <4>2. SameWrittenLast(r, d, x)
        BY <1>2, <1>3, WrittenLast
      <4>3. (r \o d) \o x = PassedOn
        BY <1>3, <2>1, <3>1, <4>1 DEF Copied
      <4> QED BY <1>2, <1>3, <3>1, <4>1, <4>2, <4>3 DEF SameWrittenLast
    <3>2. CASE p # "out"
      BY <1>1, <1>2, <2>1, <3>2 DEF Copied
    <3> QED BY <3>1, <3>2
  <2>3. CASE job.show
    <3>1. CASE p = "side"
      <4>1. PICK h \in Seq(Piece) : h = Has("show")
        BY <1>1, BuffersQ
      <4>2. SameWrittenLast(h, d, x)
        BY <1>2, <1>3, WrittenLast
      <4>3. Stdin("show") = "side"
        BY DEF Stdin
      <4>4. (h \o d) \o x = PassedOn
        BY <1>3, <2>1, <2>3, <3>1, <4>1, <4>3 DEF Copied, Came
      <4>5. Came("show")' = h \o Append(d, Head(x))
        BY <1>1, <1>2, <1>3, <1>4, <3>1, <4>1, <4>3 DEF Came
      <4>6. Came("show")' \o pend'["side"] = PassedOn
        BY <1>2, <1>3, <3>1, <4>2, <4>4, <4>5 DEF SameWrittenLast
      <4> QED BY <2>1, <2>2, <2>3, <4>6 DEF Copied
    <3>2. CASE p # "side"
      <4>1. Came("show")' = Came("show") /\ pend'["side"] = pend["side"]
        BY <1>1, <1>2, <1>4, <3>2 DEF Came, Stdin
      <4> QED BY <2>1, <2>2, <2>3, <4>1 DEF Copied
    <3> QED BY <3>1, <3>2
  <2>4. CASE ~job.show
    <3>1. pend["side"] = <<>> /\ screen = PassedOn
      BY <2>1, <2>4 DEF Copied
    <3>2. pend'["side"] = pend["side"]
      BY <1>1, <1>2, <3>1
    <3> QED BY <2>1, <2>2, <2>4, <3>1, <3>2 DEF Copied
  <2> QED BY <2>3, <2>4
<1>7. ShownAll => ShownAll'
  <2> SUFFICES ASSUME ShownAll PROVE ShownAll'
    OBVIOUS
  <2>1. Done("show")'
    BY DEF Done, HasRow, Buf, ShownAll
  <2>2. CASE p = "shown"
    <3>1. PICK s \in Seq(Piece) : s = screen
      BY <1>1 DEF ViewTyped
    <3>2. SameWrittenLast(s, d, x)
      BY <1>2, <1>3, WrittenLast
    <3>3. (s \o d) \o x = FlattenSeq(got["show"])
      BY <1>3, <2>2, <3>1 DEF ShownAll
    <3> QED BY <1>2, <1>3, <2>1, <2>2, <3>1, <3>2, <3>3 DEF ShownAll, SameWrittenLast
  <2>3. CASE p # "shown"
    BY <1>1, <1>2, <2>1, <2>3 DEF ShownAll
  <2> QED BY <2>2, <2>3
<1>8. \A q \in {"show", "peek"} : ctx[q].eof /\ Closed(Stdin(q)) => Closed(Stdin(q))'
  <2>1. \A q \in {"show", "peek"} : Stdin(q) \in {"in", "side"}
    BY DEF Stdin
  <2> QED BY <1>1, <1>2, <1>4, <2>1 DEF Closed
<1>9. FlowsStay
  <2>1. /\ DOMAIN pc' = Procs /\ DOMAIN status' = Procs
        /\ readers' \in [Pipes -> SUBSET Procs] /\ writers' \in [Pipes -> SUBSET Procs]
        /\ left' \in Seq(Piece) /\ screen' \in Seq(Piece) /\ received' \in Seq(Piece)
    BY <1>1 DEF Typed, ViewTyped
  <2> QED BY <1>2, <1>5, <1>6, <1>7, <1>8, <2>1, MovedFlows
<1> QED BY <1>2, <1>9

\* write() of a process: the reader may be gone.
LEMMA Writes ==
    ASSUME NEW q, Write(q)
    PROVE  \/ Kill(q) /\ pc[q] \notin {"none", "ended"} /\ \E p \in Prints(q) : due[p] > 0
           \/ \E p \in Prints(q) :
                 /\ pc[q] \notin {"none", "ended"} /\ due[p] > 0
                 /\ data' = [data EXCEPT ![p] = Append(@, Head(pend[p]))]
                 /\ pend' = [pend EXCEPT ![p] = Tail(@)] /\ due' = [due EXCEPT ![p] = @ - 1]
                 /\ UNCHANGED <<job, pc, status, readers, writers, left, ctx, got, received, screen, results>>
BY DEF Write, ends, reading, told

LEMMA SourceWriteView == ViewInv /\ ~Is("exec") /\ Write("source") => ViewInv'
<1> SUFFICES ASSUME ViewInv, ~Is("exec"), Write("source") PROVE ViewInv'
  OBVIOUS
<1>1. CASE Kill("source")
  BY <1>1, SourceDiesView
<1>2. CASE /\ pc["source"] # "ended" /\ due[Supply] > 0
           /\ data' = [data EXCEPT ![Supply] = Append(@, Head(pend[Supply]))]
           /\ pend' = [pend EXCEPT ![Supply] = Tail(@)] /\ due' = [due EXCEPT ![Supply] = @ - 1]
           /\ UNCHANGED <<job, pc, status, readers, writers, left, ctx, got, received, screen, results>>
  <2>1. Supply \in Pipes /\ writers[Supply] # {}
    BY <1>2, SourceFacts
  <2>2. /\ FlowsStay
        /\ \A o \in Pipes \ {Supply} : data'[o] = data[o] /\ pend'[o] = pend[o] /\ due'[o] = due[o]
    BY <1>2, <2>1, WriteFlows
  <2>3. SourceStages'
    BY <1>2, Parts DEF SourceStages, Supply, Is
  <2> QED BY <1>2, <2>2, <2>3, SourceMoves
<1> QED BY <1>1, <1>2, Writes, SourceFacts

LEMMA SourceKilledView == ViewInv /\ ~Is("exec") /\ SourceKilled => ViewInv'
BY SourceDiesView DEF SourceKilled

-----------------------------------------------------------------------------
(* The parser of csv-show or csv-peek takes a step. *)

LEMMA ReaderFlows ==
    ASSUME ViewInv, ~Is("exec"), NEW q \in {"show", "peek"}, Is("show") => q = "show",
           UNCHANGED <<job, left, received, results, readers, writers>>,
           DOMAIN pc' = Procs, DOMAIN status' = Procs,
           ctx' \in [Procs -> Contexts], \A o \in Procs \ {q} : ctx'[o] = ctx[o],
           got' \in [Procs -> Seq(Seq(Piece))], \A o \in Procs \ {q} : got'[o] = got[o],
           data' \in [Pipes -> Seq(Piece)], \A p \in Pipes \ {Stdin(q)} : data'[p] = data[p],
           pend' \in [Pipes -> Seq(Piece)], pend'[Supply] = pend[Supply],
           due' \in [Pipes -> Int], \A p \in Pipes : due'[p] <= Len(pend'[p]),
           screen' \in Seq(Piece),
           Came(q)' = Came(q), Reading(q)',
           Fresh("show")', Fresh("peek")', ~Done(q) \/ Done(q)',
           Is("peek") => Copied', ShownAll => ShownAll'
    PROVE  FlowsStay
<1>1. /\ ViewTyped /\ Typed /\ SourceFlow /\ Reading("show") /\ Reading("peek")
      /\ {"show", "peek"} \subseteq Procs /\ (~Is("show") => Is("peek"))
  BY Parts
<1>2. Piece' = Piece
  BY DEF Piece
<1>3. ViewTyped'
  <2>1. Typed'
    BY <1>1, <1>2 DEF Typed, Contexts
  <2> QED BY <1>1, <1>2, <2>1 DEF ViewTyped
<1>4. ASSUME NEW o \in {"show", "peek"}, o # q
      PROVE  /\ ctx'[o] = ctx[o] /\ got'[o] = got[o] /\ Stdin(o)' = Stdin(o)
             /\ data'[Stdin(o)] = data[Stdin(o)] /\ Stdin(o) \in Pipes
  <2>1. o \in Procs \ {q} /\ Stdin(o) \in Pipes \ {Stdin(q)} /\ Stdin(o)' = Stdin(o)
    BY <1>1, <1>4 DEF Stdin, Pipes
  <2> QED BY <2>1
<1>5. \A o \in {"show", "peek"} : Reading(o)' /\ Came(o)' = Came(o) /\ (Done(o) => Done(o)')
  <2> SUFFICES ASSUME NEW o \in {"show", "peek"}
               PROVE  Reading(o)' /\ Came(o)' = Came(o) /\ (Done(o) => Done(o)')
    OBVIOUS
  <2>1. CASE o = q
    BY <2>1
  <2>2. CASE o # q
    <3>1. /\ ctx'[o] = ctx[o] /\ got'[o] = got[o] /\ Stdin(o)' = Stdin(o)
          /\ data'[Stdin(o)] = data[Stdin(o)]
      BY <1>4, <2>2
    <3>2. Buf(o)' = Buf(o)
      BY <3>1 DEF Buf
    <3>3. Came(o)' = Came(o)
      BY <3>1, <3>2 DEF Came, Has
    <3>4. Whole(got[o])' = Whole(got[o])
      BY <3>1 DEF Whole
    <3>5. Closed(Stdin(o))' = Closed(Stdin(o))
      BY <3>1 DEF Closed
    <3>6. Reading(o)'
      BY <1>1, <3>1, <3>2, <3>4, <3>5 DEF Reading
    <3>7. Done(o)' = Done(o)
      BY <3>1, <3>2 DEF Done, HasRow
    <3> QED BY <3>3, <3>6, <3>7
  <2> QED BY <2>1, <2>2
<1>6. SourceFlow'
  <2>1. First' = First /\ Supply' = Supply /\ First \in {"show", "peek"}
    BY DEF First, Supply, Is
  <2>2. Came(First)' = Came(First)
    <3>1. CASE Is("show")
      BY <1>5, <2>1, <3>1 DEF First
    <3>2. CASE ~Is("show")
      BY <1>5, <2>1, <3>2 DEF First
    <3> QED BY <3>1, <3>2
  <2> QED BY <1>1, <2>1, <2>2 DEF SourceFlow
<1>7. Flows'
  BY <1>5, <1>6 DEF Flows, Is
<1> QED BY <1>3, <1>5, <1>7 DEF FlowsStay

-----------------------------------------------------------------------------
(* csv-show *)

LEMMA ShowFacts ==
    ASSUME ViewInv, ~Is("exec"), pc["show"] # "none"
    PROVE  /\ "show" \in Active /\ "show" \in Procs /\ Prints("show") = {"shown"} /\ "shown" \in Pipes
           /\ {"source", "peek"} \subseteq Procs \ {"show"} /\ {"in", "out", "side"} = Pipes \ {"shown"}
           /\ Stdin("show") = "side" /\ "side" \in Pipes
           /\ pc["show"] # "start" /\ ShowStages /\ (~Is("show") => Is("peek") /\ job.show)
           /\ Is("show") => data["shown"] = <<>> /\ pend["shown"] = <<>>
<1>1. /\ (~Is("show") => Is("peek") /\ job.show) /\ ShowStages
  BY Parts DEF PeekAlone
<1>2. Is("show") => data["shown"] = <<>> /\ pend["shown"] = <<>>
  BY Parts DEF ShowAlone
<1> QED BY <1>1, <1>2 DEF Active, Prints, Stdin, Procs, Pipes, ShowStages

LEMMA ShowStartsView == ViewInv /\ ~Is("exec") /\ ShowStarts => ViewInv'
<1> SUFFICES ASSUME ViewInv, ~Is("exec"), ShowStarts PROVE ViewInv'
  OBVIOUS
<1>1. /\ pc["show"] = "forked" /\ pc' = [pc EXCEPT !["show"] = "header"]
      /\ readers' = [p \in Pipes |-> IF p = "side" THEN readers[p] ELSE readers[p] \ {"show"}]
      /\ writers' = [p \in Pipes |-> IF p = "shown" THEN writers[p] ELSE writers[p] \ {"show"}]
      /\ UNCHANGED <<job, status, data, pend, due, left, ctx, got, received, screen, results>>
  BY DEF ShowStarts, At, Goto, stdio, reading, told
<1>2. Typed
  BY Parts
<1>3. /\ pc'["show"] = "header" /\ DOMAIN pc' = Procs /\ \A q \in Procs \ {"show"} : pc'[q] = pc[q]
      /\ DOMAIN status' = Procs /\ due' \in [Pipes -> Int] /\ \A p \in Pipes : due'[p] <= Len(pend[p])
  BY <1>1, <1>2 DEF Typed, Procs
<1>4. readers' \in [Pipes -> SUBSET Procs] /\ writers' \in [Pipes -> SUBSET Procs]
  <2>1. \A p \in Pipes : readers[p] \in SUBSET Procs /\ writers[p] \in SUBSET Procs
    BY <1>2 DEF Typed
  <2> QED BY <1>1, <2>1
<1>5. /\ \A p \in Pipes : writers[p] = {} => writers'[p] = {}
      /\ writers'["shown"] = writers["shown"]
      /\ \A q \in {"source", "peek"}, p \in Pipes : q \in writers[p] => q \in writers'[p]
  BY <1>1, ShowFacts
<1>6. FlowsStay
  <2>1. /\ \A q \in {"show", "peek"} : pc'[q] = "start" <=> pc[q] = "start"
        /\ \A q \in {"show", "peek"} :
              pc'[q] \in {"none", "forked", "header"} => pc[q] \in {"none", "forked", "header"}
    BY <1>1, <1>3, ShowFacts
  <2> QED BY <1>1, <1>3, <1>4, <1>5, <2>1, StillFlows
<1>7. ShowStages'
  BY <1>1, <1>3, ShowFacts DEF ShowStages, ShownNothing
<1> QED BY <1>1, <1>3, <1>5, <1>6, <1>7, ShowMoves, ShowFacts

\* It cannot be started, or finds no table: it shows nothing.
LEMMA ShowFails ==
    ASSUME ViewInv, ~Is("exec"), pc["show"] \in {"forked", "header", "read"}, Exit("show", 2)
    PROVE  ViewInv'
<1>1. /\ FlowsStay /\ UNCHANGED <<job, readers, writers, data, pend, screen>>
      /\ pc'["show"] = "exiting" /\ status'["show"] = 2
      /\ \A o \in Procs \ {"show"} : pc'[o] = pc[o] /\ status'[o] = status[o]
      /\ \A p \in Pipes \ Prints("show") : due'[p] = due[p]
  BY ExitStay, ShowFacts
<1>2. ShowStages'
  BY <1>1, ShowFacts DEF ShowStages, ShownNothing
<1> QED BY <1>1, <1>2, ShowMoves, ShowFacts

LEMMA ShowStopsView ==
    ViewInv /\ ~Is("exec") /\ (ShowMissing \/ NoHeader("show") \/ ParseError("show")) => ViewInv'
BY ShowFails DEF ShowMissing, NoHeader, NeedsHeader, ParseError, Corrupted, At

LEMMA ShowEndsView == ViewInv /\ ~Is("exec") /\ ShowEnds => ViewInv'
<1> SUFFICES ASSUME ViewInv, ~Is("exec"), ShowEnds PROVE ViewInv'
  OBVIOUS
<1>1. pc["show"] = "printed" /\ Exit("show", 0)
  BY DEF ShowEnds, At
<1>2. /\ FlowsStay /\ UNCHANGED <<job, readers, writers, data, pend, screen>>
      /\ pc'["show"] = "exiting" /\ status'["show"] = 0
      /\ \A o \in Procs \ {"show"} : pc'[o] = pc[o] /\ status'[o] = status[o]
      /\ due'["shown"] = Len(pend["shown"])
      /\ \A p \in Pipes \ Prints("show") : due'[p] = due[p]
  BY <1>1, ExitStay, ShowFacts
<1>3. ShownAll
  BY <1>1, ShowFacts DEF ShowStages
<1>4. ShowStages'
  BY <1>2, <1>3 DEF ShowStages, FlowsStay
<1> QED BY <1>1, <1>2, <1>4, ShowMoves, ShowFacts

LEMMA ShowEndView == ViewInv /\ ~Is("exec") /\ End("show") => ViewInv'
<1> SUFFICES ASSUME ViewInv, ~Is("exec"), End("show") PROVE ViewInv'
  OBVIOUS
<1>1. pc["show"] = "exiting" /\ "show" \in Active
  BY DEF End, At, Active
<1>2. /\ FlowsStay /\ \A p \in Prints("show") : due[p] = 0
      /\ UNCHANGED <<job, status, data, pend, due, screen>>
      /\ pc'["show"] = "ended" /\ \A o \in Procs \ {"show"} : pc'[o] = pc[o]
      /\ \A o \in Procs \ {"show"}, p \in Pipes : o \in writers[p] => o \in writers'[p]
  BY <1>1, EndStay
<1>3. ShowStages /\ due["shown"] = 0
  BY <1>1, <1>2, ShowFacts
<1>4. pend["shown"] \in Seq(Piece)
  BY Parts DEF Typed
<1>5. due["shown"] = Len(pend["shown"]) => pend["shown"] = <<>>
  BY <1>3, <1>4, EmptySeq
<1>6. ShowStages'
  BY <1>1, <1>2, <1>3, <1>5 DEF ShowStages, ShownNothing, FlowsStay
<1> QED BY <1>1, <1>2, <1>6, ShowMoves, ShowFacts

LEMMA ShowWriteView == ViewInv /\ ~Is("exec") /\ Write("show") => ViewInv'
<1> SUFFICES ASSUME ViewInv, ~Is("exec"), Write("show") PROVE ViewInv'
  OBVIOUS
<1>1. pc["show"] \notin {"none", "ended"} /\ due["shown"] > 0 /\ Prints("show") = {"shown"}
  BY DEF Write, Prints
<1>2. /\ pend["shown"] # <<>>
  <2>1. due["shown"] <= Len(pend["shown"]) /\ pend["shown"] \in Seq(Piece) /\ due["shown"] \in Int
    BY Parts DEF Typed
  <2>2. Len(pend["shown"]) # 0
    BY <1>1, <2>1
  <2> QED BY <2>2
<1>3. Is("peek") /\ ~Is("show") /\ ShownAll /\ (status["show"] = Running \/ status["show"] = 0)
  BY <1>1, <1>2, ShowFacts DEF ShowStages, ShownNothing
<1>4. CASE Kill("show")
  <2>1. /\ FlowsStay /\ UNCHANGED <<job, data, pend, screen>>
        /\ pc'["show"] = "ended" /\ status'["show"] = Killed
        /\ \A o \in Procs \ {"show"} : pc'[o] = pc[o] /\ status'[o] = status[o]
        /\ \A o \in Procs \ {"show"}, p \in Pipes : o \in writers[p] => o \in writers'[p]
        /\ \A p \in Pipes \ Prints("show") : due'[p] = due[p]
    BY <1>1, <1>4, KillStay, ShowFacts
  <2>2. ShowStages'
    BY <1>3, <2>1 DEF ShowStages, FlowsStay, Is
  <2> QED BY <1>1, <1>3, <2>1, <2>2, ShowMoves, ShowFacts
<1>5. CASE /\ data' = [data EXCEPT !["shown"] = Append(@, Head(pend["shown"]))]
           /\ pend' = [pend EXCEPT !["shown"] = Tail(@)] /\ due' = [due EXCEPT !["shown"] = @ - 1]
           /\ UNCHANGED <<job, pc, status, readers, writers, left, ctx, got, received, screen, results>>
  <2>1. /\ FlowsStay
        /\ \A o \in Pipes \ {"shown"} : data'[o] = data[o] /\ pend'[o] = pend[o] /\ due'[o] = due[o]
        /\ due'["shown"] = due["shown"] - 1 /\ Len(pend'["shown"]) = Len(pend["shown"]) - 1
    BY <1>1, <1>5, WriteFlows, ShowFacts
  <2>2. ShowStages'
    <3>1. pc["show"] # "ended" /\ ShownAll' /\ ~ShownNothing
      BY <1>1, <1>2, <1>3, <2>1 DEF FlowsStay, ShownNothing
    <3>2. \/ pc["show"] = "printed" /\ status["show"] = Running
          \/ pc["show"] = "exiting" /\ status["show"] = 0 /\ due["shown"] = Len(pend["shown"])
      BY <1>1, <3>1, ShowFacts DEF ShowStages
    <3>3. due["shown"] = Len(pend["shown"]) => due'["shown"] = Len(pend'["shown"])
      BY <2>1
    <3> QED BY <1>5, <3>1, <3>2, <3>3 DEF ShowStages
  <2> QED BY <1>1, <1>3, <1>5, <2>1, <2>2, ShowMoves, ShowFacts
<1> QED BY <1>1, <1>4, <1>5, Writes

\* It reads.
LEMMA ShowReads ==
    ASSUME ViewInv, ~Is("exec"), pc["show"] \in {"header", "read"}, pc'["show"] \in {"header", "read"},
           DOMAIN pc' = Procs, \A q \in Procs \ {"show"} : pc'[q] = pc[q],
           UNCHANGED <<job, status, readers, writers, pend, due, left, received, screen, results>>,
           ctx' \in [Procs -> Contexts], \A o \in Procs \ {"show"} : ctx'[o] = ctx[o],
           got' \in [Procs -> Seq(Seq(Piece))], \A o \in Procs \ {"show"} : got'[o] = got[o],
           data' \in [Pipes -> Seq(Piece)], \A p \in Pipes \ {"side"} : data'[p] = data[p],
           Came("show")' = Came("show"), Reading("show")', Fresh("show")', ~Done("show")
    PROVE  ViewInv'
<1>1. /\ ViewTyped /\ Typed /\ (Is("peek") => Copied) /\ Fresh("peek") /\ Supply \in Pipes
  BY Parts, Kinds DEF Flows
<1>2. /\ {"source", "peek"} \subseteq Procs \ {"show"} /\ Stdin("show") = "side"
      /\ "out" \in Pipes \ {"side"} /\ "shown" \in Pipes \ {"side"}
  BY ShowFacts DEF Pipes
<1>3. Fresh("peek")'
  <2>1. pc'["peek"] = pc["peek"] /\ ctx'["peek"] = ctx["peek"] /\ got'["peek"] = got["peek"]
    BY <1>2
  <2> QED BY <1>1, <2>1 DEF Fresh, Buf
<1>4. Is("peek") => Copied'
  <2> SUFFICES ASSUME Is("peek") PROVE Copied'
    OBVIOUS
  <2>1. PassedOn' = PassedOn
    <3>1. pc'["peek"] = pc["peek"] /\ got'["peek"] = got["peek"]
      BY <1>2
    <3> QED BY <3>1 DEF PassedOn
  <2>2. data'["out"] = data["out"]
    BY <1>2
  <2> QED BY <1>1, <2>1, <2>2 DEF Copied
<1>5. FlowsStay
  <2>1. DOMAIN status' = Procs /\ screen' \in Seq(Piece)
    BY <1>1 DEF Typed, ViewTyped
  <2>2. /\ pend' \in [Pipes -> Seq(Piece)] /\ pend'[Supply] = pend[Supply]
        /\ due' \in [Pipes -> Int] /\ \A p \in Pipes : due'[p] <= Len(pend'[p])
    BY <1>1 DEF Typed
  <2>3. \A p \in Pipes \ {Stdin("show")} : data'[p] = data[p]
    BY <1>2
  <2> QED BY <1>3, <1>4, <2>1, <2>2, <2>3, ReaderFlows DEF ShownAll
<1>6. ShownNothing /\ status["show"] = Running
  BY ShowFacts DEF ShowStages
<1>7. ShowStages'
  <2>1. ShownNothing'
    BY <1>2, <1>6 DEF ShownNothing
  <2> QED BY <1>6, <2>1 DEF ShowStages
<1>8. Is("show") => data'["shown"] = <<>> /\ pend'["shown"] = <<>>
  BY <1>2, ShowFacts
<1> QED BY <1>2, <1>5, <1>7, <1>8, ShowMoves, ShowFacts

LEMMA ShowPullView == ViewInv /\ ~Is("exec") /\ Pull("show") => ViewInv'
<1> SUFFICES ASSUME ViewInv, ~Is("exec"), Pull("show") PROVE ViewInv'
  OBVIOUS
<1>1. /\ pc["show"] \in {"header", "read"}
      /\ UNCHANGED <<job, pc, status, readers, writers, pend, due, left, got, received, screen, results>>
  BY DEF Pull, NeedsHeader, NeedsMore, Scanned, At, ends, stdio, told
<1>2. Typed /\ Reading("show") /\ Fresh("show") /\ "show" \in Procs /\ Stdin("show") = "side"
  BY Parts DEF Stdin
<1>3. /\ ctx' \in [Procs -> Contexts] /\ \A o \in Procs \ {"show"} : ctx'[o] = ctx[o]
      /\ data' \in [Pipes -> Seq(Piece)] /\ \A p \in Pipes \ {Stdin("show")} : data'[p] = data[p]
      /\ Came("show")' = Came("show") /\ Reading("show")' /\ ctx["show"].eof = FALSE
      /\ Buf("show")' = Buf("show") /\ ctx'["show"].eof = ctx["show"].eof
  BY <1>2, PullKeeps
<1>4. Fresh("show")' /\ ~Done("show")
  BY <1>1, <1>2, <1>3 DEF Fresh, Done
<1>5. /\ DOMAIN pc' = Procs /\ got' \in [Procs -> Seq(Seq(Piece))]
  <2>1. Piece' = Piece
    BY <1>1 DEF Piece
  <2> QED BY <1>1, <1>2 DEF Typed
<1> QED BY <1>1, <1>2, <1>3, <1>4, <1>5, ShowReads

LEMMA ShowFreadView == ViewInv /\ ~Is("exec") /\ Fread("show") => ViewInv'
<1> SUFFICES ASSUME ViewInv, ~Is("exec"), Fread("show") PROVE ViewInv'
  OBVIOUS
<1>1. /\ pc["show"] = "read" /\ ~ctx["show"].eof
      /\ UNCHANGED <<job, pc, status, readers, writers, data, pend, due, left, got, received, screen, results>>
  BY DEF Fread, Scanned, At, ends, stdio, told
<1>2. Typed /\ Reading("show") /\ "show" \in Procs
  BY Parts
<1>3. /\ ctx' \in [Procs -> Contexts] /\ \A o \in Procs \ {"show"} : ctx'[o] = ctx[o]
      /\ Has("show")' = Has("show") /\ Reading("show")'
  BY <1>2, FreadKeeps
<1>4. Fresh("show")' /\ ~Done("show") /\ Came("show")' = Came("show")
  BY <1>1, <1>3 DEF Fresh, Done, Came, Stdin
<1>5. DOMAIN pc' = Procs /\ got' \in [Procs -> Seq(Seq(Piece))] /\ data' \in [Pipes -> Seq(Piece)]
  BY <1>1, <1>2 DEF Typed
<1> QED BY <1>1, <1>3, <1>4, <1>5, ShowReads

\* What a parser has is the beginning of the stream.
LEMMA HasStream ==
    ASSUME ViewInv, ~Is("exec"), NEW q \in {"show", "peek"}, q = "show" \/ Is("peek"), Is("show") \/ q = "peek" \/ job.show
    PROVE  IsPrefix(Has(q), job.stream)
<1>1. Typed /\ SourceFlow /\ (Is("peek") => Copied) /\ q \in Procs /\ (Is("show") \/ Is("peek"))
  BY Parts DEF Flows
<1>2. IsPrefix(Has(q), Came(q)) /\ Came(q) \in Seq(Piece) /\ Has(q) \in Seq(Piece)
  BY <1>1, CameType, BuffersQ
<1>3. IsPrefix(Came(First), job.stream) /\ job.stream \in Seq(Piece)
  BY <1>1, SentCame
<1>4. IsPrefix(Came(q), job.stream)
  <2>1. CASE q = First
    BY <1>3, <2>1
  <2>2. CASE q # First
    <3>1. q = "show" /\ Is("peek") /\ job.show
      BY <1>1, <2>2 DEF First, Is
    <3> QED BY <1>1, <3>1, ShowCame
  <2> QED BY <2>1, <2>2
<1>5. PICK h \in Seq(Piece), c \in Seq(Piece), s \in Seq(Piece) : h = Has(q) /\ c = Came(q) /\ s = job.stream
  BY <1>2, <1>3
<1>6. IsPrefix(h, s)
  BY <1>2, <1>4, <1>5, PrefixThrough
<1> QED BY <1>5, <1>6

LEMMA ShowHeaderView == ViewInv /\ ~Is("exec") /\ ShowHeader => ViewInv'
<1> SUFFICES ASSUME ViewInv, ~Is("exec"), ShowHeader PROVE ViewInv'
  OBVIOUS
<1>1. /\ pc["show"] = "header" /\ TakeHeader("show") /\ pc' = [pc EXCEPT !["show"] = "read"]
      /\ UNCHANGED <<job, status, readers, writers, data, pend, due, left, received, screen, results>>
  BY DEF ShowHeader, TakeHeader, At, Goto, ends, stdio, told
<1>2. Typed /\ Reading("show") /\ Fresh("show") /\ "show" \in Procs
  BY Parts
<1>3. IsPrefix(Has("show"), job.stream)
  <2>1. Is("show") \/ job.show
    BY <1>1, ShowFacts
  <2> QED BY <2>1, HasStream
<1>4. /\ ctx' \in [Procs -> Contexts] /\ \A o \in Procs \ {"show"} : ctx'[o] = ctx[o]
      /\ got' \in [Procs -> Seq(Seq(Piece))] /\ \A o \in Procs \ {"show"} : got'[o] = got[o]
      /\ Has("show")' = Has("show") /\ Reading("show")'
  BY <1>1, <1>2, <1>3, HeaderKeeps
<1>5. /\ pc'["show"] = "read" /\ DOMAIN pc' = Procs /\ \A q \in Procs \ {"show"} : pc'[q] = pc[q]
      /\ data' \in [Pipes -> Seq(Piece)]
  BY <1>1, <1>2 DEF Typed
<1>6. Fresh("show")' /\ ~Done("show") /\ Came("show")' = Came("show")
  BY <1>1, <1>2, <1>4, <1>5 DEF Fresh, Done, Came, Stdin
<1> QED BY <1>1, <1>4, <1>5, <1>6, ShowReads

LEMMA ShowRowView == ViewInv /\ ~Is("exec") /\ ShowRow => ViewInv'
<1> SUFFICES ASSUME ViewInv, ~Is("exec"), ShowRow PROVE ViewInv'
  OBVIOUS
<1>1. /\ pc["show"] = "read" /\ HasRow("show") /\ TakeRow("show")
      /\ UNCHANGED <<job, pc, status, readers, writers, data, pend, due, left, received, screen, results>>
  BY DEF ShowRow, TakeRow, At, ends, stdio, told
<1>2. Typed /\ Reading("show") /\ "show" \in Procs
  BY Parts
<1>3. /\ ctx' \in [Procs -> Contexts] /\ \A o \in Procs \ {"show"} : ctx'[o] = ctx[o]
      /\ got' \in [Procs -> Seq(Seq(Piece))] /\ \A o \in Procs \ {"show"} : got'[o] = got[o]
      /\ Has("show")' = Has("show") /\ Reading("show")'
  BY <1>1, <1>2, RowKeeps
<1>4. Fresh("show")' /\ ~Done("show") /\ Came("show")' = Came("show")
  BY <1>1, <1>3 DEF Fresh, Done, Came, Stdin
<1>5. DOMAIN pc' = Procs /\ data' \in [Pipes -> Seq(Piece)]
  BY <1>1, <1>2 DEF Typed
<1> QED BY <1>1, <1>3, <1>4, <1>5, ShowReads

\* csv_read_all() has come to the end.
LEMMA AllReadDone == ASSUME NEW q, AllRead(q) PROVE Done(q) /\ pc[q] = "read"
BY DEF AllRead, Done, Scanned, Corrupted, NextRowOf, At

\* What comes after nothing
LEMMA AfterNothing ==
    ASSUME NEW S, NEW g \in Seq(S)
    PROVE  <<>> \o g = g /\ g \o <<>> = g
OBVIOUS

LEMMA ShowPrintsView == ViewInv /\ ~Is("exec") /\ ShowPrints => ViewInv'
<1> SUFFICES ASSUME ViewInv, ~Is("exec"), ShowPrints PROVE ViewInv'
  OBVIOUS
<1> DEFINE table == FlattenSeq(got["show"])
<1>1. /\ pc["show"] = "read" /\ Done("show") /\ pc' = [pc EXCEPT !["show"] = "printed"]
      /\ UNCHANGED <<job, status, readers, writers, data, left, ctx, got, received, results>>
      /\ IF Is("show") THEN screen' = screen \o table /\ UNCHANGED <<pend, due>>
         ELSE PrintTo({"shown"}, table) /\ UNCHANGED screen
  BY AllReadDone DEF ShowPrints, Goto, ends, stdio, reading, told
<1>2. /\ ViewTyped /\ Typed /\ SourceFlow /\ (Is("peek") => Copied) /\ "show" \in Procs /\ "shown" \in Pipes
      /\ {"side", "in", "out"} \subseteq Pipes \ {"shown"} /\ Supply \in {"side", "in"}
  BY Parts DEF Flows, Supply
<1>3. ShownNothing /\ status["show"] = Running
  BY <1>1, ShowFacts DEF ShowStages
<1>4. table \in Seq(Piece) /\ table = <<>> \o table /\ table \o <<>> = table
  <2>1. table \in Seq(Piece)
    BY <1>2, BuffersQ
  <2> HIDE DEF table
  <2> QED BY <2>1, AfterNothing
<1> HIDE DEF table
<1>5. /\ pend' \in [Pipes -> Seq(Piece)] /\ screen' \in Seq(Piece)
      /\ due' \in [Pipes -> Int] /\ \A p \in Pipes : due'[p] <= Len(pend'[p])
      /\ \A p \in Pipes \ {"shown"} : pend'[p] = pend[p] /\ due'[p] = due[p]
      /\ IF Is("show") THEN screen' = table /\ pend'["shown"] = <<>>
         ELSE screen' = <<>> /\ pend'["shown"] = table
  <2>1. CASE Is("show")
    BY <1>1, <1>2, <1>3, <1>4, <2>1 DEF ShownNothing, Typed
  <2>2. CASE ~Is("show")
    <3>1. /\ pend' \in [Pipes -> Seq(Piece)] /\ due' \in [Pipes -> Int] /\ \A p \in Pipes : due'[p] <= Len(pend'[p])
          /\ \A p \in Pipes \ {"shown"} : pend'[p] = pend[p] /\ due'[p] = due[p]
          /\ pend'["shown"] = pend["shown"] \o table
      BY <1>1, <1>2, <1>4, <2>2, PrintKeeps
    <3> QED BY <1>1, <1>2, <1>3, <1>4, <2>2, <3>1 DEF ShownNothing, ViewTyped
  <2> QED BY <2>1, <2>2
<1>6. ShownAll'
  <2>1. Done("show")' /\ FlattenSeq(got["show"])' = table /\ data'["shown"] = <<>>
    BY <1>1, <1>3 DEF Done, HasRow, Buf, table, ShownNothing
  <2>2. (screen' \o data'["shown"]) \o pend'["shown"] = table
    <3>1. CASE Is("show")
      BY <1>4, <1>5, <2>1, <3>1
    <3>2. CASE ~Is("show")
      BY <1>4, <1>5, <2>1, <3>2
    <3> QED BY <3>1, <3>2
  <2> QED BY <2>1, <2>2 DEF ShownAll
<1>7. /\ pc'["show"] = "printed" /\ DOMAIN pc' = Procs /\ \A q \in Procs \ {"show"} : pc'[q] = pc[q]
  BY <1>1, <1>2 DEF Typed
<1>8. \A q \in Procs : Came(q)' = Came(q) /\ Closed(Stdin(q))' = Closed(Stdin(q))
  BY <1>1 DEF Came, Has, Buf, Stdin, Closed
<1>9. SourceFlow'
  <2>1. Supply' = Supply /\ First' = First /\ First \in Procs /\ pend'[Supply] = pend[Supply]
    BY <1>1, <1>2, <1>5, Kinds DEF Supply, First, Is
  <2>2. Came(First)' = Came(First)
    BY <1>8, <2>1 DEF Came, Has, Buf, Stdin
  <2> QED BY <1>1, <1>2, <2>1, <2>2 DEF SourceFlow
<1>10. "peek" \in Procs \ {"show"}
  BY DEF Procs
<1>11. Is("peek") => Copied'
  <2> SUFFICES ASSUME Is("peek") PROVE Copied'
    OBVIOUS
  <2>1. PassedOn' = PassedOn
    BY <1>1, <1>7, <1>10 DEF PassedOn
  <2>2. pend'["out"] = pend["out"] /\ pend'["side"] = pend["side"] /\ Came("show")' = Came("show")
    BY <1>2, <1>5, <1>8
  <2>3. screen' = screen
    BY <1>1 DEF Is
  <2> QED BY <1>1, <1>2, <2>1, <2>2, <2>3 DEF Copied
<1>12. FlowsStay
  <2>1. /\ DOMAIN status' = Procs
        /\ readers' \in [Pipes -> SUBSET Procs] /\ writers' \in [Pipes -> SUBSET Procs]
        /\ data' \in [Pipes -> Seq(Piece)] /\ left' \in Seq(Piece) /\ received' \in Seq(Piece)
    BY <1>1, <1>2 DEF Typed, ViewTyped
  <2>2. /\ \A q \in {"show", "peek"} : pc'[q] = "start" => pc[q] = "start"
        /\ \A q \in {"show", "peek"} :
              pc'[q] \in {"none", "forked", "header"} => pc[q] \in {"none", "forked", "header"}
    BY <1>7, <1>10
  <2>3. \A q \in {"show", "peek"} : Closed(Stdin(q)) => Closed(Stdin(q))'
    BY <1>2, <1>8, <1>10
  <2> QED BY <1>1, <1>5, <1>6, <1>7, <1>9, <1>11, <2>1, <2>2, <2>3, MovedFlows
<1>13. ShowStages'
  BY <1>1, <1>3, <1>6, <1>7 DEF ShowStages
<1>14. data'["shown"] = <<>> /\ (Is("show") => pend'["shown"] = <<>>) /\ (~Is("show") => screen' = screen)
  BY <1>1, <1>3, <1>5 DEF ShownNothing
<1> QED BY <1>1, <1>5, <1>7, <1>12, <1>13, <1>14, ShowMoves, ShowFacts

-----------------------------------------------------------------------------
(* csv-peek *)

LEMMA PeekFacts ==
    ASSUME ViewInv, ~Is("exec"), pc["peek"] # "none" \/ pc["down"] # "none"
    PROVE  /\ {"peek", "down"} \subseteq Active /\ {"source", "show", "down", "peek"} \subseteq Procs
           /\ Prints("peek") = {"out", "side"} /\ Prints("down") = {}
           /\ {"in", "out", "side", "shown"} = Pipes
           /\ Stdin("peek") = "in" /\ Stdin("show") = "side" /\ Supply = "in" /\ First = "peek"
           /\ ~Is("show") /\ Is("peek") /\ PeekStages /\ PeekAlone /\ (job.show => ShowStages) /\ Copied
<1>1. ~Is("show")
  BY Parts DEF ShowAlone
<1> QED BY <1>1, Parts DEF Active, Prints, Stdin, Supply, First, Procs, Pipes

\* What it does with its own buffers does not concern its viewer.
LEMMA ViewerKept ==
    ASSUME ViewInv, ~Is("exec"), pc["peek"] # "none" \/ pc["down"] # "none", FlowsStay, job' = job,
           pc'["show"] = pc["show"], status'["show"] = status["show"], job.show => screen' = screen,
           data'["shown"] = data["shown"], due'["shown"] = due["shown"], pend'["shown"] = pend["shown"]
    PROVE  job.show => ShowStages'
<1> SUFFICES ASSUME job.show PROVE ShowStages'
  OBVIOUS
<1>1. ShowStages /\ (ShownAll => ShownAll')
  BY PeekFacts DEF FlowsStay
<1>2. ShownNothing => ShownNothing'
  BY DEF ShownNothing
<1> QED BY <1>1, <1>2, ShowStagesKept

LEMMA PeekReads ==
    ASSUME ViewInv, ~Is("exec"), pc["peek"] \in {"header", "read"}, pc'["peek"] \in {"header", "start", "read"},
           pc'["peek"] = "read" => pc["peek"] = "read", PassedOn' = PassedOn,
           DOMAIN pc' = Procs, \A q \in Procs \ {"peek"} : pc'[q] = pc[q],
           UNCHANGED <<job, status, readers, writers, pend, due, left, received, screen, results>>,
           ctx' \in [Procs -> Contexts], \A o \in Procs \ {"peek"} : ctx'[o] = ctx[o],
           got' \in [Procs -> Seq(Seq(Piece))], \A o \in Procs \ {"peek"} : got'[o] = got[o],
           data' \in [Pipes -> Seq(Piece)], \A p \in Pipes \ {"in"} : data'[p] = data[p],
           Came("peek")' = Came("peek"), Reading("peek")', Fresh("peek")', ~Done("peek")
    PROVE  ViewInv'
<1>1. ViewTyped /\ Typed /\ Copied /\ Fresh("show") /\ PeekStages /\ PeekAlone
  BY Parts, PeekFacts
<1>2. /\ pc'["show"] = pc["show"] /\ ctx'["show"] = ctx["show"] /\ got'["show"] = got["show"]
      /\ \A q \in {"exec", "command", "source"} : pc'[q] = pc[q]
      /\ Stdin("peek") = "in" /\ Supply = "in" /\ ~Is("show") /\ Is("peek") /\ {"in", "out", "side", "shown"} = Pipes
      /\ data'["side"] = data["side"] /\ data'["shown"] = data["shown"] /\ data'["out"] = data["out"]
  BY PeekFacts DEF Procs
<1>3. Fresh("show")'
  BY <1>1, <1>2 DEF Fresh, Buf
<1>4. Copied'
  <2>1. Came("show")' = Came("show")
    BY <1>2 DEF Came, Has, Buf, Stdin
  <2> QED BY <1>1, <1>2, <2>1 DEF Copied
<1>5. FlowsStay
  <2>1. DOMAIN status' = Procs /\ screen' \in Seq(Piece)
    BY <1>1 DEF Typed, ViewTyped
  <2>2. /\ pend' \in [Pipes -> Seq(Piece)] /\ pend'[Supply] = pend[Supply]
        /\ due' \in [Pipes -> Int] /\ \A p \in Pipes : due'[p] <= Len(pend'[p])
    BY <1>1 DEF Typed
  <2>3. \A p \in Pipes \ {Stdin("peek")} : data'[p] = data[p]
    BY <1>2
  <2>4. ShownAll => ShownAll'
    <3>1. Done("show")' = Done("show")
      BY <1>2 DEF Done, HasRow, Buf
    <3> QED BY <1>2, <3>1 DEF ShownAll
  <2> QED BY <1>2, <1>3, <1>4, <2>1, <2>2, <2>3, <2>4, ReaderFlows
<1>6. PeekStages'
  <2>1. status["peek"] = Running /\ (job.show => screen = <<>>)
    BY <1>1 DEF PeekStages
  <2> QED BY <2>1 DEF PeekStages
<1>7. PeekAlone'
  BY <1>1, <1>2 DEF PeekAlone
<1>8. job.show => ShowStages'
  BY <1>2, <1>5, ViewerKept
<1> QED BY <1>2, <1>5, <1>6, <1>7, <1>8, PeekMoves

LEMMA PeekPullView == ViewInv /\ ~Is("exec") /\ Pull("peek") => ViewInv'
<1> SUFFICES ASSUME ViewInv, ~Is("exec"), Pull("peek") PROVE ViewInv'
  OBVIOUS
<1>1. /\ pc["peek"] \in {"header", "read"}
      /\ UNCHANGED <<job, pc, status, readers, writers, pend, due, left, got, received, screen, results>>
  BY DEF Pull, NeedsHeader, NeedsMore, Scanned, At, ends, stdio, told
<1>2. Typed /\ Reading("peek") /\ Fresh("peek") /\ "peek" \in Procs /\ Stdin("peek") = "in"
  BY Parts DEF Stdin
<1>3. /\ ctx' \in [Procs -> Contexts] /\ \A o \in Procs \ {"peek"} : ctx'[o] = ctx[o]
      /\ data' \in [Pipes -> Seq(Piece)] /\ \A p \in Pipes \ {Stdin("peek")} : data'[p] = data[p]
      /\ Came("peek")' = Came("peek") /\ Reading("peek")' /\ ctx["peek"].eof = FALSE
      /\ Buf("peek")' = Buf("peek") /\ ctx'["peek"].eof = ctx["peek"].eof
  BY <1>2, PullKeeps
<1>4. Fresh("peek")' /\ ~Done("peek") /\ PassedOn' = PassedOn
  BY <1>1, <1>2, <1>3 DEF Fresh, Done, PassedOn
<1>5. DOMAIN pc' = Procs /\ got' \in [Procs -> Seq(Seq(Piece))]
  BY <1>1, <1>2 DEF Typed
<1> QED BY <1>1, <1>2, <1>3, <1>4, <1>5, PeekReads

LEMMA PeekFreadView == ViewInv /\ ~Is("exec") /\ Fread("peek") => ViewInv'
<1> SUFFICES ASSUME ViewInv, ~Is("exec"), Fread("peek") PROVE ViewInv'
  OBVIOUS
<1>1. /\ pc["peek"] = "read" /\ ~ctx["peek"].eof
      /\ UNCHANGED <<job, pc, status, readers, writers, data, pend, due, left, got, received, screen, results>>
  BY DEF Fread, Scanned, At, ends, stdio, told
<1>2. Typed /\ Reading("peek") /\ "peek" \in Procs
  BY Parts
<1>3. /\ ctx' \in [Procs -> Contexts] /\ \A o \in Procs \ {"peek"} : ctx'[o] = ctx[o]
      /\ Has("peek")' = Has("peek") /\ Reading("peek")'
  BY <1>2, FreadKeeps
<1>4. Fresh("peek")' /\ ~Done("peek") /\ Came("peek")' = Came("peek") /\ PassedOn' = PassedOn
  BY <1>1, <1>3 DEF Fresh, Done, Came, Stdin, PassedOn
<1>5. DOMAIN pc' = Procs /\ got' \in [Procs -> Seq(Seq(Piece))] /\ data' \in [Pipes -> Seq(Piece)]
  BY <1>1, <1>2 DEF Typed
<1> QED BY <1>1, <1>3, <1>4, <1>5, PeekReads

LEMMA PeekHeaderView == ViewInv /\ ~Is("exec") /\ PeekHeader => ViewInv'
<1> SUFFICES ASSUME ViewInv, ~Is("exec"), PeekHeader PROVE ViewInv'
  OBVIOUS
<1>1. /\ pc["peek"] = "header" /\ Is("peek") /\ TakeHeader("peek") /\ pc' = [pc EXCEPT !["peek"] = "start"]
      /\ UNCHANGED <<job, status, readers, writers, data, pend, due, left, received, screen, results>>
  BY DEF PeekHeader, TakeHeader, At, Goto, ends, stdio, told
<1>2. Typed /\ Reading("peek") /\ Fresh("peek") /\ "peek" \in Procs
  BY Parts
<1>3. IsPrefix(Has("peek"), job.stream)
  BY <1>1, HasStream
<1>4. /\ ctx' \in [Procs -> Contexts] /\ \A o \in Procs \ {"peek"} : ctx'[o] = ctx[o]
      /\ got' \in [Procs -> Seq(Seq(Piece))] /\ \A o \in Procs \ {"peek"} : got'[o] = got[o]
      /\ Len(got'["peek"]) = 1 /\ got["peek"] = <<>>
      /\ Has("peek")' = Has("peek") /\ Reading("peek")'
  BY <1>1, <1>2, <1>3, HeaderKeeps
<1>5. /\ pc'["peek"] = "start" /\ DOMAIN pc' = Procs /\ \A q \in Procs \ {"peek"} : pc'[q] = pc[q]
      /\ data' \in [Pipes -> Seq(Piece)]
  BY <1>1, <1>2 DEF Typed
<1>6. Fresh("peek")' /\ ~Done("peek") /\ Came("peek")' = Came("peek")
  BY <1>1, <1>2, <1>4, <1>5 DEF Fresh, Done, Came, Stdin
<1>7. PassedOn' = PassedOn
  BY <1>1, <1>4, <1>5, FlattenEmpty DEF PassedOn
<1> QED BY <1>1, <1>4, <1>5, <1>6, <1>7, PeekReads

\* It finds no table: what it has printed is written, and nothing is shown.
LEMMA PeekFails ==
    ASSUME ViewInv, ~Is("exec"), pc["peek"] \in {"header", "read"}, Exit("peek", 2)
    PROVE  ViewInv'
<1>1. /\ FlowsStay /\ UNCHANGED <<job, readers, writers, data, pend, screen>>
      /\ pc'["peek"] = "exiting" /\ status'["peek"] = 2
      /\ \A o \in Procs \ {"peek"} : pc'[o] = pc[o] /\ status'[o] = status[o]
      /\ \A p \in Pipes \ Prints("peek") : due'[p] = due[p]
  BY ExitStay, PeekFacts
<1>2. PeekStages'
  <2>1. job.show => screen = <<>>
    BY PeekFacts DEF PeekStages
  <2> QED BY <1>1, <2>1 DEF PeekStages
<1>3. /\ pc'["show"] = pc["show"] /\ status'["show"] = status["show"] /\ due'["shown"] = due["shown"]
      /\ \A q \in {"exec", "command", "source"} : pc'[q] = pc[q]
      /\ status'["source"] = status["source"]
  BY <1>1, PeekFacts DEF Procs
<1>4. PeekAlone'
  BY <1>1, <1>3, PeekFacts DEF PeekAlone
<1>5. job.show => ShowStages'
  BY <1>1, <1>3, ViewerKept
<1> QED BY <1>1, <1>2, <1>3, <1>4, <1>5, PeekMoves, PeekFacts

LEMMA PeekStopsView ==
    ViewInv /\ ~Is("exec") /\ (NoHeader("peek") \/ ParseError("peek")) => ViewInv'
BY PeekFails DEF NoHeader, NeedsHeader, ParseError, Corrupted, At

\* A single row
LEMMA OneRow ==
    ASSUME NEW S, NEW rows \in Seq(Seq(S)), Len(rows) = 1
    PROVE  rows[1] \in Seq(S) /\ FlattenSeq(rows) = rows[1]
<1>1. rows[1] \in Seq(S)
  OBVIOUS
<1>2. PICK r \in Seq(S) : r = rows[1]
  BY <1>1
<1>3. <<>> \in Seq(Seq(S)) /\ Append(<<>>, r) = <<r>> /\ <<r>> \in Seq(Seq(S)) /\ Len(<<r>>) = 1 /\ <<r>>[1] = r
  OBVIOUS
<1>4. PICK one \in Seq(Seq(S)) : one = <<r>>
  BY <1>3
<1>5. rows = one
  <2> DEFINE R == Seq(S)
  <2>1. rows \in Seq(R) /\ one \in Seq(R) /\ Len(rows) = Len(one) /\ \A i \in 1 .. Len(rows) : rows[i] = one[i]
    BY <1>2, <1>3, <1>4
  <2> HIDE DEF R
  <2> QED BY <2>1, SeqEqual
<1>6. PICK none \in Seq(Seq(S)) : none = <<>>
  BY <1>3
<1>7. FlattenSeq(Append(none, r)) = FlattenSeq(none) \o r
  BY FlattenAppend
<1>8. FlattenSeq(none) = <<>> /\ <<>> \o r = r
  BY <1>6, FlattenEmpty, AfterNothing
<1> QED BY <1>2, <1>3, <1>4, <1>5, <1>6, <1>7, <1>8

\* What csv-peek passes on, and copies.
LEMMA PassOnKeeps ==
    ASSUME ViewInv, ~Is("exec"), Is("peek"), NEW row \in Seq(Piece), PassOn(row),
           UNCHANGED <<job, data, received>>, Came("show")' = Came("show"), PassedOn' = PassedOn \o row
    PROVE  /\ Copied' /\ screen' \in Seq(Piece) /\ (job.show => screen' = screen)
           /\ pend' \in [Pipes -> Seq(Piece)] /\ due' \in [Pipes -> Int]
           /\ \A p \in Pipes : due'[p] <= Len(pend'[p])
           /\ \A p \in {"in", "shown"} : pend'[p] = pend[p] /\ due'[p] = due[p]
<1>1. /\ ViewTyped /\ Typed /\ Copied /\ {"in", "out", "side", "shown"} = Pipes /\ "show" \in Procs
  BY Parts DEF Is
<1> DEFINE pipes == IF job.show THEN {"out", "side"} ELSE {"out"}
<1>2. /\ PrintTo(pipes, row) /\ pipes \in SUBSET Pipes /\ "out" \in pipes /\ "in" \notin pipes /\ "shown" \notin pipes
      /\ IF job.show THEN screen' = screen /\ "side" \in pipes ELSE screen' = screen \o row /\ "side" \notin pipes
  BY <1>1 DEF PassOn
<1> HIDE DEF pipes
<1>3. /\ pend' \in [Pipes -> Seq(Piece)]
      /\ due' \in [Pipes -> Int] /\ \A o \in Pipes : due'[o] <= Len(pend'[o])
      /\ \A o \in Pipes \ pipes : pend'[o] = pend[o] /\ due'[o] = due[o]
      /\ \A o \in pipes : pend'[o] = pend[o] \o row
  BY <1>1, <1>2, PrintKeeps
<1>4. screen' \in Seq(Piece)
  <2>1. PICK s \in Seq(Piece) : s = screen
    BY <1>1 DEF ViewTyped
  <2>2. s \o row \in Seq(Piece)
    BY PrefixJoined
  <2> QED BY <1>2, <2>1, <2>2
<1>5. PICK r \in Seq(Piece), d \in Seq(Piece), x \in Seq(Piece), c \in Seq(Piece), y \in Seq(Piece) :
          r = received /\ d = data["out"] /\ x = pend["out"] /\ c = Came("show") /\ y = pend["side"]
  BY <1>1, CameType DEF ViewTyped, Typed
<1>6. PICK a \in Seq(Piece) : a = r \o d
  BY PrefixJoined
<1>7. (received' \o data'["out"]) \o pend'["out"] = PassedOn'
  <2>1. SameAdded(a, x, row)
    BY AddedSame
  <2>2. a \o x = PassedOn
    BY <1>1, <1>5, <1>6 DEF Copied
  <2>3. pend'["out"] = x \o row
    BY <1>1, <1>2, <1>3, <1>5
  <2>4. received' \o data'["out"] = a
    BY <1>5, <1>6
  <2> QED BY <2>1, <2>2, <2>3, <2>4 DEF SameAdded
<1>8. CASE job.show
  <2>1. SameAdded(c, y, row)
    BY AddedSame
  <2>2. c \o y = PassedOn
    BY <1>1, <1>5, <1>8 DEF Copied
  <2>3. pend'["side"] = y \o row
    BY <1>1, <1>2, <1>3, <1>5, <1>8
  <2>4. Came("show")' \o pend'["side"] = PassedOn'
    BY <1>5, <2>1, <2>2, <2>3 DEF SameAdded
  <2> QED BY <1>1, <1>2, <1>3, <1>4, <1>7, <1>8, <2>4 DEF Copied
<1>9. CASE ~job.show
  <2>1. screen' = PassedOn' /\ pend'["side"] = <<>>
    BY <1>1, <1>2, <1>3, <1>9 DEF Copied
  <2> QED BY <1>1, <1>2, <1>3, <1>4, <1>7, <1>9, <2>1 DEF Copied
<1> QED BY <1>8, <1>9

LEMMA PeekForksView == ViewInv /\ ~Is("exec") /\ PeekForks => ViewInv'
<1> SUFFICES ASSUME ViewInv, ~Is("exec"), PeekForks PROVE ViewInv'
  OBVIOUS
<1> DEFINE row == got["peek"][1]
<1>1. /\ pc["peek"] = "start" /\ pc["show"] = "none" /\ PassOn(row)
      /\ IF job.show
         THEN /\ pc' = [pc EXCEPT !["peek"] = "read", !["show"] = "forked"]
              /\ readers' = [p \in Pipes |->
                    CASE p = "in" -> readers[p] \cup {"show"}
                      [] p = "side" -> {"show"}
                      [] p = "shown" -> {"peek", "show"}
                      [] OTHER -> readers[p]]
              /\ writers' = [p \in Pipes |->
                    CASE p = "out" -> writers[p] \cup {"show"}
                      [] p = "side" -> {"peek", "show"}
                      [] p = "shown" -> {"show"}
                      [] OTHER -> writers[p]]
         ELSE pc' = [pc EXCEPT !["peek"] = "read"] /\ UNCHANGED <<readers, writers>>
      /\ UNCHANGED <<job, status, data, left, ctx, got, received, results>>
  BY DEF PeekForks, At, Goto, ends, reading
<1>2. /\ ViewTyped /\ Typed /\ Copied /\ Fresh("show") /\ Fresh("peek") /\ SourceFlow
      /\ {"in", "out", "side", "shown"} = Pipes /\ {"source", "show", "peek", "exec", "command"} \subseteq Procs
      /\ Supply = "in" /\ First = "peek" /\ Stdin("peek") = "in" /\ Stdin("show") = "side" /\ Is("peek") /\ ~Is("show")
      /\ PeekStages /\ PeekAlone
  BY <1>1, Parts, PeekFacts DEF Procs
<1>3. /\ got["peek"] \in Seq(Seq(Piece)) /\ Len(got["peek"]) = 1 /\ ~ctx["show"].eof
  BY <1>1, <1>2 DEF Fresh, Typed
<1>4. row \in Seq(Piece) /\ FlattenSeq(got["peek"]) = row
  BY <1>3, OneRow
<1>5. /\ pc'["peek"] = "read" /\ DOMAIN pc' = Procs /\ pc'["show"] = IF job.show THEN "forked" ELSE "none"
      /\ pc'["source"] = pc["source"] /\ pc'["exec"] = pc["exec"] /\ pc'["command"] = pc["command"]
  <2>1. CASE job.show
    BY <1>1, <1>2, <2>1 DEF Typed
  <2>2. CASE ~job.show
    BY <1>1, <1>2, <2>2 DEF Typed
  <2> QED BY <2>1, <2>2
<1>6. /\ readers' \in [Pipes -> SUBSET Procs] /\ writers' \in [Pipes -> SUBSET Procs]
      /\ writers'["in"] = writers["in"]
      /\ job.show => "peek" \in writers'["side"] /\ "show" \in writers'["shown"]
  <2>1. CASE job.show
    <3>1. \A p \in Pipes : readers[p] \in SUBSET Procs /\ writers[p] \in SUBSET Procs
      BY <1>2 DEF Typed
    <3>2. /\ DOMAIN writers' = Pipes /\ DOMAIN readers' = Pipes
          /\ readers' = [p \in Pipes |-> readers'[p]] /\ writers' = [p \in Pipes |-> writers'[p]]
      BY <1>1, <2>1
    <3>3. /\ readers'["in"] = readers["in"] \cup {"show"} /\ readers'["out"] = readers["out"]
          /\ readers'["side"] = {"show"} /\ readers'["shown"] = {"peek", "show"}
          /\ writers'["in"] = writers["in"] /\ writers'["out"] = writers["out"] \cup {"show"}
          /\ writers'["side"] = {"peek", "show"} /\ writers'["shown"] = {"show"}
      BY <1>1, <1>2, <2>1
    <3>4. \A p \in Pipes : readers'[p] \in SUBSET Procs /\ writers'[p] \in SUBSET Procs
      <4>1. "in" \in Pipes /\ "out" \in Pipes
        BY <1>2
      <4>2. {"show", "peek"} \subseteq Procs
        BY <1>2
      <4> QED BY <1>2, <3>1, <3>3, <4>1, <4>2
    <3> QED BY <3>2, <3>3, <3>4
  <2>2. CASE ~job.show
    BY <1>1, <1>2, <2>2 DEF Typed
  <2> QED BY <2>1, <2>2
<1>7. Came("show")' = Came("show") /\ Came("peek")' = Came("peek")
  BY <1>1 DEF Came, Has, Buf, Stdin
<1>8. PassedOn' = PassedOn \o row
  <2>1. PassedOn = <<>> /\ PassedOn' = row
    BY <1>1, <1>4, <1>5 DEF PassedOn
  <2> HIDE DEF row
  <2>2. <<>> \o row = row
    BY <1>4, AfterNothing
  <2> QED BY <2>1, <2>2
<1> HIDE DEF row
<1>9. /\ Copied' /\ screen' \in Seq(Piece) /\ (job.show => screen' = screen)
      /\ pend' \in [Pipes -> Seq(Piece)] /\ due' \in [Pipes -> Int]
      /\ \A p \in Pipes : due'[p] <= Len(pend'[p])
      /\ \A p \in {"in", "shown"} : pend'[p] = pend[p] /\ due'[p] = due[p]
  BY <1>1, <1>2, <1>4, <1>7, <1>8, PassOnKeeps
<1>10. SourceFlow'
  <2>1. Supply' = Supply /\ First' = First
    BY <1>1 DEF Supply, First, Is
  <2>2. Came(First)' = Came(First)
    BY <1>1, <2>1 DEF Came, Has, Buf, Stdin
  <2> QED BY <1>1, <1>2, <1>9, <2>1, <2>2 DEF SourceFlow
<1>11. FlowsStay
  <2>1. /\ DOMAIN status' = Procs
        /\ data' \in [Pipes -> Seq(Piece)] /\ left' \in Seq(Piece) /\ received' \in Seq(Piece)
    BY <1>1, <1>2 DEF Typed, ViewTyped
  <2>2. /\ \A q \in {"show", "peek"} : pc'[q] = "start" => pc[q] = "start"
        /\ \A q \in {"show", "peek"} :
              pc'[q] \in {"none", "forked", "header"} => pc[q] \in {"none", "forked", "header"}
    BY <1>1, <1>5
  <2>3. \A q \in {"show", "peek"} : ctx[q].eof /\ Closed(Stdin(q)) => Closed(Stdin(q))'
    <3>1. Closed("in") => Closed("in")'
      BY <1>1, <1>6 DEF Closed
    <3>2. Stdin("peek")' = "in"
      BY DEF Stdin
    <3>3. Closed(Stdin("peek"))' = Closed("in")'
      BY <3>2 DEF Closed
    <3> QED BY <1>2, <1>3, <3>1, <3>3
  <2>4. ~ShownAll
    BY <1>3 DEF ShownAll, Done
  <2> QED BY <1>1, <1>5, <1>6, <1>9, <1>10, <2>1, <2>2, <2>3, <2>4, MovedFlows
<1>12. PeekStages'
  <2>1. status["peek"] = Running /\ (job.show => screen = <<>>)
    BY <1>1, <1>2 DEF PeekStages
  <2> QED BY <1>1, <1>5, <1>9, <2>1 DEF PeekStages
<1>13. PeekAlone'
  BY <1>1, <1>2, <1>5, <1>6 DEF PeekAlone
<1>14. job.show => ShowStages'
  <2> SUFFICES ASSUME job.show PROVE ShowStages'
    OBVIOUS
  <2>1. ShownNothing /\ status["show"] = Running
    BY <1>1, Parts, <1>2 DEF ShowStages
  <2>2. ShownNothing'
    BY <1>1, <1>9, <2>1 DEF ShownNothing
  <2> QED BY <1>1, <1>5, <2>1, <2>2 DEF ShowStages
<1>15. "source" \in writers["in"] => "source" \in writers'["in"]
  BY <1>6
<1> QED BY <1>1, <1>2, <1>5, <1>11, <1>12, <1>13, <1>14, <1>15, PeekMoves

LEMMA PeekRowView == ViewInv /\ ~Is("exec") /\ PeekRow => ViewInv'
<1> SUFFICES ASSUME ViewInv, ~Is("exec"), PeekRow PROVE ViewInv'
  OBVIOUS
<1> DEFINE row == NextRowOf("peek")
<1>1. /\ pc["peek"] = "read" /\ HasRow("peek") /\ TakeRow("peek") /\ PassOn(row)
      /\ UNCHANGED <<job, pc, status, readers, writers, data, left, received, results>>
  BY DEF PeekRow, TakeRow, At, ends
<1>2. /\ ViewTyped /\ Typed /\ Copied /\ Fresh("show") /\ Reading("peek") /\ SourceFlow
      /\ {"in", "out", "side", "shown"} = Pipes /\ "show" \in Procs \ {"peek"} /\ "peek" \in Procs
      /\ Supply = "in" /\ Is("peek") /\ ~Is("show") /\ PeekStages /\ PeekAlone
  BY <1>1, Parts, PeekFacts DEF Procs
<1>3. /\ ctx' \in [Procs -> Contexts] /\ \A o \in Procs \ {"peek"} : ctx'[o] = ctx[o]
      /\ got' \in [Procs -> Seq(Seq(Piece))] /\ \A o \in Procs \ {"peek"} : got'[o] = got[o]
      /\ row \in Seq(Piece)
      /\ FlattenSeq(got["peek"])' = FlattenSeq(got["peek"]) \o row
      /\ Has("peek")' = Has("peek") /\ Reading("peek")'
  BY <1>1, <1>2, RowKeeps
<1>4. PassedOn' = PassedOn \o row
  BY <1>1, <1>3 DEF PassedOn
<1>5. ctx'["show"] = ctx["show"] /\ got'["show"] = got["show"]
  BY <1>2, <1>3
<1>6. Came("show")' = Came("show") /\ Came("peek")' = Came("peek")
  BY <1>1, <1>3, <1>5 DEF Came, Has, Buf, Stdin
<1> HIDE DEF row
<1>7. /\ Copied' /\ screen' \in Seq(Piece) /\ (job.show => screen' = screen)
      /\ pend' \in [Pipes -> Seq(Piece)] /\ due' \in [Pipes -> Int]
      /\ \A p \in Pipes : due'[p] <= Len(pend'[p])
      /\ \A p \in {"in", "shown"} : pend'[p] = pend[p] /\ due'[p] = due[p]
  BY <1>1, <1>2, <1>3, <1>4, <1>6, PassOnKeeps
<1>8. Fresh("show")' /\ Fresh("peek")'
  BY <1>1, <1>2, <1>5 DEF Fresh, Buf
<1>9. ShownAll => ShownAll'
  <2>1. CASE job.show
    <3>1. Done("show")' = Done("show")
      BY <1>5 DEF Done, HasRow, Buf
    <3> QED BY <1>1, <1>5, <1>7, <2>1, <3>1 DEF ShownAll
  <2>2. CASE ~job.show
    <3>1. pc["show"] = "none"
      BY <1>2, <2>2 DEF PeekAlone
    <3> QED BY <1>2, <3>1 DEF Fresh, ShownAll, Done
  <2> QED BY <2>1, <2>2
<1>10. FlowsStay
  <2>1. /\ DOMAIN pc' = Procs /\ DOMAIN status' = Procs /\ data' \in [Pipes -> Seq(Piece)]
        /\ \A p \in Pipes \ {Stdin("peek")} : data'[p] = data[p]
    BY <1>1, <1>2 DEF Typed
  <2>2. ~Done("peek") /\ pend'[Supply] = pend[Supply]
    BY <1>1, <1>2, <1>7 DEF Done
  <2> QED BY <1>1, <1>2, <1>3, <1>6, <1>7, <1>8, <1>9, <2>1, <2>2, ReaderFlows
<1>11. PeekStages'
  <2>1. status["peek"] = Running /\ (job.show => screen = <<>>)
    BY <1>1, <1>2 DEF PeekStages
  <2> QED BY <1>1, <1>7, <2>1 DEF PeekStages
<1>12. PeekAlone'
  BY <1>1, <1>2 DEF PeekAlone
<1>13. job.show => ShowStages'
  BY <1>1, <1>7, <1>10, ViewerKept
<1> QED BY <1>1, <1>2, <1>10, <1>11, <1>12, <1>13, PeekMoves

\* A step that moves no piece, and does not concern the viewer
LEMMA PeekTurns ==
    ASSUME ViewInv, ~Is("exec"), pc["peek"] # "none", pc["peek"] # "start", NEW where,
           where \notin {"start", "none", "forked", "header"},
           pc' = [pc EXCEPT !["peek"] = where],
           UNCHANGED <<job, status, readers, data, pend, left, ctx, got, received, screen, results>>,
           writers' \in [Pipes -> SUBSET Procs], \A p \in Pipes : writers'[p] \subseteq writers[p],
           writers'["in"] = writers["in"],
           due' \in [Pipes -> Int], \A p \in Pipes : due'[p] <= Len(pend[p]), due'["shown"] = due["shown"],
           PeekStages', PeekAlone'
    PROVE  ViewInv'
<1>1. Typed /\ "show" \in Procs \ {"peek"} /\ "peek" \in Procs /\ "source" \in Procs \ {"peek"} /\ ~Is("show")
  BY Parts, PeekFacts DEF Procs
<1>2. pc'["peek"] = where /\ DOMAIN pc' = Procs /\ pc'["show"] = pc["show"] /\ pc'["source"] = pc["source"]
  BY <1>1 DEF Typed
<1>3. FlowsStay
  <2>1. /\ \A q \in {"show", "peek"} : pc'[q] = "start" <=> pc[q] = "start"
        /\ \A q \in {"show", "peek"} :
              pc'[q] \in {"none", "forked", "header"} => pc[q] \in {"none", "forked", "header"}
    BY <1>2
  <2>2. /\ DOMAIN status' = Procs /\ readers' \in [Pipes -> SUBSET Procs]
        /\ \A p \in Pipes : writers[p] = {} => writers'[p] = {}
    BY <1>1 DEF Typed
  <2> QED BY <1>2, <2>1, <2>2, StillFlows
<1>4. job.show => ShowStages'
  BY <1>2, <1>3, ViewerKept
<1> QED BY <1>1, <1>2, <1>3, <1>4, PeekMoves

LEMMA PeekFlushesView == ViewInv /\ ~Is("exec") /\ PeekFlushes => ViewInv'
<1> SUFFICES ASSUME ViewInv, ~Is("exec"), PeekFlushes PROVE ViewInv'
  OBVIOUS
<1>1. pc["peek"] = "read" /\ Done("peek")
  BY AllReadDone DEF PeekFlushes
<1>2. /\ Typed /\ PeekStages /\ PeekAlone /\ {"in", "out", "side", "shown"} = Pipes
      /\ {"show", "exec", "command", "source"} \subseteq Procs \ {"peek"}
      /\ status["peek"] = Running /\ (job.show => screen = <<>>)
  BY <1>1, Parts, PeekFacts DEF PeekStages, Procs
<1>3. CASE job.show
  <2>1. /\ pc' = [pc EXCEPT !["peek"] = "close"]
        /\ due' = [p \in Pipes |-> IF p \in {"side"} THEN Len(pend[p]) ELSE due[p]]
        /\ UNCHANGED <<job, status, readers, writers, data, pend, left, ctx, got, received, screen, results>>
    BY <1>3 DEF PeekFlushes, Goto, Flush, ends, reading, told
  <2>2. /\ due' \in [Pipes -> Int] /\ \A p \in Pipes : due'[p] <= Len(pend[p])
        /\ due'["side"] = Len(pend["side"]) /\ due'["shown"] = due["shown"]
    <3>1. \A p \in Pipes : Len(pend[p]) \in Nat /\ due[p] \in Int /\ due[p] <= Len(pend[p])
      BY <1>2 DEF Typed
    <3> QED BY <1>2, <2>1, <3>1
  <2>3. pc'["peek"] = "close" /\ \A q \in {"show", "exec", "command"} : pc'[q] = pc[q]
    BY <1>2, <2>1 DEF Typed, Procs
  <2>4. Done("peek")'
    BY <1>1, <2>1 DEF Done, HasRow, Buf
  <2>5. PeekStages'
    BY <1>2, <1>3, <2>1, <2>2, <2>3, <2>4 DEF PeekStages
  <2>6. PeekAlone'
    BY <1>1, <1>2, <1>3, <2>1, <2>3 DEF PeekAlone
  <2>7. writers' \in [Pipes -> SUBSET Procs]
    BY <1>2, <2>1 DEF Typed
  <2> QED BY <1>1, <2>1, <2>2, <2>5, <2>6, <2>7, PeekTurns
<1>4. CASE ~job.show
  <2>1. Exit("peek", 0)
    BY <1>4 DEF PeekFlushes
  <2>2. /\ FlowsStay /\ UNCHANGED <<job, readers, writers, data, pend, screen>>
        /\ pc'["peek"] = "exiting" /\ status'["peek"] = 0
        /\ \A o \in Procs \ {"peek"} : pc'[o] = pc[o] /\ status'[o] = status[o]
        /\ \A p \in Prints("peek") : due'[p] = Len(pend[p])
    BY <1>1, <2>1, ExitStay, PeekFacts
  <2>3. PeekStages'
    <3>1. "out" \in Prints("peek")
      BY DEF Prints
    <3> QED BY <1>1, <1>4, <2>2, <3>1 DEF PeekStages, FlowsStay
  <2>4. PeekAlone'
    BY <1>2, <1>4, <2>2 DEF PeekAlone
  <2>5. pc'["source"] = pc["source"] /\ status'["source"] = status["source"]
    BY <1>2, <2>2
  <2> QED BY <1>1, <1>4, <2>2, <2>3, <2>4, <2>5, PeekMoves, PeekFacts
<1> QED BY <1>3, <1>4

\* What is all written is no longer in the buffer.
LEMMA NothingDue ==
    ASSUME Typed, NEW p \in Pipes, due[p] = Len(pend[p]), due[p] = 0
    PROVE  pend[p] = <<>>
<1>1. pend[p] \in Seq(Piece)
  BY DEF Typed
<1> QED BY <1>1, EmptySeq

LEMMA PeekClosesView == ViewInv /\ ~Is("exec") /\ PeekCloses => ViewInv'
<1> SUFFICES ASSUME ViewInv, ~Is("exec"), PeekCloses PROVE ViewInv'
  OBVIOUS
<1>1. /\ pc["peek"] = "close" /\ \A p \in Prints("peek") : due[p] = 0
      /\ pc' = [pc EXCEPT !["peek"] = "relay"]
      /\ writers' = [writers EXCEPT !["side"] = @ \ {"peek"}]
      /\ UNCHANGED <<job, status, readers, data, pend, due, left, ctx, got, received, screen, results>>
  BY DEF PeekCloses, At, Idle, Goto, stdio, reading, told
<1>2. /\ Typed /\ PeekStages /\ PeekAlone /\ {"in", "out", "side", "shown"} = Pipes
      /\ {"show", "exec", "command"} \subseteq Procs \ {"peek"}
      /\ Prints("peek") = {"out", "side"}
  BY <1>1, Parts, PeekFacts DEF Procs
<1>3. status["peek"] = Running /\ job.show /\ Done("peek") /\ due["side"] = Len(pend["side"])
  BY <1>1, <1>2 DEF PeekStages
<1>4. pend["side"] = <<>>
  BY <1>1, <1>2, <1>3, NothingDue
<1>5. /\ writers' \in [Pipes -> SUBSET Procs] /\ \A p \in Pipes : writers'[p] \subseteq writers[p]
      /\ writers'["in"] = writers["in"] /\ writers'["shown"] = writers["shown"]
  BY <1>1, <1>2 DEF Typed
<1>6. pc'["peek"] = "relay" /\ \A q \in {"show", "exec", "command"} : pc'[q] = pc[q]
  BY <1>1, <1>2 DEF Typed, Procs
<1>7. Done("peek")'
  BY <1>1, <1>3 DEF Done, HasRow, Buf
<1>8. PeekStages'
  BY <1>1, <1>3, <1>4, <1>6, <1>7 DEF PeekStages
<1>9. PeekAlone'
  BY <1>1, <1>2, <1>3, <1>4, <1>5, <1>6 DEF PeekAlone
<1>10. due' \in [Pipes -> Int] /\ (\A p \in Pipes : due'[p] <= Len(pend[p])) /\ due'["shown"] = due["shown"]
  BY <1>1, <1>2 DEF Typed
<1> QED BY <1>1, <1>5, <1>8, <1>9, <1>10, PeekTurns

LEMMA PeekRelaysView == ViewInv /\ ~Is("exec") /\ PeekRelays => ViewInv'
<1> SUFFICES ASSUME ViewInv, ~Is("exec"), PeekRelays PROVE ViewInv'
  OBVIOUS
<1>1. /\ pc["peek"] = "relay" /\ data["shown"] # <<>>
      /\ screen' = Append(screen, Head(data["shown"]))
      /\ data' = [data EXCEPT !["shown"] = Tail(@)]
      /\ UNCHANGED <<job, pc, status, readers, writers, pend, due, left, ctx, got, received, results>>
  BY DEF PeekRelays, At, ends, stdio, reading
<1>2. /\ ViewTyped /\ Typed /\ Copied /\ SourceFlow /\ {"in", "out", "side", "shown"} = Pipes
      /\ Supply = "in" /\ First = "peek" /\ Is("peek") /\ ~Is("show") /\ PeekStages /\ PeekAlone
      /\ Stdin("peek") = "in" /\ Stdin("show") = "side"
  BY <1>1, Parts, PeekFacts
<1>3. job.show /\ Done("peek") /\ status["peek"] = Running /\ pend["side"] = <<>>
  BY <1>1, <1>2 DEF PeekStages
<1>4. PICK s \in Seq(Piece), d \in Seq(Piece) : s = screen /\ d = data["shown"]
  BY <1>2 DEF ViewTyped, Typed
<1>5. PICK t \in Seq(Piece), z \in Seq(Piece) : t = Tail(d) /\ z = Append(s, Head(d)) /\ z \o t = s \o d
  <2>1. d # <<>>
    BY <1>1, <1>4
  <2> QED BY <2>1, ReadSame DEF SameRead
<1>6. /\ data' \in [Pipes -> Seq(Piece)] /\ data'["shown"] = t /\ screen' = z
      /\ data'["in"] = data["in"] /\ data'["out"] = data["out"] /\ data'["side"] = data["side"]
  <2>1. data' = [data EXCEPT !["shown"] = t]
    BY <1>1, <1>2, <1>4, <1>5 DEF Typed
  <2> QED BY <1>1, <1>2, <1>4, <1>5, <2>1 DEF Typed
<1>7. \A q \in {"show", "peek"} : Came(q)' = Came(q) /\ Done(q)' = Done(q) /\ Closed(Stdin(q))' = Closed(Stdin(q))
  <2> SUFFICES ASSUME NEW q \in {"show", "peek"}
               PROVE  Came(q)' = Came(q) /\ Done(q)' = Done(q) /\ Closed(Stdin(q))' = Closed(Stdin(q))
    OBVIOUS
  <2>1. Stdin(q)' = Stdin(q) /\ data'[Stdin(q)] = data[Stdin(q)] /\ Buf(q)' = Buf(q) /\ Has(q)' = Has(q)
    BY <1>1, <1>6 DEF Stdin, Buf, Has
  <2> QED BY <1>1, <2>1 DEF Came, Done, HasRow, Closed
<1>8. SourceFlow'
  <2>1. Supply' = Supply /\ First' = First
    BY <1>1 DEF Supply, First, Is
  <2>2. Came(First)' = Came("peek")'
    BY <1>2, <2>1 DEF Came, Has, Buf, Stdin
  <2> QED BY <1>1, <1>2, <1>7, <2>1, <2>2 DEF SourceFlow
<1>9. Copied'
  <2>1. PassedOn' = PassedOn
    BY <1>1 DEF PassedOn
  <2> QED BY <1>1, <1>2, <1>3, <1>6, <1>7, <2>1 DEF Copied
<1>10. ShownAll => ShownAll'
  BY <1>1, <1>4, <1>5, <1>6, <1>7 DEF ShownAll
<1>11. FlowsStay
  <2>1. /\ DOMAIN pc' = Procs /\ DOMAIN status' = Procs /\ left' \in Seq(Piece) /\ received' \in Seq(Piece)
        /\ readers' \in [Pipes -> SUBSET Procs] /\ writers' \in [Pipes -> SUBSET Procs]
        /\ pend' \in [Pipes -> Seq(Piece)] /\ due' \in [Pipes -> Int] /\ \A p \in Pipes : due'[p] <= Len(pend'[p])
        /\ screen' \in Seq(Piece)
    BY <1>1, <1>2, <1>6 DEF Typed, ViewTyped
  <2> QED BY <1>1, <1>6, <1>7, <1>8, <1>9, <1>10, <2>1, MovedFlows
<1>12. PeekStages'
  BY <1>1, <1>3, <1>7 DEF PeekStages
<1>13. PeekAlone'
  BY <1>1, <1>2 DEF PeekAlone
<1>14. job.show => ShowStages'
  <2>1. ~ShownNothing
    BY <1>1 DEF ShownNothing
  <2>2. ShowStages
    BY <1>2, <1>3, Parts
  <2> QED BY <1>1, <1>10, <2>1, <2>2, ShowStagesKept
<1> QED BY <1>1, <1>2, <1>11, <1>12, <1>13, <1>14, PeekMoves

LEMMA PeekEndsView == ViewInv /\ ~Is("exec") /\ PeekEnds => ViewInv'
<1> SUFFICES ASSUME ViewInv, ~Is("exec"), PeekEnds PROVE ViewInv'
  OBVIOUS
<1>1. pc["peek"] = "relay" /\ Closed("shown") /\ Exit("peek", 0)
  BY DEF PeekEnds, At
<1>2. /\ PeekStages /\ PeekAlone /\ {"show", "exec", "command", "source"} \subseteq Procs \ {"peek"}
      /\ Prints("peek") = {"out", "side"} /\ "shown" \in Pipes /\ ~Is("show")
  BY <1>1, PeekFacts DEF Procs
<1>3. job.show /\ Done("peek") /\ pend["side"] = <<>>
  BY <1>1, <1>2 DEF PeekStages
<1>4. data["shown"] = <<>> /\ pc["show"] \in {"none", "ended"}
  BY <1>1, <1>2, <1>3 DEF Closed, PeekAlone
<1>5. /\ FlowsStay /\ UNCHANGED <<job, readers, writers, data, pend, screen>>
      /\ pc'["peek"] = "exiting" /\ status'["peek"] = 0
      /\ \A o \in Procs \ {"peek"} : pc'[o] = pc[o] /\ status'[o] = status[o]
      /\ \A p \in Prints("peek") : due'[p] = Len(pend[p])
      /\ \A p \in Pipes \ Prints("peek") : due'[p] = due[p]
  BY <1>1, ExitStay, PeekFacts
<1>6. /\ pc'["show"] = pc["show"] /\ status'["show"] = status["show"] /\ due'["shown"] = due["shown"]
      /\ \A q \in {"exec", "command", "source"} : pc'[q] = pc[q]
      /\ status'["source"] = status["source"] /\ due'["out"] = Len(pend["out"])
  BY <1>2, <1>5
<1>7. PeekStages'
  BY <1>3, <1>4, <1>5, <1>6 DEF PeekStages, FlowsStay
<1>8. PeekAlone'
  BY <1>2, <1>3, <1>4, <1>5, <1>6 DEF PeekAlone
<1>9. job.show => ShowStages'
  BY <1>1, <1>5, <1>6, ViewerKept
<1> QED BY <1>2, <1>5, <1>6, <1>7, <1>8, <1>9, PeekMoves

LEMMA PeekEndView == ViewInv /\ ~Is("exec") /\ End("peek") => ViewInv'
<1> SUFFICES ASSUME ViewInv, ~Is("exec"), End("peek") PROVE ViewInv'
  OBVIOUS
<1>1. pc["peek"] = "exiting"
  BY DEF End, At
<1>2. /\ Typed /\ PeekStages /\ PeekAlone /\ {"show", "exec", "command", "source"} \subseteq Procs \ {"peek"}
      /\ Prints("peek") = {"out", "side"} /\ "out" \in Pipes /\ ~Is("show")
  BY <1>1, Parts, PeekFacts DEF Procs
<1>3. /\ FlowsStay /\ \A p \in Prints("peek") : due[p] = 0
      /\ UNCHANGED <<job, status, data, pend, due, screen>>
      /\ pc'["peek"] = "ended" /\ \A o \in Procs \ {"peek"} : pc'[o] = pc[o]
      /\ \A o \in Procs \ {"peek"}, p \in Pipes : o \in writers[p] => o \in writers'[p]
  BY <1>1, EndStay, PeekFacts
<1>4. /\ pc'["show"] = pc["show"] /\ \A q \in {"exec", "command", "source"} : pc'[q] = pc[q]
      /\ due["out"] = 0
  BY <1>2, <1>3
<1>5. due["out"] = Len(pend["out"]) => pend["out"] = <<>>
  BY <1>2, <1>4, NothingDue
<1>6. PeekStages'
  BY <1>1, <1>2, <1>3, <1>4, <1>5 DEF PeekStages, FlowsStay
<1>7. /\ "show" \in writers["shown"] => "show" \in writers'["shown"]
      /\ "source" \in writers["in"] => "source" \in writers'["in"]
  BY <1>2, <1>3 DEF Pipes
<1>8. PeekAlone'
  BY <1>1, <1>2, <1>3, <1>4, <1>7 DEF PeekAlone
<1>9. job.show => ShowStages'
  BY <1>1, <1>3, <1>4, ViewerKept
<1> QED BY <1>2, <1>3, <1>4, <1>6, <1>7, <1>8, <1>9, PeekMoves

\* Parts of nothing
LEMMA NothingJoined ==
    ASSUME NEW S, NEW a \in Seq(S), NEW b \in Seq(S), a \o b = <<>>
    PROVE  b = <<>>
<1>1. Len(a \o b) = Len(a) + Len(b) /\ Len(a) \in Nat /\ Len(b) \in Nat /\ a \o b \in Seq(S)
  OBVIOUS
<1>2. Len(<<>>) = 0
  OBVIOUS
<1>3. Len(b) = 0
  BY <1>1, <1>2
<1> QED BY <1>3, EmptySeq

LEMMA PeekWriteView == ViewInv /\ ~Is("exec") /\ Write("peek") => ViewInv'
<1> SUFFICES ASSUME ViewInv, ~Is("exec"), Write("peek") PROVE ViewInv'
  OBVIOUS
<1>1. PICK p \in {"out", "side"} :
         /\ pc["peek"] \notin {"none", "ended"} /\ due[p] > 0
         /\ \/ Kill("peek")
            \/ /\ data' = [data EXCEPT ![p] = Append(@, Head(pend[p]))]
               /\ pend' = [pend EXCEPT ![p] = Tail(@)] /\ due' = [due EXCEPT ![p] = @ - 1]
               /\ UNCHANGED <<job, pc, status, readers, writers, left, ctx, got, received, screen, results>>
  <2>1. Prints("peek") = {"out", "side"}
    BY DEF Prints
  <2> QED BY <2>1, Writes
<1>2. /\ ViewTyped /\ Typed /\ Copied /\ PeekStages /\ PeekAlone /\ {"in", "out", "side", "shown"} = Pipes
      /\ {"show", "exec", "command", "source"} \subseteq Procs \ {"peek"}
      /\ Prints("peek") = {"out", "side"} /\ ~Is("show") /\ "show" \in Procs
  BY <1>1, Parts, PeekFacts DEF Procs
<1>3. pend[p] # <<>>
  <2>1. due[p] <= Len(pend[p]) /\ pend[p] \in Seq(Piece) /\ due[p] \in Int
    BY <1>2 DEF Typed
  <2>2. Len(pend[p]) # 0
    BY <1>1, <2>1
  <2> QED BY <2>2
<1>4. p = "side" => job.show
  BY <1>2, <1>3 DEF Copied
<1>5. pc["peek"] # "start"
  <2> SUFFICES ASSUME pc["peek"] = "start" PROVE FALSE
    OBVIOUS
  <2>1. PassedOn = <<>>
    BY DEF PassedOn
  <2>2. PICK r \in Seq(Piece), d \in Seq(Piece), x \in Seq(Piece), c \in Seq(Piece) :
            r = received /\ d = data["out"] /\ x = pend[p] /\ c = Came("show")
    BY <1>2, CameType DEF ViewTyped, Typed
  <2>3. PICK a \in Seq(Piece) : a = r \o d
    BY PrefixJoined
  <2>4. a \o x = <<>> \/ c \o x = <<>>
    BY <1>2, <1>4, <2>1, <2>2, <2>3 DEF Copied
  <2>5. x = <<>>
    BY <2>4, NothingJoined
  <2> QED BY <1>3, <2>2, <2>5
<1>6. CASE Kill("peek")
  <2>1. /\ FlowsStay /\ UNCHANGED <<job, data, pend, screen>>
        /\ pc'["peek"] = "ended" /\ status'["peek"] = Killed
        /\ \A o \in Procs \ {"peek"} : pc'[o] = pc[o] /\ status'[o] = status[o]
        /\ \A o \in Procs \ {"peek"}, o2 \in Pipes : o \in writers[o2] => o \in writers'[o2]
        /\ \A o \in Pipes \ Prints("peek") : due'[o] = due[o]
    BY <1>1, <1>5, <1>6, KillStay, PeekFacts
  <2>2. /\ pc'["show"] = pc["show"] /\ status'["show"] = status["show"] /\ due'["shown"] = due["shown"]
        /\ \A q \in {"exec", "command", "source"} : pc'[q] = pc[q]
        /\ status'["source"] = status["source"]
        /\ "show" \in writers["shown"] => "show" \in writers'["shown"]
        /\ "source" \in writers["in"] => "source" \in writers'["in"]
    BY <1>2, <2>1
  <2>3. PeekStages'
    <3>1. job.show => screen = <<>> \/ Done("peek")
      BY <1>2 DEF PeekStages
    <3> QED BY <2>1, <3>1 DEF PeekStages, FlowsStay
  <2>4. PeekAlone'
    BY <1>2, <2>1, <2>2 DEF PeekAlone
  <2>5. job.show => ShowStages'
    BY <1>1, <2>1, <2>2, ViewerKept
  <2> QED BY <1>2, <2>1, <2>2, <2>3, <2>4, <2>5, PeekMoves
<1>7. CASE /\ data' = [data EXCEPT ![p] = Append(@, Head(pend[p]))]
           /\ pend' = [pend EXCEPT ![p] = Tail(@)] /\ due' = [due EXCEPT ![p] = @ - 1]
           /\ UNCHANGED <<job, pc, status, readers, writers, left, ctx, got, received, screen, results>>
  <2>1. p = "side" => writers["side"] # {}
    BY <1>1, <1>2, <1>3, <1>4 DEF PeekAlone
  <2>2. /\ FlowsStay
        /\ \A o \in Pipes \ {p} : data'[o] = data[o] /\ pend'[o] = pend[o] /\ due'[o] = due[o]
        /\ due'[p] = due[p] - 1 /\ Len(pend'[p]) = Len(pend[p]) - 1
    BY <1>1, <1>2, <1>7, <2>1, WriteFlows
  <2>3. /\ data'["shown"] = data["shown"] /\ pend'["shown"] = pend["shown"] /\ due'["shown"] = due["shown"]
        /\ p = "out" => data'["side"] = data["side"] /\ pend'["side"] = pend["side"] /\ due'["side"] = due["side"]
        /\ p = "side" => data'["out"] = data["out"] /\ pend'["out"] = pend["out"] /\ due'["out"] = due["out"]
    BY <1>2, <2>2
  <2>4. \A o \in {"out", "side"} : due[o] = Len(pend[o]) => due'[o] = Len(pend'[o])
    <3> SUFFICES ASSUME NEW o \in {"out", "side"}, due[o] = Len(pend[o]) PROVE due'[o] = Len(pend'[o])
      OBVIOUS
    <3>1. CASE o = p
      BY <2>2, <3>1
    <3>2. CASE o # p
      BY <1>2, <2>2, <3>2
    <3> QED BY <3>1, <3>2
  <2>5. Done("peek") => Done("peek")'
    BY <2>2 DEF FlowsStay
  <2>6. PeekStages'
    <3>1. pc["peek"] # "ended" /\ (job.show /\ pend["side"] = <<>> => pend'["side"] = <<>>)
      BY <1>1, <1>3, <2>3
    <3> HIDE DEF Done
    <3> QED BY <1>2, <1>7, <2>3, <2>4, <2>5, <3>1 DEF PeekStages
  <2>7. PeekAlone'
    <3>1. pend'["side"] # <<>> => pend["side"] # <<>>
      BY <1>3, <2>3
    <3> QED BY <1>2, <1>7, <3>1 DEF PeekAlone
  <2>8. job.show => ShowStages'
    BY <1>1, <1>7, <2>2, <2>3, ViewerKept
  <2> QED BY <1>2, <1>7, <2>2, <2>6, <2>7, <2>8, PeekMoves
<1> QED BY <1>1, <1>6, <1>7

-----------------------------------------------------------------------------
(* What reads from csv-peek *)

LEMMA DownMoves ==
    ASSUME ViewInv, ~Is("exec"), pc["down"] # "none", FlowsStay,
           UNCHANGED <<job, pend, screen>>,
           \A q \in Procs \ {"down"} : pc'[q] = pc[q] /\ status'[q] = status[q],
           \A o \in Procs \ {"down"}, p \in Pipes : o \in writers[p] => o \in writers'[p],
           \A p \in Pipes \ {"out"} : data'[p] = data[p], due' = due
    PROVE  ViewInv'
<1>1. /\ {"show", "exec", "command", "source", "peek"} \subseteq Procs \ {"down"}
      /\ PeekStages /\ PeekAlone /\ ~Is("show") /\ {"in", "out", "side", "shown"} = Pipes
  BY PeekFacts DEF Procs
<1>2. /\ \A q \in {"show", "exec", "command", "source", "peek"} : pc'[q] = pc[q] /\ status'[q] = status[q]
      /\ data'["shown"] = data["shown"]
      /\ "source" \in writers["in"] => "source" \in writers'["in"]
      /\ "show" \in writers["shown"] => "show" \in writers'["shown"]
      /\ "peek" \in writers["side"] => "peek" \in writers'["side"]
  BY <1>1
<1>3. PeekStages'
  <2>1. Done("peek") => Done("peek")'
    BY DEF FlowsStay
  <2> QED BY <1>1, <1>2, <2>1, PeekStagesKept
<1>4. PeekAlone'
  BY <1>1, <1>2, PeekAloneKept
<1>5. job.show => ShowStages'
  BY <1>2, ViewerKept
<1> QED BY <1>1, <1>2, <1>3, <1>4, <1>5, PeekMoves

LEMMA DownReadsView == ViewInv /\ ~Is("exec") /\ DownReads => ViewInv'
<1> SUFFICES ASSUME ViewInv, ~Is("exec"), DownReads PROVE ViewInv'
  OBVIOUS
<1>1. /\ pc["down"] = "read" /\ data["out"] # <<>>
      /\ received' = Append(received, Head(data["out"]))
      /\ data' = [data EXCEPT !["out"] = Tail(@)]
      /\ UNCHANGED <<job, pc, status, readers, writers, pend, due, left, ctx, got, screen, results>>
  BY DEF DownReads, At, ends, stdio, reading
<1>2. /\ ViewTyped /\ Typed /\ Copied /\ SourceFlow /\ {"in", "out", "side", "shown"} = Pipes
      /\ Supply = "in" /\ First = "peek"
  BY <1>1, Parts, PeekFacts
<1>3. PICK r \in Seq(Piece), d \in Seq(Piece) : r = received /\ d = data["out"]
  BY <1>2 DEF ViewTyped, Typed
<1>4. PICK t \in Seq(Piece), z \in Seq(Piece) : t = Tail(d) /\ z = Append(r, Head(d)) /\ z \o t = r \o d
  <2>1. d # <<>>
    BY <1>1, <1>3
  <2> QED BY <2>1, ReadSame DEF SameRead
<1>5. /\ data' \in [Pipes -> Seq(Piece)] /\ data'["out"] = t /\ received' = z
      /\ \A p \in Pipes \ {"out"} : data'[p] = data[p]
  <2>1. data' = [data EXCEPT !["out"] = t]
    BY <1>1, <1>2, <1>3, <1>4 DEF Typed
  <2> QED BY <1>1, <1>2, <1>3, <1>4, <2>1 DEF Typed
<1>6. \A q \in {"show", "peek"} : Came(q)' = Came(q) /\ Done(q)' = Done(q) /\ Closed(Stdin(q))' = Closed(Stdin(q))
  <2> SUFFICES ASSUME NEW q \in {"show", "peek"}
               PROVE  Came(q)' = Came(q) /\ Done(q)' = Done(q) /\ Closed(Stdin(q))' = Closed(Stdin(q))
    OBVIOUS
  <2>1. Stdin(q)' = Stdin(q) /\ data'[Stdin(q)] = data[Stdin(q)] /\ Buf(q)' = Buf(q) /\ Has(q)' = Has(q)
    BY <1>1, <1>2, <1>5 DEF Stdin, Buf, Has
  <2> QED BY <1>1, <2>1 DEF Came, Done, HasRow, Closed
<1>7. SourceFlow'
  <2>1. Supply' = Supply /\ First' = First
    BY <1>1 DEF Supply, First, Is
  <2>2. Came(First)' = Came("peek")'
    BY <1>2, <2>1 DEF Came, Has, Buf, Stdin
  <2> QED BY <1>1, <1>2, <1>6, <2>1, <2>2 DEF SourceFlow
<1>8. Copied'
  <2>1. PassedOn' = PassedOn
    BY <1>1 DEF PassedOn
  <2>2. (received' \o data'["out"]) \o pend'["out"] = PassedOn
    BY <1>1, <1>2, <1>3, <1>4, <1>5 DEF Copied
  <2> QED BY <1>1, <1>2, <1>6, <2>1, <2>2 DEF Copied
<1>9. ShownAll => ShownAll'
  BY <1>1, <1>2, <1>5, <1>6 DEF ShownAll
<1>10. FlowsStay
  <2>1. /\ DOMAIN pc' = Procs /\ DOMAIN status' = Procs /\ left' \in Seq(Piece) /\ received' \in Seq(Piece)
        /\ readers' \in [Pipes -> SUBSET Procs] /\ writers' \in [Pipes -> SUBSET Procs]
        /\ pend' \in [Pipes -> Seq(Piece)] /\ due' \in [Pipes -> Int] /\ \A p \in Pipes : due'[p] <= Len(pend'[p])
        /\ screen' \in Seq(Piece)
    BY <1>1, <1>2, <1>5 DEF Typed, ViewTyped
  <2> QED BY <1>1, <1>5, <1>6, <1>7, <1>8, <1>9, <2>1, MovedFlows
<1> QED BY <1>1, <1>5, <1>10, DownMoves

LEMMA DownEndsView == ViewInv /\ ~Is("exec") /\ DownEnds => ViewInv'
<1> SUFFICES ASSUME ViewInv, ~Is("exec"), DownEnds PROVE ViewInv'
  OBVIOUS
<1>1. pc["down"] = "read" /\ Exit("down", 0) /\ "down" \in Active
  BY DEF DownEnds, At, Active
<1>2. /\ FlowsStay /\ UNCHANGED <<job, readers, writers, data, pend, screen>>
      /\ \A o \in Procs \ {"down"} : pc'[o] = pc[o] /\ status'[o] = status[o]
  BY <1>1, ExitStay
<1>3. due' = due
  <2>1. due' = [p \in Pipes |-> IF p \in Prints("down") THEN Len(pend[p]) ELSE due[p]]
    BY <1>1 DEF Exit, Flush
  <2>2. Prints("down") = {} /\ due \in [Pipes -> Int]
    BY <1>1, Parts, PeekFacts DEF Typed
  <2> QED BY <2>1, <2>2
<1> QED BY <1>1, <1>2, <1>3, DownMoves

LEMMA DownEndView == ViewInv /\ ~Is("exec") /\ End("down") => ViewInv'
<1> SUFFICES ASSUME ViewInv, ~Is("exec"), End("down") PROVE ViewInv'
  OBVIOUS
<1>1. pc["down"] = "exiting" /\ "down" \in Active
  BY DEF End, At, Active
<1>2. /\ FlowsStay
      /\ UNCHANGED <<job, status, data, pend, due, screen>>
      /\ \A o \in Procs \ {"down"} : pc'[o] = pc[o]
      /\ \A o \in Procs \ {"down"}, p \in Pipes : o \in writers[p] => o \in writers'[p]
  BY <1>1, EndStay
<1> QED BY <1>1, <1>2, DownMoves

-----------------------------------------------------------------------------
(* All steps *)

LEMMA SourceView == ViewInv /\ ~Is("exec") /\ Source => ViewInv'
BY ToolStartsStep, SourcePrintsView, SourceEndsView, SourceKilledView, SourceWriteView, SourceEndView DEF Source

LEMMA ShowView == ViewInv /\ ~Is("exec") /\ Show => ViewInv'
BY ShowStartsView, ShowStopsView, ShowPullView, ShowFreadView, ShowHeaderView, ShowRowView, ShowPrintsView,
   ShowEndsView, ShowWriteView, ShowEndView DEF Show, ParserSteps

LEMMA PeekView == ViewInv /\ ~Is("exec") /\ Peek => ViewInv'
BY PeekPullView, PeekFreadView, PeekStopsView, PeekHeaderView, PeekForksView, PeekRowView, PeekFlushesView,
   PeekClosesView, PeekRelaysView, PeekEndsView, PeekWriteView, PeekEndView DEF Peek, ParserSteps

LEMMA DownView == ViewInv /\ ~Is("exec") /\ Down => ViewInv'
BY DownReadsView, DownEndsView, DownEndView DEF Down

\* There is no csv-exec.
LEMMA NoExec ==
    ASSUME ViewInv, ~Is("exec")
    PROVE  ~Exec /\ ~Command
<1>1. pc["exec"] = "none" /\ pc["command"] = "none"
  BY Parts DEF ShowAlone, PeekAlone
<1>2. ~ParserSteps("exec") /\ ~End("exec")
  BY <1>1 DEF ParserSteps, Pull, Fread, NoHeader, ParseError, NeedsHeader, NeedsMore, Scanned, Corrupted, At, End
<1>3. ~ExecHeader /\ ~ExecRow /\ ~ExecWaits /\ ~ExecEnds
  BY <1>1 DEF ExecHeader, ExecRow, ExecWaits, ExecEnds, At
<1> QED BY <1>1, <1>2, <1>3 DEF Exec, Command, CommandReads, CommandEnds, At

LEMMA StutterView == ViewInv /\ ~Is("exec") /\ UNCHANGED vars => ViewInv'
<1> SUFFICES ASSUME ViewInv, ~Is("exec"), UNCHANGED vars PROVE ViewInv'
  OBVIOUS
<1>1. UNCHANGED <<job, pc, status, readers, writers, data, pend, due, left, ctx, got, received, screen, results>>
  BY DEF vars, ends, stdio, reading, told
<1>2. FlowsStay
  <2>1. /\ DOMAIN pc' = Procs /\ DOMAIN status' = Procs
        /\ readers' \in [Pipes -> SUBSET Procs] /\ writers' \in [Pipes -> SUBSET Procs]
        /\ due' \in [Pipes -> Int] /\ \A p \in Pipes : due'[p] <= Len(pend[p])
    BY <1>1, Parts DEF Typed
  <2> QED BY <1>1, <2>1, StillFlows
<1>3. SourceStages'
  BY <1>1, Parts, SourceStagesKept
<1> QED BY <1>1, <1>2, <1>3, SourceMoves

\* Nothing comes to the terminal but from csv-show and csv-peek.
LEMMA ExecShowsNothing ==
    ASSUME ExecInv, Is("exec"), Next \/ UNCHANGED vars
    PROVE  screen' = screen
<1>1. Typed /\ Alone
  BY DEF ExecInv
<1>2. \A q, code : Exit(q, code) => screen' = screen
  BY DEF Exit, told
<1>3. \A q : (End(q) \/ Kill(q) \/ Write(q)) => screen' = screen
  BY DEF End, Kill, Write, told
<1>4. (Pull("exec") \/ Fread("exec") \/ NoHeader("exec") \/ ParseError("exec")) => screen' = screen
  BY <1>2 DEF Pull, Fread, NoHeader, ParseError, told
<1>5. (SourcePrints \/ SourceEnds \/ SourceKilled) => screen' = screen
  BY <1>2, <1>3 DEF SourcePrints, SourceEnds, SourceKilled, told
<1>6. (ExecHeader \/ ExecRow \/ ExecWaits \/ ExecEnds) => screen' = screen
  BY <1>2 DEF ExecHeader, ExecRow, ExecWaits, ExecEnds, Waited, told
<1>7. (CommandReads \/ CommandEnds) => screen' = screen
  BY DEF CommandReads, CommandEnds
<1>8. UNCHANGED vars => screen' = screen
  BY DEF vars, told
<1> QED BY <1>1, <1>3, <1>4, <1>5, <1>6, <1>7, <1>8, ExecSteps

\* The invariant of all pipelines
PipelineInv == ExecInv /\ ViewInv /\ (Is("exec") => screen = <<>>)

LEMMA NextPipelineInv == PipelineInv /\ [Next]_vars => PipelineInv'
<1> SUFFICES ASSUME PipelineInv, [Next]_vars PROVE PipelineInv'
  OBVIOUS
<1>1. ExecInv' /\ job' = job /\ ExecInv /\ ViewInv /\ (Next \/ UNCHANGED vars)
  BY NextExecInv, NextKeepsJob DEF PipelineInv
<1>2. Is("exec")' = Is("exec")
  BY <1>1 DEF Is
<1>3. Is("exec") => screen' = <<>>
  BY <1>1, ExecShowsNothing DEF PipelineInv
<1>4. ViewInv'
  <2>1. CASE Is("exec")
    BY <1>2, <2>1 DEF ViewInv
  <2>2. CASE ~Is("exec")
    BY <1>1, <2>2, SourceView, ShowView, PeekView, DownView, NoExec, StutterView DEF Next
  <2> QED BY <2>1, <2>2
<1> QED BY <1>1, <1>2, <1>3, <1>4 DEF PipelineInv

LEMMA InitViewInv == Init => ViewInv
<1> SUFFICES ASSUME Init, ~Is("exec") PROVE ViewInv
  BY DEF ViewInv
<1>1. /\ job \in Jobs /\ left = job.stream
      /\ pc = [q \in Procs |->
                CASE Is("show") /\ q \in {"source", "show"} -> "forked"
                  [] ~Is("show") /\ q = "source" -> "run"
                  [] q \in {"peek", "exec"} /\ Is(q) -> "header"
                  [] Is("peek") /\ q = "down" -> "read"
                  [] OTHER -> "none"]
      /\ status = [q \in Procs |-> Running]
      /\ data = [p \in Pipes |-> <<>>] /\ pend = [p \in Pipes |-> <<>>] /\ due = [p \in Pipes |-> 0]
      /\ ctx = [q \in Procs |-> [file |-> <<>>, buf |-> <<>>, buflen |-> 0, eof |-> FALSE]]
      /\ got = [q \in Procs |-> <<>>] /\ received = <<>> /\ screen = <<>> /\ results = <<>>
  BY DEF Init, Is
<1>2. (Is("show") /\ ~Is("peek")) \/ (Is("peek") /\ ~Is("show"))
  <2>1. job.kind \in {"show", "peek", "exec"} /\ job.kind # "exec"
    BY <1>1, PipesAssumption DEF Is
  <2> QED BY <2>1 DEF Is
<1>3. /\ {"source", "show", "peek", "down", "exec", "command"} = Procs
      /\ {"in", "out", "side", "shown"} = Pipes
  BY DEF Procs, Pipes
<1>4. /\ DOMAIN pc = Procs /\ pc["exec"] = "none" /\ pc["command"] = "none"
      /\ Is("show") => /\ pc["source"] = "forked" /\ pc["show"] = "forked" /\ pc["peek"] = "none" /\ pc["down"] = "none"
      /\ Is("peek") => /\ pc["source"] = "run" /\ pc["peek"] = "header" /\ pc["show"] = "none"
  <2>1. CASE Is("show")
    BY <1>1, <1>2, <2>1 DEF Procs
  <2>2. CASE Is("peek")
    BY <1>1, <1>2, <2>2 DEF Procs
  <2> QED BY <1>2, <2>1, <2>2
<1>5. /\ readers \in [Pipes -> SUBSET Procs] /\ writers \in [Pipes -> SUBSET Procs]
      /\ Is("show") => writers["side"] = {"source", "show"}
      /\ Is("peek") => writers["in"] = {"source"}
  <2>1. readers = [p \in Pipes |->
                    CASE p = "side" /\ Is("show") -> {"source", "show"}
                      [] p = "in" /\ ~Is("show") -> {job.kind}
                      [] p = "out" /\ Is("peek") -> {"down"}
                      [] OTHER -> {}]
    BY DEF Init
  <2>2. writers = [p \in Pipes |->
                    CASE p = "side" /\ Is("show") -> {"source", "show"}
                      [] p = "in" /\ ~Is("show") -> {"source"}
                      [] p = "out" /\ Is("peek") -> {"peek"}
                      [] OTHER -> {}]
    BY DEF Init
  <2>3. job.kind \in Procs
    BY <1>2 DEF Is, Procs
  <2>4. \A p \in Pipes : readers[p] \in SUBSET Procs /\ writers[p] \in SUBSET Procs
    <3>1. CASE Is("show")
      BY <1>2, <1>3, <2>1, <2>2, <2>3, <3>1
    <3>2. CASE Is("peek")
      BY <1>2, <1>3, <2>1, <2>2, <2>3, <3>2
    <3> QED BY <1>2, <3>1, <3>2
  <2>5. readers \in [Pipes -> SUBSET Procs] /\ writers \in [Pipes -> SUBSET Procs]
    <3>1. /\ DOMAIN readers = Pipes /\ readers = [p \in Pipes |-> readers[p]]
          /\ DOMAIN writers = Pipes /\ writers = [p \in Pipes |-> writers[p]]
      BY <2>1, <2>2
    <3> QED BY <2>4, <3>1
  <2>6. CASE Is("show")
    BY <1>2, <1>3, <2>2, <2>5, <2>6
  <2>7. CASE Is("peek")
    BY <1>2, <1>3, <2>2, <2>5, <2>7
  <2> QED BY <1>2, <2>6, <2>7
<1>6. job.stream \in Seq(Piece)
  BY <1>1, PipesAssumption DEF Piece
<1>7. <<>> \in Seq(Piece) /\ <<>> \in Seq(Seq(Piece)) /\ <<>> \in Seq({0, 1, Killed}) /\ Len(<<>>) = 0
  OBVIOUS
<1>8. Typed
  <2>1. [file |-> <<>>, buf |-> <<>>, buflen |-> 0, eof |-> FALSE] \in Contexts
    BY <1>7 DEF Contexts
  <2>2. \A p \in Pipes : due[p] <= Len(pend[p])
    BY <1>1, <1>7
  <2> QED BY <1>1, <1>4, <1>5, <1>6, <1>7, <2>1, <2>2 DEF Typed
<1>9. /\ \A p \in Pipes : data[p] = <<>> /\ pend[p] = <<>>
      /\ \A q \in Procs : /\ got[q] = <<>> /\ Buf(q) = <<>> /\ ctx[q].file = <<>> /\ ~ctx[q].eof
                          /\ ctx[q].buflen = 0 /\ status[q] = Running
  BY <1>1 DEF Buf
<1>10. \A q \in {"show", "peek"} : Came(q) = <<>>
  <2> SUFFICES ASSUME NEW q \in {"show", "peek"} PROVE Came(q) = <<>>
    OBVIOUS
  <2>1. q \in Procs /\ Stdin(q) \in Pipes
    BY <1>3 DEF Stdin
  <2>2. Came(q) = (<<>> \o (<<>> \o <<>>)) \o <<>>
    BY <1>9, <2>1, FlattenEmpty DEF Came, Has
  <2>3. <<>> \o <<>> = <<>>
    OBVIOUS
  <2> QED BY <2>2, <2>3
<1>11. SourceFlow
  <2>1. Came(First) = <<>> /\ pend[Supply] = <<>>
    BY <1>3, <1>9, <1>10 DEF First, Supply
  <2>2. PICK s \in Seq(Piece) : s = job.stream
    BY <1>6
  <2>3. <<>> \o s = s
    BY AfterNothing
  <2> QED BY <1>1, <2>1, <2>2, <2>3 DEF SourceFlow
<1>12. \A q \in {"show", "peek"} : Reading(q) /\ Fresh(q)
  <2>1. Whole(<<>>)
    BY FlattenEmpty, ParsedNothing DEF Whole, Unparsed
  <2>2. \A q \in {"show", "peek"} : pc[q] # "start"
    BY <1>2, <1>4
  <2> QED BY <1>3, <1>7, <1>9, <2>1, <2>2 DEF Reading, Fresh
<1>13. Is("peek") => Copied
  <2> SUFFICES ASSUME Is("peek") PROVE Copied
    OBVIOUS
  <2>1. PassedOn = <<>>
    BY <1>3, <1>9, FlattenEmpty DEF PassedOn
  <2>2. <<>> \o <<>> = <<>>
    OBVIOUS
  <2> QED BY <1>1, <1>3, <1>9, <1>10, <2>1, <2>2 DEF Copied
<1>14. ShownNothing /\ status["show"] = Running /\ status["peek"] = Running
  BY <1>1, <1>3, <1>9 DEF ShownNothing
<1>15. SourceStages /\ ShowStages
  BY <1>2, <1>4, <1>5, <1>14 DEF SourceStages, ShowStages, Supply
<1>16. Is("show") => ShowAlone
  BY <1>2, <1>4, <1>9 DEF ShowAlone
<1>17. Is("peek") => PeekAlone /\ PeekStages
  BY <1>1, <1>3, <1>4, <1>9, <1>14 DEF PeekAlone, PeekStages
<1>18. ViewTyped
  BY <1>1, <1>7, <1>8 DEF ViewTyped
<1> QED BY <1>2, <1>11, <1>12, <1>13, <1>15, <1>16, <1>17, <1>18 DEF ViewInv, Flows, Control

LEMMA ExecViewRight == ExecInv /\ Is("exec") /\ screen = <<>> => ViewRight
<1> SUFFICES ASSUME ExecInv, Is("exec"), screen = <<>> PROVE ViewRight
  OBVIOUS
<1>1. Typed /\ InOrder /\ ~Is("show") /\ ~Is("peek")
  BY DEF ExecInv, Is
<1>2. /\ job.stream \in Seq(Piece) /\ Written \in 0 .. Len(job.stream)
      /\ Len(left) \in Nat /\ Len(pend["in"]) \in Nat /\ Len(job.stream) \in Nat
  BY <1>1, Sizes
<1>3. Sent = SubSeq(job.stream, 1, Written)
  <2>1. Written = Len(job.stream) - (Len(left) + Len(pend["in"]))
    BY <1>2 DEF Written
  <2> QED BY <1>1, <2>1 DEF Sent
<1>4. Sent \in Seq(Piece)
  BY <1>2, <1>3, CutAt
<1>5. PICK rows \in Seq(Seq(Piece)) : rows = Parsed(Sent).rows
  BY <1>4, ParsedType
<1>6. FlattenSeq(rows) \in Seq(Piece)
  BY FlattenType
<1>7. IsPrefix(screen, FlattenSeq(Parsed(Sent).rows))
  BY <1>5, <1>6, NothingFirst
<1> QED BY <1>1, <1>7 DEF ViewRight

\* What csv-show and csv-peek show is part of the table their input has, and all of
\* it when their exit status says so (src/src/utils.c:650, src/src/peek.c:46): for
\* every stream, every size of pipes and buffers, whoever ends or is killed early,
\* and every interleaving.
THEOREM ViewsRight == Spec => []ViewRight
<1>1. Init => PipelineInv
  BY InitExecInv, InitViewInv DEF PipelineInv, Init
<1>2. PipelineInv /\ [Next]_vars => PipelineInv'
  BY NextPipelineInv
<1>3. PipelineInv => ViewRight
  <2> SUFFICES ASSUME PipelineInv PROVE ViewRight
    OBVIOUS
  <2>1. CASE Is("exec")
    BY <2>1, ExecViewRight DEF PipelineInv
  <2>2. CASE ~Is("exec")
    BY <2>2, Parts, ToolViewRight, PeekViewRight DEF PipelineInv
  <2> QED BY <2>1, <2>2
<1> QED BY <1>1, <1>2, <1>3, PTL DEF Spec
=============================================================================
