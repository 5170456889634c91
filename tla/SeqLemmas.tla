----------------------------- MODULE SeqLemmas ------------------------------
(***************************************************************************)
(* What the proofs need about sequences: induction over numbers, stated    *)
(* with sets, prefixes, concatenations, partial sums, selections and       *)
(* places, how often an element occurs, and the order of texts.            *)
(***************************************************************************)
EXTENDS RowValues, SequenceTheorems, FiniteSetTheorems, WellFoundedInduction, TLAPS

\* A set that holds 0 and, with a number, the next one, holds all numbers: or
\* there were a least number that it does not hold.
LEMMA NatSetInduction ==
    ASSUME NEW T, 0 \in T, \A n \in Nat : n \in T => n + 1 \in T
    PROVE  Nat \subseteq T
<1> SUFFICES ASSUME Nat \ T # {} PROVE FALSE
  OBVIOUS
<1> DEFINE R == OpToRel(<, Nat)
<1>1. PICK x \in Nat \ T : \A y \in Nat \ T : ~(<<y, x>> \in R)
  <2>1. IsWellFoundedOn(R, Nat)
    BY NatLessThanWellFounded
  <2> HIDE DEF R
  <2> QED BY <2>1, WFMin, Nat \ T \subseteq Nat
<1>2. \A y \in Nat : y < x => y \in T
  BY <1>1 DEF OpToRel
<1> HIDE DEF R
<1>3. x \in Nat /\ x # 0
  BY <1>1
<1>4. x - 1 \in Nat /\ x - 1 < x /\ x - 1 + 1 = x
  BY <1>3
<1>5. x - 1 \in T
  BY <1>2, <1>4
<1> QED BY <1>1, <1>4, <1>5

\* A set of numbers that is not empty has a least member.
LEMMA LeastMember ==
    ASSUME NEW I \in SUBSET Nat, I # {}
    PROVE  \E m \in I : \A k \in I : m <= k
<1> DEFINE R == OpToRel(<, Nat)
<1>1. PICK m \in I : \A k \in I : ~(<<k, m>> \in R)
  <2>1. IsWellFoundedOn(R, Nat)
    BY NatLessThanWellFounded
  <2> HIDE DEF R
  <2> QED BY <2>1, WFMin
<1>2. \A k \in I : ~(k < m)
  BY <1>1 DEF OpToRel
<1> HIDE DEF R
<1> QED BY <1>1, <1>2

\* The same for the numbers up to n.
LEMMA UpToInduction ==
    ASSUME NEW n \in Nat, NEW T, 0 \in T, \A k \in 0 .. n - 1 : k \in T => k + 1 \in T
    PROVE  0 .. n \subseteq T
<1> DEFINE U == T \cup {k \in Nat : k > n}
<1>1. \A k \in Nat : k \in U => k + 1 \in U
  <2> SUFFICES ASSUME NEW k \in Nat, k \in U PROVE k + 1 \in U
    OBVIOUS
  <2>1. CASE k >= n
    BY <2>1
  <2>2. CASE k < n
    BY <2>2
  <2> QED BY <2>1, <2>2
<1>2. 0 \in U
  OBVIOUS
<1>3. Nat \subseteq U
  <2> HIDE DEF U
  <2> QED BY <1>1, <1>2, NatSetInduction
<1> QED BY <1>3

-----------------------------------------------------------------------------
(* Prefixes *)

\* A prefix, position by position.
LEMMA PrefixByPosition ==
    ASSUME NEW S, NEW s \in Seq(S), NEW t \in Seq(S)
    PROVE  IsPrefix(s, t) <=> Len(s) <= Len(t) /\ \A k \in 1 .. Len(s) : s[k] = t[k]
<1> DEFINE l == Len(s)
           a == SubSeq(s, 1, l)
           b == SubSeq(t, 1, l)
<1>1. l \in Nat /\ Len(t) \in Nat
  OBVIOUS
<1>2. a \in Seq(S) /\ Len(a) = l /\ \A k \in 1 .. l : a[k] = s[k]
  <2>1. \A k \in 1 .. l : s[k] \in S
    OBVIOUS
  <2> HIDE DEF l
  <2> QED BY <1>1, <2>1, SubSeqProperties
<1>3. l <= Len(t) => b \in Seq(S) /\ Len(b) = l /\ \A k \in 1 .. l : b[k] = t[k]
  <2> SUFFICES ASSUME l <= Len(t) PROVE b \in Seq(S) /\ Len(b) = l /\ \A k \in 1 .. l : b[k] = t[k]
    OBVIOUS
  <2>1. \A k \in 1 .. l : t[k] \in S
    BY <1>1
  <2> HIDE DEF l
  <2> QED BY <1>1, <2>1, SubSeqProperties
<1>4. IsPrefix(s, t) <=> l <= Len(t) /\ a = b
  BY DEF IsPrefix
<1> HIDE DEF a, b, l
<1>5. l <= Len(t) /\ (\A k \in 1 .. l : s[k] = t[k]) => a = b
  <2> SUFFICES ASSUME l <= Len(t), \A k \in 1 .. l : s[k] = t[k] PROVE a = b
    OBVIOUS
  <2>1. \A k \in 1 .. Len(a) : a[k] = b[k]
    BY <1>2, <1>3
  <2> QED BY <1>2, <1>3, <2>1, SeqEqual
<1> QED BY <1>2, <1>3, <1>4, <1>5 DEF l

\* A sequence is a prefix of itself and of what is appended to it, and a prefix
\* of a prefix is a prefix.
LEMMA PrefixOrder ==
    ASSUME NEW S, NEW s \in Seq(S), NEW t \in Seq(S), NEW u \in Seq(S), NEW e \in S
    PROVE  /\ IsPrefix(s, s) /\ IsPrefix(s, Append(s, e))
           /\ IsPrefix(s, t) /\ IsPrefix(t, u) => IsPrefix(s, u)
<1>1. /\ Append(s, e) \in Seq(S) /\ Len(s) <= Len(Append(s, e))
      /\ \A k \in 1 .. Len(s) : Append(s, e)[k] = s[k]
  OBVIOUS
<1>2. IsPrefix(s, s) /\ IsPrefix(s, Append(s, e))
  <2>1. Len(s) <= Len(s)
    OBVIOUS
  <2>2. IsPrefix(s, s)
    BY <2>1, PrefixByPosition
  <2>3. IsPrefix(s, Append(s, e))
    BY ONLY s \in Seq(S), <1>1, PrefixByPosition
  <2> QED BY <2>2, <2>3
<1>3. ASSUME IsPrefix(s, t), IsPrefix(t, u) PROVE IsPrefix(s, u)
  <2>1. Len(s) <= Len(t) /\ \A k \in 1 .. Len(s) : s[k] = t[k]
    BY <1>3, PrefixByPosition
  <2>2. Len(t) <= Len(u) /\ \A k \in 1 .. Len(t) : t[k] = u[k]
    BY <1>3, PrefixByPosition
  <2>3. Len(s) \in Nat /\ Len(t) \in Nat /\ Len(u) \in Nat
    OBVIOUS
  <2>4. Len(s) <= Len(u) /\ \A k \in 1 .. Len(s) : s[k] = u[k]
    BY <2>1, <2>2, <2>3
  <2> QED BY <2>4, PrefixByPosition
<1> QED BY <1>2, <1>3

\* What a stretch of a sequence is.
LEMMA StretchElements ==
    ASSUME NEW S, NEW s \in Seq(S), NEW m \in Nat \ {0}, NEW n \in Nat, m <= n + 1, n <= Len(s)
    PROVE  /\ SubSeq(s, m, n) \in Seq(S) /\ Len(SubSeq(s, m, n)) = n - m + 1
           /\ \A k \in 1 .. n - m + 1 : SubSeq(s, m, n)[k] = s[m + k - 1]
<1>1. \A k \in m .. n : s[k] \in S
  OBVIOUS
<1>2. /\ SubSeq(s, m, n) \in Seq(S) /\ Len(SubSeq(s, m, n)) = IF m <= n THEN n - m + 1 ELSE 0
      /\ \A k \in 1 .. n - m + 1 : SubSeq(s, m, n)[k] = s[m + k - 1]
  BY <1>1, SubSeqProperties
<1>3. (IF m <= n THEN n - m + 1 ELSE 0) = n - m + 1
  OBVIOUS
<1> QED BY <1>2, <1>3

\* Sequences that agree on a stretch have the same stretch.
LEMMA SameStretch ==
    ASSUME NEW S, NEW s \in Seq(S), NEW t \in Seq(S),
           NEW m \in Nat \ {0}, NEW n \in Nat, m <= n + 1, n <= Len(s), n <= Len(t),
           \A k \in m .. n : s[k] = t[k]
    PROVE  SubSeq(s, m, n) = SubSeq(t, m, n)
<1> DEFINE a == SubSeq(s, m, n)
           b == SubSeq(t, m, n)
           l == n - m + 1
<1>1. /\ a \in Seq(S) /\ Len(a) = l /\ \A k \in 1 .. l : a[k] = s[m + k - 1]
      /\ b \in Seq(S) /\ Len(b) = l /\ \A k \in 1 .. l : b[k] = t[m + k - 1]
  BY StretchElements
<1> HIDE DEF a, b
<1>2. \A k \in 1 .. l : m + k - 1 \in m .. n
  OBVIOUS
<1>3. \A k \in 1 .. l : a[k] = b[k]
  BY <1>1, <1>2
<1> HIDE DEF l
<1>4. a = b
  BY ONLY <1>1, <1>3, SeqEqual
<1> QED BY <1>4 DEF a, b

\* A stretch of a sequence grows at its end.
LEMMA SubSeqGrows ==
    ASSUME NEW S, NEW s \in Seq(S), NEW n \in 0 .. Len(s) - 1, NEW m \in 1 .. n + 1
    PROVE  SubSeq(s, m, n + 1) = Append(SubSeq(s, m, n), s[n + 1])
<1> DEFINE a == SubSeq(s, m, n)
           b == SubSeq(s, m, n + 1)
           l == n + 1 - m
<1>1. n \in Nat /\ m \in Nat /\ l \in Nat /\ n + 1 <= Len(s) /\ Len(s) \in Nat
  OBVIOUS
<1>2. \A k \in m .. n + 1 : s[k] \in S
  BY <1>1
<1>3. a \in Seq(S) /\ Len(a) = l /\ \A k \in 1 .. l : a[k] = s[m + k - 1]
  <2>1. \A k \in m .. n : s[k] \in S
    BY <1>1, <1>2
  <2>2. /\ a \in Seq(S) /\ Len(a) = IF m <= n THEN n - m + 1 ELSE 0
        /\ \A k \in 1 .. n - m + 1 : a[k] = s[m + k - 1]
    BY <1>1, <2>1, SubSeqProperties
  <2>3. n - m + 1 = l /\ (IF m <= n THEN n - m + 1 ELSE 0) = l
    BY <1>1
  <2> HIDE DEF a
  <2> QED BY <2>2, <2>3
<1>4. b \in Seq(S) /\ Len(b) = l + 1 /\ \A k \in 1 .. l + 1 : b[k] = s[m + k - 1]
  <2> DEFINE next == n + 1
  <2>1. next \in Int /\ m \in Int /\ m <= next /\ next - m + 1 = l + 1
    BY <1>1
  <2>2. \A k \in m .. next : s[k] \in S
    BY <1>2
  <2> HIDE DEF next
  <2>3. /\ SubSeq(s, m, next) \in Seq(S) /\ Len(SubSeq(s, m, next)) = next - m + 1
        /\ \A k \in 1 .. next - m + 1 : SubSeq(s, m, next)[k] = s[m + k - 1]
    BY <2>1, <2>2, SubSeqProperties
  <2> QED BY <2>1, <2>3 DEF next
<1> HIDE DEF a, b
<1>5. Append(a, s[n + 1]) \in Seq(S) /\ Len(Append(a, s[n + 1])) = l + 1
      /\ \A k \in 1 .. l : Append(a, s[n + 1])[k] = a[k]
      /\ Append(a, s[n + 1])[l + 1] = s[n + 1]
  <2>1. s[n + 1] \in S
    BY <1>1, <1>2
  <2> HIDE DEF l
  <2> QED BY <1>3, <2>1, AppendProperties
<1>6. m + (l + 1) - 1 = n + 1
  BY <1>1
<1>7. \A k \in 1 .. l + 1 : b[k] = Append(a, s[n + 1])[k]
  <2> TAKE k \in 1 .. l + 1
  <2>1. CASE k = l + 1
    BY <1>1, <1>4, <1>5, <1>6, <2>1
  <2>2. CASE k \in 1 .. l
    BY <1>1, <1>3, <1>4, <1>5, <2>2
  <2>3. k = l + 1 \/ k \in 1 .. l
    BY <1>1
  <2> QED BY ONLY <2>1, <2>2, <2>3
<1> HIDE DEF l
<1>8. b = Append(a, s[n + 1])
  BY ONLY <1>4, <1>5, <1>7, SeqEqual
<1> QED BY <1>8 DEF a, b

\* A sequence that is not empty has a last element.
LEMMA LastSplit ==
    ASSUME NEW S, NEW s \in Seq(S), s # <<>>
    PROVE  \E w \in Seq(S), e \in S : s = Append(w, e) /\ Len(s) = Len(w) + 1
<1> DEFINE l == Len(s)
           n == Len(s) - 1
<1>1. l \in Nat \ {0} /\ n \in Nat /\ n + 1 = l /\ n \in 0 .. l - 1 /\ 1 \in 1 .. n + 1
  BY EmptySeq
<1> HIDE DEF n
<1>2. SubSeq(s, 1, n + 1) = Append(SubSeq(s, 1, n), s[n + 1])
  BY <1>1, SubSeqGrows
<1>3. SubSeq(s, 1, n + 1) = s
  BY <1>1, SubSeqFull
<1>4. SubSeq(s, 1, n) \in Seq(S) /\ s[n + 1] \in S /\ Len(SubSeq(s, 1, n)) = n
  <2>1. 1 \in Nat \ {0} /\ 1 <= n + 1 /\ n <= Len(s) /\ n - 1 + 1 = n
    BY <1>1
  <2>2. SubSeq(s, 1, n) \in Seq(S) /\ Len(SubSeq(s, 1, n)) = n - 1 + 1
    BY <1>1, <2>1, StretchElements
  <2> QED BY <1>1, <2>1, <2>2
<1> QED BY <1>1, <1>2, <1>3, <1>4

\* A set that holds the empty sequence and, with a sequence, whatever is appended to it,
\* holds all sequences.
LEMMA AppendInduction ==
    ASSUME NEW S, NEW T, <<>> \in T, \A w \in Seq(S), e \in S : w \in T => Append(w, e) \in T
    PROVE  Seq(S) \subseteq T
<1> DEFINE U == {n \in Nat : \A s \in Seq(S) : Len(s) = n => s \in T}
<1>1. 0 \in U
  <2>1. \A s \in Seq(S) : Len(s) = 0 => s = <<>>
    BY EmptySeq
  <2> QED BY <2>1
<1>2. ASSUME NEW n \in Nat, n \in U PROVE n + 1 \in U
  <2> SUFFICES ASSUME NEW s \in Seq(S), Len(s) = n + 1 PROVE s \in T
    OBVIOUS
  <2>1. s # <<>>
    BY EmptySeq
  <2>2. PICK w \in Seq(S), e \in S : s = Append(w, e) /\ Len(s) = Len(w) + 1
    BY <2>1, LastSplit
  <2>3. Len(w) = n
    <3>1. Len(w) \in Nat
      OBVIOUS
    <3> QED BY <2>2, <3>1
  <2> QED BY <1>2, <2>2, <2>3
<1>3. Nat \subseteq U
  <2> HIDE DEF U
  <2> QED BY <1>1, <1>2, NatSetInduction
<1> QED BY <1>3

-----------------------------------------------------------------------------
(* FlattenSeq *)

\* The concatenations of the first sequences, one after the other.
JoinedOn(f, seqs, k) == IF k = 1 THEN seqs[k] ELSE f[k - 1] \o seqs[k]
Joins(f, seqs) == \A k \in 1 .. Len(seqs) : f[k] = JoinedOn(f, seqs, k)

\* FlattenSeq is the last of the concatenations.
LEMMA FlattenJoins ==
    ASSUME NEW seqs, Len(seqs) \in Nat \ {0}
    PROVE  \E f : Joins(f, seqs) /\ FlattenSeq(seqs) = f[Len(seqs)]
<1> DEFINE Upto(f, m) == [k \in 1 .. m |-> JoinedOn(f, seqs, k)]
           T == {m \in Nat : \E f : f = Upto(f, m)}
<1>1. 0 \in T
  <2>1. <<>> = Upto(<<>>, 0)
    OBVIOUS
  <2> HIDE DEF Upto
  <2> QED BY <2>1
<1>2. ASSUME NEW m \in Nat, m \in T PROVE m + 1 \in T
  <2>1. PICK f : f = Upto(f, m)
    BY <1>2
  <2> DEFINE last == JoinedOn(f, seqs, m + 1)
             g == [k \in 1 .. m + 1 |-> IF k <= m THEN f[k] ELSE last]
  <2>2. \A k \in 1 .. m + 1 : g[k] = JoinedOn(g, seqs, k)
    <3> TAKE k \in 1 .. m + 1
    <3>1. CASE k <= m
      <4>1. f[k] = JoinedOn(f, seqs, k)
        <5>1. Upto(f, m)[k] = JoinedOn(f, seqs, k)
          BY <3>1
        <5> HIDE DEF Upto
        <5> QED BY <2>1, <5>1
      <4> HIDE DEF last
      <4>2. k # 1 => k - 1 \in 1 .. m + 1 /\ k - 1 <= m
        BY <3>1
      <4>3. k # 1 => g[k - 1] = f[k - 1]
        BY <4>2
      <4> QED BY <3>1, <4>1, <4>3 DEF JoinedOn
    <3>2. CASE k = m + 1
      <4>1. g[k] = last
        BY <3>2
      <4> HIDE DEF last
      <4>2. k # 1 => g[k - 1] = f[k - 1]
        BY <3>2
      <4> QED BY <3>2, <4>1, <4>2 DEF last, JoinedOn
    <3> QED BY <3>1, <3>2
  <2>3. g = Upto(g, m + 1)
    <3>1. g = [k \in 1 .. m + 1 |-> g[k]]
      OBVIOUS
    <3> HIDE DEF g
    <3> QED BY <2>2, <3>1
  <2>4. \E h : h = Upto(h, m + 1)
    <3> HIDE DEF g, Upto
    <3> QED BY <2>3
  <2> HIDE DEF Upto
  <2> QED BY <2>4
<1>3. Len(seqs) \in T
  <2> HIDE DEF T
  <2> QED BY <1>1, <1>2, NatSetInduction
<1> DEFINE F == CHOOSE f : f = Upto(f, Len(seqs))
<1>4. F = Upto(F, Len(seqs))
  <2>1. \E f : f = Upto(f, Len(seqs))
    BY <1>3
  <2> HIDE DEF Upto
  <2> QED BY <2>1
<1>5. FlattenSeq(seqs) = F[Len(seqs)]
  BY DEF FlattenSeq, JoinedOn
<1> HIDE DEF F
<1>6. Joins(F, seqs)
  <2> SUFFICES ASSUME NEW k \in 1 .. Len(seqs) PROVE F[k] = JoinedOn(F, seqs, k)
    BY DEF Joins
  <2>1. Upto(F, Len(seqs))[k] = JoinedOn(F, seqs, k)
    OBVIOUS
  <2> HIDE DEF Upto
  <2> QED BY <1>4, <2>1
<1> QED BY <1>5, <1>6

\* No sequences at all make the empty sequence.
LEMMA FlattenEmpty == FlattenSeq(<<>>) = <<>>
  BY DEF FlattenSeq

\* The concatenations are sequences over the same set.
LEMMA JoinsType ==
    ASSUME NEW S, NEW seqs \in Seq(Seq(S)), NEW f, Joins(f, seqs)
    PROVE  \A k \in 1 .. Len(seqs) : f[k] \in Seq(S)
<1> DEFINE T == {k \in Nat : k \in 1 .. Len(seqs) => f[k] \in Seq(S)}
<1>1. 0 \in T
  OBVIOUS
<1>2. ASSUME NEW k \in Nat, k \in T PROVE k + 1 \in T
  <2> SUFFICES ASSUME k + 1 \in 1 .. Len(seqs) PROVE f[k + 1] \in Seq(S)
    OBVIOUS
  <2>1. f[k + 1] = IF k = 0 THEN seqs[k + 1] ELSE f[k] \o seqs[k + 1]
    BY DEF Joins, JoinedOn
  <2>2. seqs[k + 1] \in Seq(S)
    OBVIOUS
  <2>3. k # 0 => f[k] \in Seq(S)
    BY <1>2
  <2> QED BY <2>1, <2>2, <2>3
<1>3. Nat \subseteq T
  <2> HIDE DEF T
  <2> QED BY <1>1, <1>2, NatSetInduction
<1> QED BY <1>3

\* What concatenated sequences over a set make is a sequence over that set.
LEMMA FlattenType ==
    ASSUME NEW S, NEW seqs \in Seq(Seq(S))
    PROVE  FlattenSeq(seqs) \in Seq(S)
<1>1. CASE Len(seqs) = 0
  <2>1. seqs = <<>>
    BY <1>1
  <2>2. <<>> \in Seq(S)
    OBVIOUS
  <2> QED BY <2>1, <2>2, FlattenEmpty
<1>2. CASE Len(seqs) # 0
  <2>1. Len(seqs) \in Nat \ {0}
    BY <1>2
  <2>2. PICK f : Joins(f, seqs) /\ FlattenSeq(seqs) = f[Len(seqs)]
    BY <2>1, FlattenJoins
  <2> QED BY <2>1, <2>2, JoinsType
<1> QED BY <1>1, <1>2

\* One more sequence is concatenated at the end.
LEMMA FlattenAppend ==
    ASSUME NEW S, NEW seqs \in Seq(Seq(S)), NEW s \in Seq(S)
    PROVE  FlattenSeq(Append(seqs, s)) = FlattenSeq(seqs) \o s
<1> DEFINE more == Append(seqs, s)
           l == Len(seqs)
<1>1. /\ more \in Seq(Seq(S)) /\ Len(more) = l + 1 /\ l \in Nat
      /\ \A k \in 1 .. l : more[k] = seqs[k]
      /\ more[l + 1] = s
  OBVIOUS
<1> HIDE DEF more, l
<1>2. PICK g : Joins(g, more) /\ FlattenSeq(more) = g[Len(more)]
  BY <1>1, FlattenJoins
<1>3. CASE l = 0
  <2>1. seqs = <<>>
    BY <1>3 DEF l
  <2>2. g[1] = s
    BY <1>1, <1>2, <1>3 DEF Joins, JoinedOn
  <2> QED BY <1>1, <1>2, <1>3, <2>1, <2>2, FlattenEmpty DEF more
<1>4. CASE l # 0
  <2>1. PICK f : Joins(f, seqs) /\ FlattenSeq(seqs) = f[l]
    BY <1>1, <1>4, FlattenJoins DEF l
  <2> DEFINE T == {k \in Nat : k \in 1 .. l => g[k] = f[k]}
  <2>2. 0 \in T
    OBVIOUS
  <2>3. ASSUME NEW k \in Nat, k \in T PROVE k + 1 \in T
    <3> SUFFICES ASSUME k + 1 \in 1 .. l PROVE g[k + 1] = f[k + 1]
      OBVIOUS
    <3>1. g[k + 1] = IF k = 0 THEN more[k + 1] ELSE g[k] \o more[k + 1]
      BY <1>1, <1>2 DEF Joins, JoinedOn
    <3>2. f[k + 1] = IF k = 0 THEN seqs[k + 1] ELSE f[k] \o seqs[k + 1]
      BY <1>1, <2>1 DEF Joins, JoinedOn, l
    <3>3. k # 0 => g[k] = f[k]
      BY <1>1, <2>3
    <3> QED BY <1>1, <3>1, <3>2, <3>3
  <2>4. Nat \subseteq T
    <3> HIDE DEF T
    <3> QED BY <2>2, <2>3, NatSetInduction
  <2>5. g[l] = f[l]
    BY <1>1, <1>4, <2>4
  <2>6. g[l + 1] = g[l] \o more[l + 1]
    <3> DEFINE next == l + 1
    <3>1. next \in 1 .. Len(more) /\ next # 1 /\ next - 1 = l
      BY <1>1, <1>4
    <3> HIDE DEF next
    <3>2. g[next] = JoinedOn(g, more, next)
      BY <1>2, <3>1 DEF Joins
    <3>3. g[next] = g[l] \o more[next]
      BY <3>1, <3>2 DEF JoinedOn
    <3> QED BY <3>3 DEF next
  <2> QED BY <1>1, <1>2, <2>1, <2>5, <2>6 DEF more
<1> QED BY <1>1, <1>3, <1>4

\* An element goes to the end of what is joined.
EndJoined(a, b, e) == Append(a \o b, e) = a \o Append(b, e)
LEMMA ConcatAppend ==
    ASSUME NEW S, NEW a \in Seq(S), NEW b \in Seq(S), NEW e \in S
    PROVE  EndJoined(a, b, e)
  BY DEF EndJoined

-----------------------------------------------------------------------------
(* Partial sums *)

\* The sums of the prefixes of a sequence of numbers, as a recursive function,
\* exist, and each adds one number to the sum before it.
LEMMA PartialSums ==
    ASSUME NEW s \in Seq(Int), NEW f,
           f = CHOOSE g : g = [k \in 0 .. Len(s) |-> IF k = 0 THEN 0 ELSE g[k - 1] + s[k]]
    PROVE  /\ f[0] = 0
           /\ \A k \in 1 .. Len(s) : f[k] = f[k - 1] + s[k]
           /\ \A k \in 0 .. Len(s) : f[k] \in Int
<1> DEFINE l == Len(s)
           G(g, k) == IF k = 0 THEN 0 ELSE g[k - 1] + s[k]
           Upto(g, m) == [k \in 0 .. m |-> G(g, k)]
           T == {m \in Nat : \E g : g = Upto(g, m)}
<1>0. l \in Nat
  OBVIOUS
<1>1. 0 \in T
  <2> DEFINE g == [k \in 0 .. 0 |-> 0]
  <2>1. g = Upto(g, 0)
    OBVIOUS
  <2> HIDE DEF g, Upto
  <2> QED BY <2>1
<1>2. ASSUME NEW m \in Nat, m \in T PROVE m + 1 \in T
  <2>1. PICK h : h = Upto(h, m)
    BY <1>2
  <2> DEFINE last == G(h, m + 1)
             g == [k \in 0 .. m + 1 |-> IF k <= m THEN h[k] ELSE last]
  <2>2. \A k \in 0 .. m + 1 : g[k] = G(g, k)
    <3> TAKE k \in 0 .. m + 1
    <3>1. k # 0 => k - 1 \in 0 .. m /\ k - 1 <= m /\ k - 1 \in 0 .. m + 1
      OBVIOUS
    <3>2. k # 0 => g[k - 1] = h[k - 1]
      BY <3>1
    <3>3. G(g, k) = G(h, k)
      <4> HIDE DEF g
      <4> QED BY <3>2
    <3>4. CASE k <= m
      <4>1. h[k] = G(h, k)
        <5>1. Upto(h, m)[k] = G(h, k)
          BY <3>4
        <5> HIDE DEF Upto, G
        <5> QED BY <2>1, <5>1
      <4>2. g[k] = h[k]
        BY <3>4
      <4> HIDE DEF g, G
      <4> QED BY <3>3, <4>1, <4>2
    <3>5. CASE k = m + 1
      <4>1. g[k] = last
        BY <3>5
      <4>2. last = G(h, k)
        BY <3>5
      <4> HIDE DEF g, G, last
      <4> QED BY <3>3, <4>1, <4>2
    <3> QED BY <3>4, <3>5
  <2>3. g = Upto(g, m + 1)
    <3>1. g = [k \in 0 .. m + 1 |-> g[k]]
      OBVIOUS
    <3> HIDE DEF g, G
    <3> QED BY <2>2, <3>1
  <2> HIDE DEF g, Upto
  <2> QED BY <2>3
<1>3. f = Upto(f, l)
  <2>1. l \in T
    <3> HIDE DEF T, l
    <3> QED BY <1>0, <1>1, <1>2, NatSetInduction
  <2>2. f = CHOOSE g : g = Upto(g, l)
    OBVIOUS
  <2> HIDE DEF Upto, l
  <2> QED BY <2>1, <2>2
<1>4. \A k \in 0 .. l : f[k] = G(f, k)
  <2> TAKE k \in 0 .. l
  <2>1. Upto(f, l)[k] = G(f, k)
    OBVIOUS
  <2> HIDE DEF Upto, G
  <2> QED BY <1>3, <2>1
<1>5. f[0] = 0
  <2>1. G(f, 0) = 0 /\ 0 \in 0 .. l
    BY <1>0
  <2> HIDE DEF G
  <2> QED BY <1>4, <2>1
<1>6. \A k \in 1 .. l : f[k] = f[k - 1] + s[k]
  <2> TAKE k \in 1 .. l
  <2>1. G(f, k) = f[k - 1] + s[k] /\ k \in 0 .. l
    BY <1>0
  <2> HIDE DEF G
  <2> QED BY <1>4, <2>1
<1> DEFINE U == {k \in Int : f[k] \in Int}
<1>7. 0 .. l \subseteq U
  <2>1. 0 \in U
    BY <1>5
  <2>2. \A k \in 0 .. l - 1 : k \in U => k + 1 \in U
    <3> SUFFICES ASSUME NEW k \in 0 .. l - 1, f[k] \in Int PROVE k + 1 \in U
      OBVIOUS
    <3>1. k + 1 \in 1 .. l /\ (k + 1) - 1 = k
      BY <1>0
    <3>2. f[k + 1] = f[k] + s[k + 1] /\ s[k + 1] \in Int
      BY <1>6, <3>1
    <3> QED BY <3>1, <3>2
  <2> HIDE DEF U, l
  <2> QED BY <1>0, <2>1, <2>2, UpToInduction
<1> HIDE DEF T
<1> QED BY <1>5, <1>6, <1>7

-----------------------------------------------------------------------------
(* Selections *)

\* What is selected of the prefixes of a sequence, as a recursive function
Selects(f, s, places) ==
    /\ f[0] = <<>>
    /\ \A k \in 1 .. Len(s) : f[k] = IF k \in places THEN Append(f[k - 1], s[k]) ELSE f[k - 1]

LEMMA PartialSelections ==
    ASSUME NEW s, Len(s) \in Nat, NEW places, NEW f,
           f = CHOOSE g : g = [k \in 0 .. Len(s) |->
                  IF k = 0 THEN <<>> ELSE IF k \in places THEN Append(g[k - 1], s[k]) ELSE g[k - 1]]
    PROVE  Selects(f, s, places)
<1> DEFINE l == Len(s)
           G(g, k) == IF k = 0 THEN <<>> ELSE IF k \in places THEN Append(g[k - 1], s[k]) ELSE g[k - 1]
           Upto(g, m) == [k \in 0 .. m |-> G(g, k)]
           T == {m \in Nat : \E g : g = Upto(g, m)}
<1>0. l \in Nat
  OBVIOUS
<1>1. 0 \in T
  <2> DEFINE g == [k \in 0 .. 0 |-> <<>>]
  <2>1. g = Upto(g, 0)
    OBVIOUS
  <2> HIDE DEF g, Upto
  <2> QED BY <2>1
<1>2. ASSUME NEW m \in Nat, m \in T PROVE m + 1 \in T
  <2>1. PICK h : h = Upto(h, m)
    BY <1>2
  <2> DEFINE last == G(h, m + 1)
             g == [k \in 0 .. m + 1 |-> IF k <= m THEN h[k] ELSE last]
  <2>2. \A k \in 0 .. m + 1 : g[k] = G(g, k)
    <3> TAKE k \in 0 .. m + 1
    <3>1. k # 0 => k - 1 \in 0 .. m /\ k - 1 <= m /\ k - 1 \in 0 .. m + 1
      OBVIOUS
    <3>2. k # 0 => g[k - 1] = h[k - 1]
      BY <3>1
    <3>3. G(g, k) = G(h, k)
      <4> HIDE DEF g
      <4> QED BY <3>2
    <3>4. CASE k <= m
      <4>1. h[k] = G(h, k)
        <5>1. Upto(h, m)[k] = G(h, k)
          BY <3>4
        <5> HIDE DEF Upto, G
        <5> QED BY <2>1, <5>1
      <4>2. g[k] = h[k]
        BY <3>4
      <4> HIDE DEF g, G
      <4> QED BY <3>3, <4>1, <4>2
    <3>5. CASE k = m + 1
      <4>1. g[k] = last
        BY <3>5
      <4>2. last = G(h, k)
        BY <3>5
      <4> HIDE DEF g, G, last
      <4> QED BY <3>3, <4>1, <4>2
    <3> QED BY <3>4, <3>5
  <2>3. g = Upto(g, m + 1)
    <3>1. g = [k \in 0 .. m + 1 |-> g[k]]
      OBVIOUS
    <3> HIDE DEF g, G
    <3> QED BY <2>2, <3>1
  <2> HIDE DEF g, Upto
  <2> QED BY <2>3
<1>3. f = Upto(f, l)
  <2>1. l \in T
    <3> HIDE DEF T, l
    <3> QED BY <1>0, <1>1, <1>2, NatSetInduction
  <2>2. f = CHOOSE g : g = Upto(g, l)
    OBVIOUS
  <2> HIDE DEF Upto, l
  <2> QED BY <2>1, <2>2
<1>4. \A k \in 0 .. l : f[k] = G(f, k)
  <2> TAKE k \in 0 .. l
  <2>1. Upto(f, l)[k] = G(f, k)
    OBVIOUS
  <2> HIDE DEF Upto, G
  <2> QED BY <1>3, <2>1
<1>5. f[0] = <<>>
  <2>1. G(f, 0) = <<>> /\ 0 \in 0 .. l
    BY <1>0
  <2> HIDE DEF G
  <2> QED BY <1>4, <2>1
<1>6. \A k \in 1 .. l : f[k] = IF k \in places THEN Append(f[k - 1], s[k]) ELSE f[k - 1]
  <2> TAKE k \in 1 .. l
  <2>1. G(f, k) = (IF k \in places THEN Append(f[k - 1], s[k]) ELSE f[k - 1]) /\ k \in 0 .. l
    BY <1>0
  <2> HIDE DEF G
  <2> QED BY <1>4, <2>1
<1> HIDE DEF T
<1> QED BY <1>5, <1>6 DEF Selects

\* Selections are the same as far as the sequences and the places are.
LEMMA SelectionsAgree ==
    ASSUME NEW s, NEW t, NEW p, NEW q, NEW n \in Nat, n <= Len(s), n <= Len(t), Len(s) \in Nat, Len(t) \in Nat,
           \A k \in 1 .. n : s[k] = t[k] /\ (k \in p <=> k \in q),
           NEW f, Selects(f, s, p), NEW g, Selects(g, t, q)
    PROVE  \A k \in 0 .. n : f[k] = g[k]
<1> DEFINE T == {k \in Nat : f[k] = g[k]}
<1>1. 0 \in T
  BY DEF Selects
<1>2. \A k \in 0 .. n - 1 : k \in T => k + 1 \in T
  <2> SUFFICES ASSUME NEW k \in 0 .. n - 1, f[k] = g[k] PROVE f[k + 1] = g[k + 1]
    OBVIOUS
  <2>1. k + 1 \in 1 .. n /\ k + 1 \in 1 .. Len(s) /\ k + 1 \in 1 .. Len(t) /\ (k + 1) - 1 = k
    OBVIOUS
  <2>2. /\ f[k + 1] = IF k + 1 \in p THEN Append(f[k], s[k + 1]) ELSE f[k]
        /\ g[k + 1] = IF k + 1 \in q THEN Append(g[k], t[k + 1]) ELSE g[k]
    BY <2>1 DEF Selects
  <2> QED BY <2>1, <2>2
<1> HIDE DEF T
<1>3. 0 .. n \subseteq T
  BY <1>1, <1>2, UpToInduction
<1> QED BY <1>3 DEF T

\* What is selected has the type of the sequence.
LEMMA SelectionsType ==
    ASSUME NEW S, NEW s \in Seq(S), NEW p, NEW f, Selects(f, s, p)
    PROVE  \A k \in 0 .. Len(s) : f[k] \in Seq(S) /\ Len(f[k]) <= k
<1> DEFINE T == {k \in Nat : f[k] \in Seq(S) /\ Len(f[k]) <= k}
           l == Len(s)
<1>0. l \in Nat
  OBVIOUS
<1>1. 0 \in T
  <2>1. <<>> \in Seq(S) /\ Len(<<>>) = 0
    OBVIOUS
  <2>2. f[0] = <<>>
    BY DEF Selects
  <2>3. f[0] \in Seq(S) /\ Len(f[0]) = 0
    <3> DEFINE e == <<>>
    <3>1. e \in Seq(S) /\ Len(e) = 0 /\ f[0] = e
      BY <2>1, <2>2
    <3> HIDE DEF e
    <3> QED BY <3>1
  <2> QED BY <2>3
<1>2. \A k \in 0 .. l - 1 : k \in T => k + 1 \in T
  <2> SUFFICES ASSUME NEW k \in 0 .. l - 1, f[k] \in Seq(S), Len(f[k]) <= k
               PROVE  f[k + 1] \in Seq(S) /\ Len(f[k + 1]) <= k + 1
    OBVIOUS
  <2>1. k + 1 \in 1 .. l /\ (k + 1) - 1 = k /\ s[k + 1] \in S
    OBVIOUS
  <2>2. f[k + 1] = IF k + 1 \in p THEN Append(f[k], s[k + 1]) ELSE f[k]
    BY <2>1 DEF Selects
  <2> HIDE DEF l
  <2> QED BY <2>1, <2>2
<1> HIDE DEF T, l
<1>3. 0 .. l \subseteq T
  BY <1>0, <1>1, <1>2, UpToInduction
<1> QED BY <1>3 DEF T, l

\* Where no place is left, nothing is added.
LEMMA SelectionsRest ==
    ASSUME NEW s, Len(s) \in Nat, NEW p, NEW f, Selects(f, s, p), NEW n \in 0 .. Len(s),
           \A k \in n + 1 .. Len(s) : k \notin p
    PROVE  f[Len(s)] = f[n]
<1> DEFINE l == Len(s)
           T == {i \in Nat : i >= n => f[i] = f[n]}
<1>1. 0 \in T
  OBVIOUS
<1>2. \A i \in 0 .. l - 1 : i \in T => i + 1 \in T
  <2> SUFFICES ASSUME NEW i \in 0 .. l - 1, i >= n => f[i] = f[n], i + 1 >= n
               PROVE  f[i + 1] = f[n]
    OBVIOUS
  <2>1. CASE i + 1 = n
    BY <2>1
  <2>2. CASE i >= n
    <3>1. i + 1 \in 1 .. l /\ (i + 1) - 1 = i /\ i + 1 \notin p
      BY <2>2
    <3> QED BY <2>2, <3>1 DEF Selects
  <2> QED BY <2>1, <2>2
<1> HIDE DEF T
<1>3. 0 .. l \subseteq T
  BY <1>1, <1>2, UpToInduction
<1> QED BY <1>3 DEF T

\* What is selected are the elements at the places.
LEMMA SelectionsRange ==
    ASSUME NEW s, s \in Seq(Range(s)), NEW p, NEW f, Selects(f, s, p)
    PROVE  \A k \in 0 .. Len(s) : Range(f[k]) = {s[i] : i \in p \cap (1 .. k)}
<1> DEFINE l == Len(s)
           P(k) == Range(f[k]) = {s[i] : i \in p \cap (1 .. k)}
           T == {k \in Nat : P(k)}
<1>0. l \in Nat
  OBVIOUS
<1>1. 0 \in T
  <2>1. f[0] = <<>> /\ 1 .. 0 = {}
    BY DEF Selects
  <2>2. Range(<<>>) = {}
    BY DEF Range
  <2> QED BY <2>1, <2>2
<1>2. \A k \in 0 .. l - 1 : k \in T => k + 1 \in T
  <2> SUFFICES ASSUME NEW k \in 0 .. l - 1, P(k) PROVE P(k + 1)
    <3> HIDE DEF P
    <3> QED OBVIOUS
  <2>1. k + 1 \in 1 .. l /\ (k + 1) - 1 = k /\ 1 .. k + 1 = (1 .. k) \cup {k + 1}
    OBVIOUS
  <2>2. f[k + 1] = IF k + 1 \in p THEN Append(f[k], s[k + 1]) ELSE f[k]
    BY <2>1 DEF Selects
  <2>3. CASE k + 1 \notin p
    BY <2>1, <2>2, <2>3
  <2>4. CASE k + 1 \in p
    <3>1. f[k] \in Seq(Range(s)) /\ s[k + 1] \in Range(s)
      BY <2>1, SelectionsType DEF Range
    <3>2. Range(Append(f[k], s[k + 1])) = Range(f[k]) \cup {s[k + 1]}
      <4> DEFINE g == f[k]
                 e == s[k + 1]
                 a == Append(g, e)
                 m == Len(g)
      <4> HIDE DEF g, e
      <4>1. g \in Seq(Range(s)) /\ e \in Range(s)
        BY <3>1 DEF g, e
      <4>2. m \in Nat /\ DOMAIN g = 1 .. m /\ DOMAIN a = 1 .. m + 1 /\ a[m + 1] = e /\ \A i \in 1 .. m : a[i] = g[i]
        BY <4>1
      <4> HIDE DEF a, m
      <4>3. 1 .. m + 1 = (1 .. m) \cup {m + 1}
        BY <4>2
      <4>4. {a[i] : i \in (1 .. m) \cup {m + 1}} = {g[i] : i \in 1 .. m} \cup {e}
        BY <4>2
      <4> QED BY <4>2, <4>3, <4>4 DEF Range, g, e, a
    <3> QED BY <2>1, <2>2, <2>4, <3>2
  <2> QED BY <2>3, <2>4
<1> HIDE DEF T, l
<1>3. 0 .. l \subseteq T
  BY <1>0, <1>1, <1>2, UpToInduction
<1> QED BY <1>3 DEF T, l

\* Selected numbers are in the order of their places.
LEMMA SelectionsOrder ==
    ASSUME NEW n \in Nat, NEW s, s = [i \in 1 .. n |-> i], NEW p, NEW f, Selects(f, s, p)
    PROVE  /\ f[n] \in Seq(1 .. n)
           /\ \A i, j \in DOMAIN f[n] : i < j => f[n][i] < f[n][j]
<1> DEFINE Rising(g, m) == /\ g \in Seq(1 .. m)
                           /\ \A i, j \in DOMAIN g : i < j => g[i] < g[j]
           T == {k \in Nat : Rising(f[k], k)}
<1>0. Len(s) = n /\ s \in Seq(1 .. n)
  OBVIOUS
<1>1. 0 \in T
  <2>1. Rising(<<>>, 0)
    OBVIOUS
  <2> HIDE DEF Rising
  <2> QED BY <2>1 DEF Selects
<1>2. \A k \in 0 .. n - 1 : k \in T => k + 1 \in T
  <2> SUFFICES ASSUME NEW k \in 0 .. n - 1, Rising(f[k], k) PROVE Rising(f[k + 1], k + 1)
    OBVIOUS
  <2> DEFINE g == f[k]
             a == Append(g, k + 1)
             m == Len(g)
  <2>1. k + 1 \in 1 .. n /\ (k + 1) - 1 = k /\ s[k + 1] = k + 1
    OBVIOUS
  <2>2. f[k + 1] = IF k + 1 \in p THEN a ELSE g
    BY <1>0, <2>1 DEF Selects
  <2> HIDE DEF g
  <2>3. Rising(g, k)
    BY DEF g
  <2>4. g \in Seq(1 .. k) /\ m \in Nat /\ DOMAIN g = 1 .. m /\ \A i \in 1 .. m : g[i] \in 1 .. k
    BY <2>3
  <2>5. Rising(g, k + 1)
    <3>1. g \in Seq(1 .. k + 1)
      BY <2>4
    <3> QED BY <2>3, <3>1
  <2>6. Rising(a, k + 1)
    <3>1. a \in Seq(1 .. k + 1)
      <4>1. g \in Seq(1 .. k + 1) /\ k + 1 \in 1 .. k + 1
        BY <2>5
      <4> QED BY <4>1
    <3>2. DOMAIN a = 1 .. m + 1 /\ a[m + 1] = k + 1 /\ \A i \in 1 .. m : a[i] = g[i]
      BY <2>4
    <3>3. ASSUME NEW i \in 1 .. m + 1, NEW j \in 1 .. m + 1, i < j PROVE a[i] < a[j]
      <4>1. i \in 1 .. m
        BY <3>3, <2>4
      <4>2. CASE j = m + 1
        BY <4>1, <4>2, <3>2, <2>4
      <4>3. CASE j \in 1 .. m
        BY <4>1, <4>3, <3>2, <3>3, <2>3, <2>4
      <4> QED BY <4>2, <4>3, <2>4
    <3> HIDE DEF a
    <3> QED BY <3>1, <3>2, <3>3
  <2> HIDE DEF a, Rising
  <2> QED BY <2>2, <2>5, <2>6
<1> HIDE DEF T, Rising
<1>3. 0 .. n \subseteq T
  BY <1>1, <1>2, UpToInduction
<1> QED BY <1>3 DEF T, Rising

-----------------------------------------------------------------------------
(* Elements and their places *)

\* An element more, or none
LEMMA OneMore ==
    ASSUME NEW S, NEW s \in Seq(S), NEW e \in S
    PROVE  s \o <<e>> = Append(s, e) /\ s \o <<>> = s
<1>1. s \o <<e>> = Append(s, e)
  OBVIOUS
<1>2. s \o <<>> = s
  OBVIOUS
<1> QED BY <1>1, <1>2

\* A stack with a value more
LEMMA AppendStack ==
    ASSUME NEW s, s \in Seq(Range(s)), NEW v
    PROVE  /\ Append(s, v) \in Seq(Range(Append(s, v))) /\ Append(s, v) # <<>>
           /\ Last(Append(s, v)) = v
<1> DEFINE more == Append(s, v)
<1>1. s \in Seq(Range(s) \cup {v})
  BY SeqMonotonic
<1>2. more \in Seq(Range(s) \cup {v}) /\ Len(more) = Len(s) + 1 /\ more[Len(s) + 1] = v /\ Len(s) \in Nat
  BY <1>1
<1> HIDE DEF more
<1>3. \A i \in 1 .. Len(more) : more[i] \in Range(more)
  BY <1>2 DEF Range
<1>4. more \in Seq(Range(more))
  BY <1>2, <1>3, SeqDef
<1>5. more # <<>> /\ Last(more) = v
  BY <1>2, EmptySeq DEF Last
<1> QED BY <1>4, <1>5 DEF more

\* What is where in two sequences together
LEMMA ConcatPlaces ==
    ASSUME NEW S, NEW a \in Seq(S), NEW b \in Seq(S)
    PROVE  /\ a \o b \in Seq(S) /\ Len(a \o b) = Len(a) + Len(b) /\ Len(a) \in Nat /\ Len(b) \in Nat
           /\ \A i \in 1 .. Len(a) : (a \o b)[i] = a[i]
           /\ \A i \in 1 .. Len(b) : (a \o b)[Len(a) + i] = b[i]
OBVIOUS

\* What is printed last
LEMMA PrintedLast ==
    ASSUME NEW s, s \in Seq(Range(s)), NEW e
    PROVE  s \o <<e>> \in Seq(Range(s \o <<e>>)) /\ Last(s \o <<e>>) = e /\ s \o <<>> = s
<1>1. PICK S : S = Range(s) \cup {e}
  OBVIOUS
<1>2. s \in Seq(S) /\ e \in S
  BY <1>1
<1>3. s \o <<e>> = Append(s, e) /\ s \o <<>> = s
  BY <1>2, OneMore
<1>4. PICK t : t = Append(s, e)
  OBVIOUS
<1>5. t \in Seq(S) /\ Len(t) = Len(s) + 1 /\ Len(s) \in Nat /\ t[Len(s) + 1] = e
  BY <1>2, <1>4
<1>6. Last(t) = e
  BY <1>5 DEF Last
<1>7. t \in Seq(Range(t))
  BY <1>5 DEF Range
<1> QED BY <1>3, <1>4, <1>6, <1>7

LEMMA PlacesSeq ==
    ASSUME NEW n \in Nat, NEW x, x = [i \in 1 .. n |-> x[i]]
    PROVE  x \in Seq(Range(x)) /\ Len(x) = n
<1>1. DOMAIN x = 1 .. n /\ \A i \in 1 .. n : x[i] \in Range(x)
  BY DEF Range
<1> QED BY <1>1

LEMMA BehindSeq ==
    ASSUME NEW s, s \in Seq(Range(s)), NEW x, x \in Seq(Range(x))
    PROVE  /\ s \o x \in Seq(Range(s \o x)) /\ Len(s \o x) \in Nat /\ Len(s) <= Len(s \o x)
           /\ Len(s) \in Nat /\ \A i \in 1 .. Len(s) : (s \o x)[i] = s[i]
<1>1. PICK S : S = Range(s) \cup Range(x)
  OBVIOUS
<1>2. s \in Seq(S) /\ x \in Seq(S)
  BY <1>1
<1>3. PICK t : t = s \o x
  OBVIOUS
<1>4. t \in Seq(S) /\ Len(t) = Len(s) + Len(x) /\ Len(s) \in Nat /\ Len(x) \in Nat /\ \A i \in 1 .. Len(s) : t[i] = s[i]
  BY <1>2, <1>3, ConcatPlaces
<1>5. t \in Seq(Range(t))
  <2>1. t \in Seq(S)
    BY <1>4
  <2> QED BY ONLY <2>1 DEF Range
<1> QED BY <1>3, <1>4, <1>5

\* The first place of an element
WhereIs(h, c) == SelectInSeq(h, LAMBDA d : d = c)

\* In a header without repetitions, a column is where it is.
LEMMA WhereOnce ==
    ASSUME NEW h, Len(h) \in Nat, DOMAIN h = 1 .. Len(h), IsInjective(h), NEW i \in DOMAIN h
    PROVE  WhereIs(h, h[i]) = i
<1> DEFINE B == {j \in 1 .. Len(h) : h[j] = h[i]}
<1>1. WhereIs(h, h[i]) = IF B # {} THEN Min(B) ELSE 0
  BY DEF WhereIs, SelectInSeq
<1>2. B = {i}
  <2>1. \A j \in DOMAIN h : h[j] = h[i] => j = i
    BY DEF IsInjective
  <2> QED BY <2>1
<1>3. i \in Nat
  OBVIOUS
<1> HIDE DEF B
<1>4. Min(B) = i
  BY <1>2, <1>3 DEF Min
<1> QED BY <1>1, <1>2, <1>4

LEMMA OnlyPlace ==
    ASSUME NEW h, Len(h) \in Nat, NEW a \in 1 .. Len(h), \A j \in 1 .. Len(h) : h[j] = h[a] => j = a
    PROVE  WhereIs(h, h[a]) = a
<1> DEFINE I == {i \in 1 .. Len(h) : h[i] = h[a]}
<1>1. I = {a}
  OBVIOUS
<1>2. WhereIs(h, h[a]) = IF I # {} THEN Min(I) ELSE 0
  BY DEF WhereIs, SelectInSeq
<1> HIDE DEF I
<1>3. Min({a}) = a
  <2>1. a <= a
    OBVIOUS
  <2> QED BY <2>1 DEF Min
<1> QED BY <1>1, <1>2, <1>3

\* A column of the header is at the first place that has it.
LEMMA ColumnPlace ==
    ASSUME NEW h, Len(h) \in Nat, NEW c, \E i \in 1 .. Len(h) : h[i] = c
    PROVE  /\ WhereIs(h, c) \in 1 .. Len(h) /\ h[WhereIs(h, c)] = c
           /\ WhereIs(h, c) = Min({i \in 1 .. Len(h) : h[i] = c})
<1> DEFINE K == {i \in 1 .. Len(h) : h[i] = c}
<1>1. WhereIs(h, c) = IF K # {} THEN Min(K) ELSE 0
  BY DEF WhereIs, SelectInSeq
<1>2. K # {} /\ WhereIs(h, c) = Min(K)
  BY <1>1
<1>3. K \in SUBSET Nat
  OBVIOUS
<1>4. Min(K) \in K
  <2> HIDE DEF K
  <2>1. \E x \in K : \A y \in K : x <= y
    BY <1>2, <1>3, LeastMember
  <2> QED BY <2>1 DEF Min
<1> QED BY <1>2, <1>4

\* The first of some places of the output is the first one of the input if they come
\* in its order.
LEMMA FirstKept ==
    ASSUME NEW K \in SUBSET Nat, NEW L \in SUBSET Nat, NEW f, NEW j \in L, j \in Nat, f[j] = Min(K), K # {},
           \A l \in L : l <= j => f[l] \in K /\ f[l] <= f[j]
    PROVE  Min(L) \in L /\ f[Min(L)] = Min(K) /\ L # {} /\ Min(L) <= j
<1>1. Min(K) \in K /\ \A y \in K : Min(K) <= y
  <2>1. \E x \in K : \A y \in K : x <= y
    BY LeastMember
  <2> QED BY <2>1 DEF Min
<1>2. Min(L) \in L /\ \A y \in L : Min(L) <= y
  <2>1. \E x \in L : \A y \in L : x <= y
    BY LeastMember
  <2> QED BY <2>1 DEF Min
<1>3. PICK m \in L : m = Min(L)
  BY <1>2
<1>4. m <= j
  BY <1>2, <1>3
<1>5. f[m] \in K /\ f[m] <= Min(K) /\ Min(K) <= f[m]
  BY <1>1, <1>4
<1>6. f[m] \in Nat /\ Min(K) \in Nat
  BY <1>1, <1>5
<1>7. f[m] = Min(K)
  BY <1>5, <1>6
<1> QED BY <1>2, <1>3, <1>4, <1>7

-----------------------------------------------------------------------------
(* Selections by Those *)

LEMMA ThoseSelected ==
    ASSUME NEW s, Len(s) \in Nat, NEW p
    PROVE  \E f : Selects(f, s, p) /\ Those(s, p) = f[Len(s)]
<1> DEFINE f == CHOOSE g : g = [k \in 0 .. Len(s) |->
                  IF k = 0 THEN <<>> ELSE IF k \in p THEN Append(g[k - 1], s[k]) ELSE g[k - 1]]
<1>1. Those(s, p) = f[Len(s)]
  BY DEF Those
<1> HIDE DEF f
<1>2. Selects(f, s, p)
  BY PartialSelections DEF f
<1> QED BY <1>1, <1>2

\* Sequences and places that agree give the same.
LEMMA ThoseSame ==
    ASSUME NEW s, Len(s) \in Nat, NEW t, Len(t) = Len(s), NEW p, NEW q,
           \A k \in 1 .. Len(s) : s[k] = t[k] /\ (k \in p <=> k \in q)
    PROVE  Those(s, p) = Those(t, q)
<1>1. PICK f : Selects(f, s, p) /\ Those(s, p) = f[Len(s)]
  BY ThoseSelected
<1>2. PICK g : Selects(g, t, q) /\ Those(t, q) = g[Len(t)]
  BY ThoseSelected
<1> QED BY <1>1, <1>2, SelectionsAgree

LEMMA ThoseNone ==
    ASSUME NEW s, Len(s) \in Nat, NEW p, \A k \in 1 .. Len(s) : k \notin p
    PROVE  Those(s, p) = <<>>
<1>1. PICK f : Selects(f, s, p) /\ Those(s, p) = f[Len(s)]
  BY ThoseSelected
<1>2. f[Len(s)] = f[0]
  BY <1>1, SelectionsRest
<1> QED BY <1>1, <1>2 DEF Selects

\* Those of the first n places.
LEMMA ThoseNext ==
    ASSUME NEW s, Len(s) \in Nat, NEW p, NEW n \in 1 .. Len(s)
    PROVE  Those(s, p \cap (1 .. n)) =
              IF n \in p THEN Append(Those(s, p \cap (1 .. n - 1)), s[n]) ELSE Those(s, p \cap (1 .. n - 1))
<1>0. PICK l \in Nat, m \in Nat : l = Len(s) /\ m = n - 1
  OBVIOUS
<1>1. m \in 0 .. l /\ m <= l /\ n = m + 1 /\ n \in 0 .. l /\ n \in 1 .. l /\ m \in 0 .. m
  BY <1>0
<1> DEFINE P(k) == p \cap (1 .. k)
<1>2. PICK f : Selects(f, s, P(m)) /\ Those(s, P(m)) = f[l]
  BY <1>0, ThoseSelected
<1>3. PICK g : Selects(g, s, P(n)) /\ Those(s, P(n)) = g[l]
  BY <1>0, ThoseSelected
<1>4. /\ \A k \in m + 1 .. l : k \notin P(m)
      /\ \A k \in n + 1 .. l : k \notin P(n)
      /\ \A k \in 1 .. m : s[k] = s[k] /\ (k \in P(m) <=> k \in P(n))
      /\ n \in P(n) <=> n \in p
  BY <1>1
<1> HIDE DEF P
<1>5. f[l] = f[m] /\ g[l] = g[n]
  BY <1>0, <1>1, <1>2, <1>3, <1>4, SelectionsRest
<1>6. \A k \in 0 .. m : f[k] = g[k]
  <2>1. m \in Nat /\ m <= Len(s) /\ Len(s) \in Nat
    BY <1>0, <1>1
  <2>2. Selects(f, s, P(m)) /\ Selects(g, s, P(n))
    BY <1>2, <1>3
  <2> QED BY <1>4, <2>1, <2>2, SelectionsAgree
<1>7. g[n] = IF n \in p THEN Append(g[m], s[n]) ELSE g[m]
  BY <1>0, <1>1, <1>3, <1>4 DEF Selects
<1>8. P(m) = p \cap (1 .. n - 1) /\ P(n) = p \cap (1 .. n)
  BY <1>0 DEF P
<1> QED BY <1>0, <1>1, <1>2, <1>3, <1>5, <1>6, <1>7, <1>8

LEMMA ThoseAll ==
    ASSUME NEW s, Len(s) \in Nat, NEW p
    PROVE  Those(s, p \cap (1 .. Len(s))) = Those(s, p)
<1>1. \A k \in 1 .. Len(s) : k \in p \cap (1 .. Len(s)) <=> k \in p
  OBVIOUS
<1> QED BY <1>1, ThoseSame

LEMMA ThoseNoneYet ==
    ASSUME NEW s, Len(s) \in Nat, NEW p
    PROVE  Those(s, p \cap (1 .. 0)) = <<>>
<1>1. \A k \in 1 .. Len(s) : k \notin p \cap (1 .. 0)
  OBVIOUS
<1> QED BY <1>1, ThoseNone

LEMMA ThoseType ==
    ASSUME NEW S, NEW s \in Seq(S), NEW p
    PROVE  Those(s, p) \in Seq(S) /\ Len(Those(s, p)) \in Nat /\ Len(Those(s, p)) <= Len(s)
<1>1. PICK f : Selects(f, s, p) /\ Those(s, p) = f[Len(s)]
  BY ThoseSelected
<1> QED BY <1>1, SelectionsType

LEMMA ThoseRange ==
    ASSUME NEW s, s \in Seq(Range(s)), NEW p
    PROVE  Range(Those(s, p)) = {s[i] : i \in p \cap DOMAIN s}
<1>1. PICK f : Selects(f, s, p) /\ Those(s, p) = f[Len(s)]
  BY ThoseSelected
<1>2. DOMAIN s = 1 .. Len(s) /\ Len(s) \in 0 .. Len(s)
  OBVIOUS
<1>3. \A k \in 0 .. Len(s) : Range(f[k]) = {s[i] : i \in p \cap (1 .. k)}
  BY <1>1, SelectionsRange
<1>4. Range(f[Len(s)]) = {s[i] : i \in p \cap (1 .. Len(s))}
  BY <1>2, <1>3
<1> QED BY <1>1, <1>2, <1>4

\* What is at the places of a selection, and that it is in their order
LEMMA ThosePlaces ==
    ASSUME NEW S, NEW s \in Seq(S), NEW p
    PROVE  \A k, l \in DOMAIN Those(s, p) : k < l =>
              \E i, j \in p \cap (1 .. Len(s)) : i < j /\ Those(s, p)[k] = s[i] /\ Those(s, p)[l] = s[j]
<1>1. PICK f : Selects(f, s, p) /\ Those(s, p) = f[Len(s)]
  BY ThoseSelected
<1> DEFINE One(g, m) == \A k \in DOMAIN g : \E i \in p \cap (1 .. m) : g[k] = s[i]
           Two(g, m) == \A k, l \in DOMAIN g : k < l =>
                           \E i, j \in p \cap (1 .. m) : i < j /\ g[k] = s[i] /\ g[l] = s[j]
           Placed(g, m) == One(g, m) /\ Two(g, m)
           T == {m \in Nat : Placed(f[m], m)}
<1>2. PICK n \in Nat : n = Len(s)
  OBVIOUS
<1>3. 0 \in T
  <2>1. Placed(<<>>, 0)
    OBVIOUS
  <2> HIDE DEF Placed
  <2> QED BY <1>1, <2>1 DEF Selects
<1>4. \A m \in 0 .. n - 1 : m \in T => m + 1 \in T
  <2> SUFFICES ASSUME NEW m \in 0 .. n - 1, Placed(f[m], m) PROVE Placed(f[m + 1], m + 1)
    <3> HIDE DEF Placed
    <3> QED BY <1>2
  <2>1. m + 1 \in 1 .. n /\ (m + 1) - 1 = m /\ m \in 0 .. n /\ m \in Nat
    BY <1>2
  <2>2. f[m + 1] = IF m + 1 \in p THEN Append(f[m], s[m + 1]) ELSE f[m]
    BY <1>1, <1>2, <2>1 DEF Selects
  <2>3. PICK g : g = f[m] /\ g \in Seq(S)
    BY <1>1, <1>2, <2>1, SelectionsType
  <2>4. Placed(g, m)
    BY <2>3
  <2>5. Placed(g, m + 1)
    <3>1. p \cap (1 .. m) \subseteq p \cap (1 .. m + 1)
      BY <2>1
    <3> QED BY <2>4, <3>1
  <2>6. CASE m + 1 \notin p
    BY <2>2, <2>3, <2>5, <2>6
  <2>7. CASE m + 1 \in p
    <3>0. PICK d \in Nat : d = Len(g)
      BY <2>3
    <3>1. PICK a : a = Append(g, s[m + 1])
      OBVIOUS
    <3>2. DOMAIN g = 1 .. d /\ DOMAIN a = 1 .. d + 1 /\ a[d + 1] = s[m + 1] /\ \A k \in 1 .. d : a[k] = g[k]
      BY <2>3, <3>0, <3>1
    <3>3. m + 1 \in p \cap (1 .. m + 1)
      BY <2>1, <2>7
    <3>4. One(a, m + 1)
      <4> TAKE k \in DOMAIN a
      <4>1. k \in 1 .. d \/ k = d + 1
        BY <3>1, <3>2
      <4> QED BY <2>5, <3>2, <3>3, <4>1
    <3>5. Two(a, m + 1)
      <4> TAKE k, l \in DOMAIN a
      <4> HAVE k < l
      <4>1. k \in 1 .. d /\ (l \in 1 .. d \/ l = d + 1)
        BY <3>1, <3>2
      <4>2. CASE l \in 1 .. d
        <5>1. a[k] = g[k] /\ a[l] = g[l] /\ k \in DOMAIN g /\ l \in DOMAIN g
          BY <3>2, <4>1, <4>2
        <5>2. \E i, j \in p \cap (1 .. m + 1) : i < j /\ g[k] = s[i] /\ g[l] = s[j]
          BY <2>5, <5>1
        <5> QED BY <5>1, <5>2
      <4>3. CASE l = d + 1
        <5>1. PICK i \in p \cap (1 .. m) : g[k] = s[i]
          BY <2>4, <3>2, <4>1
        <5>2. i < m + 1 /\ i \in p \cap (1 .. m + 1)
          BY <2>1, <5>1
        <5> QED BY <3>2, <3>3, <4>1, <4>3, <5>1, <5>2
      <4> QED BY <4>1, <4>2, <4>3
    <3>6. f[m + 1] = a
      BY <2>2, <2>3, <2>7, <3>1
    <3> HIDE DEF One, Two
    <3> QED BY <3>4, <3>5, <3>6
  <2> HIDE DEF Placed
  <2> QED BY <2>6, <2>7
<1> HIDE DEF T
<1>5. n \in T
  <2>1. 0 .. n \subseteq T
    BY <1>2, <1>3, <1>4, UpToInduction
  <2> QED BY <1>2, <2>1
<1> QED BY <1>1, <1>2, <1>5 DEF T

\* A selection of all places but one
LEMMA ThoseBut ==
    ASSUME NEW S, NEW s \in Seq(S), NEW t \in 1 .. Len(s), NEW p, p \cap (1 .. Len(s)) = (1 .. Len(s)) \ {t}
    PROVE  Those(s, p) = [i \in 1 .. Len(s) - 1 |-> IF i < t THEN s[i] ELSE s[i + 1]]
<1>1. PICK n \in Nat : n = Len(s)
  OBVIOUS
<1> DEFINE size(m) == IF m < t THEN m ELSE m - 1
           but(m) == [i \in 1 .. size(m) |-> IF i < t THEN s[i] ELSE s[i + 1]]
           T == {m \in Nat : Those(s, p \cap (1 .. m)) = but(m)}
<1>2. 0 \in T
  <2>1. but(0) = <<>>
    BY <1>1
  <2>2. p \cap (1 .. 0) = {}
    OBVIOUS
  <2>3. Those(s, {}) = <<>>
    BY ThoseNone
  <2> HIDE DEF but
  <2> QED BY <2>1, <2>2, <2>3
<1>3. \A m \in 0 .. n - 1 : m \in T => m + 1 \in T
  <2> SUFFICES ASSUME NEW m \in 0 .. n - 1, Those(s, p \cap (1 .. m)) = but(m)
               PROVE  Those(s, p \cap (1 .. m + 1)) = but(m + 1)
    <3> HIDE DEF but
    <3> QED BY <1>1
  <2>1. m + 1 \in 1 .. Len(s) /\ (m + 1) - 1 = m
    BY <1>1
  <2>2. Those(s, p \cap (1 .. m + 1)) = IF m + 1 \in p THEN Append(but(m), s[m + 1]) ELSE but(m)
    <3> HIDE DEF but
    <3> QED BY <1>1, <2>1, ThoseNext
  <2>3. m + 1 \in p <=> m + 1 # t
    BY <2>1
  <2>4. CASE m + 1 = t
    <3>1. size(m + 1) = size(m)
      BY <1>1, <2>4
    <3> QED BY <2>2, <2>3, <2>4, <3>1
  <2>5. CASE m + 1 # t
    <3>1. size(m) \in Nat /\ size(m + 1) = size(m) + 1
      BY <1>1, <2>5
    <3>2. PICK d \in Nat : d = size(m) /\ d + 1 = size(m + 1)
      BY <3>1
    <3>3. PICK w : w = but(m)
      OBVIOUS
    <3>4. DOMAIN w = 1 .. d /\ \A i \in 1 .. d : w[i] = IF i < t THEN s[i] ELSE s[i + 1]
      BY <3>2, <3>3
    <3>5. Len(w) = d /\ w \in Seq(S)
      <4>1. \A i \in 1 .. d : i \in 1 .. n /\ (~(i < t) => i + 1 \in 1 .. n)
        BY <1>1, <2>5, <3>2
      <4>2. \A i \in 1 .. d : w[i] \in S
        BY <1>1, <3>4, <4>1
      <4>3. w = [i \in 1 .. d |-> w[i]]
        BY <3>2, <3>3
      <4>4. d \in Nat
        OBVIOUS
      <4> QED BY ONLY <4>2, <4>3, <4>4, SeqDef
    <3>6. s[m + 1] = IF d + 1 < t THEN s[d + 1] ELSE s[(d + 1) + 1]
      BY <1>1, <2>5, <3>2
    <3>7. PICK v : v = Append(w, s[m + 1])
      OBVIOUS
    <3>8. DOMAIN v = 1 .. d + 1 /\ (\A i \in 1 .. d : v[i] = w[i]) /\ v[d + 1] = s[m + 1]
      BY <3>5, <3>7
    <3>9. v = [i \in 1 .. d + 1 |-> v[i]]
      BY <3>5, <3>7
    <3>10. but(m + 1) = [i \in 1 .. d + 1 |-> IF i < t THEN s[i] ELSE s[i + 1]]
      BY <3>2
    <3>11. \A i \in 1 .. d + 1 : v[i] = IF i < t THEN s[i] ELSE s[i + 1]
      <4> TAKE i \in 1 .. d + 1
      <4>1. CASE i = d + 1
        BY <3>6, <3>8, <4>1
      <4>2. CASE i \in 1 .. d
        BY <3>4, <3>8, <4>2
      <4> QED BY <3>2, <4>1, <4>2
    <3>12. v = but(m + 1)
      <4> HIDE DEF but
      <4> QED BY <3>9, <3>10, <3>11
    <3> HIDE DEF but
    <3> QED BY <2>2, <2>3, <2>5, <3>3, <3>7, <3>12
  <2> QED BY <2>4, <2>5
<1> HIDE DEF T
<1>4. n \in T
  <2>1. 0 .. n \subseteq T
    BY <1>2, <1>3, UpToInduction
  <2> QED BY <2>1
<1>5. Those(s, p) = Those(s, p \cap (1 .. n))
  BY <1>1, ThoseSame
<1>6. size(n) = n - 1
  BY <1>1
<1> QED BY <1>1, <1>4, <1>5, <1>6 DEF T

\* Nothing is selected of what is added to a sequence.
LEMMA ThoseBefore ==
    ASSUME NEW s, Len(s) \in Nat, NEW t, Len(t) \in Nat, Len(s) <= Len(t), NEW p, NEW q,
           \A k \in 1 .. Len(s) : s[k] = t[k] /\ (k \in p <=> k \in q),
           \A k \in Len(s) + 1 .. Len(t) : k \notin q
    PROVE  Those(t, q) = Those(s, p)
<1>1. PICK f : Selects(f, s, p) /\ Those(s, p) = f[Len(s)]
  BY ThoseSelected
<1>2. PICK g : Selects(g, t, q) /\ Those(t, q) = g[Len(t)]
  BY ThoseSelected
<1>3. Len(s) \in 0 .. Len(t) /\ Len(s) \in 0 .. Len(s)
  OBVIOUS
<1>4. g[Len(t)] = g[Len(s)]
  BY <1>2, <1>3, SelectionsRest
<1>5. f[Len(s)] = g[Len(s)]
  <2>1. PICK n, m : n = Len(s) /\ m = Len(t)
    OBVIOUS
  <2>2. n \in Nat /\ m \in Nat /\ n <= n /\ n <= m /\ n \in 0 .. n
    BY <2>1
  <2>3. \A k \in 1 .. n : s[k] = t[k] /\ (k \in p <=> k \in q)
    BY <2>1
  <2>4. Selects(f, s, p) /\ Selects(g, t, q)
    BY <1>1, <1>2
  <2>5. f[n] = g[n]
    BY ONLY <2>1, <2>2, <2>3, <2>4, SelectionsAgree
  <2> QED BY <2>1, <2>5
<1> QED BY <1>1, <1>2, <1>4, <1>5

\* The element that is added is selected.
LEMMA ThoseAndLast ==
    ASSUME NEW s, Len(s) \in Nat, NEW t, Len(t) = Len(s) + 1, NEW p, NEW q,
           \A k \in 1 .. Len(s) : s[k] = t[k] /\ (k \in p <=> k \in q), Len(t) \in q
    PROVE  Those(t, q) = Append(Those(s, p), t[Len(t)])
<1>1. PICK f : Selects(f, s, p) /\ Those(s, p) = f[Len(s)]
  BY ThoseSelected
<1>2. PICK g : Selects(g, t, q) /\ Those(t, q) = g[Len(t)]
  BY ThoseSelected
<1>3. Len(s) \in 0 .. Len(s) /\ Len(t) \in 1 .. Len(t) /\ Len(t) - 1 = Len(s) /\ Len(s) <= Len(t)
  OBVIOUS
<1>4. g[Len(t)] = Append(g[Len(s)], t[Len(t)])
  BY <1>2, <1>3 DEF Selects
<1>5. f[Len(s)] = g[Len(s)]
  BY <1>1, <1>2, <1>3, SelectionsAgree
<1> QED BY <1>1, <1>2, <1>4, <1>5

-----------------------------------------------------------------------------
(* How often an element occurs *)

CountOf(s, e) == Cardinality({k \in DOMAIN s : s[k] = e})

LEMMA CountNext ==
    ASSUME NEW S, NEW s \in Seq(S), NEW x \in S, NEW e
    PROVE  /\ CountOf(s, e) \in Nat
           /\ CountOf(Append(s, x), e) = CountOf(s, e) + (IF x = e THEN 1 ELSE 0)
<1>1. PICK n \in Nat : n = Len(s)
  OBVIOUS
<1>2. PICK t : t = Append(s, x)
  OBVIOUS
<1>3. DOMAIN s = 1 .. n /\ DOMAIN t = 1 .. n + 1 /\ t[n + 1] = x /\ \A k \in 1 .. n : t[k] = s[k]
  BY <1>1, <1>2
<1>4. PICK A : A = {k \in DOMAIN s : s[k] = e}
  OBVIOUS
<1>5. IsFiniteSet(A) /\ n + 1 \notin A
  <2>1. IsFiniteSet(1 .. n)
    BY FS_Interval
  <2>2. A \in SUBSET (1 .. n)
    BY <1>3, <1>4
  <2>3. IsFiniteSet(A)
    BY <2>1, <2>2, FS_Subset
  <2> QED BY <1>1, <2>2, <2>3
<1>6. Cardinality(A) \in Nat
  BY <1>5, FS_CardinalityType
<1>7. {k \in DOMAIN t : t[k] = e} = IF x = e THEN A \cup {n + 1} ELSE A
  <2>1. \A k : k \in 1 .. n + 1 <=> k \in 1 .. n \/ k = n + 1
    BY <1>1
  <2> QED BY <1>3, <1>4, <2>1
<1>8. Cardinality(A \cup {n + 1}) = Cardinality(A) + 1
  BY <1>5, FS_AddElement
<1>9. CountOf(s, e) = Cardinality(A) /\ CountOf(t, e) = Cardinality({k \in DOMAIN t : t[k] = e})
  BY <1>4 DEF CountOf
<1>10. CountOf(t, e) = CountOf(s, e) + (IF x = e THEN 1 ELSE 0)
  <2>1. CASE x = e
    BY <1>7, <1>8, <1>9, <2>1
  <2>2. CASE x # e
    <3>1. CountOf(t, e) = CountOf(s, e) /\ CountOf(s, e) \in Nat
      BY <1>6, <1>7, <1>9, <2>2
    <3> QED BY <2>2, <3>1
  <2> QED BY <2>1, <2>2
<1> QED BY <1>2, <1>4, <1>5, <1>6, <1>9, <1>10

LEMMA CountNone == \A e : CountOf(<<>>, e) = 0
<1>1. \A e : {k \in DOMAIN <<>> : <<>>[k] = e} = {}
  OBVIOUS
<1> QED BY <1>1, FS_EmptySet DEF CountOf

LEMMA CountBoth ==
    ASSUME NEW S, NEW s \in Seq(S), NEW t \in Seq(S), NEW e
    PROVE  CountOf(s \o t, e) = CountOf(s, e) + CountOf(t, e)
<1> DEFINE T == {w \in Seq(S) : CountOf(s \o w, e) = CountOf(s, e) + CountOf(w, e)}
<1>1. <<>> \in T
  <2>1. s \o <<>> = s /\ <<>> \in Seq(S)
    OBVIOUS
  <2>2. CountOf(s, e) \in Nat
    <3>1. CASE S = {}
      <4>1. s = <<>>
        BY <3>1
      <4> QED BY <4>1, CountNone
    <3>2. CASE S # {}
      BY <3>2, CountNext
    <3> QED BY <3>1, <3>2
  <2>3. CountOf(<<>>, e) = 0
    BY CountNone
  <2>4. CountOf(s, e) + 0 = CountOf(s, e)
    BY <2>2
  <2> QED BY <2>1, <2>3, <2>4
<1>2. \A w \in Seq(S), x \in S : w \in T => Append(w, x) \in T
  <2> SUFFICES ASSUME NEW w \in Seq(S), NEW x \in S, CountOf(s \o w, e) = CountOf(s, e) + CountOf(w, e)
               PROVE  Append(w, x) \in Seq(S) /\ CountOf(s \o Append(w, x), e) = CountOf(s, e) + CountOf(Append(w, x), e)
    OBVIOUS
  <2>1. s \o Append(w, x) = Append(s \o w, x) /\ s \o w \in Seq(S) /\ Append(w, x) \in Seq(S)
    BY ConcatAppend DEF EndJoined
  <2>2. /\ CountOf(Append(s \o w, x), e) = CountOf(s \o w, e) + (IF x = e THEN 1 ELSE 0)
        /\ CountOf(Append(w, x), e) = CountOf(w, e) + (IF x = e THEN 1 ELSE 0)
        /\ CountOf(s \o w, e) \in Nat /\ CountOf(w, e) \in Nat /\ CountOf(s, e) \in Nat
    <3>1. PICK v : v = s \o w /\ v \in Seq(S)
      BY <2>1
    <3>2. \A z \in Seq(S) : CountOf(z, e) \in Nat /\ CountOf(Append(z, x), e) = CountOf(z, e) + (IF x = e THEN 1 ELSE 0)
      <4> TAKE z \in Seq(S)
      <4>1. CountOf(z, e) \in Nat
        BY CountNext
      <4>2. CountOf(Append(z, x), e) = CountOf(z, e) + (IF x = e THEN 1 ELSE 0)
        BY CountNext
      <4> QED BY <4>1, <4>2
    <3> QED BY <3>1, <3>2
  <2> QED BY <2>1, <2>2
<1> HIDE DEF T
<1>3. t \in T
  BY <1>1, <1>2, AppendInduction
<1> QED BY <1>3 DEF T

\* Another order, the same elements
LEMMA CountRearranged ==
    ASSUME NEW S, NEW s \in Seq(S), NEW p \in Bijection(DOMAIN s, DOMAIN s), NEW e
    PROVE  CountOf([i \in DOMAIN s |-> s[p[i]]], e) = CountOf(s, e)
<1>1. PICK n \in Nat : n = Len(s) /\ DOMAIN s = 1 .. n
  OBVIOUS
<1>2. PICK t : t = [i \in DOMAIN s |-> s[p[i]]]
  OBVIOUS
<1>3. PICK A, B : A = {k \in DOMAIN s : t[k] = e} /\ B = {k \in DOMAIN s : s[k] = e}
  OBVIOUS
<1>4. /\ p \in [DOMAIN s -> DOMAIN s] /\ (\A a, b \in DOMAIN s : p[a] = p[b] => a = b)
      /\ \A b \in DOMAIN s : \E a \in DOMAIN s : p[a] = b
  BY DEF Bijection, Injection, Surjection, IsInjective
<1>5. PICK f : f = [a \in A |-> p[a]]
  OBVIOUS
<1>6. f \in Bijection(A, B)
  <2>1. f \in [A -> B]
    BY <1>2, <1>3, <1>4, <1>5
  <2>2. IsInjective(f)
    BY <1>3, <1>4, <1>5 DEF IsInjective
  <2>3. ASSUME NEW b \in B PROVE \E a \in A : f[a] = b
    BY <1>2, <1>3, <1>4, <1>5
  <2> QED BY <2>1, <2>2, <2>3 DEF Bijection, Injection, Surjection
<1>7. IsFiniteSet(A)
  <2>1. IsFiniteSet(1 .. n)
    BY FS_Interval
  <2>2. A \in SUBSET (1 .. n)
    BY <1>1, <1>3
  <2> QED BY <2>1, <2>2, FS_Subset
<1>8. ExistsBijection(A, B)
  BY <1>6 DEF ExistsBijection
<1>9. Cardinality(B) = Cardinality(A)
  BY <1>7, <1>8, FS_Bijection
<1>10. DOMAIN t = DOMAIN s
  BY <1>2
<1> QED BY <1>2, <1>3, <1>9, <1>10 DEF CountOf

LEMMA CountReversed ==
    ASSUME NEW S, NEW s \in Seq(S), NEW e
    PROVE  CountOf(Reverse(s), e) = CountOf(s, e)
<1>1. PICK n \in Nat : n = Len(s) /\ DOMAIN s = 1 .. n
  OBVIOUS
<1>2. PICK p : p = [i \in 1 .. n |-> n - i + 1]
  OBVIOUS
<1>3. p \in Bijection(1 .. n, 1 .. n)
  <2>1. p \in [1 .. n -> 1 .. n]
    BY <1>2
  <2>2. \A a, b \in 1 .. n : p[a] = p[b] => a = b
    BY <1>2
  <2>3. ASSUME NEW b \in 1 .. n PROVE \E a \in 1 .. n : p[a] = b
    <3>1. n - b + 1 \in 1 .. n /\ n - (n - b + 1) + 1 = b
      OBVIOUS
    <3>2. p[n - b + 1] = b
      BY <1>2, <3>1
    <3> QED BY <3>1, <3>2
  <2>4. DOMAIN p = 1 .. n
    BY <1>2
  <2> QED BY <2>1, <2>2, <2>3, <2>4 DEF Bijection, Injection, Surjection, IsInjective
<1>4. Reverse(s) = [i \in DOMAIN s |-> s[p[i]]]
  BY <1>1, <1>2 DEF Reverse
<1> QED BY <1>1, <1>3, <1>4, CountRearranged

-----------------------------------------------------------------------------
(* Sequences of sequences *)

\* The parts of a sequence of sequences, one after the other
Together(parts, n) == FlattenSeq([k \in 1 .. n |-> parts[k]])

LEMMA TogetherNext ==
    ASSUME NEW S, NEW m \in Nat, NEW parts, \A k \in 1 .. m : parts[k] \in Seq(S)
    PROVE  /\ Together(parts, 0) = <<>>
           /\ \A n \in 0 .. m : Together(parts, n) \in Seq(S)
           /\ \A n \in 1 .. m : Together(parts, n) = Together(parts, n - 1) \o parts[n]
<1> DEFINE first(n) == [k \in 1 .. n |-> parts[k]]
<1>1. ASSUME NEW n \in 0 .. m PROVE first(n) \in Seq(Seq(S)) /\ Len(first(n)) = n
  OBVIOUS
<1>2. first(0) = <<>>
  OBVIOUS
<1>3. ASSUME NEW n \in 1 .. m PROVE first(n) = Append(first(n - 1), parts[n]) /\ parts[n] \in Seq(S)
  <2>1. n - 1 \in 0 .. m /\ n \in 0 .. m /\ parts[n] \in Seq(S)
    OBVIOUS
  <2> DEFINE long == first(n)
             short == first(n - 1)
  <2>2. long \in Seq(Seq(S)) /\ Len(long) = n /\ short \in Seq(Seq(S)) /\ Len(short) = n - 1
    BY <1>1, <2>1
  <2>3. long[n] = parts[n] /\ \A k \in 1 .. n - 1 : long[k] = short[k]
    OBVIOUS
  <2> HIDE DEF long, short
  <2>4. long = Append(short, parts[n])
    BY <2>1, <2>2, <2>3
  <2> QED BY <2>1, <2>4 DEF long, short
<1>4. \A n : Together(parts, n) = FlattenSeq(first(n))
  BY DEF Together
<1> HIDE DEF first
<1>5. \A n \in 0 .. m : Together(parts, n) \in Seq(S)
  BY <1>1, <1>4, FlattenType
<1>6. Together(parts, 0) = <<>>
  BY <1>2, <1>4, FlattenEmpty
<1>7. ASSUME NEW n \in 1 .. m PROVE Together(parts, n) = Together(parts, n - 1) \o parts[n]
  <2>1. n - 1 \in 0 .. m
    OBVIOUS
  <2>2. PICK w : w = first(n - 1) /\ w \in Seq(Seq(S))
    BY <1>1, <2>1
  <2>3. parts[n] \in Seq(S) /\ first(n) = Append(w, parts[n])
    BY <1>3, <2>2
  <2>4. FlattenSeq(Append(w, parts[n])) = FlattenSeq(w) \o parts[n]
    BY <2>2, <2>3, FlattenAppend
  <2> QED BY <1>4, <2>2, <2>3, <2>4
<1> QED BY <1>5, <1>6, <1>7

\* Where a part is
PartInside(parts, m, k) ==
    /\ Len(Together(parts, k - 1)) \in Nat /\ Len(parts[k]) \in Nat
    /\ Len(Together(parts, k)) = Len(Together(parts, k - 1)) + Len(parts[k])
    /\ Len(Together(parts, k - 1)) + Len(parts[k]) <= Len(Together(parts, m))
    /\ \A i \in 1 .. Len(parts[k]) : Together(parts, m)[Len(Together(parts, k - 1)) + i] = parts[k][i]

LEMMA TogetherParts ==
    ASSUME NEW S, NEW m \in Nat, NEW parts, \A k \in 1 .. m : parts[k] \in Seq(S), NEW k \in 1 .. m
    PROVE  PartInside(parts, m, k)
<1>0. k - 1 \in 0 .. m /\ k \in 0 .. m
  OBVIOUS
<1>11. /\ Together(parts, 0) = <<>>
       /\ \A n \in 0 .. m : Together(parts, n) \in Seq(S)
       /\ \A n \in 1 .. m : Together(parts, n) = Together(parts, n - 1) \o parts[n]
  BY TogetherNext
<1>1. PICK a, b, c : a = Together(parts, k - 1) /\ b = parts[k] /\ c = Together(parts, k)
  OBVIOUS
<1>2. a \in Seq(S) /\ b \in Seq(S) /\ c = a \o b
  BY <1>0, <1>1, TogetherNext
<1>3. PICK l \in Nat, d \in Nat : l = Len(a) /\ d = Len(b)
  BY <1>2
<1>4. c \in Seq(S) /\ Len(c) = l + d /\ \A i \in 1 .. d : c[l + i] = b[i]
  BY <1>2, <1>3, ConcatPlaces
<1> DEFINE Lasting(n) == l + d <= Len(Together(parts, n)) /\ \A i \in 1 .. l + d : Together(parts, n)[i] = c[i]
           T == {n \in Nat : n < k \/ Lasting(n)}
<1>10. ASSUME NEW n \in 0 .. m - 1
       PROVE  /\ Together(parts, n) \in Seq(S) /\ parts[n + 1] \in Seq(S)
              /\ Together(parts, n + 1) = Together(parts, n) \o parts[n + 1]
  <2>1. n + 1 \in 1 .. m /\ (n + 1) - 1 = n /\ n \in 0 .. m
    OBVIOUS
  <2>2. Together(parts, n + 1) = Together(parts, (n + 1) - 1) \o parts[n + 1]
    BY <1>11, <2>1
  <2> QED BY <1>11, <2>1, <2>2
<1>5. 0 \in T
  OBVIOUS
<1>6. \A n \in 0 .. m - 1 : n \in T => n + 1 \in T
  <2> SUFFICES ASSUME NEW n \in 0 .. m - 1, n < k \/ Lasting(n), ~(n + 1 < k) PROVE Lasting(n + 1)
    <3> HIDE DEF Lasting
    <3>1. \A n \in 0 .. m - 1 : n \in Nat /\ n + 1 \in Nat
      OBVIOUS
    <3> QED BY <3>1
  <2>1. CASE n + 1 = k
    BY <1>1, <1>4, <2>1
  <2>2. CASE n + 1 # k
    <3>1. n + 1 \in 1 .. m /\ (n + 1) - 1 = n /\ n \in 0 .. m /\ ~(n < k)
      BY <2>2
    <3>2. PICK e, p, f : e = Together(parts, n) /\ p = parts[n + 1] /\ f = Together(parts, n + 1)
      OBVIOUS
    <3>3. e \in Seq(S) /\ p \in Seq(S) /\ f = e \o p
      BY <1>10, <3>2
    <3>4. l + d <= Len(e) /\ \A i \in 1 .. l + d : e[i] = c[i]
      BY <3>1, <3>2
    <3>5. Len(f) = Len(e) + Len(p) /\ Len(e) \in Nat /\ Len(p) \in Nat /\ \A i \in 1 .. Len(e) : f[i] = e[i]
      BY <3>3, ConcatPlaces
    <3> QED BY <1>3, <3>2, <3>4, <3>5
  <2> QED BY <2>1, <2>2
<1> HIDE DEF T
<1>7. m \in T
  <2>1. 0 .. m \subseteq T
    BY <1>5, <1>6, UpToInduction
  <2> QED BY <2>1
<1>8. l + d <= Len(Together(parts, m)) /\ \A i \in 1 .. l + d : Together(parts, m)[i] = c[i]
  BY <1>7 DEF T
<1>9. \A i \in 1 .. d : Together(parts, m)[l + i] = b[i]
  BY <1>3, <1>4, <1>8
<1> QED BY <1>1, <1>3, <1>4, <1>8, <1>9 DEF PartInside

-----------------------------------------------------------------------------
(* The order of texts, division *)

\* The first n letters of two texts are the same, and no more.
Share(s, t, n) ==
    /\ n <= Len(s) /\ n <= Len(t)
    /\ \A i \in 1 .. n : s[i] = t[i]
    /\ n = Len(s) \/ n = Len(t) \/ s[n + 1] # t[n + 1]

LEMMA CommonPart ==
    ASSUME NEW s \in Seq(Int), NEW t \in Seq(Int)
    PROVE  \E n \in Nat : Share(s, t, n)
<1> DEFINE I == {n \in Nat : n <= Len(s) /\ n <= Len(t) /\ (n = Len(s) \/ n = Len(t) \/ s[n + 1] # t[n + 1])}
<1>1. Len(s) \in Nat /\ Len(t) \in Nat
  OBVIOUS
<1>2. I # {}
  <2>1. CASE Len(s) <= Len(t)
    <3>1. Len(s) \in I
      BY <1>1, <2>1
    <3> QED BY <3>1
  <2>2. CASE Len(t) <= Len(s)
    <3>1. Len(t) \in I
      BY <1>1, <2>2
    <3> QED BY <3>1
  <2> QED BY <1>1, <2>1, <2>2
<1>3. PICK n \in Nat : n \in I /\ \A k \in I : n <= k
  <2>1. I \in SUBSET Nat
    OBVIOUS
  <2> HIDE DEF I
  <2> QED BY <1>2, <2>1, LeastMember
<1>4. ASSUME NEW i \in 1 .. n PROVE s[i] = t[i]
  <2>1. i - 1 \in Nat /\ i - 1 < n /\ (i - 1) + 1 = i
    BY <1>3
  <2>2. i - 1 \notin I
    <3> HIDE DEF I
    <3> QED BY <1>3, <2>1
  <2> QED BY <1>1, <1>3, <2>1, <2>2
<1> QED BY <1>3, <1>4 DEF Share

\* The first letter that is different decides.
LEMMA LessAt ==
    ASSUME NEW s \in Seq(Int), NEW t \in Seq(Int), NEW n \in Nat, Share(s, t, n)
    PROVE  Less(s, t) <=> n < Len(t) /\ (n = Len(s) \/ s[n + 1] < t[n + 1])
<1> DEFINE shared == {i \in DOMAIN s \cap DOMAIN t : SubSeq(s, 1, i) = SubSeq(t, 1, i)}
<1>1. Len(s) \in Nat /\ Len(t) \in Nat /\ DOMAIN s = 1 .. Len(s) /\ DOMAIN t = 1 .. Len(t)
  OBVIOUS
<1>2. ASSUME NEW i \in 1 .. n PROVE i \in shared
  <2>0. n <= Len(s) /\ n <= Len(t) /\ \A k \in 1 .. n : s[k] = t[k]
    BY DEF Share
  <2>1. i \in DOMAIN s /\ i \in DOMAIN t
    BY <1>1, <2>0
  <2>2. SubSeq(s, 1, i) = SubSeq(t, 1, i)
    <3>1. 1 <= i + 1 /\ i <= Len(s) /\ i <= Len(t) /\ i \in Nat /\ \A k \in 1 .. i : s[k] = t[k]
      BY <1>1, <2>0
    <3>2. s \in Seq(Int) /\ t \in Seq(Int) /\ 1 \in Nat \ {0}
      OBVIOUS
    <3> QED BY ONLY <3>1, <3>2, SameStretch
  <2> QED BY <2>1, <2>2
<1>3. ASSUME NEW i \in shared PROVE i \in 1 .. n
  <2> SUFFICES ASSUME i > n PROVE FALSE
    BY <1>1
  <2>1. i \in Nat /\ i <= Len(s) /\ i <= Len(t) /\ n + 1 \in 1 .. i
    BY <1>1
  <2>2. s[n + 1] # t[n + 1]
    BY <2>1 DEF Share
  <2>3. SubSeq(s, 1, i)[n + 1] = s[n + 1] /\ SubSeq(t, 1, i)[n + 1] = t[n + 1]
    BY <1>1, <2>1
  <2> QED BY <2>2, <2>3
<1>4. shared = 1 .. n
  BY <1>2, <1>3
<1>5. Cardinality(1 .. n) = n
  BY FS_Interval
<1>6. Less(s, t) <=> Cardinality(shared) < Len(t) /\ (Cardinality(shared) = Len(s)
                        \/ s[Cardinality(shared) + 1] < t[Cardinality(shared) + 1])
  BY DEF Less
<1> HIDE DEF shared
<1> QED BY <1>4, <1>5, <1>6

LEMMA LessOrder ==
    ASSUME NEW r \in Seq(Int), NEW s \in Seq(Int), NEW t \in Seq(Int)
    PROVE  /\ ~Less(s, s)
           /\ Less(r, s) /\ Less(s, t) => Less(r, t)
           /\ Less(s, t) \/ Less(t, s) \/ s = t
<1>1. PICK m \in Nat : Share(r, s, m)
  BY CommonPart
<1>2. PICK n \in Nat : Share(s, t, n)
  BY CommonPart
<1>3. ~Less(s, s)
  <2>1. Len(s) \in Nat /\ Share(s, s, Len(s))
    BY DEF Share
  <2> QED BY <2>1, LessAt
<1>4. Less(r, s) /\ Less(s, t) => Less(r, t)
  <2> SUFFICES ASSUME Less(r, s), Less(s, t) PROVE Less(r, t)
    OBVIOUS
  <2>1. m < Len(s) /\ (m = Len(r) \/ r[m + 1] < s[m + 1])
    BY <1>1, LessAt
  <2>2. n < Len(t) /\ (n = Len(s) \/ s[n + 1] < t[n + 1])
    BY <1>2, LessAt
  <2>3. Len(r) \in Nat /\ Len(s) \in Nat /\ Len(t) \in Nat
    OBVIOUS
  <2>4. ASSUME NEW i \in 1 .. m, i \in 1 .. n PROVE r[i] = t[i]
    BY <1>1, <1>2, <2>4 DEF Share
  <2>5. CASE m < n
    <3>1. s[m + 1] = t[m + 1] /\ s[m + 1] \in Int
      <4>1. m + 1 \in 1 .. n /\ m + 1 \in 1 .. Len(s)
        BY <2>1, <2>3, <2>5
      <4> QED BY <1>2, <4>1 DEF Share
    <3>2. m < Len(t) /\ m <= Len(r)
      BY <1>1, <2>2, <2>3, <2>5 DEF Share
    <3>3. m = Len(r) \/ (r[m + 1] < t[m + 1] /\ r[m + 1] \in Int)
      <4>1. m # Len(r) => m + 1 \in 1 .. Len(r)
        BY <2>3, <3>2
      <4> QED BY <2>1, <3>1, <4>1
    <3>4. Share(r, t, m)
      <4>1. \A i \in 1 .. m : r[i] = t[i]
        BY <2>4, <2>5
      <4> QED BY <3>1, <3>2, <3>3, <4>1 DEF Share
    <3> QED BY <3>2, <3>3, <3>4, LessAt
  <2>6. CASE m = n
    <3>1. m < Len(t) /\ m <= Len(r) /\ s[m + 1] < t[m + 1]
      BY <1>1, <2>1, <2>2, <2>6 DEF Share
    <3>2. s[m + 1] \in Int /\ t[m + 1] \in Int
      BY <2>1, <2>3, <3>1
    <3>3. m = Len(r) \/ (r[m + 1] < t[m + 1] /\ r[m + 1] \in Int)
      <4>1. m # Len(r) => m + 1 \in 1 .. Len(r)
        BY <2>3, <3>1
      <4> QED BY <2>1, <3>1, <3>2, <4>1
    <3>4. Share(r, t, m)
      <4>1. \A i \in 1 .. m : r[i] = t[i]
        BY <2>4, <2>6
      <4> QED BY <2>6, <3>1, <3>2, <3>3, <4>1 DEF Share
    <3> QED BY <3>1, <3>3, <3>4, LessAt
  <2>7. CASE m > n
    <3>1. n + 1 \in 1 .. m /\ n < Len(r) /\ n < Len(t)
      BY <1>1, <2>2, <2>3, <2>7 DEF Share
    <3>2. r[n + 1] = s[n + 1]
      BY <1>1, <3>1 DEF Share
    <3>3. s[n + 1] < t[n + 1] /\ s[n + 1] \in Int /\ t[n + 1] \in Int
      BY <2>1, <2>2, <2>3, <2>7
    <3>4. Share(r, t, n)
      <4>1. \A i \in 1 .. n : r[i] = t[i]
        BY <2>4, <2>7
      <4> QED BY <3>1, <3>2, <3>3, <4>1 DEF Share
    <3> QED BY <3>1, <3>2, <3>3, <3>4, LessAt
  <2> QED BY <2>5, <2>6, <2>7
<1>5. Less(s, t) \/ Less(t, s) \/ s = t
  <2>1. Len(s) \in Nat /\ Len(t) \in Nat /\ n <= Len(s) /\ n <= Len(t)
    BY <1>2 DEF Share
  <2>2. Share(t, s, n)
    BY <1>2 DEF Share
  <2>3. Less(s, t) <=> n < Len(t) /\ (n = Len(s) \/ s[n + 1] < t[n + 1])
    BY <1>2, LessAt
  <2>4. Less(t, s) <=> n < Len(s) /\ (n = Len(t) \/ t[n + 1] < s[n + 1])
    BY <2>2, LessAt
  <2>5. CASE n = Len(s) /\ n = Len(t)
    <3>1. \A i \in 1 .. Len(s) : s[i] = t[i]
      BY <1>2, <2>5 DEF Share
    <3>2. s = t
      <4>1. Len(s) = Len(t) /\ s \in Seq(Int) /\ t \in Seq(Int)
        BY <2>5
      <4> QED BY <3>1, <4>1, SeqEqual
    <3> QED BY <3>2
  <2>6. CASE n < Len(s) /\ n < Len(t)
    <3>1. s[n + 1] \in Int /\ t[n + 1] \in Int /\ s[n + 1] # t[n + 1]
      BY <1>2, <2>1, <2>6 DEF Share
    <3> QED BY <2>3, <2>4, <2>6, <3>1
  <2> QED BY <2>1, <2>3, <2>4, <2>5, <2>6
<1> QED BY <1>3, <1>4, <1>5

LEMMA TextsAssociate ==
    ASSUME NEW r \in Seq(Int), NEW s \in Seq(Int), NEW t \in Seq(Int)
    PROVE  (r \o s) \o t = r \o (s \o t)
BY ConcatAssociative, SMTT(30)

\* What is left of a division has the sign of what was divided.
LEMMA QuotientRest ==
    ASSUME NEW n \in Int, NEW d \in Nat \ {0}, NEW rest, rest = n - Quotient(n, d) * d
    PROVE  rest \in 1 - d .. d - 1 /\ rest * n >= 0 /\ Quotient(n, d) \in Int
<1>1. ASSUME NEW m \in Nat PROVE (m \div d) \in Int /\ m - (m \div d) * d \in 0 .. d - 1
  OBVIOUS
<1>2. CASE n < 0
  <2> DEFINE m == -n
             q == m \div d
  <2>1. m \in Nat /\ q \in Int /\ m - q * d \in 0 .. d - 1
    BY <1>1, <1>2
  <2>2. Quotient(n, d) = -q
    BY <1>2 DEF Quotient
  <2> HIDE DEF q
  <2>3. (-q) * d = -(q * d)
    BY <2>1
  <2>4. rest = -(m - q * d)
    BY <2>1, <2>2, <2>3
  <2>5. rest \in 1 - d .. 0
    BY <2>1, <2>4
  <2>6. ASSUME NEW a \in Int, a <= 0 PROVE a * n >= 0
    BY <1>2, <2>6
  <2> QED BY <2>1, <2>2, <2>5, <2>6
<1>3. CASE n >= 0
  <2> DEFINE q == n \div d
  <2>1. n \in Nat /\ q \in Int /\ n - q * d \in 0 .. d - 1
    BY <1>1, <1>3
  <2>2. Quotient(n, d) = q
    BY <1>3 DEF Quotient
  <2> HIDE DEF q
  <2>3. rest \in 0 .. d - 1
    BY <2>1, <2>2
  <2>4. ASSUME NEW a \in Int, a >= 0 PROVE a * n >= 0
    BY <1>3, <2>4
  <2> QED BY <2>1, <2>2, <2>3, <2>4
<1> QED BY <1>2, <1>3
=============================================================================
