---------------------------- MODULE CsvHtProofs -----------------------------
(***************************************************************************)
(* The hash table for any keys, hash function, initial size and calls: it  *)
(* holds every value once, and a lookup finds all of them but at most one, *)
(* the one whose insertion made the table grow.                            *)
(***************************************************************************)
EXTENDS CsvHt, SeqLemmas, FiniteSetTheorems, FunctionTheorems, TLAPS

\* The entries of a table, by the values created: one for each cell.
Stored == {[key |-> cells[c].key, cell |-> c] : c \in DOMAIN cells}

Entry == [key : Keys, cell : Nat \ {0}]

Distinct(s) == \A m, n \in 1 .. Len(s) : s[m].cell = s[n].cell => m = n

\* The buckets of a table, with a chain of entries for each.
Bkts(t) == 0 .. t.size - 1
Shaped(t) == t.size \in Nat \ {0} /\ t.kvs \in [Bkts(t) -> Seq(Entry)]

\* A table that holds each of a set of entries once, in any bucket.
Sound(t, held) ==
    /\ Shaped(t)
    /\ \A b \in Bkts(t) : Distinct(t.kvs[b]) /\ ToSet(t.kvs[b]) \subseteq held
    /\ \A e \in held : \E b \in Bkts(t) : e \in ToSet(t.kvs[b])
    /\ \A b, d \in Bkts(t) : b # d =>
          \A e \in ToSet(t.kvs[b]), f \in ToSet(t.kvs[d]) : e.cell # f.cell

Occupied(t) == {h \in DOMAIN t.kvs : t.kvs[h] # <<>>}

\* ... with n entries, of which the first of each bucket is no collision
Counted(t, n) ==
    /\ t.used \in Nat /\ t.collisions \in Nat
    /\ t.collisions = n - Cardinality(Occupied(t))

Home(t, e) == hash[e.key] % t.size

Astray(t, e) == \E b \in Bkts(t) : e \in ToSet(t.kvs[b]) /\ b # Home(t, e)

Typed ==
    /\ hash \in [Keys -> 0 .. MaxHash]
    /\ cells \in Seq([key : Keys, value : Nat])
    /\ calls \in [Keys -> Nat] /\ stale \subseteq Keys

\* An entry that a lookup of its key does not find made the table grow; there is at most one.
StraysStale == \A e \in Stored : Astray(ht, e) => e.key \in stale
OneStray == \A e, f \in Stored : Astray(ht, e) /\ Astray(ht, f) => e = f

\* The other keys have at most one value, which counts the calls.
CountersRight ==
    \A k \in Keys \ stale :
        /\ \A c, d \in DOMAIN cells : cells[c].key = k /\ cells[d].key = k => c = d
        /\ \A c \in DOMAIN cells : cells[c].key = k => cells[c].value = calls[k]
        /\ (\A c \in DOMAIN cells : cells[c].key # k) => calls[k] = 0
        /\ result.key = k => result.value = calls[k]

\* The inductive invariant.
HtInv ==
    /\ Typed
    /\ Sound(ht, Stored) /\ Counted(ht, Len(cells))
    /\ StraysStale /\ OneStray /\ CountersRight

-----------------------------------------------------------------------------
(* Chains *)

\* linkin() puts the entry behind the first of the chain.
LEMMA ChainLinked ==
    ASSUME NEW s \in Seq(Entry), NEW e \in Entry, s # <<>>
    PROVE  LET new == <<Head(s), e>> \o Tail(s)
           IN  /\ new \in Seq(Entry) /\ Len(new) = Len(s) + 1
               /\ new[1] = s[1] /\ new[2] = e
               /\ \A n \in 3 .. Len(s) + 1 : new[n] = s[n - 1]
<1> DEFINE a == <<Head(s), e>>
           b == Tail(s)
<1>1. /\ Head(s) = s[1] /\ s[1] \in Entry /\ Len(s) \in Nat /\ Len(s) >= 1
      /\ b \in Seq(Entry) /\ Len(b) = Len(s) - 1
      /\ \A n \in 1 .. Len(s) - 1 : b[n] = s[n + 1]
  OBVIOUS
<1>2. a \in Seq(Entry) /\ Len(a) = 2 /\ a[1] = Head(s) /\ a[2] = e
  BY <1>1
<1> HIDE DEF a, b
<1>3. /\ a \o b \in Seq(Entry) /\ Len(a \o b) = 2 + Len(b)
      /\ \A n \in 1 .. 2 + Len(b) : (a \o b)[n] = IF n <= 2 THEN a[n] ELSE b[n - 2]
  <2>1. /\ a \o b \in Seq(Entry) /\ Len(a \o b) = Len(a) + Len(b)
        /\ \A n \in 1 .. Len(a) + Len(b) : (a \o b)[n] = IF n <= Len(a) THEN a[n] ELSE b[n - Len(a)]
    BY <1>1, <1>2, ConcatProperties
  <2> QED BY <2>1, <1>2
<1>4. ASSUME NEW n \in 3 .. Len(s) + 1 PROVE (a \o b)[n] = s[n - 1]
  <2>1. n \in 1 .. 2 + Len(b) /\ ~(n <= 2) /\ n - 2 \in 1 .. Len(s) - 1 /\ (n - 2) + 1 = n - 1
    BY <1>1
  <2> QED BY <2>1, <1>3, <1>1
<1>5. (a \o b)[1] = s[1] /\ (a \o b)[2] = e
  BY <1>1, <1>2, <1>3
<1>6. Len(a \o b) = Len(s) + 1
  BY <1>1, <1>3
<1> QED BY <1>3, <1>4, <1>5, <1>6 DEF a, b

\* ... and so adds the entry to the chain, which has each cell once as before.
LEMMA ChainGrows ==
    ASSUME NEW s \in Seq(Entry), NEW e \in Entry
    PROVE  LET new == IF s = <<>> THEN <<e>> ELSE <<Head(s), e>> \o Tail(s)
           IN  /\ new \in Seq(Entry) /\ new # <<>>
               /\ ToSet(new) = ToSet(s) \cup {e}
               /\ Distinct(s) /\ (\A f \in ToSet(s) : f.cell # e.cell) => Distinct(new)
<1> DEFINE new == IF s = <<>> THEN <<e>> ELSE <<Head(s), e>> \o Tail(s)
<1>1. CASE s = <<>>
  <2>1. new = <<e>>
    BY <1>1
  <2> HIDE DEF new
  <2>2. new \in Seq(Entry) /\ new # <<>> /\ Len(new) = 1 /\ DOMAIN new = {1} /\ new[1] = e
    BY <2>1
  <2>3. ToSet(s) = {}
    BY <1>1 DEF ToSet
  <2>4. ToSet(new) = {e}
    BY <2>2 DEF ToSet
  <2>5. Distinct(new)
    BY <2>2 DEF Distinct
  <2> QED BY <2>2, <2>3, <2>4, <2>5 DEF new
<1>2. CASE s # <<>>
  <2>1. /\ new \in Seq(Entry) /\ Len(new) = Len(s) + 1
        /\ new[1] = s[1] /\ new[2] = e
        /\ \A n \in 3 .. Len(s) + 1 : new[n] = s[n - 1]
    BY <1>2, ChainLinked
  <2> HIDE DEF new
  <2>2. Len(s) \in Nat /\ Len(s) >= 1 /\ DOMAIN s = 1 .. Len(s)
    BY <1>2
  <2>3. DOMAIN new = 1 .. Len(s) + 1
    BY <2>1, <2>2
  <2> DEFINE old(n) == IF n = 1 THEN 1 ELSE n - 1
             at(m) == IF m = 1 THEN 1 ELSE m + 1
  <2>4. \A n \in 1 .. Len(s) + 1 : n # 2 => old(n) \in 1 .. Len(s) /\ new[n] = s[old(n)]
    <3> SUFFICES ASSUME NEW n \in 1 .. Len(s) + 1, n # 2
                 PROVE  old(n) \in 1 .. Len(s) /\ new[n] = s[old(n)]
      OBVIOUS
    <3>1. CASE n = 1
      BY <3>1, <2>1, <2>2
    <3>2. CASE n # 1
      <4>1. n \in 3 .. Len(s) + 1 /\ old(n) = n - 1 /\ n - 1 \in 1 .. Len(s)
        BY <3>2, <2>2
      <4> QED BY <4>1, <2>1
    <3> QED BY <3>1, <3>2
  <2>5. \A m \in 1 .. Len(s) : at(m) \in 1 .. Len(s) + 1 /\ at(m) # 2 /\ old(at(m)) = m
    BY <2>2
  <2>6. \A m, n \in 1 .. Len(s) + 1 : m # 2 /\ n # 2 /\ old(m) = old(n) => m = n
    BY <2>2
  <2>7. 2 \in 1 .. Len(s) + 1
    BY <2>2
  <2> HIDE DEF old, at
  <2>8. ToSet(new) = ToSet(s) \cup {e}
    <3>1. \A m \in 1 .. Len(s) : new[at(m)] = s[m]
      BY <2>4, <2>5
    <3>2. ToSet(s) \cup {e} \subseteq ToSet(new)
      BY ONLY <3>1, <2>1, <2>2, <2>3, <2>5, <2>7 DEF ToSet
    <3>3. ASSUME NEW n \in 1 .. Len(s) + 1 PROVE new[n] \in ToSet(s) \cup {e}
      BY ONLY <2>1, <2>2, <2>4 DEF ToSet
    <3>4. ToSet(new) \subseteq ToSet(s) \cup {e}
      BY ONLY <3>3, <2>3 DEF ToSet
    <3> QED BY <3>2, <3>4
  <2>9. ASSUME Distinct(s), \A f \in ToSet(s) : f.cell # e.cell
        PROVE  Distinct(new)
    <3> SUFFICES ASSUME NEW m \in 1 .. Len(s) + 1, NEW n \in 1 .. Len(s) + 1,
                        new[m].cell = new[n].cell
                 PROVE  m = n
      BY <2>1 DEF Distinct
    <3>1. \A k \in 1 .. Len(s) + 1 : k # 2 => new[k].cell # e.cell
      BY <2>2, <2>4, <2>9 DEF ToSet
    <3>2. m = 2 <=> n = 2
      BY <2>1, <3>1
    <3>3. CASE m # 2 /\ n # 2
      <4>1. old(m) = old(n)
        BY <2>4, <2>9, <3>3 DEF Distinct
      <4> QED BY <4>1, <2>6, <3>3
    <3> QED BY <3>2, <3>3
  <2>10. new # <<>>
    BY <2>1, <2>2
  <2> QED BY <2>1, <2>8, <2>9, <2>10 DEF new
<1> QED BY <1>1, <1>2

-----------------------------------------------------------------------------
(* Tables *)

\* Table u is table t with one more entry in bucket h.
Grown(t, h, e, u) ==
    /\ u.size = t.size /\ u.used = t.used + 1
    /\ u.collisions = IF t.kvs[h] = <<>> THEN t.collisions ELSE t.collisions + 1
    /\ u.kvs \in [Bkts(t) -> Seq(Entry)]
    /\ \A b \in Bkts(t) : b # h => u.kvs[b] = t.kvs[b]
    /\ u.kvs[h] # <<>> /\ ToSet(u.kvs[h]) = ToSet(t.kvs[h]) \cup {e}
    /\ Distinct(t.kvs[h]) /\ (\A f \in ToSet(t.kvs[h]) : f.cell # e.cell) => Distinct(u.kvs[h])

\* Linkin() changes one chain, and grows it.
LEMMA LinkinGrows ==
    ASSUME NEW t, NEW h \in Bkts(t), NEW e \in Entry, Shaped(t)
    PROVE  Grown(t, h, e, Linkin(t, h, e))
<1> DEFINE s == t.kvs[h]
           new == IF s = <<>> THEN <<e>> ELSE <<Head(s), e>> \o Tail(s)
           u == Linkin(t, h, e)
<1>1. s \in Seq(Entry)
  BY DEF Shaped
<1>2. /\ u.size = t.size /\ u.used = t.used + 1
      /\ u.collisions = IF s = <<>> THEN t.collisions ELSE t.collisions + 1
      /\ u.kvs = [t.kvs EXCEPT ![h] = new]
  BY DEF Linkin
<1>3. /\ new \in Seq(Entry) /\ new # <<>>
      /\ ToSet(new) = ToSet(s) \cup {e}
      /\ Distinct(s) /\ (\A f \in ToSet(s) : f.cell # e.cell) => Distinct(new)
  BY <1>1, ChainGrows
<1> HIDE DEF new, u
<1>4. /\ u.kvs \in [Bkts(t) -> Seq(Entry)]
      /\ u.kvs[h] = new /\ \A b \in Bkts(t) : b # h => u.kvs[b] = t.kvs[b]
  BY <1>2, <1>3 DEF Shaped
<1>5. Grown(t, h, e, u)
  BY <1>2, <1>3, <1>4 DEF Grown
<1> QED BY <1>5 DEF u

\* A sound table to which an entry with a cell of its own is added, in whatever bucket,
\* is sound.
LEMMA LinkinSound ==
    ASSUME NEW t, NEW held, Sound(t, held), NEW h \in Bkts(t), NEW e \in Entry,
           \A f \in held : f.cell # e.cell
    PROVE  Sound(Linkin(t, h, e), held \cup {e})
<1> DEFINE u == Linkin(t, h, e)
           B == Bkts(t)
<1>1. /\ Shaped(t)
      /\ \A b \in B : Distinct(t.kvs[b]) /\ ToSet(t.kvs[b]) \subseteq held
      /\ \A f \in held : \E b \in B : f \in ToSet(t.kvs[b])
      /\ \A b, d \in B : b # d =>
            \A f \in ToSet(t.kvs[b]), g \in ToSet(t.kvs[d]) : f.cell # g.cell
  BY DEF Sound
<1>2. \A b \in B : \A f \in ToSet(t.kvs[b]) : f.cell # e.cell
  BY <1>1
<1>3. /\ u.size = t.size /\ u.kvs \in [Bkts(t) -> Seq(Entry)]
      /\ \A b \in B : b # h => u.kvs[b] = t.kvs[b]
      /\ ToSet(u.kvs[h]) = ToSet(t.kvs[h]) \cup {e}
      /\ Distinct(u.kvs[h])
  <2>1. Grown(t, h, e, u)
    BY <1>1, LinkinGrows
  <2> HIDE DEF u
  <2> QED BY <2>1, <1>1, <1>2 DEF Grown
<1> HIDE DEF u
<1>4. \A b \in B : ToSet(u.kvs[b]) = IF b = h THEN ToSet(t.kvs[b]) \cup {e} ELSE ToSet(t.kvs[b])
  BY <1>3
<1>5. \A b \in B : Distinct(u.kvs[b])
  BY <1>1, <1>3
<1> HIDE DEF B
<1>6. \A b \in B : ToSet(u.kvs[b]) \subseteq held \cup {e}
  BY <1>1, <1>4
<1>7. h \in B
  BY DEF B
<1>8. \A f \in held \cup {e} : \E b \in B : f \in ToSet(u.kvs[b])
  BY <1>1, <1>4, <1>7
<1>9. \A b, d \in B : b # d =>
            \A f \in ToSet(u.kvs[b]), g \in ToSet(u.kvs[d]) : f.cell # g.cell
  <2> SUFFICES ASSUME NEW b \in B, NEW d \in B, b # d,
                      NEW f \in ToSet(u.kvs[b]), NEW g \in ToSet(u.kvs[d])
               PROVE  f.cell # g.cell
    OBVIOUS
  <2>1. f \in ToSet(t.kvs[b]) \/ (b = h /\ f = e)
    BY <1>4
  <2>2. g \in ToSet(t.kvs[d]) \/ (d = h /\ g = e)
    BY <1>4
  <2> QED BY <2>1, <2>2, <1>1, <1>2
<1> QED BY <1>1, <1>3, <1>5, <1>6, <1>8, <1>9 DEF Sound, Shaped, Bkts, u, B

\* ... and its counts are right.
LEMMA LinkinCounted ==
    ASSUME NEW t, NEW held, Sound(t, held), NEW n \in Nat, Counted(t, n),
           NEW h \in Bkts(t), NEW e \in Entry
    PROVE  Counted(Linkin(t, h, e), n + 1)
<1> DEFINE u == Linkin(t, h, e)
<1>1. Shaped(t)
  BY DEF Sound
<1>2. /\ u.used = t.used + 1
      /\ u.collisions = IF t.kvs[h] = <<>> THEN t.collisions ELSE t.collisions + 1
      /\ u.kvs \in [Bkts(t) -> Seq(Entry)]
      /\ \A b \in Bkts(t) : b # h => u.kvs[b] = t.kvs[b]
      /\ u.kvs[h] # <<>>
  <2>1. Grown(t, h, e, u)
    BY <1>1, LinkinGrows
  <2> HIDE DEF u
  <2> QED BY <2>1 DEF Grown
<1> HIDE DEF u
<1>3. Occupied(u) = Occupied(t) \cup {h}
  BY <1>1, <1>2 DEF Occupied, Shaped
<1>4. IsFiniteSet(Bkts(t)) /\ Occupied(t) \in SUBSET (Bkts(t))
  <2>1. t.size - 1 \in Int /\ 0 \in Int
    BY <1>1 DEF Shaped
  <2>2. IsFiniteSet(Bkts(t))
    BY <2>1, FS_Interval DEF Bkts
  <2> QED BY <2>2, <1>1 DEF Occupied, Shaped
<1>5. IsFiniteSet(Occupied(t))
  BY <1>4, FS_Subset
<1>6. Cardinality(Occupied(u)) = IF h \in Occupied(t) THEN Cardinality(Occupied(t))
                                 ELSE Cardinality(Occupied(t)) + 1
  BY <1>3, <1>5, FS_AddElement
<1>7. h \in Occupied(t) <=> t.kvs[h] # <<>>
  BY <1>1 DEF Occupied, Shaped
<1>8. Cardinality(Occupied(t)) \in Nat
  BY <1>5, FS_CardinalityType
<1>9. t.used \in Nat /\ t.collisions \in Nat /\ t.collisions = n - Cardinality(Occupied(t))
  BY DEF Counted
<1>10. u.collisions = n + 1 - Cardinality(Occupied(u))
  BY <1>2, <1>6, <1>7, <1>8, <1>9
<1>11. u.used \in Nat /\ u.collisions \in Nat
  BY <1>2, <1>9
<1>12. Counted(u, n + 1)
  <2>1. Cardinality(Occupied(u)) \in Int
    BY <1>6, <1>8
  <2> QED BY <2>1, <1>10, <1>11 DEF Counted
<1> QED BY <1>12 DEF u

\* Two chains without a cell in common make one that has each cell once.
LEMMA ConcatDistinct ==
    ASSUME NEW s \in Seq(Entry), NEW r \in Seq(Entry), Distinct(s), Distinct(r),
           \A e \in ToSet(s), f \in ToSet(r) : e.cell # f.cell
    PROVE  /\ s \o r \in Seq(Entry) /\ Distinct(s \o r)
           /\ ToSet(s \o r) = ToSet(s) \cup ToSet(r)
<1> DEFINE a == Len(s)
           b == Len(r)
           q == s \o r
<1>1. /\ q \in Seq(Entry) /\ Len(q) = a + b
      /\ \A n \in 1 .. a + b : q[n] = IF n <= a THEN s[n] ELSE r[n - a]
  BY ConcatProperties
<1>2. /\ a \in Nat /\ b \in Nat /\ DOMAIN s = 1 .. a /\ DOMAIN r = 1 .. b /\ DOMAIN q = 1 .. a + b
      /\ Len(s) = a /\ Len(r) = b
  BY <1>1
<1> HIDE DEF q, a, b
<1>3. \A n \in 1 .. a + b :
          \/ n \in 1 .. a /\ q[n] = s[n]
          \/ n - a \in 1 .. b /\ n > a /\ q[n] = r[n - a]
  BY <1>1, <1>2
<1>4. ToSet(q) \subseteq ToSet(s) \cup ToSet(r)
  <2>1. ASSUME NEW n \in 1 .. a + b PROVE q[n] \in ToSet(s) \cup ToSet(r)
    <3>1. \A m \in 1 .. a : s[m] \in ToSet(s)
      BY <1>2 DEF ToSet
    <3>2. \A m \in 1 .. b : r[m] \in ToSet(r)
      BY <1>2 DEF ToSet
    <3> QED BY <1>3, <3>1, <3>2
  <2> QED BY ONLY <2>1, <1>2 DEF ToSet
<1>5. \A n \in 1 .. a : n \in 1 .. a + b /\ q[n] = s[n]
  BY <1>1, <1>2
<1>6. \A n \in 1 .. b : n + a \in 1 .. a + b /\ q[n + a] = r[n]
  BY <1>1, <1>2
<1>7. ToSet(s) \cup ToSet(r) \subseteq ToSet(q)
  <2>1. \A n \in 1 .. a + b : q[n] \in ToSet(q)
    BY <1>2 DEF ToSet
  <2>2. \A n \in 1 .. a : s[n] \in ToSet(q)
    BY <2>1, <1>5
  <2>3. \A n \in 1 .. b : r[n] \in ToSet(q)
    BY <2>1, <1>6
  <2>4. ToSet(s) \subseteq ToSet(q)
    <3>1. \A e \in ToSet(s) : \E n \in 1 .. a : e = s[n]
      BY ONLY <1>2 DEF ToSet
    <3> QED BY <3>1, <2>2
  <2>5. ToSet(r) \subseteq ToSet(q)
    <3>1. \A e \in ToSet(r) : \E n \in 1 .. b : e = r[n]
      BY ONLY <1>2 DEF ToSet
    <3> QED BY <3>1, <2>3
  <2> QED BY <2>4, <2>5
<1>8. Distinct(q)
  <2> SUFFICES ASSUME NEW m \in 1 .. a + b, NEW n \in 1 .. a + b, q[m].cell = q[n].cell
               PROVE  m = n
    BY <1>1 DEF Distinct
  <2>1. \A k \in 1 .. a : s[k] \in ToSet(s)
    BY <1>2 DEF ToSet
  <2>2. \A k \in 1 .. b : r[k] \in ToSet(r)
    BY <1>2 DEF ToSet
  <2>3. CASE m \in 1 .. a /\ q[m] = s[m]
    <3>1. n \in 1 .. a /\ q[n] = s[n]
      BY <1>3, <2>1, <2>2, <2>3
    <3> QED BY <2>3, <3>1, <1>2 DEF Distinct
  <2>4. CASE m - a \in 1 .. b /\ m > a /\ q[m] = r[m - a]
    <3>1. n - a \in 1 .. b /\ n > a /\ q[n] = r[n - a]
      BY <1>3, <2>1, <2>2, <2>4
    <3>2. m - a = n - a
      BY <2>4, <3>1, <1>2 DEF Distinct
    <3> QED BY <3>2, <1>2
  <2> QED BY <1>3, <2>3, <2>4
<1> QED BY <1>1, <1>4, <1>7, <1>8 DEF q

\* Entries() of a sound table are what it holds, each once.
LEMMA EntriesRight ==
    ASSUME NEW t, NEW held, Sound(t, held)
    PROVE  Entries(t) \in Seq(Entry) /\ Distinct(Entries(t)) /\ ToSet(Entries(t)) = held
<1> DEFINE seqs == [b \in 1 .. t.size |-> t.kvs[b - 1]]
<1>1. /\ t.size \in Nat \ {0} /\ \A b \in Bkts(t) : t.kvs[b] \in Seq(Entry)
      /\ \A b \in Bkts(t) : Distinct(t.kvs[b]) /\ ToSet(t.kvs[b]) \subseteq held
      /\ \A e \in held : \E b \in Bkts(t) : e \in ToSet(t.kvs[b])
      /\ \A b, d \in Bkts(t) : b # d =>
            \A e \in ToSet(t.kvs[b]), f \in ToSet(t.kvs[d]) : e.cell # f.cell
  BY DEF Sound, Shaped
<1>2. Len(seqs) = t.size
  BY <1>1
<1>3. \A k \in 1 .. t.size : k - 1 \in Bkts(t) /\ seqs[k] = t.kvs[k - 1]
  BY <1>1 DEF Bkts
<1>4. Entries(t) = FlattenSeq(seqs)
  BY DEF Entries
<1> HIDE DEF seqs
<1>5. PICK f : Joins(f, seqs) /\ FlattenSeq(seqs) = f[t.size]
  BY <1>1, <1>2, FlattenJoins
<1> DEFINE Upto(k) == UNION {ToSet(t.kvs[b]) : b \in 0 .. k - 1}
           T == {k \in Nat : k \in 1 .. t.size =>
                     f[k] \in Seq(Entry) /\ Distinct(f[k]) /\ ToSet(f[k]) = Upto(k)}
<1>6. 0 \in T
  OBVIOUS
<1>7. ASSUME NEW k \in Nat, k \in T PROVE k + 1 \in T
  <2> SUFFICES ASSUME k + 1 \in 1 .. t.size
               PROVE  /\ f[k + 1] \in Seq(Entry) /\ Distinct(f[k + 1])
                      /\ ToSet(f[k + 1]) = Upto(k + 1)
    OBVIOUS
  <2>1. k \in Bkts(t) /\ seqs[k + 1] = t.kvs[k]
    BY <1>3
  <2>2. f[k + 1] = JoinedOn(f, seqs, k + 1)
    BY <1>2, <1>5 DEF Joins
  <2>3. CASE k = 0
    <3>1. f[k + 1] = t.kvs[k]
      BY <2>1, <2>2, <2>3 DEF JoinedOn
    <3>2. Upto(k + 1) = ToSet(t.kvs[k])
      BY <2>3
    <3> HIDE DEF Upto
    <3> QED BY <1>1, <2>1, <3>1, <3>2
  <2>4. CASE k # 0
    <3>1. k \in 1 .. t.size
      BY <2>4, <1>1
    <3>2. f[k] \in Seq(Entry) /\ Distinct(f[k]) /\ ToSet(f[k]) = Upto(k)
      BY <3>1, <1>7
    <3>3. f[k + 1] = f[k] \o t.kvs[k]
      <4>1. (k + 1) - 1 = k /\ k + 1 # 1
        BY <2>4
      <4> QED BY <4>1, <2>1, <2>2 DEF JoinedOn
    <3>4. \A b \in 0 .. k - 1 : b \in Bkts(t) /\ b # k
      BY <3>1, <1>1 DEF Bkts
    <3>5. \A e \in Upto(k) : \E b \in Bkts(t) : b # k /\ e \in ToSet(t.kvs[b])
      BY <3>4
    <3>6. Upto(k + 1) = Upto(k) \cup ToSet(t.kvs[k])
      <4>1. \A b : b \in 0 .. (k + 1) - 1 <=> b \in 0 .. k - 1 \/ b = k
        OBVIOUS
      <4> QED BY <4>1
    <3> HIDE DEF Upto
    <3>7. \A e \in ToSet(f[k]), g \in ToSet(t.kvs[k]) : e.cell # g.cell
      BY <3>2, <3>5, <2>1, <1>1
    <3>8. /\ f[k] \o t.kvs[k] \in Seq(Entry) /\ Distinct(f[k] \o t.kvs[k])
          /\ ToSet(f[k] \o t.kvs[k]) = ToSet(f[k]) \cup ToSet(t.kvs[k])
      BY <3>2, <3>7, <2>1, <1>1, ConcatDistinct
    <3> QED BY <3>2, <3>3, <3>6, <3>8
  <2> QED BY <2>3, <2>4
<1>8. Nat \subseteq T
  <2> HIDE DEF T
  <2> QED BY <1>6, <1>7, NatSetInduction
<1>9. t.size \in Nat /\ t.size \in 1 .. t.size
  BY <1>1
<1>10. f[t.size] \in Seq(Entry) /\ Distinct(f[t.size]) /\ ToSet(f[t.size]) = Upto(t.size)
  BY <1>8, <1>9
<1>11. Upto(t.size) = held
  BY <1>1 DEF Bkts
<1> HIDE DEF Upto
<1> QED BY <1>4, <1>5, <1>10, <1>11

\* resize() inserts the entries one after the other.
LEMMA ResizeByStep ==
    ASSUME NEW t, Entries(t) \in Seq(Entry)
    PROVE  \E f : /\ f[0] = Emptied(t, 2 * t.size)
                  /\ \A k \in 1 .. Len(Entries(t)) : f[k] = Insert(hash, f[k - 1], Entries(t)[k])
                  /\ Resize(hash, t) = f[Len(Entries(t))]
<1> DEFINE es == Entries(t)
           l == Len(es)
           G(f, k) == IF k = 0 THEN Emptied(t, 2 * t.size) ELSE Insert(hash, f[k - 1], es[k])
           Upto(f, m) == [k \in 0 .. m |-> G(f, k)]
           T == {m \in Nat : \E f : f = Upto(f, m)}
<1>0. l \in Nat
  OBVIOUS
<1>1. 0 \in T
  <2> DEFINE f == [k \in 0 .. 0 |-> Emptied(t, 2 * t.size)]
  <2>1. f = Upto(f, 0)
    OBVIOUS
  <2> HIDE DEF f, Upto
  <2> QED BY <2>1
<1>2. ASSUME NEW m \in Nat, m \in T PROVE m + 1 \in T
  <2>1. PICK f : f = Upto(f, m)
    BY <1>2
  <2> HIDE DEF es
  <2> DEFINE last == G(f, m + 1)
             g == [k \in 0 .. m + 1 |-> IF k <= m THEN f[k] ELSE last]
  <2>2. \A k \in 0 .. m + 1 : g[k] = G(g, k)
    <3> TAKE k \in 0 .. m + 1
    <3>1. k # 0 => k - 1 \in 0 .. m /\ k - 1 <= m /\ k - 1 \in 0 .. m + 1
      OBVIOUS
    <3>2. k # 0 => g[k - 1] = f[k - 1]
      BY <3>1
    <3>3. G(g, k) = G(f, k)
      <4> HIDE DEF g
      <4> QED BY <3>2
    <3>4. CASE k <= m
      <4>1. f[k] = G(f, k)
        <5>1. Upto(f, m)[k] = G(f, k)
          BY <3>4
        <5> HIDE DEF Upto, G
        <5> QED BY <2>1, <5>1
      <4>2. g[k] = f[k]
        BY <3>4
      <4> HIDE DEF g, G
      <4> QED BY <3>3, <4>1, <4>2
    <3>5. CASE k = m + 1
      <4>1. g[k] = last
        BY <3>5
      <4>2. last = G(f, k)
        BY <3>5
      <4> HIDE DEF g, G, last
      <4> QED BY <3>3, <4>1, <4>2
    <3> QED BY <3>4, <3>5
  <2>3. g = Upto(g, m + 1)
    <3>1. g = [k \in 0 .. m + 1 |-> g[k]]
      OBVIOUS
    <3> HIDE DEF g, G
    <3> QED BY <2>2, <3>1
  <2> HIDE DEF g, Upto
  <2> QED BY <2>3
<1>3. l \in T
  <2> HIDE DEF T, l
  <2> QED BY <1>0, <1>1, <1>2, NatSetInduction
<1> DEFINE F == CHOOSE f : f = Upto(f, l)
<1>4. F = Upto(F, l)
  <2>1. \E f : f = Upto(f, l)
    BY <1>3
  <2> HIDE DEF Upto
  <2> QED BY <2>1
<1>5. Resize(hash, t) = F[l]
  BY DEF Resize
<1> HIDE DEF F, es, l
<1>6. \A k \in 0 .. l : F[k] = G(F, k)
  <2> TAKE k \in 0 .. l
  <2>1. Upto(F, l)[k] = G(F, k)
    OBVIOUS
  <2> HIDE DEF Upto, G
  <2> QED BY <1>4, <2>1
<1> HIDE DEF Upto
<1>7. F[0] = Emptied(t, 2 * t.size)
  BY <1>0, <1>6
<1>8. \A k \in 1 .. l : F[k] = Insert(hash, F[k - 1], es[k])
  BY <1>0, <1>6
<1> QED BY <1>5, <1>7, <1>8 DEF es, l

-----------------------------------------------------------------------------
(* Growing *)

\* Every entry is in the bucket where a lookup of its key looks.
Placed(t) == \A b \in Bkts(t) : \A e \in ToSet(t.kvs[b]) : b = Home(t, e)

\* Buckets without chains hold nothing, and have no collision.
LEMMA EmptySound ==
    ASSUME NEW t, t.size \in Nat \ {0}, t.kvs = Buckets(t.size), t.used \in Nat, t.collisions = 0
    PROVE  Sound(t, {}) /\ Counted(t, 0) /\ Placed(t)
<1>1. t.kvs = [b \in Bkts(t) |-> <<>>]
  BY DEF Buckets, Bkts
<1>2. <<>> \in Seq(Entry) /\ ToSet(<<>>) = {} /\ Distinct(<<>>)
  BY DEF ToSet, Distinct
<1> HIDE DEF Buckets
<1>3. Shaped(t) /\ \A b \in Bkts(t) : ToSet(t.kvs[b]) = {} /\ Distinct(t.kvs[b])
  BY <1>1, <1>2 DEF Shaped
<1>4. Sound(t, {}) /\ Placed(t)
  BY <1>3 DEF Sound, Placed
<1>5. Occupied(t) = {}
  BY <1>1 DEF Occupied
<1>6. Cardinality(Occupied(t)) = 0
  BY <1>5, FS_EmptySet
<1>7. Counted(t, 0)
  BY <1>6 DEF Counted
<1> QED BY <1>4, <1>7

\* Where a key hashes to is a bucket.
LEMMA HashInside ==
    ASSUME NEW n \in Nat \ {0}, NEW key \in Keys, hash \in [Keys -> 0 .. MaxHash]
    PROVE  hash[key] % n \in 0 .. n - 1
<1>1. hash[key] \in Nat
  BY HtAssumption
<1> QED BY <1>1

\* resize() puts every entry where a lookup looks, and counts anew.
LEMMA ResizeRight ==
    ASSUME hash \in [Keys -> 0 .. MaxHash], NEW t, NEW held, Sound(t, held), t.used \in Nat,
           NEW r, r = Resize(hash, t)
    PROVE  /\ Sound(r, held) /\ Counted(r, Len(Entries(t))) /\ Placed(r)
           /\ r.size = 2 * t.size
<1> DEFINE es == Entries(t)
           first(n) == {es[k] : k \in 1 .. n}
<1>1. es \in Seq(Entry) /\ Distinct(es) /\ ToSet(es) = held /\ Len(es) \in Nat
  BY EntriesRight
<1>2. PICK f : /\ f[0] = Emptied(t, 2 * t.size)
               /\ \A k \in 1 .. Len(es) : f[k] = Insert(hash, f[k - 1], es[k])
               /\ Resize(hash, t) = f[Len(es)]
  BY <1>1, ResizeByStep
<1>3. t.size \in Nat \ {0} /\ 2 * t.size \in Nat \ {0}
  BY DEF Sound, Shaped
<1>4. /\ first(0) = {} /\ first(Len(es)) = held
      /\ \A n \in Nat : first(n + 1) = first(n) \cup {es[n + 1]}
  <2>1. DOMAIN es = 1 .. Len(es)
    BY <1>1
  <2>2. first(Len(es)) = held
    BY <1>1, <2>1 DEF ToSet
  <2> HIDE DEF es
  <2>3. ASSUME NEW n \in Nat PROVE first(n + 1) = first(n) \cup {es[n + 1]}
    <3>1. 1 .. n + 1 = (1 .. n) \cup {n + 1}
      OBVIOUS
    <3> QED BY <3>1
  <2> QED BY <2>2, <2>3
<1>5. \A n \in Nat : n + 1 \in 1 .. Len(es) =>
          es[n + 1] \in Entry /\ \A e \in first(n) : e.cell # es[n + 1].cell
  <2> HIDE DEF es
  <2> TAKE n \in Nat
  <2> HAVE n + 1 \in 1 .. Len(es)
  <2>1. es[n + 1] \in Entry
    BY <1>1
  <2>2. ASSUME NEW k \in 1 .. n PROVE es[k].cell # es[n + 1].cell
    <3>1. k \in 1 .. Len(es) /\ k # n + 1
      BY <1>1
    <3> QED BY <1>1, <3>1 DEF Distinct
  <2> QED BY <2>1, <2>2
<1> HIDE DEF es, first
<1> DEFINE Good(n) == /\ Sound(f[n], first(n)) /\ Counted(f[n], n) /\ Placed(f[n])
                      /\ f[n].size = 2 * t.size
           T == {n \in Nat : n \in 0 .. Len(es) => Good(n)}
<1>6. 0 \in T
  <2>1. /\ f[0].size = 2 * t.size /\ f[0].kvs = Buckets(2 * t.size)
        /\ f[0].used = t.used /\ f[0].collisions = 0
    BY <1>2 DEF Emptied
  <2>2. Sound(f[0], {}) /\ Counted(f[0], 0) /\ Placed(f[0])
    BY <1>3, <2>1, EmptySound
  <2> QED BY <2>1, <2>2, <1>4
<1>7. ASSUME NEW n \in Nat, n \in T PROVE n + 1 \in T
  <2> SUFFICES ASSUME n + 1 \in 0 .. Len(es) PROVE Good(n + 1)
    OBVIOUS
  <2>1. n \in 0 .. Len(es) /\ n + 1 \in 1 .. Len(es) /\ (n + 1) - 1 = n
    BY <1>1
  <2> DEFINE u == f[n]
             e == es[n + 1]
             h == hash[e.key] % u.size
  <2>2. Sound(u, first(n)) /\ Counted(u, n) /\ Placed(u) /\ u.size = 2 * t.size
    BY <1>7, <2>1
  <2>3. e \in Entry /\ \A g \in first(n) : g.cell # e.cell
    BY <2>1, <1>5
  <2>4. f[n + 1] = Linkin(u, h, e)
    BY <1>2, <2>1 DEF Insert
  <2> HIDE DEF u, e
  <2>5. h \in Bkts(u)
    <3>1. e.key \in Keys /\ u.size \in Nat \ {0}
      BY <2>2, <2>3, <1>3 DEF Entry
    <3> QED BY <3>1, HashInside DEF Bkts
  <2>6. h = Home(u, e)
    BY DEF Home
  <2> HIDE DEF h
  <2>7. Sound(f[n + 1], first(n) \cup {e})
    BY <2>2, <2>3, <2>4, <2>5, LinkinSound
  <2>8. Counted(f[n + 1], n + 1)
    BY <2>2, <2>3, <2>4, <2>5, LinkinCounted
  <2>9. Grown(u, h, e, f[n + 1])
    BY <2>2, <2>3, <2>4, <2>5, LinkinGrows DEF Sound
  <2>10. f[n + 1].size = u.size /\ Bkts(f[n + 1]) = Bkts(u)
    BY <2>9 DEF Grown, Bkts
  <2>11. \A g : Home(f[n + 1], g) = Home(u, g)
    BY <2>10 DEF Home
  <2>12. Placed(f[n + 1])
    <3> SUFFICES ASSUME NEW b \in Bkts(u), NEW g \in ToSet(f[n + 1].kvs[b])
                 PROVE  b = Home(u, g)
      BY <2>10, <2>11 DEF Placed
    <3>1. g \in ToSet(u.kvs[b]) \/ (b = h /\ g = e)
      BY <2>9 DEF Grown
    <3> QED BY <3>1, <2>2, <2>6 DEF Placed
  <2>13. first(n + 1) = first(n) \cup {e}
    BY <1>4 DEF e
  <2> QED BY <2>2, <2>7, <2>8, <2>10, <2>12, <2>13
<1>8. Nat \subseteq T
  <2> HIDE DEF T
  <2> QED BY <1>6, <1>7, NatSetInduction
<1>9. Good(Len(es))
  BY <1>1, <1>8
<1>10. Sound(r, held) /\ Counted(r, Len(es)) /\ Placed(r) /\ r.size = 2 * t.size
  BY <1>2, <1>4, <1>9
<1> QED BY <1>10 DEF es

\* What the call that creates a value makes of a table t with n entries: e is added,
\* and what is out of place was so before or is e, when the table grew.
Extended(t, held, n, e, u) ==
    /\ Sound(u, held \cup {e}) /\ Counted(u, n + 1)
    /\ ~Crowded(t) => \A f : Astray(u, f) => Astray(t, f)
    /\ Crowded(t) => \A f : Astray(u, f) => f = e

\* An entry that is added is out of place only if the table grew for it, and then
\* it is the only one.
LEMMA AddedRight ==
    ASSUME hash \in [Keys -> 0 .. MaxHash], NEW t, NEW held, Sound(t, held),
           NEW n \in Nat, Counted(t, n), Len(Entries(t)) = n,
           NEW key \in Keys, NEW cell \in Nat \ {0}, \A f \in held : f.cell # cell,
           NEW e, e = [key |-> key, cell |-> cell]
    PROVE  Extended(t, held, n, e, Added(hash, t, key, cell))
<1> DEFINE u == Added(hash, t, key, cell)
           h == hash[key] % t.size
           base == IF Crowded(t) THEN Resize(hash, t) ELSE t
<1>1. t.size \in Nat \ {0} /\ t.used \in Nat
  BY DEF Sound, Shaped, Counted
<1>2. h \in 0 .. t.size - 1
  BY <1>1, HashInside
<1>3. e \in Entry /\ e.key = key /\ e.cell = cell
  BY DEF Entry
<1>4. u = Linkin(base, h, e)
  BY DEF Added
<1>5. h = Home(t, e)
  BY <1>3 DEF Home
<1>6. /\ Sound(base, held) /\ Counted(base, n)
      /\ base.size \in Nat \ {0} /\ base.size >= t.size
      /\ Crowded(t) => Placed(base)
      /\ ~Crowded(t) => base = t
  <2>1. CASE Crowded(t)
    <3>1. base = Resize(hash, t)
      BY <2>1
    <3> HIDE DEF base
    <3>2. Sound(base, held) /\ Counted(base, n) /\ Placed(base) /\ base.size = 2 * t.size
      BY <3>1, <1>1, ResizeRight
    <3> QED BY <2>1, <3>2, <1>1
  <2>2. CASE ~Crowded(t)
    <3>1. base = t
      BY <2>2
    <3> HIDE DEF base
    <3> QED BY <2>2, <3>1, <1>1
  <2> QED BY <2>1, <2>2
<1> HIDE DEF base, h, u
<1>7. h \in Bkts(base)
  BY <1>1, <1>2, <1>6 DEF Bkts
<1>8. Sound(u, held \cup {e})
  BY <1>3, <1>4, <1>6, <1>7, LinkinSound
<1>9. Counted(u, n + 1)
  BY <1>3, <1>4, <1>6, <1>7, LinkinCounted
<1>10. Grown(base, h, e, u)
  BY <1>3, <1>4, <1>6, <1>7, LinkinGrows DEF Sound
<1>11. u.size = base.size /\ Bkts(u) = Bkts(base)
  BY <1>10 DEF Grown, Bkts
<1>12. \A f : Home(u, f) = Home(base, f)
  BY <1>11 DEF Home
<1>13. \A b \in Bkts(u) : \A f \in ToSet(u.kvs[b]) : f \in ToSet(base.kvs[b]) \/ (b = h /\ f = e)
  BY <1>10, <1>11 DEF Grown
<1>14. ASSUME Crowded(t), NEW f, Astray(u, f) PROVE f = e
  <2>1. PICK b \in Bkts(u) : f \in ToSet(u.kvs[b]) /\ b # Home(u, f)
    BY <1>14 DEF Astray, Bkts
  <2>2. CASE f \in ToSet(base.kvs[b])
    BY <2>1, <2>2, <1>6, <1>11, <1>12, <1>14 DEF Placed
  <2> QED BY <2>1, <2>2, <1>13
<1>15. ASSUME ~Crowded(t), NEW f, Astray(u, f) PROVE Astray(t, f)
  <2>1. PICK b \in Bkts(u) : f \in ToSet(u.kvs[b]) /\ b # Home(u, f)
    BY <1>15 DEF Astray, Bkts
  <2>2. base = t /\ b \in Bkts(t) /\ b # Home(t, f)
    BY <2>1, <1>6, <1>11, <1>12, <1>15
  <2>3. f \in ToSet(t.kvs[b])
    BY <2>1, <2>2, <1>5, <1>13
  <2> QED BY <2>2, <2>3 DEF Astray, Bkts
<1>16. Extended(t, held, n, e, u)
  BY <1>8, <1>9, <1>14, <1>15 DEF Extended
<1> QED BY <1>16 DEF u

\* The first place of a key in its chain
LEMMA PlaceRight ==
    ASSUME NEW t, NEW key, Chain(hash, t, key) \in Seq(Entry)
    PROVE  LET chain == Chain(hash, t, key)
               n == Place(hash, t, key)
           IN  /\ n = 0 => \A e \in ToSet(chain) : e.key # key
               /\ n # 0 => n \in DOMAIN chain /\ chain[n].key = key
<1> DEFINE chain == Chain(hash, t, key)
           I == {m \in 1 .. Len(chain) : chain[m].key = key}
<1>1. Place(hash, t, key) = IF I # {} THEN Min(I) ELSE 0
  BY DEF Place, SelectInSeq
<1>2. DOMAIN chain = 1 .. Len(chain) /\ Len(chain) \in Nat
  OBVIOUS
<1> HIDE DEF chain
<1>3. CASE I = {}
  <2>1. \A e \in ToSet(chain) : e.key # key
    BY <1>2, <1>3 DEF ToSet
  <2> QED BY <2>1, <1>1, <1>3 DEF chain
<1>4. CASE I # {}
  <2>1. I \in SUBSET Nat
    BY <1>2
  <2> HIDE DEF I
  <2>2. \E m \in I : \A k \in I : m <= k
    BY <1>4, <2>1, LeastMember
  <2>3. Min(I) \in I
    <3> QED BY <2>2 DEF Min
  <2>4. Min(I) # 0
    BY <2>3 DEF I
  <2> QED BY <2>3, <2>4, <1>1, <1>2, <1>4 DEF chain, I
<1> QED BY <1>3, <1>4

-----------------------------------------------------------------------------
(* Calls *)

\* What a lookup finds is a value created for the key.
LEMMA Found ==
    ASSUME HtInv, NEW key \in Keys, Known(key), NEW c, c = CellOf(hash, ht, key)
    PROVE  c \in DOMAIN cells /\ cells[c].key = key
<1> DEFINE chain == Chain(hash, ht, key)
           n == Place(hash, ht, key)
<1>1. \E b \in Bkts(ht) : chain = ht.kvs[b]
  <2>1. hash[key] % ht.size \in Bkts(ht)
    BY HashInside DEF HtInv, Typed, Sound, Shaped, Bkts
  <2> QED BY <2>1 DEF Chain
<1>2. chain \in Seq(Entry) /\ ToSet(chain) \subseteq Stored
  BY <1>1 DEF HtInv, Sound, Shaped
<1>3. n \in DOMAIN chain /\ chain[n].key = key
  BY <1>2, PlaceRight DEF Known
<1>4. c = chain[n].cell
  BY DEF CellOf
<1> HIDE DEF chain, n
<1>5. chain[n] \in Stored
  BY <1>2, <1>3 DEF ToSet
<1> QED BY <1>3, <1>4, <1>5 DEF Stored

\* A key with a value that was not inserted while the table grew is found.
LEMMA NotStaleKnown ==
    ASSUME HtInv, NEW key \in Keys, key \notin stale,
           NEW c \in DOMAIN cells, cells[c].key = key
    PROVE  Known(key)
<1> DEFINE e == [key |-> cells[c].key, cell |-> c]
           chain == Chain(hash, ht, key)
<1>1. e \in Stored /\ e.key = key
  BY DEF Stored
<1> HIDE DEF e
<1>2. PICK b \in Bkts(ht) : e \in ToSet(ht.kvs[b])
  BY <1>1 DEF HtInv, Sound
<1>3. b = Home(ht, e)
  BY <1>1, <1>2 DEF HtInv, StraysStale, Astray
<1>4. chain = ht.kvs[b]
  BY <1>1, <1>3 DEF Chain, Home
<1>5. chain \in Seq(Entry)
  BY <1>4 DEF HtInv, Sound, Shaped
<1>6. Place(hash, ht, key) = 0 => \A f \in ToSet(chain) : f.key # key
  BY <1>5, PlaceRight
<1> HIDE DEF chain
<1> QED BY <1>1, <1>2, <1>4, <1>6 DEF Known

\* The table holds as many entries as there are values.
LEMMA EntriesCount ==
    ASSUME HtInv
    PROVE  Len(Entries(ht)) = Len(cells)
<1> DEFINE es == Entries(ht)
           l == Len(es)
           m == Len(cells)
           g == [k \in 1 .. l |-> es[k].cell]
<1>1. es \in Seq(Entry) /\ Distinct(es) /\ ToSet(es) = Stored /\ l \in Nat /\ DOMAIN es = 1 .. l
  BY EntriesRight DEF HtInv
<1>2. m \in Nat /\ DOMAIN cells = 1 .. m
  BY DEF HtInv, Typed
<1>3. \A k \in 1 .. l : es[k] \in Stored
  BY <1>1 DEF ToSet
<1>4. \A e \in Stored : \E k \in 1 .. l : es[k] = e
  BY <1>1 DEF ToSet
<1>5. Distinct(es) => \A j, k \in 1 .. l : es[j].cell = es[k].cell => j = k
  BY DEF Distinct
<1> HIDE DEF es, l, m
<1>6. g \in [1 .. l -> 1 .. m]
  <2>1. \A k \in 1 .. l : es[k].cell \in 1 .. m
    BY <1>2, <1>3 DEF Stored
  <2> QED BY <2>1
<1>7. \A j, k \in 1 .. l : g[j] = g[k] => j = k
  BY <1>1, <1>5
<1>8. \A c \in 1 .. m : \E k \in 1 .. l : g[k] = c
  <2> TAKE c \in 1 .. m
  <2>1. [key |-> cells[c].key, cell |-> c] \in Stored
    BY <1>2 DEF Stored
  <2> QED BY <2>1, <1>4
<1> HIDE DEF g
<1>9. g \in Bijection(1 .. l, 1 .. m)
  BY <1>6, <1>7, <1>8, Fun_IsBij
<1>10. /\ IsFiniteSet(1 .. l) /\ Cardinality(1 .. l) = l
       /\ Cardinality(1 .. m) = m
  BY <1>1, <1>2, FS_Interval
<1>11. Cardinality(1 .. m) = Cardinality(1 .. l)
  BY <1>9, <1>10, FS_Bijection DEF ExistsBijection
<1> QED BY <1>10, <1>11 DEF l, m, es

\* A new table is sound.
LEMMA InitInv == Init => HtInv
<1> SUFFICES ASSUME Init PROVE HtInv
  OBVIOUS
<1>1. cells = <<>> /\ Len(cells) = 0 /\ DOMAIN cells = {} /\ Stored = {}
  BY DEF Init, Stored
<1> DEFINE n == ((IF InitialSize = 0 THEN 1 ELSE InitialSize) * 3) \div 2
<1>2. n \in Nat \ {0}
  BY HtAssumption
<1>3. ht.size = n /\ ht.used = 0 /\ ht.collisions = 0 /\ ht.kvs = Buckets(n)
  BY DEF Init, NewHt
<1> HIDE DEF n
<1>4. Sound(ht, Stored) /\ Counted(ht, Len(cells))
  BY <1>1, <1>2, <1>3, EmptySound
<1>5. Typed
  BY <1>1 DEF Init, Typed
<1>6. StraysStale /\ OneStray
  BY <1>1 DEF StraysStale, OneStray
<1>7. CountersRight
  BY <1>1 DEF Init, None, CountersRight
<1> QED BY <1>4, <1>5, <1>6, <1>7 DEF HtInv

\* A call for a key that is found counts on.
LEMMA HitKeeps ==
    ASSUME HtInv, NEW key \in Keys, hash' = hash, calls' = [calls EXCEPT ![key] = @ + 1], Hit(key)
    PROVE  HtInv'
<1> DEFINE c == CellOf(hash, ht, key)
<1>1. c \in DOMAIN cells /\ cells[c].key = key
  BY Found DEF Hit
<1>2. /\ cells' = [cells EXCEPT ![c].value = @ + 1]
      /\ result' = [key |-> key, value |-> cells[c].value + 1]
      /\ ht' = ht /\ stale' = stale
  BY DEF Hit
<1>3. Typed
  BY DEF HtInv
<1> HIDE DEF c
<1>4. cells \in Seq([key : Keys, value : Nat]) /\ DOMAIN cells = 1 .. Len(cells) /\ Len(cells) \in Nat
  BY <1>3 DEF Typed
<1>5. /\ cells[c] \in [key : Keys, value : Nat]
      /\ \A d \in DOMAIN cells : cells[d] \in [key : Keys, value : Nat]
  <2> DEFINE Value == [key : Keys, value : Nat]
  <2>1. cells \in Seq(Value) /\ DOMAIN cells = 1 .. Len(cells) /\ Len(cells) \in Nat
    BY <1>4
  <2> HIDE DEF Value
  <2>2. \A d \in DOMAIN cells : cells[d] \in Value
    BY <2>1
  <2>3. cells[c] \in Value
    BY <1>1, <2>2
  <2> QED BY <2>2, <2>3 DEF Value
<1> DEFINE more == [cells[c] EXCEPT !.value = @ + 1]
<1>6. more \in [key : Keys, value : Nat] /\ more.key = key /\ more.value = cells[c].value + 1
  BY <1>1, <1>5
<1>7. cells' = [cells EXCEPT ![c] = more]
  BY <1>2
<1> HIDE DEF more
<1>8. /\ cells' \in Seq([key : Keys, value : Nat]) /\ DOMAIN cells' = DOMAIN cells
      /\ Len(cells') = Len(cells)
      /\ cells'[c] = more /\ \A d \in DOMAIN cells : d # c => cells'[d] = cells[d]
  BY <1>1, <1>4, <1>6, <1>7
<1>9. \A d \in DOMAIN cells : cells'[d].key = cells[d].key
  BY <1>1, <1>6, <1>8
<1>10. Stored' = Stored
  BY <1>8, <1>9 DEF Stored
<1>11. /\ calls' \in [Keys -> Nat] /\ calls'[key] = calls[key] + 1
       /\ \A k \in Keys : k # key => calls'[k] = calls[k]
  BY <1>3 DEF Typed
<1>12. Typed'
  BY <1>2, <1>3, <1>8, <1>11 DEF Typed
<1>13. Sound(ht, Stored)' /\ Counted(ht, Len(cells))'
  BY <1>2, <1>8, <1>10 DEF HtInv, Sound, Shaped, Counted, Occupied
<1>14. \A e : Astray(ht, e)' <=> Astray(ht, e)
  BY <1>2 DEF Astray, Home
<1>15. StraysStale' /\ OneStray'
  BY <1>2, <1>10, <1>14 DEF HtInv, StraysStale, OneStray
<1>16. CountersRight'
  <2> SUFFICES ASSUME NEW k \in Keys \ stale
               PROVE  /\ \A a, d \in DOMAIN cells : cells[a].key = k /\ cells[d].key = k => a = d
                      /\ \A d \in DOMAIN cells : cells[d].key = k => cells'[d].value = calls'[k]
                      /\ (\A d \in DOMAIN cells : cells[d].key # k) => calls'[k] = 0
                      /\ result'.key = k => result'.value = calls'[k]
    BY <1>2, <1>8, <1>9 DEF CountersRight
  <2>1. /\ \A a, d \in DOMAIN cells : cells[a].key = k /\ cells[d].key = k => a = d
        /\ \A d \in DOMAIN cells : cells[d].key = k => cells[d].value = calls[k]
        /\ (\A d \in DOMAIN cells : cells[d].key # k) => calls[k] = 0
        /\ result.key = k => result.value = calls[k]
    BY DEF HtInv, CountersRight
  <2>2. result'.key = key /\ result'.value = cells[c].value + 1
    BY <1>2
  <2>3. CASE k = key
    <3>1. cells[c].value = calls[k]
      BY <1>1, <2>1, <2>3
    <3>2. \A d \in DOMAIN cells : cells[d].key = k => d = c
      BY <1>1, <2>1, <2>3
    <3>3. cells'[c].value = calls'[k] /\ result'.value = calls'[k]
      BY <1>6, <1>8, <1>11, <2>2, <2>3, <3>1
    <3> QED BY <1>1, <2>1, <2>3, <3>2, <3>3
  <2>4. CASE k # key
    <3>1. \A d \in DOMAIN cells : cells[d].key = k => d # c
      BY <1>1, <2>4
    <3> QED BY <1>8, <1>11, <2>1, <2>2, <2>4, <3>1
  <2> QED BY <2>3, <2>4
<1> QED BY <1>12, <1>13, <1>15, <1>16 DEF HtInv

\* A call for a key that is not found creates its value; the table may grow.
LEMMA MissKeeps ==
    ASSUME HtInv, NEW key \in Keys, hash' = hash, calls' = [calls EXCEPT ![key] = @ + 1], Miss(key)
    PROVE  HtInv'
<1> DEFINE m == Len(cells)
           e == [key |-> key, cell |-> m + 1]
           one == [key |-> key, value |-> 1]
<1>1. /\ ht' = Added(hash, ht, key, m + 1)
      /\ cells' = Append(cells, one) /\ result' = one
      /\ stale' = IF Crowded(ht) THEN stale \cup {key} ELSE stale
  BY DEF Miss
<1>2. Typed
  BY DEF HtInv
<1>3. cells \in Seq([key : Keys, value : Nat]) /\ m \in Nat /\ DOMAIN cells = 1 .. m
  BY <1>2 DEF Typed
<1>4. one \in [key : Keys, value : Nat] /\ one.key = key /\ one.value = 1
  OBVIOUS
<1>5. e.key = key /\ e.cell = m + 1
  OBVIOUS
<1> HIDE DEF one
<1>6. /\ cells' \in Seq([key : Keys, value : Nat]) /\ Len(cells') = m + 1
      /\ DOMAIN cells' = 1 .. m + 1
      /\ cells'[m + 1] = one /\ \A d \in 1 .. m : cells'[d] = cells[d]
  BY <1>1, <1>3, <1>4
<1>7. \A d : d \in 1 .. m + 1 <=> d \in 1 .. m \/ d = m + 1
  BY <1>3
<1>8. Stored' = Stored \cup {e}
  <2>1. Stored = {[key |-> cells[d].key, cell |-> d] : d \in 1 .. m}
    BY <1>3 DEF Stored
  <2>2. Stored' = {[key |-> cells'[d].key, cell |-> d] : d \in 1 .. m + 1}
    BY <1>6 DEF Stored
  <2>3. e = [key |-> cells'[m + 1].key, cell |-> m + 1]
    BY <1>4, <1>6
  <2> HIDE DEF m, e
  <2> QED BY <1>6, <1>7, <2>1, <2>2, <2>3
<1>9. \A f \in Stored : f.cell # m + 1
  <2>1. \A d \in 1 .. m : d # m + 1
    BY <1>3
  <2> HIDE DEF m
  <2> QED BY <1>3, <2>1 DEF Stored
<1>10. Len(Entries(ht)) = m
  BY EntriesCount
<1>11. /\ Sound(ht, Stored) /\ Counted(ht, m) /\ hash \in [Keys -> 0 .. MaxHash]
  BY DEF HtInv, Typed
<1> HIDE DEF e, m
<1>12. m + 1 \in Nat \ {0}
  BY <1>3
<1>13. /\ Sound(ht', Stored \cup {e}) /\ Counted(ht', m + 1)
       /\ ~Crowded(ht) => \A f : Astray(ht', f) => Astray(ht, f)
       /\ Crowded(ht) => \A f : Astray(ht', f) => f = e
  <2> DEFINE c == m + 1
  <2>1. e = [key |-> key, cell |-> c] /\ ht' = Added(hash, ht, key, c)
    BY <1>1 DEF e
  <2>2. c \in Nat \ {0} /\ \A f \in Stored : f.cell # c
    BY <1>9, <1>12
  <2> HIDE DEF c
  <2>3. Extended(ht, Stored, m, e, Added(hash, ht, key, c))
    BY <1>3, <1>10, <1>11, <2>1, <2>2, AddedRight
  <2> QED BY <2>1, <2>3 DEF Extended
<1>14. Sound(ht, Stored)' /\ Counted(ht, Len(cells))'
  <2>1. Sound(ht, Stored)' = Sound(ht', Stored')
    BY DEF Sound, Shaped
  <2>2. Counted(ht, Len(cells))' = Counted(ht', Len(cells'))
    BY DEF Counted, Occupied
  <2> QED BY <2>1, <2>2, <1>6, <1>8, <1>13
<1>15. /\ calls' \in [Keys -> Nat] /\ calls'[key] = calls[key] + 1
       /\ \A k \in Keys : k # key => calls'[k] = calls[k]
  BY <1>2 DEF Typed
<1>16. Typed'
  BY <1>1, <1>2, <1>6, <1>15 DEF Typed
<1>17. \A f : Astray(ht, f)' <=> Astray(ht', f)
  BY DEF Astray, Home
<1>18. \A f : Astray(ht, f) => f \in Stored
  BY <1>11 DEF Sound, Astray
<1>19. StraysStale'
  <2> SUFFICES ASSUME NEW f \in Stored', Astray(ht', f) PROVE f.key \in stale'
    BY <1>17 DEF StraysStale
  <2>1. CASE Crowded(ht)
    BY <2>1, <1>1, <1>5, <1>13
  <2>2. CASE ~Crowded(ht)
    BY <2>2, <1>1, <1>13, <1>18 DEF HtInv, StraysStale
  <2> QED BY <2>1, <2>2
<1>20. OneStray'
  <2> SUFFICES ASSUME NEW f, NEW g, Astray(ht', f), Astray(ht', g) PROVE f = g
    BY <1>17 DEF OneStray
  <2>1. CASE Crowded(ht)
    BY <2>1, <1>13
  <2>2. CASE ~Crowded(ht)
    BY <2>2, <1>13, <1>18 DEF HtInv, OneStray
  <2> QED BY <2>1, <2>2
<1>21. CountersRight'
  <2> SUFFICES ASSUME NEW k \in Keys \ stale'
               PROVE  /\ \A a, d \in 1 .. m + 1 : cells'[a].key = k /\ cells'[d].key = k => a = d
                      /\ \A d \in 1 .. m + 1 : cells'[d].key = k => cells'[d].value = calls'[k]
                      /\ (\A d \in 1 .. m + 1 : cells'[d].key # k) => calls'[k] = 0
                      /\ result'.key = k => result'.value = calls'[k]
    BY <1>6 DEF CountersRight
  <2>0. k \in Keys \ stale
    BY <1>1
  <2>1. /\ \A a, d \in 1 .. m : cells[a].key = k /\ cells[d].key = k => a = d
        /\ \A d \in 1 .. m : cells[d].key = k => cells[d].value = calls[k]
        /\ (\A d \in 1 .. m : cells[d].key # k) => calls[k] = 0
        /\ result.key = k => result.value = calls[k]
    BY <1>3, <2>0 DEF HtInv, CountersRight
  <2>2. CASE k = key
    <3>1. \A d \in 1 .. m : cells[d].key # k
      BY <1>3, <2>0, <2>2, NotStaleKnown DEF Miss
    <3>2. calls'[k] = 1
      BY <1>15, <2>1, <2>2, <3>1
    <3>3. \A d \in 1 .. m + 1 : cells'[d].key = k => d = m + 1
      BY <1>6, <1>7, <3>1
    <3>4. m + 1 \in 1 .. m + 1
      BY <1>7
    <3> QED BY <1>1, <1>4, <1>6, <2>2, <3>2, <3>3, <3>4
  <2>3. CASE k # key
    <3>1. \A d \in 1 .. m + 1 : cells'[d].key = k => d \in 1 .. m /\ cells'[d] = cells[d]
      BY <1>4, <1>6, <1>7, <2>3
    <3>2. \A d \in 1 .. m : d \in 1 .. m + 1 /\ cells'[d] = cells[d]
      BY <1>6, <1>7
    <3>3. \A a, d \in 1 .. m + 1 : cells'[a].key = k /\ cells'[d].key = k => a = d
      BY ONLY <2>1, <3>1
    <3>4. \A d \in 1 .. m + 1 : cells'[d].key = k => cells'[d].value = calls'[k]
      BY <1>15, <2>0, <2>1, <2>3, <3>1
    <3>5. (\A d \in 1 .. m + 1 : cells'[d].key # k) => calls'[k] = 0
      BY <1>15, <2>0, <2>1, <2>3, <3>2
    <3>6. result'.key # k
      BY <1>1, <1>4, <2>3
    <3> QED BY <3>3, <3>4, <3>5, <3>6
  <2> QED BY <2>2, <2>3
<1> QED BY <1>14, <1>16, <1>19, <1>20, <1>21 DEF HtInv

\* The invariant is inductive.
LEMMA NextInv == HtInv /\ [Next]_vars => HtInv'
<1> SUFFICES ASSUME HtInv, [Next]_vars PROVE HtInv'
  OBVIOUS
<1>1. ASSUME NEW key \in Keys, Call(key) PROVE HtInv'
  BY <1>1, HitKeeps, MissKeeps DEF Call
<1>2. CASE UNCHANGED vars
  BY <1>2 DEF vars, HtInv, Typed, Sound, Shaped, Counted, Occupied, StraysStale, OneStray,
               CountersRight, Astray, Home, Stored
<1> QED BY <1>1, <1>2 DEF Next

\* In every reachable state the table holds each value once, and all but the keys
\* of entries that made it grow are where a lookup looks.
THEOREM HtInvariant == Spec => []HtInv
  BY InitInv, NextInv, PTL DEF Spec

-----------------------------------------------------------------------------
(* Theorems *)

\* The table never loses or doubles a value, whatever it is asked for and however
\* often it grows, and resize() keeps the count of collisions right.
THEOREM HtNothingLost == Spec => []NothingLost
<1>1. HtInv => NothingLost
  <2> SUFFICES ASSUME HtInv PROVE NothingLost
    OBVIOUS
  <2> DEFINE es == Entries(ht)
             inUse == [k \in DOMAIN es |-> es[k].cell]
  <2>1. es \in Seq(Entry) /\ ToSet(es) = Stored
    BY EntriesRight DEF HtInv
  <2>2. Len(es) = Len(cells)
    BY EntriesCount
  <2>3. ht.size > 0 /\ DOMAIN ht.kvs = 0 .. ht.size - 1
    BY DEF HtInv, Sound, Shaped, Bkts
  <2>4. ht.collisions = Len(cells) - Cardinality({h \in DOMAIN ht.kvs : ht.kvs[h] # <<>>})
    BY DEF HtInv, Counted, Occupied
  <2>5. DOMAIN es = 1 .. Len(es) /\ Len(es) \in Nat
    BY <2>1
  <2> HIDE DEF es
  <2>6. Len(inUse) = Len(cells)
    BY <2>2, <2>5
  <2>7. ToSet(inUse) = {e.cell : e \in ToSet(es)}
    BY DEF ToSet
  <2>8. {e.cell : e \in Stored} = DOMAIN cells
    <3>1. \A c \in DOMAIN cells : \E e \in Stored : e.cell = c
      <4> TAKE c \in DOMAIN cells
      <4>1. [key |-> cells[c].key, cell |-> c] \in Stored
        BY DEF Stored
      <4> QED BY <4>1
    <3>2. \A e \in Stored : e.cell \in DOMAIN cells
      BY DEF Stored
    <3> QED BY <3>1, <3>2
  <2>9. \A e \in ToSet(es) : cells[e.cell].key = e.key
    BY <2>1 DEF Stored
  <2> HIDE DEF inUse
  <2>10. ToSet(inUse) = DOMAIN cells
    BY <2>1, <2>7, <2>8
  <2> QED BY <2>3, <2>4, <2>6, <2>9, <2>10 DEF NothingLost, es, inUse
<1> QED BY <1>1, HtInvariant, PTL

\* At any time at most one value is where no lookup finds it.
THEOREM HtOneMisplaced == Spec => []AtMostOneMisplaced
<1>1. HtInv => AtMostOneMisplaced
  <2> SUFFICES ASSUME HtInv, NEW e \in Misplaced, NEW f \in Misplaced PROVE e = f
    BY DEF AtMostOneMisplaced
  <2>1. ToSet(Entries(ht)) = Stored
    BY EntriesRight DEF HtInv
  <2>2. ASSUME NEW g \in Misplaced PROVE g \in Stored /\ Astray(ht, g)
    <3>1. g \in Stored /\ g \notin ToSet(Chain(hash, ht, g.key))
      BY <2>1 DEF Misplaced
    <3>2. PICK b \in Bkts(ht) : g \in ToSet(ht.kvs[b])
      BY <3>1 DEF HtInv, Sound
    <3>3. b # Home(ht, g)
      BY <3>1, <3>2 DEF Home, Chain
    <3> QED BY <3>1, <3>2, <3>3 DEF Astray
  <2> QED BY <2>2 DEF HtInv, OneStray
<1> QED BY <1>1, HtInvariant, PTL

\* A key whose insertion did not make the table grow has one value for ever, the
\* one that every later lookup finds.
THEOREM HtOtherKeys == Spec => []OtherKeysRight
<1>1. HtInv => OtherKeysRight
  <2> SUFFICES ASSUME HtInv, NEW k \in Keys \ stale
               PROVE  /\ Cardinality({c \in DOMAIN cells : cells[c].key = k}) <= 1
                      /\ result.key = k => result.value = calls[k]
                      /\ \A c \in DOMAIN cells : cells[c].key = k => Known(k)
    BY DEF OtherKeysRight
  <2> DEFINE own == {c \in DOMAIN cells : cells[c].key = k}
  <2>1. \A c, d \in own : c = d
    BY DEF HtInv, CountersRight
  <2> HIDE DEF own
  <2>2. Cardinality(own) <= 1
    <3>1. CASE own = {}
      BY <3>1, FS_EmptySet
    <3>2. CASE own # {}
      <4>1. PICK c : own = {c}
        BY <2>1, <3>2
      <4>2. Cardinality(own) = 1
        BY <4>1, FS_Singleton
      <4> QED BY <4>2
    <3> QED BY <3>1, <3>2
  <2>3. result.key = k => result.value = calls[k]
    BY DEF HtInv, CountersRight
  <2>4. \A c \in DOMAIN cells : cells[c].key = k => Known(k)
    BY NotStaleKnown
  <2> QED BY <2>2, <2>3, <2>4 DEF own
<1> QED BY <1>1, HtInvariant, PTL
=============================================================================
