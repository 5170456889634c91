------------------------------ MODULE HtTable -------------------------------
(***************************************************************************)
(* The chained hash table of csv-nix-tools (src/src/ht.c) as a value, for  *)
(* the modules whose programs use it.  An entry is a key and a cell, the   *)
(* identity of the value that is stored; `hash` gives hash_str() of a key. *)
(* A table is a record: its size, the counts used and collisions, and the  *)
(* chain of entries of each bucket.                                        *)
(***************************************************************************)
EXTENDS Integers, Sequences, SequencesExt

Buckets(n) == [h \in 0 .. n - 1 |-> <<>>]

\* csv_ht_init(): 1.5 times the size asked for
NewHt(initial) ==
    LET n == ((IF initial = 0 THEN 1 ELSE initial) * 3) \div 2
    IN  [size |-> n, used |-> 0, collisions |-> 0, kvs |-> Buckets(n)]

\* Mutant: the new entry takes the place of the rest of the chain.
LinkinCutting(t, h, e) ==
    [size |-> t.size, used |-> t.used + 1,
     collisions |-> IF t.kvs[h] = <<>> THEN t.collisions ELSE t.collisions + 1,
     kvs |-> [t.kvs EXCEPT ![h] = IF @ = <<>> THEN <<e>> ELSE <<Head(@), e>>]]
\* linkin(): the first entry of a bucket stays first, a new one goes behind it.
Linkin(t, h, e) ==
    [size |-> t.size, used |-> t.used + 1,
     collisions |-> IF t.kvs[h] = <<>> THEN t.collisions ELSE t.collisions + 1,
     kvs |-> [t.kvs EXCEPT ![h] = IF @ = <<>> THEN <<e>> ELSE <<Head(@), e>> \o Tail(@)]]

\* insert()
Insert(hash, t, e) == Linkin(t, hash[e.key] % t.size, e)

\* Bucket by bucket, each in the order of its chain.
Entries(t) == FlattenSeq([b \in 1 .. t.size |-> t.kvs[b - 1]])

Emptied(t, n) == [size |-> n, used |-> t.used, collisions |-> 0, kvs |-> Buckets(n)]

\* Mutant: the entries are hashed for the old size.
ResizeOldHash(hash, t) ==
    LET es == Entries(t)
        moved[n \in 0 .. Len(es)] ==
            IF n = 0 THEN Emptied(t, 2 * t.size) ELSE Linkin(moved[n - 1], hash[es[n].key] % t.size, es[n])
    IN  moved[Len(es)]
\* resize(): collisions start again from 0, used does not.
Resize(hash, t) ==
    LET es == Entries(t)
        moved[n \in 0 .. Len(es)] ==
            IF n = 0 THEN Emptied(t, 2 * t.size) ELSE Insert(hash, moved[n - 1], es[n])
    IN  moved[Len(es)]

\* collisions > MAX_COLLISIONS * size && used > MIN_ENTRIES * size
Crowded(t) == 5 * t.collisions > t.size /\ 100 * t.used > t.size

Chain(hash, t, key) == t.kvs[hash[key] % t.size]

\* Mutant: only the first entry of the bucket is looked at.
PlaceFirst(hash, t, key) == IF Chain(hash, t, key) # <<>> /\ Chain(hash, t, key)[1].key = key THEN 1 ELSE 0
\* The first place of the key in the chain that csv_ht_get_value() walks, or 0
Place(hash, t, key) == SelectInSeq(Chain(hash, t, key), LAMBDA e : e.key = key)

\* csv_ht_get_value() of a key that is there
CellOf(hash, t, key) == Chain(hash, t, key)[Place(hash, t, key)].cell

\* csv_ht_get_value() of a key that is not: grow if crowded, then link the cell
\* in at the index computed before, for the old size.
Added(hash, t, key, cell) ==
    Linkin(IF Crowded(t) THEN Resize(hash, t) ELSE t, hash[key] % t.size,
           [key |-> key, cell |-> cell])
=============================================================================
