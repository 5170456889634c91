------------------------------- MODULE CsvHt --------------------------------
(***************************************************************************)
(* The hash table of HtTable as its users drive it: csv_ht_get_value()     *)
(* returns the value stored under a key, and calls back for a new one when *)
(* there is none.  The user modelled here is the RPN operator `next`       *)
(* (src/src/rpn_eval.c): the value is a counter, created as 0 and          *)
(* incremented by each call.                                               *)
(***************************************************************************)
EXTENDS HtTable

CONSTANTS
    Keys,
    MaxHash,        \* hash_str() of the keys is in 0 .. MaxHash
    InitialSize,    \* initial_size given to csv_ht_init()
    MaxCalls        \* bound on the calls of csv_ht_get_value()

ASSUME HtAssumption == MaxHash \in Nat /\ InitialSize \in Nat /\ MaxCalls \in Nat

VARIABLES
    hash,   \* hash_str(), fixed by the keys
    ht,     \* struct csv_ht; its cells are indices into cells
    cells,  \* the values created so far, with the keys they were created for
    calls,  \* (history) calls per key
    result, \* (history) the key and the value of the last call
    stale   \* (history) keys inserted by a call that resized the table

vars == <<hash, ht, cells, calls, result, stale>>

None == [key |-> "none", value |-> 0]

Init ==
    /\ hash \in [Keys -> 0 .. MaxHash]
    /\ ht = NewHt(InitialSize)
    /\ cells = <<>>
    /\ calls = [k \in Keys |-> 0]
    /\ result = None
    /\ stale = {}

Known(key) == Place(hash, ht, key) # 0

\* next(key) of a sequence that is found: (*v)++
Hit(key) ==
    LET c == CellOf(hash, ht, key)
    IN  /\ Known(key)
        /\ cells' = [cells EXCEPT ![c].value = @ + 1]
        /\ result' = [key |-> key, value |-> cells[c].value + 1]
        /\ UNCHANGED <<ht, stale>>

\* ... and of one that is not.
Miss(key) ==
    /\ ~Known(key)
    /\ ht' = Added(hash, ht, key, Len(cells) + 1)
    /\ cells' = Append(cells, [key |-> key, value |-> 1])
    /\ result' = [key |-> key, value |-> 1]
    /\ stale' = IF Crowded(ht) THEN stale \cup {key} ELSE stale

\* next(key)
Call(key) ==
    /\ calls' = [calls EXCEPT ![key] = @ + 1]
    /\ UNCHANGED hash
    /\ Hit(key) \/ Miss(key)

Total(f) == FoldFunction(+, 0, f)

Next == \E key \in Keys : Total(calls) < MaxCalls /\ Call(key)

Spec == Init /\ [][Next]_vars

-----------------------------------------------------------------------------
(* Properties *)

\* The table has buckets, and every value ever created is in exactly one place
\* of it: resize() loses none, and csv_ht_destroy() frees each of them once.  The
\* count that decides about resizing is the number of entries that are not the first
\* of their bucket, also after a resize.
NothingLost ==
    LET held == [i \in DOMAIN Entries(ht) |-> Entries(ht)[i].cell] IN
    /\ ht.size > 0 /\ DOMAIN ht.kvs = 0 .. ht.size - 1
    /\ Len(held) = Len(cells) /\ ToSet(held) = DOMAIN cells
    /\ \A e \in ToSet(Entries(ht)) : cells[e.cell].key = e.key
    /\ ht.collisions = Len(cells) - Cardinality({h \in DOMAIN ht.kvs : ht.kvs[h] # <<>>})

\* Entries that are not in the bucket where a lookup of their key looks.
Misplaced == {e \in ToSet(Entries(ht)) : e \notin ToSet(Chain(hash, ht, e.key))}

\* Only the entry that made the table grow can be out of place; the next
\* resize() moves it to where it belongs.
AtMostOneMisplaced == \A c, d \in Misplaced : c = d

\* A key whose insertion did not make the table grow has one counter, which
\* every later call finds, whatever happens to the table.
OtherKeysRight ==
    \A k \in Keys \ stale :
        /\ Cardinality({c \in DOMAIN cells : cells[c].key = k}) <= 1
        /\ result.key = k => result.value = calls[k]
        /\ \A c \in DOMAIN cells : cells[c].key = k => Known(k)

\* What the documentation says of `next`, "next integer from sequence": the
\* n-th call for a sequence name returns n.
NextCountsUp == result # None => result.value = calls[result.key]
=============================================================================
