----------------------------- MODULE RegexCache -----------------------------
(***************************************************************************)
(* The cache of compiled regular expressions (src/src/regex_cache.c) as a  *)
(* value: a ring of slots, `used` of which are filled, and the slot that   *)
(* is overwritten next.  An expression is found by its text and its flags. *)
(***************************************************************************)
EXTENDS Integers, FiniteSets

CONSTANTS
    CacheSize,      \* CACHE_SIZE
    Regcomp(_, _),  \* regcomp() of a text with flags: a function from the texts
                    \* that match to their groups, from 0 on, or BadRegex
    BadRegex        \* what does not compile

ASSUME CacheSizeAssumption == CacheSize \in Nat \ {0}

Entry(regex, cflags) == [regex |-> regex, cflags |-> cflags, comp |-> Regcomp(regex, cflags)]

\* Slots are filled in turn: those from `used` on are not there yet.
EmptyCache == [slots |-> [i \in {} |-> BadRegex], used |-> 0, next |-> 0]

\* The filled slots that hold an expression
Found(c, regex, cflags) ==
    {i \in 0 .. c.used - 1 : c.slots[i].regex = regex /\ c.slots[i].cflags = cflags}

\* Mutant: a slot that is used again keeps its compiled expression.
FilledKeepingComp(c, entry) ==
    [i \in (DOMAIN c.slots) \cup {c.next} |->
        IF i # c.next THEN c.slots[i]
        ELSE IF i \in DOMAIN c.slots THEN [entry EXCEPT !.comp = c.slots[i].comp] ELSE entry]
Filled(c, entry) ==
    [i \in (DOMAIN c.slots) \cup {c.next} |-> IF i = c.next THEN entry ELSE c.slots[i]]

\* csv_regex_get() of an expression that compiles: the cache afterwards.  (After
\* a failure the slot is empty, but every caller exits.)
Cached(c, regex, cflags) ==
    IF Found(c, regex, cflags) # {} THEN c
    ELSE [slots |-> Filled(c, Entry(regex, cflags)),
          used |-> IF c.used # CacheSize THEN c.used + 1 ELSE c.used,
          next |-> IF c.next + 1 = CacheSize THEN 0 ELSE c.next + 1]

\* ... and the compiled expression it returns: that of the first slot found, or
\* of the one that was filled.
Compiled(c, regex, cflags) ==
    LET found == Found(c, regex, cflags) IN
    IF found = {} THEN Cached(c, regex, cflags).slots[c.next].comp
    ELSE c.slots[CHOOSE i \in found : \A j \in found : i <= j].comp
=============================================================================
