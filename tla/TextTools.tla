----------------------------- MODULE TextTools ------------------------------
(***************************************************************************)
(* Functions of src/src/utils.c on texts: substrings counted from 1 like   *)
(* in SQL, and the replacement of a string.                                *)
(***************************************************************************)
EXTENDS RowStreams

CONSTANTS
    Percent,    \* the letter %
    Lower(_)    \* tolower()

-----------------------------------------------------------------------------
\* SIZE_MAX
SizeMax == 2 * MaxInt + 1

\* Mutant: the first character has the number 0.
PositionFromOne(text, start) ==
    IF start < 0 THEN (IF start + Len(text) < 0 THEN 0 ELSE start + Len(text))
    ELSE IF start > Len(text) THEN Len(text) ELSE start
\* The characters before `start`: a negative one counts from the end of the text.
Position(text, start) ==
    IF start < 0 THEN (IF start + Len(text) < 0 THEN 0 ELSE start + Len(text))
    ELSE LET before == IF start > 0 THEN start - 1 ELSE 0
         IN IF before >= Len(text) THEN Len(text) ELSE before

\* csv_substring_sanitize(), strndup(): for start 0 the length is one less, also
\* when it is 0.
Substring(text, start, length) ==
    LET from == Position(text, start)
        n == IF start = 0 THEN (length - 1) % (SizeMax + 1) ELSE length
        end == IF from + n > SizeMax \/ from + n >= Len(text) THEN Len(text) ELSE from + n
    IN SubSeq(text, from + 1, end)

-----------------------------------------------------------------------------
Alike(letter, other, sensitive) ==
    letter = other \/ (~sensitive /\ Lower(letter) = Lower(other))

OccursAt(text, pattern, i, sensitive) ==
    /\ i + Len(pattern) - 1 <= Len(text)
    /\ \A k \in DOMAIN pattern : Alike(text[i + k - 1], pattern[k], sensitive)

\* csv_str_replace() of a pattern that is not empty
StrReplace(text, pattern, replacement, sensitive) ==
    LET rest[i \in 1 .. Len(text) + 1] ==
            IF i > Len(text) THEN Empty
            ELSE IF OccursAt(text, pattern, i, sensitive) THEN replacement \o rest[i + Len(pattern)]
            ELSE <<text[i]>> \o rest[i + 1]
    IN rest[1]
=============================================================================
