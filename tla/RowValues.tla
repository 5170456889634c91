----------------------------- MODULE RowValues ------------------------------
(***************************************************************************)
(* What the tools of RowTools compute of sequences, numbers and texts,     *)
(* whatever stream they come from.  What is proved of it is in SeqLemmas.  *)
(***************************************************************************)
EXTENDS Integers, Sequences, FiniteSets, SequencesExt

\* The elements of a sequence at the places of a set, in their order: what
\* SelectSeq() selects, of which the prover knows nothing
Those(s, places) ==
    LET those[k \in 0 .. Len(s)] ==
            IF k = 0 THEN <<>> ELSE IF k \in places THEN Append(those[k - 1], s[k]) ELSE those[k - 1]
    IN those[Len(s)]

\* Division of C by a positive number: towards zero
Quotient(n, d) == IF n < 0 THEN -((-n) \div d) ELSE n \div d

\* strcmp(s, t) < 0
Less(s, t) ==
    LET shared == {i \in DOMAIN s \cap DOMAIN t : SubSeq(s, 1, i) = SubSeq(t, 1, i)}
        n == Cardinality(shared)
    IN n < Len(t) /\ (n = Len(s) \/ s[n + 1] < t[n + 1])
=============================================================================
