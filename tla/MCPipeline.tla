----------------------------- MODULE MCPipeline -----------------------------
(* Streams of a header and up to two rows of two pieces each, some of them *)
(* cut off or corrupted. *)
EXTENDS Pipeline

Piece(row, last) == [row |-> row, last |-> last, bad |-> FALSE]
Header == <<Piece(0, TRUE)>>
Row(n) == <<Piece(n, FALSE), Piece(n, TRUE)>>
Table == Header \o Row(1) \o Row(2)
BadPiece == [row |-> 1, last |-> FALSE, bad |-> TRUE]

Whole == {<<>>, Header, Table}
Broken == {Header \o Row(1) \o <<Piece(2, FALSE)>>, Header \o <<BadPiece>> \o Row(2)}

Job(kinds, streams, codes, show, reads) ==
    [kind : kinds, stream : streams, ends : codes, show : show, reads : reads]

MCJobs ==
    Job({"show"}, Whole, {0, 2, Killed}, {TRUE}, {FALSE})
    \cup Job({"peek"}, Whole \cup Broken, {0, Killed}, BOOLEAN, {FALSE})
    \cup Job({"exec"}, Whole \cup Broken \cup {Table \o Row(3)}, {0, Killed}, {FALSE}, BOOLEAN)
=============================================================================
