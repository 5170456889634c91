----------------------------- MODULE MCShowUi ------------------------------
(* Values of the constants of ShowUi for TLC. *)
EXTENDS ShowUi

MCColumnLengths == {<<5>>, <<1, 4, 2>>}
=============================================================================
