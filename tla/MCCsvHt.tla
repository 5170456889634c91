------------------------------ MODULE MCCsvHt -------------------------------
(* CsvHt with constants from the configuration. *)
EXTENDS CsvHt
=============================================================================
