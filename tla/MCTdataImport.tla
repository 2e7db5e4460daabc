--------------------------- MODULE MCTdataImport ---------------------------
(* An instance of TdataImport for TLC: one manager, two operations in turn.  *)
EXTENDS TdataImport
=============================================================================
