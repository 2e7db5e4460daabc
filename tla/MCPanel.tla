------------------------------ MODULE MCPanel ------------------------------
(* A small instance of Panel for TLC.                                        *)
EXTENDS Panel
=============================================================================
