--------------------------- MODULE MCReplacement ---------------------------
(* Instances of Replacement for TLC: one operation, its two managers.        *)
EXTENDS Replacement
=============================================================================
