--------------------------- MODULE MCManagerQueue ---------------------------
(* Small instances of ManagerQueue for TLC.  Two managers share nothing     *)
(* (every statement filters on target_manager_key), so one is enough.       *)
EXTENDS ManagerQueue

CONSTANT m1

OneManager == {m1}
=============================================================================
