------------------------------ MODULE Exchange ------------------------------
(***************************************************************************)
(* What the imports promise about the session file of a manager.  An       *)
(* import that is done has put its own session there; one that has failed  *)
(* has left, or put back, the session it found.  From some failures nothing*)
(* recovers: such an import is waived, and then the file holds one of the  *)
(* two sessions, nobody says which.  TdataImport implements it.            *)
(***************************************************************************)
EXTENDS Naturals

CONSTANTS Op, Session

VARIABLES state,    \* of each import, in the order they began
          file,     \* the session in the manager's file
          saved,    \* the session each import found
          waived    \* imports that are not recovered from

Init ==
  /\ state = [o \in Op |-> "none"]
  /\ file \in Session
  /\ saved \in [Op -> Session]
  /\ waived = {}

Latest(o) == state[o] # "none" /\ \A p \in Op : p > o => state[p] = "none"

Open(o) ==
  /\ \A p \in Op : state[p] # "open" /\ (state[p] = "none" <=> p >= o)
  /\ state' = [state EXCEPT ![o] = "open"]
  /\ saved' = [saved EXCEPT ![o] = file]
  /\ UNCHANGED <<file, waived>>

Waive(o) == Latest(o) /\ waived' = waived \cup {o}

\* A finished import does not touch the file, unless it is waived.
PutIn(o) ==
  /\ Latest(o) /\ (state[o] = "open" \/ o \in waived')
  /\ file' = o
  /\ UNCHANGED waived \/ Waive(o)
  /\ UNCHANGED <<state, saved>>

PutBack(o) ==
  /\ Latest(o) /\ (state[o] = "open" \/ o \in waived)
  /\ file' = saved[o]
  /\ UNCHANGED <<state, saved, waived>>

GiveUp(o) == Waive(o) /\ UNCHANGED <<state, file, saved>>

Succeed(o) ==
  /\ state[o] = "open" /\ file = o
  /\ state' = [state EXCEPT ![o] = "done"]
  /\ UNCHANGED <<file, saved, waived>>

Fail(o) ==
  /\ state[o] = "open" /\ (file = saved[o] \/ o \in waived')
  /\ state' = [state EXCEPT ![o] = "failed"]
  /\ UNCHANGED waived \/ Waive(o)
  /\ UNCHANGED <<file, saved>>

Next == \E o \in Op : \/ Open(o) \/ PutIn(o) \/ PutBack(o) \/ GiveUp(o)
                      \/ Succeed(o) \/ Fail(o)

Spec == Init /\ [][Next]_<<state, file, saved, waived>>
=============================================================================
