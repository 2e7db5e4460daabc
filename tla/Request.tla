------------------------------ MODULE Request ------------------------------
(***************************************************************************)
(* What a queue of one-shot requests promises to the one who asks: each    *)
(* request is begun at most once, in the order asked; what is told about   *)
(* it is final, and "ok" is told only of what ran to its end; every request*)
(* is told about.  PanelCommands implements it.                            *)
(***************************************************************************)
EXTENDS Naturals

CONSTANT MaxReq       \* bound: requests ever asked

VARIABLES told,       \* what can be read about a request
          exec        \* what has happened to it

Req == 1 .. MaxReq

Init ==
  /\ told = [r \in Req |-> "none"]
  /\ exec = [r \in Req |-> "no"]

Ask(r) ==
  /\ told[r] = "none"
  /\ \A q \in 1 .. (r - 1) : told[q] # "none"
  /\ told' = [told EXCEPT ![r] = "asked"]
  /\ UNCHANGED exec

Accept(r) ==
  /\ told[r] = "asked"
  /\ \A q \in 1 .. (r - 1) : told[q] # "asked"
  /\ told' = [told EXCEPT ![r] = "accepted"]
  /\ UNCHANGED exec

Begin(r) ==
  /\ told[r] = "accepted" /\ exec[r] = "no"
  /\ exec' = [exec EXCEPT ![r] = "begun"]
  /\ UNCHANGED told

End(r) ==
  /\ told[r] = "accepted" /\ exec[r] = "begun"
  /\ \E e \in {"ok", "error"} : exec' = [exec EXCEPT ![r] = e]
  /\ UNCHANGED told

Succeed(r) ==
  /\ told[r] = "accepted" /\ exec[r] = "ok"
  /\ told' = [told EXCEPT ![r] = "ok"]
  /\ UNCHANGED exec

\* Failure may be told of several requests at once, and of one that was carried out,
\* was cut short or was never begun: its result was lost.
Fail(R) ==
  /\ \A r \in R : told[r] = "accepted"
  /\ told' = [r \in Req |-> IF r \in R THEN "failed" ELSE told[r]]
  /\ UNCHANGED exec

Answer(r) == Succeed(r) \/ \E R \in SUBSET Req : r \in R /\ Fail(R)

Next == \E r \in Req : Ask(r) \/ Accept(r) \/ Begin(r) \/ End(r) \/ Answer(r)

Safe == Init /\ [][Next]_<<told, exec>>

Spec ==
  /\ Safe
  /\ \A r \in Req : WF_<<told, exec>>(Accept(r)) /\ WF_<<told, exec>>(Answer(r))
=============================================================================
