------------------------------- MODULE Billing -------------------------------
(***************************************************************************)
(* What the renewals promise to the one who pays for the proxies, whatever *)
(* runs beside what and dies when.  A cycle is a lease and the date it is  *)
(* to be extended from.  A cycle is ordered at most once, and only when it *)
(* is the one that is due; a period is granted for an order only; success  *)
(* is told of granted cycles only and what is told is final; the pool shows*)
(* a date that was granted.                                                *)
(* ProxyRenewal implements it as long as the provider rotates no id.       *)
(***************************************************************************)
EXTENDS Naturals

CONSTANTS Lease, MaxDate

VARIABLES granted,   \* the provider's date of each lease
          shown,     \* the pool's date of each lease
          sent,      \* cycles with an order on its way
          refused,   \* cycles whose order was turned down
          won, lost  \* cycles told to have succeeded, to have failed

Date  == 0 .. MaxDate
money == <<granted, sent, refused>>
bill  == <<money, shown, won, lost>>

Init ==
  /\ granted = [l \in Lease |-> 0] /\ shown = [l \in Lease |-> 0]
  /\ sent = {} /\ refused = {} /\ won = {} /\ lost = {}

Due(l) == <<l, granted[l]>>

Order(l) ==
  /\ Due(l) \notin sent \cup refused
  /\ sent' = sent \cup {Due(l)}
  /\ UNCHANGED <<granted, refused, shown, won, lost>>

Grant(l) ==
  /\ Due(l) \in sent
  /\ sent' = sent \ {Due(l)}
  /\ granted' = [granted EXCEPT ![l] = @ + 1]
  /\ UNCHANGED <<refused, shown, won, lost>>

\* The cycle is not ordered again: an operator has to look at it.
Refuse(c) ==
  /\ c \in sent
  /\ sent' = sent \ {c} /\ refused' = refused \cup {c}
  /\ UNCHANGED <<granted, shown, won, lost>>

Succeed(c) ==
  /\ c[2] < granted[c[1]] /\ c \notin lost
  /\ won' = won \cup {c}
  /\ UNCHANGED <<money, shown, lost>>

\* Failure says nothing about the money: the order may be on its way, granted
\* or not sent yet.
Fail(c) ==
  /\ c \notin won
  /\ lost' = lost \cup {c}
  /\ UNCHANGED <<money, shown, won>>

\* The date shown may go back: a list may be older than the date it replaces.
Show(l) ==
  /\ \E d \in 0 .. granted[l] : shown' = [shown EXCEPT ![l] = d]
  /\ UNCHANGED <<money, won, lost>>

Next ==
  \/ \E l \in Lease : Order(l) \/ Grant(l) \/ Show(l)
  \/ \E c \in Lease \X Date : Refuse(c) \/ Succeed(c) \/ Fail(c)

Spec == Init /\ [][Next]_bill
=============================================================================
