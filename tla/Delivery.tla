------------------------------- MODULE Delivery -------------------------------
(***************************************************************************)
(* What the queues to the runtimes promise to those who put commands there.*)
(* Delivery is at least once: a command is begun again only after an       *)
(* execution was lost.  It is begun neither late nor before an older one   *)
(* still in line.  Success is told of a command that returned ok, and then *)
(* its execution is never lost nor repeated; failure promises nothing, the *)
(* command may have been executed and may be executed yet.                 *)
(* ManagerQueue implements it.                                             *)
(***************************************************************************)
EXTENDS Naturals

CONSTANTS Manager, Cmd

VARIABLES asked,   \* the commands ever put for each manager
          line,    \* those nobody has touched yet
          late,    \* commands past their deadline
          kept,    \* executions of a command that were not lost
          good,    \* commands with an execution that returned ok
          told     \* what the one who asked has been told

work == <<kept, good>>
all  == <<asked, line, late, work, told>>

Init ==
  /\ asked = [m \in Manager |-> {}] /\ line = [m \in Manager |-> {}]
  /\ late = {} /\ good = {}
  /\ kept = [c \in Cmd |-> 0] /\ told = [c \in Cmd |-> "none"]

Ask(m, c) ==
  /\ told[c] = "none"
  /\ \A n \in Manager : \A d \in asked[n] : d < c
  /\ asked' = [asked EXCEPT ![m] = @ \cup {c}]
  /\ line' = [line EXCEPT ![m] = @ \cup {c}]
  /\ told' = [told EXCEPT ![c] = "waiting"]
  /\ UNCHANGED <<late, work>>

Pick(m, c) ==
  /\ c \in line[m] /\ \A d \in line[m] : c <= d
  /\ line' = [line EXCEPT ![m] = @ \ {c}]
  /\ UNCHANGED <<asked, late, work, told>>

GetsLate(m, c) ==
  /\ c \in asked[m] \ late
  /\ late' = late \cup {c}
  /\ line' = [line EXCEPT ![m] = @ \ {c}]
  /\ UNCHANGED <<asked, work, told>>

\* The whole line of a manager that is given up.
Drop(m) ==
  /\ line[m] # {}
  /\ line' = [line EXCEPT ![m] = {}]
  /\ UNCHANGED <<asked, late, work, told>>

Begin(m, c) ==
  /\ kept[c] = 0
  /\ c \in asked[m] \ late
  /\ \A d \in line[m] : c < d
  /\ kept' = [kept EXCEPT ![c] = 1]
  /\ UNCHANGED <<asked, line, late, good, told>>

ReturnOk(c) ==
  /\ c \notin good /\ kept[c] = 1
  /\ good' = good \cup {c}
  /\ UNCHANGED <<asked, line, late, kept, told>>

Lose(c) ==
  /\ kept[c] = 1 /\ told[c] # "success"
  /\ kept' = [kept EXCEPT ![c] = 0]
  /\ UNCHANGED <<asked, line, late, good, told>>

TellSuccess(c) ==
  /\ told[c] = "waiting" /\ kept[c] = 1 /\ c \in good
  /\ told' = [told EXCEPT ![c] = "success"]
  /\ UNCHANGED <<asked, line, late, work>>

TellFailure(c) ==
  /\ told[c] = "waiting"
  /\ told' = [told EXCEPT ![c] = "failure"]
  /\ UNCHANGED <<asked, line, late, work>>

Next ==
  \/ \E m \in Manager, c \in Cmd :
       Ask(m, c) \/ Pick(m, c) \/ GetsLate(m, c) \/ Begin(m, c)
  \/ \E m \in Manager : Drop(m)
  \/ \E c \in Cmd : ReturnOk(c) \/ Lose(c) \/ TellSuccess(c) \/ TellFailure(c)

Spec == Init /\ [][Next]_all
=============================================================================
