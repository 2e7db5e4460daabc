------------------------- MODULE PanelNotifications -------------------------
(***************************************************************************)
(* panel_notifications: the table through which the controller shows things*)
(* to the operators.  Producers insert rows; PanelBot claims a batch, sends*)
(* each row to its targets and finishes it by compare-and-set; rows left   *)
(* 'running' for ten minutes go back to 'new'.  The notifications about    *)
(* unanswered clients can be switched off: the command clears the setting, *)
(* then the pending rows, while the loop that produces them is a task of   *)
(* its own.                                                                *)
(***************************************************************************)
EXTENDS Naturals, FiniteSetsExt

CONSTANTS MaxNotes,   \* bound: rows ever inserted
          Batch       \* LIMIT of a claim

VARIABLES
  note,     \* panel_notifications: kind and status
  enabled,  \* the setting unanswered_panel_notifications_enabled
  producer, \* _tpilot_unanswered_loop: idle, or it has read the setting
  hand,     \* the loop of PanelBot: the claimed rows, the row being sent
  shown,    \* history: how often a row was shown
  lost      \* history: how often the finish of a shown row was lost

nvars == <<note, enabled, producer, hand, shown, lost>>

Note == 1 .. MaxNotes
Free == [rest |-> {}, cur |-> 0, got |-> FALSE, ok |-> FALSE]

Init ==
  /\ note = [n \in Note |-> [kind |-> "other", status |-> "none"]]
  /\ enabled = TRUE
  /\ producer = "idle"
  /\ hand = Free
  /\ shown = [n \in Note |-> 0]
  /\ lost = [n \in Note |-> 0]

In(s)        == {n \in Note : note[n].status = s}
Pending(k)   == {n \in In("new") \cup In("running") : note[n].kind = k}
SetAll(N, s) == note' = [n \in Note |-> IF n \in N THEN [note[n] EXCEPT !.status = s]
                                                   ELSE note[n]]

-----------------------------------------------------------------------------
(* The controller.                                                         *)

\* _create_panel_notification: nothing is inserted when the same text is pending.
Insert(k) ==
  \/ /\ In("none") # {}
     /\ note' = [note EXCEPT ![Min(In("none"))] = [kind |-> k, status |-> "new"]]
  \/ Pending(k) # {} /\ UNCHANGED note

ProduceOther ==
  /\ Insert("other")
  /\ UNCHANGED <<enabled, producer, hand, shown, lost>>

\* The loop has sent its alert and finds the notifications enabled.
ReadEnabled ==
  /\ producer = "idle" /\ enabled
  /\ producer' = "creating"
  /\ UNCHANGED <<note, enabled, hand, shown, lost>>

\* A setting that cannot be read counts as enabled.
MisreadEnabled ==
  /\ producer = "idle" /\ ~enabled
  /\ producer' = "creating"
  /\ UNCHANGED <<note, enabled, hand, shown, lost>>

CreateUnanswered ==
  /\ producer = "creating"
  /\ Insert("unanswered")
  /\ producer' = "idle"
  /\ UNCHANGED <<enabled, hand, shown, lost>>

SetEnabled(b) ==
  /\ enabled' = b
  /\ UNCHANGED <<note, producer, hand, shown, lost>>

\* Mutant: only the rows nobody has claimed are cleared.
ClearNew ==
  /\ SetAll(Pending("unanswered") \cap In("new"), "done")
  /\ UNCHANGED <<enabled, producer, hand, shown, lost>>

\* _clear_pending_unanswered_panel_notifications.
ClearPending ==
  /\ SetAll(Pending("unanswered"), "done")
  /\ UNCHANGED <<enabled, producer, hand, shown, lost>>

CrashProducer ==
  /\ producer' = "idle"
  /\ UNCHANGED <<note, enabled, hand, shown, lost>>

-----------------------------------------------------------------------------
(* _panel_notification_loop of PanelBot.                                   *)

\* Mutant: the reaper is a task of its own.
ReapInFlight ==
  /\ \E S \in (SUBSET In("running")) \ {{}} : SetAll(S, "new")
  /\ UNCHANGED <<enabled, producer, hand, shown, lost>>

\* Mutant: no reaper.
ReapNever == hand = Free /\ UNCHANGED nvars

\* Between two batches: rows 'running' for more than ten minutes, which may be any
\* of them.
ReapNotes ==
  /\ hand = Free
  /\ \E S \in (SUBSET In("running")) \ {{}} : SetAll(S, "new")
  /\ UNCHANGED <<enabled, producer, hand, shown, lost>>

\* The oldest rows, at most Batch.
TakeNotes ==
  /\ hand = Free
  /\ In("new") # {}
  /\ LET claimed == {n \in In("new") :
                       Cardinality({m \in In("new") : m < n}) < Batch} IN
       /\ SetAll(claimed, "running")
       /\ hand' = [hand EXCEPT !.rest = claimed]
  /\ UNCHANGED <<enabled, producer, shown, lost>>

\* One row goes out to the targets.  It counts as sent when a target got it and a
\* fresh panel after it, or when there is no target at all.
Send ==
  /\ hand.cur = 0 /\ hand.rest # {}
  /\ LET n == Min(hand.rest) IN
       \E got, ok \in BOOLEAN :
         /\ hand' = [rest |-> hand.rest \ {n}, cur |-> n, got |-> got, ok |-> ok]
         /\ shown' = [shown EXCEPT ![n] = IF got THEN @ + 1 ELSE @]
  /\ UNCHANGED <<note, enabled, producer, lost>>

\* Mutant: a status no reader knows.
FinishNoteFailed ==
  /\ hand.cur # 0
  /\ SetAll({hand.cur} \cap In("running"), IF hand.ok THEN "done" ELSE "failed")
  /\ hand' = [Free EXCEPT !.rest = hand.rest]
  /\ UNCHANGED <<enabled, producer, shown, lost>>

\* _finish_panel_notification: only a row still 'running' is written.
FinishNote ==
  /\ hand.cur # 0
  /\ SetAll({hand.cur} \cap In("running"), IF hand.ok THEN "done" ELSE "error")
  /\ hand' = [Free EXCEPT !.rest = hand.rest]
  /\ UNCHANGED <<enabled, producer, shown, lost>>

LoseCur == lost' = [n \in Note |-> lost[n] + (IF hand.got /\ n = hand.cur THEN 1 ELSE 0)]

\* _finish_panel_notification swallows its errors.
FinishNoteFails ==
  /\ hand.cur # 0
  /\ LoseCur
  /\ hand' = [Free EXCEPT !.rest = hand.rest]
  /\ UNCHANGED <<note, enabled, producer, shown>>

\* PanelBot dies with a batch in hand.
CrashBot ==
  /\ hand # Free
  /\ LoseCur
  /\ hand' = Free
  /\ UNCHANGED <<note, enabled, producer, shown>>

BotStep == ReapNotes \/ TakeNotes \/ Send \/ FinishNote

-----------------------------------------------------------------------------

TypeOK ==
  /\ note \in [Note -> [kind : {"other", "unanswered"},
                        status : {"none", "new", "running", "done", "error"}]]
  /\ enabled \in BOOLEAN
  /\ producer \in {"idle", "creating"}
  /\ hand \in [rest : SUBSET Note, cur : 0 .. MaxNotes,
             got : BOOLEAN, ok : BOOLEAN]
  /\ shown \in [Note -> Nat] /\ lost \in [Note -> Nat]

\* A notification is shown once more for every finish that was lost after it had been
\* shown, and never else.
ShownOncePerLoss == \A n \in Note : shown[n] <= 1 + lost[n]
=============================================================================
