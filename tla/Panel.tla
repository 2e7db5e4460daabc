------------------------------- MODULE Panel -------------------------------
(***************************************************************************)
(* PanelBot and the controller: the commands one way, the notifications    *)
(* the other.  They meet in /unanswered_notify, a command whose handler    *)
(* writes the setting and then clears the pending notifications, while the *)
(* producer and the bot go on; a crash of the controller takes the handler *)
(* and the producer with it.                                               *)
(***************************************************************************)
EXTENDS PanelCommands

CONSTANTS MaxNotes, Batch

ASSUME NoteAssumption == MaxNotes \in Nat /\ Batch \in Nat \ {0}

VARIABLES note, enabled, producer, hand, shown, lost,
          step,    \* the handler in progress
          excused  \* history: after an "off", a failure may have left rows pending

N == INSTANCE PanelNotifications

nvars == <<note, enabled, producer, hand, shown, lost>>
hvars == <<step, excused>>
all   == <<vars, nvars, hvars>>

PanelInit ==
  /\ Init /\ N!Init
  /\ step = "none"
  /\ excused = FALSE

\* _handle_unanswered_notify_command, when that is the command of the row.
HandleSet ==
  /\ loop.pc = "running" /\ step = "none"
  /\ \E b \in {"on", "off"} : N!SetEnabled(b = "on") /\ step' = b
  /\ UNCHANGED <<vars, excused>>

HandleClear ==
  /\ loop.pc = "running" /\ step = "off"
  /\ N!ClearPending
  /\ step' = "cleared"
  /\ excused' = FALSE
  /\ UNCHANGED vars

\* An error in the clearing is swallowed: the handler reports success.
HandleClearFails ==
  /\ loop.pc = "running" /\ step = "off"
  /\ Fault
  /\ step' = "cleared"
  /\ excused' = TRUE
  /\ UNCHANGED <<row, exec, loop, nvars>>

\* The handler is done, or it raised half way; a row of another command never had a
\* step.
HandlerEnds ==
  /\ End
  /\ exec'[loop.cmd] = "ok" => step # "off"
  /\ step' = "none"
  /\ excused' = (step = "off" \/ (excused /\ step # "on"))
  /\ UNCHANGED nvars

\* Both tasks of the controller are lost.
ControllerCrashes ==
  /\ CrashLoop
  /\ N!CrashProducer
  /\ step' = "none"
  /\ excused' = (step = "off" \/ excused)

CommandStep ==
  /\ Submit \/ LoopStep \/ Reap
  /\ UNCHANGED <<nvars, hvars>>

NoticeStep ==
  /\ N!ProduceOther \/ N!ReadEnabled \/ N!CreateUnanswered \/ N!BotStep
  /\ UNCHANGED <<vars, hvars>>

NoticeFault ==
  /\ Fault
  /\ N!FinishNoteFails \/ N!CrashBot
  /\ UNCHANGED <<row, exec, loop, hvars>>

SettingMisread ==
  /\ Fault
  /\ N!MisreadEnabled
  /\ excused' = TRUE
  /\ UNCHANGED <<row, exec, loop, step>>

PanelNext ==
  \/ CommandStep \/ NoticeStep \/ NoticeFault \/ SettingMisread
  \/ HandleSet \/ HandleClear \/ HandleClearFails \/ HandlerEnds \/ ControllerCrashes

\* The two loops run on (systemd restarts their processes), time passes, and the
\* handler comes to an end.
PanelFairness ==
  /\ WF_all(LoopStep /\ UNCHANGED <<nvars, hvars>>)
  /\ WF_all(HandleSet \/ HandleClear \/ HandleClearFails \/ HandlerEnds)
  /\ WF_all(Reap /\ UNCHANGED <<nvars, hvars>>)
  /\ WF_all(N!BotStep /\ UNCHANGED <<vars, hvars>>)

PanelSpec == PanelInit /\ [][PanelNext]_all /\ PanelFairness

-----------------------------------------------------------------------------

PanelTypeOK ==
  /\ TypeOK /\ N!TypeOK
  /\ step \in {"none", "on", "off", "cleared"}
  /\ excused \in BOOLEAN

NotificationsShownOnce == N!ShownOncePerLoss

\* Once an "off" has gone through, at most one notification about unanswered clients
\* is pending: the one of the producer that had read the setting before.  (What the
\* bot holds already is cleared in the table and still sent; a failure of the
\* clearing, or in reading the setting, lets others through.)
OffIsQuiet ==
  ~enabled /\ step # "off" /\ ~excused
    => Cardinality(N!Pending("unanswered") \cup
                   (IF producer = "idle" THEN {} ELSE {0})) <= 1

\* Every notification is shown, given up or cleared, whatever crashes.
NoticesSettle ==
  \A n \in N!Note :
    note[n].status = "new" ~> note[n].status \in {"done", "error"}
=============================================================================
