--------------------------- MODULE PanelCommands ---------------------------
(***************************************************************************)
(* panel_commands: the table through which PanelBot asks the controller to *)
(* do something (panel_bridge.py).  The bot inserts a row, and then only   *)
(* reads it until its own timeout.  One task of the controller,            *)
(* _panel_command_loop, takes the oldest row, runs its handler and records *)
(* the result; now and then it reaps the rows left 'running' for an hour.  *)
(***************************************************************************)
EXTENDS Naturals, FiniteSetsExt

CONSTANTS MaxCmds,    \* bound: rows ever inserted
          MaxFaults   \* bound: crashes and failing statements

ASSUME CmdAssumption == MaxCmds \in Nat /\ MaxFaults \in Nat

Cmd == 1 .. MaxCmds   \* AUTOINCREMENT ids

VARIABLES
  row,     \* panel_commands: the status of each row
  exec,    \* history: what became of the handler of each row
  loop,    \* the command loop: where it is, its row, the handler's result
  faults

vars == <<row, exec, loop, faults>>

Idle  == [pc |-> "idle", cmd |-> 0, ok |-> FALSE]
Fault == faults < MaxFaults /\ faults' = faults + 1

Init ==
  /\ row = [c \in Cmd |-> "none"]
  /\ exec = [c \in Cmd |-> "no"]
  /\ loop = Idle
  /\ faults = 0

With(s)      == {c \in Cmd : row[c] = s}
SetAll(C, s) == row' = [c \in Cmd |-> IF c \in C THEN s ELSE row[c]]

-----------------------------------------------------------------------------
(* PanelBot.                                                               *)

\* submit_panel_command.  Whether the bot then waits long enough for the answer
\* changes nothing: a row it has given up on is carried out all the same.
Submit ==
  /\ With("none") # {}
  /\ SetAll({Min(With("none"))}, "new")
  /\ UNCHANGED <<exec, loop, faults>>

-----------------------------------------------------------------------------
(* _panel_command_loop.                                                    *)

\* take_next_panel_command commits and reads the row again; if that raises, the
\* row stays 'running' and nobody has it in hand.
TakeNext ==
  /\ loop.pc = "idle"
  /\ With("new") # {}
  /\ LET c == Min(With("new")) IN
       /\ SetAll({c}, "running")
       /\ \/ loop' = [Idle EXCEPT !.pc = "taken", !.cmd = c] /\ UNCHANGED faults
          \/ Fault /\ UNCHANGED loop
  /\ UNCHANGED <<exec>>

Begin ==
  /\ loop.pc = "taken"
  /\ loop' = [loop EXCEPT !.pc = "running"]
  /\ exec' = [exec EXCEPT ![loop.cmd] = "begun"]
  /\ UNCHANGED <<row, faults>>

\* The handler returns ok or an error, or it raises.
End ==
  /\ loop.pc = "running"
  /\ \/ /\ loop' = [loop EXCEPT !.pc = "finish", !.ok = TRUE]
        /\ exec' = [exec EXCEPT ![loop.cmd] = "ok"]
     \/ /\ \E p \in {"finish", "refinish"} : loop' = [loop EXCEPT !.pc = p]
        /\ exec' = [exec EXCEPT ![loop.cmd] = "error"]
  /\ UNCHANGED <<row, faults>>

\* finish_panel_command writes by id, whatever the status.
Finish ==
  /\ loop.pc = "finish"
  /\ \/ /\ SetAll({loop.cmd}, IF loop.ok THEN "done" ELSE "error")
        /\ loop' = Idle
        /\ UNCHANGED faults
     \/ /\ Fault
        /\ loop' = [loop EXCEPT !.pc = "refinish"]
        /\ UNCHANGED row
  /\ UNCHANGED <<exec>>

\* The except branch records an error; when that raises too, the row stays
\* 'running'.
FinishAsError ==
  /\ loop.pc = "refinish"
  /\ loop' = Idle
  /\ \/ SetAll({loop.cmd}, "error") /\ UNCHANGED faults
     \/ Fault /\ UNCHANGED row
  /\ UNCHANGED <<exec>>

\* Mutant: an abandoned row is queued again.
ReapRequeues ==
  /\ loop.pc = "idle"
  /\ \E C \in (SUBSET With("running")) \ {{}} : SetAll(C, "new")
  /\ UNCHANGED <<exec, loop, faults>>

\* reap_stale_running_panel_commands, between two commands: rows 'running' for more
\* than an hour, which may be any of them.
Reap ==
  /\ loop.pc = "idle"
  /\ \E C \in (SUBSET With("running")) \ {{}} : SetAll(C, "error")
  /\ UNCHANGED <<exec, loop, faults>>

\* The controller dies and is started again.
CrashLoop ==
  /\ Fault
  /\ loop' = Idle
  /\ UNCHANGED <<row, exec>>

LoopStep == TakeNext \/ Begin \/ Finish \/ FinishAsError

-----------------------------------------------------------------------------

TypeOK ==
  /\ row \in [Cmd -> {"none", "new", "running", "done", "error"}]
  /\ exec \in [Cmd -> {"no", "begun", "ok", "error"}]
  /\ loop \in [pc : {"idle", "taken", "running", "finish", "refinish"},
               cmd : 0 .. MaxCmds, ok : BOOLEAN]
  /\ faults \in 0 .. MaxFaults

\* What the status column tells about a request.
Tells == [none |-> "none", new |-> "asked", running |-> "accepted",
          done |-> "ok", error |-> "failed"]
Told  == [c \in Cmd |-> Tells[row[c]]]

Abstract == INSTANCE Request WITH MaxReq <- MaxCmds, told <- Told, exec <- exec

\* The bridge implements Request: a handler is never begun twice, not even when
\* its result could not be written, a crash cut it short or the row was reaped;
\* rows are taken in order; 'done' means the handler returned ok; a final status
\* stays; every row gets one.
BridgeImplementsRequest == Abstract!Spec
=============================================================================
