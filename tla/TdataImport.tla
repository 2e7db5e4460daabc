---------------------------- MODULE TdataImport ----------------------------
(***************************************************************************)
(* Importing a Telegram session into a manager (tdata_import/service.py):  *)
(* an operation in tdata_import_ops unpacks and probes an uploaded session, *)
(* and on the operator's confirmation stops the manager, puts the session  *)
(* in place of the old one and starts it again; a failure puts everything  *)
(* back.  The commands of the panel run one at a time, each of them a      *)
(* coroutine of the controller; between its awaits run the stale sweep and *)
(* the recovery loop, which starts a manager it finds down.  The manager   *)
(* is a process of its own, and opens its session file a while after it    *)
(* was started.                                                            *)
(***************************************************************************)
EXTENDS Naturals, FiniteSetsExt

CONSTANTS MaxOps,     \* bound: operations ever created for the manager
          MaxFaults   \* bound: crashes and failing calls

ASSUME TdataAssumption == MaxOps \in Nat /\ MaxFaults \in Nat

Op       == 1 .. MaxOps
NoFile   == 0
OwnFile  == MaxOps + 1            \* the session the manager had before
Session  == 0 .. MaxOps + 1       \* o \in Op: the session operation o imported
Ended    == {"done", "error", "cancelled"}

\* Stages up to identity_checking are one, nothing tells them apart; so are
\* session_installed and runtime_starting.
Stage == {"early", "verified", "installing", "starting", "running"}

\* Mutant: the slice of the stages ends before identity_verified.
SweepableUnverified == {"early"}

\* The sweep closes what has not gone past identity_verified.
Sweepable == {"early", "verified"}

VARIABLES
  op,       \* tdata_import_ops: status and stage of each operation
  expired,  \* operations past their expires_at
  scratch,  \* operations whose work_root is still on disk
  cleaned,  \* cleanup_done
  session,  \* the manager's session file
  proc,     \* its runtime: is there a process, which session has it opened
  watched,  \* active, enabled and not stopped by hand: recovery looks after it
  job,      \* the panel command being executed
  rec,      \* where _manager_recovery_once is in spawning the manager
  before,   \* history: the session file when the operation began
  spoiled,  \* history: operations that nothing undoes (see FailureRestores)
  unclosed, \* history: operations whose confirmation ended without closing them
  faults

vars == <<op, expired, scratch, cleaned, session, proc, watched, job, rec,
          before, spoiled, unclosed, faults>>
rows    == <<op, expired, scratch, cleaned>>
history == <<before, spoiled, unclosed>>

\* backup: the copy install_session has made, NoFile if there was nothing to copy.
Idle    == [pc |-> "idle", op |-> 0, installed |-> FALSE, backup |-> NoFile, stopped |-> FALSE]
Down    == [up |-> FALSE, sess |-> NoFile]
Started == [up |-> TRUE, sess |-> NoFile]
Fault   == faults < MaxFaults /\ faults' = faults + 1

\* A new manager, or one that has a session and runs, has crashed or was stopped.
Init ==
  /\ op = [o \in Op |-> [status |-> "none", stage |-> "early"]]
  /\ expired = {} /\ scratch = {} /\ cleaned = {}
  /\ \/ session = NoFile /\ proc = Down /\ watched = FALSE
     \/ session = OwnFile /\ proc = [up |-> TRUE, sess |-> OwnFile] /\ watched = TRUE
     \/ session = OwnFile /\ proc = Down /\ watched \in BOOLEAN
  /\ job = Idle
  /\ rec = "idle"
  /\ before = [o \in Op |-> NoFile]
  /\ spoiled = {} /\ unclosed = {}
  /\ faults = 0

Active(o) == op[o].status = "active"

-----------------------------------------------------------------------------
(* storage.py: every write is a compare-and-set on an active operation.     *)

Advanced(o, st) == IF Active(o) THEN [op EXCEPT ![o].stage = st] ELSE op
Closed(o, s)    == IF Active(o) THEN [op EXCEPT ![o].status = s] ELSE op

\* Mutant: the mark goes to the operation of the command being executed.
CleanUpForJob(o) ==
  /\ cleaned' = cleaned \cup {job.op}
  /\ \/ scratch' = scratch \ {o} /\ UNCHANGED faults
     \/ Fault /\ UNCHANGED scratch

\* Mutant: the mark is set whether or not the files are gone.
CleanUpUnchecked(o) ==
  /\ cleaned' = cleaned \cup {o}
  /\ \/ scratch' = scratch \ {o} /\ UNCHANGED faults
     \/ Fault /\ UNCHANGED scratch

\* cleanup_work_root, cleanup_scratch_session, and the mark when both are gone; a
\* file cannot be deleted, or the mark cannot be written.
CleanUp(o) ==
  \/ /\ scratch' = scratch \ {o}
     /\ cleaned' = cleaned \cup {o}
     /\ UNCHANGED faults
  \/ Fault /\ scratch' \in {scratch, scratch \ {o}} /\ UNCHANGED cleaned

\* Between the files and the mark comes the write that closes the row; it may raise.
CleanUpAndClose(o) ==
  \/ CleanUp(o) /\ op' = Closed(o, "error")
  \/ Fault /\ scratch' \in {scratch, scratch \ {o}} /\ UNCHANGED <<op, cleaned>>

-----------------------------------------------------------------------------
(* /manager_tdimport_start.                                                 *)

\* The partial unique index admits one active operation of a manager.
StartImport ==
  /\ job = Idle
  /\ \A o \in Op : ~Active(o)
  /\ \E o \in Op : op[o].status = "none"
  /\ LET o == Min({p \in Op : op[p].status = "none"}) IN
       /\ op' = [op EXCEPT ![o].status = "active"]
       /\ scratch' = scratch \cup {o}
       /\ before' = [before EXCEPT ![o] = session]
       /\ job' = [Idle EXCEPT !.pc = "probe", !.op = o]
  /\ UNCHANGED <<expired, cleaned, session, proc, watched, rec, spoiled, unclosed, faults>>

IdentityVerified ==
  /\ job.pc = "probe"
  /\ op' = Advanced(job.op, "verified")
  /\ job' = Idle
  /\ UNCHANGED <<expired, scratch, cleaned, session, proc, watched, rec, history, faults>>

\* A bad archive, a dead proxy, an unauthorised session, a timeout.
StartFails ==
  /\ job.pc = "probe"
  /\ CleanUpAndClose(job.op)
  /\ job' = Idle
  /\ UNCHANGED <<expired, session, proc, watched, rec, history>>

-----------------------------------------------------------------------------
(* /manager_tdimport_confirm: up to the point of no return.                 *)

\* Not at identity_verified, or the proxy is down: the operation is closed.
ConfirmRefused(o) ==
  /\ job = Idle
  /\ Active(o)
  /\ op' = Closed(o, "error")
  /\ UNCHANGED <<expired, scratch, cleaned, session, proc, watched, job, rec, history, faults>>

ConfirmBegin(o) ==
  /\ job = Idle
  /\ Active(o) /\ op[o].stage = "verified"
  /\ o \in scratch
  /\ job' = [Idle EXCEPT !.pc = "look", !.op = o]
  /\ UNCHANGED <<rows, session, proc, watched, rec, history, faults>>

\* An unreadable process list counts as running.
LookRunning ==
  /\ job.pc = "look"
  /\ \/ ~proc.up /\ job' = [job EXCEPT !.pc = "install"] /\ UNCHANGED faults
     \/ proc.up /\ job' = [job EXCEPT !.pc = "stop"] /\ UNCHANGED faults
     \/ Fault /\ job' = [job EXCEPT !.pc = "stop"]
  /\ UNCHANGED <<rows, session, proc, watched, rec, history>>

\* _tdimport_stop_runtime drops the result of the stop it awaits.
StopAt(pc, next) ==
  /\ job.pc = pc
  /\ \/ proc' = Down /\ UNCHANGED faults
     \/ proc.up /\ Fault /\ UNCHANGED proc
  /\ job' = [job EXCEPT !.pc = next]
  /\ UNCHANGED <<rows, session, watched, rec, history>>

StopRuntime == StopAt("stop", "poll")

PollStopped ==
  /\ job.pc = "poll"
  /\ \/ ~proc.up /\ job' = [job EXCEPT !.pc = "install", !.stopped = TRUE] /\ UNCHANGED faults
     \/ proc.up /\ job' = [job EXCEPT !.pc = "failed"] /\ UNCHANGED faults
     \/ Fault /\ job' = [job EXCEPT !.pc = "failed"]
  /\ UNCHANGED <<rows, session, proc, watched, rec, history>>

-----------------------------------------------------------------------------
(* The installation, from session_installing to runtime_running.            *)

\* install_session backs the old file up and moves the new one over it.  The
\* stage moves on only if the operation is still active, the file in any case.
Install ==
  /\ job.pc = "install"
  /\ job.op \in scratch
  /\ session' = job.op
  /\ op' = Advanced(job.op, "starting")
  /\ LET placed == [job EXCEPT !.installed = TRUE, !.backup = session] IN
       \/ job' = [placed EXCEPT !.pc = "spawn"] /\ UNCHANGED faults
       \/ Fault /\ job' = [placed EXCEPT !.pc = "failed"]
  /\ spoiled' = IF Active(job.op) THEN spoiled ELSE spoiled \cup {job.op}
  /\ UNCHANGED <<expired, scratch, cleaned, proc, watched, rec, before, unclosed>>

\* The source is gone, or the backup, the move or the write before them fails;
\* or the file has moved, its journal cannot follow, and there is no backup to
\* put back or it cannot be copied.
InstallFails ==
  /\ job.pc = "install"
  /\ \/ /\ job.op \notin scratch
        /\ op' = Advanced(job.op, "installing")
        /\ UNCHANGED <<session, spoiled, faults>>
     \/ /\ Fault
        /\ op' \in {op, Advanced(job.op, "installing")}
        /\ UNCHANGED <<session, spoiled>>
     \/ /\ job.op \in scratch /\ Fault
        /\ op' = Advanced(job.op, "installing")
        /\ session' = job.op
        /\ spoiled' = spoiled \cup {job.op}
  /\ job' = [job EXCEPT !.pc = "failed"]
  /\ UNCHANGED <<expired, scratch, cleaned, proc, watched, rec, before, unclosed>>

\* Mutant: it goes on to the start whether or not the stop worked.
SpawnStopsUnchecked ==
  /\ job.pc \in {"spawn", "respawn"}
  /\ \/ proc' = Down /\ UNCHANGED faults
     \/ Fault /\ UNCHANGED proc
  /\ job' = [job EXCEPT !.pc = IF job.pc = "spawn" THEN "start" ELSE "restart"]
  /\ UNCHANGED <<rows, session, watched, rec, history>>

\* _spawn_manager_process stops what runs, and starts nothing unless that worked.
SpawnStops ==
  /\ job.pc \in {"spawn", "respawn"}
  /\ \/ proc' = Down /\ job' = [job EXCEPT !.pc = IF job.pc = "spawn" THEN "start" ELSE "restart"]
        /\ UNCHANGED faults
     \/ /\ Fault
        /\ job' = [job EXCEPT !.pc = IF job.pc = "spawn" THEN "failed" ELSE "close"]
        /\ UNCHANGED proc
  /\ UNCHANGED <<rows, session, watched, rec, history>>

\* A process that recovery has started meanwhile is left alone; systemd calls
\* that a success, the plain fallback an error.
SpawnStarts ==
  /\ job.pc \in {"start", "restart"}
  /\ \/ /\ proc' = IF proc.up THEN proc ELSE Started
        /\ job' = [job EXCEPT !.pc = IF job.pc = "start" THEN "ready" ELSE "close"]
        /\ UNCHANGED faults
     \/ /\ \/ proc.up /\ UNCHANGED faults
           \/ Fault
        /\ job' = [job EXCEPT !.pc = IF job.pc = "start" THEN "failed" ELSE "close"]
        /\ UNCHANGED proc
  /\ UNCHANGED <<rows, session, watched, rec, history>>

\* The runtime has answered a ping; the last writes and the clean-up follow.
Complete ==
  /\ job.pc = "ready"
  /\ proc.up /\ proc.sess # NoFile
  /\ op' = IF Active(job.op)
           THEN [op EXCEPT ![job.op] = [status |-> "done", stage |-> "running"]] ELSE op
  /\ CleanUp(job.op)
  /\ job' = Idle
  /\ UNCHANGED <<expired, session, proc, watched, rec, history>>

NotReady ==
  /\ job.pc = "ready"
  /\ job' = [job EXCEPT !.pc = "failed"]
  /\ UNCHANGED <<rows, session, proc, watched, rec, history, faults>>

\* One of the last writes raises: runtime_running is past what is rolled back.  The
\* write that then closes the row may raise as well.
CompleteFails ==
  /\ job.pc = "ready"
  /\ proc.up /\ proc.sess # NoFile
  /\ Fault
  /\ \/ op' = Closed(job.op, "error") /\ UNCHANGED unclosed
     \/ op' \in {op, Advanced(job.op, "running")} /\ unclosed' = unclosed \cup {job.op}
  /\ spoiled' = spoiled \cup {job.op}
  /\ job' = Idle
  /\ UNCHANGED <<expired, scratch, cleaned, session, proc, watched, rec, before>>

-----------------------------------------------------------------------------
(* The except branch of confirm_install.                                    *)

\* Mutant: the two branches are tried in the other order.
RestartOrUndo ==
  /\ job.pc = "failed"
  /\ job' = [job EXCEPT !.pc = IF job.stopped THEN "respawn"
                               ELSE IF job.installed THEN "undo" ELSE "close"]
  /\ UNCHANGED <<rows, session, proc, watched, rec, history, faults>>

UndoOrClose ==
  /\ job.pc = "failed"
  /\ job' = [job EXCEPT !.pc = IF job.installed THEN "undo"
                               ELSE IF job.stopped THEN "respawn" ELSE "close"]
  /\ UNCHANGED <<rows, session, proc, watched, rec, history, faults>>

UndoStops == StopAt("undo", "restore")

\* rollback_install copies the backup back, or removes the file if there was
\* none; an error is swallowed.  The runtime is started only if it was stopped
\* by this command.
Restore ==
  /\ job.pc = "restore"
  /\ \/ session' = job.backup /\ UNCHANGED <<faults, spoiled>>
     \/ Fault /\ spoiled' = spoiled \cup {job.op} /\ UNCHANGED session
  /\ job' = [job EXCEPT !.pc = IF job.stopped THEN "respawn" ELSE "close"]
  /\ UNCHANGED <<rows, proc, watched, rec, before, unclosed>>

\* _fail; when its write raises, the row stays active at the stage it has reached.
CloseFailed ==
  /\ job.pc = "close"
  /\ \/ op' = Closed(job.op, "error") /\ UNCHANGED <<unclosed, faults>>
     \/ Fault /\ unclosed' = unclosed \cup {job.op} /\ UNCHANGED op
  /\ job' = Idle
  /\ UNCHANGED <<expired, scratch, cleaned, session, proc, watched, rec, before, spoiled>>

-----------------------------------------------------------------------------
(* /manager_tdimport_cancel, time and the stale sweep.                      *)

Cancel(o) ==
  /\ job = Idle
  /\ Active(o)
  /\ op' = Closed(o, "cancelled")
  /\ CleanUp(o)
  /\ UNCHANGED <<expired, session, proc, watched, job, rec, history>>

\* An hour; the time limits of start_import let it end long before.
Expire(o) ==
  /\ Active(o) /\ o \notin expired
  /\ ~(job.pc = "probe" /\ job.op = o)
  /\ expired' = expired \cup {o}
  /\ UNCHANGED <<op, scratch, cleaned, session, proc, watched, job, rec, history, faults>>

SweepStale(o) ==
  /\ Active(o) /\ o \in expired
  /\ op[o].stage \in Sweepable
  /\ CleanUpAndClose(o)
  /\ UNCHANGED <<expired, session, proc, watched, job, rec, history>>

-----------------------------------------------------------------------------
(* The manager's process and the recovery loop (autostart does the same).   *)

RuntimeOpens ==
  /\ proc = Started
  /\ proc' = IF session = NoFile THEN Down ELSE [up |-> TRUE, sess |-> session]
  /\ UNCHANGED <<rows, session, watched, job, rec, history, faults>>

RuntimeDies ==
  /\ proc.up
  /\ proc' = Down
  /\ UNCHANGED <<rows, session, watched, job, rec, history, faults>>

RecoveryLooks ==
  /\ rec = "idle"
  /\ watched /\ ~proc.up
  /\ rec' = "stop"
  /\ UNCHANGED <<rows, session, proc, watched, job, history, faults>>

RecoveryStops ==
  /\ rec = "stop"
  /\ \/ proc' = Down /\ rec' = "start" /\ UNCHANGED faults
     \/ Fault /\ rec' = "idle" /\ UNCHANGED proc
  /\ UNCHANGED <<rows, session, watched, job, history>>

RecoveryStarts ==
  /\ rec = "start"
  /\ rec' = "idle"
  /\ \/ proc' = (IF proc.up THEN proc ELSE Started) /\ UNCHANGED faults
     \/ Fault /\ UNCHANGED proc
  /\ UNCHANGED <<rows, session, watched, job, history>>

\* The operation stays active at whatever stage it has reached.
ControllerCrash ==
  /\ Fault
  /\ job' = Idle
  /\ rec' = "idle"
  /\ IF job.pc \in {"idle", "probe"}
     THEN UNCHANGED <<spoiled, unclosed>>
     ELSE spoiled' = spoiled \cup {job.op} /\ unclosed' = unclosed \cup {job.op}
  /\ UNCHANGED <<rows, session, proc, watched, before>>

-----------------------------------------------------------------------------
ConfirmStep ==
  \/ LookRunning \/ StopRuntime \/ PollStopped
  \/ Install \/ InstallFails \/ SpawnStops \/ SpawnStarts
  \/ Complete \/ NotReady \/ CompleteFails
  \/ UndoOrClose \/ UndoStops \/ Restore \/ CloseFailed

JobStep == IdentityVerified \/ StartFails \/ ConfirmStep

Next ==
  \/ StartImport \/ JobStep
  \/ \E o \in Op : ConfirmRefused(o) \/ ConfirmBegin(o) \/ Cancel(o)
                   \/ Expire(o) \/ SweepStale(o)
  \/ RuntimeOpens \/ RuntimeDies
  \/ RecoveryLooks \/ RecoveryStops \/ RecoveryStarts
  \/ ControllerCrash

Spec == Init /\ [][Next]_vars

\* A command goes on (all its waits are bounded), time passes, the sweep comes
\* round every minute.  Nobody has to confirm or cancel anything.
FairSpec ==
  /\ Spec
  /\ WF_vars(JobStep)
  /\ \A o \in Op : WF_vars(Expire(o)) /\ WF_vars(SweepStale(o))

-----------------------------------------------------------------------------
(* Properties.                                                              *)

\* The tables, the files and the coroutines keep to the values the code gives them.
TypeOK ==
  /\ op \in [Op -> [status : Ended \cup {"none", "active"}, stage : Stage]]
  /\ expired \subseteq Op /\ scratch \subseteq Op /\ cleaned \subseteq Op
  /\ session \in Session
  /\ proc \in [up : BOOLEAN, sess : Session]
  /\ watched \in BOOLEAN
  /\ job \in [pc : {"idle", "probe", "look", "stop", "poll", "install", "spawn", "start",
                    "ready", "failed", "undo", "restore", "respawn", "restart", "close"},
              op : Op \cup {0}, installed : BOOLEAN, backup : Session, stopped : BOOLEAN]
  /\ rec \in {"idle", "stop", "start"}
  /\ before \in [Op -> Session]
  /\ spoiled \subseteq Op /\ unclosed \subseteq Op
  /\ faults \in 0 .. MaxFaults

\* confirm_install: "the operation moves to status='error' but the target manager
\* is left exactly as it was before this call".  When the latest operation has
\* failed or was cancelled, the manager's session file is the one it found,
\* whatever step failed and whatever the sweep, the operator and recovery did
\* meanwhile; except after a crash of the controller inside the confirmation, a
\* failing write once the runtime was ready, a file move that failed half-way, a
\* backup that could not be copied back, or a sweep that closed the operation during its confirmation and could
\* not delete its files.
FailureRestores ==
  \A o \in Op :
    /\ op[o].status \in {"error", "cancelled"}
    /\ \A p \in Op : p > o => op[p].status = "none"
    /\ job.op # o /\ o \notin spoiled
    => session = before[o]

\* What Exchange sees of an operation.
State == [o \in Op |-> CASE op[o].status = "active" -> "open"
                         [] op[o].status \in {"error", "cancelled"} -> "failed"
                         [] OTHER -> op[o].status]

Xchg == INSTANCE Exchange WITH state <- State, file <- session, saved <- before,
                               waived <- spoiled

\* The imports implement Exchange: whatever fails, dies or is swept between two
\* steps, the manager's file holds the imported session when an operation ends
\* well and the one it found when it ends badly, and once it is closed nobody
\* touches the file on its behalf.
ImportImplementsExchange == Xchg!Spec

\* An operation is reported done only when the runtime that answered has opened
\* the session it imported, although recovery may start and stop the manager at
\* any moment of the installation.
DoneRunsImported ==
  [][\A o \in Op : op[o].status = "active" /\ op'[o].status = "done"
       => session = o /\ proc = [up |-> TRUE, sess |-> o]]_vars

\* "cleanup_done must mean the known artifacts are ACTUALLY gone": no operation is
\* marked clean while its unpacked session is on disk, and none is marked while
\* it can still be confirmed.
CleanupTruthful ==
  \A o \in cleaned : o \notin scratch /\ op[o].status \in Ended

\* The one slot of the manager is given back: an active operation ends, nobody
\* confirming or cancelling it, also when the upload fails, the sweep fails once or a
\* step of the confirmation raises; unless a confirmation itself ended without closing
\* it, because the controller crashed inside it or the write that closes it raised:
\* that leaves it past the stages the sweep looks at.
SlotFreed == \A o \in Op : Active(o) ~> (~Active(o) \/ o \in unclosed)
=============================================================================
