------------------------- MODULE TdataImportProofs -------------------------
(***************************************************************************)
(* Theorems about TdataImport, for every number of operations and faults.  *)
(***************************************************************************)
EXTENDS TdataImport, LeastId

USE TdataAssumption
USE DEF Op, NoFile, OwnFile, Session, Ended, Stage

(***************************************************************************)
(* The invariant, part by part.                                            *)
(***************************************************************************)
Latest(o) == \A p \in Op : p > o => op[p].status = "none"
Ahead     == {"probe", "look", "stop", "poll", "install"}
Placed    == {"spawn", "start", "ready"}

\* Operations are created in order, the slot is held by the latest one only, and that is
\* the one the job works on.
SlotOK ==
  /\ \A o, p \in Op : o < p /\ op[o].status = "none" => op[p].status = "none"
  /\ \A o \in Op : Active(o) => Latest(o)
  /\ job.pc = "idle" => job = Idle
  /\ job.pc # "idle" => job.op \in Op /\ op[job.op].status # "none" /\ Latest(job.op)

\* Between the move of the file and the answer of the runtime the operation is out of
\* the sweep's reach, and a process that is started opens the imported session, whoever
\* starts it.
InstallOK ==
  /\ job.pc \in Ahead => ~job.installed
  /\ job.pc \in Placed =>
       /\ job.installed /\ session = job.op
       /\ job.op \notin spoiled => Active(job.op) /\ op[job.op].stage = "starting"
  /\ job.pc \in {"undo", "restore"} => job.installed
  /\ job.pc \in {"start", "ready"} => proc.sess \in {NoFile, job.op}

\* Where the session from before the operation is: in the manager's file until the
\* installation and after the restoration, in the backup in between.
AsBefore(o) ==
  /\ job.op # o /\ op[o].status # "done" => session = before[o]
  /\ job.op = o /\ job.installed => job.backup = before[o]
  /\ job.op = o /\ (job.pc \in Ahead \cup {"respawn", "restart", "close"}
                    \/ (job.pc = "failed" /\ ~job.installed)) => session = before[o]
RestoreOK ==
  \A o \in Op : op[o].status # "none" /\ Latest(o) /\ o \notin spoiled => AsBefore(o)

IInv == TypeOK /\ SlotOK /\ InstallOK /\ RestoreOK /\ CleanupTruthful

(***************************************************************************)
(* Types, and the writes in terms of fields.                               *)
(***************************************************************************)
OpTable == [Op -> [status : Ended \cup {"none", "active"}, stage : Stage]]
Place == {"idle", "probe", "look", "stop", "poll", "install", "spawn", "start",
          "ready", "failed", "undo", "restore", "respawn", "restart", "close"}
Job == [pc : Place, op : Op \cup {0}, installed : BOOLEAN, backup : Session, stopped : BOOLEAN]
Proc == [up : BOOLEAN, sess : Session]

\* A compare-and-set that closes an operation or moves its stage on, a move of the job,
\* a clean-up that may have failed.
Wrote(o, s)   == \A p \in Op :
  op'[p].status = (IF p = o /\ Active(o) THEN s ELSE op[p].status) /\ op'[p].stage = op[p].stage
Staged(o, st) == \A p \in Op :
  op'[p].status = op[p].status /\ op'[p].stage = (IF p = o /\ Active(o) THEN st ELSE op[p].stage)
Moved(x) == /\ job' \in Job /\ job'.pc = x /\ job'.op = job.op /\ job'.installed = job.installed
            /\ job'.backup = job.backup
Cleaned(o) ==
  \/ scratch' = scratch \ {o} /\ cleaned' = cleaned \cup {o}
  \/ scratch' \in {scratch, scratch \ {o}} /\ UNCHANGED cleaned

\* The write that closes the row is made or raises; the mark is set only after it.
ClosedOrRaised(o, s) == Wrote(o, s) \/ Wrote(o, "active")
CleanedAndClosed(o) ==
  Cleaned(o) /\ ClosedOrRaised(o, "error") /\ (Wrote(o, "error") \/ UNCHANGED cleaned)

LEMMA OldestOp ==
  ASSUME NEW C \in SUBSET Op, C # {}
  PROVE  Min(C) \in C /\ \A c \in C : Min(C) <= c
<1>1. C \in SUBSET Nat
  OBVIOUS
<1> QED BY <1>1, Oldest

LEMMA TypeParts == TypeOK => op \in OpTable /\ job \in Job /\ proc \in Proc /\ session \in Session
BY DEF TypeOK, OpTable, Job, Place, Proc

LEMMA CloseRow ==
  ASSUME op \in OpTable, NEW o \in Op, NEW s \in Ended, op' = Closed(o, s)
  PROVE  op' \in OpTable /\ Wrote(o, s)
BY DEF OpTable, Closed, Wrote, Active

LEMMA KeepRow ==
  ASSUME op \in OpTable, NEW o \in Op, op' = op
  PROVE  op' \in OpTable /\ Wrote(o, "active") /\ Staged(o, op[o].stage) /\ op[o].stage \in Stage
BY DEF OpTable, Wrote, Staged, Active

LEMMA CleanAndCloseRow ==
  ASSUME TypeOK, NEW o \in Op, CleanUpAndClose(o)
  PROVE  op' \in OpTable /\ CleanedAndClosed(o) /\ faults' \in 0 .. MaxFaults
<1>1. CASE CleanUp(o) /\ op' = Closed(o, "error")
  <2>1. Cleaned(o) /\ faults' \in 0 .. MaxFaults
    BY <1>1 DEF CleanUp, Cleaned, Fault, TypeOK
  <2> QED BY <1>1, <2>1, CloseRow, TypeParts DEF CleanedAndClosed, ClosedOrRaised
<1>2. CASE Fault /\ scratch' \in {scratch, scratch \ {o}} /\ UNCHANGED <<op, cleaned>>
  <2>1. Cleaned(o) /\ faults' \in 0 .. MaxFaults /\ op' = op /\ cleaned' = cleaned
    BY <1>2 DEF Cleaned, Fault, TypeOK
  <2> QED BY <2>1, KeepRow, TypeParts DEF CleanedAndClosed, ClosedOrRaised
<1> QED BY <1>1, <1>2 DEF CleanUpAndClose

LEMMA AdvanceRow ==
  ASSUME op \in OpTable, NEW o \in Op, NEW st \in Stage, op' = Advanced(o, st)
  PROVE  op' \in OpTable /\ Staged(o, st)
BY DEF OpTable, Advanced, Staged, Active

LEMMA MoveJob ==
  ASSUME job \in Job, NEW x \in Place, job' = [job EXCEPT !.pc = x]
  PROVE  Moved(x)
BY DEF Job, Place, Moved

LEMMA StopJob ==
  ASSUME job \in Job, job' = [job EXCEPT !.pc = "install", !.stopped = TRUE]
  PROVE  Moved("install")
BY DEF Job, Place, Moved

LEMMA PlaceJob ==
  ASSUME job \in Job, session \in Session, NEW x \in Place,
         job' = [[job EXCEPT !.installed = TRUE, !.backup = session] EXCEPT !.pc = x]
  PROVE  /\ job' \in Job
         /\ job'.pc = x /\ job'.op = job.op /\ job'.installed
         /\ job'.backup = session
BY DEF Job, Place

LEMMA IdleJob == Idle \in Job /\ Idle.op = 0 /\ Idle.pc = "idle" /\ ~Idle.installed
BY DEF Job, Place, Idle

LEMMA NewJob ==
  ASSUME NEW o \in Op, NEW x \in Place, job' = [Idle EXCEPT !.pc = x, !.op = o]
  PROVE  job' \in Job /\ job'.pc = x /\ job'.op = o /\ ~job'.installed
BY IdleJob DEF Job

(***************************************************************************)
(* What each action does.                                                  *)
(***************************************************************************)
LEMMA StartImportEffect ==
  ASSUME TypeOK, StartImport
  PROVE  \E o \in Op :
           /\ op[o].status = "none" /\ \A q \in Op : op[q].status = "none" => o <= q
           /\ \A q \in Op : op[q].status # "active"
           /\ op' \in OpTable
           /\ op'[o].status = "active" /\ op'[o].stage = op[o].stage
           /\ \A q \in Op \ {o} : op'[q] = op[q]
           /\ scratch' = scratch \cup {o}
           /\ before' = [before EXCEPT ![o] = session]
           /\ job' \in Job /\ job'.pc = "probe" /\ job'.op = o /\ ~job'.installed
           /\ UNCHANGED <<expired, cleaned, session, proc, watched, rec, spoiled, unclosed, faults>>
<1> DEFINE S == {p \in Op : op[p].status = "none"}
           o == Min(S)
<1>1. S # {} /\ S \in SUBSET Op
  BY DEF StartImport
<1>2. o \in S /\ \A q \in S : o <= q
  <2> HIDE DEF S
  <2> QED BY <1>1, OldestOp
<1>3. o \in Op /\ op[o].status = "none" /\ \A q \in Op : op[q].status = "none" => o <= q
  BY <1>2
<1>4. /\ op' = [op EXCEPT ![o].status = "active"]
      /\ scratch' = scratch \cup {o}
      /\ before' = [before EXCEPT ![o] = session]
      /\ job' = [Idle EXCEPT !.pc = "probe", !.op = o]
      /\ UNCHANGED <<expired, cleaned, session, proc, watched, rec, spoiled, unclosed, faults>>
      /\ \A q \in Op : op[q].status # "active"
  BY DEF StartImport, Active
<1> HIDE DEF S, o
<1>5. /\ op' \in OpTable /\ op'[o].status = "active" /\ op'[o].stage = op[o].stage
      /\ \A q \in Op \ {o} : op'[q] = op[q]
  BY <1>3, <1>4, TypeParts DEF OpTable
<1>6. job' \in Job /\ job'.pc = "probe" /\ job'.op = o /\ ~job'.installed
  BY <1>3, <1>4, NewJob DEF Place
<1> QED BY <1>3, <1>4, <1>5, <1>6

LEMMA VerifiedEffect ==
  ASSUME TypeOK, SlotOK, IdentityVerified
  PROVE  /\ job.pc = "probe" /\ job.op \in Op /\ op' \in OpTable
         /\ Staged(job.op, "verified") /\ job' = Idle
         /\ UNCHANGED <<expired, scratch, cleaned, session, proc, watched,
                        rec, before, spoiled, unclosed, faults>>
<1>1. job.pc = "probe" /\ job.op \in Op
  BY DEF IdentityVerified, SlotOK
<1>2. op' = Advanced(job.op, "verified") /\ job' = Idle
      /\ UNCHANGED <<expired, scratch, cleaned, session, proc, watched,
                     rec, before, spoiled, unclosed, faults>>
  BY DEF IdentityVerified, history
<1> QED BY <1>1, <1>2, AdvanceRow, TypeParts

LEMMA StartFailsEffect ==
  ASSUME TypeOK, SlotOK, StartFails
  PROVE  /\ job.pc = "probe" /\ job.op \in Op /\ op' \in OpTable
         /\ CleanedAndClosed(job.op) /\ job' = Idle
         /\ faults' \in 0 .. MaxFaults
         /\ UNCHANGED <<expired, session, proc, watched, rec, before, spoiled, unclosed>>
<1>1. job.pc = "probe" /\ job.op \in Op
  BY DEF StartFails, SlotOK
<1> QED BY <1>1, CleanAndCloseRow DEF StartFails, history

LEMMA ConfirmBeginEffect ==
  ASSUME TypeOK, NEW o \in Op, ConfirmBegin(o)
  PROVE  /\ job = Idle /\ Active(o)
         /\ job' \in Job /\ job'.pc = "look" /\ job'.op = o /\ ~job'.installed
         /\ UNCHANGED <<op, expired, scratch, cleaned, session, proc, watched, rec,
                        before, spoiled, unclosed, faults>>
<1>1. job' \in Job /\ job'.pc = "look" /\ job'.op = o /\ ~job'.installed
  BY NewJob DEF ConfirmBegin, Place
<1> QED BY <1>1 DEF ConfirmBegin, rows, history

LEMMA LookEffect ==
  ASSUME TypeOK, LookRunning
  PROVE  /\ job.pc = "look" /\ (Moved("install") \/ Moved("stop"))
         /\ faults' \in 0 .. MaxFaults
         /\ UNCHANGED <<op, expired, scratch, cleaned, session, proc, watched, rec,
                        before, spoiled, unclosed>>
<1>1. Moved("install") \/ Moved("stop")
  BY MoveJob, TypeParts DEF LookRunning, Place
<1>2. faults' \in 0 .. MaxFaults
  BY DEF LookRunning, Fault, TypeOK
<1> QED BY <1>1, <1>2 DEF LookRunning, rows, history

LEMMA StopEffect ==
  ASSUME TypeOK, NEW x \in Place, NEW y \in Place, StopAt(x, y)
  PROVE  /\ job.pc = x /\ Moved(y)
         /\ proc' \in {proc, Down}
         /\ faults' \in 0 .. MaxFaults
         /\ UNCHANGED <<op, expired, scratch, cleaned, session, watched, rec, before, spoiled, unclosed>>
<1>1. Moved(y)
  BY MoveJob, TypeParts DEF StopAt
<1>2. faults' \in 0 .. MaxFaults
  BY DEF StopAt, Fault, TypeOK
<1> QED BY <1>1, <1>2 DEF StopAt, rows, history

LEMMA PollEffect ==
  ASSUME TypeOK, PollStopped
  PROVE  /\ job.pc = "poll" /\ (Moved("install") \/ Moved("failed"))
         /\ faults' \in 0 .. MaxFaults
         /\ UNCHANGED <<op, expired, scratch, cleaned, session, proc, watched, rec,
                        before, spoiled, unclosed>>
<1>1. Moved("install") \/ Moved("failed")
  BY MoveJob, StopJob, TypeParts DEF PollStopped, Place
<1>2. faults' \in 0 .. MaxFaults
  BY DEF PollStopped, Fault, TypeOK
<1> QED BY <1>1, <1>2 DEF PollStopped, rows, history

LEMMA InstallEffect ==
  ASSUME TypeOK, SlotOK, Install
  PROVE  /\ job.pc = "install" /\ job.op \in Op /\ session' = job.op
         /\ op' \in OpTable /\ Staged(job.op, "starting")
         /\ job' \in Job /\ job'.pc \in {"spawn", "failed"} /\ job'.op = job.op
         /\ job'.installed /\ job'.backup = session
         /\ spoiled' = (IF Active(job.op) THEN spoiled ELSE spoiled \cup {job.op})
         /\ faults' \in 0 .. MaxFaults
         /\ UNCHANGED <<expired, scratch, cleaned, proc, watched, rec, before, unclosed>>
<1>1. job.pc = "install" /\ job.op \in Op
  BY DEF Install, SlotOK
<1>2. op' = Advanced(job.op, "starting")
  BY DEF Install
<1>3. PICK x \in {"spawn", "failed"} :
        job' = [[job EXCEPT !.installed = TRUE, !.backup = session] EXCEPT !.pc = x]
  BY DEF Install
<1>4. job' \in Job /\ job'.pc = x /\ job'.op = job.op /\ job'.installed /\ job'.backup = session
  BY <1>3, PlaceJob, TypeParts DEF Place
<1>5. faults' \in 0 .. MaxFaults
  BY DEF Install, Fault, TypeOK
<1> QED BY <1>1, <1>2, <1>4, <1>5, AdvanceRow, TypeParts DEF Install

LEMMA InstallFailsEffect ==
  ASSUME TypeOK, SlotOK, InstallFails
  PROVE  /\ job.pc = "install" /\ job.op \in Op
         /\ \/ session' = session /\ spoiled' = spoiled
            \/ session' = job.op /\ spoiled' = spoiled \cup {job.op} /\ Staged(job.op, "installing")
         /\ op' \in OpTable
         /\ Staged(job.op, "installing") \/ Staged(job.op, op[job.op].stage)
         /\ Moved("failed")
         /\ faults' \in 0 .. MaxFaults
         /\ UNCHANGED <<expired, scratch, cleaned, proc, watched, rec, before, unclosed>>
<1>1. job.pc = "install" /\ job.op \in Op
  BY DEF InstallFails, SlotOK
<1>2. op' = Advanced(job.op, "installing") \/ (op' = op /\ session' = session /\ spoiled' = spoiled)
  BY DEF InstallFails
<1>3. faults' \in 0 .. MaxFaults
  BY DEF InstallFails, Fault, TypeOK
<1>4. Moved("failed")
  BY MoveJob, TypeParts DEF InstallFails, Place
<1>5. /\ op' \in OpTable
      /\ Staged(job.op, "installing") \/ Staged(job.op, op[job.op].stage)
  BY <1>1, <1>2, AdvanceRow, KeepRow, TypeParts
<1>6. \/ session' = session /\ spoiled' = spoiled
      \/ session' = job.op /\ spoiled' = spoiled \cup {job.op} /\ Staged(job.op, "installing")
  BY <1>1, <1>2, AdvanceRow, TypeParts DEF InstallFails
<1> QED BY <1>1, <1>3, <1>4, <1>5, <1>6 DEF InstallFails

LEMMA SpawnStopsEffect ==
  ASSUME TypeOK, SpawnStops
  PROVE  /\ \/ proc' = Down /\ job.pc = "spawn" /\ Moved("start")
            \/ proc' = Down /\ job.pc = "respawn" /\ Moved("restart")
            \/ proc' = proc /\ job.pc = "spawn" /\ Moved("failed")
            \/ proc' = proc /\ job.pc = "respawn" /\ Moved("close")
         /\ faults' \in 0 .. MaxFaults
         /\ UNCHANGED <<op, expired, scratch, cleaned, session, watched, rec, before, spoiled, unclosed>>
<1>1. \/ proc' = Down /\ job.pc = "spawn" /\ Moved("start")
      \/ proc' = Down /\ job.pc = "respawn" /\ Moved("restart")
      \/ proc' = proc /\ job.pc = "spawn" /\ Moved("failed")
      \/ proc' = proc /\ job.pc = "respawn" /\ Moved("close")
  BY MoveJob, TypeParts DEF SpawnStops, Place
<1>2. faults' \in 0 .. MaxFaults
  BY DEF SpawnStops, Fault, TypeOK
<1> QED BY <1>1, <1>2 DEF SpawnStops, rows, history

LEMMA SpawnStartsEffect ==
  ASSUME TypeOK, SpawnStarts
  PROVE  /\ proc' \in {proc, Started}
         /\ \/ job.pc = "start" /\ (Moved("ready") \/ Moved("failed"))
            \/ job.pc = "restart" /\ Moved("close")
         /\ faults' \in 0 .. MaxFaults
         /\ UNCHANGED <<op, expired, scratch, cleaned, session, watched, rec, before, spoiled, unclosed>>
<1>1. \/ job.pc = "start" /\ (Moved("ready") \/ Moved("failed"))
      \/ job.pc = "restart" /\ Moved("close")
  BY MoveJob, TypeParts DEF SpawnStarts, Place
<1>2. faults' \in 0 .. MaxFaults
  BY DEF SpawnStarts, Fault, TypeOK
<1>3. proc' \in {proc, Started}
  BY DEF SpawnStarts
<1> QED BY <1>1, <1>2, <1>3 DEF SpawnStarts, rows, history

LEMMA CompleteEffect ==
  ASSUME TypeOK, SlotOK, Complete
  PROVE  /\ job.pc = "ready" /\ job.op \in Op /\ proc.up /\ proc.sess # NoFile
         /\ op' \in OpTable /\ job' = Idle
         /\ \A p \in Op : op'[p].status = IF p = job.op /\ Active(p) THEN "done" ELSE op[p].status
         /\ \A p \in Op \ {job.op} : op'[p] = op[p]
         /\ Cleaned(job.op) /\ faults' \in 0 .. MaxFaults
         /\ UNCHANGED <<expired, session, proc, watched, rec, before, spoiled, unclosed>>
<1>1. job.pc = "ready" /\ job.op \in Op /\ proc.up /\ proc.sess # NoFile
  BY DEF Complete, SlotOK
<1>2. op' = IF Active(job.op)
            THEN [op EXCEPT ![job.op] = [status |-> "done", stage |-> "running"]] ELSE op
  BY DEF Complete
<1>3. /\ op' \in OpTable
      /\ \A p \in Op : op'[p].status = IF p = job.op /\ Active(p) THEN "done" ELSE op[p].status
      /\ \A p \in Op \ {job.op} : op'[p] = op[p]
  BY <1>1, <1>2, TypeParts DEF OpTable, Active
<1>4. CleanUp(job.op) /\ job' = Idle
      /\ UNCHANGED <<expired, session, proc, watched, rec, before, spoiled, unclosed>>
  BY DEF Complete, history
<1>5. Cleaned(job.op) /\ faults' \in 0 .. MaxFaults
  BY <1>4 DEF CleanUp, Cleaned, Fault, TypeOK
<1> QED BY <1>1, <1>3, <1>4, <1>5

LEMMA CompleteFailsEffect ==
  ASSUME TypeOK, SlotOK, CompleteFails
  PROVE  /\ job.pc = "ready" /\ job.op \in Op
         /\ op' \in OpTable /\ job' = Idle
         /\ \/ Wrote(job.op, "error") /\ unclosed' = unclosed
            \/ /\ Staged(job.op, op[job.op].stage) \/ Staged(job.op, "running")
               /\ unclosed' = unclosed \cup {job.op}
         /\ spoiled' = spoiled \cup {job.op} /\ faults' \in 0 .. MaxFaults
         /\ UNCHANGED <<expired, scratch, cleaned, session, proc, watched, rec, before>>
<1>1. job.pc = "ready" /\ job.op \in Op
  BY DEF CompleteFails, SlotOK
<1>2. faults' \in 0 .. MaxFaults
  BY DEF CompleteFails, Fault, TypeOK
<1>3. CASE op' = Closed(job.op, "error") /\ unclosed' = unclosed
  BY <1>1, <1>2, <1>3, CloseRow, TypeParts DEF CompleteFails
<1>4. CASE op' = op /\ unclosed' = unclosed \cup {job.op}
  BY <1>1, <1>2, <1>4, KeepRow, TypeParts DEF CompleteFails
<1>5. CASE op' = Advanced(job.op, "running") /\ unclosed' = unclosed \cup {job.op}
  <2>1. op' \in OpTable /\ Staged(job.op, "running")
    BY <1>1, <1>5, AdvanceRow, TypeParts
  <2> QED BY <1>1, <1>2, <1>5, <2>1 DEF CompleteFails
<1> QED BY <1>3, <1>4, <1>5 DEF CompleteFails

LEMMA UndoOrCloseEffect ==
  ASSUME TypeOK, UndoOrClose
  PROVE  /\ job.pc = "failed"
         /\ \/ job.installed /\ Moved("undo")
            \/ ~job.installed /\ (Moved("respawn") \/ Moved("close"))
         /\ UNCHANGED <<op, expired, scratch, cleaned, session, proc, watched, rec,
                        before, spoiled, unclosed, faults>>
<1>1. \/ job.installed /\ Moved("undo")
      \/ ~job.installed /\ (Moved("respawn") \/ Moved("close"))
  BY MoveJob, TypeParts DEF UndoOrClose, Place
<1> QED BY <1>1 DEF UndoOrClose, rows, history

LEMMA NotReadyEffect ==
  ASSUME TypeOK, NotReady
  PROVE  /\ job.pc = "ready" /\ Moved("failed")
         /\ UNCHANGED <<op, expired, scratch, cleaned, session, proc, watched, rec,
                        before, spoiled, unclosed, faults>>
<1>1. Moved("failed")
  BY MoveJob, TypeParts DEF NotReady, Place
<1> QED BY <1>1 DEF NotReady, rows, history

LEMMA RestoreEffect ==
  ASSUME TypeOK, Restore
  PROVE  /\ job.pc = "restore" /\ (Moved("respawn") \/ Moved("close"))
         /\ \/ session' = job.backup /\ spoiled' = spoiled
            \/ session' = session /\ spoiled' = spoiled \cup {job.op}
         /\ faults' \in 0 .. MaxFaults
         /\ UNCHANGED <<op, expired, scratch, cleaned, proc, watched, rec, before, unclosed>>
<1>1. Moved("respawn") \/ Moved("close")
  BY MoveJob, TypeParts DEF Restore, Place
<1>2. faults' \in 0 .. MaxFaults
  BY DEF Restore, Fault, TypeOK
<1> QED BY <1>1, <1>2 DEF Restore, rows

LEMMA CloseFailedEffect ==
  ASSUME TypeOK, SlotOK, CloseFailed
  PROVE  /\ job.pc = "close" /\ job.op \in Op
         /\ op' \in OpTable /\ job' = Idle /\ faults' \in 0 .. MaxFaults
         /\ \/ Wrote(job.op, "error") /\ unclosed' = unclosed
            \/ Wrote(job.op, "active") /\ unclosed' = unclosed \cup {job.op}
         /\ UNCHANGED <<expired, scratch, cleaned, session, proc, watched,
                        rec, before, spoiled>>
<1>1. job.pc = "close" /\ job.op \in Op
  BY DEF CloseFailed, SlotOK
<1>2. faults' \in 0 .. MaxFaults
  BY DEF CloseFailed, Fault, TypeOK
<1>3. CASE op' = Closed(job.op, "error") /\ unclosed' = unclosed
  BY <1>1, <1>2, <1>3, CloseRow, TypeParts DEF CloseFailed
<1>4. CASE op' = op /\ unclosed' = unclosed \cup {job.op}
  BY <1>1, <1>2, <1>4, KeepRow, TypeParts DEF CloseFailed
<1> QED BY <1>3, <1>4 DEF CloseFailed

LEMMA RefusedEffect ==
  ASSUME TypeOK, NEW o \in Op, ConfirmRefused(o)
  PROVE  /\ job = Idle /\ Active(o) /\ op' \in OpTable /\ Wrote(o, "error")
         /\ UNCHANGED <<expired, scratch, cleaned, session, proc, watched,
                        job, rec, before, spoiled, unclosed, faults>>
<1>1. op' = Closed(o, "error")
  BY DEF ConfirmRefused
<1> QED BY <1>1, CloseRow, TypeParts DEF ConfirmRefused, history

LEMMA CancelEffect ==
  ASSUME TypeOK, NEW o \in Op, Cancel(o)
  PROVE  /\ job = Idle /\ Active(o) /\ op' \in OpTable /\ Wrote(o, "cancelled")
         /\ Cleaned(o) /\ faults' \in 0 .. MaxFaults
         /\ UNCHANGED <<expired, session, proc, watched, job, rec, before, spoiled, unclosed>>
<1>1. op' = Closed(o, "cancelled") /\ CleanUp(o)
  BY DEF Cancel
<1>2. Cleaned(o) /\ faults' \in 0 .. MaxFaults
  BY <1>1 DEF CleanUp, Cleaned, Fault, TypeOK
<1> QED BY <1>1, <1>2, CloseRow, TypeParts DEF Cancel, history

LEMMA SweepEffect ==
  ASSUME TypeOK, NEW o \in Op, SweepStale(o)
  PROVE  /\ Active(o) /\ op[o].stage \in {"early", "verified"}
         /\ op' \in OpTable /\ CleanedAndClosed(o) /\ faults' \in 0 .. MaxFaults
         /\ UNCHANGED <<expired, session, proc, watched, job, rec, before, spoiled, unclosed>>
BY CleanAndCloseRow DEF SweepStale, Sweepable, history

LEMMA CrashEffect ==
  ASSUME TypeOK, SlotOK, ControllerCrash
  PROVE  /\ job' = Idle /\ rec' = "idle" /\ faults' \in 0 .. MaxFaults
         /\ spoiled' = (IF job.pc \in {"idle", "probe"} THEN spoiled ELSE spoiled \cup {job.op})
         /\ unclosed' = (IF job.pc \in {"idle", "probe"} THEN unclosed ELSE unclosed \cup {job.op})
         /\ spoiled' \subseteq Op /\ unclosed' \subseteq Op
         /\ UNCHANGED <<op, expired, scratch, cleaned, session, proc, watched, before>>
<1>1. faults' \in 0 .. MaxFaults
  BY DEF ControllerCrash, Fault, TypeOK
<1>2. /\ spoiled' = (IF job.pc \in {"idle", "probe"} THEN spoiled ELSE spoiled \cup {job.op})
      /\ unclosed' = (IF job.pc \in {"idle", "probe"} THEN unclosed ELSE unclosed \cup {job.op})
  BY DEF ControllerCrash
<1>3. spoiled' \subseteq Op /\ unclosed' \subseteq Op
  BY <1>2 DEF SlotOK, TypeOK
<1> QED BY <1>1, <1>2, <1>3 DEF ControllerCrash, rows

\* The process and the recovery loop.
ManagerStep ==
  RuntimeOpens \/ RuntimeDies \/ RecoveryLooks \/ RecoveryStops \/ RecoveryStarts

LEMMA ManagerEffect ==
  ASSUME TypeOK, ManagerStep
  PROVE  /\ \/ proc' \in {proc, Down, Started}
            \/ proc' = [up |-> TRUE, sess |-> session]
         /\ rec' \in {"idle", "stop", "start"}
         /\ faults' \in 0 .. MaxFaults
         /\ UNCHANGED <<op, expired, scratch, cleaned, session, watched, job, before, spoiled, unclosed>>
<1>1. CASE RuntimeOpens
  BY <1>1 DEF RuntimeOpens, rows, history, TypeOK
<1>2. CASE RuntimeDies
  BY <1>2 DEF RuntimeDies, rows, history, TypeOK
<1>3. CASE RecoveryLooks
  BY <1>3 DEF RecoveryLooks, rows, history, TypeOK
<1>4. CASE RecoveryStops
  <2>1. faults' \in 0 .. MaxFaults
    BY <1>4 DEF RecoveryStops, Fault, TypeOK
  <2> QED BY <1>4, <2>1 DEF RecoveryStops, rows, history
<1>5. CASE RecoveryStarts
  <2>1. faults' \in 0 .. MaxFaults
    BY <1>5 DEF RecoveryStarts, Fault, TypeOK
  <2>2. proc' \in {proc, Started}
    BY <1>5 DEF RecoveryStarts
  <2> QED BY <1>5, <2>1, <2>2 DEF RecoveryStarts, rows, history
<1> QED BY <1>1, <1>2, <1>3, <1>4, <1>5 DEF ManagerStep

LEMMA ExpireEffect ==
  ASSUME NEW o \in Op, Expire(o)
  PROVE  /\ expired' = expired \cup {o}
         /\ UNCHANGED <<op, scratch, cleaned, session, proc, watched,
                        job, rec, before, spoiled, unclosed, faults>>
BY DEF Expire, history

(***************************************************************************)
(* The invariant is kept, part by part.                                    *)
(***************************************************************************)
RestType ==
  /\ expired \subseteq Op /\ scratch \subseteq Op /\ cleaned \subseteq Op
  /\ watched \in BOOLEAN
  /\ rec \in {"idle", "stop", "start"}
  /\ before \in [Op -> Session]
  /\ spoiled \subseteq Op /\ unclosed \subseteq Op
  /\ faults \in 0 .. MaxFaults

Types == op \in OpTable /\ job \in Job /\ proc \in Proc /\ session \in Session /\ RestType

LEMMA SameTypes == TypeOK <=> Types
BY DEF TypeOK, Types, RestType, OpTable, Job, Place, Proc

LEMMA ProcTypes ==
  ASSUME session \in Session
  PROVE  Down \in Proc /\ Started \in Proc /\ [up |-> TRUE, sess |-> session] \in Proc
BY DEF Down, Started, Proc

LEMMA TypesKept == TypeOK /\ SlotOK /\ [Next]_vars => Types'
<1> SUFFICES ASSUME TypeOK /\ SlotOK, [Next]_vars PROVE Types'
  OBVIOUS
<1>1. CASE StartImport
  <2>1. PICK o \in Op :
          /\ op' \in OpTable /\ job' \in Job
          /\ scratch' = scratch \cup {o} /\ before' = [before EXCEPT ![o] = session]
          /\ UNCHANGED <<expired, cleaned, session, proc, watched, rec, spoiled, unclosed, faults>>
    BY <1>1, StartImportEffect
  <2> QED BY <2>1, SameTypes DEF Types, RestType
<1>2. CASE IdentityVerified
  BY <1>2, VerifiedEffect, SameTypes, IdleJob, ProcTypes
     DEF Types, RestType, Moved, Cleaned, CleanedAndClosed
<1>3. CASE StartFails
  BY <1>3, StartFailsEffect, SameTypes, IdleJob, ProcTypes
     DEF Types, RestType, Moved, Cleaned, CleanedAndClosed
<1>4. CASE LookRunning
  BY <1>4, LookEffect, SameTypes, IdleJob, ProcTypes
     DEF Types, RestType, Moved, Cleaned, CleanedAndClosed
<1>5. CASE StopRuntime
  BY <1>5, StopEffect, SameTypes, IdleJob, ProcTypes
     DEF Types, RestType, Moved, Cleaned, CleanedAndClosed, StopRuntime, Place
<1>6. CASE PollStopped
  BY <1>6, PollEffect, SameTypes, IdleJob, ProcTypes
     DEF Types, RestType, Moved, Cleaned, CleanedAndClosed
<1>7. CASE Install
  <2>1. session' \in Session /\ spoiled' \subseteq Op
    BY <1>7, InstallEffect, SameTypes DEF Types, RestType
  <2> QED BY <1>7, <2>1, InstallEffect, SameTypes DEF Types, RestType
<1>8. CASE InstallFails
  BY <1>8, InstallFailsEffect, SameTypes, IdleJob, ProcTypes
     DEF Types, RestType, Moved, Cleaned, CleanedAndClosed
<1>9. CASE SpawnStops
  BY <1>9, SpawnStopsEffect, SameTypes, IdleJob, ProcTypes
     DEF Types, RestType, Moved, Cleaned, CleanedAndClosed
<1>10. CASE SpawnStarts
  BY <1>10, SpawnStartsEffect, SameTypes, IdleJob, ProcTypes
     DEF Types, RestType, Moved, Cleaned, CleanedAndClosed
<1>11. CASE Complete
  BY <1>11, CompleteEffect, SameTypes, IdleJob, ProcTypes
     DEF Types, RestType, Moved, Cleaned, CleanedAndClosed
<1>12. CASE NotReady
  BY <1>12, NotReadyEffect, SameTypes, IdleJob, ProcTypes
     DEF Types, RestType, Moved, Cleaned, CleanedAndClosed
<1>13. CASE CompleteFails
  BY <1>13, CompleteFailsEffect, SameTypes, IdleJob, ProcTypes
     DEF Types, RestType, Moved, Cleaned, CleanedAndClosed
<1>14. CASE UndoOrClose
  BY <1>14, UndoOrCloseEffect, SameTypes, IdleJob, ProcTypes
     DEF Types, RestType, Moved, Cleaned, CleanedAndClosed
<1>15. CASE UndoStops
  BY <1>15, StopEffect, SameTypes, IdleJob, ProcTypes
     DEF Types, RestType, Moved, Cleaned, CleanedAndClosed, UndoStops, Place
<1>16. CASE Restore
  <2>0. job.op \in Op
    BY <1>16, RestoreEffect DEF SlotOK
  <2>1. session' \in Session /\ spoiled' \subseteq Op
    BY <1>16, <2>0, RestoreEffect, SameTypes DEF Types, RestType, Job
  <2> QED BY <1>16, <2>1, RestoreEffect, SameTypes DEF Types, RestType, Moved
<1>17. CASE CloseFailed
  BY <1>17, CloseFailedEffect, SameTypes, IdleJob, ProcTypes
     DEF Types, RestType, Moved, Cleaned, CleanedAndClosed
<1>18. CASE ControllerCrash
  BY <1>18, CrashEffect, SameTypes, IdleJob, ProcTypes
     DEF Types, RestType, Moved, Cleaned, CleanedAndClosed
<1>19. CASE ManagerStep
  BY <1>19, ManagerEffect, SameTypes, IdleJob, ProcTypes
     DEF Types, RestType, Moved, Cleaned, CleanedAndClosed
<1>20. ASSUME NEW o \in Op, ConfirmRefused(o) PROVE Types'
  BY <1>20, RefusedEffect, SameTypes, IdleJob, ProcTypes
     DEF Types, RestType, Moved, Cleaned, CleanedAndClosed
<1>21. ASSUME NEW o \in Op, ConfirmBegin(o) PROVE Types'
  BY <1>21, ConfirmBeginEffect, SameTypes, IdleJob, ProcTypes
     DEF Types, RestType, Moved, Cleaned, CleanedAndClosed
<1>22. ASSUME NEW o \in Op, Cancel(o) PROVE Types'
  BY <1>22, CancelEffect, SameTypes, IdleJob, ProcTypes
     DEF Types, RestType, Moved, Cleaned, CleanedAndClosed
<1>23. ASSUME NEW o \in Op, Expire(o) PROVE Types'
  BY <1>23, ExpireEffect, SameTypes, IdleJob, ProcTypes
     DEF Types, RestType, Moved, Cleaned, CleanedAndClosed
<1>24. ASSUME NEW o \in Op, SweepStale(o) PROVE Types'
  BY <1>24, SweepEffect, SameTypes, IdleJob, ProcTypes
     DEF Types, RestType, Moved, Cleaned, CleanedAndClosed
<1>25. CASE UNCHANGED vars
  BY <1>25, SameTypes, IdleJob, ProcTypes
     DEF Types, RestType, Moved, Cleaned, CleanedAndClosed, vars
<1> QED
  BY <1>1, <1>2, <1>3, <1>4, <1>5, <1>6, <1>7, <1>8, <1>9, <1>10, <1>11, <1>12,
     <1>13, <1>14, <1>15, <1>16, <1>17, <1>18, <1>19, <1>20, <1>21, <1>22, <1>23,
     <1>24, <1>25
  DEF Next, JobStep, ConfirmStep, ManagerStep

LEMMA SlotOKKept == IInv /\ [Next]_vars => SlotOK'
<1> SUFFICES ASSUME IInv, [Next]_vars PROVE SlotOK'
  OBVIOUS
<1>1. CASE StartImport
  BY <1>1, StartImportEffect, IdleJob
     DEF IInv, SlotOK, Latest, Active, Wrote, Staged, CleanedAndClosed, ClosedOrRaised, Moved
<1>2. CASE IdentityVerified
  BY <1>2, VerifiedEffect, IdleJob
     DEF IInv, SlotOK, Latest, Active, Wrote, Staged, CleanedAndClosed, ClosedOrRaised, Moved
<1>3. CASE StartFails
  BY <1>3, StartFailsEffect, IdleJob
     DEF IInv, SlotOK, Latest, Active, Wrote, Staged, CleanedAndClosed, ClosedOrRaised, Moved
<1>4. CASE LookRunning
  BY <1>4, LookEffect, IdleJob
     DEF IInv, SlotOK, Latest, Active, Wrote, Staged, CleanedAndClosed, ClosedOrRaised, Moved
<1>5. CASE StopRuntime
  BY <1>5, StopEffect, IdleJob
     DEF IInv, SlotOK, Latest, Active, Wrote, Staged, CleanedAndClosed, ClosedOrRaised, Moved, StopRuntime, Place
<1>6. CASE PollStopped
  BY <1>6, PollEffect, IdleJob
     DEF IInv, SlotOK, Latest, Active, Wrote, Staged, CleanedAndClosed, ClosedOrRaised, Moved
<1>7. CASE Install
  BY <1>7, InstallEffect, IdleJob
     DEF IInv, SlotOK, Latest, Active, Wrote, Staged, CleanedAndClosed, ClosedOrRaised, Moved
<1>8. CASE InstallFails
  BY <1>8, InstallFailsEffect, IdleJob
     DEF IInv, SlotOK, Latest, Active, Wrote, Staged, CleanedAndClosed, ClosedOrRaised, Moved
<1>9. CASE SpawnStops
  BY <1>9, SpawnStopsEffect, IdleJob
     DEF IInv, SlotOK, Latest, Active, Wrote, Staged, CleanedAndClosed, ClosedOrRaised, Moved
<1>10. CASE SpawnStarts
  BY <1>10, SpawnStartsEffect, IdleJob
     DEF IInv, SlotOK, Latest, Active, Wrote, Staged, CleanedAndClosed, ClosedOrRaised, Moved
<1>11. CASE Complete
  BY <1>11, CompleteEffect, IdleJob
     DEF IInv, SlotOK, Latest, Active, Wrote, Staged, CleanedAndClosed, ClosedOrRaised, Moved
<1>12. CASE NotReady
  BY <1>12, NotReadyEffect, IdleJob
     DEF IInv, SlotOK, Latest, Active, Wrote, Staged, CleanedAndClosed, ClosedOrRaised, Moved
<1>13. CASE CompleteFails
  BY <1>13, CompleteFailsEffect, IdleJob
     DEF IInv, SlotOK, Latest, Active, Wrote, Staged, CleanedAndClosed, ClosedOrRaised, Moved
<1>14. CASE UndoOrClose
  BY <1>14, UndoOrCloseEffect, IdleJob
     DEF IInv, SlotOK, Latest, Active, Wrote, Staged, CleanedAndClosed, ClosedOrRaised, Moved
<1>15. CASE UndoStops
  BY <1>15, StopEffect, IdleJob
     DEF IInv, SlotOK, Latest, Active, Wrote, Staged, CleanedAndClosed, ClosedOrRaised, Moved, UndoStops, Place
<1>16. CASE Restore
  BY <1>16, RestoreEffect, IdleJob
     DEF IInv, SlotOK, Latest, Active, Wrote, Staged, CleanedAndClosed, ClosedOrRaised, Moved
<1>17. CASE CloseFailed
  BY <1>17, CloseFailedEffect, IdleJob
     DEF IInv, SlotOK, Latest, Active, Wrote, Staged, CleanedAndClosed, ClosedOrRaised, Moved
<1>18. CASE ControllerCrash
  BY <1>18, CrashEffect, IdleJob
     DEF IInv, SlotOK, Latest, Active, Wrote, Staged, CleanedAndClosed, ClosedOrRaised, Moved
<1>19. CASE ManagerStep
  BY <1>19, ManagerEffect, IdleJob
     DEF IInv, SlotOK, Latest, Active, Wrote, Staged, CleanedAndClosed, ClosedOrRaised, Moved
<1>20. ASSUME NEW o \in Op, ConfirmRefused(o) PROVE SlotOK'
  BY <1>20, RefusedEffect, IdleJob
     DEF IInv, SlotOK, Latest, Active, Wrote, Staged, CleanedAndClosed, ClosedOrRaised, Moved
<1>21. ASSUME NEW o \in Op, ConfirmBegin(o) PROVE SlotOK'
  BY <1>21, ConfirmBeginEffect, IdleJob
     DEF IInv, SlotOK, Latest, Active, Wrote, Staged, CleanedAndClosed, ClosedOrRaised, Moved
<1>22. ASSUME NEW o \in Op, Cancel(o) PROVE SlotOK'
  BY <1>22, CancelEffect, IdleJob
     DEF IInv, SlotOK, Latest, Active, Wrote, Staged, CleanedAndClosed, ClosedOrRaised, Moved
<1>23. ASSUME NEW o \in Op, Expire(o) PROVE SlotOK'
  BY <1>23, ExpireEffect, IdleJob
     DEF IInv, SlotOK, Latest, Active, Wrote, Staged, CleanedAndClosed, ClosedOrRaised, Moved
<1>24. ASSUME NEW o \in Op, SweepStale(o) PROVE SlotOK'
  BY <1>24, SweepEffect, IdleJob
     DEF IInv, SlotOK, Latest, Active, Wrote, Staged, CleanedAndClosed, ClosedOrRaised, Moved
<1>25. CASE UNCHANGED vars
  BY <1>25, IdleJob
     DEF IInv, SlotOK, Latest, Active, Wrote, Staged, CleanedAndClosed, ClosedOrRaised, Moved, vars
<1> QED
  BY <1>1, <1>2, <1>3, <1>4, <1>5, <1>6, <1>7, <1>8, <1>9, <1>10, <1>11, <1>12,
     <1>13, <1>14, <1>15, <1>16, <1>17, <1>18, <1>19, <1>20, <1>21, <1>22, <1>23,
     <1>24, <1>25
  DEF Next, JobStep, ConfirmStep, ManagerStep

LEMMA InstallOKKept == IInv /\ [Next]_vars => InstallOK'
<1> SUFFICES ASSUME IInv, [Next]_vars PROVE InstallOK'
  OBVIOUS
<1>1. CASE StartImport
  BY <1>1, StartImportEffect, IdleJob
     DEF IInv, InstallOK, SlotOK, Active, Wrote, Staged, CleanedAndClosed, ClosedOrRaised, Moved, Ahead, Placed, Down,
         Started
<1>2. CASE IdentityVerified
  BY <1>2, VerifiedEffect, IdleJob
     DEF IInv, InstallOK, SlotOK, Active, Wrote, Staged, CleanedAndClosed, ClosedOrRaised, Moved, Ahead, Placed, Down,
         Started
<1>3. CASE StartFails
  BY <1>3, StartFailsEffect, IdleJob
     DEF IInv, InstallOK, SlotOK, Active, Wrote, Staged, CleanedAndClosed, ClosedOrRaised, Moved, Ahead, Placed, Down,
         Started
<1>4. CASE LookRunning
  BY <1>4, LookEffect, IdleJob
     DEF IInv, InstallOK, SlotOK, Active, Wrote, Staged, CleanedAndClosed, ClosedOrRaised, Moved, Ahead, Placed, Down,
         Started
<1>5. CASE StopRuntime
  BY <1>5, StopEffect, IdleJob
     DEF IInv, InstallOK, SlotOK, Active, Wrote, Staged, CleanedAndClosed, ClosedOrRaised, Moved, Ahead, Placed, Down,
         Started, StopRuntime, Place
<1>6. CASE PollStopped
  BY <1>6, PollEffect, IdleJob
     DEF IInv, InstallOK, SlotOK, Active, Wrote, Staged, CleanedAndClosed, ClosedOrRaised, Moved, Ahead, Placed, Down,
         Started
<1>7. CASE Install
  BY <1>7, InstallEffect, IdleJob
     DEF IInv, InstallOK, SlotOK, Active, Wrote, Staged, CleanedAndClosed, ClosedOrRaised, Moved, Ahead, Placed, Down,
         Started
<1>8. CASE InstallFails
  BY <1>8, InstallFailsEffect, IdleJob
     DEF IInv, InstallOK, SlotOK, Active, Wrote, Staged, CleanedAndClosed, ClosedOrRaised, Moved, Ahead, Placed, Down,
         Started
<1>9. CASE SpawnStops
  BY <1>9, SpawnStopsEffect, IdleJob
     DEF IInv, InstallOK, SlotOK, Active, Wrote, Staged, CleanedAndClosed, ClosedOrRaised, Moved, Ahead, Placed, Down,
         Started
<1>10. CASE SpawnStarts
  BY <1>10, SpawnStartsEffect, IdleJob
     DEF IInv, InstallOK, SlotOK, Active, Wrote, Staged, CleanedAndClosed, ClosedOrRaised, Moved, Ahead, Placed, Down,
         Started
<1>11. CASE Complete
  BY <1>11, CompleteEffect, IdleJob
     DEF IInv, InstallOK, SlotOK, Active, Wrote, Staged, CleanedAndClosed, ClosedOrRaised, Moved, Ahead, Placed, Down,
         Started
<1>12. CASE NotReady
  BY <1>12, NotReadyEffect, IdleJob
     DEF IInv, InstallOK, SlotOK, Active, Wrote, Staged, CleanedAndClosed, ClosedOrRaised, Moved, Ahead, Placed, Down,
         Started
<1>13. CASE CompleteFails
  BY <1>13, CompleteFailsEffect, IdleJob
     DEF IInv, InstallOK, SlotOK, Active, Wrote, Staged, CleanedAndClosed, ClosedOrRaised, Moved, Ahead, Placed, Down,
         Started
<1>14. CASE UndoOrClose
  BY <1>14, UndoOrCloseEffect, IdleJob
     DEF IInv, InstallOK, SlotOK, Active, Wrote, Staged, CleanedAndClosed, ClosedOrRaised, Moved, Ahead, Placed, Down,
         Started
<1>15. CASE UndoStops
  BY <1>15, StopEffect, IdleJob
     DEF IInv, InstallOK, SlotOK, Active, Wrote, Staged, CleanedAndClosed, ClosedOrRaised, Moved, Ahead, Placed, Down,
         Started, UndoStops, Place
<1>16. CASE Restore
  BY <1>16, RestoreEffect, IdleJob
     DEF IInv, InstallOK, SlotOK, Active, Wrote, Staged, CleanedAndClosed, ClosedOrRaised, Moved, Ahead, Placed, Down,
         Started
<1>17. CASE CloseFailed
  BY <1>17, CloseFailedEffect, IdleJob
     DEF IInv, InstallOK, SlotOK, Active, Wrote, Staged, CleanedAndClosed, ClosedOrRaised, Moved, Ahead, Placed, Down,
         Started
<1>18. CASE ControllerCrash
  BY <1>18, CrashEffect, IdleJob
     DEF IInv, InstallOK, SlotOK, Active, Wrote, Staged, CleanedAndClosed, ClosedOrRaised, Moved, Ahead, Placed, Down,
         Started
<1>19. CASE ManagerStep
  BY <1>19, ManagerEffect, IdleJob
     DEF IInv, InstallOK, SlotOK, Active, Wrote, Staged, CleanedAndClosed, ClosedOrRaised, Moved, Ahead, Placed, Down,
         Started
<1>20. ASSUME NEW o \in Op, ConfirmRefused(o) PROVE InstallOK'
  BY <1>20, RefusedEffect, IdleJob
     DEF IInv, InstallOK, SlotOK, Active, Wrote, Staged, CleanedAndClosed, ClosedOrRaised, Moved, Ahead, Placed, Down,
         Started
<1>21. ASSUME NEW o \in Op, ConfirmBegin(o) PROVE InstallOK'
  BY <1>21, ConfirmBeginEffect, IdleJob
     DEF IInv, InstallOK, SlotOK, Active, Wrote, Staged, CleanedAndClosed, ClosedOrRaised, Moved, Ahead, Placed, Down,
         Started
<1>22. ASSUME NEW o \in Op, Cancel(o) PROVE InstallOK'
  BY <1>22, CancelEffect, IdleJob
     DEF IInv, InstallOK, SlotOK, Active, Wrote, Staged, CleanedAndClosed, ClosedOrRaised, Moved, Ahead, Placed, Down,
         Started
<1>23. ASSUME NEW o \in Op, Expire(o) PROVE InstallOK'
  BY <1>23, ExpireEffect, IdleJob
     DEF IInv, InstallOK, SlotOK, Active, Wrote, Staged, CleanedAndClosed, ClosedOrRaised, Moved, Ahead, Placed, Down,
         Started
<1>24. ASSUME NEW o \in Op, SweepStale(o) PROVE InstallOK'
  BY <1>24, SweepEffect, IdleJob
     DEF IInv, InstallOK, SlotOK, Active, Wrote, Staged, CleanedAndClosed, ClosedOrRaised, Moved, Ahead, Placed, Down,
         Started
<1>25. CASE UNCHANGED vars
  BY <1>25, IdleJob
     DEF IInv, InstallOK, SlotOK, Active, Wrote, Staged, CleanedAndClosed, ClosedOrRaised, Moved, Ahead, Placed, Down,
         Started, vars
<1> QED
  BY <1>1, <1>2, <1>3, <1>4, <1>5, <1>6, <1>7, <1>8, <1>9, <1>10, <1>11, <1>12,
     <1>13, <1>14, <1>15, <1>16, <1>17, <1>18, <1>19, <1>20, <1>21, <1>22, <1>23,
     <1>24, <1>25
  DEF Next, JobStep, ConfirmStep, ManagerStep

LEMMA CleanupTruthfulKept == IInv /\ [Next]_vars => CleanupTruthful'
<1> SUFFICES ASSUME IInv, [Next]_vars PROVE CleanupTruthful'
  OBVIOUS
<1>0. TypeOK /\ SlotOK /\ CleanupTruthful /\ cleaned \subseteq Op
  BY DEF IInv, TypeOK
<1>1. CASE StartImport
  <2>1. PICK o \in Op :
          /\ op[o].status = "none" /\ \A q \in Op \ {o} : op'[q] = op[q]
          /\ scratch' = scratch \cup {o} /\ cleaned' = cleaned
    BY <1>1, <1>0, StartImportEffect
  <2> QED BY <2>1, <1>0 DEF CleanupTruthful
<1>2. CASE IdentityVerified
  BY <1>2, VerifiedEffect, <1>0
     DEF CleanupTruthful, Active, Wrote, Staged, CleanedAndClosed, ClosedOrRaised, Cleaned
<1>3. CASE StartFails
  <2>1. op[job.op].status \in Ended \cup {"active"}
    BY <1>3, <1>0, StartFailsEffect DEF SlotOK, TypeOK
  <2> QED BY <1>3, <2>1, <1>0, StartFailsEffect
         DEF CleanupTruthful, Active, Wrote, Cleaned, CleanedAndClosed, ClosedOrRaised
<1>4. CASE LookRunning
  BY <1>4, LookEffect, <1>0
     DEF CleanupTruthful, Active, Wrote, Staged, CleanedAndClosed, ClosedOrRaised, Cleaned
<1>5. CASE StopRuntime
  BY <1>5, StopEffect, <1>0
     DEF CleanupTruthful, Active, Wrote, Staged, CleanedAndClosed, ClosedOrRaised, Cleaned, StopRuntime, Place
<1>6. CASE PollStopped
  BY <1>6, PollEffect, <1>0
     DEF CleanupTruthful, Active, Wrote, Staged, CleanedAndClosed, ClosedOrRaised, Cleaned
<1>7. CASE Install
  BY <1>7, InstallEffect, <1>0
     DEF CleanupTruthful, Active, Wrote, Staged, CleanedAndClosed, ClosedOrRaised, Cleaned
<1>8. CASE InstallFails
  BY <1>8, InstallFailsEffect, <1>0
     DEF CleanupTruthful, Active, Wrote, Staged, CleanedAndClosed, ClosedOrRaised, Cleaned
<1>9. CASE SpawnStops
  BY <1>9, SpawnStopsEffect, <1>0
     DEF CleanupTruthful, Active, Wrote, Staged, CleanedAndClosed, ClosedOrRaised, Cleaned
<1>10. CASE SpawnStarts
  BY <1>10, SpawnStartsEffect, <1>0
     DEF CleanupTruthful, Active, Wrote, Staged, CleanedAndClosed, ClosedOrRaised, Cleaned
<1>11. CASE Complete
  <2>1. op[job.op].status \in Ended \cup {"active"}
    BY <1>11, <1>0, CompleteEffect DEF SlotOK, TypeOK
  <2>2. /\ job.op \in Op /\ Cleaned(job.op)
        /\ \A p \in Op : op'[p].status = IF p = job.op /\ Active(p) THEN "done" ELSE op[p].status
    BY <1>11, <1>0, CompleteEffect
  <2> QED BY <2>1, <2>2, <1>0 DEF CleanupTruthful, Active, Cleaned
<1>12. CASE NotReady
  BY <1>12, NotReadyEffect, <1>0
     DEF CleanupTruthful, Active, Wrote, Staged, CleanedAndClosed, ClosedOrRaised, Cleaned
<1>13. CASE CompleteFails
  BY <1>13, CompleteFailsEffect, <1>0
     DEF CleanupTruthful, Active, Wrote, Staged, CleanedAndClosed, ClosedOrRaised, Cleaned
<1>14. CASE UndoOrClose
  BY <1>14, UndoOrCloseEffect, <1>0
     DEF CleanupTruthful, Active, Wrote, Staged, CleanedAndClosed, ClosedOrRaised, Cleaned
<1>15. CASE UndoStops
  BY <1>15, StopEffect, <1>0
     DEF CleanupTruthful, Active, Wrote, Staged, CleanedAndClosed, ClosedOrRaised, Cleaned, UndoStops, Place
<1>16. CASE Restore
  BY <1>16, RestoreEffect, <1>0
     DEF CleanupTruthful, Active, Wrote, Staged, CleanedAndClosed, ClosedOrRaised, Cleaned
<1>17. CASE CloseFailed
  BY <1>17, CloseFailedEffect, <1>0
     DEF CleanupTruthful, Active, Wrote, Staged, CleanedAndClosed, ClosedOrRaised, Cleaned
<1>18. CASE ControllerCrash
  BY <1>18, CrashEffect, <1>0
     DEF CleanupTruthful, Active, Wrote, Staged, CleanedAndClosed, ClosedOrRaised, Cleaned
<1>19. CASE ManagerStep
  BY <1>19, ManagerEffect, <1>0
     DEF CleanupTruthful, Active, Wrote, Staged, CleanedAndClosed, ClosedOrRaised, Cleaned
<1>20. ASSUME NEW o \in Op, ConfirmRefused(o) PROVE CleanupTruthful'
  BY <1>20, RefusedEffect, <1>0
     DEF CleanupTruthful, Active, Wrote, Staged, CleanedAndClosed, ClosedOrRaised, Cleaned
<1>21. ASSUME NEW o \in Op, ConfirmBegin(o) PROVE CleanupTruthful'
  BY <1>21, ConfirmBeginEffect, <1>0
     DEF CleanupTruthful, Active, Wrote, Staged, CleanedAndClosed, ClosedOrRaised, Cleaned
<1>22. ASSUME NEW o \in Op, Cancel(o) PROVE CleanupTruthful'
  BY <1>22, CancelEffect, <1>0
     DEF CleanupTruthful, Active, Wrote, Staged, CleanedAndClosed, ClosedOrRaised, Cleaned
<1>23. ASSUME NEW o \in Op, Expire(o) PROVE CleanupTruthful'
  BY <1>23, ExpireEffect, <1>0
     DEF CleanupTruthful, Active, Wrote, Staged, CleanedAndClosed, ClosedOrRaised, Cleaned
<1>24. ASSUME NEW o \in Op, SweepStale(o) PROVE CleanupTruthful'
  <2>1. Active(o) /\ CleanedAndClosed(o)
    BY <1>24, <1>0, SweepEffect
  <2>2. o \notin cleaned
    BY <2>1, <1>0 DEF CleanupTruthful, Active
  <2> QED BY <2>1, <2>2, <1>0
         DEF CleanupTruthful, Active, Wrote, Cleaned, CleanedAndClosed, ClosedOrRaised
<1>25. CASE UNCHANGED vars
  BY <1>25, <1>0
     DEF CleanupTruthful, Active, Wrote, Staged, CleanedAndClosed, ClosedOrRaised, Cleaned, vars
<1> QED
  BY <1>1, <1>2, <1>3, <1>4, <1>5, <1>6, <1>7, <1>8, <1>9, <1>10, <1>11, <1>12,
     <1>13, <1>14, <1>15, <1>16, <1>17, <1>18, <1>19, <1>20, <1>21, <1>22, <1>23,
     <1>24, <1>25
  DEF Next, JobStep, ConfirmStep, ManagerStep

\* Only StartImport creates an operation.
LEMMA StatusKept ==
  ASSUME IInv, [Next]_vars, ~StartImport
  PROVE  /\ \A p \in Op : (op'[p].status = "none") <=> (op[p].status = "none")
         /\ spoiled \subseteq spoiled' /\ before' = before
<1>1. CASE IdentityVerified
  BY <1>1, VerifiedEffect
     DEF IInv, Wrote, Staged, CleanedAndClosed, ClosedOrRaised, Active
<1>2. CASE StartFails
  BY <1>2, StartFailsEffect
     DEF IInv, Wrote, Staged, CleanedAndClosed, ClosedOrRaised, Active
<1>3. CASE LookRunning
  BY <1>3, LookEffect
     DEF IInv, Wrote, Staged, CleanedAndClosed, ClosedOrRaised, Active
<1>4. CASE StopRuntime
  BY <1>4, StopEffect
     DEF IInv, Wrote, Staged, CleanedAndClosed, ClosedOrRaised, Active, StopRuntime, Place
<1>5. CASE PollStopped
  BY <1>5, PollEffect
     DEF IInv, Wrote, Staged, CleanedAndClosed, ClosedOrRaised, Active
<1>6. CASE Install
  BY <1>6, InstallEffect
     DEF IInv, Wrote, Staged, CleanedAndClosed, ClosedOrRaised, Active
<1>7. CASE InstallFails
  BY <1>7, InstallFailsEffect
     DEF IInv, Wrote, Staged, CleanedAndClosed, ClosedOrRaised, Active
<1>8. CASE SpawnStops
  BY <1>8, SpawnStopsEffect
     DEF IInv, Wrote, Staged, CleanedAndClosed, ClosedOrRaised, Active
<1>9. CASE SpawnStarts
  BY <1>9, SpawnStartsEffect
     DEF IInv, Wrote, Staged, CleanedAndClosed, ClosedOrRaised, Active
<1>10. CASE Complete
  BY <1>10, CompleteEffect
     DEF IInv, Wrote, Staged, CleanedAndClosed, ClosedOrRaised, Active
<1>11. CASE NotReady
  BY <1>11, NotReadyEffect
     DEF IInv, Wrote, Staged, CleanedAndClosed, ClosedOrRaised, Active
<1>12. CASE CompleteFails
  BY <1>12, CompleteFailsEffect
     DEF IInv, Wrote, Staged, CleanedAndClosed, ClosedOrRaised, Active
<1>13. CASE UndoOrClose
  BY <1>13, UndoOrCloseEffect
     DEF IInv, Wrote, Staged, CleanedAndClosed, ClosedOrRaised, Active
<1>14. CASE UndoStops
  BY <1>14, StopEffect
     DEF IInv, Wrote, Staged, CleanedAndClosed, ClosedOrRaised, Active, UndoStops, Place
<1>15. CASE Restore
  BY <1>15, RestoreEffect
     DEF IInv, Wrote, Staged, CleanedAndClosed, ClosedOrRaised, Active
<1>16. CASE CloseFailed
  BY <1>16, CloseFailedEffect
     DEF IInv, Wrote, Staged, CleanedAndClosed, ClosedOrRaised, Active
<1>17. CASE ControllerCrash
  BY <1>17, CrashEffect
     DEF IInv, Wrote, Staged, CleanedAndClosed, ClosedOrRaised, Active
<1>18. CASE ManagerStep
  BY <1>18, ManagerEffect
     DEF IInv, Wrote, Staged, CleanedAndClosed, ClosedOrRaised, Active
<1>19. ASSUME NEW q \in Op, ConfirmRefused(q)
      PROVE  /\ \A p \in Op : (op'[p].status = "none") <=> (op[p].status = "none")
             /\ spoiled \subseteq spoiled' /\ before' = before
  BY <1>19, RefusedEffect
     DEF IInv, Wrote, Staged, CleanedAndClosed, ClosedOrRaised, Active
<1>20. ASSUME NEW q \in Op, ConfirmBegin(q)
      PROVE  /\ \A p \in Op : (op'[p].status = "none") <=> (op[p].status = "none")
             /\ spoiled \subseteq spoiled' /\ before' = before
  BY <1>20, ConfirmBeginEffect
     DEF IInv, Wrote, Staged, CleanedAndClosed, ClosedOrRaised, Active
<1>21. ASSUME NEW q \in Op, Cancel(q)
      PROVE  /\ \A p \in Op : (op'[p].status = "none") <=> (op[p].status = "none")
             /\ spoiled \subseteq spoiled' /\ before' = before
  BY <1>21, CancelEffect
     DEF IInv, Wrote, Staged, CleanedAndClosed, ClosedOrRaised, Active
<1>22. ASSUME NEW q \in Op, Expire(q)
      PROVE  /\ \A p \in Op : (op'[p].status = "none") <=> (op[p].status = "none")
             /\ spoiled \subseteq spoiled' /\ before' = before
  BY <1>22, ExpireEffect
     DEF IInv, Wrote, Staged, CleanedAndClosed, ClosedOrRaised, Active
<1>23. ASSUME NEW q \in Op, SweepStale(q)
      PROVE  /\ \A p \in Op : (op'[p].status = "none") <=> (op[p].status = "none")
             /\ spoiled \subseteq spoiled' /\ before' = before
  BY <1>23, SweepEffect
     DEF IInv, Wrote, Staged, CleanedAndClosed, ClosedOrRaised, Active
<1>24. CASE UNCHANGED vars
  BY <1>24 DEF vars
<1> QED
  BY <1>1, <1>2, <1>3, <1>4, <1>5, <1>6, <1>7, <1>8, <1>9, <1>10, <1>11, <1>12,
     <1>13, <1>14, <1>15, <1>16, <1>17, <1>18, <1>19, <1>20, <1>21, <1>22, <1>23, <1>24
  DEF Next, JobStep, ConfirmStep, ManagerStep

LEMMA RestoreOKKept == IInv /\ [Next]_vars => RestoreOK'
<1> SUFFICES ASSUME IInv, [Next]_vars,
                    NEW o \in Op, op'[o].status # "none", Latest(o)', o \notin spoiled'
             PROVE  AsBefore(o)'
  BY DEF RestoreOK
<1>1. CASE StartImport
  <2>1. PICK n \in Op :
          /\ op[n].status = "none"
          /\ op'[n].status = "active" /\ \A q \in Op \ {n} : op'[q] = op[q]
          /\ before' = [before EXCEPT ![n] = session] /\ session' = session
          /\ job'.op = n /\ ~job'.installed
    BY <1>1, StartImportEffect DEF IInv
  <2>2. o = n
    <3>1. CASE o < n
      BY <2>1, <3>1 DEF Latest
    <3>2. CASE n < o
      BY <2>1, <3>2 DEF IInv, SlotOK
    <3> QED BY <3>1, <3>2
  <2>3. before'[o] = session
    BY <2>1, <2>2 DEF IInv, TypeOK
  <2> QED BY <2>1, <2>2, <2>3 DEF AsBefore
<1>2. CASE ~StartImport
  <2>0. AsBefore(o) /\ before' = before /\ o \notin spoiled
    BY <1>2, StatusKept DEF IInv, RestoreOK, Latest
  <2>a. job.pc # "idle" => job.op = o
    <3> SUFFICES ASSUME job.pc # "idle" PROVE job.op = o
      OBVIOUS
    <3>1. job.op \in Op /\ op[job.op].status # "none" /\ Latest(job.op)
      BY DEF IInv, SlotOK
    <3>2. op[o].status # "none" /\ Latest(o)
      BY <1>2, StatusKept DEF Latest
    <3> QED BY <3>1, <3>2 DEF Latest
  <2> USE IdleJob
  <2>1. CASE IdentityVerified
    BY <2>1, <2>0, <2>a, VerifiedEffect
       DEF IInv, SlotOK, InstallOK, AsBefore, Ahead, Placed, Moved, Wrote, Staged, CleanedAndClosed, ClosedOrRaised,
           Active
  <2>2. CASE StartFails
    BY <2>2, <2>0, <2>a, StartFailsEffect
       DEF IInv, SlotOK, InstallOK, AsBefore, Ahead, Placed, Moved, Wrote, Staged, CleanedAndClosed, ClosedOrRaised,
           Active
  <2>3. CASE LookRunning
    BY <2>3, <2>0, <2>a, LookEffect
       DEF IInv, SlotOK, InstallOK, AsBefore, Ahead, Placed, Moved, Wrote, Staged, CleanedAndClosed, ClosedOrRaised,
           Active
  <2>4. CASE StopRuntime
    BY <2>4, <2>0, <2>a, StopEffect
       DEF IInv, SlotOK, InstallOK, AsBefore, Ahead, Placed, Moved, Wrote, Staged, CleanedAndClosed, ClosedOrRaised,
           Active, StopRuntime, Place
  <2>5. CASE PollStopped
    BY <2>5, <2>0, <2>a, PollEffect
       DEF IInv, SlotOK, InstallOK, AsBefore, Ahead, Placed, Moved, Wrote, Staged, CleanedAndClosed, ClosedOrRaised,
           Active
  <2>6. CASE Install
    BY <2>6, <2>0, <2>a, InstallEffect
       DEF IInv, SlotOK, InstallOK, AsBefore, Ahead, Placed, Moved, Wrote, Staged, CleanedAndClosed, ClosedOrRaised,
           Active
  <2>7. CASE InstallFails
    BY <2>7, <2>0, <2>a, InstallFailsEffect
       DEF IInv, SlotOK, InstallOK, AsBefore, Ahead, Placed, Moved, Wrote, Staged, CleanedAndClosed, ClosedOrRaised,
           Active
  <2>8. CASE SpawnStops
    BY <2>8, <2>0, <2>a, SpawnStopsEffect
       DEF IInv, SlotOK, InstallOK, AsBefore, Ahead, Placed, Moved, Wrote, Staged, CleanedAndClosed, ClosedOrRaised,
           Active
  <2>9. CASE SpawnStarts
    BY <2>9, <2>0, <2>a, SpawnStartsEffect
       DEF IInv, SlotOK, InstallOK, AsBefore, Ahead, Placed, Moved, Wrote, Staged, CleanedAndClosed, ClosedOrRaised,
           Active
  <2>10. CASE Complete
    BY <2>10, <2>0, <2>a, CompleteEffect
       DEF IInv, SlotOK, InstallOK, AsBefore, Ahead, Placed, Moved, Wrote, Staged, CleanedAndClosed, ClosedOrRaised,
           Active
  <2>11. CASE NotReady
    BY <2>11, <2>0, <2>a, NotReadyEffect
       DEF IInv, SlotOK, InstallOK, AsBefore, Ahead, Placed, Moved, Wrote, Staged, CleanedAndClosed, ClosedOrRaised,
           Active
  <2>12. CASE CompleteFails
    BY <2>12, <2>0, <2>a, CompleteFailsEffect
       DEF IInv, SlotOK, InstallOK, AsBefore, Ahead, Placed, Moved, Wrote, Staged, CleanedAndClosed, ClosedOrRaised,
           Active
  <2>13. CASE UndoOrClose
    BY <2>13, <2>0, <2>a, UndoOrCloseEffect
       DEF IInv, SlotOK, InstallOK, AsBefore, Ahead, Placed, Moved, Wrote, Staged, CleanedAndClosed, ClosedOrRaised,
           Active
  <2>14. CASE UndoStops
    BY <2>14, <2>0, <2>a, StopEffect
       DEF IInv, SlotOK, InstallOK, AsBefore, Ahead, Placed, Moved, Wrote, Staged, CleanedAndClosed, ClosedOrRaised,
           Active, UndoStops, Place
  <2>15. CASE Restore
    BY <2>15, <2>0, <2>a, RestoreEffect
       DEF IInv, SlotOK, InstallOK, AsBefore, Ahead, Placed, Moved, Wrote, Staged, CleanedAndClosed, ClosedOrRaised,
           Active
  <2>16. CASE CloseFailed
    BY <2>16, <2>0, <2>a, CloseFailedEffect
       DEF IInv, SlotOK, InstallOK, AsBefore, Ahead, Placed, Moved, Wrote, Staged, CleanedAndClosed, ClosedOrRaised,
           Active
  <2>17. CASE ControllerCrash
    BY <2>17, <2>0, <2>a, CrashEffect
       DEF IInv, SlotOK, InstallOK, AsBefore, Ahead, Placed, Moved, Wrote, Staged, CleanedAndClosed, ClosedOrRaised,
           Active
  <2>18. CASE ManagerStep
    BY <2>18, <2>0, <2>a, ManagerEffect
       DEF IInv, SlotOK, InstallOK, AsBefore, Ahead, Placed, Moved, Wrote, Staged, CleanedAndClosed, ClosedOrRaised,
           Active
  <2>19. ASSUME NEW q \in Op, ConfirmRefused(q) PROVE AsBefore(o)'
    BY <2>19, <2>0, <2>a, RefusedEffect
       DEF IInv, SlotOK, InstallOK, AsBefore, Ahead, Placed, Moved, Wrote, Staged, CleanedAndClosed, ClosedOrRaised,
           Active
  <2>20. ASSUME NEW q \in Op, ConfirmBegin(q) PROVE AsBefore(o)'
    BY <2>20, <2>0, <2>a, ConfirmBeginEffect
       DEF IInv, SlotOK, InstallOK, AsBefore, Ahead, Placed, Moved, Wrote, Staged, CleanedAndClosed, ClosedOrRaised,
           Active
  <2>21. ASSUME NEW q \in Op, Cancel(q) PROVE AsBefore(o)'
    BY <2>21, <2>0, <2>a, CancelEffect
       DEF IInv, SlotOK, InstallOK, AsBefore, Ahead, Placed, Moved, Wrote, Staged, CleanedAndClosed, ClosedOrRaised,
           Active
  <2>22. ASSUME NEW q \in Op, Expire(q) PROVE AsBefore(o)'
    BY <2>22, <2>0, <2>a, ExpireEffect
       DEF IInv, SlotOK, InstallOK, AsBefore, Ahead, Placed, Moved, Wrote, Staged, CleanedAndClosed, ClosedOrRaised,
           Active
  <2>23. ASSUME NEW q \in Op, SweepStale(q) PROVE AsBefore(o)'
    BY <2>23, <2>0, <2>a, SweepEffect
       DEF IInv, SlotOK, InstallOK, AsBefore, Ahead, Placed, Moved, Wrote, Staged, CleanedAndClosed, ClosedOrRaised,
           Active
  <2>24. CASE UNCHANGED vars
    BY <2>24, <2>0 DEF vars, AsBefore
  <2> QED
    BY <1>2, <2>1, <2>2, <2>3, <2>4, <2>5, <2>6, <2>7, <2>8, <2>9, <2>10, <2>11,
       <2>12, <2>13, <2>14, <2>15, <2>16, <2>17, <2>18, <2>19, <2>20, <2>21, <2>22,
       <2>23, <2>24
    DEF Next, JobStep, ConfirmStep, ManagerStep
<1> QED BY <1>1, <1>2

LEMMA Initial == Init => IInv
<1> SUFFICES ASSUME Init PROVE IInv
  OBVIOUS
<1>1. /\ op = [o \in Op |-> [status |-> "none", stage |-> "early"]]
      /\ expired = {} /\ scratch = {} /\ cleaned = {} /\ spoiled = {} /\ unclosed = {}
      /\ rec = "idle" /\ before = [o \in Op |-> NoFile] /\ faults = 0
      /\ job = Idle
  BY DEF Init
<1>2. session \in Session /\ watched \in BOOLEAN /\ proc \in Proc
  <2>0. Down \in Proc
    BY DEF Proc, Down
  <2>a. watched \in BOOLEAN
    BY DEF Init
  <2>1. CASE session = NoFile /\ proc = Down
    BY <2>0, <2>1, <2>a
  <2>2. CASE session = OwnFile /\ proc = [up |-> TRUE, sess |-> OwnFile]
    <3>1. [up |-> TRUE, sess |-> OwnFile] \in Proc
      BY DEF Proc
    <3> QED BY <2>2, <2>a, <3>1
  <2>3. CASE session = OwnFile /\ proc = Down
    BY <2>0, <2>3, <2>a
  <2> QED BY <2>1, <2>2, <2>3 DEF Init
<1>3. op \in OpTable
  BY <1>1 DEF OpTable
<1>4. RestType
  BY <1>1, <1>2 DEF RestType
<1>5. TypeOK
  BY <1>1, <1>2, <1>3, <1>4, IdleJob, SameTypes DEF Types
<1>6. SlotOK /\ InstallOK /\ RestoreOK /\ CleanupTruthful
  BY <1>1, IdleJob DEF SlotOK, InstallOK, RestoreOK, CleanupTruthful, Active, Ahead, Placed
<1> QED BY <1>5, <1>6 DEF IInv

LEMMA Inductive == IInv /\ [Next]_vars => IInv'
<1> SUFFICES ASSUME IInv, [Next]_vars PROVE IInv'
  OBVIOUS
<1>1. Types'
  BY TypesKept DEF IInv
<1>2. TypeOK'
  BY <1>1 DEF Types, TypeOK, RestType, OpTable, Job, Place, Proc
<1>3. SlotOK' /\ InstallOK' /\ RestoreOK' /\ CleanupTruthful'
  BY SlotOKKept, InstallOKKept, RestoreOKKept, CleanupTruthfulKept
<1> QED BY <1>2, <1>3 DEF IInv

(***************************************************************************)
(* The theorems.                                                           *)
(***************************************************************************)

\* The inductive invariant of start_import, confirm_install, the sweep and the
\* recovery loop holds through any number of crashes and failing steps.
THEOREM ImportInvariant == Spec => []IInv
<1> HIDE DEF IInv
<1> QED BY Initial, Inductive, PTL DEF Spec

\* tdata_import_ops, the files, the job and the process keep to the values the code
\* writes.
THEOREM ImportTypeCorrect == Spec => []TypeOK
<1>1. IInv => TypeOK
  BY DEF IInv
<1> QED BY <1>1, ImportInvariant, PTL

\* confirm_install: a failed or cancelled import leaves the manager's session file as
\* it was, but for the exceptions collected in spoiled.
THEOREM FailuresRestored == Spec => []FailureRestores
<1>1. IInv => FailureRestores
  BY DEF IInv, RestoreOK, AsBefore, Latest, FailureRestores
<1> QED BY <1>1, ImportInvariant, PTL

\* tdata_import_mark_cleanup_done: what is marked clean is gone from the disk and can no
\* longer be confirmed.
THEOREM CleanMeansClean == Spec => []CleanupTruthful
<1>1. IInv => CleanupTruthful
  BY DEF IInv
<1> QED BY <1>1, ImportInvariant, PTL

LEMMA DoneStep ==
  ASSUME IInv, [Next]_vars, NEW o \in Op, op[o].status = "active", op'[o].status = "done"
  PROVE  session = o /\ proc = [up |-> TRUE, sess |-> o]
<1>1. CASE StartImport
  BY <1>1, StartImportEffect DEF IInv
<1>2. CASE IdentityVerified
  BY <1>2, VerifiedEffect
     DEF IInv, Wrote, Staged, CleanedAndClosed, ClosedOrRaised
<1>3. CASE StartFails
  BY <1>3, StartFailsEffect
     DEF IInv, Wrote, Staged, CleanedAndClosed, ClosedOrRaised
<1>4. CASE LookRunning
  BY <1>4, LookEffect
     DEF IInv, Wrote, Staged, CleanedAndClosed, ClosedOrRaised
<1>5. CASE StopRuntime
  BY <1>5, StopEffect
     DEF IInv, Wrote, Staged, CleanedAndClosed, ClosedOrRaised, StopRuntime, Place
<1>6. CASE PollStopped
  BY <1>6, PollEffect
     DEF IInv, Wrote, Staged, CleanedAndClosed, ClosedOrRaised
<1>7. CASE Install
  BY <1>7, InstallEffect
     DEF IInv, Wrote, Staged, CleanedAndClosed, ClosedOrRaised
<1>8. CASE InstallFails
  BY <1>8, InstallFailsEffect
     DEF IInv, Wrote, Staged, CleanedAndClosed, ClosedOrRaised
<1>9. CASE SpawnStops
  BY <1>9, SpawnStopsEffect
     DEF IInv, Wrote, Staged, CleanedAndClosed, ClosedOrRaised
<1>10. CASE SpawnStarts
  BY <1>10, SpawnStartsEffect
     DEF IInv, Wrote, Staged, CleanedAndClosed, ClosedOrRaised
<1>11. CASE Complete
  <2>1. o = job.op /\ session = o /\ proc.up /\ proc.sess = o
    BY <1>11, CompleteEffect DEF IInv, InstallOK, Placed
  <2>2. proc \in Proc
    BY TypeParts DEF IInv
  <2> QED BY <2>1, <2>2 DEF Proc
<1>12. CASE NotReady
  BY <1>12, NotReadyEffect
     DEF IInv, Wrote, Staged, CleanedAndClosed, ClosedOrRaised
<1>13. CASE CompleteFails
  BY <1>13, CompleteFailsEffect
     DEF IInv, Wrote, Staged, CleanedAndClosed, ClosedOrRaised
<1>14. CASE UndoOrClose
  BY <1>14, UndoOrCloseEffect
     DEF IInv, Wrote, Staged, CleanedAndClosed, ClosedOrRaised
<1>15. CASE UndoStops
  BY <1>15, StopEffect
     DEF IInv, Wrote, Staged, CleanedAndClosed, ClosedOrRaised, UndoStops, Place
<1>16. CASE Restore
  BY <1>16, RestoreEffect
     DEF IInv, Wrote, Staged, CleanedAndClosed, ClosedOrRaised
<1>17. CASE CloseFailed
  BY <1>17, CloseFailedEffect
     DEF IInv, Wrote, Staged, CleanedAndClosed, ClosedOrRaised
<1>18. CASE ControllerCrash
  BY <1>18, CrashEffect
     DEF IInv, Wrote, Staged, CleanedAndClosed, ClosedOrRaised
<1>19. CASE ManagerStep
  BY <1>19, ManagerEffect
     DEF IInv, Wrote, Staged, CleanedAndClosed, ClosedOrRaised
<1>20. ASSUME NEW q \in Op, ConfirmRefused(q) PROVE FALSE
  BY <1>20, RefusedEffect DEF IInv, Wrote, Staged, CleanedAndClosed, ClosedOrRaised
<1>21. ASSUME NEW q \in Op, ConfirmBegin(q) PROVE FALSE
  BY <1>21, ConfirmBeginEffect DEF IInv, Wrote, Staged, CleanedAndClosed, ClosedOrRaised
<1>22. ASSUME NEW q \in Op, Cancel(q) PROVE FALSE
  BY <1>22, CancelEffect DEF IInv, Wrote, Staged, CleanedAndClosed, ClosedOrRaised
<1>23. ASSUME NEW q \in Op, Expire(q) PROVE FALSE
  BY <1>23, ExpireEffect DEF IInv, Wrote, Staged, CleanedAndClosed, ClosedOrRaised
<1>24. ASSUME NEW q \in Op, SweepStale(q) PROVE FALSE
  BY <1>24, SweepEffect DEF IInv, Wrote, Staged, CleanedAndClosed, ClosedOrRaised
<1>25. CASE UNCHANGED vars
  BY <1>25 DEF vars
<1> QED
  BY <1>1, <1>2, <1>3, <1>4, <1>5, <1>6, <1>7, <1>8, <1>9, <1>10, <1>11, <1>12,
     <1>13, <1>14, <1>15, <1>16, <1>17, <1>18, <1>19, <1>20, <1>21, <1>22, <1>23,
     <1>24, <1>25
  DEF Next, JobStep, ConfirmStep, ManagerStep

\* An import is reported done only when the runtime that answered runs the imported
\* session.
THEOREM DoneMeansRunning == Spec => DoneRunsImported
<1>1. IInv /\ [Next]_vars =>
        [\A o \in Op : op[o].status = "active" /\ op'[o].status = "done"
           => session = o /\ proc = [up |-> TRUE, sess |-> o]]_vars
  BY DoneStep
<1> HIDE DEF IInv
<1> QED BY <1>1, ImportInvariant, PTL DEF Spec, DoneRunsImported

(***************************************************************************)
(* What Exchange needs besides: where the file and the backup stand        *)
(* whichever operation ends next.                                          *)
(***************************************************************************)

\* The file never holds anything but the session the latest operation found or the one
\* it imported, and the former as long as nothing was installed.
FileOK ==
  /\ \A o \in Op : op[o].status # "none" /\ Latest(o) => session \in {before[o], o}
  /\ \A o \in Op : Active(o) /\ op[o].stage \in Sweepable => session = before[o]
  /\ job.pc \in Ahead => session = before[job.op]
  /\ job.installed => job.backup = before[job.op]

\* What has installed is still open, out of the sweep's reach, until the job lets go of it.
HeldOK ==
  job.installed /\ job.op \notin spoiled => Active(job.op) /\ op[job.op].stage = "starting"

XInv == IInv /\ FileOK /\ HeldOK

LEMMA OnlyLatest ==
  ASSUME IInv, job.pc # "idle", NEW o \in Op, op[o].status # "none", Latest(o)
  PROVE  o = job.op
BY DEF IInv, SlotOK, Latest

LEMMA ActiveLatest ==
  ASSUME IInv, NEW o \in Op, Active(o)
  PROVE  op[o].status # "none" /\ Latest(o)
BY DEF IInv, SlotOK, Active

LEMMA FileOKKept == XInv /\ [Next]_vars => FileOK' /\ HeldOK'
<1> SUFFICES ASSUME XInv, [Next]_vars PROVE FileOK' /\ HeldOK'
  OBVIOUS
<1>a. IInv /\ TypeOK /\ SlotOK /\ InstallOK /\ FileOK /\ HeldOK
  BY DEF XInv, IInv
<1>b. job.pc # "idle" => job.op \in Op /\ op[job.op].status # "none" /\ Latest(job.op)
  BY <1>a DEF SlotOK
<1>c. /\ \A o \in Op : Active(o) => op[o].status # "none" /\ Latest(o)
      /\ job.pc # "idle" => \A o \in Op : op[o].status # "none" /\ Latest(o) => o = job.op
      /\ job.pc = "idle" => ~job.installed
      /\ job.pc \in {"undo", "restore"} => job.installed
  BY <1>a, ActiveLatest, OnlyLatest, IdleJob DEF SlotOK, InstallOK
<1>1. CASE StartImport
  <2>1. PICK n \in Op :
          /\ op[n].status = "none" /\ \A q \in Op : op[q].status = "none" => n <= q
          /\ op'[n].status = "active" /\ \A q \in Op \ {n} : op'[q] = op[q]
          /\ \A q \in Op : op[q].status # "active"
          /\ before' = [before EXCEPT ![n] = session] /\ session' = session
          /\ job'.op = n /\ ~job'.installed
    BY <1>1, <1>a, StartImportEffect
  <2>2. before'[n] = session
    BY <2>1, <1>a DEF TypeOK
  <2>3. ASSUME NEW o \in Op, op'[o].status # "none", Latest(o)' PROVE o = n
    <3>1. CASE o < n
      BY <2>1, <2>3, <3>1 DEF Latest
    <3>2. CASE n < o
      BY <2>1, <2>3, <3>2, <1>a DEF SlotOK
    <3> QED BY <3>1, <3>2
  <2> QED BY <2>1, <2>2, <2>3 DEF FileOK, HeldOK, Active
<1>2. CASE IdentityVerified
  BY <1>2, <1>a, <1>b, <1>c, IdleJob, VerifiedEffect
     DEF FileOK, HeldOK, Latest, Active, Wrote, Staged, CleanedAndClosed,
         ClosedOrRaised, Moved, Ahead, Sweepable
<1>3. CASE StartFails
  BY <1>3, <1>a, <1>b, <1>c, IdleJob, StartFailsEffect
     DEF FileOK, HeldOK, Latest, Active, Wrote, Staged, CleanedAndClosed,
         ClosedOrRaised, Moved, Ahead, Sweepable
<1>4. CASE LookRunning
  BY <1>4, <1>a, <1>b, <1>c, IdleJob, LookEffect
     DEF FileOK, HeldOK, Latest, Active, Wrote, Staged, CleanedAndClosed,
         ClosedOrRaised, Moved, Ahead, Sweepable
<1>5. CASE StopRuntime
  BY <1>5, <1>a, <1>b, <1>c, IdleJob, StopEffect
     DEF FileOK, HeldOK, Latest, Active, Wrote, Staged, CleanedAndClosed,
         ClosedOrRaised, Moved, Ahead, Sweepable, StopRuntime, Place
<1>6. CASE PollStopped
  BY <1>6, <1>a, <1>b, <1>c, IdleJob, PollEffect
     DEF FileOK, HeldOK, Latest, Active, Wrote, Staged, CleanedAndClosed,
         ClosedOrRaised, Moved, Ahead, Sweepable
<1>7. CASE Install
  <2>1. /\ job.pc = "install" /\ job.op \in Op /\ UNCHANGED before /\ session' = job.op
        /\ spoiled' = (IF Active(job.op) THEN spoiled ELSE spoiled \cup {job.op})
        /\ Staged(job.op, "starting")
        /\ job'.pc \in {"spawn", "failed"} /\ job'.op = job.op /\ job'.backup = session
    BY <1>7, <1>a, InstallEffect
  <2>2. FileOK'
    BY <2>1, <1>a, <1>b, <1>c DEF FileOK, Latest, Active, Staged, Ahead, Sweepable
  <2>3. HeldOK'
    BY <2>1, <1>b DEF HeldOK, Active, Staged
  <2> QED BY <2>2, <2>3
<1>8. CASE InstallFails
  <2>1. /\ job.pc = "install" /\ job.op \in Op /\ Moved("failed") /\ UNCHANGED before
        /\ \/ session' = session /\ spoiled' = spoiled
           \/ /\ session' = job.op /\ spoiled' = spoiled \cup {job.op}
              /\ Staged(job.op, "installing")
        /\ Staged(job.op, "installing") \/ Staged(job.op, op[job.op].stage)
    BY <1>8, <1>a, InstallFailsEffect
  <2>2. FileOK'
    <3>1. /\ \A o \in Op : op[o].status # "none" /\ Latest(o) => o = job.op
          /\ session = before[job.op]
      BY <2>1, <1>a, <1>c DEF FileOK, Ahead
    <3>2. \A o \in Op : op'[o].status = op[o].status
      BY <2>1 DEF Staged
    <3>3. \A o \in Op : op'[o].status # "none" /\ Latest(o)' => session' \in {before'[o], o}
      BY <2>1, <3>1, <3>2 DEF Latest
    <3>4. ASSUME NEW o \in Op, Active(o)', op'[o].stage \in Sweepable
          PROVE  session' = before'[o]
      <4>1. Active(o) /\ o = job.op
        BY <3>1, <3>2, <3>4, <1>c DEF Active
      <4>2. ~Staged(job.op, "installing")
        BY <2>1, <3>4, <4>1 DEF Staged, Sweepable
      <4> QED BY <2>1, <3>1, <4>1, <4>2
    <3>5. job'.pc = "failed" /\ job'.installed = job.installed /\ ~job.installed
      BY <2>1, <1>a DEF Moved, InstallOK, Ahead
    <3> QED BY <3>3, <3>4, <3>5 DEF FileOK, Ahead
  <2>3. HeldOK'
    BY <2>1, <1>a DEF HeldOK, InstallOK, Ahead, Moved, Staged
  <2> QED BY <2>2, <2>3
<1>9. CASE SpawnStops
  BY <1>9, <1>a, <1>b, <1>c, IdleJob, SpawnStopsEffect
     DEF FileOK, HeldOK, Latest, Active, Wrote, Staged, CleanedAndClosed,
         ClosedOrRaised, Moved, Ahead, Sweepable
<1>10. CASE SpawnStarts
  BY <1>10, <1>a, <1>b, <1>c, IdleJob, SpawnStartsEffect
     DEF FileOK, HeldOK, Latest, Active, Wrote, Staged, CleanedAndClosed,
         ClosedOrRaised, Moved, Ahead, Sweepable
<1>11. CASE Complete
  BY <1>11, <1>a, <1>b, <1>c, IdleJob, CompleteEffect
     DEF FileOK, HeldOK, Latest, Active, Wrote, Staged, CleanedAndClosed,
         ClosedOrRaised, Moved, Ahead, Sweepable
<1>12. CASE NotReady
  BY <1>12, <1>a, <1>b, <1>c, IdleJob, NotReadyEffect
     DEF FileOK, HeldOK, Latest, Active, Wrote, Staged, CleanedAndClosed,
         ClosedOrRaised, Moved, Ahead, Sweepable
<1>13. CASE CompleteFails
  BY <1>13, <1>a, <1>b, <1>c, IdleJob, CompleteFailsEffect
     DEF FileOK, HeldOK, Latest, Active, Wrote, Staged, CleanedAndClosed,
         ClosedOrRaised, Moved, Ahead, Sweepable
<1>14. CASE UndoOrClose
  BY <1>14, <1>a, <1>b, <1>c, IdleJob, UndoOrCloseEffect
     DEF FileOK, HeldOK, Latest, Active, Wrote, Staged, CleanedAndClosed,
         ClosedOrRaised, Moved, Ahead, Sweepable
<1>15. CASE UndoStops
  BY <1>15, <1>a, <1>b, <1>c, IdleJob, StopEffect
     DEF FileOK, HeldOK, Latest, Active, Wrote, Staged, CleanedAndClosed,
         ClosedOrRaised, Moved, Ahead, Sweepable, UndoStops, Place
<1>16. CASE Restore
  BY <1>16, <1>a, <1>b, <1>c, IdleJob, RestoreEffect
     DEF FileOK, HeldOK, Latest, Active, Wrote, Staged, CleanedAndClosed,
         ClosedOrRaised, Moved, Ahead, Sweepable
<1>17. CASE CloseFailed
  BY <1>17, <1>a, <1>b, <1>c, IdleJob, CloseFailedEffect
     DEF FileOK, HeldOK, Latest, Active, Wrote, Staged, CleanedAndClosed,
         ClosedOrRaised, Moved, Ahead, Sweepable
<1>18. CASE ControllerCrash
  BY <1>18, <1>a, <1>b, <1>c, IdleJob, CrashEffect
     DEF FileOK, HeldOK, Latest, Active, Wrote, Staged, CleanedAndClosed,
         ClosedOrRaised, Moved, Ahead, Sweepable
<1>19. CASE ManagerStep
  BY <1>19, <1>a, <1>b, <1>c, IdleJob, ManagerEffect
     DEF FileOK, HeldOK, Latest, Active, Wrote, Staged, CleanedAndClosed,
         ClosedOrRaised, Moved, Ahead, Sweepable
<1>20. ASSUME NEW q \in Op, ConfirmRefused(q) PROVE FileOK' /\ HeldOK'
  BY <1>20, <1>a, <1>b, <1>c, IdleJob, RefusedEffect
     DEF FileOK, HeldOK, Latest, Active, Wrote, Staged, CleanedAndClosed,
         ClosedOrRaised, Moved, Ahead, Sweepable
<1>21. ASSUME NEW q \in Op, ConfirmBegin(q) PROVE FileOK' /\ HeldOK'
  <2>1. /\ Active(q) /\ op[q].stage = "verified" /\ UNCHANGED <<op, session, before,
         spoiled>>
        /\ job'.pc = "look" /\ job'.op = q /\ ~job'.installed
    BY <1>21, <1>a, ConfirmBeginEffect DEF ConfirmBegin
  <2> QED BY <2>1, <1>a DEF FileOK, HeldOK, Latest, Active, Sweepable
<1>22. ASSUME NEW q \in Op, Cancel(q) PROVE FileOK' /\ HeldOK'
  BY <1>22, <1>a, <1>b, <1>c, IdleJob, CancelEffect
     DEF FileOK, HeldOK, Latest, Active, Wrote, Staged, CleanedAndClosed,
         ClosedOrRaised, Moved, Ahead, Sweepable
<1>23. ASSUME NEW q \in Op, Expire(q) PROVE FileOK' /\ HeldOK'
  BY <1>23, <1>a, <1>b, <1>c, IdleJob, ExpireEffect
     DEF FileOK, HeldOK, Latest, Active, Wrote, Staged, CleanedAndClosed,
         ClosedOrRaised, Moved, Ahead, Sweepable
<1>24. ASSUME NEW q \in Op, SweepStale(q) PROVE FileOK' /\ HeldOK'
  BY <1>24, <1>a, <1>b, <1>c, IdleJob, SweepEffect
     DEF FileOK, HeldOK, Latest, Active, Wrote, Staged, CleanedAndClosed,
         ClosedOrRaised, Moved, Ahead, Sweepable
<1>25. CASE UNCHANGED vars
  BY <1>25, <1>a DEF vars, FileOK, HeldOK, Latest, Active, Wrote, Staged,
         CleanedAndClosed, ClosedOrRaised, Moved, Ahead, Sweepable
<1> QED
  BY <1>1, <1>2, <1>3, <1>4, <1>5, <1>6, <1>7, <1>8, <1>9, <1>10, <1>11, <1>12, <1>13,
     <1>14, <1>15, <1>16, <1>17, <1>18, <1>19, <1>20, <1>21, <1>22, <1>23, <1>24, <1>25
  DEF Next, JobStep, ConfirmStep, ManagerStep

LEMMA ImportXInv == Spec => []XInv
<1>1. Init => XInv
  <2>1. ASSUME Init PROVE FileOK /\ HeldOK
    BY <2>1, IdleJob DEF Init, FileOK, HeldOK, Active, Ahead
  <2> QED BY <2>1, Initial DEF XInv
<1>2. XInv /\ [Next]_vars => XInv'
  BY FileOKKept, Inductive DEF XInv
<1> HIDE DEF XInv
<1> QED BY <1>1, <1>2, PTL DEF Spec

(***************************************************************************)
(* TdataImport implements Exchange.                                        *)
(***************************************************************************)
xvars == <<State, session, before, spoiled>>

LEMMA StateOf ==
  ASSUME XInv, NEW o \in Op
  PROVE  /\ State[o] = "open" <=> Active(o)
         /\ State[o] = "none" <=> op[o].status = "none"
<1>1. op[o].status \in {"none", "active", "done", "error", "cancelled"}
  BY DEF XInv, IInv, TypeOK
<1>2. State[o] = CASE op[o].status = "active" -> "open"
                   [] op[o].status \in {"error", "cancelled"} -> "failed"
                   [] OTHER -> op[o].status
  BY DEF State
<1> QED BY <1>1, <1>2 DEF Active

LEMMA StateSame ==
  ASSUME \A p \in Op : op'[p].status = op[p].status
  PROVE  State' = State
BY DEF State

LEMMA StateClosed ==
  ASSUME NEW o \in Op, NEW s \in {"error", "cancelled"}, Wrote(o, s)
  PROVE  State' = IF Active(o) THEN [State EXCEPT ![o] = "failed"] ELSE State
<1>1. CASE Active(o)
  <2>1. \A p \in Op : op'[p].status = IF p = o THEN s ELSE op[p].status
    BY <1>1 DEF Wrote
  <2> QED BY <1>1, <2>1 DEF State
<1>2. CASE ~Active(o)
  BY <1>2, StateSame DEF Wrote
<1> QED BY <1>1, <1>2

LEMMA LatestSame ==
  ASSUME XInv, NEW o \in Op, op[o].status # "none", Latest(o)
  PROVE  Xchg!Latest(o)
BY StateOf DEF Latest, Xchg!Latest

LEMMA ExchangeInit == Init => Xchg!Init
<1> SUFFICES ASSUME Init PROVE Xchg!Init
  OBVIOUS
<1>1. State = [o \in Op |-> "none"]
  BY DEF Init, State
<1>2. session \in Session /\ before \in [Op -> Session] /\ spoiled = {}
  BY DEF Init
<1> QED BY <1>1, <1>2 DEF Xchg!Init

\* A new operation is the next one, and the file it finds is noted.
LEMMA ExchangeOpen ==
  ASSUME XInv, StartImport
  PROVE  \E o \in Op : Xchg!Open(o)
<1>1. PICK n \in Op :
        /\ op[n].status = "none" /\ \A q \in Op : op[q].status = "none" => n <= q
        /\ op'[n].status = "active" /\ \A q \in Op \ {n} : op'[q] = op[q]
        /\ \A q \in Op : op[q].status # "active"
        /\ before' = [before EXCEPT ![n] = session] /\ session' = session
        /\ spoiled' = spoiled
  BY StartImportEffect DEF XInv, IInv
<1>2. State' = [State EXCEPT ![n] = "open"]
  BY <1>1 DEF State
<1>3. \A p \in Op : op[p].status = "none" <=> p >= n
  <2>1. \A p \in Op : p >= n => op[p].status = "none"
    BY <1>1 DEF XInv, IInv, SlotOK
  <2> QED BY <1>1, <2>1
<1>4. \A p \in Op : State[p] # "open" /\ (State[p] = "none" <=> p >= n)
  BY <1>1, <1>3, StateOf DEF Active
<1> QED BY <1>1, <1>2, <1>4 DEF Xchg!Open

\* What the job does to the file, and its giving up, concern the latest operation.
LEMMA ExchangeFile ==
  ASSUME XInv, Install \/ InstallFails \/ Restore \/ ControllerCrash
  PROVE  UNCHANGED xvars \/ \E o \in Op : Xchg!PutIn(o) \/ Xchg!PutBack(o) \/ Xchg!GiveUp(o)
<1>a. TypeOK /\ SlotOK /\ InstallOK
  BY DEF XInv, IInv
<1>b. job.pc # "idle" => job.op \in Op /\ Xchg!Latest(job.op)
  BY <1>a, LatestSame DEF SlotOK
<1>1. CASE Install
  <2>1. /\ job.op \in Op /\ session' = job.op /\ before' = before
        /\ spoiled' = (IF Active(job.op) THEN spoiled ELSE spoiled \cup {job.op})
        /\ State' = State /\ Xchg!Latest(job.op)
    BY <1>1, <1>a, <1>b, InstallEffect, StateSame DEF Staged
  <2>2. Active(job.op) => State[job.op] = "open"
    BY <2>1, StateOf
  <2> QED BY <2>1, <2>2 DEF Xchg!PutIn, Xchg!Waive
<1>2. CASE InstallFails
  <2>1. /\ job.op \in Op /\ before' = before
        /\ \/ session' = session /\ spoiled' = spoiled
           \/ session' = job.op /\ spoiled' = spoiled \cup {job.op}
        /\ State' = State /\ Xchg!Latest(job.op)
    BY <1>2, <1>a, <1>b, InstallFailsEffect, StateSame DEF Staged
  <2> QED BY <2>1 DEF Xchg!PutIn, Xchg!Waive, xvars
<1>3. CASE Restore
  <2>1. /\ job.pc = "restore" /\ job.op \in Op /\ before' = before
        /\ \/ session' = job.backup /\ spoiled' = spoiled
           \/ session' = session /\ spoiled' = spoiled \cup {job.op}
        /\ State' = State /\ Xchg!Latest(job.op)
    BY <1>3, <1>a, <1>b, RestoreEffect, StateSame
  <2>2. job.installed /\ job.backup = before[job.op]
    BY <2>1, <1>a DEF InstallOK, XInv, FileOK
  <2>3. State[job.op] = "open" \/ job.op \in spoiled
    BY <2>1, <2>2, StateOf DEF XInv, HeldOK
  <2> QED BY <2>1, <2>2, <2>3 DEF Xchg!PutBack, Xchg!GiveUp, Xchg!Waive
<1>4. CASE ControllerCrash
  <2>1. /\ session' = session /\ before' = before /\ State' = State
        /\ spoiled' = (IF job.pc \in {"idle", "probe"} THEN spoiled ELSE spoiled \cup {job.op})
    BY <1>4, <1>a, CrashEffect, StateSame
  <2> QED BY <2>1, <1>b DEF Xchg!GiveUp, Xchg!Waive, xvars
<1> QED BY <1>1, <1>2, <1>3, <1>4

\* Whoever closes an operation as failed finds the old session in the file, or one
\* that is waived.
LEMMA ExchangeFail ==
  ASSUME XInv, NEW o \in Op, NEW s \in {"error", "cancelled"}, Wrote(o, s),
         Active(o) => session = before[o] \/ o \in spoiled,
         UNCHANGED <<session, before, spoiled>>
  PROVE  UNCHANGED xvars \/ Xchg!Fail(o)
<1>1. CASE Active(o)
  <2>1. State' = [State EXCEPT ![o] = "failed"] /\ State[o] = "open"
    BY <1>1, StateClosed, StateOf
  <2> QED BY <1>1, <2>1 DEF Xchg!Fail
<1>2. CASE ~Active(o)
  BY <1>2, StateClosed DEF xvars
<1> QED BY <1>1, <1>2

LEMMA ExchangeRaise ==
  ASSUME NEW o \in Op, Wrote(o, "active"), UNCHANGED <<session, before, spoiled>>
  PROVE  UNCHANGED xvars
BY StateSame DEF Wrote, Active, xvars

LEMMA ExchangeClose ==
  ASSUME XInv,
         StartFails \/ CloseFailed
           \/ \E q \in Op : ConfirmRefused(q) \/ Cancel(q) \/ SweepStale(q)
  PROVE  UNCHANGED xvars \/ \E o \in Op : Xchg!Fail(o)
<1>a. TypeOK /\ SlotOK /\ RestoreOK /\ FileOK
  BY DEF XInv, IInv
<1>b. \A o \in Op : Active(o) /\ o \notin spoiled => AsBefore(o) /\ op[o].status # "done"
  BY <1>a, ActiveLatest DEF XInv, RestoreOK, Active
<1>1. CASE StartFails
  <2>1. /\ job.pc = "probe" /\ job.op \in Op
        /\ Wrote(job.op, "error") \/ Wrote(job.op, "active")
        /\ UNCHANGED <<session, before, spoiled>>
    BY <1>1, <1>a, StartFailsEffect DEF CleanedAndClosed, ClosedOrRaised
  <2>2. session = before[job.op]
    BY <2>1, <1>a DEF FileOK, Ahead
  <2> QED BY <2>1, <2>2, ExchangeFail, ExchangeRaise
<1>2. CASE CloseFailed
  <2>1. /\ job.pc = "close" /\ job.op \in Op
        /\ Wrote(job.op, "error") \/ Wrote(job.op, "active")
        /\ UNCHANGED <<session, before, spoiled>>
    BY <1>2, <1>a, CloseFailedEffect
  <2>2. Active(job.op) => session = before[job.op] \/ job.op \in spoiled
    BY <2>1, <1>b DEF AsBefore
  <2> QED BY <2>1, <2>2, ExchangeFail, ExchangeRaise
<1>3. ASSUME NEW q \in Op, ConfirmRefused(q) \/ Cancel(q)
      PROVE  UNCHANGED xvars \/ \E o \in Op : Xchg!Fail(o)
  <2>1. /\ Wrote(q, "error") \/ Wrote(q, "cancelled")
        /\ UNCHANGED <<session, before, spoiled>>
    BY <1>3, <1>a, RefusedEffect, CancelEffect, IdleJob
  <2>2. Active(q) => session = before[q] \/ q \in spoiled
    BY <1>3, <1>a, <1>b, RefusedEffect, CancelEffect, IdleJob DEF AsBefore
  <2> QED BY <2>1, <2>2, ExchangeFail
<1>4. ASSUME NEW q \in Op, SweepStale(q)
      PROVE  UNCHANGED xvars \/ \E o \in Op : Xchg!Fail(o)
  <2>1. /\ op[q].stage \in {"early", "verified"}
        /\ Wrote(q, "error") \/ Wrote(q, "active")
        /\ UNCHANGED <<session, before, spoiled>>
    BY <1>4, <1>a, SweepEffect DEF CleanedAndClosed, ClosedOrRaised
  <2>2. Active(q) => session = before[q]
    BY <2>1, <1>a DEF FileOK, Sweepable
  <2> QED BY <2>1, <2>2, ExchangeFail, ExchangeRaise
<1> QED BY <1>1, <1>2, <1>3, <1>4

\* The end of an installation whose runtime has answered.
LEMMA ExchangeComplete ==
  ASSUME XInv, Complete \/ CompleteFails
  PROVE  UNCHANGED xvars
           \/ \E o \in Op : Xchg!Succeed(o) \/ Xchg!Fail(o) \/ Xchg!GiveUp(o)
<1>a. TypeOK /\ SlotOK /\ InstallOK
  BY DEF XInv, IInv
<1>1. CASE Complete
  <2>1. /\ job.pc = "ready" /\ job.op \in Op /\ UNCHANGED <<session, before, spoiled>>
        /\ \A p \in Op : op'[p].status = IF p = job.op /\ Active(p) THEN "done" ELSE op[p].status
    BY <1>1, <1>a, CompleteEffect
  <2>2. session = job.op
    BY <2>1, <1>a DEF InstallOK, Placed
  <2>3. CASE Active(job.op)
    <3>1. State' = [State EXCEPT ![job.op] = "done"]
      BY <2>1, <2>3 DEF State
    <3> QED BY <2>1, <2>2, <2>3, <3>1, StateOf DEF Xchg!Succeed
  <2>4. CASE ~Active(job.op)
    BY <2>1, <2>4, StateSame DEF xvars
  <2> QED BY <2>3, <2>4
<1>2. CASE CompleteFails
  <2>1. /\ job.op \in Op /\ UNCHANGED <<session, before>>
        /\ \/ Wrote(job.op, "error")
           \/ Staged(job.op, op[job.op].stage) \/ Staged(job.op, "running")
        /\ spoiled' = spoiled \cup {job.op} /\ Xchg!Latest(job.op)
    BY <1>2, <1>a, CompleteFailsEffect, LatestSame DEF SlotOK
  <2>2. CASE Wrote(job.op, "error") /\ Active(job.op)
    BY <2>1, <2>2, StateClosed, StateOf DEF Xchg!Fail, Xchg!Waive
  <2>3. CASE Wrote(job.op, "error") /\ ~Active(job.op)
    BY <2>1, <2>3, StateClosed DEF Xchg!GiveUp, Xchg!Waive
  <2>4. CASE Staged(job.op, op[job.op].stage) \/ Staged(job.op, "running")
    BY <2>1, <2>4, StateSame DEF Staged, Xchg!GiveUp, Xchg!Waive
  <2> QED BY <2>1, <2>2, <2>3, <2>4
<1> QED BY <1>1, <1>2

\* The rest is nothing that Exchange sees.
LEMMA ExchangeStutters ==
  ASSUME XInv,
         \/ IdentityVerified \/ LookRunning \/ StopRuntime \/ PollStopped \/ SpawnStops
         \/ SpawnStarts \/ NotReady \/ UndoOrClose \/ UndoStops \/ ManagerStep
         \/ \E q \in Op : ConfirmBegin(q) \/ Expire(q)
         \/ UNCHANGED vars
  PROVE  UNCHANGED xvars
<1>1. (\A p \in Op : op'[p].status = op[p].status) /\ UNCHANGED <<session, before, spoiled>>
  <2>a. TypeOK /\ SlotOK
    BY DEF XInv, IInv
  <2>1. CASE IdentityVerified
    BY <2>1, <2>a, VerifiedEffect DEF Staged
  <2>2. CASE LookRunning \/ PollStopped \/ NotReady \/ UndoOrClose
    BY <2>2, <2>a, LookEffect, PollEffect, NotReadyEffect, UndoOrCloseEffect
  <2>3. CASE StopRuntime \/ UndoStops
    BY <2>3, <2>a, StopEffect DEF StopRuntime, UndoStops, Place
  <2>4. CASE SpawnStops \/ SpawnStarts \/ ManagerStep
    BY <2>4, <2>a, SpawnStopsEffect, SpawnStartsEffect, ManagerEffect
  <2>5. CASE \E q \in Op : ConfirmBegin(q) \/ Expire(q)
    BY <2>5, <2>a, ConfirmBeginEffect, ExpireEffect
  <2>6. CASE UNCHANGED vars
    BY <2>6 DEF vars
  <2> QED BY <2>1, <2>2, <2>3, <2>4, <2>5, <2>6
<1> QED BY <1>1, StateSame DEF xvars

LEMMA ExchangeStep == XInv /\ [Next]_vars => [Xchg!Next]_xvars
<1> SUFFICES ASSUME XInv, [Next]_vars PROVE Xchg!Next \/ UNCHANGED xvars
  OBVIOUS
<1>1. CASE StartImport
  BY <1>1, ExchangeOpen DEF Xchg!Next
<1>2. CASE Install \/ InstallFails \/ Restore \/ ControllerCrash
  BY <1>2, ExchangeFile DEF Xchg!Next
<1>3. CASE StartFails \/ CloseFailed
             \/ \E q \in Op : ConfirmRefused(q) \/ Cancel(q) \/ SweepStale(q)
  BY <1>3, ExchangeClose DEF Xchg!Next
<1>4. CASE Complete \/ CompleteFails
  BY <1>4, ExchangeComplete DEF Xchg!Next
<1>5. CASE \/ IdentityVerified \/ LookRunning \/ StopRuntime \/ PollStopped \/ SpawnStops
           \/ SpawnStarts \/ NotReady \/ UndoOrClose \/ UndoStops \/ ManagerStep
           \/ \E q \in Op : ConfirmBegin(q) \/ Expire(q)
           \/ UNCHANGED vars
  BY <1>5, ExchangeStutters
<1> QED BY <1>1, <1>2, <1>3, <1>4, <1>5 DEF Next, JobStep, ConfirmStep, ManagerStep

\* start_import, confirm_install, cancel and the sweep implement Exchange: the file of
\* the manager goes from the session an operation found to the one it imported and,
\* unless it ends well, back again.
THEOREM ImportImplements == Spec => ImportImplementsExchange
<1> HIDE DEF XInv
<1> QED BY ImportXInv, ExchangeInit, ExchangeStep, PTL
        DEF Spec, ImportImplementsExchange, Xchg!Spec, xvars

(***************************************************************************)
(* The slot.  That an operation is closed in the end is left to the run;   *)
(* what can be proved is that none of them gets out of everyone's reach.   *)
(***************************************************************************)

\* An active operation is one the sweep closes when its time is up, the one a command is
\* at work on, or one whose confirmation ended without closing it: the controller
\* crashed inside it, or the write that was to close it raised.
InReach == \A o \in Op : Active(o) => op[o].stage \in Sweepable \/ job.op = o \/ o \in unclosed

ReachOK ==
  /\ InReach
  /\ job.pc = "probe" => op[job.op].stage \in Sweepable
  /\ \A o \in Op : op[o].status = "none" => op[o].stage = "early"

LEMMA ReachOKKept == XInv /\ ReachOK /\ [Next]_vars => ReachOK'
<1> SUFFICES ASSUME XInv, ReachOK, [Next]_vars PROVE ReachOK'
  OBVIOUS
<1>a. IInv /\ TypeOK /\ SlotOK /\ HeldOK
  BY DEF XInv, IInv
<1>b. job.pc # "idle" => job.op \in Op /\ op[job.op].status # "none" /\ Latest(job.op)
  BY <1>a DEF SlotOK
<1>c. job.pc = "idle" => job.op = 0
  BY <1>a, IdleJob DEF SlotOK
<1>1. CASE StartImport
  <2>1. PICK n \in Op :
          /\ op[n].status = "none" /\ op' \in OpTable
          /\ op'[n].status = "active" /\ \A q \in Op \ {n} : op'[q] = op[q]
          /\ \A q \in Op : op[q].status # "active"
          /\ op'[n].stage = op[n].stage
          /\ job'.op = n
    BY <1>1, <1>a, StartImportEffect
  <2> QED BY <2>1 DEF ReachOK, InReach, Active, Sweepable
<1>2. CASE IdentityVerified
  BY <1>2, <1>a, <1>b, <1>c, IdleJob, VerifiedEffect
     DEF ReachOK, InReach, Active, Wrote, Staged, CleanedAndClosed, ClosedOrRaised,
         Moved, Sweepable
<1>3. CASE StartFails
  BY <1>3, <1>a, <1>b, <1>c, IdleJob, StartFailsEffect
     DEF ReachOK, InReach, Active, Wrote, Staged, CleanedAndClosed, ClosedOrRaised,
         Moved, Sweepable
<1>4. CASE LookRunning
  BY <1>4, <1>a, <1>b, <1>c, IdleJob, LookEffect
     DEF ReachOK, InReach, Active, Wrote, Staged, CleanedAndClosed, ClosedOrRaised,
         Moved, Sweepable
<1>5. CASE StopRuntime
  BY <1>5, <1>a, <1>b, <1>c, IdleJob, StopEffect
     DEF ReachOK, InReach, Active, Wrote, Staged, CleanedAndClosed, ClosedOrRaised,
         Moved, Sweepable, StopRuntime, Place
<1>6. CASE PollStopped
  BY <1>6, <1>a, <1>b, <1>c, IdleJob, PollEffect
     DEF ReachOK, InReach, Active, Wrote, Staged, CleanedAndClosed, ClosedOrRaised,
         Moved, Sweepable
<1>7. CASE Install
  BY <1>7, <1>a, <1>b, <1>c, IdleJob, InstallEffect
     DEF ReachOK, InReach, Active, Wrote, Staged, CleanedAndClosed, ClosedOrRaised,
         Moved, Sweepable
<1>8. CASE InstallFails
  BY <1>8, <1>a, <1>b, <1>c, IdleJob, InstallFailsEffect
     DEF ReachOK, InReach, Active, Wrote, Staged, CleanedAndClosed, ClosedOrRaised,
         Moved, Sweepable
<1>9. CASE SpawnStops
  BY <1>9, <1>a, <1>b, <1>c, IdleJob, SpawnStopsEffect
     DEF ReachOK, InReach, Active, Wrote, Staged, CleanedAndClosed, ClosedOrRaised,
         Moved, Sweepable
<1>10. CASE SpawnStarts
  BY <1>10, <1>a, <1>b, <1>c, IdleJob, SpawnStartsEffect
     DEF ReachOK, InReach, Active, Wrote, Staged, CleanedAndClosed, ClosedOrRaised,
         Moved, Sweepable
<1>11. CASE Complete
  BY <1>11, <1>a, <1>b, <1>c, IdleJob, CompleteEffect
     DEF ReachOK, InReach, Active, Wrote, Staged, CleanedAndClosed, ClosedOrRaised,
         Moved, Sweepable
<1>12. CASE NotReady
  BY <1>12, <1>a, <1>b, <1>c, IdleJob, NotReadyEffect
     DEF ReachOK, InReach, Active, Wrote, Staged, CleanedAndClosed, ClosedOrRaised,
         Moved, Sweepable
<1>13. CASE CompleteFails
  BY <1>13, <1>a, <1>b, <1>c, IdleJob, CompleteFailsEffect
     DEF ReachOK, InReach, Active, Wrote, Staged, CleanedAndClosed, ClosedOrRaised,
         Moved, Sweepable
<1>14. CASE UndoOrClose
  BY <1>14, <1>a, <1>b, <1>c, IdleJob, UndoOrCloseEffect
     DEF ReachOK, InReach, Active, Wrote, Staged, CleanedAndClosed, ClosedOrRaised,
         Moved, Sweepable
<1>15. CASE UndoStops
  BY <1>15, <1>a, <1>b, <1>c, IdleJob, StopEffect
     DEF ReachOK, InReach, Active, Wrote, Staged, CleanedAndClosed, ClosedOrRaised,
         Moved, Sweepable, UndoStops, Place
<1>16. CASE Restore
  BY <1>16, <1>a, <1>b, <1>c, IdleJob, RestoreEffect
     DEF ReachOK, InReach, Active, Wrote, Staged, CleanedAndClosed, ClosedOrRaised,
         Moved, Sweepable
<1>17. CASE CloseFailed
  BY <1>17, <1>a, <1>b, <1>c, IdleJob, CloseFailedEffect
     DEF ReachOK, InReach, Active, Wrote, Staged, CleanedAndClosed, ClosedOrRaised,
         Moved, Sweepable
<1>18. CASE ControllerCrash
  BY <1>18, <1>a, <1>b, <1>c, IdleJob, CrashEffect
     DEF ReachOK, InReach, Active, Wrote, Staged, CleanedAndClosed, ClosedOrRaised,
         Moved, Sweepable
<1>19. CASE ManagerStep
  BY <1>19, <1>a, <1>b, <1>c, IdleJob, ManagerEffect
     DEF ReachOK, InReach, Active, Wrote, Staged, CleanedAndClosed, ClosedOrRaised,
         Moved, Sweepable
<1>20. ASSUME NEW q \in Op, ConfirmRefused(q) PROVE ReachOK'
  BY <1>20, <1>a, <1>b, <1>c, IdleJob, RefusedEffect
     DEF ReachOK, InReach, Active, Wrote, Staged, CleanedAndClosed, ClosedOrRaised,
         Moved, Sweepable
<1>21. ASSUME NEW q \in Op, ConfirmBegin(q) PROVE ReachOK'
  BY <1>21, <1>a, <1>b, <1>c, IdleJob, ConfirmBeginEffect
     DEF ReachOK, InReach, Active, Wrote, Staged, CleanedAndClosed, ClosedOrRaised,
         Moved, Sweepable
<1>22. ASSUME NEW q \in Op, Cancel(q) PROVE ReachOK'
  BY <1>22, <1>a, <1>b, <1>c, IdleJob, CancelEffect
     DEF ReachOK, InReach, Active, Wrote, Staged, CleanedAndClosed, ClosedOrRaised,
         Moved, Sweepable
<1>23. ASSUME NEW q \in Op, Expire(q) PROVE ReachOK'
  BY <1>23, <1>a, <1>b, <1>c, IdleJob, ExpireEffect
     DEF ReachOK, InReach, Active, Wrote, Staged, CleanedAndClosed, ClosedOrRaised,
         Moved, Sweepable
<1>24. ASSUME NEW q \in Op, SweepStale(q) PROVE ReachOK'
  BY <1>24, <1>a, <1>b, <1>c, IdleJob, SweepEffect
     DEF ReachOK, InReach, Active, Wrote, Staged, CleanedAndClosed, ClosedOrRaised,
         Moved, Sweepable
<1>25. CASE UNCHANGED vars
  BY <1>25, <1>a DEF vars, ReachOK, InReach, Active, Wrote, Staged, CleanedAndClosed,
         ClosedOrRaised, Moved, Sweepable
<1> QED
  BY <1>1, <1>2, <1>3, <1>4, <1>5, <1>6, <1>7, <1>8, <1>9, <1>10, <1>11, <1>12, <1>13,
     <1>14, <1>15, <1>16, <1>17, <1>18, <1>19, <1>20, <1>21, <1>22, <1>23, <1>24, <1>25
  DEF Next, JobStep, ConfirmStep, ManagerStep

\* The safety half of SlotFreed.  Only two things put an active operation past the
\* sweep's stages with no command at work on it, and so take the manager's one slot
\* away until somebody cancels: a crash of the controller inside the confirmation, and
\* a closing write of confirm_install that raises.  Failing steps, failing clean-ups, a
\* failing rollback and a sweep whose own write fails do not.
THEOREM SlotStaysInReach == Spec => []InReach
<1>1. Init => ReachOK
  BY IdleJob DEF Init, ReachOK, InReach, Active
<1>2. ReachOK => InReach
  BY DEF ReachOK
<1> HIDE DEF XInv, ReachOK, InReach
<1> QED BY <1>1, <1>2, ReachOKKept, ImportXInv, PTL DEF Spec
=============================================================================
