----------------------------- MODULE ManagerQueue -----------------------------
(***************************************************************************)
(* manager_commands: the SQLite table through which the controller (and    *)
(* preflight_check) asks the manager runtimes to do something.  Every      *)
(* runtime is a process of its own with one sequential loop,               *)
(* main._manager_command_loop.  A caller inserts a row, polls it until its *)
(* own deadline and answers the operator.  The sweeper of the controller   *)
(* finalises rows past expires_at; the rollback of a manager replacement   *)
(* finalises the queue of the manager it gives up.                         *)
(*                                                                         *)
(* Time is a set of facts that become true: a row's expires_at has passed, *)
(* a row was taken more than 120 s ago.  A command is abstracted to its    *)
(* target and to whether its caller gave it an expires_at (three bizlink   *)
(* callers do not).                                                        *)
(***************************************************************************)
EXTENDS Naturals, FiniteSets

CONSTANTS Manager,     \* manager keys: one queue and one runtime each
          MaxCmds,     \* bound: rows ever inserted
          MaxFaults    \* bound: crashes, failing writes and failing stops

ASSUME BoundAssumption == MaxCmds \in Nat /\ MaxFaults \in Nat

Cmd == 1 .. MaxCmds   \* AUTOINCREMENT ids: the order of created_at, id

VARIABLES
  row,      \* manager_commands
  last,     \* id of the newest row
  expired,  \* rows whose expires_at has passed
  stale,    \* rows whose started_at is older than stale_after_sec
  caller,   \* what the caller of each row has told its operator
  work,     \* the loop of each runtime: where it is, its row, its result
  rb,       \* rollback of a replacement whose new manager is this one
  rolled,   \* history: rows finalised by a rollback
  runs,     \* history: executions begun, less those whose result was lost
  okRuns,   \* history: rows with an execution that returned ok
  faults

table   == <<row, last>>
clock   == <<expired, stale>>
history == <<runs, okRuns>>
vars    == <<table, clock, caller, work, rb, rolled, history, faults>>

Pending == {"new", "processing"}
Final   == {"done", "error", "timeout"}
Row     == [status : Pending \cup Final \cup {"none", "deleted"},
            target : Manager, expires : BOOLEAN]
Worker  == [pc : {"down", "idle", "claimed", "refuse", "running", "finish",
                  "refinish"},
            cmd : 0 .. MaxCmds, res : {"none", "ok", "error"}]

Down     == [pc |-> "down", cmd |-> 0, res |-> "none"]
Free     == [pc |-> "idle", cmd |-> 0, res |-> "none"]
Claim(c) == [pc |-> "claimed", cmd |-> c, res |-> "none"]

Init ==
  /\ \E m \in Manager :
       row = [c \in Cmd |-> [status |-> "none", target |-> m,
                             expires |-> FALSE]]
  /\ last = 0
  /\ expired = {} /\ stale = {}
  /\ caller = [c \in Cmd |-> "none"]
  /\ work = [m \in Manager |-> Down]
  /\ rb = [m \in Manager |-> "none"]
  /\ rolled = {}
  /\ runs = [c \in Cmd |-> 0]
  /\ okRuns = {}
  /\ faults = 0

StatusOf(c)   == row[c].status
RowsOf(m)     == {c \in Cmd : StatusOf(c) # "none" /\ row[c].target = m}
PendingOf(m)  == {c \in RowsOf(m) : StatusOf(c) \in Pending}

\* UPDATE ... SET status = s of the rows C.
SetStatus(C, s) ==
  row' = [c \in Cmd |-> IF c \in C THEN [row[c] EXCEPT !.status = s]
                                   ELSE row[c]]

\* One more step that goes wrong.
Fault == faults < MaxFaults /\ faults' = faults + 1

-----------------------------------------------------------------------------
(* Callers.                                                                *)

\* manager_queue_put.
Put(m) ==
  /\ last < MaxCmds
  /\ last' = last + 1
  /\ \E e \in BOOLEAN :
       row' = [row EXCEPT ![last + 1] =
                 [status |-> "new", target |-> m, expires |-> e]]
  /\ caller' = [caller EXCEPT ![last + 1] = "waiting"]
  /\ UNCHANGED <<clock, work, rb, rolled, history, faults>>

\* A poll finds a final status and the caller reports it.
PollAnswers(c) ==
  /\ caller[c] = "waiting"
  /\ StatusOf(c) \in Final
  /\ caller' = [caller EXCEPT ![c] = IF StatusOf(c) = "done" THEN "success"
                                                             ELSE "failure"]
  /\ UNCHANGED <<table, clock, work, rb, rolled, history, faults>>

\* The caller's deadline (shorter than expires_at) passes, or its process dies;
\* the device-login callers do not wait at all.  The row stays in the queue.
GiveUp(c) ==
  /\ caller[c] = "waiting"
  /\ caller' = [caller EXCEPT ![c] = "failure"]
  /\ UNCHANGED <<table, clock, work, rb, rolled, history, faults>>

-----------------------------------------------------------------------------
(* The runtime of manager m.                                               *)

StartRuntime(m) ==
  /\ work[m].pc = "down"
  /\ work' = [work EXCEPT ![m] = Free]
  /\ UNCHANGED <<table, clock, caller, rb, rolled, history, faults>>

\* Mutant: a row taken by a dead runtime is never taken again.
EligibleNewOnly(m) ==
  {c \in RowsOf(m) : c \notin expired /\ StatusOf(c) = "new"}

\* Mutant: failed commands are tried again.
EligibleErrors(m) ==
  {c \in RowsOf(m) : /\ c \notin expired
                     /\ \/ StatusOf(c) \in {"new", "error"}
                        \/ StatusOf(c) = "processing" /\ c \in stale}

\* The rows manager_queue_take_next selects from.
Eligible(m) ==
  {c \in RowsOf(m) : /\ c \notin expired
                     /\ \/ StatusOf(c) = "new"
                        \/ StatusOf(c) = "processing" /\ c \in stale}

\* Mutant: SELECT without ORDER BY.
TakeAny(m) ==
  /\ work[m].pc = "idle"
  /\ \E c \in Eligible(m) :
       /\ SetStatus({c}, "processing")
       /\ stale' = stale \ {c}
       /\ work' = [work EXCEPT ![m] = Claim(c)]
  /\ UNCHANGED <<last, expired, caller, rb, rolled, history, faults>>

\* manager_queue_take_next, committed before anything is executed.
TakeNext(m) ==
  /\ work[m].pc = "idle"
  /\ \E c \in Eligible(m) :
       /\ \A d \in Eligible(m) : c <= d
       /\ SetStatus({c}, "processing")
       /\ stale' = stale \ {c}
       /\ work' = [work EXCEPT ![m] = Claim(c)]
  /\ UNCHANGED <<last, expired, caller, rb, rolled, history, faults>>

\* Expired since it was taken: left 'processing' for the sweeper.
SkipExpired(m) ==
  /\ work[m].pc = "claimed" /\ work[m].cmd \in expired
  /\ work' = [work EXCEPT ![m] = Free]
  /\ UNCHANGED <<table, clock, caller, rb, rolled, history, faults>>

\* A command that needs Telegram, with the client disconnected.
Refuse(m) ==
  /\ work[m].pc = "claimed" /\ work[m].cmd \notin expired
  /\ work' = [work EXCEPT ![m].pc = "refuse", ![m].res = "error"]
  /\ UNCHANGED <<table, clock, caller, rb, rolled, history, faults>>

Begin(m) ==
  /\ work[m].pc = "claimed" /\ work[m].cmd \notin expired
  /\ work' = [work EXCEPT ![m].pc = "running"]
  /\ runs' = [runs EXCEPT ![work[m].cmd] = @ + 1]
  /\ UNCHANGED <<table, clock, caller, rb, rolled, okRuns, faults>>

\* The handler returns, or raises: an exception is recorded as an error.
Execute(m) ==
  /\ work[m].pc = "running"
  /\ \E r \in {"ok", "error"} :
       /\ work' = [work EXCEPT ![m].pc = "finish", ![m].res = r]
       /\ okRuns' = IF r = "ok" THEN okRuns \cup {work[m].cmd} ELSE okRuns
  /\ UNCHANGED <<table, clock, caller, rb, rolled, runs, faults>>

\* Mutant: the status column gets the raw result.
FinishRaw(m) ==
  /\ work[m].pc \in {"refuse", "finish", "refinish"}
  /\ SetStatus({work[m].cmd}, work[m].res)
  /\ work' = [work EXCEPT ![m] = Free]
  /\ UNCHANGED <<last, clock, caller, rb, rolled, history, faults>>

\* manager_queue_finish: an UPDATE by nonce, whatever the status is now.
Finish(m) ==
  LET c == work[m].cmd IN
  /\ work[m].pc \in {"refuse", "finish", "refinish"}
  /\ SetStatus({c} \ {d \in Cmd : StatusOf(d) = "deleted"},
               IF work[m].res = "ok" THEN "done" ELSE "error")
  /\ work' = [work EXCEPT ![m] = Free]
  /\ UNCHANGED <<last, clock, caller, rb, rolled, history, faults>>

\* The write raises.  After an execution the except branch finishes once more,
\* as an error; otherwise the loop goes on and the row stays as it is.
FinishRaises(m) ==
  LET c == work[m].cmd IN
  /\ work[m].pc \in {"refuse", "finish", "refinish"}
  /\ work' = [work EXCEPT ![m] =
                IF @.pc = "finish" THEN [@ EXCEPT !.pc = "refinish",
                                                  !.res = "error"]
                                   ELSE Free]
  /\ runs' = IF work[m].pc = "refinish" THEN [runs EXCEPT ![c] = @ - 1]
                                        ELSE runs
  /\ Fault
  /\ UNCHANGED <<table, clock, caller, rb, rolled, okRuns>>

\* What an execution in progress leaves behind when its process dies.
Killed(m) ==
  /\ work' = [work EXCEPT ![m] = Down]
  /\ runs' = IF work[m].pc \in {"running", "finish", "refinish"}
               THEN [runs EXCEPT ![work[m].cmd] = @ - 1] ELSE runs

RuntimeDies(m) ==
  /\ work[m].pc # "down"
  /\ Killed(m)
  /\ Fault
  /\ UNCHANGED <<table, clock, caller, rb, rolled, okRuns>>

-----------------------------------------------------------------------------
(* Time, the sweeper, the rollback and the deletion of a manager.          *)

\* Times that nothing compares any more do not pass.
Expire(c) ==
  /\ \/ StatusOf(c) \in Pending
     \/ \E m \in Manager : work[m].pc = "claimed" /\ work[m].cmd = c
  /\ row[c].expires
  /\ c \notin expired
  /\ expired' = expired \cup {c}
  /\ UNCHANGED <<table, stale, caller, work, rb, rolled, history, faults>>

GoStale(c) ==
  /\ StatusOf(c) = "processing"
  /\ c \notin stale
  /\ stale' = stale \cup {c}
  /\ UNCHANGED <<table, expired, caller, work, rb, rolled, history, faults>>

\* Mutant: the sweep looks at the time only.
MarkTimeoutsAny ==
  /\ expired # {}
  /\ SetStatus(expired, "timeout")
  /\ UNCHANGED <<last, clock, caller, work, rb, rolled, history, faults>>

\* Mutant: the sweep forgets rows taken and never finished.
MarkTimeoutsNew ==
  LET C == {c \in expired : StatusOf(c) = "new"} IN
  /\ C # {}
  /\ SetStatus(C, "timeout")
  /\ UNCHANGED <<last, clock, caller, work, rb, rolled, history, faults>>

\* manager_queue_mark_timeouts, a single UPDATE.
MarkTimeouts ==
  LET C == {c \in expired : StatusOf(c) \in Pending} IN
  /\ C # {}
  /\ SetStatus(C, "timeout")
  /\ UNCHANGED <<last, clock, caller, work, rb, rolled, history, faults>>

\* manager_queue_cleanup_finished: rows finished a day ago, long after the
\* deadline of every caller.
CleanupFinished(c) ==
  /\ StatusOf(c) \in Final
  /\ caller[c] # "waiting"
  /\ SetStatus({c}, "deleted")
  /\ UNCHANGED <<last, clock, caller, work, rb, rolled, history, faults>>

\* Step 1 of _repl4_rollback: the runtime is stopped; a failing stop is
\* ignored.
RollbackStop(m) ==
  /\ rb[m] = "none"
  /\ rb' = [rb EXCEPT ![m] = "stopped"]
  /\ \/ Killed(m) /\ UNCHANGED faults
     \/ Fault /\ UNCHANGED <<work, runs>>
  /\ UNCHANGED <<table, clock, caller, rolled, okRuns>>

\* Mutant: the rollback finalises 'new' rows only.
RollbackFinalizeNew(m) ==
  /\ rb[m] = "stopped"
  /\ rb' = [rb EXCEPT ![m] = "done"]
  /\ SetStatus({c \in PendingOf(m) : StatusOf(c) = "new"}, "timeout")
  /\ rolled' = rolled \cup PendingOf(m)
  /\ UNCHANGED <<last, clock, caller, work, history, faults>>

\* Step 5: manager_queue_finalize_all_for_manager.
RollbackFinalize(m) ==
  /\ rb[m] = "stopped"
  /\ rb' = [rb EXCEPT ![m] = "done"]
  /\ SetStatus(PendingOf(m), "timeout")
  /\ rolled' = rolled \cup PendingOf(m)
  /\ UNCHANGED <<last, clock, caller, work, history, faults>>

\* Hard deletion of a manager removes its rows in any status.
DeleteManagerRows(m) ==
  /\ RowsOf(m) # {}
  /\ SetStatus(RowsOf(m), "deleted")
  /\ UNCHANGED <<last, clock, caller, work, rb, rolled, history, faults>>

-----------------------------------------------------------------------------
Runtime(m) == \/ TakeNext(m) \/ SkipExpired(m) \/ Refuse(m) \/ Begin(m)
              \/ Execute(m) \/ Finish(m)

Next ==
  \/ \E m \in Manager :
       \/ Put(m) \/ StartRuntime(m) \/ Runtime(m)
       \/ FinishRaises(m) \/ RuntimeDies(m)
       \/ RollbackStop(m) \/ RollbackFinalize(m) \/ DeleteManagerRows(m)
  \/ \E c \in Cmd :
       \/ PollAnswers(c) \/ GiveUp(c) \/ Expire(c) \/ GoStale(c)
       \/ CleanupFinished(c)
  \/ MarkTimeouts

Spec == Init /\ [][Next]_vars

\* Time passes, the sweeper runs every minute and a runtime that is up goes on
\* with its loop.  Nobody is bound to start a runtime.
Fairness == /\ \A c \in Cmd : WF_vars(Expire(c)) /\ WF_vars(GoStale(c))
            /\ \A m \in Manager : WF_vars(Runtime(m))
            /\ WF_vars(MarkTimeouts)

FairSpec == Spec /\ Fairness

-----------------------------------------------------------------------------
TypeOK ==
  /\ row \in [Cmd -> Row]
  /\ last \in 0 .. MaxCmds
  /\ expired \subseteq Cmd /\ stale \subseteq Cmd
  /\ caller \in [Cmd -> {"none", "waiting", "success", "failure"}]
  /\ work \in [Manager -> Worker]
  /\ rb \in [Manager -> {"none", "stopped", "done"}]
  /\ rolled \subseteq Cmd
  /\ runs \in [Cmd -> Nat]
  /\ okRuns \subseteq Cmd
  /\ faults \in 0 .. MaxFaults

\* A command is executed again only after an execution whose result could not
\* be recorded: retries, sweeps, rollbacks and late finishes never cause one.
RepeatedOnlyWhenLost == \A c \in Cmd : runs[c] <= 1

\* A row says 'done', and a caller reports success, only for a command that
\* was executed and returned ok; once reported, the row does not change again
\* until it is pruned.
ResultsAreTrue ==
  \A c \in Cmd :
    /\ StatusOf(c) = "done" => c \in okRuns
    /\ caller[c] = "success" => /\ c \in okRuns
                                /\ StatusOf(c) \in {"done", "deleted"}

\* Commands of one manager are taken in the order they were put: while a runtime
\* holds a row, no older one in time is still 'new'.  A row that a dead runtime left
\* 'processing' is taken again when it is stale, after younger ones.
ServedInOrder ==
  \A m \in Manager : work[m].cmd # 0 =>
    \A c \in RowsOf(m) :
      c < work[m].cmd /\ StatusOf(c) = "new" => c \in expired

\* What a rollback finalised never becomes takeable again, whatever the
\* runtime, a manual restart and the sweeper do afterwards.
RolledBackNotTaken == \A c \in rolled : StatusOf(c) \notin Pending

Executing == {"running", "finish", "refinish"}
Gone      == Final \cup {"deleted"}

\* The row a runtime holds is its own, was not finished by anybody but a
\* sweep, a rollback or a deletion, and has run exactly when the loop says so.
InHand(m) ==
  LET c == work[m].cmd IN
  /\ c \in Cmd
  /\ row[c].target = m
  /\ StatusOf(c) \in {"processing", "timeout", "deleted"}
  /\ runs[c] = IF work[m].pc \in Executing THEN 1 ELSE 0
  /\ work[m].res = "ok" => work[m].pc = "finish" /\ c \in okRuns

FreshRows == \A c \in Cmd : StatusOf(c) = "none" <=> c > last

HandsOK ==
  \A m \in Manager : IF work[m].pc \in {"down", "idle"}
                       THEN work[m].cmd = 0 ELSE InHand(m)

RunsOK ==
  \A c \in Cmd :
    /\ runs[c] \in {0, 1}
    /\ runs[c] = 1 => \/ StatusOf(c) \in Gone
                      \/ LET m == row[c].target IN
                         work[m].pc \in Executing /\ work[m].cmd = c

EndsOK ==
  \A c \in Cmd :
    /\ StatusOf(c) = "timeout" => c \in expired \cup rolled
    /\ c \in rolled => StatusOf(c) \in Gone

\* The discipline behind the properties above: a row that has run is in the
\* hand of the runtime that ran it or settled for good, and what settled it
\* never makes it takeable again.
QueueDiscipline == FreshRows /\ HandsOK /\ RunsOK /\ EndsOK

\* No execution begins for an expired row, nor for one a sweep finalised
\* between the claim and the execution.
StartedInTime ==
  [][\A c \in Cmd : runs'[c] > runs[c] =>
       /\ c \notin expired
       /\ StatusOf(c) = "timeout" => c \in rolled]_vars

\* Every row with an expires_at is finalised, whether its runtime lives, dies
\* with the row in hand, or was never started.
ExpiringRowsSettle ==
  \A c \in Cmd :
    StatusOf(c) \in Pending /\ row[c].expires ~> StatusOf(c) \notin Pending

\* A runtime that stays up serves every row of its queue, also one a previous
\* run of it took and never finished, and one without an expires_at.
ServedWhileUp ==
  \A m \in Manager :
    <>[](work[m].pc # "down") =>
      \A c \in Cmd : c \in PendingOf(m) ~> c \notin PendingOf(m)

\* What Delivery sees of the table: every row ever put, and the untouched ones.
Asked == [m \in Manager |-> RowsOf(m)]
Line  == [m \in Manager |-> {c \in RowsOf(m) : StatusOf(c) = "new"} \ expired]

Dlv == INSTANCE Delivery WITH asked <- Asked, line <- Line, late <- expired,
                              kept <- runs, good <- okRuns, told <- caller

\* The queue implements Delivery: sweeps, rollbacks, restarts, failing writes and
\* late finishes never begin a command out of turn, late or once too often, and
\* never take back an execution a caller has reported.
QueueImplementsDelivery == Dlv!Spec

\* "so its queue can never be silently consumed later": a row finalised by a
\* rollback is not reported as executed afterwards.
RolledBackNotConsumed == \A c \in rolled : StatusOf(c) # "done"
=============================================================================
