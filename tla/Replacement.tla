---------------------------- MODULE Replacement ----------------------------
(***************************************************************************)
(* manager_replacements: a manager account (old) is replaced by a freshly  *)
(* authorised one (new).  One operation, from draft to done.               *)
(*                                                                         *)
(* Two tasks of the controller work on it.  The panel command loop runs    *)
(* the wizard and replacement_commit, one command at a time; the sweep     *)
(* loop rolls back an operation whose commit deadline has passed.  A step  *)
(* of the model is the code between two awaits.  A crash of the controller *)
(* drops both tasks and keeps the database, the files and the runtimes;    *)
(* the operator then repeats the commit, which resumes at the status found.*)
(*                                                                         *)
(* The stage column is kept as far as the code acts on it: "work" stands   *)
(* for the markers that only report progress.  The queue of the manager    *)
(* given up by a rollback is in ManagerQueue.                              *)
(***************************************************************************)
EXTENDS Naturals

CONSTANT MaxFaults   \* bound: crashes, dying runtimes, failing writes and stops

ASSUME FaultAssumption == MaxFaults \in Nat

VARIABLES
  op,        \* the row of manager_replacements
  old, new,  \* the two rows of managers; new.up: its runtime is running
  file,      \* session files of the new account
  route,     \* keys with a row in manager_source_links
  lease,     \* who owns the proxy lease chosen for the new manager
  links,     \* the required business links of the new manager exist
  pc,        \* where the two tasks are
  begun,     \* history: a rollback has passed its guard
  overtaken, \* history: the commit went on after that
  skipped,   \* history: a compensation failed and was passed over
  faults

world == <<old, new, file, route, lease, links>>
hist  == <<begun, overtaken, skipped>>
vars  == <<op, world, pc, hist, faults>>

PreCommit   == {"draft", "auth_phone", "auth_code", "auth_pass", "identity_ok",
                "ready_commit"}
CommitPhase == {"committing", "links_pending", "links_ready"}
Past        == {"cutover_done", "notified", "done"}
Terminal    == {"done", "failed", "cancelled"}
Irreversible == {"cutover_started", "old_manager_retired"}

\* _REPLACEMENT_TRANSITIONS, the part the wizard walks.
NextStatus ==
  [s \in {"draft", "auth_phone", "auth_code", "auth_pass", "identity_ok"} |->
     CASE s = "draft"       -> {"auth_phone"}
       [] s = "auth_phone"  -> {"auth_code", "identity_ok"}
       [] s = "auth_code"   -> {"auth_pass", "identity_ok"}
       [] s = "auth_pass"   -> {"identity_ok"}
       [] s = "identity_ok" -> {"ready_commit"}]

Task      == {"commit", "sweep"}
Rollback  == {"rb_guard", "rb_stop", "rb_disable", "rb_source", "rb_lease",
              "rb_old", "rb_fail"}
Forward   == {"guards", "promote", "move", "create", "proxy", "spawn", "ready",
              "transfer", "to_links", "links", "revalidate", "ponr", "cutover",
              "delete", "retire", "activate"}

Init ==
  /\ \E proxy \in BOOLEAN :
       op = [status |-> "draft", stage |-> "work", late |-> FALSE,
             proxy |-> proxy]
  /\ old = [row |-> TRUE, enabled |-> TRUE]
  /\ new = [row |-> FALSE, enabled |-> FALSE, up |-> FALSE, proxied |-> FALSE]
  /\ file = [temp |-> FALSE, perm |-> FALSE]
  /\ route = {"old"}
  /\ lease = "pool"
  /\ links = FALSE
  /\ pc = [t \in Task |-> "idle"]
  /\ begun = FALSE /\ overtaken = FALSE /\ skipped = FALSE
  /\ faults = 0

Fault      == faults < MaxFaults /\ faults' = faults + 1
Goto(t, l) == pc' = [pc EXCEPT ![t] = l]
Return(t)  == Goto(t, "idle")

\* replacement_advance: compare-and-set along an edge, which also sets the stage.
Advance(from, to) ==
  op.status = from /\ op' = [op EXCEPT !.status = to, !.stage = "work"]

\* replacement_set_stage(..., expected_statuses=("links_ready",)): the stage is
\* written whatever it was.
SetStage(s) == op.status = "links_ready" /\ op' = [op EXCEPT !.stage = s]

\* A step of the commit that changes something outside the operation's row.
Overtake == overtaken' = (overtaken \/ begun) /\ UNCHANGED <<begun, skipped>>

-----------------------------------------------------------------------------
(* The wizard: panel commands that run to their end before the next one.   *)

\* A step of the authorisation, or the final preview.
Authorise ==
  /\ pc["commit"] = "idle"
  /\ op.status \in DOMAIN NextStatus
  /\ \E s \in NextStatus[op.status] :
       /\ s = "ready_commit" => file.temp /\ ~file.perm /\ old.row /\ ~new.row
       /\ Advance(op.status, s)
       /\ file' = [file EXCEPT !.temp = @ \/ s # "auth_phone"]
  /\ UNCHANGED <<old, new, route, lease, links, pc, hist, faults>>

\* Mutant: a status the code does not know; no constraint of the table rejects it.
AbandonMisspelt ==
  /\ pc["commit"] = "idle"
  /\ op.status \in PreCommit
  /\ op' = [op EXCEPT !.status = "canceled"]
  /\ UNCHANGED <<world, pc, hist, faults>>

\* replacement_cancel, or a fatal error of the authorisation; the removal of the
\* temporary session is best effort.
Abandon ==
  /\ pc["commit"] = "idle"
  /\ op.status \in PreCommit
  /\ \/ op' = [op EXCEPT !.status = "cancelled"]
     \/ /\ op.status \in {"auth_phone", "auth_code", "auth_pass"}
        /\ op' = [op EXCEPT !.status = "failed"]
  /\ \/ file' = [file EXCEPT !.temp = FALSE] /\ UNCHANGED faults
     \/ Fault /\ UNCHANGED file
  /\ UNCHANGED <<old, new, route, lease, links, pc, hist>>

-----------------------------------------------------------------------------
(* replacement_commit.                                                     *)

\* Mutant: a resumed cutover is revalidated like a first one.
CommitCallRevalidates ==
  /\ pc["commit"] = "idle"
  /\ \/ op.status = "ready_commit" /\ Goto("commit", "guards")
     \/ op.status = "committing" /\ old.row /\ Goto("commit", "promote")
     \/ op.status = "links_pending" /\ Goto("commit", "links")
     \/ op.status = "links_ready" /\ Goto("commit", "revalidate")
  /\ UNCHANGED <<op, world, hist, faults>>

\* The operator's confirmation, or its repetition after an error, a timeout or a
\* crash: the engine enters at the durable status.
CommitCall ==
  /\ pc["commit"] = "idle"
  /\ \/ op.status = "ready_commit" /\ Goto("commit", "guards")
     \/ op.status = "committing" /\ old.row /\ Goto("commit", "promote")
     \/ op.status = "links_pending" /\ Goto("commit", "links")
     \/ /\ op.status = "links_ready"
        /\ Goto("commit", IF op.stage \in Irreversible THEN "cutover"
                                                       ELSE "revalidate")
  /\ UNCHANGED <<op, world, hist, faults>>

\* A structured error that is returned and can be retried: a relogin is active,
\* the temporary session does not answer, links are missing, ...
Refused ==
  /\ pc["commit"] \in {"guards", "promote", "create", "links", "revalidate"}
  /\ Return("commit")
  /\ UNCHANGED <<op, world, hist, faults>>

\* _repl4_entry_guards hold and ready_commit -> committing.
EntryGuards ==
  /\ pc["commit"] = "guards"
  /\ old.row /\ ~new.row /\ file.temp /\ ~file.perm
  /\ Advance("ready_commit", "committing")
  /\ Goto("commit", "promote")
  /\ UNCHANGED <<world, hist, faults>>

\* _repl4_promote_session: what is done is found by looking at the files.
PromoteCheck ==
  /\ pc["commit"] = "promote"
  /\ Goto("commit", CASE file.perm -> "create"
                      [] ~file.perm /\ file.temp -> "move"
                      [] OTHER -> "idle")
  /\ UNCHANGED <<op, world, hist, faults>>

\* Mutant: the session is copied and the original left behind.
PromoteCopy ==
  /\ pc["commit"] = "move"
  /\ file' = [file EXCEPT !.perm = file.temp]
  /\ Overtake
  /\ Goto("commit", "create")
  /\ UNCHANGED <<op, old, new, route, lease, links, faults>>

\* A file that has gone meanwhile is skipped.
PromoteMove ==
  /\ pc["commit"] = "move"
  /\ file' = IF file.temp THEN [temp |-> FALSE, perm |-> TRUE] ELSE file
  /\ Overtake
  /\ Goto("commit", "create")
  /\ UNCHANGED <<op, old, new, route, lease, links, faults>>

CreateNewManager ==
  /\ pc["commit"] = "create"
  /\ new' = IF new.row THEN new
                       ELSE [new EXCEPT !.row = TRUE, !.enabled = TRUE]
  /\ Overtake
  /\ Goto("commit", "proxy")
  /\ UNCHANGED <<op, old, file, route, lease, links, faults>>

\* The route is written to the row. A lease follows it if the reference of the route
\* is the number of one and the call, whose error is swallowed, succeeds.
AssignProxy ==
  /\ pc["commit"] = "proxy"
  /\ \/ /\ op.proxy => new.proxied
        /\ UNCHANGED <<new, lease>>
     \/ /\ op.proxy /\ ~new.proxied
        /\ new' = [new EXCEPT !.proxied = TRUE]
        /\ lease' \in {lease, "new"}
  /\ Overtake
  /\ Goto("commit", "spawn")
  /\ UNCHANGED <<op, old, file, route, links, faults>>

\* _repl4_validate_new_runtime: start the runtime unless it runs, then wait.
SpawnRuntime ==
  /\ pc["commit"] = "spawn"
  /\ new.row /\ file.perm
  /\ new' = [new EXCEPT !.up = TRUE]
  /\ Overtake
  /\ Goto("commit", "ready")
  /\ UNCHANGED <<op, old, file, route, lease, links, faults>>

RuntimeReady ==
  /\ pc["commit"] = "ready"
  /\ new.up
  /\ Goto("commit", "transfer")
  /\ UNCHANGED <<op, world, hist, faults>>

\* The proxy cannot be assigned, the runtime does not start or does not get
\* ready, or anything raises: the commit rolls back itself.
CommitGivesUp ==
  /\ pc["commit"] \in {"promote", "create", "proxy", "spawn", "ready",
                       "transfer", "links", "revalidate"}
  /\ Goto("commit", "rb_guard")
  /\ UNCHANGED <<op, world, hist, faults>>

\* The source link is copied, not moved.
TransferSettings ==
  /\ pc["commit"] = "transfer"
  /\ route' = IF "old" \in route THEN route \cup {"new"} ELSE route
  /\ Overtake
  /\ Goto("commit", "to_links")
  /\ UNCHANGED <<op, old, new, file, lease, links, faults>>

ToLinks ==
  /\ pc["commit"] = "to_links"
  /\ \/ Advance("committing", "links_pending") /\ Goto("commit", "links")
     \/ op.status # "committing" /\ UNCHANGED op /\ Return("commit")
  /\ UNCHANGED <<world, hist, faults>>

\* _repl4_run_links_phase: the runtime of the new manager creates the links.
CreateLinks ==
  /\ pc["commit"] = "links"
  /\ links \/ new.up
  /\ links' = TRUE
  /\ \/ Advance("links_pending", "links_ready") /\ Goto("commit", "revalidate")
     \/ op.status # "links_pending" /\ UNCHANGED op /\ Return("commit")
  /\ UNCHANGED <<old, new, file, route, lease, hist, faults>>

\* _repl4_final_revalidate up to its last await.
Revalidate ==
  /\ pc["commit"] = "revalidate"
  /\ links /\ new.row /\ file.perm /\ ~file.temp /\ old.row
  /\ Goto("commit", "ponr")
  /\ UNCHANGED <<op, world, hist, faults>>

\* Mutant: the marker is not written before the old manager is touched, and the
\* cutover does not ask for it.
StartCutoverUnmarked ==
  /\ pc["commit"] = "ponr"
  /\ Overtake
  /\ Goto("commit", IF op.status # "links_ready" THEN "idle"
                    ELSE IF old.row THEN "delete" ELSE "retire")
  /\ old' = [old EXCEPT !.enabled = @ /\ op.status # "links_ready"]
  /\ UNCHANGED <<op, new, file, route, lease, links, faults>>

\* The operation is still active, and the durable point of no return.
StartCutover ==
  /\ pc["commit"] = "ponr"
  /\ \/ SetStage("cutover_started") /\ Overtake /\ Goto("commit", "cutover")
     \/ op.status # "links_ready" /\ Return("commit") /\ UNCHANGED <<op, hist>>
  /\ UNCHANGED <<world, faults>>

\* _repl4_cutover_old_manager: its own guard, then the old manager is disabled.
DisableOld ==
  /\ pc["commit"] = "cutover"
  /\ \/ /\ op.status = "links_ready" /\ op.stage \in Irreversible
        /\ old' = [old EXCEPT !.enabled = FALSE]
        /\ Goto("commit", IF old.row THEN "delete" ELSE "retire")
     \/ /\ ~(op.status = "links_ready" /\ op.stage \in Irreversible)
        /\ Return("commit") /\ UNCHANGED old
  /\ UNCHANGED <<op, new, file, route, lease, links, hist, faults>>

\* _manager_delete_full_core; a failing one leaves the row, disabled.
DeleteOld ==
  /\ pc["commit"] = "delete"
  /\ \/ /\ old' = [row |-> FALSE, enabled |-> FALSE]
        /\ route' = route \ {"old"}
        /\ lease' = IF lease = "old" THEN "pool" ELSE lease
        /\ Goto("commit", "retire")
        /\ UNCHANGED faults
     \/ Fault /\ Return("commit") /\ UNCHANGED <<old, route, lease>>
  /\ UNCHANGED <<op, new, file, links, hist>>

RetireOld ==
  /\ pc["commit"] = "retire"
  /\ \/ SetStage("old_manager_retired")
     \/ op.status # "links_ready" /\ UNCHANGED op
  /\ Goto("commit", "activate")
  /\ UNCHANGED <<world, hist, faults>>

\* The new manager must be active; if not, manual recovery is asked for.
FinishCutover ==
  /\ pc["commit"] = "activate"
  /\ \/ new.row /\ new.enabled /\ Advance("links_ready", "cutover_done")
     \/ ~(new.row /\ new.enabled /\ op.status = "links_ready") /\ UNCHANGED op
  /\ Return("commit")
  /\ UNCHANGED <<world, hist, faults>>

\* The PartnerBot tells the source's owners and closes the operation.
Notify ==
  /\ \/ Advance("cutover_done", "notified")
     \/ links /\ Advance("notified", "done")
  /\ UNCHANGED <<world, pc, hist, faults>>

-----------------------------------------------------------------------------
(* The deadline and _repl4_rollback, run by the sweep or by the commit.    *)

PassDeadline ==
  /\ op.status \in CommitPhase /\ ~op.late
  /\ op' = [op EXCEPT !.late = TRUE]
  /\ UNCHANGED <<world, pc, hist, faults>>

\* Mutant: the sweep looks at operations whose links are not ready only.
SweepListNoLinks ==
  /\ pc["sweep"] = "idle"
  /\ op.late /\ op.status \in CommitPhase \ {"links_ready"}
  /\ Goto("sweep", "rb_guard")
  /\ UNCHANGED <<op, world, hist, faults>>

\* replacement_list_commit_phase_past_deadline.  Other operations of the list may
\* be rolled back first.
SweepList ==
  /\ pc["sweep"] = "idle"
  /\ op.late /\ op.status \in CommitPhase /\ op.stage \notin Irreversible
  /\ Goto("sweep", "rb_guard")
  /\ UNCHANGED <<op, world, hist, faults>>

\* Mutant: the sweep's own list is trusted.
RollbackGuardTrusting(t) ==
  /\ pc[t] = "rb_guard"
  /\ Goto(t, "rb_stop") /\ begun' = TRUE
  /\ UNCHANGED <<op, world, overtaken, skipped, faults>>

\* The row is read again, once.
RollbackGuard(t) ==
  /\ pc[t] = "rb_guard"
  /\ IF op.stage \in Irreversible \/ op.status \in Past
       THEN Return(t) /\ UNCHANGED begun
       ELSE Goto(t, "rb_stop") /\ begun' = TRUE
  /\ UNCHANGED <<op, world, overtaken, skipped, faults>>

RollbackStop(t) ==
  /\ pc[t] = "rb_stop"
  /\ new' = [new EXCEPT !.up = FALSE]
  /\ Goto(t, "rb_disable")
  /\ UNCHANGED <<op, old, file, route, lease, links, hist, faults>>

RollbackDisable(t) ==
  /\ pc[t] = "rb_disable"
  /\ new' = [new EXCEPT !.enabled = FALSE]
  /\ Goto(t, "rb_source")
  /\ UNCHANGED <<op, old, file, route, lease, links, hist, faults>>

\* Mutant: the new manager's link is dropped without looking at the old one's.
RollbackSourceKeeps(t) ==
  /\ pc[t] = "rb_source"
  /\ Goto(t, "rb_lease")
  /\ UNCHANGED <<op, world, hist, faults>>

RollbackSource(t) ==
  /\ pc[t] = "rb_source"
  /\ route' = IF "new" \in route THEN {"old"} ELSE route
  /\ Goto(t, "rb_lease")
  /\ UNCHANGED <<op, old, new, file, lease, links, hist, faults>>

\* A lease of the new manager goes to the old one, wherever it came from.
RollbackLease(t) ==
  /\ pc[t] = "rb_lease"
  /\ lease' = IF lease = "new" THEN "old" ELSE lease
  /\ Goto(t, "rb_old")
  /\ UNCHANGED <<op, old, new, file, route, links, hist, faults>>

RollbackOld(t) ==
  /\ pc[t] = "rb_old"
  /\ old' = [old EXCEPT !.enabled = old.row]
  /\ Goto(t, "rb_fail")
  /\ UNCHANGED <<op, new, file, route, lease, links, hist, faults>>

\* Every compensation swallows its own errors.
RollbackSkips(t) ==
  /\ pc[t] \in {"rb_stop", "rb_disable", "rb_source", "rb_lease", "rb_old"}
  /\ Fault
  /\ Goto(t, CASE pc[t] = "rb_stop" -> "rb_disable"
               [] pc[t] = "rb_disable" -> "rb_source"
               [] pc[t] = "rb_source" -> "rb_lease"
               [] pc[t] = "rb_lease" -> "rb_old"
               [] pc[t] = "rb_old" -> "rb_fail")
  /\ skipped' = TRUE
  /\ UNCHANGED <<op, world, begun, overtaken>>

\* _replacement_fail: the temporary session goes, then the compare-and-set on
\* the status alone.
RollbackFail(t) ==
  /\ pc[t] = "rb_fail"
  /\ file' = [file EXCEPT !.temp = FALSE]
  /\ \/ /\ op' = IF op.status \in Terminal THEN op
                                           ELSE [op EXCEPT !.status = "failed"]
        /\ UNCHANGED faults
     \/ Fault /\ UNCHANGED op
  /\ Return(t)
  /\ UNCHANGED <<old, new, route, lease, links, hist>>

-----------------------------------------------------------------------------
(* The environment.                                                        *)

\* The controller dies: both tasks are lost.
Crash ==
  /\ \E t \in Task : pc[t] # "idle"
  /\ Fault
  /\ pc' = [t \in Task |-> "idle"]
  /\ UNCHANGED <<op, world, hist>>

RuntimeDies ==
  /\ new.up
  /\ Fault
  /\ new' = [new EXCEPT !.up = FALSE]
  /\ UNCHANGED <<op, old, file, route, lease, links, pc, hist>>

\* Enabled managers are started again (systemd, the launcher).
RuntimeRestarts ==
  /\ new.row /\ new.enabled /\ ~new.up
  /\ new' = [new EXCEPT !.up = TRUE]
  /\ UNCHANGED <<op, old, file, route, lease, links, pc, hist, faults>>

-----------------------------------------------------------------------------

CommitStep ==
  \/ EntryGuards \/ PromoteCheck \/ PromoteMove \/ CreateNewManager
  \/ AssignProxy \/ SpawnRuntime \/ RuntimeReady \/ TransferSettings
  \/ ToLinks \/ CreateLinks \/ Revalidate \/ StartCutover \/ DisableOld
  \/ DeleteOld \/ RetireOld \/ FinishCutover \/ Refused \/ CommitGivesUp

RollbackStep(t) ==
  \/ RollbackGuard(t) \/ RollbackStop(t) \/ RollbackDisable(t)
  \/ RollbackSource(t) \/ RollbackLease(t) \/ RollbackOld(t)
  \/ RollbackSkips(t) \/ RollbackFail(t)

Next ==
  \/ Authorise \/ Abandon \/ CommitCall \/ CommitStep \/ Notify
  \/ PassDeadline \/ SweepList \/ \E t \in Task : RollbackStep(t)
  \/ Crash \/ RuntimeDies \/ RuntimeRestarts

Spec == Init /\ [][Next]_vars

\* The tasks of an event loop run on, and the sweep loop comes round.
Fairness ==
  /\ WF_vars(CommitStep)
  /\ \A t \in Task : WF_vars(RollbackStep(t))
  /\ WF_vars(SweepList)

FairSpec == Spec /\ Fairness

-----------------------------------------------------------------------------

TypeOK ==
  /\ op \in [status : PreCommit \cup CommitPhase \cup Past \cup Terminal,
             stage : {"work"} \cup Irreversible,
             late : BOOLEAN, proxy : BOOLEAN]
  /\ old \in [row : BOOLEAN, enabled : BOOLEAN]
  /\ new \in [row : BOOLEAN, enabled : BOOLEAN, up : BOOLEAN,
              proxied : BOOLEAN]
  /\ file \in [temp : BOOLEAN, perm : BOOLEAN]
  /\ route \subseteq {"old", "new"}
  /\ lease \in {"pool", "old", "new"}
  /\ links \in BOOLEAN
  /\ pc \in [Task -> {"idle"} \cup Rollback \cup Forward]
  /\ begun \in BOOLEAN /\ overtaken \in BOOLEAN /\ skipped \in BOOLEAN
  /\ faults \in 0 .. MaxFaults

Alive(k) == IF k = "old" THEN old.row /\ old.enabled ELSE new.row /\ new.enabled

\* Through every crash, retry and rollback there is an enabled manager that has
\* the source's link, so leads are never routed to nobody -- unless a commit went
\* on after a rollback of the same operation had begun.
SourceServed == ~overtaken => \E k \in route : Alive(k)

\* The same without the exception, when both tasks have returned: "no scenario
\* leaves both managers disabled", as the self-test of the commit states it.
NoScenarioBothDisabled ==
  (\A t \in Task : pc[t] = "idle") => Alive("old") \/ Alive("new")

\* The authorised session of the new account is in exactly one place from the
\* final preview on, whenever a crash interrupts its promotion; only a rollback
\* removes what is not promoted yet.
SessionInOnePlace ==
  op.status \in {"ready_commit"} \cup CommitPhase \cup Past /\ ~begun
    => file.temp # file.perm

\* When an operation has been rolled back, without a failing compensation and
\* without a commit that went on, the old manager is enabled and has its link, and
\* the new one is disabled, without link and without the lease.
RollbackRestores ==
  op.status = "failed" /\ begun /\ ~overtaken /\ ~skipped
    => /\ old.row /\ old.enabled /\ route = {"old"}
       /\ ~new.enabled /\ lease # "new"

\* The old manager is disabled, deleted or deprived of its link only by a step
\* that finds the durable marker of the cutover, so a resumed commit knows it.
OldUntouchedBeforeMarker ==
  [][(Alive("old") /\ ~Alive("old")') \/ ("old" \in route /\ "old" \notin route')
       => op.status \in {"links_ready", "failed"} /\ op.stage \in Irreversible]_vars

\* Once the cutover is durable the operation completes, whatever crashes, as long
\* as the operator repeats the commit, and no rollback had begun before.
CutoverCompletes ==
  WF_vars(CommitCall) =>
    ((op.stage \in Irreversible /\ ~overtaken) ~> op.status \in Past)

\* An operation past its deadline is settled by the sweep: it fails, or its
\* cutover had begun.
DeadlineSettles ==
  op.late ~> (op.status \in Terminal \cup Past \/ op.stage \in Irreversible)

\* What Handover sees of an operation.
OnDuty == {k \in route : Alive(k)}
Phase  == CASE overtaken -> "muddled"
            [] ~overtaken /\ op.status \in Past -> "done"
            [] ~overtaken /\ op.status \in {"failed", "cancelled"} -> "undone"
            [] OTHER -> IF begun THEN "undoing"
                        ELSE IF op.stage \in Irreversible THEN "sealed" ELSE "before"

Hand == INSTANCE Handover WITH duty <- OnDuty, phase <- Phase, debt <- skipped

\* The replacement implements Handover: whatever crashes, fails or is repeated,
\* the old manager serves the source until the new one does and the marker is
\* durable, then nothing turns back; an undone operation leaves the old one.
ReplacementImplementsHandover == Hand!Spec
=============================================================================
