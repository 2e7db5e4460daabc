# TPILOT: a TLA+ development

TPILOT runs a fleet of Telegram "manager" accounts on rented proxies. One
*controller* process, one *runtime* process per manager, and three bots (the
admins' PanelBot, ManagerBot, PartnerBot) share a SQLite database and call each
other only through its tables. This directory holds TLA+ models of the parts of
that system in which order, crashes and retries decide whether it is right, the
TLC configurations that check them, and TLAPS proofs about them.

    tlc -workers 2 -config renewal_fixed.cfg MCProxyRenewal.tla
    tlapm ProxyRenewalProofs.tla

| file | what it is |
|---|---|
| `ProxyRenewal.tla` | automatic renewal of proxies: the code that spends money |
| `Billing.tla` | what the renewal of a lease promises, an abstraction of `ProxyRenewal` |
| `MCProxyRenewal.tla`, `renewal_*.cfg` | its small instances |
| `ProxyRenewalProofs.tla` | proofs: types, keys, one spend per key, released and settled rows, no row without an owner |
| `ProxyRenewalDatesProofs.tla` | proofs: dates; while ids are stable, one spend per cycle and the refinement of `Billing` |
| `ManagerQueue.tla` | the command queue from the controller to the runtimes |
| `Delivery.tla` | what the queues to the runtimes promise to who puts a command there, an abstraction of `ManagerQueue` |
| `MCManagerQueue.tla`, `queue*.cfg` | its small instances |
| `ManagerQueueProofs.tla` | proofs: the refinement of `Delivery`, the discipline of the queue, repeats, order, results |
| `Request.tla` | what a queue of one-shot requests promises to the one who asks |
| `PanelCommands.tla` | the command queue from PanelBot to the controller, an implementation of `Request` |
| `PanelNotifications.tla` | the notifications from the controller to the operators |
| `Panel.tla` | the two composed: they meet in the command that switches notifications off |
| `MCPanel.tla`, `panel.cfg` | its small instance |
| `PanelProofs.tla` | proofs: the bridge implements `Request` (safety), shown once, off is quiet |
| `Replacement.tla` | replacing a manager's account: commit, cutover, rollback, deadline |
| `Handover.tla` | what a replacement promises to the owner of a source, an abstraction of `Replacement` |
| `MCReplacement.tla`, `replacement*.cfg` | its small instances |
| `ReplacementProofs.tla` | proofs: the refinement of `Handover`, the session in one place, rollbacks, the marker |
| `TdataImport.tla` | importing a session into a manager: install, restart, put back |
| `Exchange.tla` | what the imports promise about a manager's session file, an abstraction of `TdataImport` |
| `MCTdataImport.tla`, `tdata_import.cfg` | its small instance |
| `TdataImportProofs.tla` | proofs: the refinement of `Exchange`, a failure puts back, clean means clean, done means running, the slot stays in reach |
| `ProxyPool.tla` | who owns, links to and uses the proxies of the pool |
| `MCProxyPool.tla`, `proxy_pool.cfg` | its small instance |
| `ProxyPoolProofs.tla` | proofs: owner and link, sharing, one lease, renewal of what is used |
| `LeastId.tla` | the lemma that the oldest of some numbered rows exists |
| `PROJECT.json` | runs, mutants, code map, findings, hazards, theorems |

## 1. Inventory of the system

State is in SQLite unless said otherwise. Every process is one asyncio event
loop, so a Python step is atomic up to its next `await`; between processes (and
between tasks across an `await`) only a SQLite transaction is.

**Proxy renewal** (`proxy_ops.py`, `main.py` 34990-35660, `storage.py` 7340-7700).
State: `proxy_renewal_ops` (one row per attempt: status, idempotency key),
`proxy_leases.expires_at / provider_proxy_id`, `proxy_renewal_config`; at the
provider, the real expiry date and id. Operations: three sources (slot scheduler,
TPilot-managed engine, the operator's confirm command) call
`_renewal_wrapped_execute`; a reconcile 90 s after the start resolves the rows of
a dead process; the pool sync copies the provider's dates. Hard: all three run
concurrently in one loop, the call that spends is not idempotent and can time out
after it was applied, the process can die anywhere, the provider may rotate the id
of the proxy it renews. Correct when: nothing is paid twice, no date is shown that
was not granted, nothing stays blocked forever.

**Manager command queue** (`storage.py` 1424-1700, `main.py` 24202-24620).
State: `manager_commands` (new, processing, done, error, timeout). Callers in the
controller and in `preflight_check.py` put a row and poll it; each runtime takes
its rows one at a time; a sweeper finalises expired rows; a runtime that dies
leaves its row 'processing', to be taken again after 120 s. Hard: results written
over a sweep or a rollback, executions repeated after a crash, order across a
restart. Correct when: results are true, a repeat has a cause, every row with a
deadline settles.

**Panel command bridge** (`panel_bridge.py`, `main.py` 4299-4384, `panel_bot.py`
2347-2424). State: `panel_commands` (new, running, done, error). PanelBot submits
and polls; one controller task takes, executes, finishes, reaps rows 'running' for
an hour. Hard: a result that cannot be recorded, the bot's silent timeout.
Correct when: executed at most once, in order, answered truthfully, always final.

**Panel notifications** (`main.py` 5188-5345, `panel_bot.py` 205-275, 5543-5595).
State: `panel_notifications`, a toggle in `settings`. Several producers insert
with a read-then-insert dedupe; PanelBot claims ten, sends, finishes by
compare-and-swap, reaps to 'new' after ten minutes. Hard: claimed and not sent,
sent and not finished, cleared while claimed.

**Manager replacement** (`storage.py` 3719-3750 and 4720-5380, `main.py`
30390-33640). State: `manager_replacements` (draft, auth_phone, auth_code, auth_pass,
identity_ok, ready_commit, committing, links_pending, links_ready, cutover_done,
notified, done, failed, cancelled, and a `stage`), session files, the old and the
new manager row, the proxy lease. Hard: an eight-step commit that must resume
after a crash, a deadline sweeper that rolls back unless the cutover has begun,
compensations that are each best effort. Correct when: never two live managers,
never none after the cutover, a rollback never crosses the cutover.

**TData / session import** (`storage.py` 7863-8350, `tdata_import/`, `main.py`
33731-33990). State: `tdata_import_ops` (status, 18 stages, cleanup_done), the
unpacked upload, the manager's session file and its backup. (The worker claim of
the table is called by tests only.) Hard: the file is replaced between two
compare-and-swaps, while the stale sweep may close the operation and the recovery
loop may start the manager; every step of the putting back is best effort. Correct
when: a failed import leaves the old session, a successful one runs the new one,
nothing is called clean that is on disk, the one slot of a manager is given back.

**Device login** (`storage.py` 8357-8820, `main.py` 34034-34560). State:
`manager_device_login_ops` (waiting, received, delivered, consumed, expired, cancelled,
error), seen message ids, a socket bridge in the runtime. Hard: three paths that
may capture the code, a one-shot claim for delivery, expiry in between.

**Proxy pool and provider lifecycle** (`storage.py` 6509-7335, `main.py`
34591-34880, `proxy_ops.py` 440-670 and 1871-2330). State: `proxy_leases`
(manager_key, status, lifecycle_state), `managers.proxy_lease_id` and the proxy
columns of `managers`, `proxy_lifecycle_events`. Operations: assign, unassign, buy,
recover, delete, terminal confirmation, each a handful of storage calls; a rollback
and the provider's sync beside them. Hard: assignment, rollback and deletion move a
lease without a compare-and-swap on its owner; three columns in two tables say who
has a proxy, and a crash may come between any two writes; the lifecycle reconcile
notifies once per change. Correct when: owner and link agree, nobody shares a proxy
by accident, and the proxy a manager uses is one that gets renewed.

**Health incidents, notify quota** (`main.py` 27145-27800, `storage.py`),
**ManagerBot delivery and access** (`manager_bot.py`, `storage.py` 4300-),
**reserve pairs and activations** (`storage.py` 3237-3700), **business links,
schedules**, **prepared accounts** (`features/prepared_accounts/`, `storage.py`
11880-12080: a claim with a TTL). Each is a table with a small state machine and
one or two tasks that drive it.

**Process control** (`process_control.py`, `manager_launcher.py`): starts and
stops runtimes; a stop can fail and says so. **Lead pipeline** (`router.py`,
`profile_dialog.py`, `llm_supervisor.py`), **statistics**, **bot interfaces**,
**observability**, **deployment**: text, read-only queries, menus, unit files.

Interactions: PanelBot -> `panel_commands` -> controller -> `manager_commands` ->
runtime, and back by polling; controller -> `panel_notifications` -> PanelBot;
the replacement stops and starts runtimes, finalises their queue and moves leases;
renewal and lifecycle read the same leases as the pool commands.

The hazards of this code, each at its line, are in `PROJECT.json`.

## 2. Plan

1. `ProxyRenewal` and its proofs: done.
2. `ManagerQueue` and its proofs: done.
3. `PanelCommands`, its abstraction `Request`, `PanelNotifications`, their
   composition `Panel` and its proofs: done.
4. `Replacement`: statuses, commit phase, cutover, rollback, deadline sweep, crash
   between any two steps, and its proofs: done.
5. `TdataImport`: start, confirm, put back, cancel, sweep, recovery, and its
   proofs: done.
6. `ProxyPool`: owner, link and proxy of a manager against every command that
   moves a lease, the rollback and the sync, and its proofs: done.
7. `CommandChain`, which composes `PanelCommands` with `ManagerQueue`: what the
   operator is told against what the runtime did.
8. `DevLogin`: one-shot claim of a login code, expiry, rescan.
9. `RenewalGuards`: the daily budget read before the spend and charged after it.
10. Health incidents, delivery, prepared accounts, as bounds allow.

Of the abstract specifications, `Request`, `Billing`, `Delivery`, `Handover` and
`Exchange` are written and their refinements proved. Left are one for the pool (its
leases have no order of events to abstract, only invariants) and one for the
notifications; then the one-shot claim of `DevLogin`, and the safety halves of the
liveness properties that `SlotStaysInReach` and `NobodyStranded` have not covered.

## 3. ProxyRenewal

**State.** `lease` is `proxy_leases` (date and id), `ops` is `proxy_renewal_ops`
(a deleted row stays as history with status "deleted"), `prov` the provider's
dates and ids, `req` what the provider did with each call, `calls` how often
`prolong_make` was called for an op. `run[p]` holds the locals of each renewing
task: its place in `_renewal_wrapped_execute` / `_prenew_execute_renewal`, the
snapshot of the pool its tick took, the op it owns, the confirmation it got.
`rc*` is the startup reconcile, `sy*` the pool sync. A date is the number of
renewals since the start; an id is the proxy and a generation. The idempotency
key is `<<lease, generation, date>>`: the period in the code's key is a constant
(`_PBUY_PERIOD_ID`). The states calc_done, confirmed and skipped of an op are
written by no code and are left out.

**Actions.** One per piece of code between two awaits: `TickStart`, `PickLease`,
`PreSpendReturn` (every refusal before a row exists: guards, prices, preflight),
`OpCreate` / `OpCreateRejected` (the two unique indexes), `ClassifyRejection` and
`ReportBlocked`, `MarkSpendStarted`, `ReleaseReservation`, `ProlongMake`,
`MakeConfirms`, `MakeInconclusive`, `VerifyConfirms`, `VerifyGivesUp`,
`UpdateIdentity`, `WriteExpiry`, `AdvanceOp`, `ExecutorRaises`; at the provider
`ProviderApplies` and `ProviderRefuses`, at any time after the call; the reconcile
(`Reconcile*`), the sync (`SyncList`, `SyncUpsert`) and `Crash`.

**Abstract specification.** `Billing` speaks of cycles, a lease and the date it is to
be extended from: `granted` and `shown` are the dates of the provider and of the pool,
`sent`, `refused`, `won` and `lost` the cycles with an order on its way, turned down,
told to have succeeded, told to have failed. A cycle is ordered at most once and only
when it is due; success is told of granted cycles only; failure says nothing of the
money, since an operation that is closed as failed may have been paid and may be paid
yet; the pool shows a date that was granted, possibly an older one.
`RenewalImplementsBilling` is the refinement: the dates are read off `prov` and
`lease`, the sets off `req` and the status column. Tasks, reservations, reconcile, sync and
crashes have no counterpart. It holds while ids are stable; with rotation it is false
for the reason of finding 1 (a cycle is ordered twice).

**Runs.**

| run | shows | bounds |
|---|---|---|
| `renewal_fixed` | no id rotation: `AtMostOneSpendPerCycle`, `StaleExpiryIsBurned`, `RenewalImplementsBilling`, and, under fairness, `RestartFreesReservations`, `LeaseCatchesUp` | 1 lease, both automatic engines, 2 renewals, 2 ops, 1 crash, failing writes |
| `renewal_rotating` | ids may rotate: `AtMostOneSpendPerKey`, `ReleasedIsUnspent`, `ExpiryNeverAhead`, `SuccessIsReal`, `SettledOnce` | the same with 1 rotation and 3 ops |
| `renewal_double_spend` | finding 1 | no crash, no failing write |
| `renewal_blocked_claim` | finding 2 | no crash, no failing write |

One lease is enough for TLC because no statement and no index relates two leases
(the theorems hold for any set). Two tasks give every race of a pair; two
renewals let a stale date meet a paid and an unpaid cycle; two ops allow an
attempt and its repetition, three also a reservation reopened in between. The
invariants the proofs rest on (`PaymentsCovered`, `KeyDiscipline`,
`DatesConfirmed`) are proved and in no run.

**Assumptions of the model.** The writes of the reconcile itself succeed (a
failing one aborts the reconcile until the next start); `DbErrors` covers the
executor's, an INSERT that fails included, which the code cannot tell from one that an
index refuses. The provider's answers are those the code distinguishes: a call that
raises may still have been applied, and may be applied later. `proxy/list` and the
answer of `prolong/make` do not show a date the provider has not granted.

**Fairness** (`FairSpec`): a started handler and the reconcile run on, since they
are tasks of an event loop that has no blocking call; the sync loop repeats. No
tick, crash or provider answer is promised.

## 4. ManagerQueue

**State.** `row` is the table, `expired` and `stale` the comparisons with the
clock that have become true (`expires_at` passed; taken more than 120 s ago),
`caller` what the putting side told its operator, `work` the loop of each runtime,
`rb` / `rolled` the rollback of a replacement, `runs` the executions of a row less
those whose result was lost to a crash or a failing write, `okRuns` the rows with a
successful execution.

**Abstract specification.** `Delivery` says what the putting side may rely on. A
command is begun again only after an execution was lost (at least once, and not more
often than that), never past its deadline and never before an older one that is still
in line. Success is told of a command that returned ok, and from then on its
execution is neither lost nor repeated; failure promises nothing, since the caller's
wait is shorter than the deadline and the command may yet be executed.
`QueueImplementsDelivery` is the refinement: `Asked` are the rows of a manager, `Line`
those still 'new' and in time, `kept` the executions `runs` counts. Loops, sweeps,
restarts and staleness have no counterpart, and a rollback is a `Drop` of the line.

**Actions.** `Put`, `PollAnswers`, `GiveUp` (a caller's deadline is earlier than
its `expires_at`); `StartRuntime`, `TakeNext`, `SkipExpired`, `Refuse`, `Begin`,
`Execute`, `Finish`, `FinishRaises`, `RuntimeDies`; `MarkTimeouts`,
`CleanupFinished`, `RollbackStop`, `RollbackFinalize`, `DeleteManagerRows`; time:
`Expire`, `GoStale`. A handler is its result, ok or error.

**Runs.**

| run | shows | bounds |
|---|---|---|
| `queue` | `QueueImplementsDelivery`, `ResultsAreTrue`, `ServedInOrder`, `RolledBackNotTaken` | 1 manager, 2 rows, 2 faults |
| `queue_live` | `ExpiringRowsSettle`, `ServedWhileUp` | 1 manager, 2 rows, no faults |
| `queue_rollback` | finding 3 | 1 row, 1 fault |

Every statement filters on the manager key, so managers do not interact and one is
enough; two rows are needed for order and for one row overtaken or swept while the
other is in hand; two faults let the finish of a success and then the finish of
its error both fail, or a crash follow a failing write.

`ServedInOrder` and the order in `Delivery` are about rows nobody has taken yet. A row
that a dead runtime left 'processing' is taken again only after 120 s, and younger
commands of its manager go before it meanwhile: the model has this, and no property
denies it.

**Assumptions.** Nonces are unique. A runtime key has one process
(`_spawn_manager_process` refuses while another one runs). Rows are pruned a day
after they finished, when every caller has long given up. No code puts a row for
target 'all', so the `OR target = 'all'` of the SELECT is left out. At most one
rollback per manager.

**Fairness.** Time passes, the sweeper runs every minute, and a runtime that is up
goes on with its loop. Nobody is bound to start a runtime, so `ServedWhileUp` is
conditional on it, and a row without an `expires_at` may wait forever: three
business-link callers put such rows (`main.py` 26505, 26895, 27003), and what they
asked for happens whenever the runtime comes back, after the operator was told it
had failed. In the liveness run a runtime may be stopped by a rollback but does
not crash.

## 5. Panel: commands and notifications

**State.** `row` is the status column of `panel_commands`, `loop` the controller's
`_panel_command_loop` (its place, the row in hand, the handler's result), `exec`
the history of each row's handler. `note` is `panel_notifications`, `enabled` the
setting, `producer` the loop that looks for unanswered clients (it reads the
setting, then inserts), `hand` the batch PanelBot has claimed and the row it is
sending; `shown` and `lost` count. `Panel` adds `step`, the place inside the handler
of `/unanswered_notify`.

**Actions.** Commands: `Submit`; `TakeNext`, `Begin`, `End`, `Finish`,
`FinishAsError`, `Reap`, `CrashLoop`. The bot's wait only reads, so what it gives up
on is carried out all the same. Notifications: `ProduceOther`, `ReadEnabled`,
`CreateUnanswered` (both with the read-then-insert dedupe), `ReapNotes`,
`TakeNotes`, `Send`, `FinishNote`, `FinishNoteFails`, `CrashBot`. Where they meet:
`HandleSet` and `HandleClear` are two commits of one handler, with the producer and
the bot in between; `ControllerCrashes` takes the handler and the producer.

**Abstract specification.** `Request` says what the asking side may rely on: a
request is begun at most once, accepted in the order asked, "ok" is told only of
what ran to its end, and everything asked is told about in the end.
`BridgeImplementsRequest` is the refinement: `Told` reads an abstract answer off
the status column (`running` is "accepted", `error` is "failed").

**Run** `panel` (2 commands, 2 notifications, batches of 2, 1 fault): the refinement
with its liveness; `NotificationsShownOnce` (a row is shown again only if a finish
was lost), `OffIsQuiet` (after an "off" at most the one notification is pending whose
producer had read the setting before), `NoticesSettle`. Two commands give an order
and an abandoned row beside a live one, or an "on" racing an "off"; two
notifications give a batch and its dedupe; one fault is enough, because a fault is
either a crash, a lost finish, a swallowed clearing or a misread setting and each
property tolerates exactly what one of them does. So `OffIsQuiet` excepts an "off" whose
clearing failed unnoticed and a setting that was misread: those leave notifications
pending in the code too. The theorems hold for any number of each.

**Assumptions.** That the bot stops waiting, and says so to the operator, is not a
step: it only reads, and the command goes on. Reaping follows the clock: any 'running'
row may be found an hour (ten minutes) old, but only by the loop itself between two
rows. PanelBot's two halves of a send are one step. What an operator sees on a target
is one bit.

**Fairness** (`PanelFairness`): both loops run on, since systemd restarts their
processes; a handler ends; the reapers come round. Nobody has to submit anything.

## 6. Replacement

**State.** `op` is the row of `manager_replacements` (status, stage, deadline passed,
has a proxy), `old` and `new` the two rows of `managers` and the new runtime, `file`
the temporary and the permanent session of the new account, `route` the managers
with a source link, `lease` the owner of the proxy lease, `links` the business links.
`pc` is the place of the two tasks that work on the operation: the panel command
that commits, and the deadline sweep; both may be inside `_repl4_rollback`. Of the
stages only those the code branches on are kept. `begun`, `overtaken`, `skipped`
are history: a rollback passed its guard, the commit went on after that, a
compensation failed.

**Actions.** The wizard (`Authorise`, `Abandon`); `CommitCall` enters at the
durable status, so it is also the resumption after a crash; one action per stretch
between two awaits of `replacement_commit` (`EntryGuards` ... `ToLinks`,
`CreateLinks`, `Revalidate`, `StartCutover`, `DisableOld`, `DeleteOld`, `RetireOld`,
`FinishCutover`), with `Refused` and `CommitGivesUp` for its two kinds of error; the
PartnerBot's `Notify`; `PassDeadline`, `SweepList` and the seven steps of the
rollback, each of which may fail and be passed over (`RollbackSkips`); `Crash` of
the controller at any await, death and restart of the runtime.

| run | shows | bounds |
|---|---|---|
| `replacement` | `ReplacementImplementsHandover`, `SessionInOnePlace`, `RollbackRestores`, `OldUntouchedBeforeMarker`, `CutoverCompletes`, `DeadlineSettles` | 2 faults |
| `replacement_both_dead` | finding 4 | no fault |

One operation is enough, because every statement names its operation and
`replacement_create` admits one active operation per old manager; two faults let a crash
follow a failing compensation, or two compensations fail. The race of finding 4
(`overtaken`) is `Muddle` in `Handover` and an exception in `RollbackRestores`, which
also excepts a failing compensation (`skipped`, the `debt` of `Handover`), since the
code logs it and passes it over.

**Abstract specification.** `Handover` has the managers on `duty` for the source, and
a `phase`. The new manager joins the old one before the replacement is sealed; only then
the old one retires, and nothing leads back. Until the seal the handover can be undone,
step by step and repeatedly, and the undoing is closed only when the old manager alone
is on duty or a part of it was passed over. `Muddle` is somebody going on
with a handover that is being undone; it cannot happen to one that is sealed.
`ReplacementImplementsHandover` is the refinement: `OnDuty` is read off the tables of
managers and links, `Phase` off the status, the marker and the history. That duty is never
empty outside the muddled phase (`SourceServed`, proved and no longer in the run) is
what remains true of "no scenario leaves both managers disabled".

**Assumptions.** The old manager is not disabled or deleted by hand, nor the new one,
while an operation is under way. The rollback's step on the command queue is in
`ManagerQueue`. With the route of the new manager its lease is assigned only if
`proxy_ref` is the number of one, and best effort, so `AssignProxy` may move it or not.
Authorisation talks to Telegram and is reduced to its outcomes.

**Fairness**: a task of the event loop runs on, the sweep comes round every minute.
No operator is bound to commit; `CutoverCompletes` carries the repetition of the
commit as its premise.

## 7. TdataImport

**State.** `op` holds status and stage of each operation of one manager (stages that
nothing distinguishes are merged), `scratch` the unpacked uploads on disk, `cleaned`
the mark `cleanup_done`, `session` which session the manager's file holds, `proc` its
process and the session that process has opened, `job` the panel command in progress
with what `confirm_install` keeps in locals (installed, the backup, whether it stopped
the runtime), `rec` the recovery loop, `watched` whether recovery looks after the
manager. `before`, `spoiled` and `unclosed` (operations whose confirmation ended without
closing them) are history.

**Actions.** `StartImport`, `IdentityVerified`, `StartFails`; `ConfirmBegin`,
`ConfirmRefused`, then a step per await: look, stop, poll, `Install`, `SpawnStops`,
`SpawnStarts`, `Complete`; the except branch `UndoOrClose`, `UndoStops`, `Restore`,
restart, `CloseFailed`; `Cancel`, `Expire`, `SweepStale`; the process opens its
session some time after it was started, and may die; recovery looks, stops,
starts; the controller may crash. A write that closes a row may raise: the row then
stays active after its confirmation is over (`CloseFailed`, `CompleteFails`) or after
its files were deleted (`CleanUpAndClose`, in `StartFails` and `SweepStale`). Where it
comes first, in a cancel or a refused confirmation, nothing has happened when it fails.

**Abstract specification.** `Exchange` has the `file` of the manager, the session each
import found (`saved`) and its `state`. An open import puts its own session in and may
put the saved one back; it succeeds only over its own session and fails only over the
saved one, and once it is closed it does not touch the file. The imports that nothing
recovers are `waived`, and only of those the file may hold either session.
`ImportImplementsExchange` is the refinement, with `State` read off the status
column; stages, runtimes, recovery, scratch files and time have no counterpart.

**Run** `tdata_import` (2 operations, 2 faults): `ImportImplementsExchange`,
`DoneRunsImported`, `CleanupTruthful`, `SlotFreed`. Two operations are needed for a
second one to start over the leftovers of the first; two faults let the putting
back fail, or its restart, after the step whose failure caused it.

That an import that failed leaves the session it found (`FailureRestores`) follows from
the refinement and is proved by itself. Both state the promise of `confirm_install` with
the exceptions the code has, collected in `spoiled`: a crash of the controller inside the
confirmation, a failing write once the runtime was ready, a file move that failed
half-way, a backup that could not be copied back, and a sweep that closed the
operation while its confirmation was stopping the runtime and could not delete its
files.

`SlotFreed` says that an active operation ends, unless it is in `unclosed`: the
controller crashed inside its confirmation, or the write that was to close it at the end
of one raised. Such an operation may be in a stage the sweep does not list, and then it
holds the only slot of its manager until somebody cancels it. Every other failure is one
the sweep recovers from.

**Assumptions.** Panel commands are executed one at a time (that is `PanelCommands`).
The operator does not start, stop or disable the manager by hand meanwhile. Left out:
the uploaded archive (`scratch` and `CleanupTruthful` are about the unpacked session;
see section 10), `managers.auth_profile`, the SQLite journal beside the session,
recovery's cooldown and attempt limit (it may look at any time).

**Fairness**: a command goes on, its waits being bounded; time passes; the sweep
comes round every minute.

## 8. ProxyPool

**State.** `lease` is `proxy_leases`: the proxy (a number stands for host and port,
0 for a row that is not there), the owner's `manager_key`, and whether the provider's
id is known. `mgr` is `managers`: the row exists, `proxy_lease_id`, the proxy columns.
`cmd` is the panel command at work with its locals (the lease, the target, the owner
read at the start, the leases to free, the ones that were not freed, whether the
conflict check saw the managers), `back` what a rollback has read and is about to
move. `via` (how a manager came by its proxy) and `moved` (leases a rollback moved) are
history.

**Actions.** One per storage call. Assignment: `AssignCall`, `AssignCheck` (who uses
this proxy), `AssignDetach` and `Disable` (the former owner), `AssignScan`,
`AssignFree` (the target's other leases, one by one), `AssignLink`, `ApplyFields`.
Purchase and recovery: `BuyCreate`, `BuyLink`, `ApplyFields`. `UnassignCall`,
`UnassignDetach`, `Disable`. Deletion and terminal confirmation: `RetireCall`,
`RetireFind`, `RetireRelease`, `DeleteRow`. Beside them `Add`, `SetByHand`, `Sync`, the
rollback's `RollbackRead` and `RollbackMove`, and `Crash`. Where the code swallows an
exception and goes on, the action has a disjunct for it.

**Run** `proxy_pool` (3 managers, 2 leases, 1 fault): `LinksAgree`, `SharedIsChosen`,
`OneLeaseAfterAssign`, `UsedIsRenewed`. A conflict needs a target, an owner and a
third user, so three managers, who are symmetric; two leases let a target move from
one to the other, and a recovery insert a second lease of one proxy; the fault is a
crash, a swallowed failure, a rollback or a change by hand, and each property names
in its exceptions what one of them does. The theorems hold for any number of each.
There is no fairness: every property is a safety property, and no operator is bound
to repeat an interrupted command.

**Assumptions.** Panel commands are executed one at a time (that is `PanelCommands`).
The sweep that rolls back is another task of the controller. The provider lists a
proxy under one id. The status 'archived' is given to a lease by no caller and
is left out, and so are prices, dates (`ProxyRenewal`) and the lifecycle columns. A
lease keeps its proxy: that `Sync` may refresh the host and port of a row it knows
(`storage.py:6955`) is left out.

Left out too is the route that the commit of a replacement gives to its new manager
(`_repl4_assign_proxy`, `main.py:32439`). It writes the proxy columns, which this model
has as `SetByHand` only, and would assign a lease without unlinking its former holder.
The latter happens only for a `proxy_ref` that is a number, and the wizard sends "pool",
"manual" or "direct" (`panel_bot.py:11841`, `11892`), so nothing reaches it as wired;
were it reached, `LinksAgree` would not hold of it.

`UsedIsRenewed` is about managers who came by their proxy with a lease. It says nothing
of one who uses the proxy of another's lease, nor of one who kept a proxy whose lease
is gone: section 10 says what the code does there.

## 9. What is proved

For every set of leases and tasks and every bound, `ProxyRenewalProofs` proves
`TypeCorrect`, `KeysDisciplined`, `OneSpendPerKey`, `ReleasedRowsUnspent`,
`OpsSettledOnce`, `NobodyStranded`; `ProxyRenewalDatesProofs`
proves `PoolNeverAhead` and `SuccessesAreReal`, and under `MaxGen = 0` (a provider that
keeps ids) `PaymentsAreDue`, `OneSpendPerCycle`, `StaleDatesBurned` and
`RenewalImplements`, the refinement of `Billing`; `RenewalTypeCorrect` adds the dates to
the types. The only assumptions are those of the module (`LeaseAssumption`,
`SourceAssumption`, `BoundAssumption`); `MaxGen = 0` is a hypothesis of the four
theorems that are false without it, as `renewal_double_spend` shows.

`NobodyStranded` is the safety half of `RestartFreesReservations`: unless a write fails,
a row that blocks its lease is owned. A 'pending' row is that of a task about to mark or
release it, or is on the list of the startup reconcile, or that list is not yet made; a
'make_pending' row, until the process first dies, is that of the task that is spending.
(After a restart the reconcile may find the provider's list unreadable, and then such a
row waits for the next start.)

The argument has four layers, each inductive given the ones before:

- `TypeInv`: types, and a task at work has a current lease and an op it may index.
- `KeyDiscipline`: a key is held by one row; a row is spent by the one task that
  inserted it, and only while it is marked; a marked row never becomes free. The
  unspent half is what makes a DELETE of a 'pending' row safe although the
  reconcile may delete a row whose task is still alive: that task's marker then
  finds no 'pending' row, and `prolong_make` is not called.
- `RowsOK` and `DatesConfirmed`: every copy of a date (snapshot, confirmation, the
  lists of the reconcile and of the sync) is at most the provider's, because the
  provider's dates only grow; so a write of any of them, however late, is a date
  that was granted.
- `PaymentsCovered` (ids stable): every granted period belongs to an op of its own
  and a request under way is for the period that is due. With `KeyDiscipline`, a
  stale date always has its key taken, so the task that reads it cannot pay.

The refinement of `Billing` needs no invariant beyond these (`PaidInv` is their
conjunction). `StepKinds` says that a step is a call, an answer, an insertion, or a
`LedgerStep`, which advances one row, writes one lease, or touches nothing that `Billing`
sees. A call is an `Order` because its row holds the key of the cycle and no other row
has a request for it (`OneRowPerCycle`); an answer is a `Grant` because a request under
way is for the date that is due; an advance to 'success' is a `Succeed` because the row
was confirmed; a write of a lease is a `Show` because every copy of a date is at most
the provider's.

For every set of managers, any number of rows and of faults, `ManagerQueueProofs` proves
every property of the run `queue`, `QueueTypeCorrect`, `QueueImplements`,
`RolledBackStays`, `ServesInOrder` and `ResultsStayTrue`, and besides
`QueueDisciplined`, `RepeatsExplained` and `StartsInTime`, from `BoundAssumption` alone.
The inductive invariant is `TypeOK /\ QueueDiscipline`; neither half is inductive by
itself, since a crash subtracts the execution it loses and the count stays natural only
because the row in hand was counted once. The discipline has four parts:

- `FreshRows`: ids above `last` are unused, so a new row is in nobody's hand.
- `HandsOK`: what a runtime holds targets it, and only a sweep, a rollback or a
  deletion can have written it since; hence two runtimes never hold one row.
- `RunsOK`: a row that has run once is either in the hand of the runtime executing
  it or settled, and neither is takeable. A second execution needs the count to
  go back to zero, which only a lost result does.
- `EndsOK`: a 'timeout' comes from an expiry or a rollback, and what a rollback
  finalised stays final, although a late finish may still change which final
  status it has (finding 3).

Order and true results are inductive on top of it (`OrderStep`, `ResultsStep`);
`StartedInTime` follows from it step by step (`StartStep`).

The refinement of `Delivery` needs two facts more (`DInv`). `UntoldOK`: nobody was told
of an id that was never put, and it is not late. `SureOK`: a row recorded as 'done' has
one execution that counts, and a command its caller knows to have succeeded is in
nobody's hand, so no crash can lose it and no loop begin it again. `RunMoves` sorts the
steps of a runtime by what they do to the executions that count, `StatusMoves` those of
the tables; a lemma per abstract action follows (`DeliveryPut` ... `DeliverySweep`). A
take is a `Pick` because the row the SELECT orders first is the least of the line.

For any number of commands, notifications and faults and any batch size,
`PanelProofs` proves `BridgeImplementsSafe` (the bridge implements `Request!Safe`:
initial states to initial states, every step of the composition to a step or a
stutter), `PanelTypeCorrect`, `ShownOnce` and `Quiet`, from `CmdAssumption` and
`NoteAssumption`. A step of the composition is seen from each table separately
(`SeenFromCommands`, `SeenFromNotes`), so each part has an invariant of its own:

- `BridgeOK`: the row in hand is 'running', and `exec` is as far as the loop is;
  an unaccepted row was never begun. So a row that was reaped or abandoned, whose
  `exec` is not "no", cannot be taken again: nothing leads back to 'new'.
- `ShownOK`, `BatchOK`: a row that was shown as often as `lost` allows is in hand or
  settled, and the rows of a batch are 'running' or were cleared; the reaper
  runs with an empty hand only. With a reaper of its own the row could be shown
  twice, which is one of the mutants.
- `QuietOK`: after an unexcused "off" what is pending plus the producer's place is at
  most one, because the dedupe inserts nothing while a row is pending.

That the oldest row exists is the least element of a non-empty set of ids, from
the well-foundedness of < on the naturals (`Oldest` in `LeastId`, which the proofs
about imports use too).

For any number of faults, from `FaultAssumption` alone, `ReplacementProofs` proves every
safety property of the run `replacement`: `ReplacementTypeCorrect`,
`ReplacementImplements`, `SessionNeverLost`, `RolledBackRestored` and
`MarkedBeforeOldGoes`, and `SourceAlwaysServed`. Each talks about a moment (after the
rollback, at the marker); the inductive invariant says what holds on the way there:

- `MarkerOK`: the cutover goes on only behind the durable marker, and a marked
  operation whose rollback had begun counts as overtaken, the case of finding 4.
- `RollbackOK`: only a rollback takes an operation out of the phase its tasks
  believe it in.
- `OldOK`: before the marker the old manager is alive and has the source, so a crash
  or a sweep finds it whole.
- `NewOK`: without a rollback the new manager is as complete as the status and the
  place of the commit say, so it serves the source when the old one stops to.
- `UndoneOK`: unless overtaken, what the compensations behind a rollback have undone
  stays undone; a compensation that failed is an excuse of its own (`skipped`).
- `SessionInOnePlace`: inductive as it stands, given the others.

The refinement of `Handover` needs two facts more (`HInv`). `FreshOK`: in an operation
that was never in its commit phase, or that failed without a rollback, the new manager
has no link, so `Abandon` gives up nothing. `CutOK`: behind the first step of the
cutover the old manager stays disabled, unless a rollback was overtaken, so it does not
come back on duty after the seal. `PhaseMeans` and `DutyMeans` translate phases and
duties into statuses and rows; then each step is a `Join`, a `Retire`, a `Withdraw`, a
`PassOver` or changes no duty (`HandJoins`, `HandRetires`, `HandWithdraws`, `HandSkips`,
`HandSameDuty`).

For any number of operations and faults, from `TdataAssumption` alone,
`TdataImportProofs` proves `ImportTypeCorrect`, `ImportImplements`, `FailuresRestored`,
`CleanMeansClean`, `DoneMeansRunning` and `SlotStaysInReach`, over three invariants:

- `SlotOK`: only the latest operation is active and only it is worked on, so a job
  never puts back a session over a later operation's.
- `InstallOK`: from the move of the file to the answer of the runtime the operation is
  in the stage 'starting', where the sweep leaves it alone, and any process that is
  started opens the imported session.
- `RestoreOK`: the session from before the operation is in the manager's file, then in
  the backup, then in the file again; at every place of the job it says which.

The refinement of `Exchange` needs two facts more (`XInv`). `FileOK`: the file holds the
session the latest operation found or the one it imported, the former as long as its
stage is one the sweep closes, and the backup is what was found. `HeldOK`: an operation
that has installed stays open until its job lets go of it, so that `Restore` is the
`PutBack` of an open import. Who closes an operation (`ExchangeFail` has one proof for the
failing start and confirmation, the refusal, the cancel and the sweep) finds the saved
session in the file, each for a reason of its own. `SlotStaysInReach` is the safety half
of `SlotFreed`: an active operation is one the sweep closes in time, or a command works
on it, or it is in `unclosed`, by a crash inside its confirmation or a closing write
that raised.

For any number of managers, leases and faults, from `PoolAssumption` alone,
`ProxyPoolProofs` proves `PoolTypeCorrect`, which no run repeats, and every property of
the run: `LinksAlwaysAgree`, `SharedOnPurpose`, `OneLeaseOnly`, `UsedAreRenewed`. Each of
the storage calls is first reduced to what it writes, column by column (`Unassigned`,
`Assigned`, `ProxySet`, `Kept`, `Inserted`). The properties speak of commands that are
over or about to be; the invariant `PoolInv` says what holds between their calls:

- `TablesOK`: a row that is not there is empty, and what is referred to is there.
- `PlaceOK`: where each kind of command can be, and that its target and its lease
  exist (nothing else deletes them, commands being run one at a time).
- `OwnerOK`: the owner a command has read is still the owner, unless a rollback moved
  the lease; after the detachment nobody but the target links to it.
- `StaleOK`: what an assignment is about to free is its target's, and every lease of
  its target is kept, listed to be freed, or known to be lost.
- `Backed`: who came by a proxy with a lease has it, but for those whose lease the
  command has taken and whose proxy it has not changed yet (`Between`).
- `ApartOK`: from the conflict check on, only the target and the former owner may
  have the proxy by a lease, and after `Disable` only the target.

The steps of the others (`Add`, `SetByHand`, `Sync`, the rollback) leave all of it alone
for one common reason, the lemma `Beside`.

Only model-checked: liveness, which is out of TLAPS's reach (`CutoverCompletes`,
`DeadlineSettles`, `SlotFreed`, `NoticesSettle`, the liveness of the renewals and of the
command queue), and so the fair half of `BridgeImplementsRequest`: the theorem is about
`Safe`, the run about `Spec`.

## 10. Disagreements between code and documentation

1. `renewal_double_spend` (`proxy_ops.py:1444`): the rotated id and the new expiry
   are two commits; a task that reads between them, or after a crash between them,
   sees the new id with the old date, for which no key exists, and pays the cycle
   again. The docstring of `_renewal_wrapped_execute` says this can never happen.
2. `renewal_blocked_claim` (`main.py:35250`): "a None result here proves it's case
   (b)", a failed row; the key may be held by a 'success' row, and the operator is
   told that a confirmed renewal is unconfirmed.
3. `queue_rollback` (`storage.py:1574`): the rollback finalises the queue so that
   it "can never be silently consumed later", but ignores a stop that failed, and
   the surviving runtime's finish overwrites 'timeout' with 'done'.
4. `replacement_both_dead` (`main.py:33184`): the rollback reads the row once and
   awaits its compensations afterwards; the commit may write the marker of the
   cutover in between, and then one task deletes the old manager while the other
   disables the new one. The self-test states "no scenario leaves both managers
   disabled".

Read in the code while writing `TdataImport`, and not run:

- a failed install leaves `managers.auth_profile` at 'tdesktop', although
  `confirm_install` says the manager is "left exactly as it was before this call";
- a confirmation that fails before the installation leaves the unpacked session on
  disk: the operation is 'error', and the sweep lists active ones;
- a failure of the last writes is not rolled back, the stage being
  `runtime_running`;
- a crash during the installation, or a closing write that raises at the end of a
  confirmation, leaves the operation active until it is cancelled, and the cancel keeps
  the session it finds in the file;
- the deletion of the uploaded archive after it was unpacked drops its result
  (`service.py:244`), so `cleanup_done` may be set with the archive on disk;
- recovery may start the manager between the stop of the undoing and the restoration
  of the file: the import is reported failed, the file is the old one, and the running
  process has the rejected session open;
- the sweep may close an operation while its confirmation stops the runtime; if it
  cannot delete the files the confirmation installs, and reports success of an
  operation that is 'error';
- the stop before the restoration drops its result, so the file may be put back
  under a runtime that has it open.

Read in the code while writing `ProxyPool`, and not run:

- `_prenew_lease_role` says a lease in use must "never silently" look free and expire
  (`proxy_ops.py:784-787`), but the gate before a renewal calls it without the map of
  who uses what: a proxy that is used by somebody other than the owner of its lease is
  not renewed unless that owner has it too;
- the conflict check fails open: if the managers cannot be listed, nobody is found
  to use the proxy (`AssignCheck`, excuse "unchecked");
- `proxy_lease_unassign` clears the link of the old owner whichever lease it leads to,
  and `/proxy_pool_unassign` then switches off the proxy of a manager who may have
  moved on to a newer lease;
- deletion and terminal confirmation release one lease of a manager that owns several;
- a purchase or a recovery does not free the lease its manager had, and a repeated
  recovery inserts a second lease of the same proxy;
- a rollback assigns the lease to the old manager without unlinking the new one.

## 11. Not modelled, and why

Planned components are listed in section 2. Left out for good: the provider's HTTP
client and its parsing, archive formats, Telegram itself, texts and menus (data
without a protocol), the lead pipeline (heuristics over text), statistics (read-only),
deployment files. In `ProxyRenewal` the price and budget guards, the notification
slots and the lifecycle state of a lease are folded into `PreSpendReturn`, a refusal
that may happen at any time; the guards' own race is planned as `RenewalGuards`. In
`PanelCommands`, `scrub_panel_command_result` (it replaces the text of a result), the
bot's wait and the cleanup of rows 48 h old, which nobody reads any more. In
`ProxyPool`, the lifecycle of a lease at the provider with its events and
notifications, and the difference between a proxy that is not in the pool and none,
and the route a replacement assigns (section 8). In `Replacement` and `TdataImport`,
the commands by which an operator starts, stops, disables or deletes a manager while
an operation is under way, and what the authorisation of the new account exchanges
with Telegram.

The model covers the state machines; most lines of the repository are menus, texts,
self-tests and reports, which have none.
