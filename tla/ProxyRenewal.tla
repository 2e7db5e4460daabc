---------------------------- MODULE ProxyRenewal ----------------------------
(***************************************************************************)
(* Renewal of rented proxies: the one place where TPILOT spends money on   *)
(* its own.  Three tasks of the controller process may renew a lease: the  *)
(* slot scheduler ("autorenew", proxy_ops._prenew_autorenew_loop), the     *)
(* TPilot-managed engine ("auto", main._renewal_auto_tick) and the         *)
(* operator's confirm command ("panel").  All of them end in               *)
(* main._renewal_wrapped_execute and proxy_ops._prenew_execute_renewal.    *)
(* A startup reconcile and a periodic pool sync write the same rows.       *)
(*                                                                         *)
(* A step is what runs between two awaits: one SQLite transaction or one   *)
(* call to the provider.  An expiry date is the number of renewals paid    *)
(* since the start; a provider id is a pair of the proxy and a generation, *)
(* because the provider may rotate the id when it renews a proxy.          *)
(***************************************************************************)
EXTENDS Naturals, FiniteSets

CONSTANTS Lease,       \* leases in the pool; host:port identifies them
          NoLease,     \* "no lease": the value of an unused local
          Source,      \* tasks that renew, values of proxy_renewal_ops.source
          MaxDate,     \* bound: renewals of one lease
          MaxGen,      \* bound: id rotations of one proxy (0: never rotates)
          MaxOps,      \* bound: rows ever inserted in proxy_renewal_ops
          MaxCrashes,  \* bound: restarts of the controller
          DbErrors     \* TRUE: a write of the executor may raise

ASSUME LeaseAssumption == NoLease \notin Lease
ASSUME SourceAssumption == Source \subseteq {"autorenew", "auto", "panel"}
ASSUME BoundAssumption == /\ MaxDate \in Nat /\ MaxGen \in Nat
                          /\ MaxOps \in Nat /\ MaxCrashes \in Nat
                          /\ DbErrors \in BOOLEAN

Date == 0 .. MaxDate
Gen  == 0 .. MaxGen
OpId == 1 .. MaxOps

VARIABLES
  lease,    \* proxy_leases: expires_at and provider_proxy_id of each lease
  prov,     \* the provider's own expiry date and id of each proxy
  ops,      \* proxy_renewal_ops; a deleted row keeps its key as history
  lastOp,   \* AUTOINCREMENT of proxy_renewal_ops.id
  calls,    \* history: prolong_make calls issued for each op
  req,      \* what the provider did with the call of each op
  run,                              \* the locals of each renewing task
  rc, rcTodo, rcSeen, rcOp,         \* the startup reconcile
  syTodo, sySeen,                   \* the periodic pool sync
  crashes

rows     == <<lease, ops, lastOp>>
provider == <<prov, calls, req>>
recon    == <<rc, rcTodo, rcSeen, rcOp>>
sync     == <<syTodo, sySeen>>
vars     == <<rows, provider, run, recon, sync, crashes>>

LeaseRow == [exp : Date, gen : Gen]
FirstRow == [exp |-> 0, gen |-> 0]
Entry    == [lease : Lease, exp : Date, gen : Gen]
Status   == {"none", "pending", "make_pending", "success", "failed", "deleted"}
OpRow    == [status : Status, lease : Lease \cup {NoLease},
             gen : Gen, before : Date]
Label    == {"idle", "next", "gate", "rejected", "blocked", "mark", "release",
             "make", "await", "verify", "identity", "write", "succeed", "fail"}
Run      == [pc : Label, todo : SUBSET Lease, snap : [Lease -> LeaseRow],
             cur : Lease \cup {NoLease}, op : 0 .. MaxOps, conf : LeaseRow]
NoRow    == [status |-> "none", lease |-> NoLease, gen |-> 0, before |-> 0]

Live     == {i \in OpId : ops[i].status \notin {"none", "deleted"}}
Active   == {"pending", "make_pending"}
Terminal == {"success", "failed"}

Burned   == Terminal \cup {"make_pending"}

\* The idempotency key: provider id and canonical pre-renewal date.  The
\* period is a constant of the program.
Key(r) == <<r.lease, r.gen, r.before>>

\* What list_proxies returns now.
Listing == {[lease |-> l, exp |-> prov[l].exp, gen |-> prov[l].gen]
             : l \in Lease}

\* Mutant: the status is written without comparing it first.
AdvanceBlind(i, from, to) == ops' = [ops EXCEPT ![i].status = to]

\* proxy_renewal_op_advance with from_status: a compare-and-swap by row id.
Advance(i, from, to) ==
  ops' = IF ops[i].status = from THEN [ops EXCEPT ![i].status = to] ELSE ops

\* Mutant: the row is deleted in whatever status it is.
DeleteAny(i) == ops' = [ops EXCEPT ![i].status = "deleted"]

\* proxy_renewal_op_delete_pending: removes the row only while 'pending'.
DeletePending(i) == Advance(i, "pending", "deleted")

-----------------------------------------------------------------------------
(* The renewing tasks.                                                     *)

\* A task waiting for its next tick, slot or command.
Idle == [pc |-> "idle", todo |-> {}, snap |-> [l \in Lease |-> FirstRow],
         cur |-> NoLease, op |-> 0, conf |-> FirstRow]

Init ==
  /\ lease = [l \in Lease |-> FirstRow]
  /\ prov = [l \in Lease |-> FirstRow]
  /\ ops = [i \in OpId |-> NoRow]
  /\ lastOp = 0
  /\ calls = [i \in OpId |-> 0]
  /\ req = [i \in OpId |-> "none"]
  /\ run = [p \in Source |-> Idle]
  /\ rc = "due" /\ rcTodo = {} /\ rcSeen = {} /\ rcOp = 0
  /\ syTodo = {} /\ sySeen = {}
  /\ crashes = 0

At(p, l)   == run[p].pc = l
Goto(p, l) == run' = [run EXCEPT ![p].pc = l]

\* The end of one lease: on to the next one of the tick, or asleep.
Return(p) ==
  run' = [run EXCEPT ![p] =
            IF @.todo = {} THEN Idle
            ELSE [Idle EXCEPT !.pc = "next", !.todo = run[p].todo,
                              !.snap = run[p].snap]]

\* A tick reads the leases it will renew; everything it does with a lease
\* later uses this snapshot.  The confirm command reads a single lease.  The
\* managed engine starts only after the startup reconcile, in the same task.
TickStart(p) ==
  /\ At(p, "idle")
  /\ p = "auto" => rc = "done"
  /\ \E S \in SUBSET {l \in Lease : lease[l].exp < MaxDate} :
       /\ S # {}
       /\ p = "panel" => Cardinality(S) = 1
       /\ run' = [run EXCEPT ![p].pc = "next", ![p].todo = S,
                             ![p].snap = lease]
  /\ UNCHANGED <<rows, provider, recon, sync, crashes>>

PickLease(p) ==
  /\ At(p, "next")
  /\ \E l \in run[p].todo :
       run' = [run EXCEPT ![p].pc = "gate", ![p].cur = l,
                          ![p].todo = @ \ {l}]
  /\ UNCHANGED <<rows, provider, recon, sync, crashes>>

\* Orphan gate, blocked by the configuration, or a failed preflight: nothing
\* was written and the lease may be tried again.
PreSpendReturn(p) ==
  /\ At(p, "gate")
  /\ Return(p)
  /\ UNCHANGED <<rows, provider, recon, sync, crashes>>

Seen(p)   == run[p].snap[run[p].cur]
NewRow(p) == [status |-> "pending", lease |-> run[p].cur,
              gen |-> Seen(p).gen, before |-> Seen(p).exp]

\* Mutant: the key is unique among active rows only.
CollidesActive(r) ==
  \E i \in Live : ops[i].lease = r.lease /\ ops[i].status \in Active

\* The two unique indexes of proxy_renewal_ops: one row per key, whatever its
\* status, and one active row per lease.
Collides(r) ==
  \E i \in Live : \/ Key(ops[i]) = Key(r)
                  \/ ops[i].lease = r.lease /\ ops[i].status \in Active

OpCreate(p) ==
  /\ At(p, "gate")
  /\ ~Collides(NewRow(p))
  /\ lastOp < MaxOps
  /\ lastOp' = lastOp + 1
  /\ ops' = [ops EXCEPT ![lastOp + 1] = NewRow(p)]
  /\ run' = [run EXCEPT ![p].pc = "mark", ![p].op = lastOp + 1]
  /\ UNCHANGED <<lease, provider, recon, sync, crashes>>

\* Any exception of the INSERT reads as a refusal by the indexes.
OpCreateRejected(p) ==
  /\ At(p, "gate")
  /\ Collides(NewRow(p)) \/ DbErrors
  /\ Goto(p, "rejected")
  /\ UNCHANGED <<rows, provider, recon, sync, crashes>>

\* A second read tells "already in flight" from "blocked_unresolved".
ClassifyRejection(p) ==
  /\ At(p, "rejected")
  /\ IF \E i \in Live : ops[i].lease = run[p].cur /\ ops[i].status \in Active
       THEN Return(p)
       ELSE Goto(p, "blocked")
  /\ UNCHANGED <<rows, provider, recon, sync, crashes>>

\* The operator is told that an earlier attempt is unresolved.
ReportBlocked(p) ==
  /\ At(p, "blocked")
  /\ Return(p)
  /\ UNCHANGED <<rows, provider, recon, sync, crashes>>

\* The durable SPEND_STARTED marker; the row may be gone by now, or the write
\* may raise.  Without the marker the provider is not called.
MarkSpendStarted(p) ==
  /\ At(p, "mark")
  /\ \/ /\ Advance(run[p].op, "pending", "make_pending")
        /\ Goto(p, IF ops[run[p].op].status = "pending" THEN "make"
                                                        ELSE "release")
     \/ /\ DbErrors
        /\ Goto(p, "release")
        /\ UNCHANGED ops
  /\ UNCHANGED <<lease, lastOp, provider, recon, sync, crashes>>

ReleaseReservation(p) ==
  /\ At(p, "release")
  /\ DeletePending(run[p].op) \/ (DbErrors /\ UNCHANGED ops)
  /\ Return(p)
  /\ UNCHANGED <<lease, lastOp, provider, recon, sync, crashes>>

\* The spend: the request leaves the process.
ProlongMake(p) ==
  /\ At(p, "make")
  /\ calls' = [calls EXCEPT ![run[p].op] = @ + 1]
  /\ req' = [req EXCEPT ![run[p].op] = "sent"]
  /\ Goto(p, "await")
  /\ UNCHANGED <<rows, prov, recon, sync, crashes>>

\* The answer carries a date newer than the snapshot's.
MakeConfirms(p) ==
  LET date == prov[run[p].cur].exp IN
  /\ At(p, "await")
  /\ req[run[p].op] = "applied"
  /\ date > Seen(p).exp
  /\ run' = [run EXCEPT ![p].pc = "write",
                        ![p].conf = [exp |-> date, gen |-> Seen(p).gen]]
  /\ UNCHANGED <<rows, provider, recon, sync, crashes>>

\* An exception (refusal or timeout), or an answer without a usable date.
MakeInconclusive(p) ==
  /\ At(p, "await")
  /\ \E l \in {"verify", "fail"} : Goto(p, l)
  /\ UNCHANGED <<rows, provider, recon, sync, crashes>>

\* Mutant: any entry of the list counts as a confirmation.
VerifyAnyEntry(p) ==
  LET entry == prov[run[p].cur] IN
  /\ At(p, "verify")
  /\ run' = [run EXCEPT ![p].conf = entry, ![p].pc = "write"]
  /\ UNCHANGED <<rows, provider, recon, sync, crashes>>

\* The bounded read-only refresh finds a newer date, under the old id or,
\* by host:port, under a rotated one.
VerifyConfirms(p) ==
  LET entry == prov[run[p].cur] IN
  /\ At(p, "verify")
  /\ entry.exp > Seen(p).exp
  /\ run' = [run EXCEPT ![p].conf = entry,
                        ![p].pc = IF entry.gen # Seen(p).gen THEN "identity"
                                                             ELSE "write"]
  /\ UNCHANGED <<rows, provider, recon, sync, crashes>>

VerifyGivesUp(p) ==
  /\ At(p, "verify")
  /\ Goto(p, "fail")
  /\ UNCHANGED <<rows, provider, recon, sync, crashes>>

\* The rotated id is written to the lease; a failing write is swallowed.
UpdateIdentity(p) ==
  /\ At(p, "identity")
  /\ \/ lease' = [lease EXCEPT ![run[p].cur].gen = run[p].conf.gen]
     \/ DbErrors /\ UNCHANGED lease
  /\ Goto(p, "write")
  /\ UNCHANGED <<ops, lastOp, provider, recon, sync, crashes>>

\* Mutant: the new date is computed from the pool's own, not confirmed.
WriteGuessedExpiry(p) ==
  /\ At(p, "write")
  /\ lease' = [lease EXCEPT ![run[p].cur].exp = @ + 1]
  /\ Goto(p, "succeed")
  /\ UNCHANGED <<ops, lastOp, provider, recon, sync, crashes>>

WriteExpiry(p) ==
  /\ At(p, "write")
  /\ lease' = [lease EXCEPT ![run[p].cur].exp = run[p].conf.exp]
  /\ Goto(p, "succeed")
  /\ UNCHANGED <<ops, lastOp, provider, recon, sync, crashes>>

\* Mutant: a failed call frees its key, as if it proved that nothing was paid.
AdvanceOpFreeingFailed(p) ==
  /\ \/ At(p, "succeed") /\ Advance(run[p].op, "make_pending", "success")
     \/ At(p, "fail") /\ Advance(run[p].op, "make_pending", "deleted")
  /\ Return(p)
  /\ UNCHANGED <<lease, lastOp, provider, recon, sync, crashes>>

AdvanceOp(p) ==
  /\ \/ At(p, "succeed") /\ Advance(run[p].op, "make_pending", "success")
     \/ At(p, "fail") /\ Advance(run[p].op, "make_pending", "failed")
  /\ Return(p)
  /\ UNCHANGED <<lease, lastOp, provider, recon, sync, crashes>>

\* A write outside every try block raises: the row stays 'make_pending'.  The
\* slot scheduler goes on with the next lease, the others give up the tick.
ExecutorRaises(p) ==
  /\ DbErrors
  /\ run[p].pc \in {"write", "succeed", "fail"}
  /\ IF p = "autorenew" THEN Return(p)
                        ELSE run' = [run EXCEPT ![p] = Idle]
  /\ UNCHANGED <<rows, provider, recon, sync, crashes>>

-----------------------------------------------------------------------------
(* The provider.  A request is processed once, possibly after the caller   *)
(* timed out or died; a processed renewal may rotate the id.  A request    *)
(* under an id that is no longer the proxy's is refused.                   *)

ProviderApplies(i) ==
  LET l == ops[i].lease IN
  /\ req[i] = "sent"
  /\ ops[i].gen = prov[l].gen
  /\ prov[l].exp < MaxDate
  /\ \E g \in {prov[l].gen, prov[l].gen + 1} \cap Gen :
       prov' = [prov EXCEPT ![l] = [exp |-> @.exp + 1, gen |-> g]]
  /\ req' = [req EXCEPT ![i] = "applied"]
  /\ UNCHANGED <<rows, calls, run, recon, sync, crashes>>

ProviderRefuses(i) ==
  /\ req[i] = "sent"
  /\ req' = [req EXCEPT ![i] = "refused"]
  /\ UNCHANGED <<rows, prov, calls, run, recon, sync, crashes>>

-----------------------------------------------------------------------------
(* Startup reconcile (main._renewal_reconcile_pending_on_start).  It runs  *)
(* 90 seconds after the start, beside tasks that are already renewing.     *)

\* Mutant: the restart looks at rows with the spend marker only.
ReconcileNoPending ==
  /\ rc = "due"
  /\ rc' = "release" /\ rcTodo' = {}
  /\ UNCHANGED <<rows, provider, run, rcSeen, rcOp, sync, crashes>>

ReconcilePending ==
  /\ rc = "due"
  /\ rc' = "release"
  /\ rcTodo' = {i \in OpId : ops[i].status = "pending"}
  /\ UNCHANGED <<rows, provider, run, rcSeen, rcOp, sync, crashes>>

ReconcileRelease(i) ==
  /\ rc = "release" /\ i \in rcTodo
  /\ DeletePending(i)
  /\ rcTodo' = rcTodo \ {i}
  /\ UNCHANGED <<lease, lastOp, provider, run, rc, rcSeen, rcOp, sync,
                 crashes>>

ReconcileMakePending ==
  /\ rc = "release" /\ rcTodo = {}
  /\ rcTodo' = {i \in OpId : ops[i].status = "make_pending"}
  /\ rc' = IF rcTodo' = {} THEN "done" ELSE "list"
  /\ UNCHANGED <<rows, provider, run, rcSeen, rcOp, sync, crashes>>

\* The provider's list; without an API key nothing is observed.
ReconcileList ==
  /\ rc = "list"
  /\ rcSeen' \in {Listing, {}}
  /\ rc' = "resolve"
  /\ UNCHANGED <<rows, provider, run, rcTodo, rcOp, sync, crashes>>

\* The list cannot be read: the rows stay as they are until the next start.
ReconcileListFails ==
  /\ rc = "list"
  /\ rc' = "done" /\ rcTodo' = {}
  /\ UNCHANGED <<rows, provider, run, rcSeen, rcOp, sync, crashes>>

\* The entries under the op's id whose date is later than expires_before.
Newer(i) == {e \in rcSeen : /\ e.lease = ops[i].lease /\ e.gen = ops[i].gen
                            /\ e.exp > ops[i].before}

\* Mutant: an unchanged list is taken as a proof that nothing was paid.
ReconcileFreesFailed(i) ==
  /\ rc = "resolve" /\ i \in rcTodo
  /\ Newer(i) = {}
  /\ Advance(i, "make_pending", "deleted")
  /\ rcTodo' = rcTodo \ {i}
  /\ UNCHANGED <<lease, lastOp, provider, run, rc, rcSeen, rcOp, sync, crashes>>

ReconcileFailed(i) ==
  /\ rc = "resolve" /\ i \in rcTodo
  /\ Newer(i) = {}
  /\ Advance(i, "make_pending", "failed")
  /\ rcTodo' = rcTodo \ {i}
  /\ UNCHANGED <<lease, lastOp, provider, run, rc, rcSeen, rcOp, sync,
                 crashes>>

ReconcileSuccess(i) ==
  /\ rc = "resolve" /\ i \in rcTodo
  /\ Newer(i) # {}
  /\ Advance(i, "make_pending", "success")
  /\ rcTodo' = rcTodo \ {i}
  /\ rc' = "lease" /\ rcOp' = i
  /\ UNCHANGED <<lease, lastOp, provider, run, rcSeen, sync, crashes>>

\* The lease gets the observed date, whether or not the advance applied.
ReconcileWriteLease ==
  /\ rc = "lease"
  /\ \E e \in Newer(rcOp) : lease' = [lease EXCEPT ![e.lease].exp = e.exp]
  /\ rc' = "resolve" /\ rcOp' = 0
  /\ UNCHANGED <<ops, lastOp, provider, run, rcTodo, rcSeen, sync,
                 crashes>>

ReconcileDone ==
  /\ rc = "resolve" /\ rcTodo = {}
  /\ rc' = "done" /\ rcSeen' = {}
  /\ UNCHANGED <<rows, provider, run, rcTodo, rcOp, sync, crashes>>

-----------------------------------------------------------------------------
(* The pool sync: one list_proxies, then one upsert per entry, keyed by    *)
(* the provider id.  A rotated id matches no lease row (the sync inserts   *)
(* an unassigned one, which no task renews).                               *)

SyncList ==
  /\ syTodo = {}
  /\ sySeen' = Listing
  /\ syTodo' = Lease
  /\ UNCHANGED <<rows, provider, run, recon, crashes>>

\* Mutant: the sync leaves expires_at of a known lease alone.
SyncUpsertNoExpiry(l) ==
  /\ l \in syTodo
  /\ syTodo' = syTodo \ {l}
  /\ sySeen' = IF syTodo' = {} THEN {} ELSE sySeen
  /\ UNCHANGED <<rows, provider, run, recon, crashes>>

SyncUpsert(l) ==
  /\ l \in syTodo
  /\ \E e \in sySeen :
       /\ e.lease = l
       /\ lease' = IF e.gen = lease[l].gen
                     THEN [lease EXCEPT ![l].exp = e.exp] ELSE lease
  /\ syTodo' = syTodo \ {l}
  /\ sySeen' = IF syTodo' = {} THEN {} ELSE sySeen
  /\ UNCHANGED <<ops, lastOp, provider, run, recon, crashes>>

\* The controller process dies and is started again: locals are lost, the
\* database and the provider are not.
Crash ==
  /\ crashes < MaxCrashes
  /\ crashes' = crashes + 1
  /\ run' = [p \in Source |-> Idle]
  /\ rc' = "due" /\ rcTodo' = {} /\ rcSeen' = {} /\ rcOp' = 0
  /\ syTodo' = {} /\ sySeen' = {}
  /\ UNCHANGED <<rows, provider>>

-----------------------------------------------------------------------------
Execute(p) ==
  \/ PickLease(p) \/ PreSpendReturn(p)
  \/ OpCreate(p) \/ OpCreateRejected(p) \/ ClassifyRejection(p)
  \/ ReportBlocked(p)
  \/ MarkSpendStarted(p) \/ ReleaseReservation(p)
  \/ ProlongMake(p) \/ MakeConfirms(p) \/ MakeInconclusive(p)
  \/ VerifyConfirms(p) \/ VerifyGivesUp(p)
  \/ UpdateIdentity(p) \/ WriteExpiry(p) \/ AdvanceOp(p) \/ ExecutorRaises(p)

Provider == \E i \in OpId : ProviderApplies(i) \/ ProviderRefuses(i)

Reconcile ==
  \/ ReconcilePending \/ ReconcileMakePending \/ ReconcileList
  \/ ReconcileListFails \/ ReconcileWriteLease \/ ReconcileDone
  \/ \E i \in OpId :
       ReconcileRelease(i) \/ ReconcileFailed(i) \/ ReconcileSuccess(i)

Sync == SyncList \/ \E l \in Lease : SyncUpsert(l)

Next == \/ \E p \in Source : TickStart(p) \/ Execute(p)
        \/ Provider \/ Reconcile \/ Sync \/ Crash

Spec == Init /\ [][Next]_vars

\* Tasks of the event loop are not starved and a started handler runs on; a
\* new tick, a crash and an answer of the provider are not promised.
Fairness == /\ \A p \in Source : WF_vars(Execute(p))
            /\ WF_vars(Reconcile)
            /\ WF_vars(SyncList)
            /\ \A l \in Lease : WF_vars(SyncUpsert(l))

FairSpec == Spec /\ Fairness

-----------------------------------------------------------------------------
TypeOK ==
  /\ lease \in [Lease -> LeaseRow]
  /\ prov \in [Lease -> LeaseRow]
  /\ ops \in [OpId -> OpRow]
  /\ lastOp \in 0 .. MaxOps
  /\ calls \in [OpId -> Nat]
  /\ req \in [OpId -> {"none", "sent", "applied", "refused"}]
  /\ run \in [Source -> Run]
  /\ rc \in {"due", "release", "list", "resolve", "lease", "done"}
  /\ rcTodo \subseteq OpId
  /\ rcSeen \subseteq Entry
  /\ rcOp \in 0 .. MaxOps
  /\ syTodo \subseteq Lease
  /\ sySeen \subseteq Entry
  /\ crashes \in 0 .. MaxCrashes

Spent == {i \in OpId : calls[i] > 0}

\* prolong_make is called at most once per idempotency key, by whatever task,
\* across restarts, reconciles and released reservations.
AtMostOneSpendPerKey ==
  \A i, j \in Spent :
    Key(ops[i]) = Key(ops[j]) => i = j /\ calls[i] = 1

\* ... and at most once for one lease and one pre-renewal expiry: "can NEVER
\* call prolong/make twice for the same renewal target".
AtMostOneSpendPerCycle ==
  \A i, j \in Spent :
    <<ops[i].lease, ops[i].before>> = <<ops[j].lease, ops[j].before>> => i = j

\* A reservation freed as "provably pre-spend" was never spent, nor will be.
ReleasedIsUnspent ==
  \A i \in OpId : ops[i].status = "deleted" =>
    /\ calls[i] = 0
    /\ \A p \in Source : At(p, "make") => run[p].op # i

\* Money is never sent for a proxy whose paid period was already extended
\* beyond the expiry the attempt started from.
SpendIsDue ==
  \A p \in Source : At(p, "make") => prov[run[p].cur].exp = Seen(p).exp

\* A date written to the pool is one the provider confirmed.
ExpiryNeverAhead == \A l \in Lease : lease[l].exp <= prov[l].exp

\* An op is 'success' only when the provider did extend the proxy.
SuccessIsReal ==
  \A i \in OpId :
    ops[i].status = "success" => prov[ops[i].lease].exp > ops[i].before

\* While the pool shows an expiry the provider has already extended, the key
\* for that expiry is taken, so no task can spend on the stale date.
StaleExpiryIsBurned ==
  \A l \in Lease : lease[l].exp < prov[l].exp =>
    \E i \in OpId : /\ ops[i].status \in Burned
                    /\ Key(ops[i]) = <<l, lease[l].gen, lease[l].exp>>

\* Labels at which a task owns an op row.
Holding == {"mark", "release", "make", "await", "verify", "identity", "write",
            "succeed", "fail"}

\* The discipline behind the two properties above: a key is held by one row; a
\* row is spent by the one task that inserted it, after the row is marked and
\* not before; a marked row is never free again.
KeyDiscipline ==
  /\ \A i \in OpId : i > lastOp => ops[i].status = "none" /\ calls[i] = 0
  /\ \A i, j \in Live : Key(ops[i]) = Key(ops[j]) => i = j
  /\ \A i \in OpId : /\ calls[i] \in {0, 1}
                     /\ calls[i] = 1 => ops[i].status \in Burned
  /\ \A p \in Source :
       /\ run[p].pc \in {"mark", "make"} => calls[run[p].op] = 0
       /\ run[p].pc = "make" => ops[run[p].op].status \in Burned
       /\ \A q \in Source \ {p} :
            run[p].pc \in Holding /\ run[q].pc \in Holding => run[p].op # run[q].op

\* The discipline behind ExpiryNeverAhead and SuccessIsReal: every copy of a
\* date (a tick's snapshot, a confirmation, the lists of the reconcile and of
\* the sync) is one the provider granted, however old the copy is, and an op
\* row describes the renewal its owner is working on.
DatesConfirmed ==
  /\ ExpiryNeverAhead
  /\ SuccessIsReal
  /\ \A e \in rcSeen \cup sySeen : e.exp <= prov[e.lease].exp
  /\ \A p \in Source :
       /\ \A l \in Lease : run[p].snap[l].exp <= prov[l].exp
       /\ run[p].pc \in Holding =>
            Key(ops[run[p].op]) = <<run[p].cur, Seen(p).gen, Seen(p).exp>>
       /\ run[p].pc \in {"identity", "write", "succeed"} =>
            /\ Seen(p).exp < run[p].conf.exp
            /\ run[p].conf.exp <= prov[run[p].cur].exp

\* While no id is rotated, every paid period was paid by an op of its own, and
\* a request on its way is for the period that is due.
PaymentsCovered ==
  /\ \A i \in OpId : req[i] = "none" <=> calls[i] = 0
  /\ \A i \in OpId : req[i] = "sent" => prov[ops[i].lease].exp = ops[i].before
  /\ \A l \in Lease : \A e \in Date : e < prov[l].exp =>
       \E i \in OpId : /\ req[i] = "applied"
                       /\ <<ops[i].lease, ops[i].before>> = <<l, e>>

\* No two writers settle one op differently: a terminal status is final and
\* a spent row is never deleted or reopened.
SettledOnce ==
  [][\A i \in OpId :
       /\ ops[i].status \in Terminal => ops'[i] = ops[i]
       /\ calls[i] > 0 => ops'[i].status \notin {"pending", "deleted"}]_vars

\* A reservation left by a dead process is freed (or used) after the restart:
\* no lease stays blocked by a row nobody owns.
RestartFreesReservations ==
  \A i \in OpId : rc = "due" /\ ops[i].status = "pending"
                    ~> ops[i].status # "pending"

\* The pool catches up with a renewal nobody confirmed: the stale date does
\* not stay forever.
LeaseCatchesUp ==
  \A l \in Lease : lease[l].exp < prov[l].exp ~> lease[l].exp = prov[l].exp

\* What Billing sees: the dates, and the cycles of some rows.
Granted == [l \in Lease |-> prov[l].exp]
Shown   == [l \in Lease |-> lease[l].exp]
Cycle(i) == <<ops[i].lease, ops[i].before>>
InRequest(s) == {Cycle(i) : i \in {j \in OpId : req[j] = s}}
InStatus(s)  == {Cycle(i) : i \in {j \in OpId : ops[j].status = s}}

Bill == INSTANCE Billing
          WITH granted <- Granted, shown <- Shown,
               sent <- InRequest("sent"), refused <- InRequest("refused"),
               won <- InStatus("success"), lost <- InStatus("failed")

\* The renewals implement Billing: across ticks, crashes, late answers and old
\* lists, a cycle is ordered once and only when due, success is told of granted
\* cycles only, what is told is final, and the pool shows granted dates.
RenewalImplementsBilling == Bill!Spec

\* "blocked_unresolved" is reported only for a key held by a 'failed' row.
BlockedMeansFailed ==
  \A p \in Source : At(p, "blocked") =>
    \E i \in Live : /\ Key(ops[i]) = Key(NewRow(p))
                    /\ ops[i].status = "failed"
=============================================================================
