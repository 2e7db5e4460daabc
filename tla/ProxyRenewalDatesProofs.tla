---------------------- MODULE ProxyRenewalDatesProofs ----------------------
(***************************************************************************)
(* Theorems about the dates of ProxyRenewal: what the pool shows, what the *)
(* provider granted, and that nothing is paid twice while ids are stable.  *)
(***************************************************************************)
EXTENDS ProxyRenewalProofs

USE BoundAssumption DEF Date, Gen, OpId

(***************************************************************************)
(* What one step may do to each copy of a date.                            *)
(***************************************************************************)

\* Only an answered request moves the provider's dates, and only forward.
LEMMA ProvStep ==
  ASSUME TypeInv, [Next]_vars
  PROVE  (\E i \in OpId : ProviderApplies(i)) \/ (prov' = prov /\ req' = req)
         \/ (prov' = prov /\ \E i \in OpId : ProviderRefuses(i))
         \/ (prov' = prov /\ \E p \in Source : ProlongMake(p))
<1> USE DEF provider
<1>1. ASSUME NEW p \in Source, Execute(p)
      PROVE  prov' = prov /\ (req' = req \/ ProlongMake(p))
  BY <1>1
  DEF Execute, PickLease, PreSpendReturn, OpCreate, OpCreateRejected,
      ClassifyRejection, ReportBlocked, MarkSpendStarted, ReleaseReservation,
      ProlongMake, MakeConfirms, MakeInconclusive, VerifyConfirms,
      VerifyGivesUp, UpdateIdentity, WriteExpiry, AdvanceOp, ExecutorRaises
<1>2. CASE Provider
  BY <1>2 DEF Provider, ProviderRefuses
<1>3. CASE Reconcile
  <2>1. ASSUME NEW i \in OpId,
               ReconcileRelease(i) \/ ReconcileFailed(i) \/ ReconcileSuccess(i)
        PROVE  prov' = prov /\ req' = req
    BY <2>1 DEF ReconcileRelease, ReconcileFailed, ReconcileSuccess
  <2>2. QED
    BY <1>3, <2>1
    DEF Reconcile, ReconcilePending, ReconcileMakePending, ReconcileList,
        ReconcileListFails, ReconcileWriteLease, ReconcileDone
<1>4. CASE Sync
  BY <1>4 DEF Sync, SyncList, SyncUpsert
<1>5. ASSUME NEW p \in Source, TickStart(p)
      PROVE  prov' = prov /\ req' = req
  BY <1>5 DEF TickStart
<1>6. CASE Crash \/ UNCHANGED vars
  BY <1>6 DEF Crash, vars
<1>7. QED
  BY <1>1, <1>2, <1>3, <1>4, <1>5, <1>6 DEF Next

\* An answered request extends one proxy by one period.
LEMMA AppliesEffect ==
  ASSUME TypeInv, NEW i \in OpId, ProviderApplies(i)
  PROVE  \A l \in Lease :
           prov'[l].exp = prov[l].exp + (IF l = ops[i].lease THEN 1 ELSE 0)
<1>1. prov \in [Lease -> LeaseRow]
  BY DEF TypeInv, TypeOK
<1>2. PICK g \in Gen :
        prov' = [prov EXCEPT ![ops[i].lease] = [exp |-> @.exp + 1, gen |-> g]]
  BY DEF ProviderApplies
<1>3. QED
  BY <1>1, <1>2 DEF LeaseRow

LEMMA ProvMonotone ==
  ASSUME TypeInv, [Next]_vars, NEW l \in Lease
  PROVE  /\ prov[l].exp \in Nat /\ prov'[l].exp \in Nat
         /\ prov[l].exp <= prov'[l].exp
<1>1. prov[l].exp \in Nat
  BY DEF TypeInv, TypeOK, LeaseRow
<1>2. QED
  BY <1>1, ProvStep, AppliesEffect

\* A date written to the pool was confirmed to its writer.
LEMMA LeaseStep ==
  ASSUME TypeInv, DatesConfirmed, [Next]_vars, NEW l \in Lease
  PROVE  lease'[l].exp <= prov[l].exp
<1> USE DEF rows
<1>0. /\ lease \in [Lease -> LeaseRow] /\ lease[l].exp <= prov[l].exp
      /\ \A p \in Source : run[p].pc \in Working => run[p].cur \in Lease
  BY DEF DatesConfirmed, ExpiryNeverAhead, TypeInv, TypeOK, LocalsOK
<1>1. CASE lease' = lease
  BY <1>0, <1>1
<1>2. ASSUME NEW p \in Source, UpdateIdentity(p)
      PROVE  lease'[l].exp <= prov[l].exp
  <2>1. CASE lease' = [lease EXCEPT ![run[p].cur].gen = run[p].conf.gen]
    BY <1>0, <2>1 DEF LeaseRow
  <2>2. QED
    BY <1>1, <1>2, <2>1 DEF UpdateIdentity
<1>3. ASSUME NEW p \in Source, WriteExpiry(p)
      PROVE  lease'[l].exp <= prov[l].exp
  <2>1. run[p].conf.exp <= prov[run[p].cur].exp
    BY <1>3 DEF WriteExpiry, At, DatesConfirmed
  <2>2. lease' = [lease EXCEPT ![run[p].cur].exp = run[p].conf.exp]
    BY <1>3 DEF WriteExpiry
  <2>3. QED
    BY <1>0, <2>1, <2>2 DEF LeaseRow
<1>4. CASE ReconcileWriteLease
  <2>1. PICK e \in rcSeen : lease' = [lease EXCEPT ![e.lease].exp = e.exp]
    BY <1>4 DEF ReconcileWriteLease, Newer
  <2>2. e.exp <= prov[e.lease].exp
    BY DEF DatesConfirmed
  <2>3. QED
    BY <1>0, <2>1, <2>2 DEF LeaseRow
<1>5. ASSUME NEW k \in Lease, SyncUpsert(k)
      PROVE  lease'[l].exp <= prov[l].exp
  <2>1. PICK e \in sySeen :
          /\ e.lease = k
          /\ lease' = IF e.gen = lease[k].gen
                        THEN [lease EXCEPT ![k].exp = e.exp] ELSE lease
    BY <1>5 DEF SyncUpsert
  <2>2. e.exp <= prov[e.lease].exp
    BY DEF DatesConfirmed
  <2>3. CASE lease' = [lease EXCEPT ![k].exp = e.exp]
    BY <1>0, <2>1, <2>2, <2>3 DEF LeaseRow
  <2>4. QED
    BY <1>1, <2>1, <2>3
<1>6. ASSUME NEW p \in Source, Execute(p), ~UpdateIdentity(p), ~WriteExpiry(p)
      PROVE  lease' = lease
  BY <1>6
  DEF Execute, PickLease, PreSpendReturn, OpCreate, OpCreateRejected,
      ClassifyRejection, ReportBlocked, MarkSpendStarted, ReleaseReservation,
      ProlongMake, MakeConfirms, MakeInconclusive, VerifyConfirms,
      VerifyGivesUp, AdvanceOp, ExecutorRaises
<1>7. CASE Provider \/ SyncList \/ Crash \/ UNCHANGED vars
  BY <1>1, <1>7
  DEF Provider, ProviderApplies, ProviderRefuses, SyncList, Crash, vars
<1>8. ASSUME Reconcile, ~ReconcileWriteLease
      PROVE  lease' = lease
  <2>1. ASSUME NEW i \in OpId,
               ReconcileRelease(i) \/ ReconcileFailed(i) \/ ReconcileSuccess(i)
        PROVE  lease' = lease
    BY <2>1 DEF ReconcileRelease, ReconcileFailed, ReconcileSuccess
  <2>2. QED
    BY <1>8, <2>1
    DEF Reconcile, ReconcilePending, ReconcileMakePending, ReconcileList,
        ReconcileListFails, ReconcileDone
<1>9. ASSUME NEW p \in Source, TickStart(p)
      PROVE  lease' = lease
  BY <1>9 DEF TickStart
<1>10. QED
  BY <1>1, <1>2, <1>3, <1>4, <1>5, <1>6, <1>7, <1>8, <1>9 DEF Next, Sync

\* A tick's snapshot is the pool's, or the empty one of a sleeping task.
LEMMA SnapStep ==
  ASSUME TypeInv, [Next]_vars, NEW p \in Source
  PROVE  run'[p].snap \in {run[p].snap, lease, Idle.snap}
<1>1. TypeOK
  BY DEF TypeInv
<1>2. CASE run'[p] = run[p]
  BY <1>2
<1>3. ASSUME NEW q \in Source, TickStart(q)
      PROVE  run'[p].snap \in {run[p].snap, lease}
  BY <1>1, <1>3, TickStartEffect
<1>4. ASSUME Execute(p)
      PROVE  run'[p].snap \in {run[p].snap, Idle.snap}
  <2>1. CASE \E l : Goto(p, l)
    BY <1>1, <2>1, GotoEffect
  <2>2. CASE Return(p)
    BY <1>1, <2>2, ReturnEffect
  <2>3. CASE PickLease(p)
    BY <1>1, <2>3 DEF PickLease, TypeOK, Run
  <2>4. CASE OpCreate(p)
    BY <1>1, <2>4 DEF OpCreate, TypeOK, Run
  <2>5. CASE MakeConfirms(p)
    BY <1>1, <2>5 DEF MakeConfirms, TypeOK, Run
  <2>6. CASE VerifyConfirms(p)
    BY <1>1, <2>6 DEF VerifyConfirms, TypeOK, Run
  <2>7. CASE ExecutorRaises(p)
    BY <1>1, <2>2, <2>7 DEF ExecutorRaises, TypeOK
  <2>8. QED
    BY <1>4, <2>1, <2>2, <2>3, <2>4, <2>5, <2>6, <2>7
    DEF Execute, PreSpendReturn, OpCreateRejected, ClassifyRejection,
        ReportBlocked, MarkSpendStarted, ReleaseReservation, ProlongMake,
        MakeInconclusive, VerifyGivesUp, UpdateIdentity, WriteExpiry, AdvanceOp
<1>5. CASE Crash
  BY <1>5 DEF Crash
<1>6. CASE Environment \/ UNCHANGED vars
  BY <1>2, <1>6, EnvironmentFrame DEF vars
<1>7. QED
  BY <1>2, <1>3, <1>4, <1>5, <1>6, OwnLocals DEF Next, Environment

\* The lists of the reconcile and of the sync are read from the provider.
LEMMA SeenStep ==
  ASSUME TypeInv, [Next]_vars
  PROVE  rcSeen' \cup sySeen' \subseteq rcSeen \cup sySeen \cup Listing
<1> USE DEF recon, sync
<1>1. ASSUME NEW p \in Source, Execute(p)
      PROVE  rcSeen' = rcSeen /\ sySeen' = sySeen
  BY <1>1
  DEF Execute, PickLease, PreSpendReturn, OpCreate, OpCreateRejected,
      ClassifyRejection, ReportBlocked, MarkSpendStarted, ReleaseReservation,
      ProlongMake, MakeConfirms, MakeInconclusive, VerifyConfirms,
      VerifyGivesUp, UpdateIdentity, WriteExpiry, AdvanceOp, ExecutorRaises
<1>2. CASE Provider \/ Crash \/ UNCHANGED vars
  BY <1>2 DEF Provider, ProviderApplies, ProviderRefuses, Crash, vars
<1>3. CASE Reconcile
  <2>1. ASSUME NEW i \in OpId,
               ReconcileRelease(i) \/ ReconcileFailed(i) \/ ReconcileSuccess(i)
        PROVE  rcSeen' = rcSeen /\ sySeen' = sySeen
    BY <2>1 DEF ReconcileRelease, ReconcileFailed, ReconcileSuccess
  <2>2. CASE ReconcileList
    BY <2>2 DEF ReconcileList
  <2>3. QED
    BY <1>3, <2>1, <2>2
    DEF Reconcile, ReconcilePending, ReconcileMakePending,
        ReconcileListFails, ReconcileWriteLease, ReconcileDone
<1>4. CASE Sync
  BY <1>4 DEF Sync, SyncList, SyncUpsert
<1>5. ASSUME NEW p \in Source, TickStart(p)
      PROVE  rcSeen' = rcSeen /\ sySeen' = sySeen
  BY <1>5 DEF TickStart
<1>6. QED
  BY <1>1, <1>2, <1>3, <1>4, <1>5 DEF Next

\* Labels at which a task holds a confirmation.
Confirmed == {"identity", "write", "succeed"}

\* A task gets a confirmation from the answer or from the refresh, and keeps it.
LEMMA ConfStep ==
  ASSUME TypeInv, [Next]_vars, NEW p \in Source, run'[p].pc \in Confirmed
  PROVE  \/ MakeConfirms(p) \/ VerifyConfirms(p)
         \/ /\ run[p].pc \in Confirmed /\ run'[p].conf = run[p].conf
<1> USE DEF At, Confirmed
<1>1. TypeOK
  BY DEF TypeInv
<1>2. CASE run'[p] = run[p]
  BY <1>2
<1>3. ASSUME NEW q \in Source, TickStart(q)
      PROVE  run'[p] = run[p]
  BY <1>1, <1>3, TickStartEffect
<1>4. ASSUME Execute(p), ~MakeConfirms(p), ~VerifyConfirms(p)
      PROVE  run[p].pc \in Confirmed /\ run'[p].conf = run[p].conf
  <2>1. \A l : Goto(p, l) => l \in Confirmed
    BY <1>1, GotoEffect
  <2>2. ~Return(p)
    BY <1>1, ReturnEffect
  <2>3. CASE UpdateIdentity(p) \/ WriteExpiry(p)
    BY <1>1, <2>3, GotoEffect DEF UpdateIdentity, WriteExpiry
  <2>4. ~PickLease(p)
    <3>1. ASSUME NEW l, run' = [run EXCEPT ![p].pc = "gate", ![p].cur = l,
                                           ![p].todo = @ \ {l}]
          PROVE  run'[p].pc = "gate"
      BY <1>1, <3>1 DEF TypeOK, Run
    <3>2. QED
      BY <3>1 DEF PickLease
  <2>5. ~OpCreate(p)
    BY <1>1 DEF OpCreate, TypeOK, Run
  <2>6. ~ExecutorRaises(p)
    BY <1>1, <2>2 DEF ExecutorRaises, TypeOK, Idle
  <2>7. ~ClassifyRejection(p) /\ ~OpCreateRejected(p)
    BY <2>1, <2>2 DEF ClassifyRejection, OpCreateRejected
  <2>8. ~MarkSpendStarted(p)
    <3>1. MarkSpendStarted(p) => Goto(p, "make") \/ Goto(p, "release")
      BY DEF MarkSpendStarted
    <3>2. QED
      BY <2>1, <3>1
  <2>9. ~ProlongMake(p) /\ ~MakeInconclusive(p) /\ ~VerifyGivesUp(p)
    BY <2>1 DEF ProlongMake, MakeInconclusive, VerifyGivesUp
  <2>10. QED
    BY <1>4, <2>2, <2>3, <2>4, <2>5, <2>6, <2>7, <2>8, <2>9
    DEF Execute, PreSpendReturn, ReportBlocked, ReleaseReservation, AdvanceOp
<1>5. CASE Crash
  BY <1>5 DEF Crash, Idle
<1>6. CASE Environment \/ UNCHANGED vars
  BY <1>2, <1>6, EnvironmentFrame DEF vars
<1>7. QED
  BY <1>2, <1>3, <1>4, <1>5, <1>6, OwnLocals DEF Next, Environment

(***************************************************************************)
(* Dates are confirmed.                                                    *)
(***************************************************************************)

\* A row that was inserted belongs to a lease.
RowsOK == \A i \in OpId : ops[i].status # "none" => ops[i].lease \in Lease

LEMMA RowsOKStep == TypeInv /\ RowsOK /\ [Next]_vars => RowsOK'
<1> SUFFICES ASSUME TypeInv, RowsOK, [Next]_vars
             PROVE  RowsOK'
  OBVIOUS
<1>1. ASSUME NEW p \in Source, OpCreate(p)
      PROVE  RowsOK'
  <2>1. run[p].cur \in Lease
    BY <1>1 DEF OpCreate, At, Working, TypeInv, LocalsOK
  <2>2. \A i \in OpId : ops'[i] \in {ops[i], NewRow(p)}
    BY <1>1 DEF OpCreate, TypeInv, TypeOK
  <2>3. QED
    BY <2>1, <2>2 DEF RowsOK, NewRow
<1>2. CASE \A i \in OpId : RowKept(i)
  BY <1>2 DEF RowKept, Swap, Key, RowsOK
<1>3. QED
  BY <1>1, <1>2, RowsStep

\* The three conjuncts about the locals of a task.
LEMMA SnapConfirmed ==
  ASSUME TypeInv, DatesConfirmed, [Next]_vars,
         NEW p \in Source, NEW l \in Lease
  PROVE  run'[p].snap[l].exp <= prov'[l].exp
<1>1. /\ prov[l].exp \in Nat /\ prov'[l].exp \in Nat
      /\ prov[l].exp <= prov'[l].exp
  BY ProvMonotone
<1>2. /\ run[p].snap[l].exp \in Nat /\ run[p].snap[l].exp <= prov[l].exp
  BY RunTypes DEF TypeInv, DatesConfirmed, LeaseRow
<1>3. /\ lease[l].exp \in Nat /\ lease[l].exp <= prov[l].exp
  BY DEF TypeInv, TypeOK, DatesConfirmed, ExpiryNeverAhead, LeaseRow
<1>4. Idle.snap[l].exp = 0
  BY DEF Idle, FirstRow
<1>5. QED
  BY <1>1, <1>2, <1>3, <1>4, SnapStep

LEMMA OwnedRow ==
  ASSUME TypeInv, DatesConfirmed, [Next]_vars,
         NEW p \in Source, run'[p].pc \in Holding
  PROVE  Key(ops'[run'[p].op]) = <<run'[p].cur, Seen(p)'.gen, Seen(p)'.exp>>
<1>1. CASE OpCreate(p)
  <2>1. /\ lastOp + 1 \in OpId /\ run'[p].op = lastOp + 1
        /\ run'[p].cur = run[p].cur /\ run'[p].snap = run[p].snap
    BY <1>1 DEF OpCreate, TypeInv, TypeOK, Run
  <2>2. ops'[lastOp + 1] = NewRow(p)
    BY <1>1, <2>1 DEF OpCreate, TypeInv, TypeOK
  <2>3. QED
    BY <2>1, <2>2 DEF NewRow, Key, Seen
<1>2. CASE ~OpCreate(p)
  <2>1. OwnerKept(p)
    BY <1>2, OwnerStep
  <2>2. Key(ops[run[p].op]) = <<run[p].cur, Seen(p).gen, Seen(p).exp>>
    BY <2>1 DEF OwnerKept, DatesConfirmed
  <2>3. run[p].op \in 1 .. lastOp /\ lastOp \in 0 .. MaxOps /\ ops \in [OpId -> OpRow]
    BY <2>1 DEF OwnerKept, TypeInv, TypeOK, LocalsOK
  <2>4. Key(ops'[run[p].op]) = Key(ops[run[p].op])
    <3>1. ASSUME NEW q \in Source, OpCreate(q)
          PROVE  ops'[run[p].op] = ops[run[p].op]
      BY <3>1, <2>3 DEF OpCreate
    <3>2. run[p].op \in OpId
      BY <2>3
    <3>3. QED
      BY <3>1, <3>2, RowsStep DEF RowKept, Key
  <2>5. QED
    BY <2>1, <2>2, <2>4 DEF OwnerKept, Seen
<1>3. QED
  BY <1>1, <1>2

LEMMA ConfirmedDate ==
  ASSUME TypeInv, DatesConfirmed, [Next]_vars,
         NEW p \in Source, run'[p].pc \in Confirmed
  PROVE  /\ Seen(p)'.exp < run'[p].conf.exp
         /\ run'[p].conf.exp <= prov'[run'[p].cur].exp
<1>1. run'[p].cur \in Lease
  BY TypeStep DEF TypeInv, LocalsOK, Confirmed, Working, Holding
<1>2. CASE MakeConfirms(p)
  <2>1. /\ run'[p].conf.exp = prov[run[p].cur].exp
        /\ run'[p].cur = run[p].cur /\ run'[p].snap = run[p].snap
    BY <1>2 DEF MakeConfirms, TypeInv, TypeOK, Run
  <2>2. Seen(p).exp < prov[run[p].cur].exp /\ prov' = prov
    BY <1>2, <1>1, <2>1, ProvMonotone, RunTypes
    DEF MakeConfirms, provider, TypeInv, TypeOK, LeaseRow, Seen
  <2>3. prov[run[p].cur].exp \in Nat
    BY <1>1, <2>1, ProvMonotone
  <2>4. QED
    BY <2>1, <2>2, <2>3 DEF Seen
<1>3. CASE VerifyConfirms(p)
  <2>1. /\ run'[p].conf.exp = prov[run[p].cur].exp
        /\ run'[p].cur = run[p].cur /\ run'[p].snap = run[p].snap
    BY <1>3 DEF VerifyConfirms, TypeInv, TypeOK, Run
  <2>2. Seen(p).exp < prov[run[p].cur].exp /\ prov' = prov
    BY <1>3, <1>1, <2>1, ProvMonotone, RunTypes
    DEF VerifyConfirms, provider, TypeInv, TypeOK, LeaseRow, Seen
  <2>3. prov[run[p].cur].exp \in Nat
    BY <1>1, <2>1, ProvMonotone
  <2>4. QED
    BY <2>1, <2>2, <2>3 DEF Seen
<1>4. CASE run[p].pc \in Confirmed /\ run'[p].conf = run[p].conf
  <2>1. run'[p].cur = run[p].cur /\ run'[p].snap = run[p].snap
    BY <1>4, OwnerStep DEF OwnerKept, OpCreate, At, Confirmed, Holding
  <2>2. /\ Seen(p).exp < run[p].conf.exp
        /\ run[p].conf.exp <= prov[run[p].cur].exp
    BY <1>4 DEF DatesConfirmed, Confirmed
  <2>3. /\ prov[run[p].cur].exp \in Nat /\ prov'[run[p].cur].exp \in Nat
        /\ prov[run[p].cur].exp <= prov'[run[p].cur].exp
    BY <1>1, <2>1, ProvMonotone
  <2>4. run[p].conf.exp \in Nat
    BY RunTypes DEF TypeInv, LeaseRow
  <2>5. QED
    BY <1>4, <2>1, <2>2, <2>3, <2>4 DEF Seen
<1>5. QED
  BY <1>2, <1>3, <1>4, ConfStep

LEMMA AdvanceTo ==
  ASSUME TypeOK, NEW j, NEW from, NEW to, Advance(j, from, to),
         NEW i \in OpId, ops'[i].status # ops[i].status
  PROVE  i = j /\ ops'[i].status = to
<1>1. ops' = [ops EXCEPT ![j].status = to]
  BY DEF Advance
<1>2. i = j
  BY <1>1 DEF TypeOK
<1>3. QED
  BY <1>1, <1>2 DEF TypeOK, OpRow

\* An op becomes 'success' in two places only.
LEMMA BecomesSuccess ==
  ASSUME TypeInv, [Next]_vars, NEW i \in OpId,
         ops[i].status # "success", ops'[i].status = "success"
  PROVE  \/ \E p \in Source : run[p].pc = "succeed" /\ run[p].op = i
         \/ ReconcileSuccess(i)
<1> USE DEF rows
<1>1. TypeOK /\ ops' # ops
  BY DEF TypeInv
<1>2. ASSUME NEW p \in Source, Execute(p)
      PROVE  run[p].pc = "succeed" /\ run[p].op = i
  <2>1. CASE AdvanceOp(p)
    BY <1>1, <2>1, AdvanceTo DEF AdvanceOp, At
  <2>2. ASSUME OpCreate(p)
        PROVE  FALSE
    <3>1. ops'[i] \in {ops[i], NewRow(p)}
      BY <1>1, <2>2 DEF OpCreate, TypeOK
    <3>2. QED
      BY <3>1 DEF NewRow
  <2>3. ~MarkSpendStarted(p)
    BY <1>1, AdvanceTo DEF MarkSpendStarted
  <2>4. ~ReleaseReservation(p)
    BY <1>1, AdvanceTo DEF ReleaseReservation, DeletePending
  <2>5. QED
    BY <1>1, <1>2, <2>1, <2>2, <2>3, <2>4
    DEF Execute, PickLease, PreSpendReturn, OpCreateRejected,
        ClassifyRejection, ReportBlocked, ProlongMake, MakeConfirms,
        MakeInconclusive, VerifyConfirms, VerifyGivesUp, UpdateIdentity,
        WriteExpiry, ExecutorRaises
<1>3. CASE Reconcile
  <2>1. ASSUME NEW j \in OpId,
               ReconcileRelease(j) \/ ReconcileFailed(j) \/ ReconcileSuccess(j)
        PROVE  ReconcileSuccess(i)
    <3>1. ~ReconcileRelease(j)
      BY <1>1, AdvanceTo DEF ReconcileRelease, DeletePending
    <3>2. ~ReconcileFailed(j)
      BY <1>1, AdvanceTo DEF ReconcileFailed
    <3>3. ReconcileSuccess(j) => i = j
      BY <1>1, AdvanceTo DEF ReconcileSuccess
    <3>4. QED
      BY <2>1, <3>1, <3>2, <3>3
  <2>2. QED
    BY <1>1, <1>3, <2>1
    DEF Reconcile, ReconcilePending, ReconcileMakePending, ReconcileList,
        ReconcileListFails, ReconcileWriteLease, ReconcileDone
<1>4. ~Provider /\ ~Sync /\ ~Crash /\ vars' # vars
  BY <1>1
  DEF Provider, ProviderApplies, ProviderRefuses, Sync, SyncList, SyncUpsert,
      Crash, vars
<1>5. \A p \in Source : ~TickStart(p)
  BY <1>1 DEF TickStart
<1>6. QED
  BY <1>2, <1>3, <1>4, <1>5 DEF Next

LEMMA SuccessConfirmed ==
  ASSUME TypeInv, RowsOK, DatesConfirmed, [Next]_vars,
         NEW i \in OpId, ops'[i].status = "success"
  PROVE  prov'[ops'[i].lease].exp > ops'[i].before
<1> DEFINE l == ops[i].lease
<1>1. RowKept(i)
  <2>1. ASSUME NEW p \in Source, OpCreate(p)
        PROVE  ops'[i] = ops[i]
    BY <2>1 DEF OpCreate, NewRow, TypeInv, TypeOK
  <2>2. QED
    BY <2>1, RowsStep DEF RowKept
<1>2. /\ ops[i].status # "none"
      /\ ops'[i].lease = l /\ ops'[i].before = ops[i].before
  BY <1>1 DEF RowKept, Swap, Key
<1>3. l \in Lease /\ ops[i].before \in Nat
  BY <1>2 DEF RowsOK, TypeInv, TypeOK, OpRow
<1>4. prov[l].exp > ops[i].before
  <2>1. CASE ops[i].status = "success"
    BY <2>1 DEF DatesConfirmed, SuccessIsReal
  <2>2. ASSUME NEW p \in Source, run[p].pc = "succeed", run[p].op = i
        PROVE  prov[l].exp > ops[i].before
    <3>1. l = run[p].cur /\ ops[i].before = Seen(p).exp
      BY <2>2 DEF DatesConfirmed, Holding, Key
    <3>2. /\ Seen(p).exp < run[p].conf.exp
          /\ run[p].conf.exp <= prov[run[p].cur].exp
      BY <2>2 DEF DatesConfirmed
    <3>3. run[p].conf.exp \in Nat /\ prov[l].exp \in Nat
      BY <1>3, RunTypes, ProvMonotone DEF TypeInv, LeaseRow
    <3>4. QED
      BY <1>3, <3>1, <3>2, <3>3
  <2>3. CASE ReconcileSuccess(i)
    <3>1. PICK e \in rcSeen : e.lease = l /\ e.exp > ops[i].before
      BY <2>3 DEF ReconcileSuccess, Newer
    <3>2. e.exp <= prov[l].exp
      BY <3>1 DEF DatesConfirmed
    <3>3. e.exp \in Nat /\ prov[l].exp \in Nat
      BY <1>3, ProvMonotone DEF TypeInv, TypeOK, Entry
    <3>4. QED
      BY <1>3, <3>1, <3>2, <3>3
  <2>4. QED
    BY <2>1, <2>2, <2>3, BecomesSuccess
<1>5. /\ prov[l].exp \in Nat /\ prov'[l].exp \in Nat
      /\ prov[l].exp <= prov'[l].exp
  BY <1>3, ProvMonotone
<1>6. QED
  BY <1>2, <1>3, <1>4, <1>5

LEMMA DatesInit == Init => RowsOK /\ DatesConfirmed
BY DEF Init, RowsOK, DatesConfirmed, ExpiryNeverAhead, SuccessIsReal, NoRow,
   FirstRow, Idle, Holding

LEMMA DatesStep ==
  TypeInv /\ RowsOK /\ DatesConfirmed /\ [Next]_vars => DatesConfirmed'
<1> SUFFICES ASSUME TypeInv, RowsOK, DatesConfirmed, [Next]_vars
             PROVE  DatesConfirmed'
  OBVIOUS
<1>1. ExpiryNeverAhead'
  <2>1. ASSUME NEW l \in Lease
        PROVE  lease'[l].exp <= prov'[l].exp
    <3>1. lease'[l].exp \in Nat
      BY TypeStep DEF TypeInv, TypeOK, LeaseRow
    <3>2. QED
      BY <3>1, LeaseStep, ProvMonotone
  <2>2. QED
    BY <2>1 DEF ExpiryNeverAhead
<1>2. SuccessIsReal'
  BY SuccessConfirmed DEF SuccessIsReal
<1>3. ASSUME NEW e \in rcSeen' \cup sySeen'
      PROVE  e.exp <= prov'[e.lease].exp
  <2>1. e \in rcSeen \cup sySeen \cup Listing
    BY <1>3, SeenStep
  <2>2. e \in Entry /\ e.lease \in Lease /\ e.exp \in Nat
    BY <2>1, ListingType DEF TypeInv, TypeOK, Entry
  <2>3. e.exp <= prov[e.lease].exp
    <3>1. CASE e \in Listing
      BY <2>2, <3>1 DEF Listing
    <3>2. CASE e \in rcSeen \cup sySeen
      BY <3>2 DEF DatesConfirmed
    <3>3. QED
      BY <2>1, <3>1, <3>2
  <2>4. QED
    BY <2>2, <2>3, ProvMonotone
<1>4. ASSUME NEW p \in Source
      PROVE  (/\ \A l \in Lease : run[p].snap[l].exp <= prov[l].exp
              /\ run[p].pc \in Holding =>
                   Key(ops[run[p].op]) = <<run[p].cur, Seen(p).gen, Seen(p).exp>>
              /\ run[p].pc \in {"identity", "write", "succeed"} =>
                   /\ Seen(p).exp < run[p].conf.exp
                   /\ run[p].conf.exp <= prov[run[p].cur].exp)'
  BY SnapConfirmed, OwnedRow, ConfirmedDate DEF Confirmed
<1>5. QED
  BY <1>1, <1>2, <1>3, <1>4 DEF DatesConfirmed

LEMMA DatesInvariant == Spec => [](TypeInv /\ RowsOK /\ DatesConfirmed)
<1>1. Init => TypeInv /\ RowsOK /\ DatesConfirmed
  BY TypeInit, DatesInit
<1>2. TypeInv /\ RowsOK /\ DatesConfirmed /\ [Next]_vars
        => (TypeInv /\ RowsOK /\ DatesConfirmed)'
  BY TypeStep, RowsOKStep, DatesStep
<1>3. QED
  BY <1>1, <1>2, PTL DEF Spec

\* The pool never shows a date the provider has not granted, whatever the age
\* of the list or of the snapshot a writer uses.
THEOREM PoolNeverAhead == Spec => []ExpiryNeverAhead
<1>1. DatesConfirmed => ExpiryNeverAhead
  BY DEF DatesConfirmed
<1>2. QED
  BY <1>1, DatesInvariant, PTL

\* An op is recorded as 'success' only if the provider extended the proxy
\* beyond the date the op started from.
THEOREM SuccessesAreReal == Spec => []SuccessIsReal
<1>1. DatesConfirmed => SuccessIsReal
  BY DEF DatesConfirmed
<1>2. QED
  BY <1>1, DatesInvariant, PTL

(***************************************************************************)
(* While the provider rotates no id, nothing is paid twice.                *)
(***************************************************************************)

\* Two spent rows for one lease and one date are one row.
LEMMA SameTarget ==
  ASSUME MaxGen = 0, TypeInv, KeyDiscipline, NEW i \in OpId, NEW j \in OpId,
         calls[i] # 0 \/ ops[i].status \in Burned,
         calls[j] # 0 \/ ops[j].status \in Burned,
         ops[i].lease = ops[j].lease, ops[i].before = ops[j].before
  PROVE  i = j
<1>1. ops[i].gen = 0 /\ ops[j].gen = 0
  BY DEF TypeInv, TypeOK, OpRow
<1>2. i \in Live /\ j \in Live
  BY DEF KeyDiscipline, Burned, Terminal, Live
<1>3. QED
  BY <1>1, <1>2 DEF KeyDiscipline, Key

\* A task about to pay pays for the period that is due.
LEMMA MakeIsDue ==
  ASSUME MaxGen = 0, TypeInv, KeyDiscipline, DatesConfirmed, PaymentsCovered,
         NEW p \in Source, run[p].pc = "make"
  PROVE  prov[run[p].cur].exp = Seen(p).exp
<1> DEFINE l == run[p].cur
           n == run[p].op
           e == Seen(p).exp
<1>1. l \in Lease /\ n \in OpId
  BY DEF TypeInv, TypeOK, LocalsOK, Working, Holding
<1>2. e \in Date /\ e <= prov[l].exp /\ prov[l].exp \in Nat
  BY <1>1, RunTypes DEF TypeInv, TypeOK, LeaseRow, Seen, DatesConfirmed
<1>3. ops[n].lease = l /\ ops[n].before = e
  BY DEF DatesConfirmed, Holding, Key
<1>4. ops[n].status \in Burned /\ calls[n] = 0
  BY DEF KeyDiscipline
<1>5. ASSUME e < prov[l].exp
      PROVE  FALSE
  <2>1. PICK i \in OpId : /\ req[i] = "applied"
                          /\ <<ops[i].lease, ops[i].before>> = <<l, e>>
    BY <1>1, <1>2, <1>5 DEF PaymentsCovered
  <2>2. calls[i] # 0
    BY <2>1 DEF PaymentsCovered
  <2>3. i = n
    BY <1>1, <1>3, <1>4, <2>1, <2>2, SameTarget
  <2>4. QED
    BY <1>4, <2>2, <2>3
<1>6. QED
  BY <1>2, <1>5

\* A row whose call was issued keeps its lease and its date.
LEMMA PaidRowKept ==
  ASSUME TypeInv, KeyDiscipline, [Next]_vars, NEW i \in OpId, calls[i] # 0
  PROVE  ops'[i].lease = ops[i].lease /\ ops'[i].before = ops[i].before
<1>1. ASSUME NEW p \in Source, OpCreate(p)
      PROVE  ops'[i] = ops[i]
  <2>1. i # lastOp + 1
    BY DEF KeyDiscipline, TypeInv, TypeOK
  <2>2. QED
    BY <1>1, <2>1 DEF OpCreate, TypeInv, TypeOK
<1>2. QED
  BY <1>1, RowsStep DEF RowKept, Key

LEMMA PaymentsInit == Init => PaymentsCovered
BY DEF Init, PaymentsCovered, FirstRow

LEMMA PaymentsApply ==
  ASSUME MaxGen = 0, TypeInv, KeyDiscipline, PaymentsCovered,
         NEW i \in OpId, ProviderApplies(i)
  PROVE  PaymentsCovered'
<1> DEFINE l == ops[i].lease
<1>1. /\ ops' = ops /\ calls' = calls /\ req[i] = "sent"
      /\ req' = [req EXCEPT ![i] = "applied"]
  BY DEF ProviderApplies, rows
<1>2. /\ req'[i] = "applied" /\ calls[i] # 0
      /\ \A j \in OpId : j # i => req'[j] = req[j]
  BY <1>1 DEF PaymentsCovered, TypeInv, TypeOK
<1>3. /\ \A k \in Lease : prov[k].exp \in Nat
      /\ \A k \in Lease : prov'[k].exp = prov[k].exp + (IF k = l THEN 1 ELSE 0)
  BY AppliesEffect DEF TypeInv, TypeOK, LeaseRow
<1>4. prov[l].exp = ops[i].before
  BY <1>1 DEF PaymentsCovered
<1>5. ASSUME NEW j \in OpId, req'[j] = "sent"
      PROVE  prov'[ops'[j].lease].exp = ops'[j].before
  <2>1. j # i /\ req[j] = "sent" /\ calls[j] # 0
    BY <1>2, <1>5 DEF PaymentsCovered
  <2>2. prov[ops[j].lease].exp = ops[j].before
    BY <2>1 DEF PaymentsCovered
  <2>3. ops[j].lease # l
    BY <1>2, <1>4, <2>1, <2>2, SameTarget
  <2>4. prov'[ops[j].lease] = prov[ops[j].lease]
    BY <2>3 DEF ProviderApplies
  <2>5. QED
    BY <1>1, <2>2, <2>4
<1>6. ASSUME NEW k \in Lease, NEW e \in Date, e < prov'[k].exp
      PROVE  \E j \in OpId : /\ req'[j] = "applied"
                             /\ <<ops'[j].lease, ops'[j].before>> = <<k, e>>
  <2>1. CASE e < prov[k].exp
    <3>1. PICK j \in OpId : /\ req[j] = "applied"
                            /\ <<ops[j].lease, ops[j].before>> = <<k, e>>
      BY <2>1 DEF PaymentsCovered
    <3>2. QED
      BY <1>1, <1>2, <3>1
  <2>2. CASE k = l /\ e = prov[k].exp
    BY <1>1, <1>2, <1>4, <2>2
  <2>3. QED
    BY <1>3, <1>6, <2>1, <2>2
<1>7. \A j \in OpId : req'[j] = "none" <=> calls'[j] = 0
  BY <1>1, <1>2 DEF PaymentsCovered
<1>8. QED
  BY <1>5, <1>6, <1>7 DEF PaymentsCovered

LEMMA PaymentsMake ==
  ASSUME MaxGen = 0, TypeInv, KeyDiscipline, DatesConfirmed, PaymentsCovered,
         NEW p \in Source, ProlongMake(p)
  PROVE  PaymentsCovered'
<1> DEFINE n == run[p].op
<1>1. /\ ops' = ops /\ prov' = prov /\ run[p].pc = "make"
      /\ calls' = [calls EXCEPT ![n] = @ + 1]
      /\ req' = [req EXCEPT ![n] = "sent"]
  BY DEF ProlongMake, rows, At
<1>2. n \in OpId /\ calls[n] = 0
  BY <1>1 DEF KeyDiscipline, TypeInv, TypeOK, LocalsOK, Holding
<1>3. /\ req'[n] = "sent" /\ calls'[n] = 1 /\ req[n] = "none"
      /\ \A j \in OpId : j # n => req'[j] = req[j] /\ calls'[j] = calls[j]
  BY <1>1, <1>2 DEF PaymentsCovered, TypeInv, TypeOK
<1>4. prov[ops[n].lease].exp = ops[n].before
  BY <1>1, MakeIsDue DEF DatesConfirmed, Holding, Key
<1>5. \A j \in OpId : req'[j] = "sent" => prov'[ops'[j].lease].exp = ops'[j].before
  BY <1>1, <1>3, <1>4 DEF PaymentsCovered
<1>6. ASSUME NEW k \in Lease, NEW e \in Date, e < prov'[k].exp
      PROVE  \E j \in OpId : /\ req'[j] = "applied"
                             /\ <<ops'[j].lease, ops'[j].before>> = <<k, e>>
  <2>1. PICK j \in OpId : /\ req[j] = "applied"
                          /\ <<ops[j].lease, ops[j].before>> = <<k, e>>
    BY <1>1, <1>6 DEF PaymentsCovered
  <2>2. QED
    BY <1>1, <1>3, <2>1
<1>7. \A j \in OpId : req'[j] = "none" <=> calls'[j] = 0
  BY <1>3 DEF PaymentsCovered
<1>8. QED
  BY <1>5, <1>6, <1>7 DEF PaymentsCovered

LEMMA PaymentsOther ==
  ASSUME TypeInv, KeyDiscipline, PaymentsCovered, [Next]_vars,
         prov' = prov, calls' = calls,
         \A i \in OpId : \/ req'[i] = req[i]
                         \/ req[i] = "sent" /\ req'[i] = "refused"
  PROVE  PaymentsCovered'
<1>1. \A i \in OpId : req[i] # "none" =>
        ops'[i].lease = ops[i].lease /\ ops'[i].before = ops[i].before
  BY PaidRowKept DEF PaymentsCovered
<1>2. \A i \in OpId : req'[i] = "none" <=> calls'[i] = 0
  BY DEF PaymentsCovered
<1>3. \A i \in OpId : req'[i] = "sent" => prov'[ops'[i].lease].exp = ops'[i].before
  BY <1>1 DEF PaymentsCovered
<1>4. ASSUME NEW l \in Lease, NEW e \in Date, e < prov'[l].exp
      PROVE  \E i \in OpId : /\ req'[i] = "applied"
                             /\ <<ops'[i].lease, ops'[i].before>> = <<l, e>>
  <2>1. PICK i \in OpId : /\ req[i] = "applied"
                          /\ <<ops[i].lease, ops[i].before>> = <<l, e>>
    BY <1>4 DEF PaymentsCovered
  <2>2. QED
    BY <1>1, <2>1
<1>5. QED
  BY <1>2, <1>3, <1>4 DEF PaymentsCovered

LEMMA PaymentsStep ==
  ASSUME MaxGen = 0, TypeInv, KeyDiscipline, DatesConfirmed, PaymentsCovered,
         [Next]_vars
  PROVE  PaymentsCovered'
<1>1. CASE \E i \in OpId : ProviderApplies(i)
  BY <1>1, PaymentsApply
<1>2. CASE \E p \in Source : ProlongMake(p)
  BY <1>2, PaymentsMake
<1>3. CASE (\E i \in OpId : ProviderRefuses(i)) /\ ~\E p \in Source : ProlongMake(p)
  <2>1. PICK i \in OpId : ProviderRefuses(i)
    BY <1>3
  <2>2. /\ \A j \in OpId : \/ req'[j] = req[j]
                           \/ req[j] = "sent" /\ req'[j] = "refused"
        /\ prov' = prov /\ calls' = calls
    BY <2>1 DEF ProviderRefuses, TypeInv, TypeOK
  <2>3. QED
    BY <2>2, PaymentsOther
<1>4. CASE prov' = prov /\ req' = req /\ ~\E p \in Source : ProlongMake(p)
  BY <1>4, CallsStep, PaymentsOther
<1>5. QED
  BY <1>1, <1>2, <1>3, <1>4, ProvStep

LEMMA PaymentsInvariant ==
  ASSUME MaxGen = 0
  PROVE  Spec => [](TypeInv /\ KeyDiscipline /\ RowsOK /\ DatesConfirmed
                      /\ PaymentsCovered)
<1> DEFINE IInv == TypeInv /\ KeyDiscipline /\ RowsOK /\ DatesConfirmed
                     /\ PaymentsCovered
<1>1. Init => IInv
  BY TypeInit, KeyInit, DatesInit, PaymentsInit
<1>2. IInv /\ [Next]_vars => IInv'
  BY TypeStep, KeyStep, RowsOKStep, DatesStep, PaymentsStep
<1> HIDE DEF IInv
<1>3. Spec => []IInv
  BY <1>1, <1>2, PTL DEF Spec
<1>4. QED
  BY <1>3 DEF IInv

\* While ids are stable, money leaves only for a period not yet extended: no
\* late answer, stale list, crash or concurrent tick makes the code pay for a
\* renewal the provider has already granted.
THEOREM PaymentsAreDue ==
  ASSUME MaxGen = 0
  PROVE  Spec => []SpendIsDue
<1>1. TypeInv /\ KeyDiscipline /\ RowsOK /\ DatesConfirmed /\ PaymentsCovered
        => SpendIsDue
  BY MakeIsDue DEF SpendIsDue, At
<1>2. QED
  BY <1>1, PaymentsInvariant, PTL

\* While ids are stable, a renewal cycle of a lease is paid at most once.
THEOREM OneSpendPerCycle ==
  ASSUME MaxGen = 0
  PROVE  Spec => []AtMostOneSpendPerCycle
<1>1. TypeInv /\ KeyDiscipline /\ RowsOK /\ DatesConfirmed /\ PaymentsCovered
        => AtMostOneSpendPerCycle
  <2> SUFFICES ASSUME TypeInv, KeyDiscipline, NEW i \in Spent, NEW j \in Spent,
                      <<ops[i].lease, ops[i].before>> = <<ops[j].lease, ops[j].before>>
               PROVE  i = j
    BY DEF AtMostOneSpendPerCycle
  <2>1. i \in OpId /\ j \in OpId /\ calls[i] # 0 /\ calls[j] # 0
    BY DEF Spent
  <2>2. QED
    BY <2>1, SameTarget
<1>2. QED
  BY <1>1, PaymentsInvariant, PTL

\* While ids are stable, the stale date of a period already extended keeps its
\* key: the pool may be behind, but nobody can spend on what it shows.
THEOREM StaleDatesBurned ==
  ASSUME MaxGen = 0
  PROVE  Spec => []StaleExpiryIsBurned
<1>1. TypeInv /\ KeyDiscipline /\ RowsOK /\ DatesConfirmed /\ PaymentsCovered
        => StaleExpiryIsBurned
  <2> SUFFICES ASSUME TypeInv, KeyDiscipline, PaymentsCovered,
                      NEW l \in Lease, lease[l].exp < prov[l].exp
               PROVE  \E i \in OpId :
                        /\ ops[i].status \in Burned
                        /\ Key(ops[i]) = <<l, lease[l].gen, lease[l].exp>>
    BY DEF StaleExpiryIsBurned
  <2>1. lease[l].exp \in Date /\ lease[l].gen = 0
    BY DEF TypeInv, TypeOK, LeaseRow
  <2>2. PICK i \in OpId : /\ req[i] = "applied"
                          /\ <<ops[i].lease, ops[i].before>> = <<l, lease[l].exp>>
    BY <2>1 DEF PaymentsCovered
  <2>3. ops[i].gen = 0 /\ ops[i].status \in Burned
    BY <2>2 DEF TypeInv, TypeOK, OpRow, PaymentsCovered, KeyDiscipline
  <2>4. QED
    BY <2>1, <2>2, <2>3 DEF Key
<1>2. QED
  BY <1>1, PaymentsInvariant, PTL

(***************************************************************************)
(* The renewals implement Billing while the provider rotates no id.        *)
(***************************************************************************)
PaidInv == TypeInv /\ KeyDiscipline /\ RowsOK /\ DatesConfirmed /\ PaymentsCovered

\* What the steps do that are no call, no answer and no insertion: one row of
\* the ledger advances, one lease is written, or nothing that Billing sees.
RowAdvanced ==
  \E j \in 0 .. MaxOps, s \in Swap : Advance(j, s[1], s[2])
LeaseWritten ==
  \E l \in Lease : \E row \in LeaseRow : lease' = [lease EXCEPT ![l] = row]
LedgerStep ==
  /\ UNCHANGED <<prov, req>>
  /\ \/ RowAdvanced /\ UNCHANGED lease
     \/ LeaseWritten /\ UNCHANGED ops
     \/ UNCHANGED <<ops, lease>>

LEMMA ExecuteKinds ==
  ASSUME TypeInv, NEW p \in Source, Execute(p)
  PROVE  ProlongMake(p) \/ OpCreate(p) \/ LedgerStep
<1> USE DEF rows, provider, LedgerStep
<1>1. /\ run[p].op \in 0 .. MaxOps /\ run[p].conf \in LeaseRow
      /\ lease \in [Lease -> LeaseRow]
      /\ run[p].pc \in Working => run[p].cur \in Lease
  BY RunTypes DEF TypeInv, TypeOK, LocalsOK
<1>2. CASE MarkSpendStarted(p)
  BY <1>1, <1>2 DEF MarkSpendStarted, RowAdvanced, Swap
<1>3. CASE ReleaseReservation(p)
  BY <1>1, <1>3 DEF ReleaseReservation, DeletePending, RowAdvanced, Swap
<1>4. CASE AdvanceOp(p)
  BY <1>1, <1>4 DEF AdvanceOp, RowAdvanced, Swap
<1>5. CASE UpdateIdentity(p)
  <2>1. run[p].cur \in Lease
    BY <1>1, <1>5 DEF UpdateIdentity, At, Working, Holding
  <2>2. [lease[run[p].cur] EXCEPT !.gen = run[p].conf.gen] \in LeaseRow
    BY <1>1, <2>1 DEF LeaseRow
  <2>3. QED
    BY <1>5, <2>1, <2>2 DEF UpdateIdentity, LeaseWritten
<1>6. CASE WriteExpiry(p)
  <2>1. run[p].cur \in Lease
    BY <1>1, <1>6 DEF WriteExpiry, At, Working, Holding
  <2>2. [lease[run[p].cur] EXCEPT !.exp = run[p].conf.exp] \in LeaseRow
    BY <1>1, <2>1 DEF LeaseRow
  <2>3. QED
    BY <1>6, <2>1, <2>2 DEF WriteExpiry, LeaseWritten
<1>7. CASE UNCHANGED <<prov, req, ops, lease>>
  BY <1>7
<1>8. QED
  BY <1>2, <1>3, <1>4, <1>5, <1>6, <1>7
  DEF Execute, PickLease, PreSpendReturn, OpCreateRejected, ClassifyRejection,
      ReportBlocked, MakeConfirms, MakeInconclusive, VerifyConfirms,
      VerifyGivesUp, ExecutorRaises

LEMMA BackgroundKinds ==
  ASSUME TypeInv, Reconcile \/ Sync
  PROVE  LedgerStep
<1> USE DEF rows, provider, LedgerStep
<1>1. /\ lease \in [Lease -> LeaseRow]
      /\ \A e \in rcSeen \cup sySeen : e.lease \in Lease /\ e.exp \in Date
  BY DEF TypeInv, TypeOK, Entry
<1>2. ASSUME NEW i \in OpId,
             ReconcileRelease(i) \/ ReconcileFailed(i) \/ ReconcileSuccess(i)
      PROVE  LedgerStep
  BY <1>2
  DEF ReconcileRelease, ReconcileFailed, ReconcileSuccess, DeletePending,
      RowAdvanced, Swap
<1>3. ASSUME NEW e \in rcSeen \cup sySeen
      PROVE  lease' = [lease EXCEPT ![e.lease].exp = e.exp] => LeaseWritten
  <2>1. [lease[e.lease] EXCEPT !.exp = e.exp] \in LeaseRow
    BY <1>1 DEF LeaseRow
  <2>2. QED
    BY <1>1, <2>1 DEF LeaseWritten
<1>4. CASE ReconcileWriteLease
  BY <1>3, <1>4 DEF ReconcileWriteLease, Newer
<1>5. ASSUME NEW l \in Lease, SyncUpsert(l)
      PROVE  LedgerStep
  BY <1>3, <1>5 DEF SyncUpsert
<1>6. CASE UNCHANGED <<prov, req, ops, lease>>
  BY <1>6
<1>7. QED
  BY <1>2, <1>4, <1>5, <1>6
  DEF Reconcile, ReconcilePending, ReconcileMakePending, ReconcileList,
      ReconcileListFails, ReconcileDone, Sync, SyncList

\* Every step is a call, an answer, an insertion or a step of the ledger.
LEMMA StepKinds ==
  ASSUME TypeInv, [Next]_vars
  PROVE  \/ \E p \in Source : ProlongMake(p) \/ OpCreate(p)
         \/ \E i \in OpId : ProviderApplies(i) \/ ProviderRefuses(i)
         \/ LedgerStep
<1>1. ASSUME NEW p \in Source, TickStart(p)
      PROVE  LedgerStep
  BY <1>1 DEF TickStart, rows, provider, LedgerStep
<1>2. CASE Crash \/ UNCHANGED vars
  BY <1>2 DEF Crash, vars, rows, provider, LedgerStep
<1>3. QED
  BY <1>1, <1>2, ExecuteKinds, BackgroundKinds DEF Next, Provider

\* A renewal row that holds its key is the only one of its cycle.
LEMMA OneRowPerCycle ==
  ASSUME MaxGen = 0, PaidInv, NEW i \in OpId, NEW j \in OpId,
         req[i] # "none" \/ ops[i].status \in Burned,
         req[j] # "none" \/ ops[j].status \in Burned,
         Cycle(i) = Cycle(j)
  PROVE  i = j
BY SameTarget DEF PaidInv, Cycle, PaymentsCovered

LEMMA BillingInit == Init => Bill!Init
<1> SUFFICES ASSUME Init PROVE Bill!Init
  OBVIOUS
<1>1. \A i \in OpId : req[i] = "none" /\ ops[i].status = "none"
  BY DEF Init, NoRow
<1>2. InRequest("sent") = {} /\ InRequest("refused") = {}
  BY <1>1 DEF InRequest
<1>3. InStatus("success") = {} /\ InStatus("failed") = {}
  BY <1>1 DEF InStatus
<1>4. Granted = [l \in Lease |-> 0] /\ Shown = [l \in Lease |-> 0]
  BY DEF Init, Granted, Shown, FirstRow
<1>5. QED
  BY <1>2, <1>3, <1>4 DEF Bill!Init

\* The request of one op changes: so does the set of its cycle alone.
LEMMA RequestMoves ==
  ASSUME MaxGen = 0, PaidInv, ops' = ops, NEW i \in OpId,
         req[i] # "none" \/ ops[i].status \in Burned,
         NEW to, req' = [req EXCEPT ![i] = to], NEW s, s # "none"
  PROVE  InRequest(s)' = IF to = s THEN InRequest(s) \cup {Cycle(i)}
                                   ELSE InRequest(s) \ {Cycle(i)}
<1>1. /\ \A j \in OpId : Cycle(j)' = Cycle(j)
      /\ req'[i] = to /\ \A j \in OpId : j # i => req'[j] = req[j]
  BY DEF Cycle, PaidInv, TypeInv, TypeOK
<1>2. ASSUME NEW c
      PROVE  /\ c \in InRequest(s) <=> \E j \in OpId : req[j] = s /\ c = Cycle(j)
             /\ c \in InRequest(s)' <=> \E j \in OpId : req'[j] = s /\ c = Cycle(j)
  BY <1>1 DEF InRequest
<1>3. ASSUME NEW j \in OpId, req[j] = s, Cycle(j) = Cycle(i)
      PROVE  j = i
  BY <1>3, OneRowPerCycle
<1>4. CASE to = s
  BY <1>1, <1>2, <1>4
<1>5. CASE to # s
  BY <1>1, <1>2, <1>3, <1>5
<1>6. QED
  BY <1>4, <1>5

LEMMA BillingOrder ==
  ASSUME MaxGen = 0, PaidInv, NEW p \in Source, ProlongMake(p)
  PROVE  Bill!Next
<1> DEFINE n == run[p].op
           l == run[p].cur
<1>1. /\ lease' = lease /\ ops' = ops /\ prov' = prov /\ run[p].pc = "make"
      /\ req' = [req EXCEPT ![n] = "sent"]
  BY DEF ProlongMake, rows, At
<1>2. /\ n \in OpId /\ l \in Lease /\ ops[n].status \in Burned
      /\ req[n] = "none" /\ Cycle(n) = <<l, prov[l].exp>>
  BY <1>1, MakeIsDue
  DEF PaidInv, KeyDiscipline, TypeInv, TypeOK, LocalsOK, Holding, Working,
      PaymentsCovered, DatesConfirmed, Key, Cycle
<1>3. Bill!Due(l) = Cycle(n)
  BY <1>2 DEF Bill!Due, Granted
<1>4. ASSUME NEW s \in {"sent", "refused"}
      PROVE  Cycle(n) \notin InRequest(s)
  <2>1. ASSUME NEW j \in OpId, req[j] = s, Cycle(j) = Cycle(n)
        PROVE  FALSE
    <3>1. j = n
      BY <1>2, <2>1, OneRowPerCycle
    <3>2. QED
      BY <1>2, <2>1, <3>1
  <2>2. QED
    BY <2>1 DEF InRequest
<1> HIDE DEF n
<1>5. /\ InRequest("sent")' = InRequest("sent") \cup {Cycle(n)}
      /\ InRequest("refused")' = InRequest("refused")
  <2>1. InRequest("refused")' = InRequest("refused") \ {Cycle(n)}
    BY <1>1, <1>2, RequestMoves
  <2>2. InRequest("sent")' = InRequest("sent") \cup {Cycle(n)}
    BY <1>1, <1>2, RequestMoves
  <2>3. QED
    BY <1>4, <2>1, <2>2
<1>6. UNCHANGED <<Granted, Shown, InStatus("success"), InStatus("failed")>>
  BY <1>1 DEF Granted, Shown, InStatus, Cycle
<1>7. Bill!Order(l)
  BY <1>3, <1>4, <1>5, <1>6 DEF Bill!Order
<1>8. QED
  BY <1>2, <1>7 DEF Bill!Next

LEMMA BillingGrant ==
  ASSUME MaxGen = 0, PaidInv, NEW i \in OpId, ProviderApplies(i)
  PROVE  Bill!Next
<1> DEFINE l == ops[i].lease
<1>1. /\ lease' = lease /\ ops' = ops /\ req[i] = "sent"
      /\ req' = [req EXCEPT ![i] = "applied"]
  BY DEF ProviderApplies, rows
<1>2. l \in Lease
  BY <1>1 DEF PaidInv, PaymentsCovered, KeyDiscipline, RowsOK, Burned, Terminal
<1>3. Bill!Due(l) = Cycle(i)
  BY <1>1, <1>2 DEF Bill!Due, Granted, Cycle, PaidInv, PaymentsCovered
<1>4. Cycle(i) \in InRequest("sent")
  BY <1>1 DEF InRequest
<1>5. Cycle(i) \notin InRequest("refused")
  <2>1. ASSUME NEW j \in OpId, req[j] = "refused", Cycle(j) = Cycle(i)
        PROVE  FALSE
    <3>1. j = i
      BY <1>1, <2>1, OneRowPerCycle
    <3>2. QED
      BY <1>1, <2>1, <3>1
  <2>2. QED
    BY <2>1 DEF InRequest
<1>6. /\ InRequest("sent")' = InRequest("sent") \ {Cycle(i)}
      /\ InRequest("refused")' = InRequest("refused")
  <2>1. InRequest("refused")' = InRequest("refused") \ {Cycle(i)}
    BY <1>1, RequestMoves
  <2>2. InRequest("sent")' = InRequest("sent") \ {Cycle(i)}
    BY <1>1, RequestMoves
  <2>3. QED
    BY <1>5, <2>1, <2>2
<1>7. Granted' = [Granted EXCEPT ![l] = @ + 1]
  <2>1. \A k \in Lease : prov'[k].exp = IF k = l THEN prov[k].exp + 1 ELSE prov[k].exp
    BY AppliesEffect DEF PaidInv, TypeInv, TypeOK, LeaseRow
  <2>2. QED
    BY <2>1 DEF Granted
<1>8. UNCHANGED <<Shown, InStatus("success"), InStatus("failed")>>
  BY <1>1 DEF Shown, InStatus, Cycle
<1>9. Bill!Grant(l)
  BY <1>3, <1>4, <1>6, <1>7, <1>8 DEF Bill!Grant
<1>10. QED
  BY <1>2, <1>9 DEF Bill!Next

LEMMA CycleType ==
  ASSUME PaidInv, NEW i \in OpId, ops[i].status # "none"
  PROVE  Cycle(i) \in Lease \X Bill!Date
BY DEF PaidInv, RowsOK, TypeInv, TypeOK, OpRow, Cycle, Bill!Date

LEMMA BillingRefuse ==
  ASSUME MaxGen = 0, PaidInv, NEW i \in OpId, ProviderRefuses(i)
  PROVE  Bill!Next
<1>1. /\ lease' = lease /\ ops' = ops /\ prov' = prov /\ req[i] = "sent"
      /\ req' = [req EXCEPT ![i] = "refused"]
  BY DEF ProviderRefuses, rows
<1>2. Cycle(i) \in Lease \X Bill!Date
  BY <1>1, CycleType DEF PaidInv, PaymentsCovered, KeyDiscipline, Burned, Terminal
<1>3. Cycle(i) \in InRequest("sent")
  BY <1>1 DEF InRequest
<1>4. /\ InRequest("sent")' = InRequest("sent") \ {Cycle(i)}
      /\ InRequest("refused")' = InRequest("refused") \cup {Cycle(i)}
  BY <1>1, RequestMoves
<1>5. UNCHANGED <<Granted, Shown, InStatus("success"), InStatus("failed")>>
  BY <1>1 DEF Granted, Shown, InStatus, Cycle
<1>6. Bill!Refuse(Cycle(i))
  BY <1>3, <1>4, <1>5 DEF Bill!Refuse
<1>7. QED
  BY <1>2, <1>6 DEF Bill!Next

\* An insertion changes nothing Billing sees.
LEMMA BillingInsert ==
  ASSUME PaidInv, NEW p \in Source, OpCreate(p)
  PROVE  UNCHANGED Bill!bill
<1> DEFINE n == lastOp + 1
<1>1. /\ UNCHANGED <<lease, prov, req>> /\ n \in OpId
      /\ ops'[n].status = "pending"
      /\ \A i \in OpId : i # n => ops'[i] = ops[i]
  BY DEF OpCreate, NewRow, provider, PaidInv, TypeInv, TypeOK
<1>2. req[n] = "none" /\ ops[n].status = "none"
  BY <1>1 DEF PaidInv, KeyDiscipline, PaymentsCovered, TypeInv, TypeOK
<1>3. UNCHANGED <<Granted, Shown>>
  BY <1>1 DEF Granted, Shown
<1>4. ASSUME NEW s \in {"sent", "refused"}
      PROVE  InRequest(s)' = InRequest(s)
  BY <1>1, <1>2 DEF InRequest, Cycle
<1>5. ASSUME NEW s \in {"success", "failed"}
      PROVE  InStatus(s)' = InStatus(s)
  BY <1>1, <1>2 DEF InStatus, Cycle
<1>6. QED
  BY <1>3, <1>4, <1>5 DEF Bill!bill, Bill!money

LEMMA BillingAdvance ==
  ASSUME MaxGen = 0, PaidInv, [Next]_vars, UNCHANGED <<prov, req, lease>>,
         RowAdvanced
  PROVE  [Bill!Next]_Bill!bill
<1>1. PICK j \in 0 .. MaxOps, s \in Swap : Advance(j, s[1], s[2])
  BY DEF RowAdvanced
<1>2. UNCHANGED <<Granted, Shown>>
  BY DEF Granted, Shown
<1>3. ASSUME ops' = ops
      PROVE  UNCHANGED Bill!bill
  BY <1>2, <1>3 DEF InRequest, InStatus, Cycle, Bill!bill, Bill!money
<1>4. ASSUME ops' # ops
      PROVE  Bill!Next \/ UNCHANGED Bill!bill
  <2>1. /\ ops[j].status = s[1] /\ ops' = [ops EXCEPT ![j].status = s[2]]
        /\ j \in OpId
    BY <1>1, <1>4 DEF Advance, PaidInv, TypeInv, TypeOK
  <2>2. /\ \A i \in OpId : Cycle(i)' = Cycle(i)
        /\ ops'[j].status = s[2]
        /\ \A i \in OpId : i # j => ops'[i] = ops[i]
    BY <2>1 DEF Cycle, PaidInv, TypeInv, TypeOK, OpRow
  <2>3. ASSUME NEW t
        PROVE  InRequest(t)' = InRequest(t)
    BY <2>2 DEF InRequest
  <2>4. ASSUME NEW t, t # s[1]
        PROVE  InStatus(t)' = IF s[2] = t THEN InStatus(t) \cup {Cycle(j)}
                                          ELSE InStatus(t)
    BY <2>1, <2>2, <2>4 DEF InStatus
  <2>5. Cycle(j) \in Lease \X Bill!Date
    BY <2>1, CycleType DEF Swap
  <2>6. ASSUME NEW t \in Burned, t # s[1], s[1] = "make_pending"
        PROVE  Cycle(j) \notin InStatus(t)
    <3>1. ASSUME NEW i \in OpId, ops[i].status = t, Cycle(i) = Cycle(j)
          PROVE  FALSE
      <4>1. i = j
        BY <2>1, <2>6, <3>1, OneRowPerCycle DEF Burned
      <4>2. QED
        BY <2>1, <2>6, <3>1, <4>1
    <3>2. QED
      BY <3>1 DEF InStatus
  <2>7. CASE s[2] = "success"
    <3>1. s[1] = "make_pending"
      BY <2>7 DEF Swap
    <3>2. /\ InStatus("success")' = InStatus("success") \cup {Cycle(j)}
          /\ InStatus("failed")' = InStatus("failed")
          /\ Cycle(j) \notin InStatus("failed")
      BY <2>4, <2>6, <2>7, <3>1 DEF Burned, Terminal
    <3>3. prov[ops[j].lease].exp > ops[j].before
      BY <2>1, <2>2, <2>7, SuccessConfirmed DEF PaidInv, Cycle
    <3>4. Cycle(j)[2] < Granted[Cycle(j)[1]]
      BY <2>1, <2>5, <3>3 DEF Cycle, Granted, PaidInv, TypeInv, TypeOK, LeaseRow, OpRow
    <3>5. Bill!Succeed(Cycle(j))
      BY <1>2, <2>3, <3>2, <3>4 DEF Bill!Succeed, Bill!money
    <3>6. QED
      BY <2>5, <3>5 DEF Bill!Next
  <2>8. CASE s[2] = "failed"
    <3>1. s[1] = "make_pending"
      BY <2>8 DEF Swap
    <3>2. /\ InStatus("failed")' = InStatus("failed") \cup {Cycle(j)}
          /\ InStatus("success")' = InStatus("success")
          /\ Cycle(j) \notin InStatus("success")
      BY <2>4, <2>6, <2>8, <3>1 DEF Burned, Terminal
    <3>3. Bill!Fail(Cycle(j))
      BY <1>2, <2>3, <3>2 DEF Bill!Fail, Bill!money
    <3>4. QED
      BY <2>5, <3>3 DEF Bill!Next
  <2>9. CASE s[2] \notin {"success", "failed"}
    <3>1. /\ InStatus("failed")' = InStatus("failed")
          /\ InStatus("success")' = InStatus("success")
      BY <2>4, <2>9 DEF Swap
    <3>2. QED
      BY <1>2, <2>3, <3>1 DEF Bill!bill, Bill!money
  <2>10. QED
    BY <2>7, <2>8, <2>9
<1>5. QED
  BY <1>3, <1>4

LEMMA BillingShow ==
  ASSUME PaidInv, [Next]_vars, UNCHANGED <<prov, req, ops>>, LeaseWritten
  PROVE  Bill!Next
<1>1. PICK l \in Lease : \E row \in LeaseRow : lease' = [lease EXCEPT ![l] = row]
  BY DEF LeaseWritten
<1>2. lease \in [Lease -> LeaseRow] /\ lease' \in [Lease -> LeaseRow]
  BY <1>1 DEF PaidInv, TypeInv, TypeOK
<1>3. Shown' = [Shown EXCEPT ![l] = lease'[l].exp]
  BY <1>1, <1>2 DEF Shown
<1>4. lease'[l].exp \in 0 .. Granted[l]
  <2>1. lease'[l].exp <= prov[l].exp
    BY LeaseStep DEF PaidInv
  <2>2. QED
    BY <1>2, <2>1 DEF PaidInv, TypeInv, TypeOK, LeaseRow, Granted
<1>5. UNCHANGED <<Granted, InRequest("sent"), InRequest("refused"),
                  InStatus("success"), InStatus("failed")>>
  BY DEF Granted, InRequest, InStatus, Cycle
<1>6. Bill!Show(l)
  BY <1>3, <1>4, <1>5 DEF Bill!Show, Bill!money
<1>7. QED
  BY <1>6 DEF Bill!Next

LEMMA BillingStep ==
  ASSUME MaxGen = 0, PaidInv, [Next]_vars
  PROVE  [Bill!Next]_Bill!bill
<1>1. TypeInv
  BY DEF PaidInv
<1>2. CASE LedgerStep
  <2>1. CASE UNCHANGED <<prov, req, ops, lease>>
    BY <2>1 DEF Granted, Shown, InRequest, InStatus, Cycle, Bill!bill, Bill!money
  <2>2. QED
    BY <1>2, <2>1, BillingAdvance, BillingShow DEF LedgerStep
<1>3. QED
  BY <1>1, <1>2, StepKinds, BillingOrder, BillingGrant, BillingRefuse, BillingInsert

\* While ids are stable, the renewals implement Billing: a cycle is ordered at
\* most once and only when it is due, a period is granted for an order, success
\* is told of granted cycles only, what is told is final, and the pool shows
\* granted dates, for any number of leases, ops and crashes.
THEOREM RenewalImplements ==
  ASSUME MaxGen = 0
  PROVE  Spec => RenewalImplementsBilling
<1>1. Spec => []PaidInv
  BY PaymentsInvariant DEF PaidInv
<1>2. PaidInv /\ [Next]_vars => [Bill!Next]_Bill!bill
  BY BillingStep
<1>3. QED
  BY <1>1, <1>2, BillingInit, PTL DEF Spec, RenewalImplementsBilling, Bill!Spec

\* The rows, the provider and every task's locals keep their types.
THEOREM RenewalTypeCorrect == Spec => []TypeOK
<1>1. TypeInv => TypeOK
  BY DEF TypeInv
<1>2. QED
  BY <1>1, TypeCorrect, PTL

=============================================================================
