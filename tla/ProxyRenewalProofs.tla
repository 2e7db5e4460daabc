------------------------- MODULE ProxyRenewalProofs -------------------------
(* Theorems about ProxyRenewal, for every set of leases and tasks and every *)
(* bound.                                                                   *)
EXTENDS ProxyRenewal, TLAPS

USE BoundAssumption DEF Date, Gen, OpId

(***************************************************************************)
(* Types.                                                                  *)
(***************************************************************************)

LEMMA FirstRowType == FirstRow \in LeaseRow
BY DEF FirstRow, LeaseRow

LEMMA IdleType == Idle \in Run
BY FirstRowType DEF Idle, Run, Label

\* A compare-and-swap on a row leaves a table of rows.
LEMMA AdvanceType ==
  ASSUME TypeOK, NEW i \in 0 .. MaxOps, NEW from, NEW to \in Status,
         Advance(i, from, to)
  PROVE  ops' \in [OpId -> OpRow]
BY DEF TypeOK, Advance, OpRow

LEMMA RunTypes ==
  ASSUME TypeOK, NEW p \in Source
  PROVE  /\ run[p] \in Run
         /\ run[p].op \in 0 .. MaxOps
         /\ run[p].conf \in LeaseRow
         /\ run[p].snap \in [Lease -> LeaseRow]
         /\ run[p].cur \in Lease \cup {NoLease}
BY DEF TypeOK, Run

LEMMA ReturnType ==
  ASSUME TypeOK, NEW p \in Source, Return(p)
  PROVE  run' \in [Source -> Run]
<1> DEFINE after == IF run[p].todo = {} THEN Idle
                    ELSE [Idle EXCEPT !.pc = "next", !.todo = run[p].todo,
                                      !.snap = run[p].snap]
<1>1. after \in Run
  BY IdleType, RunTypes DEF Run, Label
<1>2. QED
  BY <1>1 DEF TypeOK, Return

LEMMA GotoType ==
  ASSUME TypeOK, NEW p \in Source, NEW l \in Label, Goto(p, l)
  PROVE  run' \in [Source -> Run]
BY DEF TypeOK, Goto, Run

LEMMA ListingType == TypeOK => Listing \subseteq Entry
BY DEF TypeOK, Listing, Entry, LeaseRow

\* Labels at which a task works on a lease.
Working == Holding \cup {"gate", "rejected", "blocked"}

\* A working task has a lease; an owning one has a row already inserted.
LocalsOK ==
  \A p \in Source :
    /\ run[p].pc \in Working => run[p].cur \in Lease
    /\ run[p].pc \in Holding => run[p].op \in 1 .. lastOp

TypeInv == TypeOK /\ LocalsOK

LEMMA TypeInit == Init => TypeInv
BY IdleType, FirstRowType DEF Init, TypeInv, TypeOK, LocalsOK, OpRow, NoRow,
   Status, Idle, Working, Holding

\* The variables no task of the executor touches, and those only it touches.
LEMMA TypeExecute ==
  ASSUME TypeInv, NEW p \in Source, Execute(p)
  PROVE  TypeOK'
<1> USE DEF TypeInv, TypeOK, rows, provider, recon, sync
<1>0. /\ run[p] \in Run
      /\ run[p].op \in 0 .. MaxOps
      /\ run[p].conf \in LeaseRow
      /\ run[p].snap \in [Lease -> LeaseRow]
      /\ run[p].cur \in Lease \cup {NoLease}
  BY RunTypes
<1>00. /\ run[p].pc \in Working => run[p].cur \in Lease
       /\ run[p].pc \in Holding => run[p].op \in OpId
  BY DEF LocalsOK
<1>1. CASE PickLease(p)
  BY <1>1, <1>0 DEF PickLease, Run, Label
<1>2. CASE PreSpendReturn(p)
  BY <1>2, <1>0, ReturnType DEF PreSpendReturn
<1>3. CASE OpCreate(p)
  <2>1. lastOp + 1 \in OpId
    BY <1>3 DEF OpCreate
  <2>2. NewRow(p) \in OpRow
    BY <1>0, <1>00, <1>3
    DEF OpCreate, NewRow, Seen, OpRow, Status, LeaseRow, At, Working
  <2>3. run' \in [Source -> Run]
    <3>0. lastOp + 1 \in 0 .. MaxOps
      BY <2>1
    <3>1. [run[p] EXCEPT !.pc = "mark", !.op = lastOp + 1] \in Run
      BY <1>0, <3>0 DEF Run, Label
    <3>2. QED
      BY <1>3, <3>1 DEF OpCreate
  <2>4. QED
    BY <1>3, <2>1, <2>2, <2>3 DEF OpCreate
<1>4. CASE OpCreateRejected(p)
  BY <1>4, <1>0, GotoType DEF OpCreateRejected, Label
<1>5. CASE ClassifyRejection(p)
  BY <1>5, <1>0, GotoType, ReturnType DEF ClassifyRejection, Label
<1>6. CASE ReportBlocked(p)
  BY <1>6, <1>0, ReturnType DEF ReportBlocked
<1>7. CASE MarkSpendStarted(p)
  BY <1>7, <1>0, GotoType, AdvanceType DEF MarkSpendStarted, Label, Status
<1>8. CASE ReleaseReservation(p)
  BY <1>8, <1>0, ReturnType, AdvanceType DEF ReleaseReservation, DeletePending, Status
<1>9. CASE ProlongMake(p)
  BY <1>9, <1>00, <1>0, GotoType DEF ProlongMake, Label, Working, Holding, At
<1>10. CASE MakeConfirms(p)
  BY <1>10, <1>00, <1>0 DEF MakeConfirms, At, Seen, Run, Label, LeaseRow, Working, Holding
<1>11. CASE MakeInconclusive(p)
  BY <1>11, <1>0, GotoType DEF MakeInconclusive, Label
<1>12. CASE VerifyConfirms(p)
  BY <1>12, <1>00, <1>0 DEF VerifyConfirms, At, Run, Label, Working, Holding
<1>13. CASE VerifyGivesUp(p)
  BY <1>13, <1>0, GotoType DEF VerifyGivesUp, Label
<1>14. CASE UpdateIdentity(p)
  <2>1. run' \in [Source -> Run]
    BY <1>14, GotoType DEF UpdateIdentity, Label
  <2>2. lease' \in [Lease -> LeaseRow]
    <3>1. /\ run[p].cur \in Lease
          /\ [lease[run[p].cur] EXCEPT !.gen = run[p].conf.gen] \in LeaseRow
      BY <1>14, <1>0, <1>00 DEF UpdateIdentity, LeaseRow, At, Working, Holding
    <3>2. QED
      BY <1>14, <3>1 DEF UpdateIdentity
  <2>3. QED
    BY <1>14, <2>1, <2>2 DEF UpdateIdentity
<1>15. CASE WriteExpiry(p)
  BY <1>15, <1>00, <1>0, GotoType DEF WriteExpiry, Label, LeaseRow, Working, Holding, At
<1>16. CASE AdvanceOp(p)
  BY <1>16, <1>0, ReturnType, AdvanceType DEF AdvanceOp, Status
<1>17. CASE ExecutorRaises(p)
  BY <1>17, <1>0, ReturnType, IdleType DEF ExecutorRaises
<1>20. QED
  BY <1>1, <1>2, <1>3, <1>4, <1>5, <1>6, <1>7, <1>8, <1>9, <1>10, <1>11, <1>12, <1>13, <1>14, <1>15, <1>16, <1>17 DEF Execute


LEMMA GotoEffect ==
  ASSUME TypeOK, NEW p \in Source, NEW l, Goto(p, l)
  PROVE  /\ \A q \in Source \ {p} : run'[q] = run[q]
         /\ run'[p].pc = l /\ run'[p].cur = run[p].cur
         /\ run'[p].op = run[p].op /\ run'[p].snap = run[p].snap
         /\ run'[p].conf = run[p].conf
BY RunTypes DEF TypeOK, Goto, Run

LEMMA ReturnEffect ==
  ASSUME TypeOK, NEW p \in Source, Return(p)
  PROVE  /\ \A q \in Source \ {p} : run'[q] = run[q]
         /\ run'[p].pc \in {"idle", "next"}
         /\ run'[p].op = 0
         /\ run'[p].snap \in {Idle.snap, run[p].snap}
         /\ run'[p].conf = FirstRow
BY DEF TypeOK, Return, Run, Idle

LEMMA LocalsExecute ==
  ASSUME TypeInv, NEW p \in Source, Execute(p)
  PROVE  LocalsOK'
<1> USE DEF TypeInv, Working, Holding, rows, At
<1>1. SUFFICES /\ lastOp' \in lastOp .. MaxOps
               /\ \A q \in Source \ {p} : run'[q] = run[q]
               /\ run'[p].pc \in Working => run'[p].cur \in Lease
               /\ run'[p].pc \in Holding => run'[p].op \in 1 .. lastOp'
  BY DEF LocalsOK, TypeOK
<1>0. /\ run[p].pc \in Working => run[p].cur \in Lease
      /\ run[p].pc \in Holding => run[p].op \in 1 .. lastOp
      /\ lastOp \in 0 .. MaxOps
  BY DEF LocalsOK, TypeOK
<1>2. CASE PickLease(p)
  BY <1>0, <1>2 DEF PickLease, TypeOK, Run
<1>3. CASE PreSpendReturn(p)
  BY <1>0, <1>3, ReturnEffect DEF PreSpendReturn
<1>4. CASE OpCreate(p)
  BY <1>0, <1>4 DEF OpCreate, TypeOK, Run
<1>5. CASE OpCreateRejected(p)
  BY <1>0, <1>5, GotoEffect DEF OpCreateRejected
<1>6. CASE ClassifyRejection(p)
  BY <1>0, <1>6, GotoEffect, ReturnEffect DEF ClassifyRejection
<1>7. CASE ReportBlocked(p)
  BY <1>0, <1>7, ReturnEffect DEF ReportBlocked
<1>8. CASE MarkSpendStarted(p)
  BY <1>0, <1>8, GotoEffect DEF MarkSpendStarted
<1>9. CASE ReleaseReservation(p)
  BY <1>0, <1>9, ReturnEffect DEF ReleaseReservation
<1>10. CASE ProlongMake(p)
  BY <1>0, <1>10, GotoEffect DEF ProlongMake
<1>11. CASE MakeConfirms(p)
  BY <1>0, <1>11 DEF MakeConfirms, TypeOK, Run
<1>12. CASE MakeInconclusive(p)
  BY <1>0, <1>12, GotoEffect DEF MakeInconclusive
<1>13. CASE VerifyConfirms(p)
  BY <1>0, <1>13 DEF VerifyConfirms, TypeOK, Run
<1>14. CASE VerifyGivesUp(p)
  BY <1>0, <1>14, GotoEffect DEF VerifyGivesUp
<1>15. CASE UpdateIdentity(p)
  BY <1>0, <1>15, GotoEffect DEF UpdateIdentity
<1>16. CASE WriteExpiry(p)
  BY <1>0, <1>16, GotoEffect DEF WriteExpiry
<1>17. CASE AdvanceOp(p)
  BY <1>0, <1>17, ReturnEffect DEF AdvanceOp
<1>18. CASE ExecutorRaises(p)
  BY <1>0, <1>18, ReturnEffect DEF ExecutorRaises, TypeOK, Idle
<1>30. QED
  BY <1>2, <1>3, <1>4, <1>5, <1>6, <1>7, <1>8, <1>9, <1>10, <1>11, <1>12,
     <1>13, <1>14, <1>15, <1>16, <1>17, <1>18 DEF Execute

\* The environment of the tasks: provider, startup reconcile, pool sync.
Environment == Provider \/ Reconcile \/ Sync

LEMMA TypeProvider == TypeInv /\ Provider => TypeOK'
<1> SUFFICES ASSUME TypeInv, NEW i \in OpId,
                    ProviderApplies(i) \/ ProviderRefuses(i)
             PROVE  TypeOK'
  BY DEF Provider
<1> USE DEF TypeInv, TypeOK, rows, recon, sync
<1>1. CASE ProviderApplies(i)
  <2> DEFINE l == ops[i].lease
  <2>1. PICK g \in Gen : prov' = [prov EXCEPT ![l] = [exp |-> @.exp + 1, gen |-> g]]
    BY <1>1 DEF ProviderApplies
  <2>2. ASSUME l \in Lease
        PROVE  [exp |-> prov[l].exp + 1, gen |-> g] \in LeaseRow
    BY <1>1, <2>2 DEF ProviderApplies, LeaseRow
  <2>3. prov' \in [Lease -> LeaseRow]
    BY <2>1, <2>2
  <2>4. QED
    BY <1>1, <2>3 DEF ProviderApplies
<1>2. CASE ProviderRefuses(i)
  BY <1>2 DEF ProviderRefuses
<1>3. QED
  BY <1>1, <1>2

LEMMA TypeReconcile == TypeInv /\ Reconcile => TypeOK'
<1> SUFFICES ASSUME TypeInv, Reconcile
             PROVE  TypeOK'
  OBVIOUS
<1> USE DEF TypeInv, TypeOK, rows, provider, sync
<1>1. CASE ReconcilePending
  BY <1>1 DEF ReconcilePending
<1>2. CASE ReconcileMakePending
  BY <1>2 DEF ReconcileMakePending
<1>3. CASE ReconcileList
  BY <1>3, ListingType DEF ReconcileList
<1>4. CASE ReconcileListFails
  BY <1>4 DEF ReconcileListFails
<1>5. CASE ReconcileWriteLease
  <2>1. PICK e \in Newer(rcOp) : lease' = [lease EXCEPT ![e.lease].exp = e.exp]
    BY <1>5 DEF ReconcileWriteLease
  <2>2. e.lease \in Lease /\ e.exp \in Date
    BY <2>1 DEF Newer, Entry
  <2>3. [lease[e.lease] EXCEPT !.exp = e.exp] \in LeaseRow
    BY <2>2 DEF LeaseRow
  <2>4. lease' \in [Lease -> LeaseRow]
    BY <2>1, <2>2, <2>3
  <2>5. QED
    BY <1>5, <2>4 DEF ReconcileWriteLease
<1>6. CASE ReconcileDone
  BY <1>6 DEF ReconcileDone
<1>7. ASSUME NEW i \in OpId,
             ReconcileRelease(i) \/ ReconcileFailed(i) \/ ReconcileSuccess(i)
      PROVE  TypeOK'
  <2>1. CASE ReconcileRelease(i)
    BY <2>1, AdvanceType DEF ReconcileRelease, DeletePending, Status
  <2>2. CASE ReconcileFailed(i)
    BY <2>2, AdvanceType DEF ReconcileFailed, Status
  <2>3. CASE ReconcileSuccess(i)
    BY <2>3, AdvanceType DEF ReconcileSuccess, Status
  <2>4. QED
    BY <1>7, <2>1, <2>2, <2>3
<1>8. QED
  BY <1>1, <1>2, <1>3, <1>4, <1>5, <1>6, <1>7 DEF Reconcile

LEMMA TypeSync == TypeInv /\ Sync => TypeOK'
<1> SUFFICES ASSUME TypeInv, Sync
             PROVE  TypeOK'
  OBVIOUS
<1> USE DEF TypeInv, TypeOK, rows, provider, recon
<1>1. CASE SyncList
  BY <1>1, ListingType DEF SyncList
<1>2. ASSUME NEW l \in Lease, SyncUpsert(l)
      PROVE  TypeOK'
  <2>1. PICK e \in sySeen :
          lease' = IF e.gen = lease[l].gen
                     THEN [lease EXCEPT ![l].exp = e.exp] ELSE lease
    BY <1>2 DEF SyncUpsert
  <2>2. [lease[l] EXCEPT !.exp = e.exp] \in LeaseRow
    BY <2>1 DEF LeaseRow, Entry
  <2>3. lease' \in [Lease -> LeaseRow]
    BY <2>1, <2>2
  <2>4. syTodo' \subseteq Lease /\ sySeen' \subseteq Entry
    BY <1>2 DEF SyncUpsert
  <2>5. QED
    BY <1>2, <2>3, <2>4 DEF SyncUpsert
<1>3. QED
  BY <1>1, <1>2 DEF Sync

LEMMA TypeTickStart ==
  ASSUME TypeInv, NEW p \in Source, TickStart(p)
  PROVE  TypeOK'
<1> USE DEF TypeInv, TypeOK, rows, provider, recon, sync
<1>1. PICK S \in SUBSET Lease :
        run' = [run EXCEPT ![p].pc = "next", ![p].todo = S, ![p].snap = lease]
  BY DEF TickStart
<1>2. [run[p] EXCEPT !.pc = "next", !.todo = S, !.snap = lease] \in Run
  BY RunTypes DEF Run, Label
<1>3. run' \in [Source -> Run]
  BY <1>1, <1>2
<1>4. QED
  BY <1>3 DEF TickStart

\* lastOp and the locals change only in steps of a task or in a crash.
LEMMA EnvironmentFrame ==
  ASSUME Environment
  PROVE  run' = run /\ lastOp' = lastOp
<1> USE DEF rows
<1>1. CASE Provider
  BY <1>1 DEF Provider, ProviderApplies, ProviderRefuses
<1>2. CASE Reconcile
  <2>1. ASSUME NEW i \in OpId,
               ReconcileRelease(i) \/ ReconcileFailed(i) \/ ReconcileSuccess(i)
        PROVE  run' = run /\ lastOp' = lastOp
    BY <2>1 DEF ReconcileRelease, ReconcileFailed, ReconcileSuccess
  <2>2. CASE ReconcilePending \/ ReconcileMakePending
    BY <2>2 DEF ReconcilePending, ReconcileMakePending
  <2>3. CASE ReconcileList \/ ReconcileListFails
    BY <2>3 DEF ReconcileList, ReconcileListFails
  <2>4. CASE ReconcileWriteLease \/ ReconcileDone
    BY <2>4 DEF ReconcileWriteLease, ReconcileDone
  <2>5. QED
    BY <1>2, <2>1, <2>2, <2>3, <2>4 DEF Reconcile
<1>3. CASE Sync
  BY <1>3 DEF Sync, SyncList, SyncUpsert
<1>4. QED
  BY <1>1, <1>2, <1>3 DEF Environment

\* A tick changes the label, the snapshot and the rest of the tick.
LEMMA TickStartEffect ==
  ASSUME TypeOK, NEW p \in Source, TickStart(p)
  PROVE  /\ \A q \in Source \ {p} : run'[q] = run[q]
         /\ run'[p].pc = "next" /\ run'[p].snap = lease
         /\ run'[p].op = run[p].op /\ run'[p].cur = run[p].cur
         /\ run'[p].conf = run[p].conf
<1>1. PICK S \in SUBSET Lease :
        run' = [run EXCEPT ![p].pc = "next", ![p].todo = S, ![p].snap = lease]
  BY DEF TickStart
<1>2. QED
  BY <1>1 DEF TypeOK, Run

LEMMA TypeStep == TypeInv /\ [Next]_vars => TypeInv'
<1> SUFFICES ASSUME TypeInv, [Next]_vars
             PROVE  TypeInv'
  OBVIOUS
<1>1. ASSUME NEW p \in Source, TickStart(p)
      PROVE  TypeInv'
  <2>1. LocalsOK'
    <3>1. lastOp' = lastOp
      BY <1>1 DEF TickStart, rows
    <3>2. QED
      BY <1>1, <3>1, TickStartEffect
      DEF TypeInv, LocalsOK, Working, Holding
  <2>2. QED
    BY <1>1, <2>1, TypeTickStart DEF TypeInv
<1>2. ASSUME NEW p \in Source, Execute(p)
      PROVE  TypeInv'
  BY <1>2, TypeExecute, LocalsExecute DEF TypeInv
<1>3. CASE Environment
  BY <1>3, EnvironmentFrame, TypeProvider, TypeReconcile, TypeSync
  DEF Environment, TypeInv, LocalsOK
<1>4. CASE Crash
  BY <1>4, IdleType
  DEF Crash, TypeInv, TypeOK, LocalsOK, rows, provider, Idle, Working, Holding
<1>5. CASE UNCHANGED vars
  BY <1>5 DEF vars, rows, provider, recon, sync, TypeInv, TypeOK, LocalsOK
<1>6. QED
  BY <1>1, <1>2, <1>3, <1>4, <1>5 DEF Next, Environment

\* Every variable keeps its type, and a task that works on a lease or owns an
\* op row really has one.
THEOREM TypeCorrect == Spec => []TypeInv
<1>1. QED
  BY TypeInit, TypeStep, PTL DEF Spec

(***************************************************************************)
(* One spend per key.                                                      *)
(***************************************************************************)

\* The compare-and-swaps the code performs on a row's status.
Swap == {<<"pending", "make_pending">>, <<"pending", "deleted">>,
         <<"make_pending", "success">>, <<"make_pending", "failed">>}

\* What one step does to a row that is not being inserted.
RowKept(i) ==
  \/ ops'[i] = ops[i]
  \/ /\ <<ops[i].status, ops'[i].status>> \in Swap
     /\ Key(ops'[i]) = Key(ops[i])

LEMMA AdvanceKeeps ==
  ASSUME TypeOK, NEW j \in 0 .. MaxOps, NEW from, NEW to, <<from, to>> \in Swap,
         Advance(j, from, to)
  PROVE  \A i \in OpId : RowKept(i)
<1>1. CASE ops[j].status # from \/ j \notin OpId
  BY <1>1 DEF TypeOK, Advance, RowKept
<1>2. CASE ops[j].status = from /\ j \in OpId
  <2>1. ops' = [ops EXCEPT ![j].status = to]
    BY <1>2 DEF Advance
  <2>2. \A i \in OpId : i # j => ops'[i] = ops[i]
    BY <2>1 DEF TypeOK
  <2>3. /\ ops'[j].status = to
        /\ ops'[j].lease = ops[j].lease /\ ops'[j].gen = ops[j].gen
        /\ ops'[j].before = ops[j].before
    BY <2>1, <1>2 DEF TypeOK, OpRow
  <2>4. QED
    BY <1>2, <2>2, <2>3 DEF RowKept, Key
<1>3. QED
  BY <1>1, <1>2

LEMMA ExecuteKeepsRows ==
  ASSUME TypeInv, NEW p \in Source, Execute(p), ~OpCreate(p)
  PROVE  lastOp' = lastOp /\ \A i \in OpId : RowKept(i)
<1> USE DEF rows
<1>1. TypeOK /\ run[p].op \in 0 .. MaxOps
  BY RunTypes DEF TypeInv
<1>2. CASE MarkSpendStarted(p)
  BY <1>1, <1>2, AdvanceKeeps DEF MarkSpendStarted, Swap, RowKept
<1>3. CASE ReleaseReservation(p)
  BY <1>1, <1>3, AdvanceKeeps DEF ReleaseReservation, DeletePending, Swap, RowKept
<1>4. CASE AdvanceOp(p)
  BY <1>1, <1>4, AdvanceKeeps DEF AdvanceOp, Swap
<1>5. CASE lastOp' = lastOp /\ ops' = ops
  BY <1>5 DEF RowKept
<1>6. QED
  BY <1>2, <1>3, <1>4, <1>5
  DEF Execute, PickLease, PreSpendReturn, OpCreateRejected, ClassifyRejection,
      ReportBlocked, ProlongMake, MakeConfirms, MakeInconclusive,
      VerifyConfirms, VerifyGivesUp, UpdateIdentity, WriteExpiry, ExecutorRaises

LEMMA EnvironmentKeepsRows ==
  ASSUME TypeInv, Environment
  PROVE  \A i \in OpId : RowKept(i)
<1> USE DEF rows
<1>1. TypeOK
  BY DEF TypeInv
<1>2. ASSUME NEW i \in OpId,
             ReconcileRelease(i) \/ ReconcileFailed(i) \/ ReconcileSuccess(i)
      PROVE  \A j \in OpId : RowKept(j)
  BY <1>1, <1>2, AdvanceKeeps
  DEF ReconcileRelease, ReconcileFailed, ReconcileSuccess, DeletePending, Swap
<1>3. CASE ops' = ops
  BY <1>3 DEF RowKept
<1>4. CASE Provider
  BY <1>3, <1>4 DEF Provider, ProviderApplies, ProviderRefuses
<1>5. CASE Sync
  BY <1>3, <1>5 DEF Sync, SyncList, SyncUpsert
<1>6. CASE Reconcile
  BY <1>2, <1>3, <1>6
  DEF Reconcile, ReconcilePending, ReconcileMakePending, ReconcileList,
      ReconcileListFails, ReconcileWriteLease, ReconcileDone
<1>7. QED
  BY <1>4, <1>5, <1>6 DEF Environment

\* Every step inserts one row or keeps the rows; ids are never reused.
LEMMA RowsStep ==
  ASSUME TypeInv, [Next]_vars
  PROVE  \/ \E p \in Source : OpCreate(p)
         \/ lastOp' = lastOp /\ \A i \in OpId : RowKept(i)
<1>1. ASSUME NEW p \in Source, TickStart(p)
      PROVE  lastOp' = lastOp /\ \A i \in OpId : RowKept(i)
  BY <1>1 DEF TickStart, rows, RowKept
<1>2. ASSUME NEW p \in Source, Execute(p), ~OpCreate(p)
      PROVE  lastOp' = lastOp /\ \A i \in OpId : RowKept(i)
  BY <1>2, ExecuteKeepsRows
<1>3. CASE Environment
  BY <1>3, EnvironmentKeepsRows, EnvironmentFrame
<1>4. CASE Crash \/ UNCHANGED vars
  BY <1>4 DEF Crash, vars, rows, RowKept
<1>5. QED
  BY <1>1, <1>2, <1>3, <1>4 DEF Next, Environment

\* Only ProlongMake issues a call.
LEMMA CallsStep ==
  ASSUME [Next]_vars
  PROVE  (\E p \in Source : ProlongMake(p)) \/ calls' = calls
<1> USE DEF provider
<1>1. ASSUME NEW p \in Source, Execute(p), ~ProlongMake(p)
      PROVE  calls' = calls
  BY <1>1
  DEF Execute, PickLease, PreSpendReturn, OpCreate, OpCreateRejected,
      ClassifyRejection, ReportBlocked, MarkSpendStarted, ReleaseReservation,
      MakeConfirms, MakeInconclusive, VerifyConfirms, VerifyGivesUp,
      UpdateIdentity, WriteExpiry, AdvanceOp, ExecutorRaises
<1>2. CASE Provider
  BY <1>2 DEF Provider, ProviderApplies, ProviderRefuses
<1>3. CASE Reconcile
  <2>1. ASSUME NEW i \in OpId,
               ReconcileRelease(i) \/ ReconcileFailed(i) \/ ReconcileSuccess(i)
        PROVE  calls' = calls
    BY <2>1 DEF ReconcileRelease, ReconcileFailed, ReconcileSuccess
  <2>2. QED
    BY <1>3, <2>1
    DEF Reconcile, ReconcilePending, ReconcileMakePending, ReconcileList,
        ReconcileListFails, ReconcileWriteLease, ReconcileDone
<1>4. CASE Sync
  BY <1>4 DEF Sync, SyncList, SyncUpsert
<1>5. ASSUME NEW p \in Source, TickStart(p)
      PROVE  calls' = calls
  BY <1>5 DEF TickStart
<1>6. CASE Crash \/ UNCHANGED vars
  BY <1>6 DEF Crash, vars
<1>7. QED
  BY <1>1, <1>2, <1>3, <1>4, <1>5, <1>6 DEF Next

\* A task touches its own locals only.
LEMMA OwnLocals ==
  ASSUME TypeInv, NEW p \in Source, Execute(p)
  PROVE  \A q \in Source \ {p} : run'[q] = run[q]
<1>1. TypeOK
  BY DEF TypeInv
<1>2. CASE \E l : Goto(p, l)
  BY <1>1, <1>2, GotoEffect
<1>3. CASE Return(p)
  BY <1>1, <1>3, ReturnEffect
<1>4. CASE PickLease(p)
  BY <1>1, <1>4 DEF PickLease, TypeOK
<1>5. CASE OpCreate(p)
  BY <1>1, <1>5 DEF OpCreate, TypeOK
<1>6. CASE MakeConfirms(p)
  BY <1>1, <1>6 DEF MakeConfirms, TypeOK
<1>7. CASE VerifyConfirms(p)
  BY <1>1, <1>7 DEF VerifyConfirms, TypeOK
<1>8. CASE ExecutorRaises(p)
  BY <1>1, <1>3, <1>8 DEF ExecutorRaises, TypeOK
<1>9. QED
  BY <1>2, <1>3, <1>4, <1>5, <1>6, <1>7, <1>8
  DEF Execute, PreSpendReturn, OpCreateRejected, ClassifyRejection, ReportBlocked,
      MarkSpendStarted, ReleaseReservation, ProlongMake, MakeInconclusive,
      VerifyGivesUp, UpdateIdentity, WriteExpiry, AdvanceOp

\* The task keeps the row it owns and the lease it works on; it gets to the
\* spend only by marking the row.
OwnerKept(p) ==
  /\ run[p].pc \in Holding
  /\ run'[p].op = run[p].op
  /\ run'[p].cur = run[p].cur /\ run'[p].snap = run[p].snap
  /\ run'[p].pc = "mark" => run[p].pc = "mark"
  /\ run'[p].pc = "make" =>
       \/ run[p].pc = "make"
       \/ run[p].pc = "mark" /\ ops'[run[p].op].status = "make_pending"

LEMMA ExecuteOwner ==
  ASSUME TypeInv, NEW p \in Source, Execute(p)
  PROVE  OpCreate(p) \/ run'[p].pc \notin Holding \/ OwnerKept(p)
<1> USE DEF At, Holding, OwnerKept
<1>1. TypeOK
  BY DEF TypeInv
<1>2. CASE Return(p)
  BY <1>1, <1>2, ReturnEffect
<1>3. CASE PickLease(p)
  BY <1>1, <1>3 DEF PickLease, TypeOK, Run
<1>4. CASE OpCreateRejected(p) \/ ClassifyRejection(p)
  BY <1>1, <1>2, <1>4, GotoEffect DEF OpCreateRejected, ClassifyRejection
<1>5. CASE MarkSpendStarted(p)
  <2>1. /\ run[p].pc = "mark" /\ run'[p].op = run[p].op
        /\ run'[p].cur = run[p].cur /\ run'[p].snap = run[p].snap
    BY <1>1, <1>5, GotoEffect DEF MarkSpendStarted
  <2>2. run'[p].pc \in {"make", "release"}
    BY <1>1, <1>5, GotoEffect DEF MarkSpendStarted
  <2>3. ASSUME run'[p].pc = "make"
        PROVE  ops'[run[p].op].status = "make_pending"
    <3>1. /\ Advance(run[p].op, "pending", "make_pending")
          /\ ops[run[p].op].status = "pending"
      BY <1>1, <1>5, <2>3, GotoEffect DEF MarkSpendStarted
    <3>2. run[p].op \in OpId
      BY <2>1 DEF TypeInv, TypeOK, LocalsOK
    <3>3. QED
      BY <1>1, <3>1, <3>2 DEF Advance, TypeOK, OpRow
  <2>4. QED
    BY <2>1, <2>2, <2>3
<1>6. CASE ProlongMake(p)
  BY <1>1, <1>6, GotoEffect DEF ProlongMake
<1>7. CASE MakeConfirms(p)
  BY <1>1, <1>7 DEF MakeConfirms, TypeOK, Run
<1>8. CASE MakeInconclusive(p)
  BY <1>1, <1>8, GotoEffect DEF MakeInconclusive
<1>9. CASE VerifyConfirms(p)
  BY <1>1, <1>9 DEF VerifyConfirms, TypeOK, Run
<1>10. CASE VerifyGivesUp(p)
  BY <1>1, <1>10, GotoEffect DEF VerifyGivesUp
<1>11. CASE UpdateIdentity(p)
  BY <1>1, <1>11, GotoEffect DEF UpdateIdentity
<1>12. CASE WriteExpiry(p)
  BY <1>1, <1>12, GotoEffect DEF WriteExpiry
<1>13. CASE ExecutorRaises(p)
  BY <1>1, <1>2, <1>13 DEF ExecutorRaises, TypeOK, Idle
<1>14. QED
  BY <1>2, <1>3, <1>4, <1>5, <1>6, <1>7, <1>8, <1>9, <1>10, <1>11, <1>12, <1>13
  DEF Execute, PreSpendReturn, ReportBlocked, ReleaseReservation, AdvanceOp

\* Over a step a task inserts a row, owns none afterwards or keeps its own.
LEMMA OwnerStep ==
  ASSUME TypeInv, [Next]_vars, NEW p \in Source
  PROVE  OpCreate(p) \/ run'[p].pc \notin Holding \/ OwnerKept(p)
<1>1. TypeOK
  BY DEF TypeInv
<1>2. CASE run'[p] = run[p]
  BY <1>2 DEF OwnerKept
<1>3. ASSUME NEW q \in Source, TickStart(q)
      PROVE  run'[p].pc \notin Holding \/ run'[p] = run[p]
  BY <1>1, <1>3, TickStartEffect DEF Holding
<1>4. ASSUME NEW q \in Source, Execute(q)
      PROVE  OpCreate(p) \/ run'[p].pc \notin Holding \/ OwnerKept(p)
  BY <1>2, <1>4, OwnLocals, ExecuteOwner
<1>5. CASE Environment \/ UNCHANGED vars
  BY <1>2, <1>5, EnvironmentFrame DEF vars
<1>6. CASE Crash
  BY <1>6 DEF Crash, Idle, Holding
<1>7. QED
  BY <1>2, <1>3, <1>4, <1>5, <1>6 DEF Next, Environment

LEMMA KeyInit == Init => KeyDiscipline
BY DEF Init, KeyDiscipline, NoRow, Live, Idle, Burned, Terminal, Holding

LEMMA KeyOpCreate ==
  ASSUME TypeInv, KeyDiscipline, NEW p \in Source, OpCreate(p)
  PROVE  KeyDiscipline'
<1> DEFINE n == lastOp + 1
<1> USE DEF TypeInv
<1>1. n \in OpId /\ lastOp' = n /\ calls' = calls /\ lastOp \in 0 .. MaxOps
  BY DEF OpCreate, TypeOK, provider
<1>2. ops' = [ops EXCEPT ![n] = NewRow(p)] /\ ops \in [OpId -> OpRow]
  BY DEF OpCreate, TypeOK
<1>3. ops[n].status = "none" /\ calls[n] = 0
  BY <1>1 DEF KeyDiscipline
<1>4. /\ run'[p].pc = "mark" /\ run'[p].op = n
      /\ \A q \in Source \ {p} : run'[q] = run[q]
  BY DEF OpCreate, TypeOK, Run
<1>5. \A q \in Source : run[q].pc \in Holding => run[q].op \in 1 .. lastOp
  BY DEF LocalsOK
<1>6. \A i \in OpId : i # n => ops'[i] = ops[i]
  BY <1>2
<1>7. ops'[n] = NewRow(p)
  BY <1>1, <1>2
<1>8. (\A i \in OpId : i > lastOp => ops[i].status = "none" /\ calls[i] = 0)'
  BY <1>1, <1>6 DEF KeyDiscipline
<1>9. (\A i, j \in Live : Key(ops[i]) = Key(ops[j]) => i = j)'
  <2>1. \A i \in Live : Key(ops[i]) # Key(NewRow(p))
    BY DEF OpCreate, Collides
  <2>2. \A i \in Live' : i # n => i \in Live
    BY <1>6 DEF Live
  <2>3. \A i \in Live' : i # n => Key(ops'[i]) = Key(ops[i])
    BY <1>6 DEF Live
  <2>4. Key(ops'[n]) = Key(NewRow(p))
    BY <1>7
  <2>5. ASSUME NEW i \in Live', NEW j \in Live', Key(ops'[i]) = Key(ops'[j])
        PROVE  i = j
    BY <2>1, <2>2, <2>3, <2>4, <2>5 DEF KeyDiscipline
  <2>6. QED
    BY <2>5
<1>10. (\A i \in OpId : calls[i] \in {0, 1} /\ (calls[i] = 1 => ops[i].status \in Burned))'
  BY <1>1, <1>3, <1>6 DEF KeyDiscipline, Burned, Terminal
<1>11. ASSUME NEW q \in Source
       PROVE  (/\ run[q].pc \in {"mark", "make"} => calls[run[q].op] = 0
               /\ run[q].pc = "make" => ops[run[q].op].status \in Burned)'
  <2>1. CASE q = p
    BY <1>1, <1>3, <1>4, <2>1
  <2>2. CASE q # p
    <3>1. /\ run[q].pc \in {"mark", "make"} => calls[run[q].op] = 0
          /\ run[q].pc = "make" => ops[run[q].op].status \in Burned
      BY DEF KeyDiscipline
    <3>2. run[q].pc = "make" => run[q].op \in OpId /\ run[q].op # n
      BY <1>1, <1>5 DEF Holding
    <3>3. QED
      BY <1>1, <1>4, <1>6, <2>2, <3>1, <3>2 DEF Burned, Terminal
  <2>3. QED
    BY <2>1, <2>2
<1>12. ASSUME NEW q \in Source, NEW r \in Source \ {q},
              run'[q].pc \in Holding, run'[r].pc \in Holding
       PROVE  run'[q].op # run'[r].op
  <2>0. \A s \in Source \ {p} : run'[s].pc \in Holding => run'[s].op # n
    BY <1>1, <1>4, <1>5
  <2>1. CASE q = p
    BY <1>4, <1>12, <2>0, <2>1
  <2>2. CASE r = p
    BY <1>4, <1>12, <2>0, <2>2
  <2>3. CASE q # p /\ r # p
    BY <1>4, <1>12, <2>3 DEF KeyDiscipline
  <2>4. QED
    BY <2>1, <2>2, <2>3
<1>13. QED
  BY <1>8, <1>9, <1>10, <1>11, <1>12 DEF KeyDiscipline, Holding

LEMMA KeyProlongMake ==
  ASSUME TypeInv, KeyDiscipline, NEW p \in Source, ProlongMake(p)
  PROVE  KeyDiscipline'
<1> DEFINE n == run[p].op
<1>1. /\ ops' = ops /\ lastOp' = lastOp
      /\ calls' = [calls EXCEPT ![n] = @ + 1]
      /\ run[p].pc = "make"
  BY DEF ProlongMake, rows, At
<1>2. /\ n \in OpId /\ n \in 1 .. lastOp /\ lastOp \in 0 .. MaxOps
      /\ calls[n] = 0 /\ ops[n].status \in Burned
  BY <1>1 DEF KeyDiscipline, TypeInv, TypeOK, LocalsOK, Holding
<1>3. calls'[n] = 1 /\ \A i \in OpId : i # n => calls'[i] = calls[i]
  BY <1>1, <1>2 DEF TypeInv, TypeOK
<1>4. /\ run'[p].pc = "await" /\ run'[p].op = n
      /\ \A q \in Source \ {p} : run'[q] = run[q]
  BY GotoEffect DEF ProlongMake, TypeInv
<1>5. \A q \in Source \ {p} : run[q].pc \in Holding => run[q].op # n
  BY <1>1 DEF KeyDiscipline, Holding
<1>6. (\A i \in OpId : i > lastOp => ops[i].status = "none" /\ calls[i] = 0)'
  BY <1>1, <1>2, <1>3 DEF KeyDiscipline
<1>7. (\A i, j \in Live : Key(ops[i]) = Key(ops[j]) => i = j)'
  BY <1>1 DEF KeyDiscipline, Live, Key
<1>8. (\A i \in OpId : calls[i] \in {0, 1} /\ (calls[i] = 1 => ops[i].status \in Burned))'
  BY <1>1, <1>2, <1>3 DEF KeyDiscipline, Burned
<1>9. ASSUME NEW q \in Source
      PROVE  (/\ run[q].pc \in {"mark", "make"} => calls[run[q].op] = 0
              /\ run[q].pc = "make" => ops[run[q].op].status \in Burned)'
  <2>1. CASE q = p
    BY <1>4, <2>1
  <2>2. CASE q # p
    <3>1. /\ run[q].pc \in {"mark", "make"} => calls[run[q].op] = 0
          /\ run[q].pc = "make" => ops[run[q].op].status \in Burned
          /\ run[q].pc \in {"mark", "make"} => run[q].op \in OpId /\ run[q].op # n
      BY <1>2, <1>5, <2>2 DEF KeyDiscipline, TypeInv, LocalsOK, Holding
    <3>2. QED
      BY <1>1, <1>3, <1>4, <2>2, <3>1 DEF Burned, Terminal
  <2>3. QED
    BY <2>1, <2>2
<1>10. ASSUME NEW q \in Source, NEW r \in Source \ {q},
              run'[q].pc \in Holding, run'[r].pc \in Holding
       PROVE  run'[q].op # run'[r].op
  BY <1>1, <1>4, <1>10 DEF KeyDiscipline, Holding
<1>11. QED
  BY <1>6, <1>7, <1>8, <1>9, <1>10 DEF KeyDiscipline, Holding

LEMMA KeyOtherStep ==
  ASSUME TypeInv, KeyDiscipline, [Next]_vars,
         calls' = calls, lastOp' = lastOp, \A i \in OpId : RowKept(i),
         \A p \in Source : run'[p].pc \notin Holding \/ OwnerKept(p)
  PROVE  KeyDiscipline'
<1>1. \A i \in OpId : ops[i].status \in Burned => ops'[i].status \in Burned
  BY DEF RowKept, Swap, Burned, Terminal
<1>2. \A i \in OpId : /\ ops[i].status = "none" => ops'[i].status = "none"
                      /\ i \in Live' => i \in Live
                      /\ Key(ops'[i]) = Key(ops[i])
  BY DEF RowKept, Swap, Live
<1>3. (\A i \in OpId : i > lastOp => ops[i].status = "none" /\ calls[i] = 0)'
  BY <1>2 DEF KeyDiscipline
<1>4. ASSUME NEW i \in Live', NEW j \in Live', Key(ops'[i]) = Key(ops'[j])
      PROVE  i = j
  BY <1>2, <1>4 DEF KeyDiscipline, Live
<1>5. (\A i \in OpId : calls[i] \in {0, 1} /\ (calls[i] = 1 => ops[i].status \in Burned))'
  BY <1>1 DEF KeyDiscipline, Burned
<1>6. ASSUME NEW q \in Source
      PROVE  (/\ run[q].pc \in {"mark", "make"} => calls[run[q].op] = 0
              /\ run[q].pc = "make" => ops[run[q].op].status \in Burned)'
  <2>1. run[q].pc \in Holding => run[q].op \in OpId
    BY DEF TypeInv, LocalsOK, TypeOK
  <2>2. /\ run[q].pc \in {"mark", "make"} => calls[run[q].op] = 0
        /\ run[q].pc = "make" => ops[run[q].op].status \in Burned
    BY DEF KeyDiscipline
  <2>3. CASE run'[q].pc \notin Holding
    BY <2>3 DEF Holding
  <2>4. CASE OwnerKept(q)
    BY <1>1, <2>1, <2>2, <2>4 DEF OwnerKept, Burned, Terminal
  <2>5. QED
    BY <2>3, <2>4
<1>7. ASSUME NEW q \in Source, NEW r \in Source \ {q},
             run'[q].pc \in Holding, run'[r].pc \in Holding
      PROVE  run'[q].op # run'[r].op
  BY <1>7 DEF KeyDiscipline, OwnerKept, Holding
<1>8. QED
  BY <1>3, <1>4, <1>5, <1>6, <1>7 DEF KeyDiscipline, Holding

LEMMA ProlongMakeKeepsRows ==
  ASSUME NEW p \in Source, ProlongMake(p)
  PROVE  UNCHANGED <<ops, lastOp>>
BY DEF ProlongMake, rows

LEMMA KeyStep == TypeInv /\ KeyDiscipline /\ [Next]_vars => KeyDiscipline'
<1> SUFFICES ASSUME TypeInv, KeyDiscipline, [Next]_vars
             PROVE  KeyDiscipline'
  OBVIOUS
<1>1. CASE \E p \in Source : OpCreate(p)
  BY <1>1, KeyOpCreate
<1>2. CASE \E p \in Source : ProlongMake(p)
  BY <1>2, KeyProlongMake
<1>3. CASE ~(\E p \in Source : OpCreate(p)) /\ ~(\E p \in Source : ProlongMake(p))
  BY <1>3, RowsStep, CallsStep, OwnerStep, KeyOtherStep
<1>4. QED
  BY <1>1, <1>2, <1>3

\* A key is held by one row, spent only by the task that inserted it and only
\* once the row is marked; a marked row is never free again.
THEOREM KeysDisciplined == Spec => []KeyDiscipline
<1>1. Init => TypeInv /\ KeyDiscipline
  BY TypeInit, KeyInit
<1>2. TypeInv /\ KeyDiscipline /\ [Next]_vars => (TypeInv /\ KeyDiscipline)'
  BY TypeStep, KeyStep
<1>3. QED
  BY <1>1, <1>2, PTL DEF Spec

\* prolong_make is called at most once for one idempotency key, whatever the
\* tasks, the restarts and the reconcile do, and however many leases, ticks
\* and id rotations there are.
THEOREM OneSpendPerKey == Spec => []AtMostOneSpendPerKey
<1>1. KeyDiscipline => AtMostOneSpendPerKey
  <2>1. ASSUME KeyDiscipline, NEW i \in Spent
        PROVE  calls[i] = 1 /\ i \in Live
    BY <2>1 DEF KeyDiscipline, Spent, Live, Burned, Terminal
  <2>2. QED
    BY <2>1 DEF KeyDiscipline, AtMostOneSpendPerKey
<1>2. QED
  BY <1>1, KeysDisciplined, PTL

\* A reservation released as "pre-spend" was never spent and never will be.
THEOREM ReleasedRowsUnspent == Spec => []ReleasedIsUnspent
<1>1. KeyDiscipline => ReleasedIsUnspent
  BY DEF KeyDiscipline, ReleasedIsUnspent, At, Burned, Terminal
<1>2. QED
  BY <1>1, KeysDisciplined, PTL

\* A settled op is never settled again, and a spent one never reopened.
THEOREM OpsSettledOnce == Spec => SettledOnce
<1> DEFINE Kept == \A i \in OpId :
             /\ ops[i].status \in Terminal => ops'[i] = ops[i]
             /\ calls[i] > 0 => ops'[i].status \notin {"pending", "deleted"}
<1>1. ASSUME TypeInv, KeyDiscipline, [Next]_vars
      PROVE  Kept
  <2>1. CASE \A i \in OpId : RowKept(i)
    BY <1>1, <2>1 DEF RowKept, Swap, KeyDiscipline, Burned, Terminal
  <2>2. ASSUME NEW p \in Source, OpCreate(p)
        PROVE  Kept
    <3>1. \A i \in OpId : i # lastOp + 1 => ops'[i] = ops[i]
      BY <1>1, <2>2 DEF OpCreate, TypeInv, TypeOK
    <3>2. \A i \in OpId : i = lastOp + 1 => ops[i].status = "none" /\ calls[i] = 0
      BY <1>1 DEF KeyDiscipline, TypeInv, TypeOK
    <3>3. \A i \in OpId : calls[i] > 0 => ops[i].status \in Burned
      BY <1>1 DEF KeyDiscipline
    <3>4. QED
      BY <3>1, <3>2, <3>3 DEF Burned, Terminal
  <2>3. QED
    BY <1>1, <2>1, <2>2, RowsStep
<1>2. TypeInv /\ KeyDiscipline /\ [Next]_vars => [Kept]_vars
  BY <1>1
<1>3. QED
  BY <1>2, TypeCorrect, KeysDisciplined, PTL DEF Spec, SettledOnce

(***************************************************************************)
(* Who stands behind a row that blocks its lease.  That such a row is      *)
(* settled in the end is left to the run; what can be proved is that       *)
(* somebody is left to settle it.                                          *)
(***************************************************************************)
Before      == {"mark", "release"}
Behind      == Holding \ Before
Owns(p, i, places) == run[p].pc \in places /\ run[p].op = i

\* As long as no write fails, a reservation belongs to a task that is about to mark or
\* release it, or to the startup reconcile; and a marked row belongs to the task that
\* is spending, until the process dies.
NothingStranded ==
  ~DbErrors => \A i \in OpId :
    /\ ops[i].status = "pending" =>
         \/ \E p \in Source : Owns(p, i, Before)
         \/ rc = "due" \/ (rc = "release" /\ i \in rcTodo)
    /\ ops[i].status = "make_pending" /\ crashes = 0 =>
         \E p \in Source : Owns(p, i, Behind)

\* Over a step of task p the row has that status because p owns it now, or had it
\* before and was not p's.
Owned(p, i, s, places) ==
  ops'[i].status = s =>
    Owns(p, i, places)' \/ (ops[i].status = s /\ ~Owns(p, i, places))

LEMMA OwnedStep ==
  ASSUME TypeInv, ~DbErrors, NEW p \in Source, Execute(p), NEW i \in OpId
  PROVE  Owned(p, i, "pending", Before) /\ Owned(p, i, "make_pending", Behind)
<1> USE DEF At, Holding, Owned, Owns, Before, Behind
<1>1. TypeOK /\ run[p].op \in 0 .. MaxOps
  BY RunTypes DEF TypeInv
<1>a. ASSUME ops' = ops, run[p].pc \notin Holding
      PROVE  Owned(p, i, "pending", Before) /\ Owned(p, i, "make_pending", Behind)
  BY <1>a
<1>b. ASSUME ops' = ops, run[p].pc \in Behind, run'[p].pc \in Behind, run'[p].op = run[p].op
      PROVE  Owned(p, i, "pending", Before) /\ Owned(p, i, "make_pending", Behind)
  BY <1>b
<1>2. CASE \/ PickLease(p) \/ PreSpendReturn(p) \/ OpCreateRejected(p)
           \/ ClassifyRejection(p) \/ ReportBlocked(p)
  BY <1>2, <1>a
  DEF PickLease, PreSpendReturn, OpCreateRejected, ClassifyRejection, ReportBlocked, rows
<1>3. CASE OpCreate(p)
  <2>1. /\ run[p].pc = "gate" /\ run'[p].pc = "mark" /\ run'[p].op = lastOp + 1
        /\ lastOp + 1 \in OpId /\ ops' = [ops EXCEPT ![lastOp + 1] = NewRow(p)]
    BY <1>1, <1>3 DEF OpCreate, TypeOK, Run
  <2>2. \A j \in OpId : ops'[j] = IF j = lastOp + 1 THEN NewRow(p) ELSE ops[j]
    BY <1>1, <2>1 DEF TypeOK
  <2> QED BY <2>1, <2>2 DEF NewRow
<1>4. CASE MarkSpendStarted(p)
  <2>1. run[p].pc = "mark" /\ run'[p].op = run[p].op
    BY <1>1, <1>4, GotoEffect DEF MarkSpendStarted
  <2>2. /\ Advance(run[p].op, "pending", "make_pending")
        /\ run'[p].pc = IF ops[run[p].op].status = "pending" THEN "make" ELSE "release"
    BY <1>1, <1>4, GotoEffect DEF MarkSpendStarted
  <2>3. ops'[i].status = IF i = run[p].op /\ ops[i].status = "pending"
                         THEN "make_pending" ELSE ops[i].status
    BY <1>1, <2>2 DEF Advance, TypeOK, OpRow
  <2> QED BY <2>1, <2>2, <2>3
<1>5. CASE ReleaseReservation(p)
  <2>1. run[p].pc = "release" /\ Advance(run[p].op, "pending", "deleted")
    BY <1>5 DEF ReleaseReservation, DeletePending
  <2>2. ops'[i].status = IF i = run[p].op /\ ops[i].status = "pending"
                         THEN "deleted" ELSE ops[i].status
    BY <1>1, <2>1 DEF Advance, TypeOK, OpRow
  <2> QED BY <2>1, <2>2
<1>6. CASE ProlongMake(p) \/ MakeInconclusive(p) \/ VerifyGivesUp(p)
           \/ UpdateIdentity(p) \/ WriteExpiry(p)
  BY <1>1, <1>6, <1>b, GotoEffect
  DEF ProlongMake, MakeInconclusive, VerifyGivesUp, UpdateIdentity, WriteExpiry, rows
<1>7. CASE MakeConfirms(p) \/ VerifyConfirms(p)
  <2>1. /\ ops' = ops /\ run[p].pc \in Behind
        /\ run'[p].pc \in Behind /\ run'[p].op = run[p].op
    BY <1>1, <1>7 DEF MakeConfirms, VerifyConfirms, TypeOK, Run, rows
  <2> QED BY <1>b, <2>1
<1>8. CASE AdvanceOp(p)
  <2>1. /\ run[p].pc \in {"succeed", "fail"}
        /\ \/ Advance(run[p].op, "make_pending", "success")
           \/ Advance(run[p].op, "make_pending", "failed")
    BY <1>8 DEF AdvanceOp
  <2>2. \/ ops'[i].status = ops[i].status /\ ~(i = run[p].op /\ ops[i].status = "make_pending")
        \/ ops'[i].status \in {"success", "failed"}
    BY <1>1, <2>1 DEF Advance, TypeOK, OpRow
  <2> QED BY <2>1, <2>2
<1>9. CASE ExecutorRaises(p)
  BY <1>9 DEF ExecutorRaises
<1> QED BY <1>2, <1>3, <1>4, <1>5, <1>6, <1>7, <1>8, <1>9 DEF Execute

LEMMA ExecuteFrame ==
  ASSUME NEW p \in Source, Execute(p)
  PROVE  UNCHANGED <<rc, rcTodo, crashes>>
BY DEF Execute, PickLease, PreSpendReturn, OpCreate, OpCreateRejected,
   ClassifyRejection, ReportBlocked, MarkSpendStarted, ReleaseReservation,
   ProlongMake, MakeConfirms, MakeInconclusive, VerifyConfirms, VerifyGivesUp,
   UpdateIdentity, WriteExpiry, AdvanceOp, ExecutorRaises, recon

\* The reconcile lets go of a reservation only by deleting it.
LEMMA ReconcileLetsGo ==
  ASSUME TypeInv, Environment, NEW i \in OpId
  PROVE  /\ run' = run /\ crashes' = crashes
         /\ ops'[i].status \in {"pending", "make_pending"} => ops'[i].status = ops[i].status
         /\ ops'[i].status = "pending" /\ (rc = "due" \/ (rc = "release" /\ i \in rcTodo))
              => rc' = "due" \/ (rc' = "release" /\ i \in rcTodo')
<1>1. TypeOK
  BY DEF TypeInv
<1>a. ASSUME NEW j \in OpId,
             ReconcileRelease(j) \/ ReconcileFailed(j) \/ ReconcileSuccess(j)
      PROVE  /\ crashes' = crashes
             /\ \/ ops'[i].status = ops[i].status
                \/ ops'[i].status \in {"deleted", "success", "failed"}
  <2>1. PICK from \in {"pending", "make_pending"}, to \in {"deleted", "success", "failed"} :
          Advance(j, from, to)
    BY <1>a DEF ReconcileRelease, ReconcileFailed, ReconcileSuccess, DeletePending
  <2>2. \/ ops'[i].status = ops[i].status
        \/ ops'[i].status \in {"deleted", "success", "failed"}
    BY <1>1, <2>1 DEF Advance, TypeOK, OpRow
  <2> QED BY <1>a, <2>2 DEF ReconcileRelease, ReconcileFailed, ReconcileSuccess
<1>b. ASSUME Provider \/ Sync
      PROVE  crashes' = crashes /\ ops' = ops
  BY <1>b DEF Provider, ProviderApplies, ProviderRefuses, Sync, SyncList, SyncUpsert, rows
<1>c. ASSUME \/ ReconcilePending \/ ReconcileMakePending \/ ReconcileList
             \/ ReconcileListFails \/ ReconcileWriteLease \/ ReconcileDone
      PROVE  crashes' = crashes /\ ops' = ops
  BY <1>c DEF ReconcilePending, ReconcileMakePending, ReconcileList, ReconcileListFails,
              ReconcileWriteLease, ReconcileDone, rows
<1>2. run' = run /\ crashes' = crashes
  BY <1>a, <1>b, <1>c, EnvironmentFrame DEF Environment, Reconcile
<1>3. ops'[i].status \in {"pending", "make_pending"} => ops'[i].status = ops[i].status
  BY <1>a, <1>b, <1>c DEF Environment, Reconcile
<1>4. ASSUME ops'[i].status = "pending", rc = "due" \/ (rc = "release" /\ i \in rcTodo)
      PROVE  rc' = "due" \/ (rc' = "release" /\ i \in rcTodo')
  <2>1. ops[i].status = "pending"
    BY <1>3, <1>4
  <2>2. CASE Provider
    BY <1>4, <2>2 DEF Provider, ProviderApplies, ProviderRefuses, recon
  <2>3. CASE Sync
    BY <1>4, <2>3 DEF Sync, SyncList, SyncUpsert, recon
  <2>4. CASE ReconcilePending
    BY <2>1, <2>4 DEF ReconcilePending
  <2>5. ASSUME NEW j \in OpId, ReconcileRelease(j)
        PROVE  rc' = "due" \/ (rc' = "release" /\ i \in rcTodo')
    <3>1. i # j
      BY <1>1, <1>4, <2>1, <2>5
      DEF ReconcileRelease, DeletePending, Advance, TypeOK, OpRow
    <3> QED BY <1>4, <2>5, <3>1 DEF ReconcileRelease
  <2>6. CASE Reconcile /\ ~ReconcilePending /\ \A j \in OpId : ~ReconcileRelease(j)
    BY <1>4, <2>6
    DEF Reconcile, ReconcileMakePending, ReconcileList, ReconcileListFails,
        ReconcileWriteLease, ReconcileDone, ReconcileFailed, ReconcileSuccess
  <2> QED BY <2>2, <2>3, <2>4, <2>5, <2>6 DEF Environment
<1> QED BY <1>2, <1>3, <1>4

LEMMA StrandStep == TypeInv /\ NothingStranded /\ [Next]_vars => NothingStranded'
<1> SUFFICES ASSUME TypeInv, NothingStranded, [Next]_vars, ~DbErrors, NEW i \in OpId
             PROVE  /\ ops'[i].status = "pending" =>
                         \/ \E p \in Source : Owns(p, i, Before)'
                         \/ rc' = "due" \/ (rc' = "release" /\ i \in rcTodo')
                    /\ ops'[i].status = "make_pending" /\ crashes' = 0 =>
                         \E p \in Source : Owns(p, i, Behind)'
  BY DEF NothingStranded
<1>1. TypeOK
  BY DEF TypeInv
<1>2. /\ ops[i].status = "pending" =>
           \/ \E p \in Source : Owns(p, i, Before)
           \/ rc = "due" \/ (rc = "release" /\ i \in rcTodo)
      /\ ops[i].status = "make_pending" /\ crashes = 0 =>
           \E p \in Source : Owns(p, i, Behind)
  BY DEF NothingStranded
<1>3. ASSUME NEW q \in Source, TickStart(q)
      PROVE  /\ ops' = ops /\ rc' = rc /\ rcTodo' = rcTodo /\ crashes' = crashes
             /\ \A p \in Source : run'[p] = run[p] \/ run[p].pc = "idle"
  BY <1>1, <1>3 DEF TickStart, rows, recon, TypeOK, At
<1>4. CASE \E q \in Source : TickStart(q)
  BY <1>2, <1>3, <1>4 DEF Owns, Before, Behind, Holding
<1>5. ASSUME NEW q \in Source, Execute(q)
      PROVE  /\ ops'[i].status = "pending" =>
                  \/ \E p \in Source : Owns(p, i, Before)'
                  \/ rc' = "due" \/ (rc' = "release" /\ i \in rcTodo')
             /\ ops'[i].status = "make_pending" /\ crashes' = 0 =>
                  \E p \in Source : Owns(p, i, Behind)'
  <2>1. Owned(q, i, "pending", Before) /\ Owned(q, i, "make_pending", Behind)
    BY <1>5, OwnedStep
  <2>2. \A p \in Source \ {q} : run'[p] = run[p]
    BY <1>5, OwnLocals
  <2>3. rc' = rc /\ rcTodo' = rcTodo /\ crashes' = crashes
    BY <1>5, ExecuteFrame
  <2> QED BY <1>2, <2>1, <2>2, <2>3 DEF Owned, Owns
<1>6. CASE Environment
  BY <1>2, <1>6, ReconcileLetsGo DEF Owns
<1>7. CASE Crash
  BY <1>1, <1>7 DEF Crash, TypeOK
<1>8. CASE UNCHANGED vars
  BY <1>2, <1>8 DEF vars, rows, recon, Owns
<1> QED BY <1>4, <1>5, <1>6, <1>7, <1>8 DEF Next, Environment

\* proxy_renewal_ops blocks a lease with an unresolved row on behalf of a task at work
\* or of the startup reconcile only: the safety half of RestartFreesReservations.
THEOREM NobodyStranded == Spec => []NothingStranded
<1>1. Init => NothingStranded
  BY DEF Init, NothingStranded, NoRow
<1> HIDE DEF TypeInv, NothingStranded
<1> QED BY <1>1, StrandStep, TypeCorrect, PTL DEF Spec
=============================================================================
