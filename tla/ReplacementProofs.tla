------------------------- MODULE ReplacementProofs -------------------------
(***************************************************************************)
(* Theorems about Replacement, for every number of faults.                 *)
(***************************************************************************)
EXTENDS Replacement, TLAPS

USE FaultAssumption
USE DEF Task, Rollback, Forward, PreCommit, CommitPhase, Past, Terminal,
        Irreversible, Fault, Goto, Return, Advance, SetStage, Overtake,
        vars, world, hist

Undoing   == Rollback \ {"rb_guard"}
Promoting == {"promote", "move", "create", "proxy", "spawn", "ready", "transfer",
              "to_links"}

\* The cutover can be read off the operation's row.
Marked == op.stage \in Irreversible \/ op.status \in Past

(***************************************************************************)
(* The invariant, part by part.                                            *)
(***************************************************************************)

\* The marker is kept while the status is links_ready, or failed by a rollback that
\* had begun; a rollback that has begun keeps the operation unmarked, unless
\* it is overtaken.
MarkerOK ==
  /\ op.stage \in Irreversible =>
       op.status = "links_ready" \/ (op.status = "failed" /\ begun)
  /\ Marked /\ begun => overtaken
  /\ pc["commit"] \in {"delete", "retire", "activate"} => op.stage \in Irreversible

\* Only a rollback makes an operation leave the phase its tasks believe it in.
RollbackOK ==
  /\ \A t \in Task : pc[t] \in Undoing => begun
  /\ overtaken => begun
  /\ begun => op.status \in CommitPhase \cup Past \cup {"failed"}
  /\ ~begun /\ pc["commit"] \notin {"idle", "guards"} => op.status \in CommitPhase \cup Past
  /\ ~begun /\ pc["sweep"] # "idle" => op.status \in CommitPhase \cup Past

\* Before the marker the old manager serves the source.
OldOK == ~overtaken /\ ~Marked => Alive("old") /\ "old" \in route

\* Before a rollback the new manager is as complete as the status says, so it
\* serves the source when the old one is taken away.
NewOK ==
  ~begun =>
    /\ new.enabled = new.row
    /\ pc["commit"] \in Promoting => op.status = "committing"
    /\ pc["commit"] \in {"proxy", "spawn", "ready", "transfer", "to_links"} => new.row
    /\ pc["commit"] = "to_links" => "new" \in route
    /\ op.status \in {"links_pending", "links_ready"} \cup Past
         => new.row /\ "new" \in route

\* What the compensations behind a rollback have undone stays undone.
Undone(P) == (\E t \in Task : pc[t] \in P) \/ (op.status = "failed" /\ begun)
UndoneOK ==
  ~overtaken /\ ~skipped =>
    /\ Undone({"rb_source", "rb_lease", "rb_old", "rb_fail"}) => ~new.enabled
    /\ Undone({"rb_lease", "rb_old", "rb_fail"}) => route = {"old"}
    /\ Undone({"rb_old", "rb_fail"}) => lease # "new"

IInv == TypeOK /\ MarkerOK /\ RollbackOK /\ OldOK /\ NewOK /\ UndoneOK /\ SessionInOnePlace

(***************************************************************************)
(* Types, variable by variable.                                            *)
(***************************************************************************)
OpType ==
  op \in [status : PreCommit \cup CommitPhase \cup Past \cup Terminal,
         stage : {"work"} \cup Irreversible, late : BOOLEAN, proxy : BOOLEAN]
ManagerTypes ==
  /\ old \in [row : BOOLEAN, enabled : BOOLEAN]
  /\ new \in [row : BOOLEAN, enabled : BOOLEAN, up : BOOLEAN, proxied : BOOLEAN]
ThingTypes ==
  /\ file \in [temp : BOOLEAN, perm : BOOLEAN]
  /\ route \subseteq {"old", "new"} /\ lease \in {"pool", "old", "new"}
  /\ links \in BOOLEAN
TaskTypes ==
  /\ pc \in [Task -> {"idle"} \cup Rollback \cup Forward]
  /\ begun \in BOOLEAN /\ overtaken \in BOOLEAN /\ skipped \in BOOLEAN
  /\ faults \in 0 .. MaxFaults

LEMMA OpTypeKept == TypeOK /\ [Next]_vars => OpType'
<1> SUFFICES ASSUME TypeOK, [Next]_vars PROVE OpType'
  OBVIOUS
<1> USE DEF TypeOK, OpType
<1>1. CASE Authorise
  BY <1>1 DEF Authorise, NextStatus
<1>2. CASE Abandon
  BY <1>2 DEF Abandon
<1>3. CASE EntryGuards
  BY <1>3 DEF EntryGuards
<1>4. CASE ToLinks
  BY <1>4 DEF ToLinks
<1>5. CASE CreateLinks
  BY <1>5 DEF CreateLinks
<1>6. CASE StartCutover
  BY <1>6 DEF StartCutover
<1>7. CASE RetireOld
  BY <1>7 DEF RetireOld
<1>8. CASE FinishCutover
  BY <1>8 DEF FinishCutover
<1>9. CASE Notify
  BY <1>9 DEF Notify
<1>10. CASE PassDeadline
  BY <1>10 DEF PassDeadline
<1>11. ASSUME NEW t \in Task, RollbackFail(t) PROVE OpType'
  BY <1>11 DEF RollbackFail
<1>12. CASE UNCHANGED op
  BY <1>12
<1> HIDE DEF TypeOK, OpType
<1> QED
  BY <1>1, <1>2, <1>3, <1>4, <1>5, <1>6, <1>7, <1>8, <1>9, <1>10, <1>11, <1>12
  DEF Next, CommitStep, RollbackStep, DisableOld, DeleteOld, CommitCall,
      PromoteCheck, RuntimeReady, Revalidate, Refused, CommitGivesUp, SweepList,
      PromoteMove, CreateNewManager, AssignProxy, SpawnRuntime, TransferSettings, Crash,
      RuntimeDies, RuntimeRestarts, RollbackGuard, RollbackStop, RollbackDisable,
      RollbackSource, RollbackLease, RollbackOld, RollbackSkips

LEMMA ManagerTypesKept == TypeOK /\ [Next]_vars => ManagerTypes'
<1> SUFFICES ASSUME TypeOK, [Next]_vars PROVE ManagerTypes'
  OBVIOUS
<1> USE DEF TypeOK, ManagerTypes
<1>1. CASE CreateNewManager
  BY <1>1 DEF CreateNewManager
<1>2. CASE AssignProxy
  BY <1>2 DEF AssignProxy
<1>3. CASE SpawnRuntime
  BY <1>3 DEF SpawnRuntime
<1>4. CASE DisableOld
  BY <1>4 DEF DisableOld
<1>5. CASE DeleteOld
  <2>1. old' = [row |-> FALSE, enabled |-> FALSE] \/ UNCHANGED old
    BY <1>5, Zenon DEF DeleteOld
  <2>2. UNCHANGED new
    BY <1>5 DEF DeleteOld
  <2>3. [row |-> FALSE, enabled |-> FALSE] \in [row : BOOLEAN, enabled : BOOLEAN]
    OBVIOUS
  <2>4. old' \in [row : BOOLEAN, enabled : BOOLEAN]
    BY <2>1, <2>3
  <2> QED BY <2>2, <2>4
<1>6. ASSUME NEW t \in Task, RollbackStop(t) PROVE ManagerTypes'
  BY <1>6 DEF RollbackStop
<1>7. ASSUME NEW t \in Task, RollbackDisable(t) PROVE ManagerTypes'
  BY <1>7 DEF RollbackDisable
<1>8. ASSUME NEW t \in Task, RollbackOld(t) PROVE ManagerTypes'
  BY <1>8 DEF RollbackOld
<1>9. CASE RuntimeDies
  BY <1>9 DEF RuntimeDies
<1>10. CASE RuntimeRestarts
  BY <1>10 DEF RuntimeRestarts
<1>11. CASE UNCHANGED <<old, new>>
  BY <1>11
<1> HIDE DEF TypeOK, ManagerTypes
<1> QED
  BY <1>1, <1>2, <1>3, <1>4, <1>5, <1>6, <1>7, <1>8, <1>9, <1>10, <1>11
  DEF Next, CommitStep, RollbackStep, Authorise, Abandon, Notify, PassDeadline,
      EntryGuards, ToLinks, CreateLinks, StartCutover, RetireOld, FinishCutover,
      CommitCall, PromoteCheck, RuntimeReady, Revalidate, Refused, CommitGivesUp,
      SweepList, PromoteMove, TransferSettings, Crash, RollbackGuard, RollbackSource,
      RollbackLease, RollbackSkips, RollbackFail

LEMMA ThingTypesKept == TypeOK /\ [Next]_vars => ThingTypes'
<1> SUFFICES ASSUME TypeOK, [Next]_vars PROVE ThingTypes'
  OBVIOUS
<1> USE DEF TypeOK, ThingTypes
<1>1. CASE Authorise
  BY <1>1 DEF Authorise, NextStatus
<1>2. CASE Abandon
  BY <1>2 DEF Abandon
<1>3. CASE PromoteMove
  BY <1>3 DEF PromoteMove
<1>4. CASE AssignProxy
  BY <1>4 DEF AssignProxy
<1>5. CASE TransferSettings
  BY <1>5 DEF TransferSettings
<1>6. CASE CreateLinks
  BY <1>6 DEF CreateLinks
<1>7. CASE DeleteOld
  BY <1>7 DEF DeleteOld
<1>8. ASSUME NEW t \in Task, RollbackSource(t) PROVE ThingTypes'
  BY <1>8 DEF RollbackSource
<1>9. ASSUME NEW t \in Task, RollbackLease(t) PROVE ThingTypes'
  BY <1>9 DEF RollbackLease
<1>10. ASSUME NEW t \in Task, RollbackFail(t) PROVE ThingTypes'
  BY <1>10 DEF RollbackFail
<1>11. CASE UNCHANGED <<file, route, lease, links>>
  BY <1>11
<1> HIDE DEF TypeOK, ThingTypes
<1> QED
  BY <1>1, <1>2, <1>3, <1>4, <1>5, <1>6, <1>7, <1>8, <1>9, <1>10, <1>11
  DEF Next, CommitStep, RollbackStep, Notify, PassDeadline, EntryGuards, ToLinks,
      StartCutover, RetireOld, FinishCutover, DisableOld, CommitCall, PromoteCheck,
      RuntimeReady, Revalidate, Refused, CommitGivesUp, SweepList, CreateNewManager,
      SpawnRuntime, Crash, RuntimeDies, RuntimeRestarts, RollbackGuard, RollbackStop,
      RollbackDisable, RollbackOld, RollbackSkips

LEMMA TaskTypesKept == TypeOK /\ [Next]_vars => TaskTypes'
<1> SUFFICES ASSUME TypeOK, [Next]_vars PROVE TaskTypes'
  OBVIOUS
<1> USE DEF TypeOK, TaskTypes
<1>1. CASE Authorise
  BY <1>1 DEF Authorise, NextStatus
<1>2. CASE Abandon
  BY <1>2 DEF Abandon
<1>3. CASE Notify
  BY <1>3 DEF Notify
<1>4. CASE PassDeadline
  BY <1>4 DEF PassDeadline
<1>5. CASE EntryGuards
  BY <1>5 DEF EntryGuards
<1>6. CASE ToLinks
  BY <1>6 DEF ToLinks
<1>7. CASE CreateLinks
  BY <1>7 DEF CreateLinks
<1>8. CASE StartCutover
  BY <1>8 DEF StartCutover
<1>9. CASE RetireOld
  BY <1>9 DEF RetireOld
<1>10. CASE FinishCutover
  BY <1>10 DEF FinishCutover
<1>11. CASE DisableOld
  BY <1>11 DEF DisableOld
<1>12. CASE DeleteOld
  BY <1>12 DEF DeleteOld
<1>13. CASE CommitCall \/ PromoteCheck \/ RuntimeReady \/ Revalidate \/
            Refused \/ CommitGivesUp \/ SweepList
  BY <1>13 DEF CommitCall, PromoteCheck, RuntimeReady, Revalidate, Refused,
               CommitGivesUp, SweepList
<1>14. CASE PromoteMove \/ CreateNewManager \/ AssignProxy \/ SpawnRuntime \/
            TransferSettings
  BY <1>14 DEF PromoteMove, CreateNewManager, AssignProxy, SpawnRuntime,
               TransferSettings
<1>15. ASSUME NEW t \in Task, RollbackGuard(t) PROVE TaskTypes'
  <2>1. begun' \in BOOLEAN /\ UNCHANGED <<overtaken, skipped, faults>>
    BY <1>15 DEF RollbackGuard
  <2>2. pc' \in [Task -> {"idle"} \cup Rollback \cup Forward]
    BY <1>15 DEF RollbackGuard
  <2> QED BY <2>1, <2>2
<1>16. ASSUME NEW t \in Task, RollbackStop(t) PROVE TaskTypes'
  BY <1>16 DEF RollbackStop
<1>17. ASSUME NEW t \in Task, RollbackDisable(t) PROVE TaskTypes'
  BY <1>17 DEF RollbackDisable
<1>18. ASSUME NEW t \in Task, RollbackSource(t) PROVE TaskTypes'
  BY <1>18 DEF RollbackSource
<1>19. ASSUME NEW t \in Task, RollbackLease(t) PROVE TaskTypes'
  BY <1>19 DEF RollbackLease
<1>20. ASSUME NEW t \in Task, RollbackOld(t) PROVE TaskTypes'
  BY <1>20 DEF RollbackOld
<1>21. ASSUME NEW t \in Task, RollbackSkips(t) PROVE TaskTypes'
  BY <1>21 DEF RollbackSkips
<1>22. ASSUME NEW t \in Task, RollbackFail(t) PROVE TaskTypes'
  BY <1>22 DEF RollbackFail
<1>23. CASE Crash \/ RuntimeDies \/ RuntimeRestarts \/ UNCHANGED vars
  BY <1>23 DEF Crash, RuntimeDies, RuntimeRestarts
<1> HIDE DEF TypeOK, TaskTypes
<1> QED
  BY <1>1, <1>2, <1>3, <1>4, <1>5, <1>6, <1>7, <1>8, <1>9, <1>10, <1>11, <1>12,
     <1>13, <1>14, <1>15, <1>16, <1>17, <1>18, <1>19, <1>20, <1>21, <1>22, <1>23
  DEF Next, CommitStep, RollbackStep

LEMMA TypesKept == TypeOK /\ [Next]_vars => TypeOK'
<1> SUFFICES ASSUME TypeOK, [Next]_vars PROVE TypeOK'
  OBVIOUS
<1>1. OpType' /\ ManagerTypes' /\ ThingTypes' /\ TaskTypes'
  BY OpTypeKept, ManagerTypesKept, ThingTypesKept, TaskTypesKept
<1> QED BY <1>1 DEF TypeOK, OpType, ManagerTypes, ThingTypes, TaskTypes

(***************************************************************************)
(* The compare-and-set steps, seen in the operation's row.                 *)
(***************************************************************************)

\* A rollback that finds no link of the new manager finds the old one's alone.
LEMMA OnlyOld ==
  TypeOK /\ "old" \in route /\ "new" \notin route => route = {"old"}
BY DEF TypeOK

LEMMA ToLinksStep ==
  ASSUME TypeOK, ToLinks
  PROVE  /\ \/ /\ op.status = "committing" /\ op'.status = "links_pending" /\ op'.stage = "work"
               /\ pc' = [pc EXCEPT !["commit"] = "links"]
            \/ UNCHANGED op /\ pc' = [pc EXCEPT !["commit"] = "idle"]
         /\ pc["commit"] = "to_links"
         /\ UNCHANGED <<world, hist, faults>>
BY DEF ToLinks, TypeOK

LEMMA CreateLinksStep ==
  ASSUME TypeOK, CreateLinks
  PROVE  /\ \/ /\ op.status = "links_pending" /\ op'.status = "links_ready" /\ op'.stage = "work"
               /\ pc' = [pc EXCEPT !["commit"] = "revalidate"]
            \/ UNCHANGED op /\ pc' = [pc EXCEPT !["commit"] = "idle"]
         /\ pc["commit"] = "links"
         /\ UNCHANGED <<old, new, file, route, lease, hist, faults>>
BY DEF CreateLinks, TypeOK

LEMMA RetireOldStep ==
  ASSUME TypeOK, RetireOld
  PROVE  /\ \/ /\ op.status = "links_ready" /\ op'.status = "links_ready"
               /\ op'.stage = "old_manager_retired"
            \/ UNCHANGED op
         /\ pc["commit"] = "retire" /\ pc' = [pc EXCEPT !["commit"] = "activate"]
         /\ UNCHANGED <<world, hist, faults>>
BY DEF RetireOld, TypeOK

LEMMA FinishCutoverStep ==
  ASSUME TypeOK, FinishCutover
  PROVE  /\ \/ /\ op.status = "links_ready" /\ op'.status = "cutover_done" /\ op'.stage = "work"
               /\ new.row /\ new.enabled
            \/ UNCHANGED op
         /\ pc["commit"] = "activate" /\ pc' = [pc EXCEPT !["commit"] = "idle"]
         /\ UNCHANGED <<world, hist, faults>>
BY DEF FinishCutover, TypeOK

LEMMA NotifyStep ==
  ASSUME TypeOK, Notify
  PROVE  /\ op.status \in Past /\ op'.status \in Past /\ op'.stage = "work"
         /\ UNCHANGED <<world, pc, hist, faults>>
BY DEF Notify, TypeOK

(***************************************************************************)
(* The invariant is kept, part by part.                                    *)
(***************************************************************************)

LEMMA MarkerOKKept == IInv /\ [Next]_vars => MarkerOK'
<1> SUFFICES ASSUME IInv, [Next]_vars PROVE MarkerOK'
  OBVIOUS
<1>0. TypeOK'
  BY TypesKept DEF IInv
<1> USE <1>0 DEF IInv, MarkerOK, RollbackOK, OldOK, NewOK, UndoneOK,
                 SessionInOnePlace, Marked, Undone, Alive, Undoing, Promoting, TypeOK
<1>1. CASE Authorise
  BY <1>1 DEF Authorise, NextStatus
<1>2. CASE Abandon
  BY <1>2 DEF Abandon
<1>3. CASE Notify
  BY <1>3, NotifyStep
<1>4. CASE PassDeadline
  BY <1>4 DEF PassDeadline
<1>5. CASE EntryGuards
  BY <1>5 DEF EntryGuards
<1>6. CASE ToLinks
  BY <1>6, ToLinksStep
<1>7. CASE CreateLinks
  BY <1>7, CreateLinksStep
<1>8. CASE StartCutover
  BY <1>8 DEF StartCutover
<1>9. CASE RetireOld
  BY <1>9, RetireOldStep
<1>10. CASE FinishCutover
  BY <1>10, FinishCutoverStep
<1>11. CASE DisableOld
  BY <1>11 DEF DisableOld
<1>12. CASE DeleteOld
  BY <1>12 DEF DeleteOld
<1>13. CASE CommitCall \/ PromoteCheck \/ RuntimeReady \/ Revalidate \/
            Refused \/ CommitGivesUp \/ SweepList
  BY <1>13 DEF CommitCall, PromoteCheck, RuntimeReady, Revalidate, Refused,
               CommitGivesUp, SweepList
<1>14. CASE PromoteMove \/ CreateNewManager \/ AssignProxy \/ SpawnRuntime \/
            TransferSettings
  BY <1>14 DEF PromoteMove, CreateNewManager, AssignProxy, SpawnRuntime,
               TransferSettings
<1>15. ASSUME NEW t \in Task, RollbackGuard(t) PROVE MarkerOK'
  BY <1>15 DEF RollbackGuard
<1>16. ASSUME NEW t \in Task, RollbackStop(t) PROVE MarkerOK'
  BY <1>16 DEF RollbackStop
<1>17. ASSUME NEW t \in Task, RollbackDisable(t) PROVE MarkerOK'
  BY <1>17 DEF RollbackDisable
<1>18. ASSUME NEW t \in Task, RollbackSource(t) PROVE MarkerOK'
  BY <1>18 DEF RollbackSource
<1>19. ASSUME NEW t \in Task, RollbackLease(t) PROVE MarkerOK'
  BY <1>19 DEF RollbackLease
<1>20. ASSUME NEW t \in Task, RollbackOld(t) PROVE MarkerOK'
  BY <1>20 DEF RollbackOld
<1>21. ASSUME NEW t \in Task, RollbackSkips(t) PROVE MarkerOK'
  BY <1>21 DEF RollbackSkips
<1>22. ASSUME NEW t \in Task, RollbackFail(t) PROVE MarkerOK'
  BY <1>22 DEF RollbackFail
<1>23. CASE Crash \/ RuntimeDies \/ RuntimeRestarts \/ UNCHANGED vars
  BY <1>23 DEF Crash, RuntimeDies, RuntimeRestarts
<1> HIDE DEF IInv, MarkerOK, RollbackOK, OldOK, NewOK, UndoneOK, SessionInOnePlace,
             Marked, Undone, Alive, Undoing, Promoting, TypeOK
<1> QED
  BY <1>1, <1>2, <1>3, <1>4, <1>5, <1>6, <1>7, <1>8, <1>9, <1>10, <1>11, <1>12,
     <1>13, <1>14, <1>15, <1>16, <1>17, <1>18, <1>19, <1>20, <1>21, <1>22, <1>23
  DEF Next, CommitStep, RollbackStep

LEMMA RollbackOKKept == IInv /\ [Next]_vars => RollbackOK'
<1> SUFFICES ASSUME IInv, [Next]_vars PROVE RollbackOK'
  OBVIOUS
<1>0. TypeOK'
  BY TypesKept DEF IInv
<1> USE <1>0 DEF IInv, MarkerOK, RollbackOK, OldOK, NewOK, UndoneOK,
                 SessionInOnePlace, Marked, Undone, Alive, Undoing, Promoting, TypeOK
<1>1. CASE Authorise
  BY <1>1 DEF Authorise, NextStatus
<1>2. CASE Abandon
  BY <1>2 DEF Abandon
<1>3. CASE Notify
  BY <1>3, NotifyStep
<1>4. CASE PassDeadline
  BY <1>4 DEF PassDeadline
<1>5. CASE EntryGuards
  BY <1>5 DEF EntryGuards
<1>6. CASE ToLinks
  BY <1>6, ToLinksStep
<1>7. CASE CreateLinks
  BY <1>7, CreateLinksStep
<1>8. CASE StartCutover
  BY <1>8 DEF StartCutover
<1>9. CASE RetireOld
  BY <1>9, RetireOldStep
<1>10. CASE FinishCutover
  BY <1>10, FinishCutoverStep
<1>11. CASE DisableOld
  BY <1>11 DEF DisableOld
<1>12. CASE DeleteOld
  BY <1>12 DEF DeleteOld
<1>13. CASE CommitCall \/ PromoteCheck \/ RuntimeReady \/ Revalidate \/
            Refused \/ CommitGivesUp \/ SweepList
  BY <1>13 DEF CommitCall, PromoteCheck, RuntimeReady, Revalidate, Refused,
               CommitGivesUp, SweepList
<1>14. CASE PromoteMove \/ CreateNewManager \/ AssignProxy \/ SpawnRuntime \/
            TransferSettings
  BY <1>14 DEF PromoteMove, CreateNewManager, AssignProxy, SpawnRuntime,
               TransferSettings
<1>15. ASSUME NEW t \in Task, RollbackGuard(t) PROVE RollbackOK'
  BY <1>15 DEF RollbackGuard
<1>16. ASSUME NEW t \in Task, RollbackStop(t) PROVE RollbackOK'
  BY <1>16 DEF RollbackStop
<1>17. ASSUME NEW t \in Task, RollbackDisable(t) PROVE RollbackOK'
  BY <1>17 DEF RollbackDisable
<1>18. ASSUME NEW t \in Task, RollbackSource(t) PROVE RollbackOK'
  BY <1>18 DEF RollbackSource
<1>19. ASSUME NEW t \in Task, RollbackLease(t) PROVE RollbackOK'
  BY <1>19 DEF RollbackLease
<1>20. ASSUME NEW t \in Task, RollbackOld(t) PROVE RollbackOK'
  BY <1>20 DEF RollbackOld
<1>21. ASSUME NEW t \in Task, RollbackSkips(t) PROVE RollbackOK'
  BY <1>21 DEF RollbackSkips
<1>22. ASSUME NEW t \in Task, RollbackFail(t) PROVE RollbackOK'
  BY <1>22 DEF RollbackFail
<1>23. CASE Crash \/ RuntimeDies \/ RuntimeRestarts \/ UNCHANGED vars
  BY <1>23 DEF Crash, RuntimeDies, RuntimeRestarts
<1> HIDE DEF IInv, MarkerOK, RollbackOK, OldOK, NewOK, UndoneOK, SessionInOnePlace,
             Marked, Undone, Alive, Undoing, Promoting, TypeOK
<1> QED
  BY <1>1, <1>2, <1>3, <1>4, <1>5, <1>6, <1>7, <1>8, <1>9, <1>10, <1>11, <1>12,
     <1>13, <1>14, <1>15, <1>16, <1>17, <1>18, <1>19, <1>20, <1>21, <1>22, <1>23
  DEF Next, CommitStep, RollbackStep

LEMMA OldOKKept == IInv /\ [Next]_vars => OldOK'
<1> SUFFICES ASSUME IInv, [Next]_vars PROVE OldOK'
  OBVIOUS
<1>0. TypeOK'
  BY TypesKept DEF IInv
<1> USE <1>0 DEF IInv, MarkerOK, RollbackOK, OldOK, NewOK, UndoneOK,
                 SessionInOnePlace, Marked, Undone, Alive, Undoing, Promoting, TypeOK
<1>1. CASE Authorise
  BY <1>1 DEF Authorise, NextStatus
<1>2. CASE Abandon
  BY <1>2 DEF Abandon
<1>3. CASE Notify
  BY <1>3, NotifyStep
<1>4. CASE PassDeadline
  BY <1>4 DEF PassDeadline
<1>5. CASE EntryGuards
  BY <1>5 DEF EntryGuards
<1>6. CASE ToLinks
  BY <1>6, ToLinksStep
<1>7. CASE CreateLinks
  BY <1>7, CreateLinksStep
<1>8. CASE StartCutover
  BY <1>8 DEF StartCutover
<1>9. CASE RetireOld
  BY <1>9, RetireOldStep
<1>10. CASE FinishCutover
  BY <1>10, FinishCutoverStep
<1>11. CASE DisableOld
  BY <1>11 DEF DisableOld
<1>12. CASE DeleteOld
  BY <1>12 DEF DeleteOld
<1>13. CASE CommitCall \/ PromoteCheck \/ RuntimeReady \/ Revalidate \/
            Refused \/ CommitGivesUp \/ SweepList
  BY <1>13 DEF CommitCall, PromoteCheck, RuntimeReady, Revalidate, Refused,
               CommitGivesUp, SweepList
<1>14. CASE PromoteMove \/ CreateNewManager \/ AssignProxy \/ SpawnRuntime \/
            TransferSettings
  BY <1>14 DEF PromoteMove, CreateNewManager, AssignProxy, SpawnRuntime,
               TransferSettings
<1>15. ASSUME NEW t \in Task, RollbackGuard(t) PROVE OldOK'
  BY <1>15 DEF RollbackGuard
<1>16. ASSUME NEW t \in Task, RollbackStop(t) PROVE OldOK'
  BY <1>16 DEF RollbackStop
<1>17. ASSUME NEW t \in Task, RollbackDisable(t) PROVE OldOK'
  BY <1>17 DEF RollbackDisable
<1>18. ASSUME NEW t \in Task, RollbackSource(t) PROVE OldOK'
  BY <1>18 DEF RollbackSource
<1>19. ASSUME NEW t \in Task, RollbackLease(t) PROVE OldOK'
  BY <1>19 DEF RollbackLease
<1>20. ASSUME NEW t \in Task, RollbackOld(t) PROVE OldOK'
  BY <1>20 DEF RollbackOld
<1>21. ASSUME NEW t \in Task, RollbackSkips(t) PROVE OldOK'
  BY <1>21 DEF RollbackSkips
<1>22. ASSUME NEW t \in Task, RollbackFail(t) PROVE OldOK'
  BY <1>22 DEF RollbackFail
<1>23. CASE Crash \/ RuntimeDies \/ RuntimeRestarts \/ UNCHANGED vars
  BY <1>23 DEF Crash, RuntimeDies, RuntimeRestarts
<1> HIDE DEF IInv, MarkerOK, RollbackOK, OldOK, NewOK, UndoneOK, SessionInOnePlace,
             Marked, Undone, Alive, Undoing, Promoting, TypeOK
<1> QED
  BY <1>1, <1>2, <1>3, <1>4, <1>5, <1>6, <1>7, <1>8, <1>9, <1>10, <1>11, <1>12,
     <1>13, <1>14, <1>15, <1>16, <1>17, <1>18, <1>19, <1>20, <1>21, <1>22, <1>23
  DEF Next, CommitStep, RollbackStep

LEMMA NewOKKept == IInv /\ [Next]_vars => NewOK'
<1> SUFFICES ASSUME IInv, [Next]_vars PROVE NewOK'
  OBVIOUS
<1>0. TypeOK'
  BY TypesKept DEF IInv
<1> USE <1>0 DEF IInv, MarkerOK, RollbackOK, OldOK, NewOK, UndoneOK,
                 SessionInOnePlace, Marked, Undone, Alive, Undoing, Promoting, TypeOK
<1>1. CASE Authorise
  BY <1>1 DEF Authorise, NextStatus
<1>2. CASE Abandon
  BY <1>2 DEF Abandon
<1>3. CASE Notify
  BY <1>3, NotifyStep
<1>4. CASE PassDeadline
  BY <1>4 DEF PassDeadline
<1>5. CASE EntryGuards
  BY <1>5 DEF EntryGuards
<1>6. CASE ToLinks
  BY <1>6, ToLinksStep
<1>7. CASE CreateLinks
  BY <1>7, CreateLinksStep
<1>8. CASE StartCutover
  BY <1>8 DEF StartCutover
<1>9. CASE RetireOld
  BY <1>9, RetireOldStep
<1>10. CASE FinishCutover
  BY <1>10, FinishCutoverStep
<1>11. CASE DisableOld
  BY <1>11 DEF DisableOld
<1>12. CASE DeleteOld
  BY <1>12 DEF DeleteOld
<1>13. CASE CommitCall \/ PromoteCheck \/ RuntimeReady \/ Revalidate \/
            Refused \/ CommitGivesUp \/ SweepList
  BY <1>13 DEF CommitCall, PromoteCheck, RuntimeReady, Revalidate, Refused,
               CommitGivesUp, SweepList
<1>14. CASE PromoteMove
  BY <1>14 DEF PromoteMove
<1>15. CASE CreateNewManager
  BY <1>15 DEF CreateNewManager
<1>16. CASE AssignProxy
  BY <1>16 DEF AssignProxy
<1>17. CASE SpawnRuntime
  BY <1>17 DEF SpawnRuntime
<1>18. CASE TransferSettings
  BY <1>18 DEF TransferSettings
<1>19. ASSUME NEW t \in Task, RollbackGuard(t) PROVE NewOK'
  BY <1>19 DEF RollbackGuard
<1>20. ASSUME NEW t \in Task, RollbackStop(t) PROVE NewOK'
  BY <1>20 DEF RollbackStop
<1>21. ASSUME NEW t \in Task, RollbackDisable(t) PROVE NewOK'
  BY <1>21 DEF RollbackDisable
<1>22. ASSUME NEW t \in Task, RollbackSource(t) PROVE NewOK'
  BY <1>22 DEF RollbackSource
<1>23. ASSUME NEW t \in Task, RollbackLease(t) PROVE NewOK'
  BY <1>23 DEF RollbackLease
<1>24. ASSUME NEW t \in Task, RollbackOld(t) PROVE NewOK'
  BY <1>24 DEF RollbackOld
<1>25. ASSUME NEW t \in Task, RollbackSkips(t) PROVE NewOK'
  BY <1>25 DEF RollbackSkips
<1>26. ASSUME NEW t \in Task, RollbackFail(t) PROVE NewOK'
  BY <1>26 DEF RollbackFail
<1>27. CASE Crash \/ RuntimeDies \/ RuntimeRestarts \/ UNCHANGED vars
  BY <1>27 DEF Crash, RuntimeDies, RuntimeRestarts
<1> HIDE DEF IInv, MarkerOK, RollbackOK, OldOK, NewOK, UndoneOK, SessionInOnePlace,
             Marked, Undone, Alive, Undoing, Promoting, TypeOK
<1> QED
  BY <1>1, <1>2, <1>3, <1>4, <1>5, <1>6, <1>7, <1>8, <1>9, <1>10, <1>11, <1>12,
     <1>13, <1>14, <1>15, <1>16, <1>17, <1>18, <1>19, <1>20, <1>21, <1>22, <1>23,
     <1>24, <1>25, <1>26, <1>27
  DEF Next, CommitStep, RollbackStep

LEMMA UndoneOKKept == IInv /\ [Next]_vars => UndoneOK'
<1> SUFFICES ASSUME IInv, [Next]_vars PROVE UndoneOK'
  OBVIOUS
<1>0. TypeOK'
  BY TypesKept DEF IInv
<1> USE <1>0 DEF IInv, MarkerOK, RollbackOK, OldOK, NewOK, UndoneOK,
                 SessionInOnePlace, Marked, Undone, Alive, Undoing, Promoting, TypeOK
<1>1. CASE Authorise
  BY <1>1 DEF Authorise, NextStatus
<1>2. CASE Abandon
  BY <1>2 DEF Abandon
<1>3. CASE Notify
  BY <1>3, NotifyStep
<1>4. CASE PassDeadline
  BY <1>4 DEF PassDeadline
<1>5. CASE EntryGuards
  BY <1>5 DEF EntryGuards
<1>6. CASE ToLinks
  BY <1>6, ToLinksStep
<1>7. CASE CreateLinks
  BY <1>7, CreateLinksStep
<1>8. CASE StartCutover
  BY <1>8 DEF StartCutover
<1>9. CASE RetireOld
  BY <1>9, RetireOldStep
<1>10. CASE FinishCutover
  BY <1>10, FinishCutoverStep
<1>11. CASE DisableOld
  BY <1>11 DEF DisableOld
<1>12. CASE DeleteOld
  BY <1>12 DEF DeleteOld
<1>13. CASE CommitCall \/ PromoteCheck \/ RuntimeReady \/ Revalidate \/
            Refused \/ CommitGivesUp \/ SweepList
  BY <1>13 DEF CommitCall, PromoteCheck, RuntimeReady, Revalidate, Refused,
               CommitGivesUp, SweepList
<1>14. CASE PromoteMove \/ CreateNewManager \/ AssignProxy \/ SpawnRuntime \/
            TransferSettings
  BY <1>14 DEF PromoteMove, CreateNewManager, AssignProxy, SpawnRuntime,
               TransferSettings
<1>15. ASSUME NEW t \in Task, RollbackGuard(t) PROVE UndoneOK'
  BY <1>15 DEF RollbackGuard
<1>16. ASSUME NEW t \in Task, RollbackStop(t) PROVE UndoneOK'
  BY <1>16 DEF RollbackStop
<1>17. ASSUME NEW t \in Task, RollbackDisable(t) PROVE UndoneOK'
  BY <1>17 DEF RollbackDisable
<1>18. ASSUME NEW t \in Task, RollbackSource(t) PROVE UndoneOK'
  <2>1. pc[t] = "rb_source" /\ begun
    BY <1>18 DEF RollbackSource
  <2>2. UNCHANGED <<op, new, lease, hist>>
    BY <1>18 DEF RollbackSource
  <2>3. ~overtaken => "old" \in route
    BY <2>1
  <2>4. pc' = [pc EXCEPT ![t] = "rb_lease"]
    BY <1>18 DEF RollbackSource
  <2>5. CASE "new" \in route
    <3>1. route' = {"old"}
      BY <1>18, <2>5 DEF RollbackSource
    <3> QED BY <2>1, <2>2, <2>4, <3>1
  <2>6. CASE "new" \notin route
    <3>1. route' = route
      BY <1>18, <2>6 DEF RollbackSource
    <3>2. ~overtaken => route' = {"old"}
      BY <2>3, <2>6, <3>1, OnlyOld
    <3> QED BY <2>1, <2>2, <2>4, <3>2
  <2> QED BY <2>5, <2>6
<1>19. ASSUME NEW t \in Task, RollbackLease(t) PROVE UndoneOK'
  BY <1>19 DEF RollbackLease
<1>20. ASSUME NEW t \in Task, RollbackOld(t) PROVE UndoneOK'
  BY <1>20 DEF RollbackOld
<1>21. ASSUME NEW t \in Task, RollbackSkips(t) PROVE UndoneOK'
  BY <1>21 DEF RollbackSkips
<1>22. ASSUME NEW t \in Task, RollbackFail(t) PROVE UndoneOK'
  BY <1>22 DEF RollbackFail
<1>23. CASE Crash \/ RuntimeDies \/ RuntimeRestarts \/ UNCHANGED vars
  BY <1>23 DEF Crash, RuntimeDies, RuntimeRestarts
<1> HIDE DEF IInv, MarkerOK, RollbackOK, OldOK, NewOK, UndoneOK, SessionInOnePlace,
             Marked, Undone, Alive, Undoing, Promoting, TypeOK
<1> QED
  BY <1>1, <1>2, <1>3, <1>4, <1>5, <1>6, <1>7, <1>8, <1>9, <1>10, <1>11, <1>12,
     <1>13, <1>14, <1>15, <1>16, <1>17, <1>18, <1>19, <1>20, <1>21, <1>22, <1>23
  DEF Next, CommitStep, RollbackStep

LEMMA SessionInOnePlaceKept == IInv /\ [Next]_vars => SessionInOnePlace'
<1> SUFFICES ASSUME IInv, [Next]_vars PROVE SessionInOnePlace'
  OBVIOUS
<1>0. TypeOK'
  BY TypesKept DEF IInv
<1> USE <1>0 DEF IInv, MarkerOK, RollbackOK, OldOK, NewOK, UndoneOK,
                 SessionInOnePlace, Marked, Undone, Alive, Undoing, Promoting, TypeOK
<1>1. CASE Authorise
  BY <1>1 DEF Authorise, NextStatus
<1>2. CASE Abandon
  BY <1>2 DEF Abandon
<1>3. CASE Notify
  BY <1>3, NotifyStep
<1>4. CASE PassDeadline
  BY <1>4 DEF PassDeadline
<1>5. CASE EntryGuards
  BY <1>5 DEF EntryGuards
<1>6. CASE ToLinks
  BY <1>6, ToLinksStep
<1>7. CASE CreateLinks
  BY <1>7, CreateLinksStep
<1>8. CASE StartCutover
  BY <1>8 DEF StartCutover
<1>9. CASE RetireOld
  BY <1>9, RetireOldStep
<1>10. CASE FinishCutover
  BY <1>10, FinishCutoverStep
<1>11. CASE DisableOld
  BY <1>11 DEF DisableOld
<1>12. CASE DeleteOld
  BY <1>12 DEF DeleteOld
<1>13. CASE CommitCall \/ PromoteCheck \/ RuntimeReady \/ Revalidate \/
            Refused \/ CommitGivesUp \/ SweepList
  BY <1>13 DEF CommitCall, PromoteCheck, RuntimeReady, Revalidate, Refused,
               CommitGivesUp, SweepList
<1>14. CASE PromoteMove \/ CreateNewManager \/ AssignProxy \/ SpawnRuntime \/
            TransferSettings
  BY <1>14 DEF PromoteMove, CreateNewManager, AssignProxy, SpawnRuntime,
               TransferSettings
<1>15. ASSUME NEW t \in Task, RollbackGuard(t) PROVE SessionInOnePlace'
  BY <1>15 DEF RollbackGuard
<1>16. ASSUME NEW t \in Task, RollbackStop(t) PROVE SessionInOnePlace'
  BY <1>16 DEF RollbackStop
<1>17. ASSUME NEW t \in Task, RollbackDisable(t) PROVE SessionInOnePlace'
  BY <1>17 DEF RollbackDisable
<1>18. ASSUME NEW t \in Task, RollbackSource(t) PROVE SessionInOnePlace'
  BY <1>18 DEF RollbackSource
<1>19. ASSUME NEW t \in Task, RollbackLease(t) PROVE SessionInOnePlace'
  BY <1>19 DEF RollbackLease
<1>20. ASSUME NEW t \in Task, RollbackOld(t) PROVE SessionInOnePlace'
  BY <1>20 DEF RollbackOld
<1>21. ASSUME NEW t \in Task, RollbackSkips(t) PROVE SessionInOnePlace'
  BY <1>21 DEF RollbackSkips
<1>22. ASSUME NEW t \in Task, RollbackFail(t) PROVE SessionInOnePlace'
  BY <1>22 DEF RollbackFail
<1>23. CASE Crash \/ RuntimeDies \/ RuntimeRestarts \/ UNCHANGED vars
  BY <1>23 DEF Crash, RuntimeDies, RuntimeRestarts
<1> HIDE DEF IInv, MarkerOK, RollbackOK, OldOK, NewOK, UndoneOK, SessionInOnePlace,
             Marked, Undone, Alive, Undoing, Promoting, TypeOK
<1> QED
  BY <1>1, <1>2, <1>3, <1>4, <1>5, <1>6, <1>7, <1>8, <1>9, <1>10, <1>11, <1>12,
     <1>13, <1>14, <1>15, <1>16, <1>17, <1>18, <1>19, <1>20, <1>21, <1>22, <1>23
  DEF Next, CommitStep, RollbackStep

LEMMA Initial == Init => IInv
<1> SUFFICES ASSUME Init PROVE IInv
  OBVIOUS
<1>1. TypeOK
  <2>1. OpType
    BY DEF Init, OpType
  <2>2. ManagerTypes
    BY DEF Init, ManagerTypes
  <2>3. ThingTypes
    BY DEF Init, ThingTypes
  <2>4. TaskTypes
    <3>1. pc \in [Task -> {"idle"} \cup Rollback \cup Forward] /\ faults \in 0 .. MaxFaults
      BY DEF Init
    <3> QED BY <3>1 DEF Init, TaskTypes
  <2> QED BY <2>1, <2>2, <2>3, <2>4 DEF TypeOK, OpType, ManagerTypes, ThingTypes, TaskTypes
<1>2. /\ op.status = "draft" /\ op.stage = "work"
      /\ old.row /\ old.enabled /\ ~new.row /\ ~new.enabled /\ route = {"old"}
      /\ \A t \in Task : pc[t] = "idle"
      /\ ~begun /\ ~overtaken
  BY DEF Init
<1>3. MarkerOK /\ RollbackOK /\ SessionInOnePlace
  BY <1>2 DEF MarkerOK, RollbackOK, SessionInOnePlace, Undoing, Marked
<1>4. OldOK
  BY <1>2 DEF OldOK, Alive
<1>6. new.enabled = new.row
  BY DEF Init
<1>7. NewOK
  BY <1>2, <1>6 DEF NewOK, Promoting
<1>5. UndoneOK
  BY <1>2 DEF UndoneOK, Undone
<1> QED BY <1>1, <1>3, <1>4, <1>5, <1>7 DEF IInv

LEMMA Inductive == IInv /\ [Next]_vars => IInv'
BY TypesKept, MarkerOKKept, RollbackOKKept, OldOKKept, NewOKKept, UndoneOKKept,
   SessionInOnePlaceKept DEF IInv

(***************************************************************************)
(* The theorems.                                                           *)
(***************************************************************************)

\* The inductive invariant of the commit, the cutover, the rollback and the sweep of
\* main.py holds through any number of crashes and failing steps.
THEOREM ReplacementInvariant == Spec => []IInv
<1> HIDE DEF vars
<1> QED BY Initial, Inductive, PTL DEF Spec

\* The row of manager_replacements, the managers and the files keep to the values the
\* code writes.
THEOREM ReplacementTypeCorrect == Spec => []TypeOK
<1>1. IInv => TypeOK
  BY DEF IInv
<1> QED BY <1>1, ReplacementInvariant, PTL

\* An enabled manager has the source's link at every moment of a replacement, unless
\* the commit overtakes a rollback.
THEOREM SourceAlwaysServed == Spec => []SourceServed
<1>1. IInv => SourceServed
  BY DEF IInv, TypeOK, MarkerOK, RollbackOK, OldOK, NewOK, SourceServed, Marked, Alive
<1> QED BY <1>1, ReplacementInvariant, PTL

\* _repl4_promote_session can be interrupted and repeated without losing or
\* doubling the session.
THEOREM SessionNeverLost == Spec => []SessionInOnePlace
<1>1. IInv => SessionInOnePlace
  BY DEF IInv
<1> QED BY <1>1, ReplacementInvariant, PTL

\* _repl4_rollback leaves the managers as they were, unless it says it could not or
\* is overtaken.
THEOREM RolledBackRestored == Spec => []RollbackRestores
<1>1. IInv => RollbackRestores
  BY DEF IInv, TypeOK, MarkerOK, RollbackOK, OldOK, UndoneOK, Undone,
         RollbackRestores, Marked, Alive
<1> QED BY <1>1, ReplacementInvariant, PTL

LEMMA OldStep ==
  ASSUME IInv, [Next]_vars,
         (Alive("old") /\ ~Alive("old")') \/ ("old" \in route /\ "old" \notin route')
  PROVE  op.status \in {"links_ready", "failed"} /\ op.stage \in Irreversible
<1>1. CASE DisableOld
  BY <1>1 DEF DisableOld, Alive
<1>2. CASE DeleteOld
  BY <1>2 DEF DeleteOld, IInv, MarkerOK
<1>3. ASSUME NEW t \in Task, RollbackOld(t) PROVE FALSE
  BY <1>3 DEF RollbackOld, Alive, IInv, TypeOK
<1>4. ASSUME NEW t \in Task, RollbackSource(t) PROVE FALSE
  BY <1>4 DEF RollbackSource, Alive
<1>5. CASE TransferSettings
  BY <1>5 DEF TransferSettings, Alive
<1>6. CASE UNCHANGED <<old, route>>
  BY <1>6 DEF Alive
<1> QED
  BY <1>1, <1>2, <1>3, <1>4, <1>5, <1>6
  DEF Next, CommitStep, RollbackStep, Authorise, Abandon, Notify, PassDeadline,
      EntryGuards, ToLinks, CreateLinks, StartCutover, RetireOld, FinishCutover,
      CommitCall, PromoteCheck, RuntimeReady, Revalidate, Refused, CommitGivesUp,
      SweepList, PromoteMove, CreateNewManager, AssignProxy, SpawnRuntime, Crash,
      RuntimeDies, RuntimeRestarts, RollbackGuard, RollbackStop, RollbackDisable,
      RollbackLease, RollbackSkips, RollbackFail

\* _repl4_cutover_old_manager: the old manager is taken down only by a step that finds
\* the durable marker.
THEOREM MarkedBeforeOldGoes == Spec => OldUntouchedBeforeMarker
<1>1. IInv /\ [Next]_vars =>
        [(Alive("old") /\ ~Alive("old")') \/ ("old" \in route /\ "old" \notin route')
           => op.status \in {"links_ready", "failed"} /\ op.stage \in Irreversible]_vars
  BY OldStep
<1> HIDE DEF vars
<1> QED BY <1>1, ReplacementInvariant, PTL DEF Spec, OldUntouchedBeforeMarker

(***************************************************************************)
(* The replacement implements Handover.                                    *)
(***************************************************************************)

\* An operation that was given up before its commit left no link of the new manager.
FreshOK ==
  op.status \in PreCommit \cup {"cancelled"} \/ (op.status = "failed" /\ ~begun)
    => "new" \notin route

\* Behind the first step of the cutover the old manager stays disabled.
CutOK ==
  ~overtaken /\ pc["commit"] \in {"delete", "retire", "activate"} => ~old.enabled

HInv == IInv /\ FreshOK /\ CutOK

LEMMA FreshOKKept == IInv /\ FreshOK /\ [Next]_vars => FreshOK'
<1> SUFFICES ASSUME IInv, FreshOK, [Next]_vars PROVE FreshOK'
  OBVIOUS
<1> USE DEF FreshOK, IInv, TypeOK, RollbackOK, NewOK, Undoing, Promoting
<1>1. CASE Authorise
  BY <1>1 DEF Authorise, NextStatus
<1>2. CASE Abandon
  BY <1>2 DEF Abandon
<1>3. CASE Notify
  BY <1>3, NotifyStep
<1>4. CASE EntryGuards
  BY <1>4 DEF EntryGuards
<1>5. CASE ToLinks
  BY <1>5, ToLinksStep DEF ToLinks
<1>6. CASE CreateLinks
  BY <1>6, CreateLinksStep DEF CreateLinks
<1>7. CASE RetireOld
  BY <1>7, RetireOldStep DEF RetireOld
<1>8. CASE FinishCutover
  BY <1>8, FinishCutoverStep DEF FinishCutover
<1>9. CASE StartCutover
  BY <1>9 DEF StartCutover
<1>10. CASE TransferSettings
  BY <1>10 DEF TransferSettings
<1>11. CASE DeleteOld
  BY <1>11 DEF DeleteOld
<1>12. ASSUME NEW t \in Task, RollbackSource(t) PROVE FreshOK'
  BY <1>12 DEF RollbackSource
<1>13. ASSUME NEW t \in Task, RollbackFail(t) PROVE FreshOK'
  BY <1>13 DEF RollbackFail
<1>14. ASSUME NEW t \in Task, RollbackGuard(t) PROVE FreshOK'
  BY <1>14 DEF RollbackGuard
<1>15. CASE PassDeadline
  BY <1>15 DEF PassDeadline
<1>16. CASE UNCHANGED <<op, begun, route>>
  BY <1>16
<1> HIDE DEF FreshOK, IInv, TypeOK, RollbackOK, NewOK, Undoing, Promoting
<1> QED
  BY <1>1, <1>2, <1>3, <1>4, <1>5, <1>6, <1>7, <1>8, <1>9, <1>10, <1>11, <1>12,
     <1>13, <1>14, <1>15, <1>16
  DEF Next, CommitStep, RollbackStep, DisableOld, CommitCall, PromoteCheck,
      RuntimeReady, Revalidate, Refused, CommitGivesUp, SweepList, PromoteMove,
      CreateNewManager, AssignProxy, SpawnRuntime, Crash, RuntimeDies,
      RuntimeRestarts, RollbackStop, RollbackDisable, RollbackLease, RollbackOld,
      RollbackSkips

LEMMA CutOKKept == IInv /\ CutOK /\ [Next]_vars => CutOK'
<1> SUFFICES ASSUME IInv, CutOK, [Next]_vars PROVE CutOK'
  OBVIOUS
<1> USE DEF CutOK, IInv, TypeOK, RollbackOK, MarkerOK, Marked, Undoing
<1>1. CASE DisableOld
  BY <1>1 DEF DisableOld
<1>2. CASE DeleteOld
  <2>1. \/ old' = [row |-> FALSE, enabled |-> FALSE]
        \/ pc' = [pc EXCEPT !["commit"] = "idle"]
    BY <1>2, Zenon DEF DeleteOld
  <2> QED BY <2>1
<1>3. CASE RetireOld
  BY <1>3, RetireOldStep DEF RetireOld
<1>4. CASE FinishCutover
  BY <1>4, FinishCutoverStep DEF FinishCutover
<1>5. ASSUME NEW t \in Task, RollbackOld(t) PROVE CutOK'
  BY <1>5 DEF RollbackOld
<1>6. CASE ToLinks
  BY <1>6, ToLinksStep DEF ToLinks
<1>7. CASE CreateLinks
  BY <1>7, CreateLinksStep DEF CreateLinks
<1>8. CASE \/ CommitCall \/ PromoteCheck \/ RuntimeReady \/ Revalidate \/ Refused
           \/ CommitGivesUp \/ StartCutover \/ EntryGuards
  BY <1>8 DEF CommitCall, PromoteCheck, RuntimeReady, Revalidate, Refused,
              CommitGivesUp, StartCutover, EntryGuards
<1>9. CASE \/ PromoteMove \/ CreateNewManager \/ AssignProxy \/ SpawnRuntime
           \/ TransferSettings
  BY <1>9 DEF PromoteMove, CreateNewManager, AssignProxy, SpawnRuntime,
              TransferSettings
<1>10. ASSUME NEW t \in Task,
              \/ RollbackGuard(t) \/ RollbackStop(t) \/ RollbackDisable(t)
              \/ RollbackSource(t) \/ RollbackLease(t) \/ RollbackFail(t)
       PROVE  CutOK'
  BY <1>10 DEF RollbackGuard, RollbackStop, RollbackDisable, RollbackSource,
               RollbackLease, RollbackFail
<1>11. ASSUME NEW t \in Task, RollbackSkips(t) PROVE CutOK'
  BY <1>11 DEF RollbackSkips
<1>12. CASE SweepList \/ Crash
  BY <1>12 DEF SweepList, Crash
<1>13. CASE UNCHANGED <<old, pc, overtaken>>
  BY <1>13
<1> HIDE DEF CutOK, IInv, TypeOK, RollbackOK, MarkerOK, Marked, Undoing
<1> QED
  BY <1>1, <1>2, <1>3, <1>4, <1>5, <1>6, <1>7, <1>8, <1>9, <1>10, <1>11, <1>12,
     <1>13
  DEF Next, CommitStep, RollbackStep, Authorise, Abandon, Notify, PassDeadline,
      RuntimeDies, RuntimeRestarts

LEMMA HandInvariant == Spec => []HInv
<1>1. Init => FreshOK /\ CutOK
  BY DEF Init, FreshOK, CutOK
<1>2. Spec => []IInv
  BY ReplacementInvariant
<1>3. IInv /\ [Next]_vars /\ FreshOK /\ CutOK => (FreshOK /\ CutOK)'
  BY FreshOKKept, CutOKKept
<1> HIDE DEF vars
<1> QED BY <1>1, <1>2, <1>3, PTL DEF Spec, HInv

\* What the phase and the duty say of the state.
PhaseMeans ==
  /\ Phase = "muddled" <=> overtaken
  /\ Phase = "done" <=> ~overtaken /\ op.status \in Past
  /\ Phase = "undone" <=> ~overtaken /\ op.status \in {"failed", "cancelled"}
  /\ Phase = "undoing" <=> /\ ~overtaken /\ begun
                           /\ op.status \notin Past \cup {"failed", "cancelled"}
  /\ Phase = "sealed" <=> /\ ~overtaken /\ ~begun /\ op.stage \in Irreversible
                          /\ op.status \notin Past \cup {"failed", "cancelled"}
  /\ Phase = "before" <=> /\ ~overtaken /\ ~begun /\ op.stage \notin Irreversible
                          /\ op.status \notin Past \cup {"failed", "cancelled"}
DutyMeans ==
  /\ OnDuty \subseteq {"old", "new"}
  /\ "old" \in OnDuty <=> "old" \in route /\ old.row /\ old.enabled
  /\ "new" \in OnDuty <=> "new" \in route /\ new.row /\ new.enabled

LEMMA PhaseFacts ==
  ASSUME TypeOK, TypeOK'
  PROVE  PhaseMeans /\ PhaseMeans'
<1>1. PhaseMeans
  BY DEF TypeOK, PhaseMeans, Phase
<1>2. PhaseMeans'
  BY DEF TypeOK, PhaseMeans, Phase
<1> QED BY <1>1, <1>2

LEMMA DutyFacts ==
  ASSUME TypeOK, TypeOK'
  PROVE  DutyMeans /\ DutyMeans'
<1>1. DutyMeans
  BY DEF TypeOK, DutyMeans, OnDuty, Alive
<1>2. DutyMeans'
  BY DEF TypeOK, DutyMeans, OnDuty, Alive
<1> QED BY <1>1, <1>2

\* A set of managers is known by its members.
LEMMA OneOrBoth ==
  ASSUME NEW S, S \subseteq {"old", "new"}
  PROVE  /\ "old" \in S /\ "new" \notin S => S = {"old"}
         /\ "old" \notin S /\ "new" \in S => S = {"new"}
         /\ "old" \in S /\ "new" \in S => S = {"old", "new"}
         /\ \A T \in SUBSET {"old", "new"} :
              ("old" \in S <=> "old" \in T) /\ ("new" \in S <=> "new" \in T) => S = T
<1>1. "old" \in S /\ "new" \notin S => S = {"old"}
  OBVIOUS
<1>2. "old" \notin S /\ "new" \in S => S = {"new"}
  OBVIOUS
<1>3. "old" \in S /\ "new" \in S => S = {"old", "new"}
  OBVIOUS
<1>4. ASSUME NEW T \in SUBSET {"old", "new"},
             "old" \in S <=> "old" \in T, "new" \in S <=> "new" \in T
      PROVE  S = T
  <2>1. \A x : x \in S => x = "old" \/ x = "new"
    OBVIOUS
  <2>2. \A x : x \in T => x = "old" \/ x = "new"
    OBVIOUS
  <2>3. \A x : x \in S <=> x \in T
    BY <1>4, <2>1, <2>2
  <2> QED BY <2>3
<1> QED BY <1>1, <1>2, <1>3, <1>4

\* Who is on duty in each phase.
LEMMA DutyOfPhase ==
  ASSUME HInv, PhaseMeans, DutyMeans
  PROVE  /\ Phase \in {"before", "undoing"} => "old" \in OnDuty
         /\ Phase = "undone" => "old" \in OnDuty
         /\ Phase \in {"sealed", "done"} => "new" \in OnDuty
BY DEF HInv, IInv, TypeOK, MarkerOK, RollbackOK, OldOK, NewOK, Marked, Alive,
       PhaseMeans, DutyMeans

\* A step that moves neither the duty nor what the phase is read from.
LEMMA DutyFrame ==
  ASSUME TypeOK, TypeOK', UNCHANGED <<old, route, new.row, new.enabled>>
  PROVE  OnDuty' = OnDuty
<1>1. DutyMeans /\ DutyMeans'
  BY DutyFacts
<1>2. /\ OnDuty' \subseteq {"old", "new"} /\ OnDuty \in SUBSET {"old", "new"}
      /\ "old" \in OnDuty' <=> "old" \in OnDuty
      /\ "new" \in OnDuty' <=> "new" \in OnDuty
  BY <1>1 DEF DutyMeans
<1> QED BY <1>2, OneOrBoth

LEMMA PhaseFrame ==
  ASSUME UNCHANGED <<op, begun, overtaken>>
  PROVE  Phase' = Phase
BY DEF Phase

HandVars == <<OnDuty, Phase, skipped>>

LEMMA HandInit == Init => Hand!Init
<1> SUFFICES ASSUME Init PROVE Hand!Init
  OBVIOUS
<1>1. OnDuty = {"old"}
  BY DEF Init, OnDuty, Alive
<1>2. Phase = "before"
  BY DEF Init, Phase
<1> QED BY <1>1, <1>2 DEF Init, Hand!Init

\* A step of the commit behind a rollback that has begun: nothing is promised.
LEMMA HandOvertake ==
  ASSUME HInv, TypeOK', Overtake, begun
  PROVE  Hand!Next
<1>1. PhaseMeans /\ PhaseMeans'
  BY PhaseFacts DEF HInv, IInv
<1>2. Phase \in {"undoing", "undone", "muddled"}
  BY <1>1 DEF PhaseMeans, HInv, IInv, MarkerOK, Marked, TypeOK
<1>3. Phase' = "muddled"
  BY <1>1 DEF PhaseMeans
<1> QED BY <1>2, <1>3 DEF Hand!Next, Hand!Muddle

\* Whatever happens to an operation that is overtaken.
LEMMA HandMuddled ==
  ASSUME HInv, TypeOK', overtaken, overtaken'
  PROVE  Hand!Next
<1>1. PhaseMeans /\ PhaseMeans'
  BY PhaseFacts DEF HInv, IInv
<1> QED BY <1>1 DEF PhaseMeans, Hand!Next, Hand!Muddle

\* The steps of the wizard, of the commit before the cutover and of the sweep
\* that move nobody.
LEMMA HandSameDuty ==
  ASSUME HInv, TypeOK', [Next]_vars, UNCHANGED <<old, route, new.row, new.enabled>>,
         ~\E t \in Task : RollbackSkips(t)
  PROVE  Hand!Next \/ UNCHANGED HandVars
<1>1. PhaseMeans /\ PhaseMeans' /\ DutyMeans /\ DutyMeans' /\ OnDuty' = OnDuty
  BY PhaseFacts, DutyFacts, DutyFrame DEF HInv, IInv
<1> USE DEF HInv, IInv, MarkerOK, RollbackOK, Marked, Undoing, TypeOK, HandVars
<1>2. CASE Authorise
  <2>1. Phase' = Phase /\ skipped' = skipped
    BY <1>1, <1>2 DEF Authorise, NextStatus, PhaseMeans
  <2> QED BY <1>1, <2>1
<1>3. CASE Abandon
  <2>1. ~begun /\ ~overtaken /\ op.stage \notin Irreversible /\ op.status \in PreCommit
    BY <1>3 DEF Abandon
  <2>2. Phase = "before" /\ Phase' = "undone" /\ skipped' = skipped
    BY <1>1, <1>3, <2>1 DEF Abandon, PhaseMeans
  <2>3. "old" \in OnDuty /\ "new" \notin OnDuty
    BY <1>1, <2>1 DEF FreshOK, OldOK, DutyMeans, Alive
  <2>4. OnDuty = {"old"}
    BY <1>1, <2>3, OneOrBoth DEF DutyMeans
  <2> QED BY <1>1, <2>2, <2>4 DEF Hand!Next, Hand!Abandon
<1>4. CASE EntryGuards
  <2>1. Phase' = Phase /\ skipped' = skipped
    BY <1>1, <1>4 DEF EntryGuards, PhaseMeans
  <2> QED BY <1>1, <2>1
<1>5. CASE ToLinks
  <2>1. Phase' = Phase /\ skipped' = skipped
    BY <1>1, <1>5, ToLinksStep DEF PhaseMeans, ToLinks
  <2> QED BY <1>1, <2>1
<1>6. CASE CreateLinks
  <2>1. Phase' = Phase /\ skipped' = skipped
    BY <1>1, <1>6, CreateLinksStep DEF PhaseMeans, CreateLinks
  <2> QED BY <1>1, <2>1
<1>7. CASE StartCutover
  <2>1. CASE UNCHANGED <<op, hist>>
    BY <1>1, <2>1, PhaseFrame
  <2>2. CASE SetStage("cutover_started") /\ Overtake /\ ~begun
    <3>1. op.status = "links_ready" /\ op'.status = "links_ready"
          /\ op'.stage \in Irreversible /\ ~overtaken /\ ~overtaken' /\ ~begun'
          /\ skipped' = skipped
      BY <2>2
    <3>2. Phase' = "sealed" /\ (Phase = "before" \/ Phase = "sealed")
      <4>1. Phase' = "sealed"
        BY <1>1, <3>1 DEF PhaseMeans
      <4>2. CASE op.stage \in Irreversible
        BY <1>1, <2>2, <3>1, <4>2 DEF PhaseMeans
      <4>3. CASE op.stage \notin Irreversible
        BY <1>1, <2>2, <3>1, <4>3 DEF PhaseMeans
      <4> QED BY <4>1, <4>2, <4>3
    <3>3. CASE Phase = "before"
      <4>1. "old" \in OnDuty /\ "new" \in OnDuty
        BY <1>1, <3>1, <3>3 DEF OldOK, NewOK, DutyMeans, PhaseMeans, Alive
      <4>2. OnDuty = {"old", "new"}
        BY <1>1, <4>1, OneOrBoth DEF DutyMeans
      <4> QED BY <1>1, <3>1, <3>2, <3>3, <4>2 DEF Hand!Next, Hand!Seal
    <3> QED BY <1>1, <3>1, <3>2, <3>3
  <2>3. CASE Overtake /\ begun
    BY <2>3, HandOvertake
  <2> QED BY <1>7, <2>1, <2>2, <2>3 DEF StartCutover
<1>8. CASE RetireOld
  <2>1. Phase' = Phase /\ skipped' = skipped
    BY <1>1, <1>8, RetireOldStep DEF PhaseMeans, RetireOld
  <2> QED BY <1>1, <2>1
<1>9. CASE FinishCutover
  <2>1. CASE UNCHANGED op
    BY <1>1, <1>9, <2>1, PhaseFrame DEF FinishCutover
  <2>2. CASE overtaken
    BY <1>9, <2>2, HandMuddled DEF FinishCutover
  <2>3. CASE ~overtaken /\ op.status = "links_ready" /\ op'.status = "cutover_done"
    <3>1. ~begun /\ op.stage \in Irreversible /\ ~old.enabled /\ ~overtaken'
      BY <1>9, <2>3 DEF FinishCutover, CutOK
    <3>2. Phase = "sealed" /\ Phase' = "done" /\ skipped' = skipped
      BY <1>1, <1>9, <2>3, <3>1 DEF PhaseMeans, FinishCutover
    <3>3. "old" \notin OnDuty /\ "new" \in OnDuty
      BY <1>1, <2>3, <3>1 DEF DutyMeans, NewOK
    <3>4. OnDuty = {"new"}
      BY <1>1, <3>3, OneOrBoth DEF DutyMeans
    <3> QED BY <1>1, <3>2, <3>4 DEF Hand!Next, Hand!Finish
  <2> QED BY <1>9, <2>1, <2>2, <2>3, FinishCutoverStep
<1>10. CASE Notify
  <2>1. Phase' = Phase /\ skipped' = skipped
    BY <1>1, <1>10, NotifyStep DEF PhaseMeans
  <2> QED BY <1>1, <2>1
<1>11. CASE PassDeadline
  <2>1. Phase' = Phase /\ skipped' = skipped
    BY <1>1, <1>11 DEF PhaseMeans, PassDeadline
  <2> QED BY <1>1, <2>1
<1>12. ASSUME NEW t \in Task, RollbackGuard(t) PROVE Hand!Next \/ UNCHANGED HandVars
  <2>1. CASE UNCHANGED begun
    BY <1>1, <1>12, <2>1, PhaseFrame DEF RollbackGuard
  <2>2. CASE ~begun /\ begun'
    <3>1. op' = op /\ overtaken' = overtaken /\ skipped' = skipped
          /\ op.stage \notin Irreversible /\ op.status \notin Past
      BY <1>12, <2>2 DEF RollbackGuard
    <3>2. CASE Phase = "before"
      <4>1. Phase' = "undoing"
        BY <1>1, <2>2, <3>1, <3>2 DEF PhaseMeans
      <4> QED BY <1>1, <3>1, <3>2, <4>1 DEF Hand!Next, Hand!TurnBack
    <3>3. CASE op.status \in {"failed", "cancelled"} \/ overtaken
      BY <1>1, <2>2, <3>1, <3>3 DEF PhaseMeans
    <3> QED BY <1>1, <2>2, <3>1, <3>2, <3>3 DEF PhaseMeans
  <2> QED BY <1>12, <2>1, <2>2 DEF RollbackGuard
<1>13. ASSUME NEW t \in Task, RollbackFail(t) PROVE Hand!Next \/ UNCHANGED HandVars
  <2>1. CASE op' = op
    BY <1>1, <1>13, <2>1, PhaseFrame DEF RollbackFail
  <2>2. CASE overtaken
    BY <1>13, <2>2, HandMuddled DEF RollbackFail
  <2>3. CASE ~overtaken /\ op.status \notin Terminal /\ op'.status = "failed"
    <3>1. begun /\ ~overtaken' /\ skipped' = skipped
      BY <1>13, <2>3 DEF RollbackFail
    <3>2. Phase = "undoing" /\ Phase' = "undone"
      BY <1>1, <2>3, <3>1 DEF PhaseMeans
    <3>3. "old" \in OnDuty
      BY <1>1, <3>2, DutyOfPhase
    <3>4. ~skipped => "new" \notin OnDuty
      BY <1>1, <1>13, <2>3 DEF UndoneOK, Undone, RollbackFail, DutyMeans
    <3>5. OnDuty = {"old"} \/ skipped
      BY <1>1, <3>3, <3>4, OneOrBoth DEF DutyMeans
    <3> QED BY <1>1, <3>1, <3>2, <3>5 DEF Hand!Next, Hand!Close
  <2> QED BY <1>13, <2>1, <2>2, <2>3 DEF RollbackFail
<1>14. CASE Overtake /\ UNCHANGED op
  <2>1. CASE begun
    BY <1>14, <2>1, HandOvertake
  <2>2. CASE ~begun
    BY <1>1, <1>14, <2>2, PhaseFrame
  <2> QED BY <2>1, <2>2
<1>15. CASE UNCHANGED <<op, hist>>
  BY <1>1, <1>15, PhaseFrame
<1> HIDE DEF HInv, IInv, MarkerOK, RollbackOK, Marked, Undoing, TypeOK, HandVars
<1> QED
  BY <1>2, <1>3, <1>4, <1>5, <1>6, <1>7, <1>8, <1>9, <1>10, <1>11, <1>12, <1>13,
     <1>14, <1>15
  DEF Next, CommitStep, RollbackStep, DisableOld, DeleteOld, CommitCall,
      PromoteCheck, RuntimeReady, Revalidate, Refused, CommitGivesUp, SweepList,
      PromoteMove, CreateNewManager, AssignProxy, SpawnRuntime, TransferSettings,
      Crash, RuntimeDies, RuntimeRestarts, RollbackStop, RollbackDisable,
      RollbackSource, RollbackLease, RollbackOld

\* The steps that move somebody.
LEMMA HandJoins ==
  ASSUME HInv, TypeOK', CreateNewManager \/ TransferSettings
  PROVE  Hand!Next \/ UNCHANGED HandVars
<1>1. PhaseMeans /\ PhaseMeans' /\ DutyMeans /\ DutyMeans'
  BY PhaseFacts, DutyFacts DEF HInv, IInv
<1>2. CASE begun
  BY <1>2, HandOvertake DEF CreateNewManager, TransferSettings
<1>3. CASE ~begun
  <2>1. /\ op' = op /\ begun' = begun /\ overtaken' = overtaken
        /\ skipped' = skipped /\ old' = old
    BY <1>3 DEF CreateNewManager, TransferSettings, HInv, IInv, RollbackOK, TypeOK
  <2>2. op.status = "committing" /\ op.stage \notin Irreversible /\ ~overtaken
    BY <1>3 DEF HInv, IInv, NewOK, MarkerOK, RollbackOK, TypeOK, Promoting,
               CreateNewManager, TransferSettings
  <2>3. Phase = "before" /\ Phase' = Phase
    BY <1>1, <1>3, <2>1, <2>2, PhaseFrame DEF PhaseMeans
  <2>4. "old" \in OnDuty /\ "old" \in route
    BY <1>1, <2>3, DutyOfPhase DEF DutyMeans
  <2>5. "old" \in OnDuty'
    BY <1>1, <2>1, <2>4 DEF DutyMeans, CreateNewManager, TransferSettings
  <2>6. CASE "new" \in OnDuty'
    <3>1. OnDuty' = {"old", "new"}
      BY <1>1, <2>5, <2>6, OneOrBoth DEF DutyMeans
    <3> QED BY <2>1, <2>3, <3>1 DEF Hand!Next, Hand!Join
  <2>7. CASE "new" \notin OnDuty'
    <3>1. "new" \notin OnDuty
      BY <1>1, <2>7 DEF DutyMeans, CreateNewManager, TransferSettings, HInv, IInv, TypeOK
    <3>2. OnDuty' = OnDuty
      BY <1>1, <2>4, <2>5, <2>7, <3>1, OneOrBoth DEF DutyMeans
    <3> QED BY <2>1, <2>3, <3>2 DEF HandVars
  <2> QED BY <2>6, <2>7
<1> QED BY <1>2, <1>3 DEF HInv, IInv, TypeOK

LEMMA HandRetires ==
  ASSUME HInv, TypeOK', DisableOld \/ DeleteOld
  PROVE  Hand!Next \/ UNCHANGED HandVars
<1>1. PhaseMeans /\ PhaseMeans' /\ DutyMeans /\ DutyMeans'
  BY PhaseFacts, DutyFacts DEF HInv, IInv
<1>2. UNCHANGED <<op, hist>> /\ new' = new
  BY DEF DisableOld, DeleteOld
<1>3. CASE overtaken
  BY <1>2, <1>3, HandMuddled
<1>4. CASE ~overtaken /\ UNCHANGED <<old, route>>
  BY <1>2, <1>4, PhaseFrame, DutyFrame DEF HandVars, HInv, IInv
<1>5. CASE ~overtaken /\ ~UNCHANGED <<old, route>>
  <2>1. op.stage \in Irreversible
    BY <1>5 DEF DisableOld, DeleteOld, HInv, IInv, MarkerOK
  <2>2. ~begun /\ op.status = "links_ready"
    BY <1>5, <2>1 DEF HInv, IInv, MarkerOK, Marked
  <2>3. Phase = "sealed" /\ Phase' = Phase
    BY <1>1, <1>2, <1>5, <2>1, <2>2, PhaseFrame DEF PhaseMeans
  <2>4. ~old'.enabled
    BY <1>5 DEF DisableOld, DeleteOld, HInv, IInv, TypeOK
  <2>5. "new" \in route' /\ new.row /\ new.enabled
    BY <2>2 DEF DisableOld, DeleteOld, HInv, IInv, NewOK
  <2>6. OnDuty' = {"new"}
    BY <1>1, <1>2, <2>4, <2>5, OneOrBoth DEF DutyMeans
  <2> QED BY <1>2, <2>3, <2>6 DEF Hand!Next, Hand!Retire
<1> QED BY <1>3, <1>4, <1>5

LEMMA HandWithdraws ==
  ASSUME HInv, TypeOK', NEW t \in Task,
         RollbackDisable(t) \/ RollbackSource(t) \/ RollbackOld(t)
  PROVE  Hand!Next \/ UNCHANGED HandVars
<1>1. PhaseMeans /\ PhaseMeans' /\ DutyMeans /\ DutyMeans'
  BY PhaseFacts, DutyFacts DEF HInv, IInv
<1>2. UNCHANGED <<op, hist>>
  BY DEF RollbackDisable, RollbackSource, RollbackOld
<1>3. CASE overtaken
  BY <1>2, <1>3, HandMuddled
<1>4. CASE ~overtaken
  <2>1. begun
    BY DEF RollbackDisable, RollbackSource, RollbackOld, HInv, IInv, RollbackOK, Undoing
  <2>2. ~Marked
    BY <1>4, <2>1 DEF HInv, IInv, MarkerOK
  <2>3. Phase \in {"undoing", "undone"} /\ Phase' = Phase
    BY <1>1, <1>2, <1>4, <2>1, <2>2, PhaseFrame DEF PhaseMeans, Marked
  <2>4. "old" \in route /\ old.row /\ old.enabled
    BY <1>4, <2>2 DEF HInv, IInv, OldOK, Alive
  <2>5. "old" \in OnDuty /\ "old" \in OnDuty'
    BY <1>1, <2>4 DEF DutyMeans, RollbackDisable, RollbackSource, RollbackOld, HInv, IInv, TypeOK
  <2>6. CASE "new" \in OnDuty'
    <3>1. "new" \in OnDuty
      BY <1>1, <2>6 DEF DutyMeans, RollbackDisable, RollbackSource, RollbackOld, HInv, IInv, TypeOK
    <3>2. OnDuty' = OnDuty
      BY <1>1, <2>5, <2>6, <3>1, OneOrBoth DEF DutyMeans
    <3> QED BY <1>2, <2>3, <3>2 DEF HandVars
  <2>7. CASE "new" \notin OnDuty'
    <3>1. OnDuty' = {"old"}
      BY <1>1, <2>5, <2>7, OneOrBoth DEF DutyMeans
    <3> QED BY <1>2, <2>3, <3>1 DEF Hand!Next, Hand!Withdraw
  <2> QED BY <2>6, <2>7
<1> QED BY <1>3, <1>4

LEMMA HandSkips ==
  ASSUME HInv, TypeOK', NEW t \in Task, RollbackSkips(t)
  PROVE  Hand!Next \/ UNCHANGED HandVars
<1>1. PhaseMeans /\ PhaseMeans'
  BY PhaseFacts DEF HInv, IInv
<1>2. UNCHANGED <<op, world, begun, overtaken>> /\ skipped'
  BY DEF RollbackSkips
<1>3. CASE overtaken
  BY <1>2, <1>3, HandMuddled
<1>4. CASE ~overtaken
  <2>1. begun
    BY DEF RollbackSkips, HInv, IInv, RollbackOK, Undoing
  <2>2. Phase \in {"undoing", "undone"} /\ Phase' = Phase
    BY <1>1, <1>2, <1>4, <2>1, PhaseFrame DEF PhaseMeans, Marked, HInv, IInv, MarkerOK
  <2>3. OnDuty' = OnDuty
    BY <1>2, DutyFrame DEF HInv, IInv
  <2> QED BY <1>2, <2>2, <2>3 DEF Hand!Next, Hand!PassOver, HInv, IInv, TypeOK
<1> QED BY <1>3, <1>4

LEMMA HandStep ==
  ASSUME HInv, [Next]_vars
  PROVE  [Hand!Next]_HandVars
<1>1. TypeOK'
  BY TypesKept DEF HInv, IInv
<1>2. ASSUME NEW t \in Task, RollbackDisable(t) \/ RollbackSource(t) \/ RollbackOld(t)
      PROVE  Hand!Next \/ UNCHANGED HandVars
  BY <1>1, <1>2, HandWithdraws
<1>3. ASSUME NEW t \in Task, RollbackSkips(t)
      PROVE  Hand!Next \/ UNCHANGED HandVars
  BY <1>1, <1>3, HandSkips
<1>4. CASE CreateNewManager \/ TransferSettings
  BY <1>1, <1>4, HandJoins
<1>5. CASE DisableOld \/ DeleteOld
  BY <1>1, <1>5, HandRetires
<1>6. CASE UNCHANGED <<old, route, new.row, new.enabled>>
  BY <1>1, <1>3, <1>6, HandSameDuty
<1>7. ASSUME NEW t \in Task, RollbackStop(t)
      PROVE  UNCHANGED <<old, route, new.row, new.enabled>>
  BY <1>7 DEF RollbackStop, HInv, IInv, TypeOK
<1>8. CASE AssignProxy \/ SpawnRuntime \/ RuntimeDies \/ RuntimeRestarts
  <2>1. UNCHANGED <<old, route, new.row, new.enabled>>
    BY <1>8 DEF AssignProxy, SpawnRuntime, RuntimeDies, RuntimeRestarts, HInv, IInv, TypeOK
  <2> QED BY <1>6, <2>1
<1>9. CASE UNCHANGED <<old, route, new>>
  BY <1>6, <1>9
<1> QED
  BY <1>2, <1>3, <1>4, <1>5, <1>6, <1>7, <1>8, <1>9
  DEF Next, CommitStep, RollbackStep, Authorise, Abandon, Notify, PassDeadline,
      EntryGuards, ToLinks, CreateLinks, StartCutover, RetireOld, FinishCutover,
      CommitCall, PromoteCheck, RuntimeReady, Revalidate, Refused, CommitGivesUp,
      SweepList, PromoteMove, Crash, RollbackGuard, RollbackLease, RollbackFail

\* The replacement implements Handover: the old manager serves the source until
\* the new one does and the marker is durable, nothing turns back after that, and
\* an undone operation leaves the old manager alone with it, for any number of
\* crashes, dying runtimes, failing writes and repetitions.
THEOREM ReplacementImplements == Spec => ReplacementImplementsHandover
<1>1. Spec => []HInv
  BY HandInvariant
<1>2. HInv /\ [Next]_vars => [Hand!Next]_HandVars
  BY HandStep
<1> HIDE DEF vars
<1> QED BY <1>1, <1>2, HandInit, PTL
        DEF Spec, HandVars, ReplacementImplementsHandover, Hand!Spec
=============================================================================
