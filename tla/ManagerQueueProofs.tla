------------------------- MODULE ManagerQueueProofs -------------------------
(***************************************************************************)
(* Theorems about ManagerQueue, for every set of managers, every number of *)
(* rows and every number of faults.                                        *)
(***************************************************************************)
EXTENDS ManagerQueue, TLAPS

USE BoundAssumption DEF Cmd

Status == Pending \cup Final \cup {"none", "deleted"}

(***************************************************************************)
(* Helpers.                                                                *)
(***************************************************************************)

\* An UPDATE of the status column touches nothing else.
LEMMA SetStatusEffect ==
  ASSUME TypeOK, NEW C, NEW s \in Status, SetStatus(C, s)
  PROVE  /\ row' \in [Cmd -> Row]
         /\ \A c \in Cmd : /\ row'[c].target = row[c].target
                           /\ row'[c].expires = row[c].expires
                           /\ row'[c].status = IF c \in C THEN s
                                               ELSE row[c].status
BY DEF TypeOK, SetStatus, Row, Status

LEMMA RowTypes ==
  ASSUME TypeOK, NEW c \in Cmd
  PROVE  /\ row[c].status \in Status
         /\ row[c].target \in Manager
BY DEF TypeOK, Row, Status

LEMMA WorkTypes ==
  ASSUME TypeOK, NEW m \in Manager
  PROVE  /\ work[m] \in Worker
         /\ work[m].pc \in {"down", "idle", "claimed", "refuse", "running",
                            "finish", "refinish"}
         /\ work[m].cmd \in 0 .. MaxCmds
         /\ work[m].res \in {"none", "ok", "error"}
BY DEF TypeOK, Worker

LEMMA FreeTypes == Down \in Worker /\ Free \in Worker
BY DEF Down, Free, Worker

LEMMA ClaimType == \A c \in Cmd : Claim(c) \in Worker
BY DEF Claim, Worker

LEMMA FaultType == TypeOK /\ Fault => faults' \in 0 .. MaxFaults
BY DEF TypeOK, Fault

(***************************************************************************)
(* Types.  runs goes down when an execution is lost, so the type of runs   *)
(* rests on the discipline: what is lost was counted.                      *)
(***************************************************************************)
IInv == TypeOK /\ QueueDiscipline

LEMMA InitOK == Init => IInv
<1> SUFFICES ASSUME Init PROVE IInv
  OBVIOUS
<1> USE DEF Init
<1>1. PICK m \in Manager :
        row = [c \in Cmd |-> [status |-> "none", target |-> m,
                              expires |-> FALSE]]
  OBVIOUS
<1>2. TypeOK
  BY <1>1, FreeTypes DEF TypeOK, Row, Pending, Final
<1>3. QueueDiscipline
  BY <1>1 DEF QueueDiscipline, FreshRows, HandsOK, RunsOK, EndsOK, StatusOf, Down
<1>4. QED
  BY <1>2, <1>3 DEF IInv

\* What a busy runtime holds.
LEMMA Hand ==
  ASSUME IInv, NEW m \in Manager, work[m].pc \notin {"down", "idle"}
  PROVE  InHand(m)
BY DEF IInv, QueueDiscipline, HandsOK

LEMMA TypeWorker ==
  ASSUME IInv, NEW m \in Manager,
         \/ StartRuntime(m) \/ TakeNext(m) \/ SkipExpired(m) \/ Refuse(m)
         \/ Begin(m) \/ Execute(m) \/ Finish(m) \/ FinishRaises(m)
         \/ RuntimeDies(m) \/ RollbackStop(m)
  PROVE  TypeOK'
<1> USE FreeTypes, WorkTypes DEF IInv
<1>1. CASE StartRuntime(m)
  BY <1>1 DEF StartRuntime, TypeOK, table, clock, history
<1>2. CASE TakeNext(m)
  <2>1. PICK c \in Eligible(m) :
          /\ SetStatus({c}, "processing")
          /\ stale' = stale \ {c}
          /\ work' = [work EXCEPT ![m] = Claim(c)]
    BY <1>2 DEF TakeNext
  <2>2. c \in Cmd /\ Claim(c) \in Worker
    BY ClaimType DEF Eligible, RowsOf
  <2>3. row' \in [Cmd -> Row]
    BY <2>1, SetStatusEffect DEF Status, Pending
  <2>4. QED
    BY <1>2, <2>1, <2>2, <2>3 DEF TakeNext, TypeOK, history
<1>3. CASE SkipExpired(m)
  BY <1>3 DEF SkipExpired, TypeOK, table, clock, history
<1>4. CASE Refuse(m)
  BY <1>4 DEF Refuse, TypeOK, Worker, table, clock, history
<1>5. CASE Begin(m)
  <2>1. work[m].cmd \in Cmd
    BY <1>5, Hand DEF Begin, InHand
  <2>2. work' \in [Manager -> Worker]
    BY <1>5 DEF Begin, TypeOK, Worker
  <2>3. runs' \in [Cmd -> Nat]
    BY <1>5, <2>1 DEF Begin, TypeOK
  <2>4. QED
    BY <1>5, <2>2, <2>3 DEF Begin, TypeOK, table, clock
<1>6. CASE Execute(m)
  <2>1. work[m].cmd \in Cmd
    BY <1>6, Hand DEF Execute, InHand
  <2>2. work' \in [Manager -> Worker]
    <3>1. PICK r \in {"ok", "error"} :
            work' = [work EXCEPT ![m].pc = "finish", ![m].res = r]
      BY <1>6 DEF Execute
    <3>2. QED
      BY <3>1 DEF TypeOK, Worker
  <2>3. okRuns' \subseteq Cmd
    BY <1>6, <2>1 DEF Execute, TypeOK
  <2>4. QED
    BY <1>6, <2>2, <2>3 DEF Execute, TypeOK, table, clock
<1>7. CASE Finish(m)
  <2>1. row' \in [Cmd -> Row]
    BY <1>7, SetStatusEffect DEF Finish, Status, Final
  <2>2. QED
    BY <1>7, <2>1 DEF Finish, TypeOK, clock, history
<1>8. CASE FinishRaises(m)
  <2>1. work' \in [Manager -> Worker]
    BY <1>8 DEF FinishRaises, TypeOK, Worker
  <2>2. runs' \in [Cmd -> Nat]
    <3>1. CASE work[m].pc = "refinish"
      <4>1. work[m].cmd \in Cmd /\ runs[work[m].cmd] = 1
        BY <3>1, Hand DEF InHand, Executing
      <4>2. QED
        BY <1>8, <3>1, <4>1 DEF FinishRaises, TypeOK
    <3>2. CASE work[m].pc # "refinish"
      BY <1>8, <3>2 DEF FinishRaises, TypeOK
    <3>3. QED
      BY <3>1, <3>2
  <2>3. QED
    BY <1>8, <2>1, <2>2, FaultType DEF FinishRaises, TypeOK, table, clock
<1>9. CASE Killed(m) /\ (RuntimeDies(m) \/ RollbackStop(m))
  <2>1. work' \in [Manager -> Worker]
    BY <1>9 DEF Killed, TypeOK
  <2>2. runs' \in [Cmd -> Nat]
    <3>1. CASE work[m].pc \in Executing
      <4>1. work[m].cmd \in Cmd /\ runs[work[m].cmd] = 1
        BY <3>1, Hand DEF InHand, Executing
      <4>2. QED
        BY <1>9, <3>1, <4>1 DEF Killed, Executing, TypeOK
    <3>2. CASE work[m].pc \notin Executing
      BY <1>9, <3>2 DEF Killed, Executing, TypeOK
    <3>3. QED
      BY <3>1, <3>2
  <2>3. rb' \in [Manager -> {"none", "stopped", "done"}]
    BY <1>9 DEF RuntimeDies, RollbackStop, TypeOK
  <2>4. faults' \in 0 .. MaxFaults
    BY <1>9, FaultType DEF RuntimeDies, RollbackStop, TypeOK
  <2>5. QED
    BY <1>9, <2>1, <2>2, <2>3, <2>4
    DEF RuntimeDies, RollbackStop, TypeOK, table, clock
<1>10. CASE RollbackStop(m) /\ Fault /\ UNCHANGED <<work, runs>>
  BY <1>10, FaultType DEF RollbackStop, TypeOK, table, clock
<1>11. QED
  BY <1>1, <1>2, <1>3, <1>4, <1>5, <1>6, <1>7, <1>8, <1>9, <1>10
  DEF RuntimeDies, RollbackStop

LEMMA TypeOthers ==
  ASSUME IInv,
         \/ \E m \in Manager :
              Put(m) \/ RollbackFinalize(m) \/ DeleteManagerRows(m)
         \/ \E c \in Cmd :
              \/ PollAnswers(c) \/ GiveUp(c) \/ Expire(c) \/ GoStale(c)
              \/ CleanupFinished(c)
         \/ MarkTimeouts
  PROVE  TypeOK'
<1> USE DEF IInv
<1>1. ASSUME NEW m \in Manager, Put(m) PROVE TypeOK'
  BY <1>1 DEF Put, TypeOK, Row, Pending, clock, history
<1>2. ASSUME NEW c \in Cmd, PollAnswers(c) \/ GiveUp(c) PROVE TypeOK'
  BY <1>2 DEF PollAnswers, GiveUp, TypeOK, table, clock, history
<1>3. ASSUME NEW c \in Cmd, Expire(c) \/ GoStale(c) PROVE TypeOK'
  BY <1>3 DEF Expire, GoStale, TypeOK, table, history
<1>4. ASSUME NEW C, NEW s \in Status, SetStatus(C, s) PROVE row' \in [Cmd -> Row]
  BY <1>4, SetStatusEffect
<1>5. CASE MarkTimeouts
  BY <1>5, <1>4 DEF MarkTimeouts, TypeOK, Status, Final, clock, history
<1>6. ASSUME NEW c \in Cmd, CleanupFinished(c) PROVE TypeOK'
  BY <1>6, <1>4 DEF CleanupFinished, TypeOK, Status, clock, history
<1>7. ASSUME NEW m \in Manager, RollbackFinalize(m) PROVE TypeOK'
  <2>1. row' \in [Cmd -> Row]
    BY <1>7, <1>4 DEF RollbackFinalize, Status, Final
  <2>2. QED
    BY <1>7, <2>1
    DEF RollbackFinalize, TypeOK, PendingOf, RowsOf, clock, history
<1>8. ASSUME NEW m \in Manager, DeleteManagerRows(m) PROVE TypeOK'
  BY <1>8, <1>4 DEF DeleteManagerRows, TypeOK, Status, clock, history
<1>9. QED
  BY <1>1, <1>2, <1>3, <1>5, <1>6, <1>7, <1>8

(***************************************************************************)
(* The discipline.  A step writes rows (Settle), moves one runtime         *)
(* (WorkerStep), or does both (TakeNext, Finish).                          *)
(***************************************************************************)

\* Rows taken off the queue, with every loop left where it is.
LEMMA Settle ==
  ASSUME IInv, NEW C, NEW s \in {"timeout", "deleted"}, SetStatus(C, s),
         UNCHANGED <<last, work, runs, okRuns, expired>>,
         rolled \subseteq rolled', rolled' \subseteq rolled \cup C,
         \A c \in C \cap Cmd :
           /\ StatusOf(c) # "none"
           /\ s = "timeout" => StatusOf(c) \in Pending /\ c \in expired \cup rolled'
  PROVE  QueueDiscipline'
<1> USE DEF IInv, QueueDiscipline
<1>1. \A c \in Cmd : /\ row'[c].target = row[c].target
                      /\ row'[c].status = IF c \in C THEN s ELSE row[c].status
  BY SetStatusEffect DEF Status, Final
<1>2. FreshRows'
  BY <1>1 DEF FreshRows, StatusOf
<1>3. HandsOK'
  <2> SUFFICES ASSUME NEW m \in Manager, work[m].pc \notin {"down", "idle"}
               PROVE  InHand(m)'
    BY DEF HandsOK
  <2>1. InHand(m)
    BY DEF HandsOK
  <2>2. row'[work[m].cmd].status \in {"processing", "timeout", "deleted"}
    BY <1>1, <2>1 DEF InHand, StatusOf
  <2>3. QED
    BY <1>1, <2>1, <2>2 DEF InHand, StatusOf
<1>4. RunsOK'
  BY <1>1 DEF RunsOK, StatusOf, Gone, Final
<1>5. EndsOK'
  BY <1>1 DEF EndsOK, StatusOf, Gone, Final
<1>6. QED
  BY <1>2, <1>3, <1>4, <1>5

\* One runtime moves and no row is written.
LEMMA WorkerStep ==
  ASSUME IInv, NEW m \in Manager,
         work' = [work EXCEPT ![m] = work'[m]],
         UNCHANGED <<row, last, expired, rolled>>,
         okRuns \subseteq okRuns',
         \A c \in Cmd : c # work[m].cmd => runs'[c] = runs[c],
         \A c \in Cmd : c = work[m].cmd =>
           \/ runs'[c] = 0
           \/ runs'[c] = 1 /\ work'[m].pc \in Executing /\ work'[m].cmd = c
           \/ runs'[c] = 1 /\ StatusOf(c) \in Gone,
         work'[m].pc \in {"down", "idle"} => work'[m].cmd = 0,
         work'[m].pc \notin {"down", "idle"} => InHand(m)'
  PROVE  QueueDiscipline'
<1> USE DEF IInv, QueueDiscipline
<1>1. \A n \in Manager \ {m} : work'[n] = work[n]
  BY DEF TypeOK
<1>2. FreshRows' /\ EndsOK'
  BY DEF FreshRows, EndsOK, StatusOf
<1>3. HandsOK'
  <2> SUFFICES ASSUME NEW n \in Manager
               PROVE  IF work'[n].pc \in {"down", "idle"}
                        THEN work'[n].cmd = 0 ELSE InHand(n)'
    BY DEF HandsOK
  <2>1. CASE n = m
    BY <1>1, <2>1
  <2>2. CASE n # m /\ work[n].pc \in {"down", "idle"}
    BY <1>1, <2>2 DEF HandsOK
  <2>3. CASE n # m /\ work[n].pc \notin {"down", "idle"}
    <3>1. InHand(n)
      BY <2>3 DEF HandsOK
    <3>2. work[n].cmd # work[m].cmd
      <4>1. CASE work[m].pc \in {"down", "idle"}
        BY <4>1, <3>1 DEF HandsOK, InHand
      <4>2. CASE work[m].pc \notin {"down", "idle"}
        BY <4>2, <3>1, <2>3 DEF HandsOK, InHand
      <4>3. QED
        BY <4>1, <4>2
    <3>3. QED
      BY <1>1, <2>3, <3>1, <3>2 DEF InHand, StatusOf
  <2>4. QED
    BY <2>1, <2>2, <2>3
<1>4. RunsOK'
  <2> SUFFICES ASSUME NEW c \in Cmd
               PROVE  /\ runs'[c] \in {0, 1}
                      /\ runs'[c] = 1 =>
                           \/ row[c].status \in Gone
                           \/ /\ work'[row[c].target].pc \in Executing
                              /\ work'[row[c].target].cmd = c
    BY DEF RunsOK, StatusOf
  <2>1. CASE c = work[m].cmd
    <3>1. work[m].pc \notin {"down", "idle"} /\ row[c].target = m
      BY <2>1 DEF HandsOK, InHand
    <3>2. QED
      BY <1>1, <2>1, <3>1 DEF StatusOf
  <2>2. CASE c # work[m].cmd
    <3>1. /\ runs'[c] = runs[c] /\ runs[c] \in {0, 1}
          /\ row[c].target \in Manager
      BY <2>2, RowTypes DEF RunsOK
    <3>2. CASE row[c].target = m
      BY <2>2, <3>1, <3>2 DEF RunsOK, StatusOf
    <3>3. CASE row[c].target # m
      BY <1>1, <3>1, <3>3 DEF RunsOK, StatusOf
    <3>4. QED
      BY <3>2, <3>3
  <2>3. QED
    BY <2>1, <2>2
<1>5. QED
  BY <1>2, <1>3, <1>4

LEMMA DisciplineWorker ==
  ASSUME IInv, NEW m \in Manager,
         \/ StartRuntime(m) \/ SkipExpired(m) \/ Refuse(m) \/ Begin(m)
         \/ Execute(m) \/ FinishRaises(m) \/ RuntimeDies(m)
         \/ RollbackStop(m) /\ Killed(m)
  PROVE  QueueDiscipline'
<1>1. UNCHANGED <<row, last, expired, rolled>>
  BY DEF StartRuntime, SkipExpired, Refuse, Begin, Execute, FinishRaises,
         RuntimeDies, RollbackStop, table, clock
<1>2. \A c \in Cmd : runs[c] \in {0, 1}
  BY DEF IInv, QueueDiscipline, RunsOK
<1>3. work[m].pc \notin {"down", "idle"} =>
        /\ InHand(m) /\ work[m].cmd \in Cmd
        /\ runs[work[m].cmd] = IF work[m].pc \in Executing THEN 1 ELSE 0
  BY Hand DEF InHand
<1>4. work[m].pc \in {"down", "idle"} => work[m].cmd \notin Cmd
  BY DEF IInv, QueueDiscipline, HandsOK
<1>5. /\ row \in [Cmd -> Row] /\ work \in [Manager -> Worker]
      /\ runs \in [Cmd -> Nat] /\ work[m] \in Worker
  BY DEF IInv, TypeOK
<1>6. CASE StartRuntime(m)
  <2>1. /\ work' = [work EXCEPT ![m] = work'[m]]
        /\ work'[m].pc = "idle" /\ work'[m].cmd = 0
    BY <1>5, <1>6 DEF StartRuntime, Free
  <2>2. runs' = runs /\ okRuns' = okRuns
    BY <1>6 DEF StartRuntime, history
  <2>3. QED
    BY <1>1, <1>4, <1>6, <2>1, <2>2, WorkerStep DEF StartRuntime
<1>7. CASE SkipExpired(m)
  <2>1. /\ work' = [work EXCEPT ![m] = work'[m]]
        /\ work'[m].pc = "idle" /\ work'[m].cmd = 0
    BY <1>5, <1>7 DEF SkipExpired, Free
  <2>2. runs' = runs /\ okRuns' = okRuns /\ runs[work[m].cmd] = 0
    BY <1>3, <1>7 DEF SkipExpired, Executing, history
  <2>3. QED
    BY <1>1, <2>1, <2>2, WorkerStep
<1>8. CASE Refuse(m)
  <2>1. /\ work' = [work EXCEPT ![m] = work'[m]]
        /\ work'[m].pc = "refuse" /\ work'[m].cmd = work[m].cmd
        /\ work'[m].res = "error"
    BY <1>5, <1>8 DEF Refuse, Worker
  <2>2. runs' = runs /\ okRuns' = okRuns /\ runs[work[m].cmd] = 0
    BY <1>3, <1>8 DEF Refuse, Executing, history
  <2>3. InHand(m)'
    BY <1>1, <1>3, <1>8, <2>1, <2>2 DEF Refuse, InHand, Executing, StatusOf
  <2>4. QED
    BY <1>1, <2>1, <2>2, <2>3, WorkerStep
<1>9. CASE Begin(m)
  <2>1. /\ work' = [work EXCEPT ![m] = work'[m]]
        /\ work'[m].pc = "running" /\ work'[m].cmd = work[m].cmd
        /\ work'[m].res = work[m].res
    BY <1>5, <1>9 DEF Begin, Worker
  <2>2. work[m].cmd \in Cmd /\ runs[work[m].cmd] = 0
    BY <1>3, <1>9 DEF Begin, Executing
  <2>3. /\ runs'[work[m].cmd] = 1 /\ okRuns' = okRuns
        /\ \A c \in Cmd : c # work[m].cmd => runs'[c] = runs[c]
    BY <1>5, <1>9, <2>2 DEF Begin
  <2>4. InHand(m)'
    BY <1>1, <1>3, <1>9, <2>1, <2>3 DEF Begin, InHand, Executing, StatusOf
  <2>5. work'[m].pc \in Executing
    BY <2>1 DEF Executing
  <2>6. QED
    BY <1>1, <2>1, <2>3, <2>4, <2>5, WorkerStep
<1>10. CASE Execute(m)
  <2>1. PICK r \in {"ok", "error"} :
          /\ work' = [work EXCEPT ![m].pc = "finish", ![m].res = r]
          /\ okRuns' = IF r = "ok" THEN okRuns \cup {work[m].cmd} ELSE okRuns
    BY <1>10 DEF Execute
  <2>2. /\ work' = [work EXCEPT ![m] = work'[m]]
        /\ work'[m].pc = "finish" /\ work'[m].cmd = work[m].cmd
        /\ work'[m].res = r
    BY <1>5, <2>1 DEF Worker
  <2>3. runs' = runs /\ runs[work[m].cmd] = 1 /\ okRuns \subseteq okRuns'
    BY <1>3, <1>10, <2>1 DEF Execute, Executing
  <2>4. InHand(m)'
    BY <1>1, <1>3, <1>10, <2>1, <2>2, <2>3
    DEF Execute, InHand, Executing, StatusOf
  <2>5. work'[m].pc \in Executing
    BY <2>2 DEF Executing
  <2>6. QED
    BY <1>1, <2>2, <2>3, <2>4, <2>5, WorkerStep
<1>11. CASE FinishRaises(m) /\ work[m].pc = "finish"
  <2>1. /\ work' = [work EXCEPT ![m] = work'[m]]
        /\ work'[m].pc = "refinish" /\ work'[m].cmd = work[m].cmd
        /\ work'[m].res = "error"
    BY <1>5, <1>11 DEF FinishRaises, Worker
  <2>2. runs' = runs /\ runs[work[m].cmd] = 1 /\ okRuns' = okRuns
    BY <1>3, <1>11 DEF FinishRaises, Executing
  <2>3. InHand(m)'
    BY <1>1, <1>3, <1>11, <2>1, <2>2
    DEF FinishRaises, InHand, Executing, StatusOf
  <2>4. work'[m].pc \in Executing
    BY <2>1 DEF Executing
  <2>5. QED
    BY <1>1, <2>1, <2>2, <2>3, <2>4, WorkerStep
<1>12. CASE FinishRaises(m) /\ work[m].pc # "finish"
  <2>1. /\ work' = [work EXCEPT ![m] = work'[m]]
        /\ work'[m].pc = "idle" /\ work'[m].cmd = 0
    BY <1>5, <1>12 DEF FinishRaises, Free
  <2>2. work[m].cmd \in Cmd
    BY <1>3, <1>12 DEF FinishRaises
  <2>3. /\ runs'[work[m].cmd] = 0 /\ okRuns' = okRuns
        /\ \A c \in Cmd : c # work[m].cmd => runs'[c] = runs[c]
    <3>1. CASE work[m].pc = "refinish"
      BY <1>3, <1>5, <1>12, <2>2, <3>1 DEF FinishRaises, Executing
    <3>2. CASE work[m].pc = "refuse"
      BY <1>3, <1>5, <1>12, <2>2, <3>2 DEF FinishRaises, Executing
    <3>3. QED
      BY <1>12, <3>1, <3>2 DEF FinishRaises
  <2>4. QED
    BY <1>1, <2>1, <2>3, WorkerStep
<1>13. CASE Killed(m) /\ (RuntimeDies(m) \/ RollbackStop(m))
  <2>1. /\ work' = [work EXCEPT ![m] = work'[m]]
        /\ work'[m].pc = "down" /\ work'[m].cmd = 0
    BY <1>5, <1>13 DEF Killed, Down
  <2>2. okRuns' = okRuns
    BY <1>13 DEF RuntimeDies, RollbackStop
  <2>3. /\ \A c \in Cmd : c # work[m].cmd => runs'[c] = runs[c]
        /\ \A c \in Cmd : c = work[m].cmd => runs'[c] = 0
    <3>1. CASE work[m].pc \in Executing
      BY <1>3, <1>5, <1>13, <3>1 DEF Killed, Executing
    <3>2. CASE work[m].pc \notin Executing
      BY <1>3, <1>4, <1>13, <3>2 DEF Killed, Executing
    <3>3. QED
      BY <3>1, <3>2
  <2>4. QED
    BY <1>1, <2>1, <2>2, <2>3, WorkerStep
<1>14. QED
  BY <1>6, <1>7, <1>8, <1>9, <1>10, <1>11, <1>12, <1>13 DEF RuntimeDies

LEMMA DisciplineRows ==
  ASSUME IInv,
         \/ MarkTimeouts
         \/ \E c \in Cmd : CleanupFinished(c)
         \/ \E m \in Manager : RollbackFinalize(m) \/ DeleteManagerRows(m)
  PROVE  QueueDiscipline'
<1>1. CASE MarkTimeouts
  BY <1>1, Settle DEF MarkTimeouts, Pending, clock, history
<1>2. ASSUME NEW c \in Cmd, CleanupFinished(c) PROVE QueueDiscipline'
  BY <1>2, Settle DEF CleanupFinished, StatusOf, Final, clock, history
<1>3. ASSUME NEW m \in Manager, RollbackFinalize(m) PROVE QueueDiscipline'
  BY <1>3, Settle
  DEF RollbackFinalize, PendingOf, RowsOf, Pending, clock, history
<1>4. ASSUME NEW m \in Manager, DeleteManagerRows(m) PROVE QueueDiscipline'
  BY <1>4, Settle DEF DeleteManagerRows, RowsOf, clock, history
<1>5. QED
  BY <1>1, <1>2, <1>3, <1>4

\* A new row is in nobody's hand, and time only adds facts.
LEMMA DisciplineCallers ==
  ASSUME IInv,
         \/ \E m \in Manager :
              Put(m) \/ (RollbackStop(m) /\ UNCHANGED <<work, runs>>)
         \/ \E c \in Cmd :
              PollAnswers(c) \/ GiveUp(c) \/ Expire(c) \/ GoStale(c)
         \/ UNCHANGED vars
  PROVE  QueueDiscipline'
<1> USE DEF IInv, QueueDiscipline
<1>1. ASSUME NEW m \in Manager, Put(m) PROVE QueueDiscipline'
  <2>1. /\ last + 1 \in Cmd /\ StatusOf(last + 1) = "none"
        /\ last' = last + 1
    BY <1>1 DEF Put, TypeOK, FreshRows
  <2>2. /\ row'[last + 1].status = "new"
        /\ \A d \in Cmd \ {last + 1} : row'[d] = row[d]
    BY <1>1, <2>1 DEF Put, TypeOK
  <2>3. FreshRows'
    <3> SUFFICES ASSUME NEW d \in Cmd
                 PROVE  row'[d].status = "none" <=> d > last'
      BY DEF FreshRows, StatusOf
    <3>1. last \in Nat
      BY DEF TypeOK
    <3>2. CASE d = last + 1
      BY <2>1, <2>2, <3>1, <3>2
    <3>3. CASE d # last + 1
      <4>1. row'[d] = row[d] /\ (row[d].status = "none" <=> d > last)
        BY <2>2, <3>3 DEF FreshRows, StatusOf
      <4>2. d > last <=> d > last'
        BY <2>1, <3>1, <3>3
      <4>3. QED
        BY <4>1, <4>2
    <3>4. QED
      BY <3>2, <3>3
  <2>4. HandsOK'
    <3> SUFFICES ASSUME NEW n \in Manager, work[n].pc \notin {"down", "idle"}
                 PROVE  InHand(n)'
      BY <1>1 DEF Put, HandsOK
    <3>1. InHand(n) /\ work[n].cmd # last + 1
      BY <2>1 DEF HandsOK, InHand
    <3>2. QED
      BY <1>1, <2>2, <3>1 DEF Put, InHand, StatusOf, history
  <2>5. RunsOK'
    <3>1. runs[last + 1] = 0
      <4> SUFFICES ASSUME runs[last + 1] = 1 PROVE FALSE
        BY <2>1 DEF RunsOK
      <4> DEFINE n == row[last + 1].target
      <4>1. n \in Manager /\ work[n].pc \in Executing /\ work[n].cmd = last + 1
        BY <2>1, RowTypes DEF RunsOK, Gone, Final
      <4>2. InHand(n)
        BY <4>1 DEF HandsOK, Executing
      <4>3. QED
        BY <2>1, <4>1, <4>2 DEF InHand
    <3>2. QED
      BY <1>1, <2>1, <2>2, <3>1 DEF Put, RunsOK, StatusOf, history
  <2>6. EndsOK'
    BY <1>1, <2>1, <2>2 DEF Put, EndsOK, StatusOf, clock, Gone, Final
  <2>7. QED
    BY <2>3, <2>4, <2>5, <2>6
<1>2. CASE \/ \E c \in Cmd : PollAnswers(c) \/ GiveUp(c) \/ GoStale(c)
           \/ \E m \in Manager : RollbackStop(m) /\ UNCHANGED <<work, runs>>
           \/ UNCHANGED vars
  <2>1. UNCHANGED <<row, last, expired, work, rolled, runs, okRuns>>
    BY <1>2
    DEF PollAnswers, GiveUp, GoStale, RollbackStop, vars, table, clock, history
  <2>2. FreshRows' /\ RunsOK' /\ EndsOK'
    BY <2>1 DEF FreshRows, RunsOK, EndsOK, StatusOf
  <2>3. HandsOK'
    BY <2>1 DEF HandsOK, InHand, StatusOf
  <2>4. QED
    BY <2>2, <2>3
<1>3. ASSUME NEW c \in Cmd, Expire(c) PROVE QueueDiscipline'
  <2>1. /\ UNCHANGED <<row, last, work, rolled, runs, okRuns>>
        /\ expired \subseteq expired'
    BY <1>3 DEF Expire, table, history
  <2>2. FreshRows' /\ RunsOK' /\ EndsOK'
    BY <2>1 DEF FreshRows, RunsOK, EndsOK, StatusOf
  <2>3. HandsOK'
    BY <2>1 DEF HandsOK, InHand, StatusOf
  <2>4. QED
    BY <2>2, <2>3
<1>4. QED
  BY <1>1, <1>2, <1>3

LEMMA DisciplineTake ==
  ASSUME IInv, NEW m \in Manager, TakeNext(m)
  PROVE  QueueDiscipline'
<1> USE DEF IInv, QueueDiscipline
<1>1. PICK c \in Eligible(m) :
        /\ SetStatus({c}, "processing")
        /\ work' = [work EXCEPT ![m] = Claim(c)]
  BY DEF TakeNext
<1>2. /\ c \in Cmd /\ row[c].target = m
      /\ StatusOf(c) \in {"new", "processing"}
  BY DEF Eligible, RowsOf
<1>3. \A d \in Cmd : /\ row'[d].target = row[d].target
                      /\ row'[d].status = IF d = c THEN "processing"
                                          ELSE row[d].status
  BY <1>1, SetStatusEffect DEF Status, Pending
<1>4. UNCHANGED <<last, expired, rolled, runs, okRuns>>
  BY DEF TakeNext, history
<1>5. work[m].pc = "idle" /\ work[m].cmd = 0
  BY DEF TakeNext, HandsOK
<1>6. /\ work'[m] = Claim(c)
      /\ \A n \in Manager \ {m} : work'[n] = work[n]
  BY <1>1 DEF TypeOK
<1>7. runs[c] = 0
  BY <1>2, <1>5 DEF RunsOK, Gone, Final, Executing
<1>8. FreshRows'
  BY <1>2, <1>3, <1>4 DEF FreshRows, StatusOf
<1>9. HandsOK'
  <2> SUFFICES ASSUME NEW n \in Manager
               PROVE  IF work'[n].pc \in {"down", "idle"}
                        THEN work'[n].cmd = 0 ELSE InHand(n)'
    BY DEF HandsOK
  <2>1. CASE n = m
    <3>1. work'[m].pc = "claimed" /\ work'[m].cmd = c /\ work'[m].res = "none"
      BY <1>6 DEF Claim
    <3>2. InHand(m)'
      BY <1>2, <1>3, <1>4, <1>7, <3>1 DEF InHand, StatusOf, Executing
    <3>3. QED
      BY <2>1, <3>1, <3>2
  <2>2. CASE n # m /\ work[n].pc \in {"down", "idle"}
    BY <1>6, <2>2 DEF HandsOK
  <2>3. CASE n # m /\ work[n].pc \notin {"down", "idle"}
    <3>1. InHand(n)
      BY <2>3 DEF HandsOK
    <3>2. work[n].cmd # c
      BY <1>2, <2>3, <3>1 DEF InHand
    <3>3. QED
      BY <1>3, <1>4, <1>6, <2>3, <3>1, <3>2 DEF InHand, StatusOf
  <2>4. QED
    BY <2>1, <2>2, <2>3
<1>10. RunsOK'
  <2> SUFFICES ASSUME NEW d \in Cmd, runs[d] = 1
               PROVE  \/ row'[d].status \in Gone
                      \/ /\ work'[row'[d].target].pc \in Executing
                         /\ work'[row'[d].target].cmd = d
    BY <1>4 DEF RunsOK, StatusOf
  <2>1. d # c
    BY <1>7
  <2>2. CASE row[d].target = m
    BY <1>3, <1>5, <2>1, <2>2 DEF RunsOK, StatusOf, Executing
  <2>3. CASE row[d].target # m
    BY <1>3, <1>6, <2>1, <2>3, RowTypes DEF RunsOK, StatusOf
  <2>4. QED
    BY <2>2, <2>3
<1>11. EndsOK'
  BY <1>2, <1>3, <1>4 DEF EndsOK, StatusOf, Gone, Final
<1>12. QED
  BY <1>8, <1>9, <1>10, <1>11

LEMMA DisciplineFinish ==
  ASSUME IInv, NEW m \in Manager, Finish(m)
  PROVE  QueueDiscipline'
<1> USE DEF IInv, QueueDiscipline
<1> DEFINE c == work[m].cmd
           s == IF work[m].res = "ok" THEN "done" ELSE "error"
           C == {c} \ {d \in Cmd : StatusOf(d) = "deleted"}
<1>1. SetStatus(C, s) /\ s \in {"done", "error"}
  BY DEF Finish
<1>2. InHand(m) /\ c \in Cmd /\ row[c].target = m
  BY Hand DEF Finish, InHand
<1>3. \A d \in Cmd : /\ row'[d].target = row[d].target
                      /\ row'[d].status = IF d \in C THEN s ELSE row[d].status
  <2> HIDE DEF C, s
  <2>1. s \in Status
    BY <1>1 DEF Status, Final
  <2>2. QED
    BY <1>1, <2>1, SetStatusEffect
<1>4. /\ row'[c].status \in {"done", "error", "deleted"}
      /\ \A d \in Cmd \ {c} : row'[d].status = row[d].status
      /\ row'[c].status = "deleted" <=> row[c].status = "deleted"
  BY <1>1, <1>2, <1>3 DEF StatusOf
<1>5. UNCHANGED <<last, expired, rolled, runs, okRuns>>
  BY DEF Finish, clock, history
<1>6. /\ work'[m].pc = "idle" /\ work'[m].cmd = 0
      /\ \A n \in Manager \ {m} : work'[n] = work[n]
  BY DEF Finish, TypeOK, Free
<1> HIDE DEF c, s, C
<1>7. FreshRows'
  BY <1>2, <1>3, <1>4, <1>5 DEF FreshRows, StatusOf, InHand, c
<1>8. HandsOK'
  <2> SUFFICES ASSUME NEW n \in Manager
               PROVE  IF work'[n].pc \in {"down", "idle"}
                        THEN work'[n].cmd = 0 ELSE InHand(n)'
    BY DEF HandsOK
  <2>1. CASE n = m
    BY <1>6, <2>1
  <2>2. CASE n # m /\ work[n].pc \in {"down", "idle"}
    BY <1>6, <2>2 DEF HandsOK
  <2>3. CASE n # m /\ work[n].pc \notin {"down", "idle"}
    <3>1. InHand(n)
      BY <2>3 DEF HandsOK
    <3>2. work[n].cmd # c
      BY <1>2, <2>3, <3>1 DEF InHand
    <3>3. QED
      BY <1>3, <1>4, <1>5, <1>6, <2>3, <3>1, <3>2 DEF InHand, StatusOf
  <2>4. QED
    BY <2>1, <2>2, <2>3
<1>9. RunsOK'
  <2> SUFFICES ASSUME NEW d \in Cmd, runs[d] = 1
               PROVE  \/ row'[d].status \in Gone
                      \/ /\ work'[row'[d].target].pc \in Executing
                         /\ work'[row'[d].target].cmd = d
    BY <1>5 DEF RunsOK, StatusOf
  <2>1. CASE d = c
    BY <1>4, <2>1 DEF Gone, Final
  <2>2. CASE d # c /\ row[d].target = m
    BY <1>3, <1>4, <2>2 DEF RunsOK, StatusOf, c
  <2>3. CASE d # c /\ row[d].target # m
    BY <1>3, <1>4, <1>6, <2>3, RowTypes DEF RunsOK, StatusOf
  <2>4. QED
    BY <2>1, <2>2, <2>3
<1>10. EndsOK'
  BY <1>4, <1>5 DEF EndsOK, StatusOf, Gone, Final
<1>11. QED
  BY <1>7, <1>8, <1>9, <1>10

(***************************************************************************)
(* The inductive invariant, and what follows from it.                      *)
(***************************************************************************)
LEMMA IInvStep == IInv /\ [Next]_vars => IInv'
<1> SUFFICES ASSUME IInv, [Next]_vars PROVE IInv'
  OBVIOUS
<1>1. ASSUME NEW m \in Manager, TakeNext(m) PROVE IInv'
  BY <1>1, TypeWorker, DisciplineTake DEF IInv
<1>2. ASSUME NEW m \in Manager, Finish(m) PROVE IInv'
  BY <1>2, TypeWorker, DisciplineFinish DEF IInv
<1>3. ASSUME NEW m \in Manager,
             \/ StartRuntime(m) \/ SkipExpired(m) \/ Refuse(m) \/ Begin(m)
             \/ Execute(m) \/ FinishRaises(m) \/ RuntimeDies(m)
             \/ RollbackStop(m) /\ Killed(m)
      PROVE  IInv'
  <2>1. TypeOK'
    BY <1>3, TypeWorker
  <2>2. QueueDiscipline'
    BY <1>3, DisciplineWorker
  <2>3. QED
    BY <2>1, <2>2 DEF IInv
<1>4. ASSUME NEW m \in Manager, RollbackStop(m), UNCHANGED <<work, runs>>
      PROVE  IInv'
  BY <1>4, TypeWorker, DisciplineCallers DEF IInv
<1>5. ASSUME \/ \E m \in Manager : RollbackFinalize(m) \/ DeleteManagerRows(m)
             \/ \E c \in Cmd : CleanupFinished(c)
             \/ MarkTimeouts
      PROVE  IInv'
  BY <1>5, TypeOthers, DisciplineRows DEF IInv
<1>6. ASSUME \/ \E m \in Manager : Put(m)
             \/ \E c \in Cmd :
                  PollAnswers(c) \/ GiveUp(c) \/ Expire(c) \/ GoStale(c)
      PROVE  IInv'
  BY <1>6, TypeOthers, DisciplineCallers DEF IInv
<1>7. CASE UNCHANGED vars
  <2>1. TypeOK'
    BY <1>7 DEF IInv, TypeOK, vars, table, clock, history
  <2>2. QED
    BY <1>7, <2>1, DisciplineCallers DEF IInv
<1>8. \A m \in Manager :
        RollbackStop(m) => Killed(m) \/ UNCHANGED <<work, runs>>
  BY DEF RollbackStop
<1>9. QED
  BY <1>1, <1>2, <1>3, <1>4, <1>5, <1>6, <1>7, <1>8 DEF Next, Runtime

LEMMA Inductive == Spec => []IInv
<1>1. Init => IInv
  BY InitOK
<1>2. IInv /\ [Next]_vars => IInv'
  BY IInvStep
<1>3. QED
  BY <1>1, <1>2, PTL DEF Spec

(***************************************************************************)
(* What a step can do to a row, to a loop's row and to a caller.           *)
(***************************************************************************)

\* The steps that finalise or delete rows: which rows, and how.
LEMMA RowEnds ==
  ASSUME IInv,
         \/ MarkTimeouts
         \/ \E c \in Cmd : CleanupFinished(c)
         \/ \E m \in Manager : RollbackFinalize(m) \/ DeleteManagerRows(m)
  PROVE  /\ UNCHANGED <<last, expired, work, caller, okRuns, runs>>
         /\ \A c \in Cmd :
              /\ row'[c].target = row[c].target
              /\ \/ row'[c].status = row[c].status
                 \/ row'[c].status = "deleted"
                 \/ row'[c].status = "timeout" /\ row[c].status \in Pending
<1> USE DEF IInv
<1>1. CASE MarkTimeouts
  BY <1>1, SetStatusEffect
  DEF MarkTimeouts, Status, Final, StatusOf, clock, history
<1>2. ASSUME NEW c \in Cmd, CleanupFinished(c)
      PROVE  /\ UNCHANGED <<last, expired, work, caller, okRuns, runs>>
             /\ \A d \in Cmd : /\ row'[d].target = row[d].target
                               /\ row'[d].status \in {row[d].status, "deleted"}
  BY <1>2, SetStatusEffect DEF CleanupFinished, Status, clock, history
<1>3. ASSUME NEW m \in Manager, RollbackFinalize(m)
      PROVE  /\ UNCHANGED <<last, expired, work, caller, okRuns, runs>>
             /\ \A d \in Cmd :
                  /\ row'[d].target = row[d].target
                  /\ \/ row'[d].status = row[d].status
                     \/ row'[d].status = "timeout" /\ row[d].status \in Pending
  BY <1>3, SetStatusEffect
  DEF RollbackFinalize, PendingOf, RowsOf, Status, Final, StatusOf, clock,
      history
<1>4. ASSUME NEW m \in Manager, DeleteManagerRows(m)
      PROVE  /\ UNCHANGED <<last, expired, work, caller, okRuns, runs>>
             /\ \A d \in Cmd : /\ row'[d].target = row[d].target
                               /\ row'[d].status \in {row[d].status, "deleted"}
  BY <1>4, SetStatusEffect DEF DeleteManagerRows, Status, clock, history
<1>5. QED
  BY <1>1, <1>2, <1>3, <1>4

\* The steps of a loop that write no row.
LEMMA LoopMoves ==
  ASSUME IInv, NEW m \in Manager,
         \/ StartRuntime(m) \/ SkipExpired(m) \/ Refuse(m) \/ Begin(m)
         \/ Execute(m) \/ FinishRaises(m) \/ RuntimeDies(m) \/ RollbackStop(m)
  PROVE  /\ UNCHANGED <<row, last, expired, caller>>
         /\ okRuns \subseteq okRuns'
         /\ \A n \in Manager : work'[n].cmd \in {0, work[n].cmd}
<1>1. work \in [Manager -> Worker]
  BY DEF IInv, TypeOK
<1>2. UNCHANGED <<row, last, expired, caller>>
  BY DEF StartRuntime, SkipExpired, Refuse, Begin, Execute, FinishRaises,
         RuntimeDies, RollbackStop, table, clock
<1>3. okRuns \subseteq okRuns'
  BY DEF StartRuntime, SkipExpired, Refuse, Begin, Execute, FinishRaises,
         RuntimeDies, RollbackStop, history
<1>4. \/ work' = work
      \/ \E w \in Worker : /\ work' = [work EXCEPT ![m] = w]
                           /\ w.cmd \in {0, work[m].cmd}
  <2>1. CASE StartRuntime(m) \/ SkipExpired(m)
    BY <2>1, FreeTypes DEF StartRuntime, SkipExpired, Free
  <2>2. CASE Refuse(m)
    <3>1. [work[m] EXCEPT !.pc = "refuse", !.res = "error"] \in Worker
      BY <1>1 DEF Worker
    <3>2. QED
      BY <1>1, <2>2, <3>1 DEF Refuse, Worker
  <2>3. CASE Begin(m)
    <3>1. [work[m] EXCEPT !.pc = "running"] \in Worker
      BY <1>1 DEF Worker
    <3>2. QED
      BY <1>1, <2>3, <3>1 DEF Begin, Worker
  <2>4. CASE Execute(m)
    <3>1. PICK r \in {"ok", "error"} :
            work' = [work EXCEPT ![m].pc = "finish", ![m].res = r]
      BY <2>4 DEF Execute
    <3>2. [work[m] EXCEPT !.pc = "finish", !.res = r] \in Worker
      BY <1>1 DEF Worker
    <3>3. QED
      BY <1>1, <3>1, <3>2 DEF Worker
  <2>5. CASE FinishRaises(m)
    <3>1. [work[m] EXCEPT !.pc = "refinish", !.res = "error"] \in Worker
      BY <1>1 DEF Worker
    <3>2. QED
      BY <1>1, <2>5, <3>1, FreeTypes DEF FinishRaises, Free, Worker
  <2>6. CASE RuntimeDies(m) \/ RollbackStop(m)
    BY <2>6, FreeTypes DEF RuntimeDies, RollbackStop, Killed, Down
  <2>7. QED
    BY <2>1, <2>2, <2>3, <2>4, <2>5, <2>6
<1>5. QED
  BY <1>1, <1>2, <1>3, <1>4

\* The one write that may say 'done', and only of the row in hand.
LEMMA FinishEffect ==
  ASSUME IInv, NEW m \in Manager, Finish(m)
  PROVE  /\ UNCHANGED <<last, expired, caller, okRuns>>
         /\ \A n \in Manager : work'[n].cmd \in {0, work[n].cmd}
         /\ \A c \in Cmd :
              /\ row'[c].target = row[c].target
              /\ \/ row'[c].status = row[c].status
                 \/ /\ row[c].status \in {"processing", "timeout"}
                    /\ \/ row'[c].status = "error"
                       \/ row'[c].status = "done" /\ c \in okRuns
<1> DEFINE s == IF work[m].res = "ok" THEN "done" ELSE "error"
           C == {work[m].cmd} \ {d \in Cmd : StatusOf(d) = "deleted"}
<1>1. InHand(m)
  BY Hand DEF Finish
<1>2. SetStatus(C, s) /\ UNCHANGED <<last, expired, caller, okRuns>>
  BY DEF Finish, clock, history
<1>3. \A n \in Manager : work'[n].cmd \in {0, work[n].cmd}
  BY DEF Finish, Free, IInv, TypeOK
<1>4. s \in Status
  BY DEF Status, Final
<1>5. ASSUME NEW c \in C
      PROVE  /\ row[c].status \in {"processing", "timeout"}
             /\ s = "done" => c \in okRuns
  BY <1>1 DEF InHand, StatusOf
<1>6. s \in {"error", "done"}
  OBVIOUS
<1> HIDE DEF s, C
<1>7. \A c \in Cmd : /\ row'[c].target = row[c].target
                      /\ row'[c].status = IF c \in C THEN s ELSE row[c].status
  BY <1>2, <1>4, SetStatusEffect DEF IInv
<1>8. ASSUME NEW c \in Cmd
      PROVE  \/ row'[c].status = row[c].status
             \/ /\ row[c].status \in {"processing", "timeout"}
                /\ \/ row'[c].status = "error"
                   \/ row'[c].status = "done" /\ c \in okRuns
  <2>1. CASE c \in C
    BY <1>5, <1>6, <1>7, <2>1
  <2>2. CASE c \notin C
    BY <1>7, <2>2
  <2>3. QED
    BY <2>1, <2>2
<1>9. QED
  BY <1>2, <1>3, <1>7, <1>8

LEMMA PutEffect ==
  ASSUME IInv, NEW m \in Manager, Put(m)
  PROVE  /\ last + 1 \in Cmd /\ row[last + 1].status = "none"
         /\ row'[last + 1].status = "new"
         /\ caller'[last + 1] = "waiting"
         /\ \A c \in Cmd \ {last + 1} :
              row'[c] = row[c] /\ caller'[c] = caller[c]
         /\ UNCHANGED <<expired, work, okRuns>>
<1>1. last + 1 \in Cmd /\ StatusOf(last + 1) = "none"
  BY DEF Put, IInv, TypeOK, QueueDiscipline, FreshRows
<1>2. QED
  BY <1>1 DEF Put, IInv, TypeOK, StatusOf, clock, history

LEMMA TakeEffect ==
  ASSUME IInv, NEW m \in Manager, TakeNext(m)
  PROVE  /\ UNCHANGED <<last, expired, caller, okRuns>>
         /\ \E c \in Eligible(m) :
              /\ \A d \in Eligible(m) : c <= d
              /\ work'[m].cmd = c
              /\ \A n \in Manager \ {m} : work'[n] = work[n]
              /\ \A d \in Cmd :
                   /\ row'[d].target = row[d].target
                   /\ row'[d].status = IF d = c THEN "processing"
                                       ELSE row[d].status
<1>1. PICK c \in Eligible(m) :
        /\ \A d \in Eligible(m) : c <= d
        /\ SetStatus({c}, "processing")
        /\ work' = [work EXCEPT ![m] = Claim(c)]
  BY DEF TakeNext
<1>2. /\ work'[m].cmd = c
      /\ \A n \in Manager \ {m} : work'[n] = work[n]
  BY <1>1 DEF IInv, TypeOK, Claim
<1>3. \A d \in Cmd : /\ row'[d].target = row[d].target
                      /\ row'[d].status = IF d = c THEN "processing"
                                          ELSE row[d].status
  BY <1>1, SetStatusEffect DEF IInv, Status, Pending
<1>4. QED
  BY <1>1, <1>2, <1>3 DEF TakeNext, history

\* The rest: a caller, the clock, or nothing.
LEMMA QuietEffect ==
  ASSUME IInv,
         \/ \E c \in Cmd : GiveUp(c) \/ Expire(c) \/ GoStale(c)
         \/ UNCHANGED vars
  PROVE  /\ UNCHANGED <<row, last, work, okRuns>>
         /\ expired \subseteq expired'
         /\ \A c \in Cmd : caller'[c] = "success" => caller[c] = "success"
<1>1. ASSUME NEW c \in Cmd, GiveUp(c)
      PROVE  /\ UNCHANGED <<row, last, work, okRuns, expired>>
             /\ \A d \in Cmd : caller'[d] = "success" => caller[d] = "success"
  BY <1>1 DEF GiveUp, IInv, TypeOK, table, clock, history
<1>2. ASSUME NEW c \in Cmd, Expire(c) \/ GoStale(c)
      PROVE  /\ UNCHANGED <<row, last, work, okRuns, caller>>
             /\ expired \subseteq expired'
  BY <1>2 DEF Expire, GoStale, table, history
<1>3. CASE UNCHANGED vars
  BY <1>3 DEF vars, table, clock, history
<1>4. QED
  BY <1>1, <1>2, <1>3

(***************************************************************************)
(* Order.                                                                  *)
(***************************************************************************)

\* A step that makes no row new again, takes none and turns no clock back.
LEMMA OrderKept ==
  ASSUME IInv, ServedInOrder,
         expired \subseteq expired',
         \A m \in Manager : work'[m].cmd \in {0, work[m].cmd},
         \A c \in Cmd : row'[c].status = "new" =>
           \/ c > last
           \/ row[c].status = "new" /\ row'[c].target = row[c].target
  PROVE  ServedInOrder'
<1> SUFFICES ASSUME NEW m \in Manager, work'[m].cmd # 0,
                    NEW c \in Cmd, row'[c].target = m,
                    c < work'[m].cmd, row'[c].status = "new"
             PROVE  c \in expired'
  BY DEF ServedInOrder, RowsOf, StatusOf
<1>1. work[m].cmd = work'[m].cmd /\ InHand(m)
  BY DEF IInv, QueueDiscipline, HandsOK
<1>2. work[m].cmd \in Cmd /\ row[work[m].cmd].status # "none"
  BY <1>1 DEF InHand, StatusOf
<1>3. ~ (c > last)
  BY <1>1, <1>2 DEF IInv, QueueDiscipline, FreshRows, TypeOK, StatusOf
<1>4. QED
  BY <1>1, <1>2, <1>3 DEF ServedInOrder, RowsOf, StatusOf

LEMMA OrderTake ==
  ASSUME IInv, ServedInOrder, NEW n \in Manager, TakeNext(n)
  PROVE  ServedInOrder'
<1>1. PICK e \in Eligible(n) :
        /\ \A d \in Eligible(n) : e <= d
        /\ work'[n].cmd = e
        /\ \A k \in Manager \ {n} : work'[k] = work[k]
        /\ \A d \in Cmd :
             /\ row'[d].target = row[d].target
             /\ row'[d].status = IF d = e THEN "processing" ELSE row[d].status
  BY TakeEffect
<1>2. expired' = expired
  BY TakeEffect
<1> SUFFICES ASSUME NEW m \in Manager, work'[m].cmd # 0,
                    NEW c \in Cmd, row'[c].target = m,
                    c < work'[m].cmd, row'[c].status = "new"
             PROVE  c \in expired'
  BY DEF ServedInOrder, RowsOf, StatusOf
<1>3. row[c].status = "new" /\ row[c].target = m
  BY <1>1
<1>4. CASE m = n
  <2>1. e \in Cmd /\ c < e
    BY <1>1, <1>4 DEF Eligible, RowsOf
  <2>2. c \notin Eligible(n)
    BY <1>1, <2>1
  <2>3. QED
    BY <1>2, <1>3, <1>4, <2>2 DEF Eligible, RowsOf, StatusOf
<1>5. CASE m # n
  BY <1>1, <1>2, <1>3, <1>5 DEF ServedInOrder, RowsOf, StatusOf
<1>6. QED
  BY <1>4, <1>5

LEMMA OrderStep == IInv /\ ServedInOrder /\ [Next]_vars => ServedInOrder'
<1> SUFFICES ASSUME IInv, ServedInOrder, [Next]_vars PROVE ServedInOrder'
  OBVIOUS
<1>1. ASSUME NEW m \in Manager, TakeNext(m) PROVE ServedInOrder'
  BY <1>1, OrderTake
<1>2. ASSUME NEW m \in Manager,
             \/ StartRuntime(m) \/ SkipExpired(m) \/ Refuse(m) \/ Begin(m)
             \/ Execute(m) \/ FinishRaises(m) \/ RuntimeDies(m)
             \/ RollbackStop(m)
      PROVE  ServedInOrder'
  BY <1>2, LoopMoves, OrderKept
<1>3. ASSUME NEW m \in Manager, Finish(m) PROVE ServedInOrder'
  BY <1>3, FinishEffect, OrderKept
<1>4. ASSUME NEW m \in Manager, Put(m) PROVE ServedInOrder'
  <2>1. last \in Nat /\ \A n \in Manager : work'[n].cmd = work[n].cmd
    BY <1>4, PutEffect DEF IInv, TypeOK
  <2>2. \A c \in Cmd : row'[c].status = "new" =>
          \/ c > last
          \/ row[c].status = "new" /\ row'[c].target = row[c].target
    BY <1>4, <2>1, PutEffect
  <2>3. QED
    BY <1>4, <2>1, <2>2, PutEffect, OrderKept
<1>5. ASSUME \/ MarkTimeouts
             \/ \E c \in Cmd : CleanupFinished(c)
             \/ \E m \in Manager : RollbackFinalize(m) \/ DeleteManagerRows(m)
      PROVE  ServedInOrder'
  BY <1>5, RowEnds, OrderKept
<1>6. ASSUME \/ \E c \in Cmd : GiveUp(c) \/ Expire(c) \/ GoStale(c)
             \/ UNCHANGED vars
      PROVE  ServedInOrder'
  BY <1>6, QuietEffect, OrderKept
<1>7. ASSUME NEW c \in Cmd, PollAnswers(c) PROVE ServedInOrder'
  BY <1>7, OrderKept DEF PollAnswers, table, clock
<1>8. QED
  BY <1>1, <1>2, <1>3, <1>4, <1>5, <1>6, <1>7 DEF Next, Runtime

(***************************************************************************)
(* Results.                                                                *)
(***************************************************************************)

\* A step that reports nothing, and writes 'done' only of a row that ran ok.
LEMMA ResultsKept ==
  ASSUME ResultsAreTrue,
         okRuns \subseteq okRuns',
         \A c \in Cmd : caller'[c] = "success" => caller[c] = "success",
         \A c \in Cmd :
           /\ row'[c].status = "done" => row[c].status = "done" \/ c \in okRuns
           /\ row[c].status \in {"done", "deleted"} =>
                row'[c].status \in {"done", "deleted"}
  PROVE  ResultsAreTrue'
BY DEF ResultsAreTrue, StatusOf

LEMMA ResultsStep == IInv /\ ResultsAreTrue /\ [Next]_vars => ResultsAreTrue'
<1> SUFFICES ASSUME IInv, ResultsAreTrue, [Next]_vars PROVE ResultsAreTrue'
  OBVIOUS
<1>1. ASSUME NEW m \in Manager, TakeNext(m) PROVE ResultsAreTrue'
  <2>1. \A c \in Eligible(m) : row[c].status \in {"new", "processing"}
    BY DEF Eligible, StatusOf
  <2>2. QED
    BY <1>1, <2>1, TakeEffect, ResultsKept
<1>2. ASSUME NEW m \in Manager,
             \/ StartRuntime(m) \/ SkipExpired(m) \/ Refuse(m) \/ Begin(m)
             \/ Execute(m) \/ FinishRaises(m) \/ RuntimeDies(m)
             \/ RollbackStop(m)
      PROVE  ResultsAreTrue'
  BY <1>2, LoopMoves, ResultsKept
<1>3. ASSUME NEW m \in Manager, Finish(m) PROVE ResultsAreTrue'
  BY <1>3, FinishEffect, ResultsKept
<1>4. ASSUME NEW m \in Manager, Put(m) PROVE ResultsAreTrue'
  BY <1>4, PutEffect, ResultsKept
<1>5. ASSUME \/ MarkTimeouts
             \/ \E c \in Cmd : CleanupFinished(c)
             \/ \E m \in Manager : RollbackFinalize(m) \/ DeleteManagerRows(m)
      PROVE  ResultsAreTrue'
  BY <1>5, RowEnds, ResultsKept DEF Pending
<1>6. ASSUME \/ \E c \in Cmd : GiveUp(c) \/ Expire(c) \/ GoStale(c)
             \/ UNCHANGED vars
      PROVE  ResultsAreTrue'
  BY <1>6, QuietEffect, ResultsKept
<1>7. ASSUME NEW c \in Cmd, PollAnswers(c) PROVE ResultsAreTrue'
  <2>1. /\ UNCHANGED <<row, okRuns>>
        /\ caller'[c] = "success" => row[c].status = "done"
        /\ \A d \in Cmd \ {c} : caller'[d] = caller[d]
    BY <1>7 DEF PollAnswers, IInv, TypeOK, StatusOf, table, history
  <2>2. QED
    BY <2>1 DEF ResultsAreTrue, StatusOf
<1>8. QED
  BY <1>1, <1>2, <1>3, <1>4, <1>5, <1>6, <1>7 DEF Next, Runtime

(***************************************************************************)
(* Start of an execution.                                                  *)
(***************************************************************************)

\* Only Begin adds an execution.
LEMMA StartStep ==
  IInv /\ [Next]_vars =>
    \A c \in Cmd : runs'[c] > runs[c] =>
      c \notin expired /\ (StatusOf(c) = "timeout" => c \in rolled)
<1> SUFFICES ASSUME IInv, [Next]_vars, NEW c \in Cmd, runs'[c] > runs[c]
             PROVE  c \notin expired /\ (StatusOf(c) = "timeout" => c \in rolled)
  OBVIOUS
<1>1. runs \in [Cmd -> Nat] /\ EndsOK
  BY DEF IInv, TypeOK, QueueDiscipline
<1>2. runs' # runs
  BY <1>1
<1>3. ASSUME NEW m \in Manager, Begin(m) PROVE c = work[m].cmd /\ c \notin expired
  BY <1>1, <1>3 DEF Begin
<1>4. ASSUME NEW m \in Manager,
             FinishRaises(m) \/ RuntimeDies(m) \/ RollbackStop(m)
      PROVE  FALSE
  <2>1. \/ runs' = runs
        \/ runs' = [runs EXCEPT ![work[m].cmd] = @ - 1]
    BY <1>4 DEF FinishRaises, RuntimeDies, RollbackStop, Killed
  <2>2. QED
    BY <1>1, <2>1
<1>5. ASSUME NEW m \in Manager,
             \/ StartRuntime(m) \/ TakeNext(m) \/ SkipExpired(m) \/ Refuse(m)
             \/ Execute(m) \/ Finish(m) \/ Put(m)
      PROVE  FALSE
  BY <1>2, <1>5
  DEF StartRuntime, TakeNext, SkipExpired, Refuse, Execute, Finish, Put, history
<1>6. ASSUME NEW d \in Cmd, PollAnswers(d) \/ GiveUp(d) \/ Expire(d) \/ GoStale(d)
      PROVE  FALSE
  BY <1>2, <1>6 DEF PollAnswers, GiveUp, Expire, GoStale, history
<1>7. ~ UNCHANGED vars
  BY <1>2 DEF vars, history
<1>8. PICK m \in Manager : Begin(m)
  BY <1>2, <1>4, <1>5, <1>6, <1>7, RowEnds DEF Next, Runtime
<1>9. QED
  BY <1>1, <1>3, <1>8 DEF EndsOK

(***************************************************************************)
(* Theorems.                                                               *)
(***************************************************************************)

\* Every state of the queue is well typed; in particular the count of
\* executions never goes below zero, although a crash and a failing finish
\* take back the execution whose result they lose.
THEOREM QueueTypeCorrect == Spec => []TypeOK
<1>1. IInv => TypeOK
  BY DEF IInv
<1>2. QED
  BY <1>1, Inductive, PTL

\* The row a runtime holds is its own and unfinished by anybody but a sweep, a
\* rollback or a deletion; a row that has run is in the hand that ran it or
\* settled; a timeout has a reason.
THEOREM QueueDisciplined == Spec => []QueueDiscipline
<1>1. IInv => QueueDiscipline
  BY DEF IInv
<1>2. QED
  BY <1>1, Inductive, PTL

\* Retaking stale rows, sweeping, rolling back, deleting and late finishes
\* never make the loop execute a command twice, unless the result of the first
\* execution was lost to a crash or to two failing writes.
THEOREM RepeatsExplained == Spec => []RepeatedOnlyWhenLost
<1>1. IInv => RepeatedOnlyWhenLost
  BY DEF IInv, QueueDiscipline, RunsOK, RepeatedOnlyWhenLost
<1>2. QED
  BY <1>1, Inductive, PTL

\* A row finalised by manager_queue_finalize_all_for_manager never becomes
\* takeable again, even when the stop of the runtime had failed.
THEOREM RolledBackStays == Spec => []RolledBackNotTaken
<1>1. IInv => RolledBackNotTaken
  BY DEF IInv, TypeOK, QueueDiscipline, EndsOK, RolledBackNotTaken, Gone, Final,
         Pending
<1>2. QED
  BY <1>1, Inductive, PTL

\* manager_queue_take_next serves the rows of a manager in the order they were
\* put: an older row that is still new was passed over only because it expired.
THEOREM ServesInOrder == Spec => []ServedInOrder
<1>1. Init => ServedInOrder
  BY DEF Init, ServedInOrder, Down
<1>2. IInv /\ ServedInOrder /\ [Next]_vars => ServedInOrder'
  BY OrderStep
<1>3. QED
  BY <1>1, <1>2, Inductive, PTL DEF Spec

\* The table says 'done', and a caller reports success, only for a command
\* that was executed and returned ok, and what was reported stays reported.
THEOREM ResultsStayTrue == Spec => []ResultsAreTrue
<1>1. Init => ResultsAreTrue
  BY DEF Init, ResultsAreTrue, StatusOf
<1>2. IInv /\ ResultsAreTrue /\ [Next]_vars => ResultsAreTrue'
  BY ResultsStep
<1>3. QED
  BY <1>1, <1>2, Inductive, PTL DEF Spec

\* The expiry guard of the loop, between the claim and the execution, is
\* enough: no step begins to execute an expired row or one the sweep finalised.
THEOREM StartsInTime == Spec => StartedInTime
<1>1. IInv /\ [Next]_vars =>
        [\A c \in Cmd : runs'[c] > runs[c] =>
           /\ c \notin expired
           /\ StatusOf(c) = "timeout" => c \in rolled]_vars
  BY StartStep
<1>2. QED
  BY <1>1, Inductive, PTL DEF Spec, StartedInTime

(***************************************************************************)
(* The queue implements Delivery.  Beside the discipline, the order and    *)
(* the results this needs that nobody has said anything about an id that is*)
(* not in use, and that an execution whose success is recorded is over:    *)
(* nothing can lose it any more.                                           *)
(***************************************************************************)
UntoldOK ==
  \A c \in Cmd : StatusOf(c) = "none" => c \notin expired /\ caller[c] = "none"

SureOK ==
  \A c \in Cmd :
    /\ StatusOf(c) = "done" => runs[c] = 1
    /\ caller[c] = "success" => /\ runs[c] = 1
                                /\ \A m \in Manager : work[m].cmd # c

DInv == IInv /\ ServedInOrder /\ ResultsAreTrue /\ UntoldOK /\ SureOK

\* What the loop does to the executions that count: it begins the one in hand,
\* loses it, or leaves them alone.
LEMMA RunMoves ==
  ASSUME IInv, NEW m \in Manager,
         \/ Runtime(m) \/ StartRuntime(m)
         \/ FinishRaises(m) \/ RuntimeDies(m) \/ RollbackStop(m)
  PROVE  \/ UNCHANGED runs
         \/ Begin(m) /\ InHand(m) /\ runs' = [runs EXCEPT ![work[m].cmd] = 1]
         \/ /\ work[m].pc \in Executing /\ InHand(m) /\ UNCHANGED okRuns
            /\ runs' = [runs EXCEPT ![work[m].cmd] = 0]
<1>1. runs \in [Cmd -> Nat]
  BY DEF IInv, TypeOK
<1>2. CASE Begin(m)
  <2>1. InHand(m) /\ work[m].pc = "claimed"
    BY <1>2, Hand DEF Begin
  <2>2. work[m].cmd \in Cmd /\ runs[work[m].cmd] = 0
    BY <2>1 DEF InHand, Executing
  <2>3. runs' = [runs EXCEPT ![work[m].cmd] = @ + 1]
    BY <1>2 DEF Begin
  <2>4. QED
    BY <1>1, <1>2, <2>1, <2>2, <2>3
<1>3. CASE FinishRaises(m) \/ RuntimeDies(m) \/ RollbackStop(m)
  <2>1. UNCHANGED okRuns
    BY <1>3 DEF FinishRaises, RuntimeDies, RollbackStop
  <2>2. \/ UNCHANGED runs
        \/ /\ work[m].pc \in Executing
           /\ runs' = [runs EXCEPT ![work[m].cmd] = @ - 1]
    BY <1>3 DEF FinishRaises, RuntimeDies, RollbackStop, Killed, Executing
  <2>3. work[m].pc \in Executing => InHand(m) /\ runs[work[m].cmd] = 1
    BY Hand DEF InHand, Executing
  <2>4. QED
    BY <1>1, <2>1, <2>2, <2>3
<1>4. CASE StartRuntime(m) \/ TakeNext(m) \/ SkipExpired(m) \/ Refuse(m)
           \/ Execute(m) \/ Finish(m)
  BY <1>4
  DEF StartRuntime, TakeNext, SkipExpired, Refuse, Execute, Finish, history
<1>5. QED
  BY <1>2, <1>3, <1>4 DEF Runtime

\* Where the rows go: an id in use stays in use, and only the finish of an
\* execution that returned ok makes a row 'done'.
LEMMA StatusMoves ==
  ASSUME IInv, [Next]_vars
  PROVE  \A c \in Cmd :
           /\ row'[c].status = "none" => row[c].status = "none"
           /\ row'[c].status = "done" =>
                \/ row[c].status = "done"
                \/ runs[c] = 1
<1>1. ASSUME NEW m \in Manager, TakeNext(m)
      PROVE  \A c \in Cmd : row'[c].status \in {row[c].status, "processing"}
  BY <1>1, TakeEffect
<1>2. ASSUME NEW m \in Manager,
             \/ StartRuntime(m) \/ SkipExpired(m) \/ Refuse(m) \/ Begin(m)
             \/ Execute(m) \/ FinishRaises(m) \/ RuntimeDies(m) \/ RollbackStop(m)
      PROVE  row' = row
  BY <1>2, LoopMoves
<1>3. ASSUME NEW m \in Manager, Finish(m)
      PROVE  \A c \in Cmd :
               \/ row'[c].status \in {row[c].status, "error"}
               \/ row'[c].status = "done" /\ runs[c] = 1
  <2>1. InHand(m)
    BY <1>3, Hand DEF Finish
  <2>2. work[m].res = "ok" => runs[work[m].cmd] = 1
    BY <2>1 DEF InHand, Executing
  <2>3. \A c \in Cmd :
          \/ row'[c].status = row[c].status
          \/ c = work[m].cmd /\ row'[c].status =
               IF work[m].res = "ok" THEN "done" ELSE "error"
    BY <1>3 DEF Finish, SetStatus, IInv, TypeOK, Row
  <2>4. QED
    BY <2>2, <2>3
<1>4. ASSUME NEW m \in Manager, Put(m)
      PROVE  \A c \in Cmd : row'[c].status \in {row[c].status, "new"}
  BY <1>4, PutEffect
<1>5. ASSUME NEW c \in Cmd, PollAnswers(c) PROVE row' = row
  BY <1>5 DEF PollAnswers, table
<1>6. QED
  BY <1>1, <1>2, <1>3, <1>4, <1>5, RowEnds, QuietEffect DEF Next, Runtime

LEMMA UntoldStep == IInv /\ UntoldOK /\ [Next]_vars => UntoldOK'
<1> SUFFICES ASSUME IInv, UntoldOK, [Next]_vars PROVE UntoldOK'
  OBVIOUS
<1>0. caller \in [Cmd -> {"none", "waiting", "success", "failure"}]
  BY DEF IInv, TypeOK
<1>1. \A c \in Cmd : row'[c].status = "none" => row[c].status = "none"
  BY StatusMoves
<1>2. ASSUME UNCHANGED <<expired, caller>> PROVE UntoldOK'
  BY <1>1, <1>2 DEF UntoldOK, StatusOf
<1>3. ASSUME NEW m \in Manager, Put(m) PROVE UntoldOK'
  BY <1>3, PutEffect DEF UntoldOK, StatusOf
<1>4. ASSUME NEW c \in Cmd, PollAnswers(c) \/ GiveUp(c) PROVE UntoldOK'
  <2>1. caller[c] = "waiting" /\ expired' = expired
    BY <1>4 DEF PollAnswers, GiveUp, clock
  <2>2. \A d \in Cmd \ {c} : caller'[d] = caller[d]
    BY <1>0, <1>4 DEF PollAnswers, GiveUp
  <2>3. QED
    BY <1>1, <2>1, <2>2 DEF UntoldOK, StatusOf
<1>5. ASSUME NEW c \in Cmd, Expire(c) PROVE UntoldOK'
  <2>1. StatusOf(c) # "none"
    <3>1. CASE StatusOf(c) \in Pending
      BY <3>1 DEF Pending
    <3>2. ASSUME NEW m \in Manager, work[m].pc = "claimed", work[m].cmd = c
          PROVE  StatusOf(c) # "none"
      BY <3>2, Hand DEF InHand
    <3>3. QED
      BY <1>5, <3>1, <3>2 DEF Expire
  <2>2. expired' = expired \cup {c} /\ caller' = caller
    BY <1>5 DEF Expire
  <2>3. QED
    BY <1>1, <2>1, <2>2 DEF UntoldOK, StatusOf
<1>6. ASSUME NEW m \in Manager, Runtime(m) \/ StartRuntime(m) \/ FinishRaises(m)
                                \/ RuntimeDies(m) \/ RollbackStop(m)
      PROVE  UNCHANGED <<expired, caller>>
  BY <1>6, LoopMoves, TakeEffect, FinishEffect DEF Runtime
<1>7. ASSUME (\E c \in Cmd : GoStale(c)) \/ UNCHANGED vars
      PROVE  UNCHANGED <<expired, caller>>
  BY <1>7 DEF GoStale, vars, clock
<1>8. QED
  BY <1>2, <1>3, <1>4, <1>5, <1>6, <1>7, RowEnds DEF Next

\* A row that is 'done', and one whose success was told, is in nobody's hand,
\* so nothing that a loop loses is theirs.
LEMMA SureStep ==
  IInv /\ ResultsAreTrue /\ SureOK /\ [Next]_vars => SureOK'
<1> SUFFICES ASSUME IInv, ResultsAreTrue, SureOK, [Next]_vars PROVE SureOK'
  OBVIOUS
<1>0. /\ runs \in [Cmd -> Nat]
      /\ caller \in [Cmd -> {"none", "waiting", "success", "failure"}]
  BY DEF IInv, TypeOK
<1>1. \A c \in Cmd : row'[c].status = "done" => runs[c] = 1
  BY StatusMoves DEF SureOK, StatusOf
<1>2. ASSUME \A c \in Cmd : caller'[c] = "success" => caller[c] = "success",
             \A c \in Cmd : runs[c] = 1 =>
               \/ runs'[c] = 1
               \/ row'[c].status # "done" /\ caller[c] # "success",
             \A c \in Cmd : caller[c] = "success" =>
               \A m \in Manager : work'[m].cmd \in {0, work[m].cmd}
                                  \/ work'[m].cmd # c
      PROVE  SureOK'
  BY <1>1, <1>2 DEF SureOK, StatusOf
<1>3. ASSUME NEW m \in Manager, TakeNext(m) PROVE SureOK'
  <2>1. PICK c \in Eligible(m) :
          /\ work'[m].cmd = c
          /\ \A n \in Manager \ {m} : work'[n] = work[n]
    BY <1>3, TakeEffect
  <2>2. c \in Cmd /\ caller[c] # "success"
    BY DEF Eligible, RowsOf, ResultsAreTrue
  <2>3. caller' = caller /\ runs' = runs
    BY <1>3 DEF TakeNext, history
  <2>4. QED
    BY <1>2, <2>1, <2>2, <2>3
<1>4. ASSUME NEW m \in Manager,
             \/ StartRuntime(m) \/ SkipExpired(m) \/ Refuse(m) \/ Begin(m)
             \/ Execute(m) \/ FinishRaises(m) \/ RuntimeDies(m) \/ RollbackStop(m)
      PROVE  SureOK'
  <2>1. row' = row /\ caller' = caller
        /\ \A n \in Manager : work'[n].cmd \in {0, work[n].cmd}
    BY <1>4, LoopMoves
  <2>2. \A c \in Cmd : runs[c] = 1 =>
          runs'[c] = 1 \/ (row'[c].status # "done" /\ caller[c] # "success")
    <3>1. CASE UNCHANGED runs
      BY <3>1
    <3>2. CASE runs' = [runs EXCEPT ![work[m].cmd] = 1]
      BY <1>0, <3>2
    <3>3. CASE InHand(m) /\ runs' = [runs EXCEPT ![work[m].cmd] = 0]
      BY <1>0, <2>1, <3>3 DEF InHand, SureOK, StatusOf
    <3>4. QED
      BY <1>4, <3>1, <3>2, <3>3, RunMoves DEF Runtime
  <2>3. QED
    BY <1>2, <2>1, <2>2
<1>5. ASSUME NEW m \in Manager, Finish(m) PROVE SureOK'
  BY <1>2, <1>5, FinishEffect DEF Finish, history
<1>6. ASSUME NEW m \in Manager, Put(m) PROVE SureOK'
  <2>1. /\ runs' = runs /\ work' = work
        /\ \A c \in Cmd : caller'[c] = "success" => caller[c] = "success"
    BY <1>6, PutEffect DEF Put, history
  <2>2. QED
    BY <1>2, <2>1
<1>7. ASSUME NEW c \in Cmd, PollAnswers(c) PROVE SureOK'
  <2>1. /\ UNCHANGED <<row, runs, work>>
        /\ caller'[c] = "success" => row[c].status = "done"
        /\ \A d \in Cmd \ {c} : caller'[d] = caller[d]
    BY <1>0, <1>7 DEF PollAnswers, StatusOf, table, history
  <2>2. row[c].status = "done" => \A m \in Manager : work[m].cmd # c
    BY DEF IInv, QueueDiscipline, HandsOK, InHand, StatusOf
  <2>3. QED
    BY <2>1, <2>2 DEF SureOK, StatusOf
<1>8. ASSUME \/ MarkTimeouts
             \/ \E c \in Cmd : CleanupFinished(c)
             \/ \E m \in Manager : RollbackFinalize(m) \/ DeleteManagerRows(m)
      PROVE  SureOK'
  BY <1>2, <1>8, RowEnds
<1>9. ASSUME \/ \E c \in Cmd : GiveUp(c) \/ Expire(c) \/ GoStale(c)
             \/ UNCHANGED vars
      PROVE  SureOK'
  <2>1. runs' = runs
    BY <1>9 DEF GiveUp, Expire, GoStale, vars, history
  <2>2. QED
    BY <1>2, <1>9, <2>1, QuietEffect
<1>10. QED
  BY <1>3, <1>4, <1>5, <1>6, <1>7, <1>8, <1>9 DEF Next, Runtime

LEMMA DeliveryInvariant == Spec => []DInv
<1>1. Init => ServedInOrder /\ ResultsAreTrue /\ UntoldOK /\ SureOK
  BY DEF Init, ServedInOrder, ResultsAreTrue, UntoldOK, SureOK, StatusOf, Down
<1>2. DInv /\ [Next]_vars => DInv'
  BY IInvStep, OrderStep, ResultsStep, UntoldStep, SureStep DEF DInv
<1>3. QED
  BY <1>1, <1>2, InitOK, PTL DEF Spec, DInv

\* A step that puts nothing, and touches no row in line.
LEMMA TableSame ==
  ASSUME \A c \in Cmd :
           /\ row'[c].target = row[c].target
           /\ row'[c].status = "none" <=> row[c].status = "none"
           /\ row'[c].status = "new" /\ c \notin expired'
                <=> row[c].status = "new" /\ c \notin expired
  PROVE  Asked' = Asked /\ Line' = Line
<1>1. \A m \in Manager : RowsOf(m)' = RowsOf(m)
  BY DEF RowsOf, StatusOf
<1>2. \A m \in Manager :
        ({c \in RowsOf(m) : StatusOf(c) = "new"} \ expired)'
          = {c \in RowsOf(m) : StatusOf(c) = "new"} \ expired
  BY <1>1 DEF RowsOf, StatusOf
<1>3. QED
  BY <1>1, <1>2 DEF Asked, Line

\* The members of the two lines.
LEMMA InLine ==
  ASSUME NEW m \in Manager
  PROVE  /\ \A c : c \in Asked[m] <=> c \in Cmd /\ row[c].target = m
                                      /\ row[c].status # "none"
         /\ \A c : c \in Line[m] <=> c \in Cmd /\ row[c].target = m
                                     /\ row[c].status = "new" /\ c \notin expired
BY DEF Asked, Line, RowsOf, StatusOf

LEMMA DeliveryInit == Init => Dlv!Init
<1> SUFFICES ASSUME Init PROVE Dlv!Init
  OBVIOUS
<1>1. \A m \in Manager : RowsOf(m) = {}
  BY DEF Init, RowsOf, StatusOf
<1>2. QED
  BY <1>1 DEF Init, Dlv!Init, Asked, Line

LEMMA DeliveryPut ==
  ASSUME DInv, NEW m \in Manager, Put(m)
  PROVE  Dlv!Ask(m, last + 1) /\ last + 1 \in Cmd
<1> DEFINE n == last + 1
<1>1. /\ n \in Cmd /\ row[n].status = "none"
      /\ row' = [row EXCEPT ![n] = [status |-> "new", target |-> m,
                                    expires |-> row'[n].expires]]
      /\ UNCHANGED <<expired, runs, okRuns>>
      /\ caller' = [caller EXCEPT ![n] = "waiting"]
  BY PutEffect DEF DInv, Put, IInv, TypeOK, clock, history
<1>2. n \notin expired /\ caller[n] = "none"
  BY <1>1 DEF DInv, UntoldOK, StatusOf
<1>3. /\ row'[n].status = "new" /\ row'[n].target = m
      /\ \A c \in Cmd \ {n} : row'[c] = row[c]
  BY <1>1 DEF DInv, IInv, TypeOK
<1>4. \A k \in Manager : \A d \in Asked[k] : d < n
  <2>1. \A c \in Cmd : row[c].status # "none" => ~ (c > last)
    BY DEF DInv, IInv, QueueDiscipline, FreshRows, StatusOf
  <2>2. last \in Nat
    BY DEF DInv, IInv, TypeOK
  <2>3. \A k \in Manager : \A d \in Asked[k] : d \in Cmd /\ row[d].status # "none"
    BY InLine
  <2>4. QED
    BY <2>1, <2>2, <2>3
<1> HIDE DEF n
<1>5. \A k \in Manager : Asked'[k] = IF k = m THEN Asked[k] \cup {n} ELSE Asked[k]
  BY <1>1, <1>3 DEF Asked, RowsOf, StatusOf
<1>6. \A k \in Manager : Line'[k] = IF k = m THEN Line[k] \cup {n} ELSE Line[k]
  BY <1>1, <1>2, <1>3 DEF Line, RowsOf, StatusOf
<1>7. /\ Asked' = [Asked EXCEPT ![m] = @ \cup {n}]
      /\ Line' = [Line EXCEPT ![m] = @ \cup {n}]
  BY <1>5, <1>6 DEF Asked, Line
<1>8. Dlv!Ask(m, n)
  BY <1>1, <1>2, <1>4, <1>7 DEF Dlv!Ask, Dlv!work
<1>9. QED
  BY <1>1, <1>8 DEF n

LEMMA DeliveryTake ==
  ASSUME DInv, NEW m \in Manager, TakeNext(m)
  PROVE  (\E c \in Cmd : Dlv!Pick(m, c)) \/ UNCHANGED Dlv!all
<1>1. PICK c \in Eligible(m) :
        /\ \A d \in Eligible(m) : c <= d
        /\ \A d \in Cmd :
             /\ row'[d].target = row[d].target
             /\ row'[d].status = IF d = c THEN "processing" ELSE row[d].status
  BY TakeEffect DEF DInv
<1>2. UNCHANGED <<expired, caller, okRuns, runs>>
  BY DEF TakeNext, history
<1>3. /\ c \in Cmd /\ row[c].target = m /\ c \notin expired
      /\ row[c].status \in {"new", "processing"}
  BY DEF Eligible, RowsOf, StatusOf
<1>4. CASE row[c].status = "new"
  <2>1. \A k \in Manager : Asked'[k] = Asked[k]
    BY <1>1, <1>3 DEF Asked, RowsOf, StatusOf
  <2>2. \A k \in Manager : Line'[k] = IF k = m THEN Line[k] \ {c} ELSE Line[k]
    BY <1>1, <1>2, <1>3 DEF Line, RowsOf, StatusOf
  <2>3. Asked' = Asked /\ Line' = [Line EXCEPT ![m] = @ \ {c}]
    BY <2>1, <2>2 DEF Asked, Line
  <2>4. c \in Line[m] /\ \A d \in Line[m] : d \in Eligible(m)
    BY <1>3, <1>4 DEF Line, Eligible, RowsOf, StatusOf
  <2>5. Dlv!Pick(m, c)
    BY <1>1, <1>2, <2>3, <2>4 DEF Dlv!Pick, Dlv!work
  <2>6. QED
    BY <1>3, <2>5
<1>5. CASE row[c].status = "processing"
  <2>1. Asked' = Asked /\ Line' = Line
    BY <1>1, <1>2, <1>3, <1>5, TableSame
  <2>2. QED
    BY <1>2, <2>1 DEF Dlv!all, Dlv!work
<1>6. QED
  BY <1>3, <1>4, <1>5

LEMMA DeliveryBegin ==
  ASSUME DInv, NEW m \in Manager, Begin(m)
  PROVE  work[m].cmd \in Cmd /\ Dlv!Begin(m, work[m].cmd)
<1> DEFINE c == work[m].cmd
<1>1. InHand(m) /\ c \notin expired
  BY Hand DEF Begin, DInv
<1>2. /\ c \in Cmd /\ row[c].target = m
      /\ row[c].status \in {"processing", "timeout", "deleted"}
      /\ runs[c] = 0
  BY <1>1 DEF InHand, StatusOf, Begin, Executing
<1>3. UNCHANGED <<row, expired, caller, okRuns>>
  BY DEF Begin, table, clock
<1>4. runs' = [runs EXCEPT ![c] = 1]
  BY <1>2 DEF Begin, DInv, IInv, TypeOK
<1>5. Asked' = Asked /\ Line' = Line
  BY <1>3, TableSame
<1>6. \A d \in Line[m] : c < d
  <2> SUFFICES ASSUME NEW d \in Line[m] PROVE c < d
    OBVIOUS
  <2>1. d \in RowsOf(m) /\ StatusOf(d) = "new" /\ d \notin expired /\ d \in Cmd
    BY DEF Line, RowsOf
  <2>2. ~ (d < c)
    BY <1>2, <2>1 DEF DInv, ServedInOrder
  <2>3. d # c
    BY <1>2, <2>1 DEF StatusOf
  <2>4. QED
    BY <1>2, <2>1, <2>2, <2>3
<1>7. c \in Asked[m]
  BY <1>2, InLine
<1> HIDE DEF c
<1>8. Dlv!Begin(m, c)
  BY <1>1, <1>2, <1>3, <1>4, <1>5, <1>6, <1>7 DEF Dlv!Begin
<1>9. QED
  BY <1>2, <1>8 DEF c

\* The other steps of a loop: an execution returns, is lost, or nothing.
LEMMA DeliveryLoop ==
  ASSUME DInv, NEW m \in Manager,
         \/ StartRuntime(m) \/ SkipExpired(m) \/ Refuse(m) \/ Execute(m)
         \/ FinishRaises(m) \/ RuntimeDies(m) \/ RollbackStop(m)
  PROVE  \/ \E c \in Cmd : Dlv!ReturnOk(c) \/ Dlv!Lose(c)
         \/ UNCHANGED Dlv!all
<1> DEFINE c == work[m].cmd
<1>1. UNCHANGED <<row, expired, caller>>
  BY LoopMoves DEF DInv
<1>2. Asked' = Asked /\ Line' = Line
  BY <1>1, TableSame
<1>3. CASE Execute(m)
  <2>1. runs' = runs /\ okRuns' \in {okRuns, okRuns \cup {c}}
    BY <1>3 DEF Execute
  <2>2. c \in Cmd /\ runs[c] = 1
    BY <1>3, Hand DEF DInv, Execute, InHand, Executing
  <2> HIDE DEF c
  <2>3. CASE okRuns' = okRuns
    BY <1>1, <1>2, <2>1, <2>3 DEF Dlv!all, Dlv!work
  <2>4. CASE okRuns' = okRuns \cup {c} /\ c \notin okRuns
    BY <1>1, <1>2, <2>1, <2>2, <2>4 DEF Dlv!ReturnOk
  <2>5. QED
    BY <2>1, <2>3, <2>4
<1>4. CASE FinishRaises(m) \/ RuntimeDies(m) \/ RollbackStop(m)
  <2>1. okRuns' = okRuns
    BY <1>4 DEF FinishRaises, RuntimeDies, RollbackStop
  <2>2. \/ runs' = runs
        \/ /\ work[m].pc \in Executing /\ InHand(m)
           /\ runs' = [runs EXCEPT ![c] = 0]
        \/ Begin(m)
    BY <1>4, RunMoves DEF DInv
  <2>3. ~ Begin(m)
    BY <1>4 DEF FinishRaises, RuntimeDies, RollbackStop, Begin, Killed, Down,
                Free, DInv, IInv, TypeOK
  <2>4. ASSUME work[m].pc \in Executing, InHand(m)
        PROVE  c \in Cmd /\ runs[c] = 1 /\ caller[c] # "success"
    BY <2>4 DEF InHand, DInv, SureOK
  <2> HIDE DEF c
  <2>5. CASE runs' = runs
    BY <1>1, <1>2, <2>1, <2>5 DEF Dlv!all, Dlv!work
  <2>6. CASE /\ work[m].pc \in Executing /\ InHand(m)
             /\ runs' = [runs EXCEPT ![c] = 0]
    BY <1>1, <1>2, <2>1, <2>4, <2>6 DEF Dlv!Lose
  <2>7. QED
    BY <2>2, <2>3, <2>5, <2>6
<1>5. CASE StartRuntime(m) \/ SkipExpired(m) \/ Refuse(m)
  <2>1. UNCHANGED <<runs, okRuns>>
    BY <1>5 DEF StartRuntime, SkipExpired, Refuse, history
  <2>2. QED
    BY <1>1, <1>2, <2>1 DEF Dlv!all, Dlv!work
<1>6. QED
  BY <1>3, <1>4, <1>5

LEMMA DeliveryFinish ==
  ASSUME DInv, NEW m \in Manager, Finish(m)
  PROVE  UNCHANGED Dlv!all
<1>1. UNCHANGED <<expired, caller, okRuns, runs>>
  BY DEF Finish, clock, history
<1>2. Asked' = Asked /\ Line' = Line
  BY <1>1, FinishEffect, TableSame DEF DInv
<1>3. QED
  BY <1>1, <1>2 DEF Dlv!all, Dlv!work

LEMMA DeliveryTell ==
  ASSUME DInv, NEW c \in Cmd, PollAnswers(c) \/ GiveUp(c)
  PROVE  Dlv!TellSuccess(c) \/ Dlv!TellFailure(c)
<1>1. UNCHANGED <<row, expired, okRuns, runs>> /\ caller[c] = "waiting"
  BY DEF PollAnswers, GiveUp, table, clock, history
<1>2. Asked' = Asked /\ Line' = Line
  BY <1>1, TableSame
<1>3. \/ caller' = [caller EXCEPT ![c] = "failure"]
      \/ /\ caller' = [caller EXCEPT ![c] = "success"]
         /\ StatusOf(c) = "done"
  BY DEF PollAnswers, GiveUp
<1>4. StatusOf(c) = "done" => runs[c] = 1 /\ c \in okRuns
  BY DEF DInv, SureOK, ResultsAreTrue
<1>5. QED
  BY <1>1, <1>2, <1>3, <1>4 DEF Dlv!TellSuccess, Dlv!TellFailure, Dlv!work

LEMMA DeliveryExpire ==
  ASSUME DInv, NEW c \in Cmd, Expire(c)
  PROVE  row[c].target \in Manager /\ Dlv!GetsLate(row[c].target, c)
<1> DEFINE m == row[c].target
<1>1. /\ UNCHANGED <<row, caller, okRuns, runs>>
      /\ expired' = expired \cup {c} /\ c \notin expired
  BY DEF Expire, table, history
<1>2. row[c].status # "none" /\ m \in Manager
  <2>1. ASSUME NEW k \in Manager, work[k].pc = "claimed", work[k].cmd = c
        PROVE  row[c].status # "none"
    BY <2>1, Hand DEF InHand, DInv, StatusOf
  <2>2. QED
    BY <2>1, RowTypes DEF Expire, Pending, StatusOf, DInv, IInv
<1> HIDE DEF m
<1>3. \A k \in Manager : Asked'[k] = Asked[k]
  BY <1>1 DEF Asked, RowsOf, StatusOf
<1>4. \A k \in Manager : Line'[k] = IF k = m THEN Line[k] \ {c} ELSE Line[k]
  BY <1>1 DEF Line, RowsOf, StatusOf, m
<1>5. Asked' = Asked /\ Line' = [Line EXCEPT ![m] = @ \ {c}]
  BY <1>3, <1>4 DEF Asked, Line
<1>6. c \in Asked[m]
  BY <1>2, InLine DEF m
<1>7. Dlv!GetsLate(m, c)
  BY <1>1, <1>5, <1>6 DEF Dlv!GetsLate, Dlv!work
<1>8. QED
  BY <1>2, <1>7 DEF m

\* The rollback and the deletion of a manager: its line is empty afterwards.
LEMMA DeliveryDrop ==
  ASSUME DInv, NEW m \in Manager, RollbackFinalize(m) \/ DeleteManagerRows(m)
  PROVE  Dlv!Drop(m) \/ UNCHANGED Dlv!all
<1>1. /\ UNCHANGED <<expired, caller, okRuns, runs>>
      /\ \A c \in Cmd :
           /\ row'[c].target = row[c].target
           /\ \/ row'[c].status = row[c].status
              \/ row'[c].status = "deleted"
              \/ row'[c].status = "timeout" /\ row[c].status \in Pending
  BY RowEnds DEF DInv
<1>2. \A c \in Cmd :
        /\ row'[c].status = "none" <=> row[c].status = "none"
        /\ IF row[c].target = m THEN row'[c].status # "new"
                               ELSE row'[c].status = row[c].status
  <2>1. CASE RollbackFinalize(m)
    BY <2>1, SetStatusEffect
    DEF RollbackFinalize, PendingOf, RowsOf, StatusOf, Status, Final, Pending,
        DInv, IInv
  <2>2. CASE DeleteManagerRows(m)
    BY <2>2, SetStatusEffect
    DEF DeleteManagerRows, RowsOf, StatusOf, Status, DInv, IInv
  <2>3. QED
    BY <2>1, <2>2
<1>3. \A k \in Manager : Asked'[k] = Asked[k]
  BY <1>1, <1>2 DEF Asked, RowsOf, StatusOf
<1>4. \A k \in Manager : Line'[k] = IF k = m THEN {} ELSE Line[k]
  BY <1>1, <1>2 DEF Line, RowsOf, StatusOf
<1>5. Asked' = Asked /\ Line' = [Line EXCEPT ![m] = {}]
  BY <1>3, <1>4 DEF Asked, Line
<1>6. CASE Line[m] # {}
  BY <1>1, <1>5, <1>6 DEF Dlv!Drop, Dlv!work
<1>7. CASE Line[m] = {}
  <2>1. Line' = Line
    BY <1>5, <1>7 DEF Line
  <2>2. QED
    BY <1>1, <1>5, <2>1 DEF Dlv!all, Dlv!work
<1>8. QED
  BY <1>6, <1>7

\* The sweep and the pruning leave the line alone, the late rows being out of it.
LEMMA DeliverySweep ==
  ASSUME DInv, MarkTimeouts \/ \E c \in Cmd : CleanupFinished(c)
  PROVE  UNCHANGED Dlv!all
<1>1. UNCHANGED <<expired, caller, okRuns, runs>>
  BY RowEnds DEF DInv
<1>2. CASE MarkTimeouts
  <2>1. \A c \in Cmd :
          /\ row'[c].target = row[c].target
          /\ \/ row'[c].status = row[c].status
             \/ /\ c \in expired /\ row[c].status # "none"
                /\ row'[c].status = "timeout"
    BY <1>2, SetStatusEffect
    DEF MarkTimeouts, StatusOf, Status, Final, Pending, DInv, IInv
  <2>2. Asked' = Asked /\ Line' = Line
    BY <1>1, <2>1, TableSame
  <2>3. QED
    BY <1>1, <2>2 DEF Dlv!all, Dlv!work
<1>3. ASSUME NEW c \in Cmd, CleanupFinished(c) PROVE UNCHANGED Dlv!all
  <2>1. \A d \in Cmd :
          /\ row'[d].target = row[d].target
          /\ \/ row'[d].status = row[d].status
             \/ row[d].status \in Final /\ row'[d].status = "deleted"
    BY <1>3, SetStatusEffect DEF CleanupFinished, StatusOf, Status, DInv, IInv
  <2>2. Asked' = Asked /\ Line' = Line
    BY <1>1, <2>1, TableSame DEF Final
  <2>3. QED
    BY <1>1, <2>2 DEF Dlv!all, Dlv!work
<1>4. QED
  BY <1>2, <1>3

LEMMA DeliveryStep == DInv /\ [Next]_vars => [Dlv!Next]_(Dlv!all)
<1> SUFFICES ASSUME DInv, [Next]_vars PROVE Dlv!Next \/ UNCHANGED Dlv!all
  OBVIOUS
<1>1. ASSUME NEW m \in Manager, Put(m) \/ TakeNext(m) \/ Begin(m)
      PROVE  Dlv!Next \/ UNCHANGED Dlv!all
  BY <1>1, DeliveryPut, DeliveryTake, DeliveryBegin DEF Dlv!Next
<1>2. ASSUME NEW m \in Manager,
             \/ StartRuntime(m) \/ SkipExpired(m) \/ Refuse(m) \/ Execute(m)
             \/ Finish(m) \/ FinishRaises(m) \/ RuntimeDies(m) \/ RollbackStop(m)
      PROVE  Dlv!Next \/ UNCHANGED Dlv!all
  BY <1>2, DeliveryLoop, DeliveryFinish DEF Dlv!Next
<1>3. ASSUME NEW m \in Manager, RollbackFinalize(m) \/ DeleteManagerRows(m)
      PROVE  Dlv!Next \/ UNCHANGED Dlv!all
  BY <1>3, DeliveryDrop DEF Dlv!Next
<1>4. ASSUME NEW c \in Cmd, PollAnswers(c) \/ GiveUp(c) \/ Expire(c)
      PROVE  Dlv!Next
  BY <1>4, DeliveryTell, DeliveryExpire DEF Dlv!Next
<1>5. ASSUME (\E c \in Cmd : GoStale(c)) \/ UNCHANGED vars
      PROVE  UNCHANGED Dlv!all
  <2>1. UNCHANGED <<row, expired, caller, okRuns, runs>>
    BY <1>5 DEF GoStale, vars, table, clock, history
  <2>2. QED
    BY <2>1, TableSame DEF Dlv!all, Dlv!work
<1>6. QED
  BY <1>1, <1>2, <1>3, <1>4, <1>5, DeliverySweep DEF Next, Runtime

\* The queue implements Delivery: across sweeps, rollbacks, deletions, restarts,
\* failing writes and late finishes a command is begun in turn, in time, and
\* again only after its execution was lost; and what a caller has reported as
\* success is an execution that nothing loses or repeats.
THEOREM QueueImplements == Spec => QueueImplementsDelivery
<1>1. Init => Dlv!Init
  BY DeliveryInit
<1>2. DInv /\ [Next]_vars => [Dlv!Next]_(Dlv!all)
  BY DeliveryStep
<1>3. QED
  BY <1>1, <1>2, DeliveryInvariant, PTL DEF Spec, Dlv!Spec, QueueImplementsDelivery
=============================================================================
