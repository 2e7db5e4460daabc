---------------------------- MODULE PanelProofs ----------------------------
(***************************************************************************)
(* Theorems about Panel, for every number of commands, notifications and   *)
(* faults and every size of a batch.                                       *)
(***************************************************************************)
EXTENDS Panel, LeastId

USE CmdAssumption, NoteAssumption DEF Cmd, N!Note

(***************************************************************************)
(* Types.                                                                  *)
(***************************************************************************)

\* An UPDATE of the status column keeps the types.
LEMMA StatusTypes ==
  ASSUME TypeOK, NEW C, NEW s \in {"new", "running", "done", "error"}, SetAll(C, s)
  PROVE  row' \in [Cmd -> {"none", "new", "running", "done", "error"}]
BY DEF TypeOK, SetAll

LEMMA NoteTypes ==
  ASSUME N!TypeOK, NEW C, NEW s \in {"new", "running", "done", "error"}, N!SetAll(C, s)
  PROVE  note' \in [N!Note -> [kind : {"other", "unanswered"},
                               status : {"none", "new", "running", "done", "error"}]]
BY DEF N!TypeOK, N!SetAll

LEMMA FaultType == TypeOK /\ Fault => faults' \in 0 .. MaxFaults
BY DEF TypeOK, Fault

\* A row that is picked from a part of the table is a row.
LEMMA OldestRow ==
  ASSUME NEW C \in SUBSET Cmd, C # {}
  PROVE  Min(C) \in C /\ \A c \in C : Min(C) <= c
<1>1. C \in SUBSET Nat
  OBVIOUS
<1> QED BY <1>1, Oldest

LEMMA OldestNote ==
  ASSUME NEW C \in SUBSET N!Note, C # {}
  PROVE  N!Min(C) \in C
<1>1. C \in SUBSET Nat
  OBVIOUS
<1>2. Min(C) \in C
  BY <1>1, Oldest
<1> QED BY <1>2 DEF Min, N!Min

LEMMA InsertTypes ==
  ASSUME N!TypeOK, NEW k \in {"other", "unanswered"}, N!Insert(k)
  PROVE  note' \in [N!Note -> [kind : {"other", "unanswered"},
                               status : {"none", "new", "running", "done", "error"}]]
<1>1. CASE N!In("none") # {}
           /\ note' = [note EXCEPT ![N!Min(N!In("none"))] = [kind |-> k, status |-> "new"]]
  <2>1. N!Min(N!In("none")) \in N!Note
    BY <1>1, OldestNote DEF N!In
  <2> QED BY <1>1, <2>1 DEF N!TypeOK
<1>2. CASE UNCHANGED note
  BY <1>2 DEF N!TypeOK
<1> QED BY <1>1, <1>2 DEF N!Insert

(***************************************************************************)
(* A step of the composition, seen from either table.                      *)
(***************************************************************************)

\* What a step may do to panel_commands.
BridgeStep ==
  \/ Submit \/ LoopStep \/ End \/ Reap \/ CrashLoop
  \/ Fault /\ UNCHANGED <<row, exec, loop>>

\* What a step may do to panel_notifications.
NotesStep ==
  \/ N!ProduceOther \/ N!ReadEnabled \/ N!CreateUnanswered \/ N!BotStep
  \/ N!FinishNoteFails \/ N!CrashBot \/ N!MisreadEnabled
  \/ (\E b \in {"on", "off"} : N!SetEnabled(b = "on")) \/ N!ClearPending
  \/ N!CrashProducer

LEMMA SeenFromCommands == [PanelNext]_all => [BridgeStep]_vars
BY DEF PanelNext, all, vars, BridgeStep, CommandStep, NoticeStep, NoticeFault,
       SettingMisread, HandleSet, HandleClear, HandleClearFails, HandlerEnds,
       ControllerCrashes

LEMMA SeenFromNotes == [PanelNext]_all => [NotesStep]_nvars
BY DEF PanelNext, all, nvars, NotesStep, CommandStep, NoticeStep, NoticeFault,
       SettingMisread, HandleSet, HandleClear, HandleClearFails, HandlerEnds,
       ControllerCrashes

(***************************************************************************)
(* The command loop: the row in hand is 'running', and how far its handler *)
(* is.                                                                     *)
(***************************************************************************)
BridgeOK ==
  /\ \A c \in Cmd : row[c] \in {"none", "new"} => exec[c] = "no"
  /\ loop.pc # "idle" => loop.cmd \in Cmd /\ row[loop.cmd] = "running"
  /\ loop.pc \in {"taken", "running"} => ~loop.ok
  /\ loop.pc = "taken" => exec[loop.cmd] = "no"
  /\ loop.pc = "running" => exec[loop.cmd] = "begun"
  /\ loop.pc = "finish" => exec[loop.cmd] = IF loop.ok THEN "ok" ELSE "error"

BInv == TypeOK /\ BridgeOK

LEMMA BridgeInit == Init => BInv
BY DEF Init, BInv, TypeOK, BridgeOK, Idle

LEMMA BridgeInductive == BInv /\ [BridgeStep]_vars => BInv'
<1> SUFFICES ASSUME BInv, [BridgeStep]_vars PROVE BInv'
  OBVIOUS
<1> USE DEF BInv, Idle
<1>1. CASE Submit
  <2>1. Min(With("none")) \in Cmd /\ row[Min(With("none"))] = "none"
    BY <1>1, OldestRow DEF Submit, With
  <2> QED BY <1>1, <2>1 DEF Submit, TypeOK, BridgeOK, SetAll
<1>2. CASE TakeNext
  <2>1. Min(With("new")) \in Cmd /\ row[Min(With("new"))] = "new"
    BY <1>2, OldestRow DEF TakeNext, With
  <2>2. SetAll({Min(With("new"))}, "running") /\ exec' = exec /\ faults' \in 0 .. MaxFaults
    BY <1>2, FaultType DEF TakeNext, TypeOK
  <2> DEFINE c == Min(With("new"))
  <2>3. row' = [row EXCEPT ![c] = "running"] /\ exec[c] = "no" /\ exec' = exec
    BY <1>2, <2>1 DEF TakeNext, TypeOK, BridgeOK, SetAll
  <2>4. \/ loop' = [pc |-> "taken", cmd |-> c, ok |-> FALSE]
        \/ loop' = loop /\ loop.pc = "idle"
    BY <1>2 DEF TakeNext
  <2>5. c \in Cmd /\ row[c] = "new"
    BY <2>1
  <2>6. row' \in [Cmd -> {"none", "new", "running", "done", "error"}]
    BY <2>2, StatusTypes
  <2> HIDE DEF c
  <2>7. TypeOK'
    <3>1. loop' \in [pc : {"idle", "taken", "running", "finish", "refinish"},
                    cmd : 0 .. MaxCmds, ok : BOOLEAN]
      <4>1. CASE loop' = loop
        BY <4>1 DEF TypeOK
      <4>2. CASE loop' = [pc |-> "taken", cmd |-> c, ok |-> FALSE]
        <5>1. c \in 0 .. MaxCmds
          BY <2>5
        <5> QED BY <4>2, <5>1
      <4> QED BY <2>4, <4>1, <4>2
    <3> QED BY <2>2, <2>6, <3>1 DEF TypeOK
  <2>8. BridgeOK'
    BY <2>3, <2>4, <2>5 DEF TypeOK, BridgeOK
  <2> QED BY <2>7, <2>8
<1>3. CASE Begin
  BY <1>3 DEF Begin, TypeOK, BridgeOK
<1>4. CASE End
  <2>1. TypeOK'
    BY <1>4 DEF End, TypeOK
  <2>2. loop'.cmd = loop.cmd /\ row' = row
    BY <1>4 DEF End, TypeOK
  <2>3. loop.cmd \in Cmd /\ row[loop.cmd] = "running" /\ loop'.cmd = loop.cmd
    BY <1>4, <2>2 DEF End, BridgeOK
  <2>4. \/ exec' = [exec EXCEPT ![loop.cmd] = "ok"] /\ loop'.pc = "finish" /\ loop'.ok
        \/ /\ exec' = [exec EXCEPT ![loop.cmd] = "error"]
           /\ loop'.pc \in {"finish", "refinish"} /\ ~loop'.ok
    BY <1>4 DEF End, TypeOK, BridgeOK
  <2>5. BridgeOK'
    BY <2>2, <2>3, <2>4 DEF TypeOK, BridgeOK
  <2> QED BY <2>1, <2>5
<1>5. CASE Finish
  <2> DEFINE s == IF loop.ok THEN "done" ELSE "error"
  <2>1. TypeOK'
    <3>1. CASE SetAll({loop.cmd}, s) /\ loop' = Idle /\ UNCHANGED <<exec, faults>>
      <4>1. row' \in [Cmd -> {"none", "new", "running", "done", "error"}]
        <5>1. s \in {"new", "running", "done", "error"}
          OBVIOUS
        <5> HIDE DEF s
        <5> QED BY <3>1, <5>1, StatusTypes
      <4> QED BY <3>1, <4>1 DEF TypeOK
    <3>2. CASE Fault /\ loop' = [loop EXCEPT !.pc = "refinish"] /\ UNCHANGED <<row, exec>>
      BY <3>2, FaultType DEF TypeOK
    <3> QED BY <1>5, <3>1, <3>2 DEF Finish
  <2>2. BridgeOK'
    BY <1>5 DEF Finish, TypeOK, BridgeOK, SetAll
  <2> QED BY <2>1, <2>2
<1>6. CASE FinishAsError
  <2>1. TypeOK'
    BY <1>6, FaultType, StatusTypes DEF FinishAsError, TypeOK
  <2>2. BridgeOK'
    BY <1>6 DEF FinishAsError, TypeOK, BridgeOK, SetAll
  <2> QED BY <2>1, <2>2
<1>7. CASE Reap
  <2>1. TypeOK'
    BY <1>7, StatusTypes DEF Reap, TypeOK
  <2>2. BridgeOK'
    BY <1>7 DEF Reap, TypeOK, BridgeOK, SetAll, With
  <2> QED BY <2>1, <2>2
<1>8. CASE CrashLoop
  BY <1>8, FaultType DEF CrashLoop, TypeOK, BridgeOK
<1>9. CASE Fault /\ UNCHANGED <<row, exec, loop>>
  BY <1>9, FaultType DEF TypeOK, BridgeOK
<1>10. CASE UNCHANGED vars
  BY <1>10 DEF vars, TypeOK, BridgeOK
<1> QED BY <1>1, <1>2, <1>3, <1>4, <1>5, <1>6, <1>7, <1>8, <1>9, <1>10
        DEF BridgeStep, LoopStep

(***************************************************************************)
(* The bridge implements Request.                                          *)
(***************************************************************************)

\* What a status tells about a row is told by no other status.
LEMMA ToldByStatus ==
  ASSUME TypeOK, NEW c \in Cmd
  PROVE  /\ Told[c] = "none" <=> row[c] = "none"
         /\ Told[c] = "asked" <=> row[c] = "new"
         /\ Told[c] = "accepted" <=> row[c] = "running"
BY DEF TypeOK, Told, Tells

\* An UPDATE of the status column changes what is told of the updated rows alone.
LEMMA ToldUpdate ==
  ASSUME NEW C \in SUBSET Cmd, NEW s, SetAll(C, s)
  PROVE  Told' = [c \in Cmd |-> IF c \in C THEN Tells[s] ELSE Told[c]]
BY DEF Told, SetAll

\* The same for a single row.
LEMMA ToldOfOne ==
  ASSUME NEW r \in Cmd, NEW s, SetAll({r}, s)
  PROVE  Told' = [Told EXCEPT ![r] = Tells[s]]
<1> DEFINE C == {r}
<1>1. Told' = [c \in Cmd |-> IF c \in C THEN Tells[s] ELSE Told[c]]
  <2>1. C \in SUBSET Cmd /\ SetAll(C, s)
    OBVIOUS
  <2> HIDE DEF C
  <2> QED BY <2>1, ToldUpdate
<1>2. DOMAIN Told = Cmd
  BY DEF Told
<1> QED BY <1>1, <1>2

LEMMA ImplementsInit == Init => Abstract!Init
BY DEF Init, Abstract!Init, Told, Tells, Abstract!Req

LEMMA ImplementsStep ==
  ASSUME BInv, [BridgeStep]_vars
  PROVE  [Abstract!Next]_<<Told, exec>>
<1> USE DEF Abstract!Req, BInv
<1>0. row' = row => Told' = Told
  BY DEF Told
<1>1. CASE Submit
  <2> DEFINE r == Min(With("none"))
  <2>1. With("none") \in SUBSET Cmd /\ With("none") # {}
    BY <1>1 DEF Submit, With
  <2>2. r \in Cmd /\ row[r] = "none" /\ \A q \in Cmd : row[q] = "none" => r <= q
    BY <2>1, OldestRow DEF With
  <2>3. SetAll({r}, "new") /\ exec' = exec
    BY <1>1 DEF Submit
  <2> HIDE DEF r
  <2>4. Told' = [Told EXCEPT ![r] = Tells["new"]]
    BY <2>2, <2>3, ToldOfOne
  <2>5. Told' = [Told EXCEPT ![r] = "asked"]
    BY <2>4 DEF Tells
  <2>6. Told[r] = "none" /\ \A q \in 1 .. (r - 1) : Told[q] # "none"
    BY <2>2, ToldByStatus
  <2>7. Abstract!Ask(r)
    BY <2>3, <2>5, <2>6 DEF Abstract!Ask
  <2> QED BY <2>2, <2>7 DEF Abstract!Next
<1>2. CASE TakeNext
  <2> DEFINE r == Min(With("new"))
  <2>1. With("new") \in SUBSET Cmd /\ With("new") # {}
    BY <1>2 DEF TakeNext, With
  <2>2. r \in Cmd /\ row[r] = "new" /\ \A q \in Cmd : row[q] = "new" => r <= q
    BY <2>1, OldestRow DEF With
  <2>3. SetAll({r}, "running") /\ exec' = exec
    BY <1>2 DEF TakeNext
  <2> HIDE DEF r
  <2>4. Told' = [Told EXCEPT ![r] = Tells["running"]]
    BY <2>2, <2>3, ToldOfOne
  <2>5. Told' = [Told EXCEPT ![r] = "accepted"]
    BY <2>4 DEF Tells
  <2>6. Told[r] = "asked" /\ \A q \in 1 .. (r - 1) : Told[q] # "asked"
    BY <2>2, ToldByStatus
  <2>7. Abstract!Accept(r)
    BY <2>3, <2>5, <2>6 DEF Abstract!Accept
  <2> QED BY <2>2, <2>7 DEF Abstract!Next
<1>3. CASE Begin
  <2>1. loop.cmd \in Cmd /\ Told[loop.cmd] = "accepted" /\ exec[loop.cmd] = "no"
    BY <1>3, ToldByStatus DEF Begin, BridgeOK
  <2>2. Abstract!Begin(loop.cmd)
    BY <1>0, <1>3, <2>1 DEF Begin, Abstract!Begin
  <2> QED BY <2>1, <2>2 DEF Abstract!Next
<1>4. CASE End
  <2>1. loop.cmd \in Cmd /\ Told[loop.cmd] = "accepted" /\ exec[loop.cmd] = "begun"
    BY <1>4, ToldByStatus DEF End, BridgeOK
  <2>2. Abstract!End(loop.cmd)
    BY <1>0, <1>4, <2>1 DEF End, Abstract!End
  <2> QED BY <2>1, <2>2 DEF Abstract!Next
<1>5. ASSUME NEW C \in SUBSET With("running"), C # {}, SetAll(C, "error"), exec' = exec
      PROVE  Abstract!Next
  <2>1. C \in SUBSET Cmd /\ \A r \in C : Told[r] = "accepted"
    BY <1>5, ToldByStatus DEF With
  <2>2. Told' = [c \in Cmd |-> IF c \in C THEN Tells["error"] ELSE Told[c]]
    BY <1>5, <2>1, ToldUpdate
  <2>3. Told' = [c \in Cmd |-> IF c \in C THEN "failed" ELSE Told[c]]
    BY <2>2 DEF Tells
  <2>4. Abstract!Fail(C)
    BY <1>5, <2>1, <2>3 DEF Abstract!Fail
  <2>5. PICK r \in Cmd : r \in C
    BY <1>5, <2>1
  <2> QED BY <2>1, <2>4, <2>5 DEF Abstract!Next, Abstract!Answer
<1>6. CASE Finish
  <2>1. loop.cmd \in Cmd /\ row[loop.cmd] = "running" /\ exec' = exec
    BY <1>6 DEF Finish, BridgeOK
  <2>2. CASE UNCHANGED row
    BY <1>0, <2>1, <2>2
  <2>3. CASE loop.ok /\ SetAll({loop.cmd}, "done")
    <3>1. Told' = [Told EXCEPT ![loop.cmd] = Tells["done"]]
      BY <2>1, <2>3, ToldOfOne
    <3>2. Told' = [Told EXCEPT ![loop.cmd] = "ok"]
      BY <3>1 DEF Tells
    <3>3. Told[loop.cmd] = "accepted" /\ exec[loop.cmd] = "ok"
      BY <1>6, <2>1, <2>3, ToldByStatus DEF Finish, BridgeOK
    <3>4. Abstract!Succeed(loop.cmd)
      BY <2>1, <3>2, <3>3 DEF Abstract!Succeed
    <3> QED BY <2>1, <3>4 DEF Abstract!Next, Abstract!Answer
  <2>4. CASE SetAll({loop.cmd}, "error")
    BY <1>5, <2>1, <2>4 DEF With
  <2> QED BY <1>6, <2>2, <2>3, <2>4 DEF Finish
<1>7. CASE FinishAsError
  <2>1. loop.cmd \in Cmd /\ row[loop.cmd] = "running" /\ exec' = exec
    BY <1>7 DEF FinishAsError, BridgeOK
  <2>2. CASE UNCHANGED row
    BY <1>0, <2>1, <2>2
  <2>3. CASE SetAll({loop.cmd}, "error")
    BY <1>5, <2>1, <2>3 DEF With
  <2> QED BY <1>7, <2>2, <2>3 DEF FinishAsError
<1>8. CASE Reap
  BY <1>5, <1>8 DEF Reap
<1>9. CASE CrashLoop \/ UNCHANGED <<row, exec, loop>>
  BY <1>0, <1>9 DEF CrashLoop
<1> QED BY <1>1, <1>2, <1>3, <1>4, <1>6, <1>7, <1>8, <1>9
        DEF BridgeStep, LoopStep, vars

\* The bridge implements the safety part of Request under the mapping of statuses:
\* a handler is never begun twice, rows are taken in order, 'done' means ok, a final
\* status stays, whatever crashes and whatever cannot be written.
THEOREM BridgeImplementsSafe == PanelSpec => Abstract!Safe
<1>1. PanelInit => BInv /\ Abstract!Init
  BY BridgeInit, ImplementsInit DEF PanelInit
<1>2. BInv /\ [PanelNext]_all => BInv'
  BY SeenFromCommands, BridgeInductive
<1>3. BInv /\ [PanelNext]_all => [Abstract!Next]_<<Told, exec>>
  BY SeenFromCommands, ImplementsStep
<1> QED BY <1>1, <1>2, <1>3, PTL DEF PanelSpec, Abstract!Safe

(***************************************************************************)
(* Notifications.  A row that was shown without its finish being lost is   *)
(* final and out of the bot's batch, or it is the one in its hand.         *)
(***************************************************************************)
Settled(n) ==
  \/ note[n].status \in {"done", "error"} /\ n \notin hand.rest
  \/ n = hand.cur /\ hand.got

ShownOK ==
  \A n \in N!Note : /\ shown[n] <= lost[n] + 1
                    /\ ~Settled(n) => shown[n] <= lost[n]

BatchOK ==
  /\ \A n \in N!Note : n \in hand.rest \/ n = hand.cur
       => note[n].status \in {"running", "done", "error"}
  /\ hand.cur \notin hand.rest
  /\ hand.cur = 0 => ~hand.got

NotesOK == ShownOK /\ BatchOK

NInv == N!TypeOK /\ NotesOK

\* An UPDATE of the status column.
LEMMA NoteUpdate ==
  ASSUME N!TypeOK, NEW C, NEW s, N!SetAll(C, s)
  PROVE  \A n \in N!Note : /\ (note')[n].kind = note[n].kind
                           /\ (note')[n].status = IF n \in C THEN s
                                                  ELSE note[n].status
BY DEF N!TypeOK, N!SetAll

\* An INSERT.
LEMMA NoteInsert ==
  ASSUME N!TypeOK, NEW k, N!Insert(k)
  PROVE  \A n \in N!Note :
           \/ (note')[n] = note[n]
           \/ /\ note[n].status = "none"
              /\ (note')[n].status = "new" /\ (note')[n].kind = k
<1>1. CASE N!In("none") # {}
           /\ note' = [note EXCEPT ![N!Min(N!In("none"))] = [kind |-> k, status |-> "new"]]
  <2> DEFINE m == N!Min(N!In("none"))
  <2>1. m \in N!Note /\ note[m].status = "none"
    BY <1>1, OldestNote DEF N!In
  <2>2. note' = [note EXCEPT ![m] = [kind |-> k, status |-> "new"]]
    BY <1>1
  <2> HIDE DEF m
  <2> QED BY <2>1, <2>2 DEF N!TypeOK
<1>2. CASE UNCHANGED note
  BY <1>2
<1> QED BY <1>1, <1>2 DEF N!Insert

LEMMA NotesInit == N!Init => NInv
BY DEF N!Init, NInv, N!TypeOK, NotesOK, ShownOK, BatchOK, N!Free, Settled

LEMMA NotesTyped ==
  ASSUME N!TypeOK, [NotesStep]_nvars
  PROVE  N!TypeOK'
<1> USE DEF N!Free
<1>1. CASE N!ProduceOther
  <2>1. note' \in [N!Note -> [kind : {"other", "unanswered"},
                             status : {"none", "new", "running", "done", "error"}]]
    BY <1>1, InsertTypes DEF N!ProduceOther
  <2> QED BY <1>1, <2>1 DEF N!ProduceOther, N!TypeOK
<1>2. CASE N!CreateUnanswered
  <2>1. note' \in [N!Note -> [kind : {"other", "unanswered"},
                             status : {"none", "new", "running", "done", "error"}]]
    BY <1>2, InsertTypes DEF N!CreateUnanswered
  <2> QED BY <1>2, <2>1 DEF N!CreateUnanswered, N!TypeOK
<1>3. CASE \/ N!ReadEnabled \/ N!MisreadEnabled \/ N!CrashProducer
           \/ \E b \in {"on", "off"} : N!SetEnabled(b = "on")
  BY <1>3 DEF N!ReadEnabled, N!MisreadEnabled, N!CrashProducer, N!SetEnabled, N!TypeOK
<1>4. CASE N!ClearPending
  <2>1. note' \in [N!Note -> [kind : {"other", "unanswered"},
                             status : {"none", "new", "running", "done", "error"}]]
    BY <1>4, NoteTypes DEF N!ClearPending
  <2> QED BY <1>4, <2>1 DEF N!ClearPending, N!TypeOK
<1>5. CASE N!ReapNotes
  <2>1. note' \in [N!Note -> [kind : {"other", "unanswered"},
                             status : {"none", "new", "running", "done", "error"}]]
    BY <1>5, NoteTypes DEF N!ReapNotes
  <2> QED BY <1>5, <2>1 DEF N!ReapNotes, N!TypeOK
<1>6. CASE N!TakeNotes
  <2>1. PICK C \in SUBSET N!In("new") :
          N!SetAll(C, "running") /\ hand' = [hand EXCEPT !.rest = C]
    BY <1>6 DEF N!TakeNotes
  <2>2. note' \in [N!Note -> [kind : {"other", "unanswered"},
                             status : {"none", "new", "running", "done", "error"}]]
    BY <2>1, NoteTypes
  <2>3. C \in SUBSET N!Note
    BY <2>1 DEF N!In
  <2> QED BY <1>6, <2>1, <2>2, <2>3 DEF N!TakeNotes, N!TypeOK
<1>7. CASE N!Send
  <2> DEFINE n == N!Min(hand.rest)
  <2>1. hand.rest \in SUBSET N!Note /\ hand.rest # {}
    BY <1>7 DEF N!Send, N!TypeOK
  <2>2. n \in N!Note
    BY <2>1, OldestNote
  <2>3. PICK got \in BOOLEAN, ok \in BOOLEAN :
          /\ hand' = [rest |-> hand.rest \ {n}, cur |-> n, got |-> got, ok |-> ok]
          /\ shown' = [shown EXCEPT ![n] = IF got THEN @ + 1 ELSE @]
    BY <1>7 DEF N!Send
  <2> HIDE DEF n
  <2>4. shown' \in [N!Note -> Nat]
    BY <2>2, <2>3 DEF N!TypeOK
  <2>5. hand' \in [rest : SUBSET N!Note, cur : 0 .. MaxNotes, got : BOOLEAN, ok : BOOLEAN]
    <3>1. hand.rest \ {n} \in SUBSET N!Note /\ n \in 0 .. MaxNotes
      BY <2>1, <2>2
    <3> QED BY <2>3, <3>1
  <2> QED BY <1>7, <2>4, <2>5 DEF N!Send, N!TypeOK
<1>8. CASE N!FinishNote
  <2>1. hand' = [rest |-> hand.rest, cur |-> 0, got |-> FALSE, ok |-> FALSE]
    BY <1>8 DEF N!FinishNote
  <2>2. note' \in [N!Note -> [kind : {"other", "unanswered"},
                             status : {"none", "new", "running", "done", "error"}]]
    <3>1. CASE hand.ok
      BY <1>8, <3>1, NoteTypes DEF N!FinishNote
    <3>2. CASE ~hand.ok
      BY <1>8, <3>2, NoteTypes DEF N!FinishNote
    <3> QED BY <3>1, <3>2
  <2>3. hand' \in [rest : SUBSET N!Note, cur : 0 .. MaxNotes, got : BOOLEAN, ok : BOOLEAN]
    BY <2>1 DEF N!TypeOK
  <2> QED BY <1>8, <2>2, <2>3 DEF N!FinishNote, N!TypeOK
<1>9. CASE N!FinishNoteFails \/ N!CrashBot
  <2>1. lost' \in [N!Note -> Nat]
    BY <1>9 DEF N!FinishNoteFails, N!CrashBot, N!LoseCur, N!TypeOK
  <2>2. \/ hand' = [rest |-> hand.rest, cur |-> 0, got |-> FALSE, ok |-> FALSE]
        \/ hand' = [rest |-> {}, cur |-> 0, got |-> FALSE, ok |-> FALSE]
    BY <1>9 DEF N!FinishNoteFails, N!CrashBot
  <2>3. hand' \in [rest : SUBSET N!Note, cur : 0 .. MaxNotes, got : BOOLEAN, ok : BOOLEAN]
    <3>1. hand.rest \in SUBSET N!Note
      BY DEF N!TypeOK
    <3>2. CASE hand' = [rest |-> hand.rest, cur |-> 0, got |-> FALSE, ok |-> FALSE]
      BY <3>1, <3>2
    <3>3. CASE hand' = [rest |-> {}, cur |-> 0, got |-> FALSE, ok |-> FALSE]
      BY <3>3
    <3> QED BY <2>2, <3>2, <3>3
  <2> QED BY <1>9, <2>1, <2>3 DEF N!FinishNoteFails, N!CrashBot, N!TypeOK
<1>10. CASE UNCHANGED nvars
  BY <1>10 DEF nvars, N!TypeOK
<1> QED BY <1>1, <1>2, <1>3, <1>4, <1>5, <1>6, <1>7, <1>8, <1>9, <1>10
        DEF NotesStep, N!BotStep

LEMMA NotesKept ==
  ASSUME NInv, [NotesStep]_nvars
  PROVE  NotesOK'
<1> USE DEF NInv, N!Free
<1>0. /\ hand.rest \in SUBSET N!Note /\ hand.cur \in 0 .. MaxNotes
      /\ shown \in [N!Note -> Nat] /\ lost \in [N!Note -> Nat]
  BY DEF N!TypeOK
<1>1. ASSUME UNCHANGED <<hand, shown, lost>>,
             \A n \in N!Note :
               \/ (note')[n].status = note[n].status
               \/ note[n].status = "none" /\ (note')[n].status = "new"
               \/ /\ note[n].status \in {"new", "running"}
                  /\ (note')[n].status = "done"
      PROVE  NotesOK'
  BY <1>0, <1>1 DEF NotesOK, ShownOK, BatchOK, Settled
<1>2. CASE N!ProduceOther \/ N!CreateUnanswered
  <2>1. PICK k \in {"other", "unanswered"} : N!Insert(k)
    BY <1>2 DEF N!ProduceOther, N!CreateUnanswered
  <2>2. UNCHANGED <<hand, shown, lost>>
    BY <1>2 DEF N!ProduceOther, N!CreateUnanswered
  <2>3. \A n \in N!Note :
          \/ (note')[n].status = note[n].status
          \/ note[n].status = "none" /\ (note')[n].status = "new"
    BY <2>1, NoteInsert
  <2> QED BY <1>1, <2>2, <2>3
<1>3. CASE \/ N!ReadEnabled \/ N!MisreadEnabled \/ N!CrashProducer
           \/ \E b \in {"on", "off"} : N!SetEnabled(b = "on")
  BY <1>1, <1>3 DEF N!ReadEnabled, N!MisreadEnabled, N!CrashProducer, N!SetEnabled
<1>4. CASE N!ClearPending
  <2>1. \A n \in N!Pending("unanswered") : note[n].status \in {"new", "running"}
    BY DEF N!Pending, N!In
  <2> QED BY <1>1, <1>4, <2>1, NoteUpdate DEF N!ClearPending
<1>5. CASE N!ReapNotes
  <2>1. PICK C \in SUBSET N!In("running") : N!SetAll(C, "new")
    BY <1>5 DEF N!ReapNotes
  <2>2. \A n \in N!Note : \/ (note')[n].status = note[n].status
                          \/ note[n].status = "running" /\ (note')[n].status = "new"
    BY <2>1, NoteUpdate DEF N!In
  <2>3. hand.rest = {} /\ hand.cur = 0 /\ UNCHANGED <<hand, shown, lost>>
    BY <1>5 DEF N!ReapNotes
  <2>4. \A n \in N!Note : Settled(n) => Settled(n)'
    BY <2>2, <2>3 DEF Settled
  <2> QED BY <1>0, <2>3, <2>4 DEF NotesOK, ShownOK, BatchOK
<1>6. CASE N!TakeNotes
  <2>1. PICK C \in SUBSET N!In("new") :
          N!SetAll(C, "running") /\ hand' = [hand EXCEPT !.rest = C]
    BY <1>6 DEF N!TakeNotes
  <2>2. \A n \in N!Note :
          \/ n \notin C /\ (note')[n].status = note[n].status
          \/ n \in C /\ note[n].status = "new" /\ (note')[n].status = "running"
    BY <2>1, NoteUpdate DEF N!In
  <2>3. hand.rest = {} /\ hand.cur = 0 /\ ~hand.got /\ UNCHANGED <<shown, lost>>
    BY <1>6 DEF N!TakeNotes
  <2>4. hand'.rest = C /\ hand'.cur = 0 /\ ~hand'.got
    BY <2>1, <2>3 DEF N!TypeOK
  <2>5. 0 \notin C
    BY <2>1 DEF N!In
  <2> QED BY <1>0, <2>2, <2>3, <2>4, <2>5 DEF NotesOK, ShownOK, BatchOK, Settled
<1>7. CASE N!Send
  <2>1. hand.cur = 0 /\ hand.rest # {} /\ note' = note /\ lost' = lost
    BY <1>7 DEF N!Send
  <2>2. PICK n \in N!Note : n \in hand.rest /\ n = N!Min(hand.rest)
    BY <1>0, <2>1, OldestNote
  <2>3. PICK got \in BOOLEAN, ok \in BOOLEAN :
          /\ hand' = [rest |-> hand.rest \ {n}, cur |-> n, got |-> got, ok |-> ok]
          /\ shown' = [shown EXCEPT ![n] = IF got THEN @ + 1 ELSE @]
    BY <1>7, <2>2 DEF N!Send
  <2>4. hand'.rest = hand.rest \ {n} /\ hand'.cur = n /\ (hand'.got <=> got)
    BY <2>3
  <2>5. \A m \in N!Note : shown'[m] = IF m = n /\ got THEN shown[m] + 1 ELSE shown[m]
    BY <1>0, <2>2, <2>3
  <2>6. ~Settled(n)
    BY <2>1, <2>2 DEF Settled, NotesOK, BatchOK
  <2>7. \A m \in N!Note : Settled(m) => Settled(m)'
    BY <2>1, <2>2, <2>4 DEF Settled, NotesOK, BatchOK
  <2>8. got => Settled(n)'
    BY <2>4 DEF Settled
  <2>9. \A m \in N!Note : /\ shown'[m] <= lost'[m] + 1
                          /\ ~Settled(m)' => shown'[m] <= lost'[m]
    <3>1. ASSUME NEW m \in N!Note, m # n
          PROVE  shown'[m] <= lost'[m] + 1 /\ (~Settled(m)' => shown'[m] <= lost'[m])
      <4>1. shown'[m] = shown[m] /\ lost'[m] = lost[m]
        BY <2>1, <2>5, <3>1
      <4> QED BY <2>7, <4>1 DEF NotesOK, ShownOK, BatchOK
    <3>2. shown[n] <= lost[n] /\ lost'[n] = lost[n] /\ shown[n] \in Nat /\ lost[n] \in Nat
      BY <1>0, <2>1, <2>2, <2>6 DEF NotesOK, ShownOK, BatchOK
    <3>3. shown'[n] <= lost'[n] + 1 /\ (~Settled(n)' => shown'[n] <= lost'[n])
      <4>1. CASE got
        BY <2>2, <2>5, <2>8, <3>2, <4>1
      <4>2. CASE ~got
        BY <2>2, <2>5, <3>2, <4>2
      <4> QED BY <4>1, <4>2
    <3> QED BY <3>1, <3>3
  <2>10. \A m \in N!Note : m \in hand'.rest \/ m = hand'.cur
           => (note')[m].status \in {"running", "done", "error"}
    BY <2>1, <2>2, <2>4 DEF NotesOK, ShownOK, BatchOK
  <2>11. hand'.cur \notin hand'.rest /\ hand'.cur # 0
    BY <2>2, <2>4
  <2>12. ShownOK'
    BY <2>9 DEF ShownOK, Settled
  <2>13. BatchOK'
    BY <2>10, <2>11 DEF BatchOK
  <2> QED BY <2>12, <2>13 DEF NotesOK
<1>8. CASE N!FinishNote
  <2> DEFINE s == IF hand.ok THEN "done" ELSE "error"
             C == {hand.cur} \cap N!In("running")
  <2>1. /\ hand.cur # 0 /\ N!SetAll(C, s) /\ UNCHANGED <<shown, lost>>
        /\ hand'.rest = hand.rest /\ hand'.cur = 0 /\ ~hand'.got
    BY <1>8 DEF N!FinishNote
  <2>2. \A n \in N!Note : (note')[n].status = IF n \in C THEN s ELSE note[n].status
    BY <2>1, NoteUpdate
  <2>3. \A n \in N!Note :
          \/ n # hand.cur /\ (note')[n].status = note[n].status
          \/ n = hand.cur /\ (note')[n].status \in {"done", "error"}
    <3>1. \A n \in N!Note : n = hand.cur => note[n].status \in {"running", "done", "error"}
      BY DEF NotesOK, ShownOK, BatchOK
    <3>2. \A n \in N!Note : n \in C <=> n = hand.cur /\ note[n].status = "running"
      BY DEF N!In
    <3> QED BY <2>2, <3>1, <3>2
  <2>4. \A n \in N!Note : Settled(n) => Settled(n)'
    BY <2>1, <2>3 DEF Settled, NotesOK, BatchOK
  <2>5. \A n \in N!Note : /\ shown'[n] <= lost'[n] + 1
                          /\ ~Settled(n)' => shown'[n] <= lost'[n]
    BY <1>0, <2>1, <2>4 DEF NotesOK, ShownOK, BatchOK
  <2>6. 0 \notin hand.rest
    BY <1>0
  <2>7. ShownOK'
    BY <2>5 DEF ShownOK, Settled
  <2>8. BatchOK'
    BY <2>1, <2>3, <2>6 DEF NotesOK, BatchOK
  <2> QED BY <2>7, <2>8 DEF NotesOK
<1>9. CASE N!FinishNoteFails \/ N!CrashBot
  <2>1. /\ \A n \in N!Note : lost'[n] = lost[n] + (IF hand.got /\ n = hand.cur THEN 1 ELSE 0)
        /\ UNCHANGED <<note, shown>>
    BY <1>9 DEF N!FinishNoteFails, N!CrashBot, N!LoseCur
  <2>2. hand'.rest \in SUBSET hand.rest /\ hand'.cur = 0 /\ ~hand'.got
    BY <1>9 DEF N!FinishNoteFails, N!CrashBot
  <2>3. \A n \in N!Note : Settled(n) => Settled(n)' \/ (n = hand.cur /\ hand.got)
    BY <2>1, <2>2 DEF Settled
  <2>6. \A n \in N!Note : /\ lost'[n] >= lost[n] /\ shown'[n] = shown[n]
                          /\ lost[n] \in Nat /\ lost'[n] \in Nat /\ shown[n] \in Nat
                          /\ n = hand.cur /\ hand.got => lost'[n] = lost[n] + 1
    BY <1>0, <2>1
  <2>4. \A n \in N!Note : /\ shown'[n] <= lost'[n] + 1
                          /\ ~Settled(n)' => shown'[n] <= lost'[n]
    BY <2>3, <2>6 DEF NotesOK, ShownOK, BatchOK
  <2>5. 0 \notin hand.rest
    BY <1>0
  <2>7. ShownOK'
    BY <2>4 DEF ShownOK, Settled
  <2>8. BatchOK'
    BY <2>1, <2>2, <2>5 DEF NotesOK, BatchOK
  <2> QED BY <2>7, <2>8 DEF NotesOK
<1>10. CASE UNCHANGED nvars
  BY <1>1, <1>10 DEF nvars
<1> QED BY <1>2, <1>3, <1>4, <1>5, <1>6, <1>7, <1>8, <1>9, <1>10
        DEF NotesStep, N!BotStep

LEMMA NotesInductive == NInv /\ [NotesStep]_nvars => NInv'
BY NotesTyped, NotesKept DEF NInv

(***************************************************************************)
(* Switching off.  Once the pending rows are cleared, only a producer that *)
(* had read the setting before can add one, and it adds it by going idle.  *)
(***************************************************************************)
Unanswered == N!Pending("unanswered")

QuietOK ==
  /\ step = "on" => enabled
  /\ ~enabled /\ step # "off" /\ ~excused
       => \/ Unanswered = {}
          \/ producer = "idle" /\ \E n \in N!Note : Unanswered = {n}

\* A step that adds no pending row, gives the producer nothing to do and does not
\* touch the setting.
LEMMA QuietKept ==
  ASSUME QuietOK, Unanswered' \in SUBSET Unanswered, producer' \in {producer, "idle"},
         enabled' = enabled, step' = step, excused => excused'
  PROVE  QuietOK'
BY DEF QuietOK

LEMMA UnansweredIn ==
  \A n : n \in Unanswered <=> /\ n \in N!Note /\ note[n].kind = "unanswered"
                             /\ note[n].status \in {"new", "running"}
BY DEF Unanswered, N!Pending, N!In

LEMMA UnansweredNext ==
  \A n : n \in Unanswered' <=> /\ n \in N!Note /\ (note')[n].kind = "unanswered"
                              /\ (note')[n].status \in {"new", "running"}
BY DEF Unanswered, N!Pending, N!In

\* The bot and the producers of other rows add nothing.
LEMMA BotAddsNone ==
  ASSUME N!TypeOK,
         N!ProduceOther \/ N!BotStep \/ N!FinishNoteFails \/ N!CrashBot
  PROVE  Unanswered' \in SUBSET Unanswered /\ UNCHANGED <<producer, enabled>>
<1>0. UNCHANGED note => Unanswered' = Unanswered
  BY DEF Unanswered, N!Pending, N!In
<1>1. CASE N!ProduceOther
  <2>1. N!Insert("other") /\ UNCHANGED <<producer, enabled>>
    BY <1>1 DEF N!ProduceOther
  <2>2. \A n \in N!Note : (note')[n] = note[n] \/ (note')[n].kind = "other"
    BY <2>1, NoteInsert
  <2> QED BY <2>1, <2>2, UnansweredIn, UnansweredNext
<1>2. ASSUME NEW C \in SUBSET N!Note, NEW s, N!SetAll(C, s),
             \/ C \in SUBSET (N!In("new") \cup N!In("running"))
             \/ s \in {"done", "error"}
      PROVE  Unanswered' \in SUBSET Unanswered
  <2>1. \A n \in N!Note : /\ (note')[n].kind = note[n].kind
                          /\ (note')[n].status = IF n \in C THEN s ELSE note[n].status
    BY <1>2, NoteUpdate
  <2>2. \A n \in C : \/ note[n].status \in {"new", "running"}
                    \/ s \in {"done", "error"}
    BY <1>2 DEF N!In
  <2> QED BY <2>1, <2>2, UnansweredIn, UnansweredNext
<1>3. CASE N!ReapNotes
  <2>1. PICK C \in SUBSET N!In("running") : N!SetAll(C, "new")
    BY <1>3 DEF N!ReapNotes
  <2>2. C \in SUBSET N!Note /\ C \in SUBSET (N!In("new") \cup N!In("running"))
    BY <2>1 DEF N!In
  <2> QED BY <1>2, <1>3, <2>1, <2>2 DEF N!ReapNotes
<1>4. CASE N!TakeNotes
  <2>1. PICK C \in SUBSET N!In("new") : N!SetAll(C, "running")
    BY <1>4 DEF N!TakeNotes
  <2>2. C \in SUBSET N!Note /\ C \in SUBSET (N!In("new") \cup N!In("running"))
    BY <2>1 DEF N!In
  <2> QED BY <1>2, <1>4, <2>1, <2>2 DEF N!TakeNotes
<1>5. CASE N!FinishNote
  <2> DEFINE C == {hand.cur} \cap N!In("running")
             s == IF hand.ok THEN "done" ELSE "error"
  <2>1. N!SetAll(C, s) /\ UNCHANGED <<producer, enabled>>
    BY <1>5 DEF N!FinishNote
  <2>2. C \in SUBSET N!Note /\ s \in {"done", "error"}
    BY DEF N!In
  <2> HIDE DEF C, s
  <2> QED BY <1>2, <2>1, <2>2
<1>6. CASE N!Send \/ N!FinishNoteFails \/ N!CrashBot
  BY <1>0, <1>6 DEF N!Send, N!FinishNoteFails, N!CrashBot
<1> QED BY <1>1, <1>3, <1>4, <1>5, <1>6 DEF N!BotStep

LEMMA QuietInit == PanelInit => QuietOK
BY DEF PanelInit, N!Init, QuietOK, Unanswered, N!Pending, N!In

LEMMA QuietStep ==
  ASSUME N!TypeOK, QuietOK, [PanelNext]_all
  PROVE  QuietOK'
<1>0. UNCHANGED note => Unanswered' = Unanswered
  BY DEF Unanswered, N!Pending, N!In
<1>1. CASE CommandStep \/ UNCHANGED all
  BY <1>0, <1>1, QuietKept DEF CommandStep, nvars, hvars, all
<1>2. CASE NoticeStep
  <2>1. UNCHANGED <<step, excused>>
    BY <1>2 DEF NoticeStep, hvars
  <2>2. CASE N!ProduceOther \/ N!BotStep
    BY <2>1, <2>2, BotAddsNone, QuietKept
  <2>3. CASE N!ReadEnabled
    BY <2>1, <2>3 DEF N!ReadEnabled, QuietOK
  <2>4. CASE N!CreateUnanswered
    <3>1. /\ producer = "creating" /\ producer' = "idle" /\ enabled' = enabled
          /\ N!Insert("unanswered")
      BY <2>4 DEF N!CreateUnanswered
    <3>2. CASE Unanswered = {}
      <4>1. N!In("none") # {}
            /\ note' = [note EXCEPT ![N!Min(N!In("none"))] =
                          [kind |-> "unanswered", status |-> "new"]]
        BY <3>1, <3>2 DEF N!Insert, Unanswered
      <4>2. PICK m \in N!Note : m = N!Min(N!In("none"))
        BY <4>1, OldestNote DEF N!In
      <4>3. /\ (note')[m] = [kind |-> "unanswered", status |-> "new"]
            /\ \A n \in N!Note : n # m => (note')[n] = note[n]
        BY <4>1, <4>2 DEF N!TypeOK
      <4>4. Unanswered' = {m}
        BY <3>2, <4>3, UnansweredIn, UnansweredNext
      <4> QED BY <2>1, <3>1, <4>4 DEF QuietOK
    <3>3. CASE Unanswered # {}
      BY <2>1, <3>1, <3>3 DEF QuietOK
    <3> QED BY <3>2, <3>3
  <2> QED BY <1>2, <2>2, <2>3, <2>4 DEF NoticeStep
<1>3. CASE NoticeFault
  <2>1. UNCHANGED <<step, excused>>
    BY <1>3 DEF NoticeFault, hvars
  <2> QED BY <1>3, <2>1, BotAddsNone, QuietKept DEF NoticeFault
<1>4. CASE SettingMisread
  BY <1>4 DEF SettingMisread, N!MisreadEnabled, QuietOK
<1>5. CASE HandleSet
  BY <1>5 DEF HandleSet, N!SetEnabled, QuietOK
<1>6. CASE HandleClear
  <2>1. N!SetAll(Unanswered, "done") /\ step = "off" /\ step' = "cleared"
    BY <1>6 DEF HandleClear, N!ClearPending, Unanswered
  <2>2. Unanswered' = {}
    BY <2>1, NoteUpdate, UnansweredIn, UnansweredNext
  <2> QED BY <2>1, <2>2 DEF QuietOK
<1>7. CASE HandleClearFails
  BY <1>7 DEF HandleClearFails, QuietOK
<1>8. CASE HandlerEnds
  <2>1. UNCHANGED <<note, enabled, producer>> /\ step' = "none"
        /\ excused' = (step = "off" \/ (excused /\ step # "on"))
    BY <1>8 DEF HandlerEnds, nvars
  <2> QED BY <1>0, <2>1 DEF QuietOK
<1>9. CASE ControllerCrashes
  <2>1. UNCHANGED <<note, enabled>> /\ producer' = "idle" /\ step' = "none"
        /\ excused' = (step = "off" \/ excused)
    BY <1>9 DEF ControllerCrashes, N!CrashProducer
  <2> QED BY <1>0, <2>1 DEF QuietOK
<1> QED BY <1>1, <1>2, <1>3, <1>4, <1>5, <1>6, <1>7, <1>8, <1>9 DEF PanelNext

LEMMA QuietMeans == N!TypeOK /\ QuietOK => OffIsQuiet
<1> SUFFICES ASSUME N!TypeOK, QuietOK, ~enabled, step # "off", ~excused
             PROVE  Cardinality(Unanswered \cup (IF producer = "idle" THEN {} ELSE {0})) <= 1
  BY DEF OffIsQuiet, Unanswered
<1> DEFINE S == Unanswered \cup (IF producer = "idle" THEN {} ELSE {0})
<1>1. S = {} \/ \E x : S = {x}
  BY DEF QuietOK
<1> HIDE DEF S
<1>2. Cardinality(S) \in {0, 1}
  BY <1>1, FS_EmptySet, FS_Singleton
<1> QED BY <1>2 DEF S

(***************************************************************************)
(* The theorems.                                                           *)
(***************************************************************************)
LEMMA StepTypes ==
  ASSUME PanelTypeOK, [PanelNext]_all
  PROVE  step' \in {"none", "on", "off", "cleared"} /\ excused' \in BOOLEAN
BY DEF PanelTypeOK, PanelNext, all, hvars, CommandStep, NoticeStep, NoticeFault,
       SettingMisread, HandleSet, HandleClear, HandleClearFails, HandlerEnds,
       ControllerCrashes

\* The invariant everything rests on.
PInv == PanelTypeOK /\ BridgeOK /\ NotesOK /\ QuietOK

LEMMA PanelInitial == PanelInit => PInv
<1> SUFFICES ASSUME PanelInit PROVE PInv
  OBVIOUS
<1>1. BInv /\ NInv /\ QuietOK
  BY BridgeInit, NotesInit, QuietInit DEF PanelInit
<1>2. step \in {"none", "on", "off", "cleared"} /\ excused \in BOOLEAN
  BY DEF PanelInit
<1> QED BY <1>1, <1>2 DEF PInv, PanelTypeOK, BInv, NInv

LEMMA PanelInductive == PInv /\ [PanelNext]_all => PInv'
<1> SUFFICES ASSUME PInv, [PanelNext]_all PROVE PInv'
  OBVIOUS
<1>1. BInv /\ NInv
  BY DEF PInv, PanelTypeOK, BInv, NInv
<1>2. BInv'
  BY <1>1, SeenFromCommands, BridgeInductive
<1>3. NInv'
  BY <1>1, SeenFromNotes, NotesInductive
<1>4. QuietOK'
  BY QuietStep DEF PInv, PanelTypeOK
<1>5. step' \in {"none", "on", "off", "cleared"} /\ excused' \in BOOLEAN
  BY StepTypes DEF PInv
<1> QED BY <1>2, <1>3, <1>4, <1>5 DEF PInv, PanelTypeOK, BInv, NInv

THEOREM PanelInvariant == PanelSpec => []PInv
BY PanelInitial, PanelInductive, PTL DEF PanelSpec

\* The two tables, the loops and the handler keep to their values.
THEOREM PanelTypeCorrect == PanelSpec => []PanelTypeOK
<1>1. PInv => PanelTypeOK
  BY DEF PInv
<1> QED BY <1>1, PanelInvariant, PTL

\* A notification is shown again only for a finish that was lost after it was shown,
\* whatever is reaped, cleared or crashes.
THEOREM ShownOnce == PanelSpec => []NotificationsShownOnce
<1>1. PInv => NotificationsShownOnce
  BY DEF PInv, PanelTypeOK, NotesOK, ShownOK, NotificationsShownOnce,
         N!ShownOncePerLoss, N!TypeOK
<1> QED BY <1>1, PanelInvariant, PTL

\* After an "off" that went through, at most one notification about unanswered
\* clients is pending or about to be.
THEOREM Quiet == PanelSpec => []OffIsQuiet
<1>1. PInv => OffIsQuiet
  BY QuietMeans DEF PInv, PanelTypeOK
<1> QED BY <1>1, PanelInvariant, PTL
====
