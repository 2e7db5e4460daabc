-------------------------- MODULE ProxyPoolProofs --------------------------
(***************************************************************************)
(* Proofs about ProxyPool.                                                 *)
(***************************************************************************)
EXTENDS ProxyPool, TLAPS

-----------------------------------------------------------------------------
(* Types, and what the storage calls write, column by column.              *)

LeaseRow == [proxy : Link, owner : Key, known : BOOLEAN]
MgrRow   == [row : BOOLEAN, link : Link, use : Link]
Cmd      == [kind : {"none", "assign", "buy", "unassign", "delete", "terminal"},
             at : Point, lease : Link, key : Key, old : Key, multi : BOOLEAN,
             stale : SUBSET Lease, lost : SUBSET Lease, seen : BOOLEAN]

Tables == lease \in [Lease -> LeaseRow] /\ mgr \in [Manager -> MgrRow]

Rest == /\ back \in [lease : Link, to : Key]
        /\ via \in [Manager -> Ways] /\ moved \subseteq Lease
        /\ faults \in 0..MaxFaults

LEMMA Types == /\ TypeOK <=> Tables /\ cmd \in Cmd /\ Rest
               /\ TypeOK' <=> Tables' /\ cmd' \in Cmd /\ Rest'
BY DEF TypeOK, Tables, LeaseRow, MgrRow, Cmd, Rest

SameProxies == \A k \in Lease : lease'[k].proxy = lease[k].proxy
SameUse     == \A m \in Manager : mgr'[m].row = mgr[m].row /\ mgr'[m].use = mgr[m].use

Unassigned(l) ==
  /\ Tables' /\ SameProxies /\ SameUse
  /\ \A k \in Lease : lease'[k].owner = IF k = l THEN NoManager ELSE lease[k].owner
  /\ \A m \in Manager :
       mgr'[m].link = IF mgr[m].link = l \/ m = lease[l].owner THEN 0 ELSE mgr[m].link

Assigned(l, m) ==
  /\ Tables' /\ SameProxies /\ SameUse
  /\ \A k \in Lease : lease'[k].owner = IF k = l THEN m ELSE lease[k].owner
  /\ \A n \in Manager :
       mgr'[n].link = IF n # m THEN mgr[n].link ELSE IF mgr[m].row THEN l ELSE 0

ProxySet(m, p, how) ==
  /\ Tables' /\ via' \in [Manager -> Ways] /\ moved' = moved
  /\ \A n \in Manager : /\ mgr'[n].row = mgr[n].row
                        /\ mgr'[n].link = mgr[n].link
                        /\ mgr'[n].use = IF n = m THEN p ELSE mgr[n].use
                        /\ via'[n] = IF n = m THEN how ELSE via[n]

Kept(ms) ==
  /\ via' \in [Manager -> Ways] /\ mgr' = mgr /\ moved' = moved
  /\ \A n \in Manager :
       via'[n] = IF n \in ms /\ via[n] # "none" THEN "kept" ELSE via[n]

Inserted(l, p, m) ==
  /\ Tables' /\ mgr' = mgr /\ ~Exists(l) /\ (p = l \/ Exists(p))
  /\ lease'[l].proxy = p /\ lease'[l].owner = m
  /\ \A k \in Lease : k # l => lease'[k] = lease[k]

LEMMA UnassignWrites ==
  ASSUME Tables, NEW l \in Lease, Unassign(l)
  PROVE  Unassigned(l)
<1>1. /\ lease' \in [Lease -> LeaseRow] /\ SameProxies
      /\ \A k \in Lease :
           lease'[k].owner = IF k = l THEN NoManager ELSE lease[k].owner
  BY DEF Unassign, Tables, LeaseRow, Key, SameProxies
<1>2. ASSUME NEW m \in Manager
      PROVE  /\ mgr'[m] \in MgrRow
             /\ mgr'[m].row = mgr[m].row /\ mgr'[m].use = mgr[m].use
             /\ mgr'[m].link = IF mgr[m].link = l \/ m = lease[l].owner
                               THEN 0 ELSE mgr[m].link
  <2>1. mgr[m] \in MgrRow /\ 0 \in Link
    BY PoolAssumption DEF Tables, Link
  <2>2. CASE mgr[m].link = l \/ m = lease[l].owner
    <3>1. mgr'[m] = [mgr[m] EXCEPT !.link = 0]
      BY <2>2 DEF Unassign
    <3> QED BY <3>1, <2>1, <2>2 DEF MgrRow
  <2>3. CASE ~(mgr[m].link = l \/ m = lease[l].owner)
    <3>1. mgr'[m] = mgr[m]
      BY <2>3 DEF Unassign
    <3> QED BY <3>1, <2>1, <2>3
  <2> QED BY <2>2, <2>3
<1>3. mgr' \in [Manager -> MgrRow]
  BY <1>2 DEF Unassign
<1> QED BY <1>1, <1>2, <1>3 DEF Unassigned, Tables, SameUse

LEMMA AssignWrites ==
  ASSUME Tables, NEW l \in Lease, NEW m \in Manager, AssignTo(l, m)
  PROVE  Assigned(l, m)
<1>1. /\ lease' \in [Lease -> LeaseRow] /\ SameProxies
      /\ \A k \in Lease : lease'[k].owner = IF k = l THEN m ELSE lease[k].owner
  BY DEF AssignTo, Tables, LeaseRow, Key, SameProxies
<1> DEFINE x == IF mgr[m].row THEN l ELSE 0
<1>2. x \in Link /\ mgr' = [mgr EXCEPT ![m].link = x]
  BY PoolAssumption DEF AssignTo, Link, Lease
<1>3. /\ mgr' \in [Manager -> MgrRow] /\ SameUse
      /\ \A n \in Manager : mgr'[n].link = IF n # m THEN mgr[n].link ELSE x
  <2> HIDE DEF x
  <2> QED BY <1>2 DEF Tables, MgrRow, SameUse
<1> QED BY <1>1, <1>3 DEF Assigned, Tables

LEMMA ProxyWrites ==
  ASSUME Tables, via \in [Manager -> Ways], NEW m \in Manager, NEW p \in Link,
         NEW how \in Ways, SetProxy(m, p, how), lease' = lease
  PROVE  ProxySet(m, p, how)
BY DEF SetProxy, ProxySet, Tables, MgrRow

LEMMA KeepWrites ==
  ASSUME via \in [Manager -> Ways], NEW ms, Keep(ms)
  PROVE  Kept(ms)
BY DEF Keep, Kept, Ways

LEMMA InsertWrites ==
  ASSUME Tables, NEW l \in Lease, NEW p \in Lease, NEW m \in Key, NEW b \in BOOLEAN,
         Insert(l, p, m, b), mgr' = mgr
  PROVE  Inserted(l, p, m)
BY DEF Insert, Inserted, Tables, LeaseRow, Exists, Lease, Link

\* A command moves on: all but its place stays.
Moves(a) ==
  /\ cmd' \in Cmd /\ cmd'.at = a /\ cmd'.kind = cmd.kind /\ cmd'.lease = cmd.lease
  /\ cmd'.key = cmd.key /\ cmd'.old = cmd.old /\ cmd'.multi = cmd.multi

LEMMA GotoWrites ==
  ASSUME cmd \in Cmd, NEW a \in Point, Goto(a)
  PROVE  Moves(a) /\ cmd'.stale = cmd.stale /\ cmd'.lost = cmd.lost /\ cmd'.seen = cmd.seen
BY DEF Goto, Cmd, Moves

LEMMA IdleFields ==
  ASSUME cmd' = Idle
  PROVE  /\ cmd' \in Cmd /\ cmd'.at = "idle" /\ cmd'.kind = "none" /\ cmd'.key = NoManager
         /\ cmd'.old = NoManager
BY PoolAssumption DEF Idle, Command, Cmd, Point, Key, Link

-----------------------------------------------------------------------------
(* The inductive invariant.                                                *)

Held == {"lease", "multi", "recovered", "unchecked"}

Ours(l, m) == lease[l].owner = m \/ l \in moved

\* Rows that are not there are empty, and what is referred to is there.
TablesOK ==
  /\ \A l \in Lease : /\ lease[l].proxy = 0 => lease[l].owner = NoManager
                      /\ lease[l].proxy # 0 => Exists(lease[l].proxy)
  /\ \A m \in Manager : /\ mgr[m].use # 0 => Exists(mgr[m].use)
                        /\ ~mgr[m].row => mgr[m].link = 0 /\ mgr[m].use = 0
                        /\ ~mgr[m].row => via[m] = "none"
                        /\ via[m] \in Held => mgr[m].use # 0
  /\ back # NoMove => Exists(back.lease) /\ back.to \in Manager

\* Where a command can be, and what it works on then.
PlaceOK ==
  /\ cmd.kind = "none" => cmd.at = "idle" /\ cmd.key = NoManager /\ cmd.old = NoManager
  /\ cmd.kind = "assign" =>
       /\ Exists(cmd.lease) /\ cmd.key \in Manager /\ mgr[cmd.key].row
       /\ cmd.at \in {"check", "detach", "disable", "scan", "free", "fields"}
       /\ cmd.at \in {"detach", "disable"}
            => ~cmd.multi /\ cmd.old \in Manager /\ cmd.old # cmd.key
  /\ cmd.kind = "buy" =>
       /\ Exists(cmd.lease) /\ cmd.key \in Manager /\ mgr[cmd.key].row
       /\ cmd.at \in {"link", "fields"} /\ ~cmd.multi /\ cmd.old = NoManager
  /\ cmd.kind = "unassign" =>
       /\ Exists(cmd.lease) /\ cmd.key = NoManager /\ cmd.at \in {"detach", "disable"}
       /\ cmd.at = "disable" => cmd.old \in Manager
  /\ cmd.kind \in {"delete", "terminal"} =>
       /\ cmd.key \in Manager /\ mgr[cmd.key].row /\ cmd.old = NoManager
       /\ cmd.at \in {"find", "release", "delete"}
       /\ cmd.at = "delete" => cmd.kind = "delete"
       /\ cmd.kind = "terminal" => via[cmd.key] \notin Held

\* The owner of the lease a command works on is the one it has read.
OwnerOK ==
  /\ cmd.kind \in {"assign", "unassign"} /\ cmd.at \in {"check", "detach"}
       => Ours(cmd.lease, cmd.old)
  /\ cmd.kind = "assign" /\ cmd.at \in {"disable", "scan", "free"} /\ Links
       => \A m \in Manager \ {cmd.key} :
            /\ mgr[m].link = cmd.lease => cmd.lease \in moved
            /\ lease[cmd.lease].owner = m => cmd.lease \in moved \/ via[m] \notin Held
  /\ cmd.kind = "assign" /\ cmd.at = "fields" /\ Links => Ours(cmd.lease, cmd.key)
  /\ cmd.kind = "buy" => Ours(cmd.lease, cmd.key)
  /\ cmd.at = "release" /\ cmd.lease # 0 => Ours(cmd.lease, cmd.key)

\* What an assignment frees is its target's, and nothing of it is forgotten.
StaleOK ==
  /\ cmd.kind = "assign"
       => \A l \in cmd.stale : Ours(l, cmd.key) \/ lease[l].owner = NoManager
  /\ cmd.kind = "assign" /\ cmd.at = "free"
       => \A l \in Owned(cmd.key) : \/ l = cmd.lease \/ l \in moved
                                    \/ l \in cmd.stale \/ l \in cmd.lost

\* Every manager that came by its proxy with a lease has that lease, but for the
\* managers whose lease a command has taken and whose proxy it has not yet changed.
Between(m) ==
  \/ cmd.at = "disable" /\ m = cmd.old
  \/ cmd.kind = "assign" /\ cmd.at \in {"free", "fields"} /\ m = cmd.key
  \/ cmd.at = "delete" /\ m = cmd.key

Backed ==
  \A m \in Manager : via[m] \in Held /\ ~Between(m)
    => \E l \in Lease : lease[l].proxy = mgr[m].use /\ Ours(l, m)

\* Once the check has seen that nobody else has the proxy, nobody else gets it.
Only(p, ms) == \A m \in Manager : via[m] = "lease" /\ mgr[m].use = p => m \in ms

ApartOK ==
  /\ cmd.kind = "assign" /\ cmd.at \in {"detach", "disable"} /\ cmd.seen
       => Only(lease[cmd.lease].proxy, {cmd.key, cmd.old})
  /\ cmd.kind = "assign" /\ cmd.at \in {"scan", "free", "fields"} /\ ~cmd.multi
       /\ cmd.seen => Only(lease[cmd.lease].proxy, {cmd.key})
  /\ cmd.kind = "buy" /\ lease[cmd.lease].proxy = cmd.lease
       => Only(cmd.lease, {cmd.key})

PoolInv ==
  /\ TypeOK /\ TablesOK /\ LinksAgree
  /\ PlaceOK /\ OwnerOK /\ StaleOK /\ OneLeaseAfterAssign
  /\ Backed /\ ApartOK /\ SharedIsChosen

-----------------------------------------------------------------------------
(* What the storage calls do to the two tables keeps them consistent.      *)

LEMMA InitInv == Init => PoolInv
BY PoolAssumption DEF Init, PoolInv, TypeOK, TablesOK, LinksAgree, PlaceOK, OwnerOK, StaleOK,
   OneLeaseAfterAssign, Backed, ApartOK, SharedIsChosen, Idle, Command, NoMove, Exists, Held,
   Between, Only, Key, Link, Lease, Ways, Point

LEMMA LinkTypes ==
  ASSUME Tables
  PROVE  /\ 0 \notin Lease /\ Lease \subseteq Link
         /\ \A m \in Manager : mgr[m].link # 0 => mgr[m].link \in Lease
BY PoolAssumption DEF Tables, MgrRow, Link, Lease

LEMMA UnassignTables ==
  ASSUME Tables, TablesOK, LinksAgree, NEW l \in Lease, Unassigned(l),
         UNCHANGED <<back, hist>>
  PROVE  TablesOK' /\ LinksAgree'
<1>1. TablesOK'
  BY PoolAssumption DEF TablesOK, Unassigned, SameProxies, SameUse, Exists, hist
<1>2. LinksAgree'
  BY PoolAssumption DEF LinksAgree, Unassigned, Tables, MgrRow, Link, Lease, hist
<1> QED BY <1>1, <1>2

LEMMA AssignTables ==
  ASSUME Tables, TablesOK, LinksAgree, NEW l \in Lease, NEW m \in Manager, Exists(l),
         Assigned(l, m), back' \in {back, NoMove}, via' = via, moved \subseteq moved',
         \A n \in Manager \ {m} : mgr[n].link = l => l \in moved'
  PROVE  TablesOK' /\ LinksAgree'
<1>1. TablesOK'
  BY PoolAssumption DEF TablesOK, Assigned, SameProxies, SameUse, Exists
<1>2. LinksAgree'
  <2> SUFFICES ASSUME NEW n \in Manager, mgr'[n].link # 0
               PROVE  /\ lease'[mgr'[n].link].owner # NoManager
                      /\ Ours(mgr[n].link, n)'
    BY DEF LinksAgree, Ours
  <2>1. CASE n = m
    BY <2>1, PoolAssumption DEF Assigned, Ours
  <2>2. CASE n # m
    <3>1. mgr'[n].link = mgr[n].link /\ mgr[n].link \in Lease
      BY <2>2, LinkTypes DEF Assigned
    <3> QED BY <2>2, <3>1, PoolAssumption DEF LinksAgree, Assigned, Ours
  <2> QED BY <2>1, <2>2
<1> QED BY <1>1, <1>2

LEMMA ProxyTables ==
  ASSUME Tables, TablesOK, LinksAgree, NEW m \in Manager, NEW p \in Link, NEW how \in Ways,
         ProxySet(m, p, how), mgr[m].row, p # 0 => Exists(p), how \in Held => p # 0,
         UNCHANGED <<lease, back>>
  PROVE  TablesOK' /\ LinksAgree'
<1>1. TablesOK'
  BY DEF TablesOK, ProxySet, Exists
<1>2. LinksAgree'
  BY DEF LinksAgree, ProxySet
<1> QED BY <1>1, <1>2

LEMMA KeepTables ==
  ASSUME Tables, TablesOK, LinksAgree, NEW ms, Kept(ms), lease' = lease,
         back' \in {back, NoMove}
  PROVE  TablesOK' /\ LinksAgree'
<1>1. TablesOK'
  BY DEF TablesOK, Kept, Exists, Held
<1>2. LinksAgree'
  BY DEF LinksAgree, Kept
<1> QED BY <1>1, <1>2

LEMMA InsertTables ==
  ASSUME Tables, TablesOK, LinksAgree, NEW l \in Lease, NEW p \in Lease, NEW m \in Key,
         Inserted(l, p, m), UNCHANGED <<back, hist>>
  PROVE  TablesOK' /\ LinksAgree'
<1>1. TablesOK'
  <2>1. ~Exists(l) /\ 0 \notin Lease /\ lease'[l].proxy # 0
    BY DEF Inserted, Lease
  <2>2. \A k \in Link : Exists(k) => Exists(k)'
    BY <2>1 DEF Inserted, Exists
  <2>3. Exists(p)'
    BY <2>1, <2>2 DEF Inserted, Exists
  <2>4. ASSUME NEW k \in Lease
        PROVE  (/\ lease[k].proxy = 0 => lease[k].owner = NoManager
                /\ lease[k].proxy # 0 => Exists(lease[k].proxy))'
    <3>1. CASE k = l
      BY <3>1, <2>1, <2>3 DEF Inserted
    <3>2. CASE k # l
      <4>1. lease'[k] = lease[k] /\ lease[k].proxy \in Link
        BY <3>2 DEF Inserted, Tables, LeaseRow
      <4> QED BY <4>1, <2>2 DEF TablesOK
    <3> QED BY <3>1, <3>2
  <2>5. \A n \in Manager : (mgr[n].use # 0 => Exists(mgr[n].use))'
    BY <2>2 DEF TablesOK, Tables, MgrRow, Inserted
  <2>6. (back # NoMove => Exists(back.lease))'
    BY <2>2, LinkTypes DEF TablesOK, Exists
  <2> QED BY <2>4, <2>5, <2>6 DEF TablesOK, Inserted, hist
<1>2. LinksAgree'
  <2>1. \A n \in Manager : mgr[n].link # l
    BY LinkTypes DEF TablesOK, LinksAgree, Inserted, Exists
  <2> QED BY <2>1, LinkTypes DEF LinksAgree, Inserted, hist
<1> QED BY <1>1, <1>2

LEMMA SameTables ==
  ASSUME TablesOK, LinksAgree, UNCHANGED <<lease, mgr, back, hist>>
  PROVE  TablesOK' /\ LinksAgree'
BY DEF TablesOK, LinksAgree, Exists, hist

-----------------------------------------------------------------------------
(* Steps of the command.                                                   *)

LEMMA IdleCommand ==
  ASSUME cmd' = Idle
  PROVE  /\ cmd' \in Cmd /\ PlaceOK' /\ OwnerOK' /\ StaleOK' /\ OneLeaseAfterAssign'
         /\ ApartOK' /\ \A m \in Manager : ~Between(m)'
BY IdleFields, PoolAssumption DEF PlaceOK, OwnerOK, StaleOK, OneLeaseAfterAssign, ApartOK,
   Between

\* A manager keeps its backing while it keeps its proxy and its leases.
LEMMA BackedKept ==
  ASSUME TablesOK, Backed, moved \subseteq moved',
         \A k \in Lease : Exists(k) => lease'[k].proxy = lease[k].proxy,
         \A m \in Manager : via'[m] \in Held /\ ~Between(m)' =>
           /\ via[m] \in Held /\ ~Between(m) /\ mgr'[m].use = mgr[m].use
           /\ \A k \in Lease : lease[k].owner = m => lease'[k].owner = m \/ k \in moved'
  PROVE  Backed'
<1> SUFFICES ASSUME NEW m \in Manager, via'[m] \in Held, ~Between(m)'
             PROVE  \E k \in Lease : lease'[k].proxy = mgr'[m].use /\ Ours(k, m)'
  BY DEF Backed
<1>1. /\ via[m] \in Held /\ ~Between(m) /\ mgr'[m].use = mgr[m].use
      /\ \A k \in Lease : lease[k].owner = m => lease'[k].owner = m \/ k \in moved'
  OBVIOUS
<1>2. PICK k \in Lease : lease[k].proxy = mgr[m].use /\ Ours(k, m)
  BY <1>1 DEF Backed
<1>3. Exists(k)
  BY <1>1, <1>2 DEF TablesOK, Exists
<1> QED BY <1>1, <1>2, <1>3 DEF Ours

LEMMA SharedKept ==
  ASSUME SharedIsChosen,
         \A m \in Manager : via'[m] = "lease"
           => via[m] = "lease" /\ mgr'[m].use = mgr[m].use
  PROVE  SharedIsChosen'
BY DEF SharedIsChosen

LEMMA AssignCallStep ==
  ASSUME PoolInv, NEW l \in Lease, NEW m \in Manager, NEW b \in BOOLEAN, AssignCall(l, m, b)
  PROVE  PoolInv'
<1> DEFINE st == {mgr[m].link} \ {0, l}
<1>1. /\ cmd.at = "idle" /\ Exists(l) /\ mgr[m].row
      /\ UNCHANGED <<lease, mgr, back, hist, faults>>
  BY DEF AssignCall
<1>2. Tables /\ lease[l].owner \in Key /\ m \in Key /\ l \in Link /\ st \in SUBSET Lease
  BY Types, LinkTypes DEF PoolInv, Tables, LeaseRow, Key
<1>3. /\ cmd' \in Cmd /\ cmd'.kind = "assign" /\ cmd'.at = "check" /\ cmd'.lease = l
      /\ cmd'.key = m /\ cmd'.old = lease[l].owner /\ cmd'.multi = b /\ cmd'.stale = st
  <2>1. cmd' = Command("assign", "check", l, m, lease[l].owner, b, st)
    BY DEF AssignCall
  <2>2. "check" \in Point /\ "assign" \in {"assign", "buy", "unassign", "delete", "terminal"}
    BY DEF Point
  <2> HIDE DEF st
  <2> QED BY <1>2, <2>1, <2>2 DEF Command, Cmd
<1>4. TypeOK'
  BY <1>1, <1>3, Types DEF PoolInv, Tables, Rest, hist
<1>5. TablesOK' /\ LinksAgree'
  BY <1>1, SameTables DEF PoolInv
<1>6. PlaceOK'
  BY <1>1, <1>3 DEF PlaceOK, Exists
<1>7. OwnerOK' /\ OneLeaseAfterAssign' /\ ApartOK'
  BY <1>1, <1>3 DEF OwnerOK, OneLeaseAfterAssign, ApartOK, Ours
<1>8. StaleOK'
  <2>1. \A k \in st : Ours(k, m)
    BY DEF PoolInv, LinksAgree, Ours
  <2> QED BY <1>1, <1>3, <2>1 DEF StaleOK, Ours, hist
<1>9. Backed'
  BY <1>1, <1>3, BackedKept DEF PoolInv, Between, hist
<1>10. SharedIsChosen'
  BY <1>1, SharedKept DEF PoolInv, hist
<1> QED BY <1>4, <1>5, <1>6, <1>7, <1>8, <1>9, <1>10 DEF PoolInv

LEMMA AssignCheckStep ==
  ASSUME PoolInv, AssignCheck
  PROVE  PoolInv'
<1>1. /\ cmd.kind = "assign" /\ cmd.at = "check"
      /\ UNCHANGED <<lease, mgr, back, hist>> /\ faults' \in 0..MaxFaults
  BY PoolAssumption DEF AssignCheck, Fault, PoolInv, TypeOK
<1>2. Tables /\ cmd \in Cmd
  BY Types DEF PoolInv
<1>3. TablesOK' /\ LinksAgree'
  BY <1>1, SameTables DEF PoolInv
<1>4. SharedIsChosen'
  BY <1>1, SharedKept DEF PoolInv, hist
<1>5. CASE cmd' = Idle
  <2>1. Backed'
    BY <1>1, <1>5, IdleCommand, BackedKept DEF PoolInv, Between, hist
  <2> QED BY <1>1, <1>2, <1>3, <1>4, <1>5, <2>1, IdleCommand, Types DEF PoolInv, Tables, Rest, hist
<1>6. CASE cmd' # Idle
  <2>1. AfterCheck \in {"scan", "detach"} /\ AfterCheck \in Point
    BY DEF AfterCheck, Point
  <2>2. /\ Moves(AfterCheck) /\ cmd'.stale = cmd.stale /\ cmd'.lost = cmd.lost
        /\ cmd'.seen => cmd.multi \/ Users(lease[cmd.lease].proxy) \subseteq {cmd.key, cmd.old}
    <3>1. CASE /\ cmd.multi \/ Users(lease[cmd.lease].proxy) \subseteq {cmd.key, cmd.old}
               /\ Goto(AfterCheck)
      BY <1>2, <2>1, <3>1, GotoWrites
    <3>2. CASE cmd' = [cmd EXCEPT !.at = AfterCheck, !.seen = FALSE]
      BY <1>2, <2>1, <3>2 DEF Cmd, Moves
    <3> QED BY <1>6, <3>1, <3>2 DEF AssignCheck
  <2>3. TypeOK'
    BY <1>1, <2>2, Types DEF PoolInv, Tables, Rest, Moves, hist
  <2>4. PlaceOK'
    BY <1>1, <2>1, <2>2, PoolAssumption DEF PoolInv, PlaceOK, Moves, AfterCheck, Exists, Cmd, Key
  <2>5. OwnerOK'
    <3>1. Ours(cmd.lease, cmd.old) /\ Exists(cmd.lease)
      BY <1>1 DEF PoolInv, OwnerOK, PlaceOK
    <3>2. ASSUME AfterCheck = "scan", Links, NEW m \in Manager \ {cmd.key}
          PROVE  /\ mgr[m].link = cmd.lease => cmd.lease \in moved
                 /\ lease[cmd.lease].owner = m => cmd.lease \in moved
      <4>1. cmd.old \in {NoManager, cmd.key}
        BY <3>2 DEF AfterCheck, Links
      <4>2. lease[cmd.lease].owner = m => cmd.lease \in moved
        BY <3>1, <3>2, <4>1, PoolAssumption DEF Ours
      <4>3. mgr[m].link = cmd.lease => cmd.lease \in moved
        BY <1>2, <3>1, <3>2, <4>2, LinkTypes DEF PoolInv, LinksAgree, Exists
      <4> QED BY <4>2, <4>3
    <3> QED BY <1>1, <2>1, <2>2, <3>1, <3>2 DEF OwnerOK, Moves, Ours, Links, hist
  <2>6. StaleOK' /\ OneLeaseAfterAssign'
    BY <1>1, <2>1, <2>2 DEF PoolInv, StaleOK, OneLeaseAfterAssign, Moves, Ours, hist
  <2>7. Backed'
    BY <1>1, <2>1, <2>2, BackedKept DEF PoolInv, Between, Moves, hist
  <2>8. ApartOK'
    <3>1. cmd'.seen /\ ~cmd.multi => Only(lease[cmd.lease].proxy, {cmd.key, cmd.old})
      BY <2>2 DEF PoolInv, TablesOK, Only, Users
    <3> QED BY <1>1, <2>1, <2>2, <3>1, PoolAssumption DEF PoolInv, ApartOK, PlaceOK, Only,
               Moves, AfterCheck, hist
  <2> QED BY <1>3, <1>4, <2>3, <2>4, <2>5, <2>6, <2>7, <2>8 DEF PoolInv
<1> QED BY <1>5, <1>6

LEMMA AssignDetachStep ==
  ASSUME PoolInv, AssignDetach
  PROVE  PoolInv'
<1>1. /\ cmd.kind = "assign" /\ cmd.at = "detach" /\ UNCHANGED <<back, hist, faults>>
      /\ Exists(cmd.lease) /\ cmd.key \in Manager /\ mgr[cmd.key].row /\ ~cmd.multi
      /\ cmd.old \in Manager /\ cmd.old # cmd.key /\ Ours(cmd.lease, cmd.old)
  BY DEF AssignDetach, PoolInv, PlaceOK, OwnerOK
<1>2. Tables /\ cmd \in Cmd /\ cmd.lease \in Lease
  BY <1>1, Types DEF PoolInv, Exists
<1>3. CASE mgr[cmd.old].row
  <2>1. Unassigned(cmd.lease)
    BY <1>2, <1>3, UnassignWrites DEF AssignDetach
  <2>2. /\ Moves("disable") /\ cmd'.stale = cmd.stale /\ cmd'.lost = cmd.lost
        /\ cmd'.seen = cmd.seen
    BY <1>2, <1>3, GotoWrites DEF AssignDetach, Point
  <2>3. TypeOK'
    BY <1>1, <2>1, <2>2, Types DEF PoolInv, Rest, Unassigned, Moves, hist
  <2>4. TablesOK' /\ LinksAgree'
    BY <1>1, <1>2, <2>1, UnassignTables DEF PoolInv
  <2>5. PlaceOK'
    BY <1>1, <2>1, <2>2 DEF PlaceOK, Moves, Unassigned, SameUse, SameProxies, Exists
  <2>6. OwnerOK'
    <3>1. \A m \in Manager : mgr'[m].link # cmd.lease /\ lease'[cmd.lease].owner # m
      BY <1>2, <2>1, LinkTypes, PoolAssumption DEF Unassigned
    <3> QED BY <1>1, <2>2, <3>1 DEF OwnerOK, Moves
  <2>7. StaleOK' /\ OneLeaseAfterAssign'
    BY <1>1, <1>2, <2>1, <2>2 DEF PoolInv, StaleOK, OneLeaseAfterAssign, Unassigned, Moves,
       Ours, hist, Cmd
  <2>8. Backed'
    BY <1>1, <1>2, <2>1, <2>2, BackedKept DEF PoolInv, Between, Unassigned, SameUse,
       SameProxies, Moves, Ours, hist
  <2>9. ApartOK' /\ SharedIsChosen'
    <3>1. SharedIsChosen'
      BY <1>1, <2>1, SharedKept DEF PoolInv, Unassigned, SameUse, hist
    <3>2. ApartOK'
      BY <1>1, <1>2, <2>1, <2>2 DEF PoolInv, ApartOK, Only, Unassigned, SameUse, SameProxies,
         Moves, hist
    <3> QED BY <3>1, <3>2
  <2> QED BY <2>3, <2>4, <2>5, <2>6, <2>7, <2>8, <2>9 DEF PoolInv
<1>4. CASE ~mgr[cmd.old].row
  <2>1. UNCHANGED <<lease, mgr>>
    BY <1>4 DEF AssignDetach
  <2>2. /\ Moves("scan") /\ cmd'.stale = cmd.stale /\ cmd'.lost = cmd.lost
        /\ cmd'.seen = cmd.seen
    BY <1>2, <1>4, GotoWrites DEF AssignDetach, Point
  <2>3. TypeOK'
    BY <1>1, <2>1, <2>2, Types DEF PoolInv, Tables, Rest, Moves, hist
  <2>4. TablesOK' /\ LinksAgree'
    BY <1>1, <2>1, SameTables DEF PoolInv
  <2>5. PlaceOK'
    BY <1>1, <2>1, <2>2 DEF PlaceOK, Moves, Exists
  <2>6. OwnerOK'
    <3>1. ASSUME NEW m \in Manager \ {cmd.key}
          PROVE  /\ mgr[m].link = cmd.lease => cmd.lease \in moved
                 /\ lease[cmd.lease].owner = m => cmd.lease \in moved \/ via[m] \notin Held
      BY <1>1, <1>2, <1>4, LinkTypes DEF PoolInv, LinksAgree, TablesOK, Ours, Held
    <3> QED BY <1>1, <2>1, <2>2, <3>1 DEF OwnerOK, Moves, hist
  <2>7. StaleOK' /\ OneLeaseAfterAssign'
    BY <1>1, <2>1, <2>2 DEF PoolInv, StaleOK, OneLeaseAfterAssign, Moves, Ours, hist
  <2>8. Backed'
    BY <1>1, <2>1, <2>2, BackedKept DEF PoolInv, Between, Moves, hist
  <2>9. SharedIsChosen'
    BY <1>1, <2>1, SharedKept DEF PoolInv, hist
  <2>10. ApartOK'
    BY <1>1, <1>4, <2>1, <2>2 DEF PoolInv, ApartOK, TablesOK, Only, Moves, hist
  <2> QED BY <2>3, <2>4, <2>5, <2>6, <2>7, <2>8, <2>9, <2>10 DEF PoolInv
<1> QED BY <1>3, <1>4

LEMMA AssignScanStep ==
  ASSUME PoolInv, AssignScan
  PROVE  PoolInv'
<1> DEFINE others == Owned(cmd.key) \ {cmd.lease}
<1>1. /\ cmd.kind = "assign" /\ cmd.at = "scan" /\ UNCHANGED <<lease, mgr, back, hist>>
      /\ Exists(cmd.lease) /\ cmd.key \in Manager /\ mgr[cmd.key].row
  BY DEF AssignScan, PoolInv, PlaceOK
<1>2. Tables /\ cmd \in Cmd /\ others \in SUBSET Lease
  BY Types DEF PoolInv, Owned
<1>3. faults' \in 0..MaxFaults
  BY PoolAssumption DEF AssignScan, Fault, PoolInv, TypeOK
<1>4. /\ Moves("free") /\ cmd'.seen = cmd.seen
      /\ cmd'.stale \subseteq cmd.stale \cup others
      /\ others \subseteq cmd'.stale \cup cmd'.lost
  <2>1. "free" \in Point
    BY DEF Point
  <2> HIDE DEF others
  <2>2. CASE cmd' = [cmd EXCEPT !.at = "free", !.stale = cmd.stale \cup others]
    BY <1>2, <2>1, <2>2 DEF Cmd, Moves
  <2>3. CASE cmd' = [cmd EXCEPT !.at = "free", !.lost = others \ cmd.stale]
    BY <1>2, <2>1, <2>3 DEF Cmd, Moves
  <2> QED BY <2>2, <2>3 DEF AssignScan, others
<1>5. TypeOK'
  BY <1>1, <1>3, <1>4, Types DEF PoolInv, Tables, Rest, Moves, hist
<1>6. TablesOK' /\ LinksAgree'
  BY <1>1, SameTables DEF PoolInv
<1>7. PlaceOK'
  BY <1>1, <1>4 DEF PlaceOK, Moves, Exists
<1>8. OwnerOK'
  BY <1>1, <1>4 DEF PoolInv, OwnerOK, Moves, Links, hist
<1>9. StaleOK' /\ OneLeaseAfterAssign'
  BY <1>1, <1>4 DEF PoolInv, StaleOK, OneLeaseAfterAssign, Moves, Ours, Owned, hist
<1>10. Backed'
  BY <1>1, <1>4, BackedKept DEF PoolInv, Between, Moves, hist
<1>11. SharedIsChosen'
  BY <1>1, SharedKept DEF PoolInv, hist
<1>12. ApartOK'
  BY <1>1, <1>4 DEF PoolInv, ApartOK, Only, Moves, hist
<1> QED BY <1>5, <1>6, <1>7, <1>8, <1>9, <1>10, <1>11, <1>12 DEF PoolInv

LEMMA AssignFreeStep ==
  ASSUME PoolInv, AssignFree
  PROVE  PoolInv'
<1>1. /\ cmd.kind = "assign" /\ cmd.at = "free" /\ UNCHANGED <<back, hist>>
      /\ Exists(cmd.lease) /\ cmd.key \in Manager /\ mgr[cmd.key].row
  BY DEF AssignFree, PoolInv, PlaceOK
<1>2. Tables /\ cmd \in Cmd /\ cmd.stale \subseteq Lease
  BY Types DEF PoolInv, Cmd
<1>3. PICK l \in cmd.stale :
        \/ Unassign(l) /\ cmd' = [cmd EXCEPT !.stale = cmd.stale \ {l}] /\ UNCHANGED faults
        \/ /\ Fault /\ UNCHANGED <<lease, mgr>>
           /\ cmd' = [cmd EXCEPT !.stale = cmd.stale \ {l}, !.lost = cmd.lost \cup {l}]
  BY DEF AssignFree
<1>4. l \in Lease /\ faults' \in 0..MaxFaults
  BY <1>2, <1>3, PoolAssumption DEF Fault, PoolInv, TypeOK
<1>5. \/ Unassigned(l)
      \/ UNCHANGED <<lease, mgr>> /\ l \in cmd'.lost
  BY <1>2, <1>3, <1>4, UnassignWrites DEF Cmd
<1>6. /\ Moves("free") /\ cmd'.seen = cmd.seen /\ cmd'.stale = cmd.stale \ {l}
      /\ cmd.lost \subseteq cmd'.lost
  <2>1. CASE cmd' = [cmd EXCEPT !.stale = cmd.stale \ {l}]
    BY <1>1, <1>2, <2>1 DEF Cmd, Moves
  <2>2. CASE cmd' = [cmd EXCEPT !.stale = cmd.stale \ {l}, !.lost = cmd.lost \cup {l}]
    BY <1>1, <1>2, <1>4, <2>2 DEF Cmd, Moves
  <2> QED BY <1>3, <2>1, <2>2
<1>7. Tables' /\ SameProxies /\ SameUse
  BY <1>2, <1>5 DEF Unassigned, Tables, SameProxies, SameUse
<1>8. /\ \A k \in Lease : lease'[k].owner \in {NoManager, lease[k].owner}
      /\ \A k \in Lease \ {l} : lease'[k].owner = lease[k].owner
      /\ \A m \in Manager : mgr'[m].link \in {0, mgr[m].link}
      /\ lease'[l].owner = NoManager \/ l \in cmd'.lost
  BY <1>4, <1>5 DEF Unassigned
<1>9. TypeOK'
  BY <1>1, <1>4, <1>6, <1>7, Types DEF PoolInv, Rest, Moves, hist
<1>10. TablesOK' /\ LinksAgree'
  BY <1>1, <1>2, <1>4, <1>5, UnassignTables, SameTables DEF PoolInv
<1>11. PlaceOK'
  BY <1>1, <1>6, <1>7 DEF PlaceOK, Moves, SameUse, SameProxies, Exists
<1>12. OwnerOK'
  <2>1. cmd.lease \in Lease /\ cmd.lease # 0
    BY <1>1, <1>2, LinkTypes DEF Exists
  <2>2. ASSUME Links, NEW m \in Manager \ {cmd.key}
        PROVE  /\ mgr'[m].link = cmd.lease => cmd.lease \in moved
               /\ lease'[cmd.lease].owner = m => cmd.lease \in moved \/ via[m] \notin Held
    BY <1>1, <1>8, <2>1, <2>2, PoolAssumption DEF PoolInv, OwnerOK
  <2> QED BY <1>1, <1>6, <2>2 DEF OwnerOK, Moves, Links, hist
<1>13. StaleOK' /\ OneLeaseAfterAssign'
  <2>1. StaleOK'
    BY <1>1, <1>2, <1>4, <1>6, <1>8, PoolAssumption DEF PoolInv, StaleOK, Moves, Ours, Owned, hist
  <2>2. OneLeaseAfterAssign'
    BY <1>1, <1>6 DEF OneLeaseAfterAssign, Moves
  <2> QED BY <2>1, <2>2
<1>14. Backed'
  <2>1. \A m \in Manager \ {cmd.key} : lease[l].owner = m => l \in moved
    BY <1>1, <1>3, PoolAssumption DEF PoolInv, StaleOK, Ours
  <2> QED BY <1>1, <1>4, <1>6, <1>7, <1>8, <2>1, BackedKept DEF PoolInv, Between, Moves,
             SameUse, SameProxies, hist
<1>15. SharedIsChosen'
  BY <1>1, <1>7, SharedKept DEF PoolInv, SameUse, hist
<1>16. ApartOK'
  BY <1>1, <1>6, <1>7 DEF PoolInv, ApartOK, Only, Moves, SameUse, SameProxies, Exists, hist
<1> QED BY <1>9, <1>10, <1>11, <1>12, <1>13, <1>14, <1>15, <1>16 DEF PoolInv

LEMMA AssignLinkStep ==
  ASSUME PoolInv, AssignLink
  PROVE  PoolInv'
<1>1. /\ cmd.kind = "assign" /\ cmd.at = "free" /\ cmd.stale = {}
      /\ UNCHANGED <<back, hist, faults>>
      /\ Exists(cmd.lease) /\ cmd.key \in Manager /\ mgr[cmd.key].row
  BY DEF AssignLink, PoolInv, PlaceOK
<1>2. Tables /\ cmd \in Cmd /\ cmd.lease \in Lease
  BY <1>1, Types DEF PoolInv, Exists
<1>3. /\ Moves("fields") /\ cmd'.stale = cmd.stale /\ cmd'.lost = cmd.lost
      /\ cmd'.seen = cmd.seen
  BY <1>2, GotoWrites DEF AssignLink, Point
<1>4. IF Links THEN Assigned(cmd.lease, cmd.key) ELSE UNCHANGED <<lease, mgr>>
  BY <1>1, <1>2, AssignWrites DEF AssignLink
<1>5. Tables' /\ SameProxies /\ SameUse
  BY <1>2, <1>4 DEF Assigned, Tables, SameProxies, SameUse
<1>6. TypeOK'
  BY <1>1, <1>3, <1>5, Types DEF PoolInv, Rest, Moves, hist
<1>7. TablesOK' /\ LinksAgree'
  <2>1. CASE Links
    <3>1. \A n \in Manager \ {cmd.key} : mgr[n].link = cmd.lease => cmd.lease \in moved'
      BY <1>1, <2>1 DEF PoolInv, OwnerOK, hist
    <3> QED BY <1>1, <1>2, <1>4, <2>1, <3>1, AssignTables DEF PoolInv, hist
  <2>2. CASE ~Links
    BY <1>1, <1>4, <2>2, SameTables DEF PoolInv
  <2> QED BY <2>1, <2>2
<1>8. PlaceOK'
  BY <1>1, <1>3, <1>5 DEF PlaceOK, Moves, SameUse, SameProxies, Exists
<1>9. OwnerOK'
  BY <1>1, <1>2, <1>3, <1>4 DEF OwnerOK, Moves, Links, Assigned, Ours
<1>10. StaleOK' /\ OneLeaseAfterAssign'
  <2>1. \A k \in Lease : lease'[k].owner = cmd.key /\ k # cmd.lease => k \in moved \cup cmd.lost
    BY <1>1, <1>4 DEF PoolInv, StaleOK, Owned, Assigned
  <2> QED BY <1>1, <1>3, <2>1 DEF StaleOK, OneLeaseAfterAssign, Moves, Owned, hist
<1>11. Backed'
  <2>1. ASSUME NEW m \in Manager \ {cmd.key}, NEW k \in Lease, lease[k].owner = m,
               via[m] \in Held
        PROVE  lease'[k].owner = m \/ k \in moved
    BY <1>1, <1>2, <1>4, <2>1 DEF PoolInv, OwnerOK, Assigned
  <2> QED BY <1>1, <1>3, <1>5, <2>1, BackedKept DEF PoolInv, Between, Moves, SameUse,
             SameProxies, hist
<1>12. SharedIsChosen'
  BY <1>1, <1>5, SharedKept DEF PoolInv, SameUse, hist
<1>13. ApartOK'
  BY <1>1, <1>2, <1>3, <1>5 DEF PoolInv, ApartOK, Only, Moves, SameUse, SameProxies, hist
<1> QED BY <1>6, <1>7, <1>8, <1>9, <1>10, <1>11, <1>12, <1>13 DEF PoolInv

LEMMA ApplyFieldsStep ==
  ASSUME PoolInv, ApplyFields
  PROVE  PoolInv'
<1> DEFINE p == lease[cmd.lease].proxy
<1>1. /\ cmd.kind \in {"assign", "buy"} /\ cmd.at = "fields" /\ cmd' = Idle
      /\ UNCHANGED <<lease, back>>
      /\ Exists(cmd.lease) /\ cmd.key \in Manager /\ mgr[cmd.key].row
  BY DEF ApplyFields, PoolInv, PlaceOK
<1>2. Tables /\ via \in [Manager -> Ways] /\ cmd.lease \in Lease /\ p \in Link
  BY <1>1, Types DEF PoolInv, Rest, Exists, Tables, LeaseRow
<1>3. faults' \in 0..MaxFaults
  BY PoolAssumption DEF ApplyFields, Fault, PoolInv, TypeOK
<1>4. CASE SetProxy(cmd.key, p, How)
  <2>1. How \in Ways
    BY DEF How, Ways
  <2>2. ProxySet(cmd.key, p, How)
    BY <1>1, <1>2, <1>4, <2>1, ProxyWrites
  <2>3. TypeOK'
    BY <1>1, <1>3, <2>2, IdleCommand, Types DEF PoolInv, Rest, ProxySet
  <2>4. TablesOK' /\ LinksAgree'
    <3>1. p # 0 /\ Exists(p)
      BY <1>1 DEF PoolInv, TablesOK, Exists
    <3> QED BY <1>1, <1>2, <2>1, <2>2, <3>1, ProxyTables DEF PoolInv
  <2>5. Backed'
    <3>1. How \in Held => Ours(cmd.lease, cmd.key)
      <4>1. ~Links => cmd.multi /\ cmd.old # NoManager
        BY DEF Links
      <4>2. cmd.multi /\ cmd.old # NoManager => How = "guest"
        BY DEF How
      <4>3. Links => Ours(cmd.lease, cmd.key)
        BY <1>1 DEF PoolInv, OwnerOK
      <4> QED BY <4>1, <4>2, <4>3 DEF Held
    <3>2. ASSUME NEW m \in Manager, via'[m] \in Held
          PROVE  \E k \in Lease : lease'[k].proxy = mgr'[m].use /\ Ours(k, m)'
      <4>1. CASE m = cmd.key
        BY <1>1, <1>2, <2>2, <3>1, <3>2, <4>1 DEF ProxySet, Ours
      <4>2. CASE m # cmd.key
        <5>1. via[m] \in Held /\ ~Between(m) /\ mgr'[m].use = mgr[m].use
          BY <1>1, <2>2, <3>2, <4>2 DEF ProxySet, Between
        <5> QED BY <1>1, <2>2, <5>1 DEF PoolInv, Backed, ProxySet, Ours
      <4> QED BY <4>1, <4>2
    <3> QED BY <3>2 DEF Backed
  <2>6. SharedIsChosen'
    <3>1. How = "lease" => \A n \in Manager \ {cmd.key} : ~(via[n] = "lease" /\ mgr[n].use = p)
      BY <1>1 DEF PoolInv, ApartOK, PlaceOK, OwnerOK, How, Only
    <3> QED BY <2>2, <3>1 DEF PoolInv, SharedIsChosen, ProxySet
  <2> QED BY <1>1, <2>3, <2>4, <2>5, <2>6, IdleCommand DEF PoolInv
<1>5. CASE Keep({cmd.key})
  <2>1. Kept({cmd.key})
    BY <1>2, <1>5, KeepWrites
  <2>2. TypeOK'
    BY <1>1, <1>2, <1>3, <2>1, IdleCommand, Types DEF PoolInv, Tables, Rest, Kept
  <2>3. TablesOK' /\ LinksAgree'
    BY <1>1, <1>2, <2>1, KeepTables DEF PoolInv
  <2>4. Backed'
    BY <1>1, <2>1, BackedKept DEF PoolInv, Between, Kept, Held
  <2>5. SharedIsChosen'
    BY <1>1, <2>1, SharedKept DEF PoolInv, Kept
  <2> QED BY <1>1, <2>2, <2>3, <2>4, <2>5, IdleCommand DEF PoolInv
<1> QED BY <1>4, <1>5 DEF ApplyFields

LEMMA BuyCreateStep ==
  ASSUME PoolInv, NEW l \in Lease, NEW m \in Manager, NEW b \in BOOLEAN, BuyCreate(l, m, b)
  PROVE  PoolInv'
<1>1. /\ cmd.at = "idle" /\ mgr[m].row /\ UNCHANGED <<mgr, back, hist, faults>>
  BY DEF BuyCreate
<1>2. Tables /\ m \in Key /\ l \in Link
  BY Types, LinkTypes DEF PoolInv, Key
<1>3. PICK p \in Lease : Inserted(l, p, m)
  BY <1>1, <1>2, InsertWrites DEF BuyCreate
<1>4. /\ cmd' \in Cmd /\ cmd'.kind = "buy" /\ cmd'.at = "link" /\ cmd'.lease = l
      /\ cmd'.key = m /\ cmd'.old = NoManager /\ cmd'.multi = FALSE
  BY <1>2 DEF BuyCreate, Command, Cmd, Point, Key
<1>5. TypeOK'
  BY <1>1, <1>3, <1>4, Types DEF PoolInv, Rest, Inserted, hist
<1>6. TablesOK' /\ LinksAgree'
  BY <1>1, <1>2, <1>3, InsertTables DEF PoolInv
<1>7. Exists(l)'
  BY <1>2, <1>3, LinkTypes DEF Inserted, Exists
<1>8. PlaceOK'
  BY <1>1, <1>4, <1>7 DEF PlaceOK, Exists
<1>9. OwnerOK' /\ StaleOK' /\ OneLeaseAfterAssign'
  BY <1>3, <1>4 DEF OwnerOK, StaleOK, OneLeaseAfterAssign, Inserted, Ours
<1>10. Backed'
  <2>1. \A k \in Lease : Exists(k) => lease'[k].proxy = lease[k].proxy
    BY <1>3 DEF Inserted
  <2>2. ASSUME NEW n \in Manager, NEW k \in Lease, lease[k].owner = n
        PROVE  lease'[k].owner = n
    <3>1. lease[l].proxy = 0 /\ lease[l].owner = NoManager
      BY <1>3 DEF PoolInv, TablesOK, Inserted, Exists
    <3> QED BY <1>3, <2>2, <3>1, PoolAssumption DEF Inserted
  <2>3. \A n \in Manager : via'[n] = via[n] /\ mgr'[n].use = mgr[n].use /\ ~Between(n)
    BY <1>1, <1>4 DEF Between, PoolInv, PlaceOK, hist
  <2> QED BY <1>1, <2>1, <2>2, <2>3, BackedKept DEF PoolInv, hist
<1>11. SharedIsChosen'
  BY <1>1, SharedKept DEF PoolInv, hist
<1>12. ApartOK'
  <2>1. \A n \in Manager : mgr[n].use # l
    BY <1>2, <1>3, LinkTypes DEF PoolInv, TablesOK, Inserted
  <2> QED BY <1>1, <1>4, <2>1 DEF ApartOK, Only
<1> QED BY <1>5, <1>6, <1>8, <1>9, <1>10, <1>11, <1>12 DEF PoolInv

LEMMA BuyLinkStep ==
  ASSUME PoolInv, BuyLink
  PROVE  PoolInv'
<1>1. /\ cmd.kind = "buy" /\ cmd.at = "link" /\ UNCHANGED <<back, hist, faults>>
      /\ Exists(cmd.lease) /\ cmd.key \in Manager /\ mgr[cmd.key].row
      /\ Ours(cmd.lease, cmd.key)
  BY DEF BuyLink, PoolInv, PlaceOK, OwnerOK
<1>2. Tables /\ cmd \in Cmd /\ cmd.lease \in Lease
  BY <1>1, Types DEF PoolInv, Exists
<1>3. Moves("fields") /\ cmd'.seen = cmd.seen
  BY <1>2, GotoWrites DEF BuyLink, Point
<1>4. Assigned(cmd.lease, cmd.key)
  BY <1>1, <1>2, AssignWrites DEF BuyLink
<1>5. TypeOK'
  BY <1>1, <1>3, <1>4, Types DEF PoolInv, Rest, Moves, Assigned, hist
<1>6. TablesOK' /\ LinksAgree'
  <2>1. \A n \in Manager \ {cmd.key} : mgr[n].link = cmd.lease => cmd.lease \in moved'
    BY <1>1, <1>2, LinkTypes DEF PoolInv, LinksAgree, Ours, hist
  <2> QED BY <1>1, <1>2, <1>4, <2>1, AssignTables DEF PoolInv, hist
<1>7. PlaceOK'
  BY <1>1, <1>3, <1>4 DEF PoolInv, PlaceOK, Moves, Assigned, SameUse, SameProxies, Exists
<1>8. OwnerOK' /\ StaleOK' /\ OneLeaseAfterAssign'
  BY <1>1, <1>2, <1>3, <1>4 DEF OwnerOK, StaleOK, OneLeaseAfterAssign, Moves, Assigned, Ours
<1>9. Backed'
  <2>1. ASSUME NEW m \in Manager, NEW k \in Lease, lease[k].owner = m
        PROVE  lease'[k].owner = m \/ k \in moved
    BY <1>1, <1>4, <2>1 DEF Assigned, Ours
  <2> QED BY <1>1, <1>3, <1>4, <2>1, BackedKept DEF PoolInv, Between, Moves, Assigned, SameUse,
             SameProxies, hist
<1>10. SharedIsChosen'
  BY <1>1, <1>4, SharedKept DEF PoolInv, Assigned, SameUse, hist
<1>11. ApartOK'
  BY <1>1, <1>2, <1>3, <1>4 DEF PoolInv, ApartOK, Only, Moves, Assigned, SameUse, SameProxies,
     hist
<1> QED BY <1>5, <1>6, <1>7, <1>8, <1>9, <1>10, <1>11 DEF PoolInv

LEMMA UnassignCallStep ==
  ASSUME PoolInv, NEW l \in Lease, UnassignCall(l)
  PROVE  PoolInv'
<1>1. cmd.at = "idle" /\ Exists(l) /\ UNCHANGED <<lease, mgr, back, hist, faults>>
  BY DEF UnassignCall
<1>2. Tables /\ lease[l].owner \in Key /\ NoManager \in Key /\ l \in Link
  BY Types, LinkTypes DEF PoolInv, Tables, LeaseRow, Key
<1>3. /\ cmd' \in Cmd /\ cmd'.kind = "unassign" /\ cmd'.at = "detach" /\ cmd'.lease = l
      /\ cmd'.key = NoManager /\ cmd'.old = lease[l].owner
  BY <1>2 DEF UnassignCall, Command, Cmd, Point
<1>4. TypeOK'
  BY <1>1, <1>3, Types DEF PoolInv, Tables, Rest, hist
<1>5. TablesOK' /\ LinksAgree'
  BY <1>1, SameTables DEF PoolInv
<1>6. PlaceOK'
  BY <1>1, <1>3 DEF PlaceOK, Exists
<1>7. OwnerOK' /\ StaleOK' /\ OneLeaseAfterAssign' /\ ApartOK'
  BY <1>1, <1>3 DEF OwnerOK, StaleOK, OneLeaseAfterAssign, ApartOK, Ours
<1>8. Backed'
  BY <1>1, <1>3, BackedKept DEF PoolInv, Between, hist
<1>9. SharedIsChosen'
  BY <1>1, SharedKept DEF PoolInv, hist
<1> QED BY <1>4, <1>5, <1>6, <1>7, <1>8, <1>9 DEF PoolInv

LEMMA UnassignDetachStep ==
  ASSUME PoolInv, UnassignDetach
  PROVE  PoolInv'
<1>1. /\ cmd.kind = "unassign" /\ cmd.at = "detach" /\ UNCHANGED <<back, hist, faults>>
      /\ Exists(cmd.lease) /\ cmd.key = NoManager /\ Ours(cmd.lease, cmd.old)
  BY DEF UnassignDetach, PoolInv, PlaceOK, OwnerOK
<1>2. Tables /\ cmd \in Cmd /\ cmd.lease \in Lease
  BY <1>1, Types DEF PoolInv, Exists
<1>3. Unassigned(cmd.lease)
  BY <1>2, UnassignWrites DEF UnassignDetach
<1>4. TablesOK' /\ LinksAgree'
  BY <1>1, <1>2, <1>3, UnassignTables DEF PoolInv
<1>5. SharedIsChosen'
  BY <1>1, <1>3, SharedKept DEF PoolInv, Unassigned, SameUse, hist
<1>6. ASSUME NEW m \in Manager, m # cmd.old, NEW k \in Lease, lease[k].owner = m
      PROVE  lease'[k].owner = m \/ k \in moved
  BY <1>1, <1>3, <1>6 DEF Unassigned, Ours
<1>7. CASE cmd.old = NoManager
  <2>1. cmd' = Idle
    BY <1>7 DEF UnassignDetach
  <2>2. TypeOK'
    BY <1>1, <1>3, <2>1, IdleCommand, Types DEF PoolInv, Rest, Unassigned, hist
  <2>3. Backed'
    BY <1>1, <1>3, <1>6, <1>7, <2>1, IdleCommand, BackedKept, PoolAssumption
    DEF PoolInv, Between, Unassigned, SameUse, SameProxies, hist
  <2> QED BY <1>4, <1>5, <2>1, <2>2, <2>3, IdleCommand DEF PoolInv
<1>8. CASE cmd.old # NoManager
  <2>1. Moves("disable") /\ cmd.old \in Manager
    BY <1>2, <1>8, GotoWrites DEF UnassignDetach, Point, Cmd, Key
  <2>2. TypeOK'
    BY <1>1, <1>3, <2>1, Types DEF PoolInv, Rest, Unassigned, Moves, hist
  <2>3. PlaceOK'
    BY <1>1, <1>3, <2>1 DEF PlaceOK, Moves, Unassigned, SameProxies, Exists
  <2>4. OwnerOK' /\ StaleOK' /\ OneLeaseAfterAssign' /\ ApartOK'
    BY <1>1, <2>1 DEF OwnerOK, StaleOK, OneLeaseAfterAssign, ApartOK, Moves
  <2>5. Backed'
    BY <1>1, <1>3, <1>6, <2>1, BackedKept DEF PoolInv, Between, Unassigned, SameUse,
       SameProxies, Moves, hist
  <2> QED BY <1>4, <1>5, <2>2, <2>3, <2>4, <2>5 DEF PoolInv
<1> QED BY <1>7, <1>8

LEMMA DisableStep ==
  ASSUME PoolInv, Disable
  PROVE  PoolInv'
<1>1. /\ cmd.at = "disable" /\ cmd.kind \in {"assign", "unassign"} /\ cmd.old \in Manager
      /\ UNCHANGED <<lease, back>>
  <2>1. cmd \in Cmd
    BY Types DEF PoolInv
  <2> QED BY <2>1 DEF Disable, PoolInv, PlaceOK, Cmd
<1>2. Tables /\ cmd \in Cmd /\ via \in [Manager -> Ways] /\ Rest
  BY Types DEF PoolInv, Rest
<1>3. faults' \in 0..MaxFaults
  BY PoolAssumption DEF Disable, Fault, PoolInv, TypeOK
\* Whatever became of the write, the former owner no longer counts as backed.
<1>4. /\ Tables' /\ moved' = moved /\ via' \in [Manager -> Ways]
      /\ via'[cmd.old] \notin Held
      /\ \A m \in Manager : mgr'[m].row = mgr[m].row /\ mgr'[m].link = mgr[m].link
      /\ \A m \in Manager : via'[m] \in Held => via'[m] = via[m] /\ mgr'[m].use = mgr[m].use
      /\ \A m \in Manager : via[m] \notin Held => via'[m] \notin Held
      /\ TablesOK' /\ LinksAgree'
  <2>1. CASE mgr[cmd.old].row /\ SetProxy(cmd.old, 0, "none")
    <3>1. "none" \in Ways /\ 0 \in Link /\ "none" \notin Held
      BY PoolAssumption DEF Ways, Link, Held
    <3>2. ProxySet(cmd.old, 0, "none")
      BY <1>1, <1>2, <2>1, <3>1, ProxyWrites
    <3>3. TablesOK' /\ LinksAgree'
      BY <1>1, <1>2, <2>1, <3>1, <3>2, ProxyTables DEF PoolInv
    <3> QED BY <1>1, <3>1, <3>2, <3>3 DEF ProxySet
  <2>2. CASE ~mgr[cmd.old].row /\ UNCHANGED <<mgr, hist>>
    <3>1. TablesOK' /\ LinksAgree'
      BY <1>1, <2>2, SameTables DEF PoolInv
    <3> QED BY <1>1, <1>2, <2>2, <3>1 DEF PoolInv, TablesOK, Tables, Held, hist
  <2>3. CASE Keep({cmd.old})
    <3>1. Kept({cmd.old})
      BY <1>2, <2>3, KeepWrites
    <3>2. TablesOK' /\ LinksAgree'
      BY <1>1, <1>2, <3>1, KeepTables DEF PoolInv
    <3> QED BY <1>1, <1>2, <3>1, <3>2 DEF Kept, Tables, Held
  <2> QED BY <2>1, <2>2, <2>3 DEF Disable
<1>5. SharedIsChosen'
  BY <1>4, SharedKept DEF PoolInv, Held
<1>6. CASE cmd.kind = "assign"
  <2>1. /\ Moves("scan") /\ cmd'.stale = cmd.stale /\ cmd'.lost = cmd.lost
        /\ cmd'.seen = cmd.seen
    BY <1>2, <1>6, GotoWrites DEF Disable, Point
  <2>2. TypeOK'
    BY <1>1, <1>2, <1>3, <1>4, <2>1, Types DEF Rest, Moves
  <2>3. PlaceOK'
    BY <1>1, <1>4, <1>6, <2>1 DEF PoolInv, PlaceOK, Moves, Exists
  <2>4. OwnerOK'
    BY <1>1, <1>4, <1>6, <2>1 DEF PoolInv, OwnerOK, Moves, Links
  <2>5. StaleOK' /\ OneLeaseAfterAssign'
    BY <1>1, <1>4, <1>6, <2>1 DEF PoolInv, StaleOK, OneLeaseAfterAssign, Moves, Ours
  <2>6. Backed'
    BY <1>1, <1>4, <1>6, <2>1, BackedKept DEF PoolInv, Between, Moves
  <2>7. ApartOK'
    BY <1>1, <1>4, <1>6, <2>1 DEF PoolInv, ApartOK, Only, Moves, Held
  <2> QED BY <1>4, <1>5, <2>2, <2>3, <2>4, <2>5, <2>6, <2>7 DEF PoolInv
<1>7. CASE cmd.kind # "assign"
  <2>1. cmd' = Idle
    BY <1>7 DEF Disable
  <2>2. TypeOK'
    BY <1>1, <1>2, <1>3, <1>4, <2>1, IdleCommand, Types DEF Rest
  <2>3. Backed'
    BY <1>1, <1>4, <1>7, <2>1, BackedKept DEF PoolInv, Between
  <2> QED BY <1>4, <1>5, <2>1, <2>2, <2>3, IdleCommand DEF PoolInv
<1> QED BY <1>6, <1>7

LEMMA RetireCallStep ==
  ASSUME PoolInv, NEW m \in Manager, RetireCall(m)
  PROVE  PoolInv'
<1>1. cmd.at = "idle" /\ mgr[m].row /\ UNCHANGED <<lease, back>>
  BY DEF RetireCall
<1>2. Tables /\ Rest /\ via \in [Manager -> Ways] /\ m \in Key /\ NoManager \in Key /\ 0 \in Link
  BY Types, PoolAssumption DEF PoolInv, Rest, Key, Link
<1>3. faults' \in 0..MaxFaults
  <2>1. faults' = faults \/ Fault
    BY DEF RetireCall
  <2> QED BY <2>1, PoolAssumption DEF Fault, PoolInv, TypeOK
<1>4. /\ cmd' \in Cmd /\ cmd'.kind \in {"delete", "terminal"} /\ cmd'.at = "find"
      /\ cmd'.key = m /\ cmd'.old = NoManager /\ cmd'.lease = 0
  <2>1. PICK kind \in {"delete", "terminal"} :
          cmd' = Command(kind, "find", 0, m, NoManager, FALSE, {})
    BY DEF RetireCall
  <2> QED BY <1>2, <2>1 DEF Command, Cmd, Point
<1>5. /\ Tables' /\ moved' = moved /\ via' \in [Manager -> Ways] /\ mgr'[m].row
      /\ \A n \in Manager : via'[n] \in Held => via'[n] = via[n] /\ mgr'[n].use = mgr[n].use
      /\ cmd'.kind = "terminal" => via'[m] \notin Held
      /\ TablesOK' /\ LinksAgree'
  <2>1. CASE UNCHANGED <<mgr, hist>> /\ cmd'.kind = "delete"
    <3>1. TablesOK' /\ LinksAgree'
      BY <1>1, <2>1, SameTables DEF PoolInv
    <3> QED BY <1>1, <1>2, <2>1, <3>1 DEF Tables, hist
  <2>2. CASE SetProxy(m, 0, "none")
    <3>1. "none" \in Ways /\ "none" \notin Held
      BY DEF Ways, Held
    <3>2. ProxySet(m, 0, "none")
      BY <1>1, <1>2, <2>2, <3>1, ProxyWrites
    <3>3. TablesOK' /\ LinksAgree'
      BY <1>1, <1>2, <3>1, <3>2, ProxyTables DEF PoolInv
    <3> QED BY <1>1, <3>1, <3>2, <3>3 DEF ProxySet
  <2>3. CASE Keep({m})
    <3>1. Kept({m})
      BY <1>2, <2>3, KeepWrites
    <3>2. TablesOK' /\ LinksAgree'
      BY <1>1, <1>2, <3>1, KeepTables DEF PoolInv
    <3> QED BY <1>1, <1>2, <3>1, <3>2 DEF Kept, Tables, Held
  <2>4. \/ UNCHANGED <<mgr, hist>> /\ cmd'.kind = "delete"
        \/ SetProxy(m, 0, "none")
        \/ Keep({m})
    BY DEF RetireCall, Command
  <2> QED BY <2>1, <2>2, <2>3, <2>4
<1>6. TypeOK'
  BY <1>1, <1>2, <1>3, <1>4, <1>5, Types DEF Rest
<1>7. PlaceOK'
  BY <1>4, <1>5 DEF PlaceOK
<1>8. OwnerOK' /\ StaleOK' /\ OneLeaseAfterAssign' /\ ApartOK'
  BY <1>4 DEF OwnerOK, StaleOK, OneLeaseAfterAssign, ApartOK
<1>9. Backed'
  BY <1>1, <1>5, BackedKept DEF PoolInv, Between, PlaceOK
<1>10. SharedIsChosen'
  BY <1>5, SharedKept DEF PoolInv, Held
<1> QED BY <1>5, <1>6, <1>7, <1>8, <1>9, <1>10 DEF PoolInv

\* What a command that retires a manager knows.
LEMMA Retiring ==
  ASSUME PoolInv, cmd.at \in {"find", "release", "delete"}
  PROVE  /\ cmd.kind \in {"delete", "terminal"} /\ cmd.key \in Manager /\ mgr[cmd.key].row
         /\ cmd.old = NoManager /\ (cmd.kind = "terminal" => via[cmd.key] \notin Held)
         /\ Tables /\ cmd \in Cmd /\ Rest
<1>1. Tables /\ cmd \in Cmd /\ Rest
  BY Types DEF PoolInv
<1> QED BY <1>1 DEF PoolInv, PlaceOK, Cmd

LEMMA RetireFindStep ==
  ASSUME PoolInv, RetireFind
  PROVE  PoolInv'
<1>1. cmd.at = "find" /\ UNCHANGED <<lease, mgr, back, hist, faults>>
  BY DEF RetireFind
<1>2. /\ cmd.kind \in {"delete", "terminal"} /\ cmd.key \in Manager /\ mgr[cmd.key].row
      /\ cmd.old = NoManager /\ (cmd.kind = "terminal" => via[cmd.key] \notin Held)
      /\ Tables /\ cmd \in Cmd /\ Rest
  BY <1>1, Retiring
<1>3. PICK l \in LeaseOf(cmd.key) : cmd' = [cmd EXCEPT !.at = "release", !.lease = l]
  BY DEF RetireFind
<1>4. l \in Link /\ (l # 0 => Ours(l, cmd.key))
  <2>1. CASE mgr[cmd.key].row /\ Exists(mgr[cmd.key].link)
    <3>1. l = mgr[cmd.key].link
      BY <1>3, <2>1 DEF LeaseOf
    <3> QED BY <1>2, <2>1, <3>1, LinkTypes DEF PoolInv, LinksAgree, Exists, Ours
  <2>2. CASE ~(mgr[cmd.key].row /\ Exists(mgr[cmd.key].link))
    <3>1. l = 0 \/ l \in Owned(cmd.key)
      BY <1>3, <2>2 DEF LeaseOf
    <3> QED BY <1>2, <3>1, LinkTypes, PoolAssumption DEF Owned, Ours, Link
  <2> QED BY <2>1, <2>2
<1>5. /\ cmd' \in Cmd /\ cmd'.at = "release" /\ cmd'.lease = l /\ cmd'.kind = cmd.kind
      /\ cmd'.key = cmd.key /\ cmd'.old = NoManager
  BY <1>2, <1>3, <1>4 DEF Cmd, Point
<1>6. TypeOK'
  BY <1>1, <1>2, <1>5, Types DEF Tables, Rest, hist
<1>7. TablesOK' /\ LinksAgree'
  BY <1>1, SameTables DEF PoolInv
<1>8. PlaceOK'
  BY <1>1, <1>2, <1>5 DEF PlaceOK, hist
<1>9. OwnerOK' /\ StaleOK' /\ OneLeaseAfterAssign' /\ ApartOK'
  BY <1>1, <1>2, <1>4, <1>5 DEF OwnerOK, StaleOK, OneLeaseAfterAssign, ApartOK, Ours, hist
<1>10. Backed'
  BY <1>1, <1>2, <1>5, BackedKept DEF PoolInv, Between, hist
<1>11. SharedIsChosen'
  BY <1>1, SharedKept DEF PoolInv, hist
<1> QED BY <1>6, <1>7, <1>8, <1>9, <1>10, <1>11 DEF PoolInv

LEMMA RetireReleaseStep ==
  ASSUME PoolInv, RetireRelease
  PROVE  PoolInv'
<1>1. cmd.at = "release" /\ UNCHANGED <<back, hist>>
  BY DEF RetireRelease
<1>2. /\ cmd.kind \in {"delete", "terminal"} /\ cmd.key \in Manager /\ mgr[cmd.key].row
      /\ cmd.old = NoManager /\ (cmd.kind = "terminal" => via[cmd.key] \notin Held)
      /\ Tables /\ cmd \in Cmd /\ Rest
  BY <1>1, Retiring
<1>3. faults' \in 0..MaxFaults
  BY PoolAssumption DEF RetireRelease, Fault, PoolInv, TypeOK
<1>4. \/ Exists(cmd.lease) /\ cmd.lease \in Lease /\ Unassigned(cmd.lease)
      \/ UNCHANGED <<lease, mgr>>
  BY <1>2, UnassignWrites DEF RetireRelease, Exists
<1>5. Tables' /\ SameProxies /\ SameUse
  BY <1>2, <1>4 DEF Unassigned, Tables, SameProxies, SameUse
<1>6. TablesOK' /\ LinksAgree'
  BY <1>1, <1>2, <1>4, UnassignTables, SameTables DEF PoolInv
<1>7. ASSUME NEW m \in Manager, m # cmd.key, NEW k \in Lease, lease[k].owner = m
      PROVE  lease'[k].owner = m \/ k \in moved
  <2>1. cmd.lease \in Lease => Ours(cmd.lease, cmd.key)
    BY <1>1, <1>2, LinkTypes DEF PoolInv, OwnerOK
  <2> QED BY <1>4, <1>7, <2>1 DEF Unassigned, Ours
<1>8. /\ cmd' \in Cmd
      /\ PlaceOK' /\ OwnerOK' /\ StaleOK' /\ OneLeaseAfterAssign' /\ ApartOK'
      /\ \A m \in Manager : via[m] \in Held /\ ~Between(m)' => m # cmd.key /\ ~Between(m)
  <2>1. CASE cmd.kind = "delete"
    <3>1. Moves("delete")
      BY <1>2, <2>1, GotoWrites DEF RetireRelease, Point
    <3>2. PlaceOK'
      BY <1>2, <1>5, <2>1, <3>1 DEF PlaceOK, Moves, SameUse
    <3>3. OwnerOK' /\ StaleOK' /\ OneLeaseAfterAssign' /\ ApartOK'
      BY <2>1, <3>1 DEF OwnerOK, StaleOK, OneLeaseAfterAssign, ApartOK, Moves
    <3> QED BY <1>1, <2>1, <3>1, <3>2, <3>3 DEF Moves, Between
  <2>2. CASE cmd.kind # "delete"
    <3>1. cmd' = Idle
      BY <2>2 DEF RetireRelease
    <3> QED BY <1>1, <1>2, <2>2, <3>1, IdleCommand, IdleFields DEF Between
  <2> QED BY <2>1, <2>2
<1>9. TypeOK'
  BY <1>1, <1>2, <1>3, <1>5, <1>8, Types DEF Rest, hist
<1>10. Backed'
  BY <1>1, <1>5, <1>7, <1>8, BackedKept DEF PoolInv, SameUse, SameProxies, hist
<1>11. SharedIsChosen'
  BY <1>1, <1>5, SharedKept DEF PoolInv, SameUse, hist
<1> QED BY <1>6, <1>8, <1>9, <1>10, <1>11 DEF PoolInv

LEMMA DeleteRowStep ==
  ASSUME PoolInv, DeleteRow
  PROVE  PoolInv'
<1> DEFINE gone == [row |-> FALSE, link |-> 0, use |-> 0]
<1>1. /\ cmd.at = "delete" /\ cmd' = Idle /\ UNCHANGED <<lease, back, moved, faults>>
      /\ mgr' = [mgr EXCEPT ![cmd.key] = gone] /\ via' = [via EXCEPT ![cmd.key] = "none"]
  BY DEF DeleteRow
<1>2. cmd.key \in Manager /\ Tables /\ Rest /\ gone \in MgrRow /\ "none" \in Ways
  BY <1>1, Retiring, PoolAssumption DEF MgrRow, Link, Ways
<1>3. gone.row = FALSE /\ gone.link = 0 /\ gone.use = 0
  OBVIOUS
<1> HIDE DEF gone
<1>4. /\ Tables' /\ Rest' /\ mgr'[cmd.key] = gone /\ via'[cmd.key] = "none"
      /\ \A m \in Manager : m # cmd.key => mgr'[m] = mgr[m] /\ via'[m] = via[m]
  BY <1>1, <1>2 DEF Tables, Rest
<1>5. TypeOK'
  BY <1>1, <1>4, IdleCommand, Types
<1>6. TablesOK'
  BY <1>1, <1>3, <1>4 DEF PoolInv, TablesOK, Exists, Held
<1>7. LinksAgree'
  BY <1>1, <1>3, <1>4 DEF PoolInv, LinksAgree
<1>8. Backed'
  <2>1. \A m \in Manager : m # cmd.key => ~Between(m)
    BY <1>1, Retiring DEF Between
  <2> QED BY <1>1, <1>4, <2>1, BackedKept DEF PoolInv, Held
<1>9. SharedIsChosen'
  BY <1>4, SharedKept DEF PoolInv
<1> QED BY <1>1, <1>5, <1>6, <1>7, <1>8, <1>9, IdleCommand DEF PoolInv

-----------------------------------------------------------------------------
(* Steps beside the command.                                               *)

\* What the others write leaves the command's facts as they are: leases change
\* hands by a rollback only, and a proxy set by hand is nobody's lease.
LEMMA Beside ==
  ASSUME PoolInv, cmd' = cmd, Tables', Rest', TablesOK', LinksAgree', moved \subseteq moved',
         \A k \in Lease : Exists(k) => lease'[k].proxy = lease[k].proxy,
         \A k \in Lease : lease'[k].owner = lease[k].owner \/ k \in moved',
         \A m \in Manager : mgr[m].row => mgr'[m].row,
         \A m \in Manager : mgr'[m].link \in {0, mgr[m].link} \cup moved',
         \A m \in Manager :
           via'[m] \in Held => via'[m] = via[m] /\ mgr'[m].use = mgr[m].use
  PROVE  PoolInv'
<1>1. Tables /\ cmd \in Cmd /\ \A k : Exists(k) => Exists(k)' /\ k # 0
  BY Types, LinkTypes DEF PoolInv, Exists
<1>2. TypeOK'
  BY <1>1, Types
<1>3. PlaceOK'
  BY <1>1 DEF PoolInv, PlaceOK
<1>4. \A k \in Lease : \A m : Ours(k, m) => Ours(k, m)'
  BY DEF Ours
<1>5. OwnerOK'
  <2>1. Exists(cmd.lease) => cmd.lease \in Lease
    BY DEF Exists
  <2>2. cmd.lease # 0 => cmd.lease \in Lease
    BY <1>1 DEF Cmd, Link, Lease
  <2>3. ASSUME cmd.kind = "assign", cmd.at \in {"disable", "scan", "free"}, Links,
               NEW m \in Manager \ {cmd.key}
        PROVE  /\ mgr'[m].link = cmd.lease => cmd.lease \in moved'
               /\ lease'[cmd.lease].owner = m => cmd.lease \in moved' \/ via'[m] \notin Held
    BY <1>1, <2>1, <2>3 DEF PoolInv, OwnerOK, PlaceOK
  <2> QED BY <1>4, <2>1, <2>2, <2>3 DEF PoolInv, OwnerOK, PlaceOK, Links
<1>6. StaleOK' /\ OneLeaseAfterAssign'
  BY <1>1, <1>4 DEF PoolInv, StaleOK, OneLeaseAfterAssign, Owned, Ours, Cmd
<1>7. Backed'
  BY BackedKept DEF PoolInv, Between
<1>8. ApartOK'
  <2>1. \A p, ms : Only(p, ms) => Only(p, ms)'
    BY DEF Only, Held
  <2>2. Exists(cmd.lease) => lease'[cmd.lease].proxy = lease[cmd.lease].proxy
    BY DEF Exists
  <2> QED BY <2>1, <2>2 DEF PoolInv, ApartOK, PlaceOK
<1>9. SharedIsChosen'
  BY SharedKept DEF PoolInv, Held
<1> QED BY <1>2, <1>3, <1>5, <1>6, <1>7, <1>8, <1>9 DEF PoolInv

LEMMA AddStep ==
  ASSUME PoolInv, NEW m \in Manager, Add(m)
  PROVE  PoolInv'
<1> DEFINE new == [row |-> TRUE, link |-> 0, use |-> 0]
<1>1. /\ ~mgr[m].row /\ mgr' = [mgr EXCEPT ![m] = new]
      /\ UNCHANGED <<lease, cmd, back, hist, faults>>
  BY DEF Add
<1>2. Tables /\ Rest /\ new \in MgrRow
  BY Types, PoolAssumption DEF PoolInv, MgrRow, Link
<1>3. new.row = TRUE /\ new.link = 0 /\ new.use = 0
  OBVIOUS
<1> HIDE DEF new
<1>4. /\ Tables' /\ Rest' /\ mgr'[m] = new
      /\ \A n \in Manager : n # m => mgr'[n] = mgr[n]
  BY <1>1, <1>2 DEF Tables, Rest, hist
<1>5. via[m] = "none"
  BY <1>1 DEF PoolInv, TablesOK
<1>6. TablesOK'
  BY <1>1, <1>3, <1>4, <1>5 DEF PoolInv, TablesOK, Exists, Held, hist
<1>7. LinksAgree'
  BY <1>1, <1>3, <1>4 DEF PoolInv, LinksAgree, hist
<1>8. \A n \in Manager : via[n] \in Held => n # m
  BY <1>5 DEF Held
<1> QED BY <1>1, <1>3, <1>4, <1>6, <1>7, <1>8, Beside DEF hist

LEMMA SetByHandStep ==
  ASSUME PoolInv, NEW m \in Manager, NEW p \in Link, SetByHand(m, p)
  PROVE  PoolInv'
<1> DEFINE how == IF p = 0 THEN "none" ELSE "guest"
<1>1. mgr[m].row /\ SetProxy(m, p, how) /\ UNCHANGED <<lease, cmd, back>>
  BY DEF SetByHand
<1>2. how \in Ways /\ how \notin Held
  BY DEF Ways, Held
<1>3. p # 0 => Exists(p)
  BY DEF SetByHand, PoolInv, TablesOK, Exists
<1>4. Tables /\ Rest /\ via \in [Manager -> Ways] /\ faults' \in 0..MaxFaults
  BY Types, PoolAssumption DEF PoolInv, Rest, SetByHand, Fault
<1> HIDE DEF how
<1>5. ProxySet(m, p, how)
  BY <1>1, <1>2, <1>4, ProxyWrites
<1>6. TablesOK' /\ LinksAgree'
  BY <1>1, <1>2, <1>3, <1>4, <1>5, ProxyTables DEF PoolInv
<1>7. Tables' /\ Rest'
  BY <1>1, <1>4, <1>5 DEF ProxySet, Rest
<1> QED BY <1>1, <1>2, <1>5, <1>6, <1>7, Beside DEF ProxySet

LEMMA SyncStep ==
  ASSUME PoolInv, NEW l \in Lease, NEW p \in Lease, Sync(l, p)
  PROVE  PoolInv'
<1>1. Tables /\ Rest /\ NoManager \in Key /\ UNCHANGED <<mgr, cmd, back, hist, faults>>
  BY Types DEF PoolInv, Key, Sync
<1>2. Inserted(l, p, NoManager)
  BY <1>1, InsertWrites DEF Sync
<1>3. TablesOK' /\ LinksAgree'
  BY <1>1, <1>2, InsertTables DEF PoolInv
<1>4. lease[l].owner = NoManager
  BY <1>2 DEF PoolInv, TablesOK, Inserted, Exists
<1>5. Tables' /\ Rest' /\ \A k \in Lease : lease'[k].owner = lease[k].owner
  BY <1>1, <1>2, <1>4 DEF Inserted, Rest, hist
<1>6. \A k \in Lease : Exists(k) => lease'[k].proxy = lease[k].proxy
  BY <1>2 DEF Inserted
<1> QED BY <1>1, <1>3, <1>5, <1>6, Beside DEF hist

LEMMA RollbackReadStep ==
  ASSUME PoolInv, NEW new \in Manager, NEW old \in Manager, RollbackRead(new, old)
  PROVE  PoolInv'
<1>1. UNCHANGED <<lease, mgr, cmd, hist>> /\ Tables /\ Rest
  BY Types DEF PoolInv, RollbackRead
<1>2. PICK l : Exists(l) /\ back' = [lease |-> l, to |-> old]
  BY DEF RollbackRead
<1>3. Rest' /\ Tables'
  BY <1>1, <1>2, LinkTypes, PoolAssumption DEF Rest, Tables, RollbackRead, Fault, Exists, Key, hist
<1>4. TablesOK' /\ LinksAgree'
  BY <1>1, <1>2 DEF PoolInv, TablesOK, LinksAgree, Exists, hist
<1> QED BY <1>1, <1>3, <1>4, Beside DEF hist

LEMMA RollbackMoveStep ==
  ASSUME PoolInv, RollbackMove
  PROVE  PoolInv'
<1>1. /\ Exists(back.lease) /\ back.lease \in Lease /\ back.to \in Manager
      /\ UNCHANGED <<cmd, via, faults>> /\ moved' = moved \cup {back.lease} /\ back' = NoMove
  BY DEF RollbackMove, PoolInv, TablesOK, Exists
<1>2. Tables /\ Rest
  BY Types DEF PoolInv
<1>3. Assigned(back.lease, back.to)
  BY <1>1, <1>2, AssignWrites DEF RollbackMove
<1>4. TablesOK' /\ LinksAgree'
  BY <1>1, <1>2, <1>3, AssignTables DEF PoolInv
<1>5. Rest'
  BY <1>1, <1>2, PoolAssumption DEF Rest, NoMove, Link, Key
<1> QED BY <1>1, <1>3, <1>4, <1>5, Beside DEF Assigned, SameUse, SameProxies

LEMMA CrashStep ==
  ASSUME PoolInv, Crash
  PROVE  PoolInv'
<1> DEFINE ms == {cmd.key, cmd.old}
<1>1. Keep(ms) /\ cmd' = Idle /\ back' = NoMove /\ lease' = lease
  BY DEF Crash
<1>2. Tables /\ Rest /\ via \in [Manager -> Ways] /\ faults' \in 0..MaxFaults
  BY Types, PoolAssumption DEF PoolInv, Rest, Crash, Fault
<1>3. Kept(ms)
  BY <1>1, <1>2, KeepWrites
<1>4. TablesOK' /\ LinksAgree'
  BY <1>1, <1>2, <1>3, KeepTables DEF PoolInv
<1>5. TypeOK'
  BY <1>1, <1>2, <1>3, IdleCommand, Types, PoolAssumption DEF Tables, Rest, Kept, NoMove, Link, Key
<1>6. Backed'
  <2>1. \A m \in Manager : Between(m) => m \in ms
    BY DEF Between
  <2>2. \A m \in Manager : via'[m] \in Held => via'[m] = via[m] /\ m \notin ms
    BY <1>3 DEF Kept, Held
  <2> QED BY <1>1, <1>3, <2>1, <2>2, BackedKept DEF PoolInv, Kept
<1>7. SharedIsChosen'
  BY <1>1, <1>3, SharedKept DEF PoolInv, Kept
<1> QED BY <1>1, <1>4, <1>5, <1>6, <1>7, IdleCommand DEF PoolInv

-----------------------------------------------------------------------------
(* Every step keeps the invariant; the properties follow from it.          *)

LEMMA PoolStep ==
  ASSUME PoolInv, [Next]_vars
  PROVE  PoolInv'
<1>1. CASE UNCHANGED vars
  <2>1. UNCHANGED <<lease, mgr, cmd, back, via, moved, hist, faults>>
    BY <1>1 DEF vars, hist
  <2>2. Tables' /\ Rest'
    BY <2>1, Types DEF PoolInv, Tables, Rest
  <2>3. TablesOK' /\ LinksAgree'
    BY <2>1, SameTables DEF PoolInv
  <2> QED BY <2>1, <2>2, <2>3, Beside
<1>2. CASE Next
  BY <1>2, AssignCallStep, BuyCreateStep, AssignCheckStep, AssignDetachStep, AssignScanStep,
     AssignFreeStep, AssignLinkStep, ApplyFieldsStep, BuyLinkStep, UnassignCallStep,
     UnassignDetachStep, DisableStep, RetireCallStep, AddStep, RetireFindStep,
     RetireReleaseStep, DeleteRowStep, SetByHandStep, SyncStep, RollbackReadStep,
     RollbackMoveStep, CrashStep DEF Next
<1> QED BY <1>1, <1>2

\* The relations between the tables, the command and the history that make the
\* properties below hold at every step between storage calls.
THEOREM PoolInvariant == Spec => []PoolInv
BY InitInv, PoolStep, PTL DEF Spec

\* The columns of both tables and the locals of a command keep their types under
\* every interleaving of commands, rollbacks, synchronisations and failures.
THEOREM PoolTypeCorrect == Spec => []TypeOK
<1>1. PoolInv => TypeOK
  BY DEF PoolInv
<1> QED BY <1>1, PoolInvariant, PTL

\* A lease a manager links to is that manager's, unless a rollback moved it: no
\* crash between the storage calls of a command separates the two columns.
THEOREM LinksAlwaysAgree == Spec => []LinksAgree
<1>1. PoolInv => LinksAgree
  BY DEF PoolInv
<1> QED BY <1>1, PoolInvariant, PTL

\* The conflict check of an assignment is enough: from it to the write of the
\* proxy nobody else can come by that proxy, for any number of managers.
THEOREM SharedOnPurpose == Spec => []SharedIsChosen
<1>1. PoolInv => SharedIsChosen
  BY DEF PoolInv
<1> QED BY <1>1, PoolInvariant, PTL

\* An assignment that reaches its last write has left its target no other lease
\* than those it failed to list or to free.
THEOREM OneLeaseOnly == Spec => []OneLeaseAfterAssign
<1>1. PoolInv => OneLeaseAfterAssign
  BY DEF PoolInv
<1> QED BY <1>1, PoolInvariant, PTL

\* Whoever got a proxy with a lease has a lease of that proxy which the gate before
\* a renewal accepts, for any number of managers and leases.
THEOREM UsedAreRenewed == Spec => []UsedIsRenewed
<1>1. ASSUME PoolInv, NEW m \in Manager, via[m] \in Held, m \notin {cmd.key, cmd.old}
      PROVE  \E l \in Lease : lease[l].proxy = mgr[m].use /\ (Managed(l) \/ l \in moved)
  <2>1. ~Between(m) /\ mgr[m].use # 0 /\ mgr[m].row
    BY <1>1 DEF Between, PoolInv, TablesOK
  <2>2. PICK l \in Lease : lease[l].proxy = mgr[m].use /\ Ours(l, m)
    BY <1>1, <2>1 DEF PoolInv, Backed
  <2>3. lease[l].owner = m => Managed(l)
    BY <2>1, <2>2, PoolAssumption DEF Managed
  <2> QED BY <2>2, <2>3 DEF Ours
<1>2. PoolInv => UsedIsRenewed
  BY <1>1 DEF UsedIsRenewed, Held
<1> QED BY <1>2, PoolInvariant, PTL
=============================================================================
