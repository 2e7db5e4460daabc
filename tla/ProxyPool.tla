----------------------------- MODULE ProxyPool -----------------------------
(***************************************************************************)
(* The pool of rented proxies: which manager owns which lease, which lease *)
(* a manager's row links to, and which proxy a manager really connects     *)
(* through.  These are columns of two tables (the manager_key of a lease,  *)
(* the proxy_lease_id and the proxy fields of a manager), written by       *)
(* storage calls that are a transaction each.                              *)
(*                                                                         *)
(* The panel command loop runs assign, unassign, buy, recover, delete and  *)
(* terminal confirmation, one at a time, a storage call per step.  The     *)
(* rollback of a replacement (the sweep loop), the synchronisation with the*)
(* provider and the proxy settings made by hand come in between.  A crash  *)
(* drops the command and the rollback and keeps the database.              *)
(*                                                                         *)
(* A proxy (host:port) is the number of the lease it was first seen with;  *)
(* 0 is none.  A proxy that is not in the pool is not told from none.      *)
(***************************************************************************)
EXTENDS Naturals

CONSTANTS
  Manager,
  NoManager,   \* the empty manager_key
  MaxLease,    \* bound: rows of proxy_leases
  MaxFaults    \* bound: crashes, swallowed failures, rollbacks, changes by hand

ASSUME PoolAssumption ==
  NoManager \notin Manager /\ MaxLease \in Nat /\ MaxFaults \in Nat

Lease   == 1..MaxLease
Link    == 0..MaxLease
Key     == Manager \cup {NoManager}

VARIABLES
  lease,   \* proxy_leases: the proxy (0: no such row), its owner and whether
           \* the provider's id of it is known
  mgr,     \* managers: the row exists, the lease it links to, the proxy in use
  cmd,     \* the panel command and its locals
  back,    \* the rollback of a replacement: the lease it is about to move
  via,     \* history: how the manager came by the proxy it uses
  moved,   \* history: leases moved by a rollback
  faults

hist == <<via, moved>>
vars == <<lease, mgr, cmd, back, hist, faults>>

Command(kind, at, l, m, old, multi, stale) ==
  [kind |-> kind, at |-> at, lease |-> l, key |-> m, old |-> old, multi |-> multi,
   stale |-> stale, lost |-> {}, seen |-> TRUE]

Idle   == Command("none", "idle", 0, NoManager, NoManager, FALSE, {})
NoMove == [lease |-> 0, to |-> NoManager]

Init ==
  /\ lease = [l \in Lease |-> [proxy |-> 0, owner |-> NoManager, known |-> FALSE]]
  /\ mgr = [m \in Manager |-> [row |-> TRUE, link |-> 0, use |-> 0]]
  /\ cmd = Idle
  /\ back = NoMove
  /\ via = [m \in Manager |-> "none"]
  /\ moved = {}
  /\ faults = 0

Exists(l) == l \in Lease /\ lease[l].proxy # 0
Owned(m)  == {l \in Lease : lease[l].owner = m}
Users(p)  == {m \in Manager : mgr[m].row /\ mgr[m].use = p}
Fault     == faults < MaxFaults /\ faults' = faults + 1
Goto(a)   == cmd' = [cmd EXCEPT !.at = a]

-----------------------------------------------------------------------------
(* The storage calls.                                                      *)

\* proxy_lease_get_for_manager: the linked lease, or the newest one the manager
\* owns; as a set of one element, 0 when there is none.
LeaseOf(m) ==
  IF mgr[m].row /\ Exists(mgr[m].link) THEN {mgr[m].link}
  ELSE IF Owned(m) = {} THEN {0}
  ELSE {l \in Owned(m) : \A k \in Owned(m) : k <= l}

\* proxy_lease_create: the next id; its proxy is the lease's own or one that is
\* in the table already.
Insert(l, p, m, known) ==
  /\ l \in Lease /\ ~Exists(l) /\ \A k \in Lease : k < l => Exists(k)
  /\ p = l \/ (p \in Lease /\ Exists(p))
  /\ lease' = [lease EXCEPT ![l] = [proxy |-> p, owner |-> m, known |-> known]]

\* proxy_lease_assign_to_manager; a key without a row gets no link.
AssignTo(l, m) ==
  /\ lease' = [lease EXCEPT ![l].owner = m]
  /\ mgr' = [mgr EXCEPT ![m].link = IF mgr[m].row THEN l ELSE 0]

\* Mutant: only the owner's row loses its link.
UnassignOwner(l) ==
  /\ lease' = [lease EXCEPT ![l].owner = NoManager]
  /\ mgr' = [m \in Manager |->
               IF m = lease[l].owner THEN [mgr[m] EXCEPT !.link = 0] ELSE mgr[m]]

\* proxy_lease_unassign: the links to the lease go, and so does the link of its
\* owner, whichever lease it leads to.
Unassign(l) ==
  /\ lease' = [lease EXCEPT ![l].owner = NoManager]
  /\ mgr' = [m \in Manager |->
               IF mgr[m].link = l \/ m = lease[l].owner
               THEN [mgr[m] EXCEPT !.link = 0] ELSE mgr[m]]

\* The proxy columns of a manager, and how it came by them.
SetProxy(m, p, how) ==
  /\ mgr' = [mgr EXCEPT ![m].use = p]
  /\ via' = [via EXCEPT ![m] = how]
  /\ UNCHANGED moved

\* The write of these columns failed and the failure was swallowed, or it was never
\* reached: the managers go on with what they had.
Keep(ms) ==
  /\ via' = [m \in Manager |-> IF m \in ms /\ via[m] # "none" THEN "kept" ELSE via[m]]
  /\ UNCHANGED <<mgr, moved>>

\* _prenew_lease_role without the usage map, as the gate before a renewal calls
\* it: the owner exists, has a proxy, and this lease is its current one, by link
\* or by host and port.
Managed(l) ==
  LET o == lease[l].owner IN
  /\ o # NoManager
  /\ mgr[o].row /\ mgr[o].use # 0
  /\ mgr[o].link = l \/ mgr[o].use = lease[l].proxy

-----------------------------------------------------------------------------
(* /proxy_pool_assign <lease> <manager> [multi].                           *)

AssignCall(l, m, multi) ==
  /\ cmd.at = "idle" /\ Exists(l) /\ mgr[m].row
  /\ cmd' = Command("assign", "check", l, m, lease[l].owner, multi,
                    {mgr[m].link} \ {0, l})
  /\ UNCHANGED <<lease, mgr, back, hist, faults>>

AfterCheck ==
  IF cmd.multi \/ cmd.old \in {NoManager, cmd.key} THEN "scan" ELSE "detach"

\* Mutant: a lease nobody owns is taken for a free proxy.
AssignCheckOwned ==
  /\ cmd.kind = "assign" /\ cmd.at = "check"
  /\ IF \/ cmd.multi \/ cmd.old = NoManager
        \/ Users(lease[cmd.lease].proxy) \subseteq {cmd.key, cmd.old}
     THEN Goto(AfterCheck)
     ELSE cmd' = Idle
  /\ UNCHANGED <<lease, mgr, back, hist, faults>>

\* Refused while anyone but the target and the owner uses the proxy, unless the
\* operator asked for sharing.  Managers that cannot be listed are no users.
AssignCheck ==
  /\ cmd.kind = "assign" /\ cmd.at = "check"
  /\ \/ /\ cmd.multi \/ Users(lease[cmd.lease].proxy) \subseteq {cmd.key, cmd.old}
        /\ Goto(AfterCheck) /\ UNCHANGED faults
     \/ /\ ~cmd.multi /\ ~(Users(lease[cmd.lease].proxy) \subseteq {cmd.key, cmd.old})
        /\ cmd' = Idle /\ UNCHANGED faults
     \/ /\ ~cmd.multi /\ Fault
        /\ cmd' = [cmd EXCEPT !.at = AfterCheck, !.seen = FALSE]
  /\ UNCHANGED <<lease, mgr, back, hist>>

\* Reassignment: the former owner is detached, if it still exists.
AssignDetach ==
  /\ cmd.kind = "assign" /\ cmd.at = "detach"
  /\ IF mgr[cmd.old].row
     THEN Unassign(cmd.lease) /\ Goto("disable")
     ELSE Goto("scan") /\ UNCHANGED <<lease, mgr>>
  /\ UNCHANGED <<back, hist, faults>>

\* Mutant: only the linked lease of the target is freed.
AssignScanLinked ==
  /\ cmd.kind = "assign" /\ cmd.at = "scan"
  /\ Goto("free")
  /\ UNCHANGED <<lease, mgr, back, hist, faults>>

\* The other leases of the target: the one it linked to, and all it owns, unless
\* the list of leases cannot be read.
AssignScan ==
  /\ cmd.kind = "assign" /\ cmd.at = "scan"
  /\ LET others == Owned(cmd.key) \ {cmd.lease} IN
     \/ /\ cmd' = [cmd EXCEPT !.at = "free", !.stale = @ \cup others]
        /\ UNCHANGED faults
     \/ Fault /\ cmd' = [cmd EXCEPT !.at = "free", !.lost = others \ cmd.stale]
  /\ UNCHANGED <<lease, mgr, back, hist>>

\* They are freed one by one; a failure is swallowed.
AssignFree ==
  /\ cmd.kind = "assign" /\ cmd.at = "free"
  /\ \E l \in cmd.stale :
       \/ /\ Unassign(l)
          /\ cmd' = [cmd EXCEPT !.stale = @ \ {l}]
          /\ UNCHANGED faults
       \/ /\ Fault
          /\ cmd' = [cmd EXCEPT !.stale = @ \ {l}, !.lost = @ \cup {l}]
          /\ UNCHANGED <<lease, mgr>>
  /\ UNCHANGED <<back, hist>>

\* Mutant: under multi the lease is never linked.
LinksUnlessMulti == ~cmd.multi

\* link_lease: under multi an owner keeps its lease.
Links == ~cmd.multi \/ cmd.old = NoManager

AssignLink ==
  /\ cmd.kind = "assign" /\ cmd.at = "free" /\ cmd.stale = {}
  /\ IF Links THEN AssignTo(cmd.lease, cmd.key) ELSE UNCHANGED <<lease, mgr>>
  /\ Goto("fields")
  /\ UNCHANGED <<back, hist, faults>>

\* How the target comes by its proxy: without a lease, by sharing, by the recovery
\* of a proxy the pool had already, past a check that saw nothing, or with a lease
\* of its own.
How ==
  IF cmd.multi THEN IF cmd.old = NoManager THEN "multi" ELSE "guest"
  ELSE IF cmd.kind = "buy" /\ lease[cmd.lease].proxy # cmd.lease THEN "recovered"
  ELSE IF cmd.seen THEN "lease" ELSE "unchecked"

\* _pbuy_apply_lease_to_manager after the link: the target gets the proxy.
ApplyFields ==
  /\ cmd.kind \in {"assign", "buy"} /\ cmd.at = "fields"
  /\ \/ SetProxy(cmd.key, lease[cmd.lease].proxy, How) /\ UNCHANGED faults
     \/ Fault /\ Keep({cmd.key})
  /\ cmd' = Idle
  /\ UNCHANGED <<lease, back>>

-----------------------------------------------------------------------------
(* /manager_proxy_buy_confirm and /manager_proxy_buy_recover.              *)

\* A purchased order becomes a lease of the buyer.  Recovery takes any order, at
\* any time: a proxy that is in the pool already gets a second lease.
BuyCreate(l, m, known) ==
  /\ cmd.at = "idle" /\ mgr[m].row
  /\ \E p \in Lease : Insert(l, p, m, known)
  /\ cmd' = Command("buy", "link", l, m, NoManager, FALSE, {})
  /\ UNCHANGED <<mgr, back, hist, faults>>

BuyLink ==
  /\ cmd.kind = "buy" /\ cmd.at = "link"
  /\ AssignTo(cmd.lease, cmd.key)
  /\ Goto("fields")
  /\ UNCHANGED <<back, hist, faults>>

-----------------------------------------------------------------------------
(* /proxy_pool_unassign, delete and terminal confirmation.                 *)

UnassignCall(l) ==
  /\ cmd.at = "idle" /\ Exists(l)
  /\ cmd' = Command("unassign", "detach", l, NoManager, lease[l].owner, FALSE, {})
  /\ UNCHANGED <<lease, mgr, back, hist, faults>>

UnassignDetach ==
  /\ cmd.kind = "unassign" /\ cmd.at = "detach"
  /\ Unassign(cmd.lease)
  /\ IF cmd.old = NoManager THEN cmd' = Idle ELSE Goto("disable")
  /\ UNCHANGED <<back, hist, faults>>

\* _ppool_disable_manager_proxy_fields for the former owner, if its row exists;
\* a failure is swallowed and leaves the proxy on.
Disable ==
  /\ cmd.at = "disable"
  /\ \/ mgr[cmd.old].row /\ SetProxy(cmd.old, 0, "none") /\ UNCHANGED faults
     \/ ~mgr[cmd.old].row /\ UNCHANGED <<mgr, hist, faults>>
     \/ mgr[cmd.old].row /\ Fault /\ Keep({cmd.old})
  /\ IF cmd.kind = "assign" THEN Goto("scan") ELSE cmd' = Idle
  /\ UNCHANGED <<lease, back>>

\* The deletion and the terminal confirmation of a manager look its lease up; the
\* confirmation has switched the proxy off before, if that did not fail.
RetireCall(m) ==
  /\ cmd.at = "idle" /\ mgr[m].row
  /\ \/ /\ cmd' = Command("delete", "find", 0, m, NoManager, FALSE, {})
        /\ UNCHANGED <<mgr, hist, faults>>
     \/ /\ cmd' = Command("terminal", "find", 0, m, NoManager, FALSE, {})
        /\ \/ SetProxy(m, 0, "none") /\ UNCHANGED faults
           \/ Fault /\ Keep({m})
  /\ UNCHANGED <<lease, back>>

RetireFind ==
  /\ cmd.at = "find"
  /\ \E l \in LeaseOf(cmd.key) : cmd' = [cmd EXCEPT !.at = "release", !.lease = l]
  /\ UNCHANGED <<lease, mgr, back, hist, faults>>

\* Its lease is unassigned, if it has one; the deletion swallows a failure.
RetireRelease ==
  /\ cmd.at = "release"
  /\ \/ Exists(cmd.lease) /\ Unassign(cmd.lease) /\ UNCHANGED faults
     \/ ~Exists(cmd.lease) /\ UNCHANGED <<lease, mgr, faults>>
     \/ cmd.kind = "delete" /\ Fault /\ UNCHANGED <<lease, mgr>>
  /\ IF cmd.kind = "delete" THEN Goto("delete") ELSE cmd' = Idle
  /\ UNCHANGED <<back, hist>>

DeleteRow ==
  /\ cmd.at = "delete"
  /\ mgr' = [mgr EXCEPT ![cmd.key] = [row |-> FALSE, link |-> 0, use |-> 0]]
  /\ via' = [via EXCEPT ![cmd.key] = "none"]
  /\ cmd' = Idle
  /\ UNCHANGED <<lease, back, moved, faults>>

-----------------------------------------------------------------------------
(* What else writes these tables.                                          *)

\* manager_add; the key may be that of a deleted manager.
Add(m) ==
  /\ ~mgr[m].row
  /\ mgr' = [mgr EXCEPT ![m] = [row |-> TRUE, link |-> 0, use |-> 0]]
  /\ UNCHANGED <<lease, cmd, back, hist, faults>>

\* The proxy commands of a manager: any proxy of the pool, or none.
SetByHand(m, p) ==
  /\ mgr[m].row /\ (p = 0 \/ \E l \in Lease : Exists(l) /\ lease[l].proxy = p)
  /\ Fault
  /\ SetProxy(m, p, IF p = 0 THEN "none" ELSE "guest")
  /\ UNCHANGED <<lease, cmd, back>>

\* proxy_lease_upsert_from_provider: a listed proxy whose provider id is not in
\* the table gets a lease of its own, free; the others keep their owner.
Sync(l, p) ==
  /\ \A k \in Lease : ~(lease[k].proxy = p /\ lease[k].known)
  /\ Insert(l, p, NoManager, TRUE)
  /\ UNCHANGED <<mgr, cmd, back, hist, faults>>

\* Step 3 of a replacement's rollback: the lease of the new manager is looked up,
\* and, when the new manager owns it, assigned to the old one, in two calls.
RollbackRead(new, old) ==
  /\ back = NoMove /\ new # old
  /\ Fault
  /\ \E l \in LeaseOf(new) :
       /\ Exists(l) /\ lease[l].owner = new
       /\ back' = [lease |-> l, to |-> old]
  /\ UNCHANGED <<lease, mgr, cmd, hist>>

RollbackMove ==
  /\ back # NoMove
  /\ AssignTo(back.lease, back.to)
  /\ moved' = moved \cup {back.lease}
  /\ back' = NoMove
  /\ UNCHANGED <<cmd, via, faults>>

\* A crash, or an exception that ends the command: the managers it worked on keep
\* what they had.
Crash ==
  /\ Fault /\ Keep({cmd.key, cmd.old})
  /\ cmd' = Idle /\ back' = NoMove
  /\ UNCHANGED lease

-----------------------------------------------------------------------------
Next ==
  \/ \E l \in Lease, m \in Manager, b \in BOOLEAN :
       AssignCall(l, m, b) \/ BuyCreate(l, m, b)
  \/ AssignCheck \/ AssignDetach \/ AssignScan \/ AssignFree \/ AssignLink
  \/ ApplyFields \/ BuyLink
  \/ \E l \in Lease : UnassignCall(l)
  \/ UnassignDetach \/ Disable
  \/ \E m \in Manager : RetireCall(m) \/ Add(m)
  \/ RetireFind \/ RetireRelease \/ DeleteRow
  \/ \E m \in Manager, p \in Link : SetByHand(m, p)
  \/ \E l, p \in Lease : Sync(l, p)
  \/ \E new, old \in Manager : RollbackRead(new, old)
  \/ RollbackMove \/ Crash

Spec == Init /\ [][Next]_vars

-----------------------------------------------------------------------------
(* Properties.                                                             *)

Ways  == {"none", "lease", "multi", "recovered", "unchecked", "guest", "kept"}
Point == {"idle", "check", "detach", "disable", "scan", "free", "link", "fields",
          "find", "release", "delete"}

\* Types of the two tables and of the command's locals.
TypeOK ==
  /\ lease \in [Lease -> [proxy : Link, owner : Key, known : BOOLEAN]]
  /\ mgr \in [Manager -> [row : BOOLEAN, link : Link, use : Link]]
  /\ cmd \in [kind : {"none", "assign", "buy", "unassign", "delete", "terminal"},
              at : Point, lease : Link, key : Key, old : Key, multi : BOOLEAN,
              stale : SUBSET Lease, lost : SUBSET Lease, seen : BOOLEAN]
  /\ back \in [lease : Link, to : Key]
  /\ via \in [Manager -> Ways]
  /\ moved \subseteq Lease
  /\ faults \in 0..MaxFaults

\* The two columns of an assignment agree: a lease a manager links to has an owner,
\* and it is that manager.  Only a rollback, which assigns the lease of the new
\* manager to the old one without unlinking it from the new one, leaves two links
\* (proxy_lease_assign_to_manager, proxy_lease_unassign).
LinksAgree ==
  \A m \in Manager : mgr[m].link # 0 =>
    LET l == mgr[m].link IN
    /\ lease[l].owner # NoManager
    /\ lease[l].owner = m \/ l \in moved

\* Two managers connect through one proxy only if the operator asked for it, set
\* it by hand or recovered an order whose proxy the pool had already, or if a
\* write or the list of managers was lost to a failure: whatever the order of
\* assignments, interruptions and purchases (the conflict check of
\* /proxy_pool_assign).
SharedIsChosen ==
  \A m, n \in Manager :
    m # n /\ mgr[m].use # 0 /\ mgr[m].use = mgr[n].use
      => via[m] # "lease" \/ via[n] # "lease"

\* When a manager is about to get its new proxy it owns no lease but that one,
\* those whose listing or release failed and those a rollback moved: "a manager never ends
\* up assigned to more than one lease at once" (proxy_ops.py, P3.1).
OneLeaseAfterAssign ==
  cmd.kind = "assign" /\ cmd.at = "fields"
    => Owned(cmd.key) \subseteq {cmd.lease} \cup cmd.lost \cup moved

\* A proxy that a manager got with its lease is one the gate before a renewal
\* accepts, so it does not expire under the manager unnoticed, except while a
\* command works on the manager or when a rollback moved the lease
\* (_prenew_lease_role, link_lease).
UsedIsRenewed ==
  \A m \in Manager :
    via[m] \in {"lease", "multi", "recovered", "unchecked"} /\ m \notin {cmd.key, cmd.old}
      => \E l \in Lease : lease[l].proxy = mgr[m].use /\ (Managed(l) \/ l \in moved)
=============================================================================
