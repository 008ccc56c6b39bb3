----------------------------- MODULE TenantStore -----------------------------
(***************************************************************************)
(* The tenant part of src/src/store.rs: the RwLock cache `tenants`, the    *)
(* table `tenants` behind the pool, the administrative calls on them       *)
(* (create_tenant, update_tenant, set_suspended) and the quota check of    *)
(* the spell-check path (try_consume_quota).                               *)
(*                                                                         *)
(* Grain.  Every critical section under the RwLock is one step and every   *)
(* statement sent to the pool is one step, because other tasks run at      *)
(* every await and between two lock acquisitions.  try_consume_quota is    *)
(* one step: its read, test and increment hold the write lock.  It ends    *)
(* with a tokio::spawn, so its UPDATE is a task of its own that may run    *)
(* at any later time, in any order, fail, or never run.                    *)
(*                                                                         *)
(* A tenant's name, language and billing period are written exactly like   *)
(* quota_limit (by update_tenant only, cache first, then one UPDATE), so   *)
(* `limit` stands for all of them.                                         *)
(***************************************************************************)
EXTENDS Integers

CONSTANTS
  Tenants,   \* tenant identifiers new_id() may return
  Limits,    \* quota_limit values an operator writes (0 is unlimited)
  Resets,    \* request_count values an operator writes
  Calls,     \* administrative requests that may be in flight together
  Tasks,     \* spawned request_count writes that may be outstanding together
  MaxCount,  \* bound: admissions of a billing period
  Faults     \* what may go wrong: "fail", "cancel", "crash"

ASSUME TenantStoreAssumption ==
  /\ Limits \subseteq Nat
  /\ Resets \subseteq Nat
  /\ MaxCount \in Nat
  /\ Faults \subseteq {"fail", "cancel", "crash"}

VARIABLES
  cache,  \* Store.tenants, what every request reads
  db,     \* the table, what a restarted server loads
  call,   \* where each administrative request stands at its await
  task,   \* the spawned UPDATE ... SET request_count statements
  hist    \* history: what an observer of the service knows of each tenant

vars == <<cache, db, call, task, hist>>

(***************************************************************************)
(* A row of the table, or of the cache.  `exists` is FALSE before the      *)
(* tenant is created.                                                      *)
(***************************************************************************)
TenantInfo == [exists: BOOLEAN, limit: Nat, count: Nat, suspended: BOOLEAN]

NoTenant == [exists |-> FALSE, limit |-> 0, count |-> 0, suspended |-> FALSE]

\* Mutant: an absent quota is stored as -1, like the nullable columns are read.
NewTenantUnset(l) == [exists |-> TRUE, limit |-> l - 1, count |-> 0, suspended |-> FALSE]

NewTenant(l) == [exists |-> TRUE, limit |-> l, count |-> 0, suspended |-> FALSE]

(***************************************************************************)
(* An administrative request is idle or waits at one of its awaits.        *)
(*   created    INSERT done, the cache insert is still to come             *)
(*   update     cache changed, the UPDATE with the snapshot is to come     *)
(*   suspend    the UPDATE of suspended_at is to come                      *)
(*   suspended  that UPDATE is done, the cache change is to come           *)
(* `resets` tells that the update assigned request_count.                  *)
(***************************************************************************)
Idle == [op |-> "idle"]

Creating == [op: {"created"}, tenant: Tenants, limit: Nat]

Updating == [op: {"update"}, tenant: Tenants, limit: Nat, count: Nat, resets: BOOLEAN]

Suspending == [op: {"suspend", "suspended"}, tenant: Tenants, value: BOOLEAN]

CallState == {Idle} \union Creating \union Updating \union Suspending

NoTask == [op |-> "none"]

CountWrite == [op: {"write"}, tenant: Tenants, count: Nat]

TaskState == {NoTask} \union CountWrite

(***************************************************************************)
(* What the observer knows of a tenant.                                    *)
(*   billed  requests admitted since request_count was last assigned,      *)
(*           starting at the value assigned                                *)
(*   lost    an assignment of request_count failed or was cut by a crash   *)
(*   raced   request_count was assigned while an earlier write of it was   *)
(*           still on its way to the table                                 *)
(*   torn    the column groups for which, since the last start, two calls  *)
(*           overlapped or one ended between its two halves: "terms" for   *)
(*           update_tenant, "status" for set_suspended                     *)
(***************************************************************************)
History == [billed: Nat, lost: BOOLEAN, raced: BOOLEAN, torn: SUBSET {"terms", "status"}]

\* What a step notes: an assignment of request_count (and whether an earlier
\* write of it is outstanding), one that is lost, a call that tears a group.
Assigned(h, n, outstanding) == [h EXCEPT !.billed = n, !.raced = @ \/ outstanding]

Lost(h, assignment) == [h EXCEPT !.lost = @ \/ assignment]

Torn(h, groups) == [h EXCEPT !.torn = @ \union groups]

NoHistory == [billed |-> 0, lost |-> FALSE, raced |-> FALSE, torn |-> {}]

TypeOK ==
  /\ cache \in [Tenants -> TenantInfo]
  /\ db \in [Tenants -> TenantInfo]
  /\ call \in [Calls -> CallState]
  /\ task \in [Tasks -> TaskState]
  /\ hist \in [Tenants -> History]

Init ==
  /\ cache = [t \in Tenants |-> NoTenant]
  /\ db = [t \in Tenants |-> NoTenant]
  /\ call = [c \in Calls |-> Idle]
  /\ task = [s \in Tasks |-> NoTask]
  /\ hist = [t \in Tenants |-> NoHistory]

Update(t) == {c \in Calls : call[c].op = "update" /\ call[c].tenant = t}

Suspend(t) == {c \in Calls : call[c].op \in {"suspend", "suspended"} /\ call[c].tenant = t}

Create(t) == {c \in Calls : call[c].op = "created" /\ call[c].tenant = t}

Writes(t) == {s \in Tasks : task[s].op = "write" /\ task[s].tenant = t}

-----------------------------------------------------------------------------
(***************************************************************************)
(* create_tenant.  new_id() is fresh, so the tenant is in no row yet.      *)
(* A failed INSERT changes nothing.                                        *)
(***************************************************************************)
CreateInsert(c, t, l) ==
  /\ call[c] = Idle
  /\ ~db[t].exists
  /\ db' = [db EXCEPT ![t] = NewTenant(l)]
  /\ call' = [call EXCEPT ![c] = [op |-> "created", tenant |-> t, limit |-> l]]
  /\ UNCHANGED <<cache, task, hist>>

CreateCache(c) ==
  /\ call[c].op = "created"
  /\ cache' = [cache EXCEPT ![call[c].tenant] = NewTenant(call[c].limit)]
  /\ call' = [call EXCEPT ![c] = Idle]
  /\ UNCHANGED <<db, task, hist>>

(***************************************************************************)
(* update_tenant.  The existence check and the write section are one step: *)
(* no operation removes a tenant.  An absent field keeps its value, so l   *)
(* and n range over the present value too; `resets` tells whether          *)
(* request_count was given.  The cache changes first.                      *)
(***************************************************************************)
UpdateCache(c, t, l, n, resets) ==
  /\ call[c] = Idle
  /\ cache[t].exists
  /\ cache' = [cache EXCEPT ![t] = [@ EXCEPT !.limit = l, !.count = n]]
  /\ call' = [call EXCEPT ![c] = [op |-> "update", tenant |-> t, limit |-> l,
                                  count |-> n, resets |-> resets]]
  /\ hist' = [hist EXCEPT ![t] =
       Torn(IF resets THEN Assigned(@, n, Writes(t) \union Update(t) # {}) ELSE @,
            {g \in {"terms"} : Update(t) # {}})]
  /\ UNCHANGED <<db, task>>

\* Mutant: the UPDATE leaves request_count out of its SET list.
SnapshotWithoutCount(row, u) == [row EXCEPT !.limit = u.limit]

\* The columns of the UPDATE of update_tenant: suspended_at is not one of them.
Snapshot(row, u) == [row EXCEPT !.limit = u.limit, !.count = u.count]

UpdateWrite(c) ==
  /\ call[c].op = "update"
  /\ db' = [db EXCEPT ![call[c].tenant] = Snapshot(@, call[c])]
  /\ call' = [call EXCEPT ![c] = Idle]
  /\ UNCHANGED <<cache, task, hist>>

\* The UPDATE returns an error, or the future is dropped before it ran: the
\* caller sees no success, and the cache keeps what the call put there.
UpdateFails(c) ==
  /\ "fail" \in Faults
  /\ call[c].op = "update"
  /\ call' = [call EXCEPT ![c] = Idle]
  /\ hist' = [hist EXCEPT ![call[c].tenant] = Torn(Lost(@, call[c].resets), {"terms"})]
  /\ UNCHANGED <<cache, db, task>>

-----------------------------------------------------------------------------
(***************************************************************************)
(* set_suspended.  Existence check, then the UPDATE, then the cache.       *)
(***************************************************************************)
SuspendBegin(c, t, value) ==
  /\ call[c] = Idle
  /\ cache[t].exists
  /\ call' = [call EXCEPT ![c] = [op |-> "suspend", tenant |-> t, value |-> value]]
  /\ hist' = [hist EXCEPT ![t] = Torn(@, {g \in {"status"} : Suspend(t) # {}})]
  /\ UNCHANGED <<cache, db, task>>

SuspendWrite(c) ==
  /\ call[c].op = "suspend"
  /\ db' = [db EXCEPT ![call[c].tenant].suspended = call[c].value]
  /\ call' = [call EXCEPT ![c].op = "suspended"]
  /\ UNCHANGED <<cache, task, hist>>

\* Mutant: the row of the cache is not brought up to date.
SuspendForgetsCache(c) ==
  /\ call[c].op = "suspended"
  /\ call' = [call EXCEPT ![c] = Idle]
  /\ UNCHANGED <<cache, db, task, hist>>

SuspendCache(c) ==
  /\ call[c].op = "suspended"
  /\ cache' = [cache EXCEPT ![call[c].tenant].suspended = call[c].value]
  /\ call' = [call EXCEPT ![c] = Idle]
  /\ UNCHANGED <<db, task, hist>>

SuspendFails(c) ==
  /\ "fail" \in Faults
  /\ call[c].op = "suspend"
  /\ call' = [call EXCEPT ![c] = Idle]
  /\ UNCHANGED <<cache, db, task, hist>>

\* The client goes away after the statement ran and before the handler resumed:
\* hyper drops the future, so the second half never happens.
Cancel(c) ==
  /\ "cancel" \in Faults
  /\ call[c].op \in {"created", "suspended"}
  /\ call' = [call EXCEPT ![c] = Idle]
  /\ hist' = [hist EXCEPT ![call[c].tenant] =
                 Torn(@, {g \in {"status"} : call[c].op = "suspended"})]
  /\ UNCHANGED <<cache, db, task>>

-----------------------------------------------------------------------------
(***************************************************************************)
(* try_consume_quota.  FALSE (no tenant, or at the limit) changes nothing. *)
(***************************************************************************)
\* Mutant: the comparison lets one request too many through.
AdmitsOneMore(row) == row.exists /\ (row.limit > 0 => row.count <= row.limit)

Admits(row) == row.exists /\ (row.limit > 0 => row.count < row.limit)

\* Bound: how far a period is explored, and how many writes are outstanding.
Bounded(t) == hist[t].billed < MaxCount /\ cache[t].count < MaxCount

Consume(t, s) ==
  /\ Admits(cache[t])
  /\ Bounded(t)
  /\ task[s] = NoTask
  /\ cache' = [cache EXCEPT ![t].count = @ + 1]
  /\ task' = [task EXCEPT ![s] = [op |-> "write", tenant |-> t, count |-> cache[t].count + 1]]
  /\ hist' = [hist EXCEPT ![t].billed = @ + 1]
  /\ UNCHANGED <<db, call>>

\* The spawned task runs its UPDATE: an absolute value, whenever it gets there.
PersistCount(s) ==
  /\ task[s] # NoTask
  /\ db' = [db EXCEPT ![task[s].tenant].count = task[s].count]
  /\ task' = [task EXCEPT ![s] = NoTask]
  /\ UNCHANGED <<cache, call, hist>>

\* The error is logged and dropped.
PersistFails(s) ==
  /\ "fail" \in Faults
  /\ task[s] # NoTask
  /\ task' = [task EXCEPT ![s] = NoTask]
  /\ UNCHANGED <<cache, db, call, hist>>

-----------------------------------------------------------------------------
(***************************************************************************)
(* The process stops (a crash, or main returning, which drops the spawned  *)
(* tasks with the runtime) and a new one opens the store: reload_caches.   *)
(***************************************************************************)
Restart ==
  /\ "crash" \in Faults
  /\ cache' = db
  /\ call' = [c \in Calls |-> Idle]
  /\ task' = [s \in Tasks |-> NoTask]
  /\ hist' = [t \in Tenants |->
       [Lost(hist[t], \E c \in Update(t) : call[c].resets) EXCEPT !.torn = {}]]
  /\ UNCHANGED db

Next ==
  \/ \E c \in Calls, t \in Tenants, l \in Limits : CreateInsert(c, t, l)
  \/ \E c \in Calls : CreateCache(c)
  \/ \E c \in Calls, t \in Tenants : \E l \in Limits \union {cache[t].limit} :
       \/ UpdateCache(c, t, l, cache[t].count, FALSE)
       \/ \E n \in Resets : UpdateCache(c, t, l, n, TRUE)
  \/ \E c \in Calls : UpdateWrite(c)
  \/ \E c \in Calls : UpdateFails(c)
  \/ \E c \in Calls, t \in Tenants, value \in BOOLEAN : SuspendBegin(c, t, value)
  \/ \E c \in Calls : SuspendWrite(c)
  \/ \E c \in Calls : SuspendCache(c)
  \/ \E c \in Calls : SuspendFails(c)
  \/ \E c \in Calls : Cancel(c)
  \/ \E t \in Tenants, s \in Tasks : Consume(t, s)
  \/ \E s \in Tasks : PersistCount(s)
  \/ \E s \in Tasks : PersistFails(s)
  \/ Restart

Spec == Init /\ [][Next]_vars

-----------------------------------------------------------------------------
(***************************************************************************)
(* What the comment in try_consume_quota promises: persistence that is     *)
(* late, lost or cut by a crash may undercount a tenant's admissions and   *)
(* never overcounts them "into a false 429".  Stated of every tenant whose *)
(* assignments of request_count all reached the table (~lost).             *)
(***************************************************************************)
NeverOvercounts == \A t \in Tenants : ~hist[t].lost => cache[t].count <= hist[t].billed

(***************************************************************************)
(* The same promise, of the tenants for which it is kept: those whose      *)
(* request_count was never assigned while an earlier write of it was still *)
(* outstanding.  It relates the cache to every spawned write and update    *)
(* snapshot that ever was in flight, across restarts.                      *)
(***************************************************************************)
Tainted(t) == hist[t].lost \/ hist[t].raced

NeverOvercountsUnraced == \A t \in Tenants : ~Tainted(t) => cache[t].count <= hist[t].billed

(***************************************************************************)
(* The cache is a mirror of the table in everything but request_count,     *)
(* between calls: a tenant's terms agree when no update_tenant is in       *)
(* flight, its status when no set_suspended is, unless calls of that kind  *)
(* overlapped on the tenant or one was cut between its two halves.         *)
(***************************************************************************)
MirrorUnlessTorn == \A t \in Tenants : cache[t].exists =>
  /\ db[t].exists
  /\ "terms" \in hist[t].torn \/ Update(t) # {} \/ cache[t].limit = db[t].limit
  /\ "status" \in hist[t].torn \/ Suspend(t) # {} \/ cache[t].suspended = db[t].suspended

(***************************************************************************)
(* The store implements the quota ledger.                                  *)
(***************************************************************************)
Ledger == INSTANCE QuotaLedger WITH
  open <- {t \in Tenants : cache[t].exists},
  limit <- [t \in Tenants |-> cache[t].limit],
  count <- [t \in Tenants |-> cache[t].count],
  billed <- [t \in Tenants |-> hist[t].billed],
  tainted <- [t \in Tenants |-> Tainted(t)]

LedgerSpec == Ledger!Spec
=============================================================================
