-------------------------- MODULE TenantStoreProofs --------------------------
(***************************************************************************)
(* Theorems about TenantStore, for every set of tenants, requests and      *)
(* spawned writes and every choice of faults.                              *)
(*                                                                         *)
(* Neither invariant the runs check is inductive.  NeverOvercountsUnraced  *)
(* needs CountInv, which bounds by the admissions every number that can    *)
(* still reach the cache: the spawned writes, the snapshots in flight and, *)
(* outside a reset, the table.  MirrorUnlessTorn needs TermsInv and        *)
(* StatusInv, which say what the one call in flight will write, and        *)
(* BirthInv, which keeps every call off a tenant not yet in the cache.     *)
(***************************************************************************)
EXTENDS TenantStore, TLAPS

Covered(t) ==
  /\ cache[t].count <= hist[t].billed
  /\ \A s \in Writes(t) : task[s].count <= hist[t].billed
  /\ \A c \in Update(t) : call[c].count <= hist[t].billed
  /\ db[t].count <= hist[t].billed \/ \E c \in Update(t) : call[c].resets

CountInv == \A t \in Tenants : ~Tainted(t) => Covered(t)

BirthInv == \A t \in Tenants :
  /\ cache[t].exists => db[t].exists
  /\ ~cache[t].exists => Update(t) = {} /\ Suspend(t) = {} /\ Writes(t) = {}
  /\ \A c \in Create(t) : /\ ~cache[t].exists
                          /\ db[t] = NewTenant(call[c].limit)
                          /\ Create(t) = {c}

TermsInv == \A t \in Tenants : cache[t].exists /\ "terms" \notin hist[t].torn =>
  \/ Update(t) = {} /\ cache[t].limit = db[t].limit
  \/ \E c \in Calls : Update(t) = {c} /\ cache[t].limit = call[c].limit

StatusInv == \A t \in Tenants : cache[t].exists /\ "status" \notin hist[t].torn =>
  \/ Suspend(t) = {} /\ cache[t].suspended = db[t].suspended
  \/ \E c \in Calls :
       /\ Suspend(t) = {c}
       /\ IF call[c].op = "suspend" THEN cache[t].suspended = db[t].suspended
                                    ELSE db[t].suspended = call[c].value

-----------------------------------------------------------------------------
(* What a request waits for tells the fields it carries.                   *)
LEMMA CallShapes ==
  ASSUME TypeOK, NEW c \in Calls
  PROVE  /\ call[c].op = "created" => call[c] \in Creating
         /\ call[c].op = "update" => call[c] \in Updating
         /\ call[c].op \in {"suspend", "suspended"} => call[c] \in Suspending
  <1>1. call[c] \in CallState
    BY DEF TypeOK
  <1>2. Idle.op = "idle"
    BY DEF Idle
  <1>3. \A x \in Creating : x.op = "created"
    BY DEF Creating
  <1>4. \A x \in Updating : x.op = "update"
    BY DEF Updating
  <1>5. \A x \in Suspending : x.op \in {"suspend", "suspended"}
    BY DEF Suspending
  <1> QED
    BY <1>1, <1>2, <1>3, <1>4, <1>5 DEF CallState

(* A spawned write carries a tenant and a count.                           *)
LEMMA TaskShape ==
  ASSUME TypeOK, NEW s \in Tasks, task[s] # NoTask
  PROVE  task[s].tenant \in Tenants /\ task[s].count \in Nat
  BY DEF TypeOK, TaskState, CountWrite

(* The rows an UPDATE or a cache section writes are rows.                  *)
LEMMA RowShape ==
  ASSUME NEW row \in TenantInfo, NEW l \in Nat, NEW n \in Nat, NEW b \in BOOLEAN
  PROVE  /\ [row EXCEPT !.limit = l, !.count = n] \in TenantInfo
         /\ [row EXCEPT !.suspended = b] \in TenantInfo
         /\ [row EXCEPT !.count = n] \in TenantInfo
         /\ NewTenant(l) \in TenantInfo
         /\ NoTenant \in TenantInfo
  BY DEF TenantInfo, NewTenant, NoTenant

(* The history of a tenant stays one, whatever is noted in it.             *)
LEMMA HistoryShape ==
  /\ NoHistory \in History
  /\ \A h \in History, n \in Nat, b \in BOOLEAN : Assigned(h, n, b) \in History
  /\ \A h \in History, b \in BOOLEAN : Lost(h, b) \in History
  /\ \A h \in History, groups \in SUBSET {"terms", "status"} :
       Torn(h, groups) \in History /\ [h EXCEPT !.torn = {}] \in History
  <1>1. NoHistory \in History
    BY DEF History, NoHistory
  <1>2. ASSUME NEW h \in History, NEW n \in Nat, NEW b \in BOOLEAN
        PROVE  Assigned(h, n, b) \in History
    BY DEF History, Assigned
  <1>3. ASSUME NEW h \in History, NEW b \in BOOLEAN PROVE Lost(h, b) \in History
    BY DEF History, Lost
  <1>4. ASSUME NEW h \in History, NEW groups \in SUBSET {"terms", "status"}
        PROVE  Torn(h, groups) \in History /\ [h EXCEPT !.torn = {}] \in History
    BY DEF History, Torn
  <1> QED
    BY <1>1, <1>2, <1>3, <1>4

(* What is noted where.                                                    *)
LEMMA HistoryFields ==
  ASSUME NEW h \in History, NEW n \in Nat, NEW b \in BOOLEAN, NEW groups
  PROVE  /\ Assigned(h, n, b).billed = n
         /\ Assigned(h, n, b).lost = h.lost
         /\ Assigned(h, n, b).raced = (h.raced \/ b)
         /\ Assigned(h, n, b).torn = h.torn
         /\ Lost(h, b).billed = h.billed
         /\ Lost(h, b).lost = (h.lost \/ b)
         /\ Lost(h, b).raced = h.raced
         /\ Lost(h, b).torn = h.torn
         /\ Torn(h, groups).billed = h.billed
         /\ Torn(h, groups).lost = h.lost
         /\ Torn(h, groups).raced = h.raced
         /\ Torn(h, groups).torn = h.torn \union groups
  BY DEF History, Assigned, Lost, Torn

(* Every variable of the store keeps its type: the cache, the table, the   *)
(* requests and the spawned writes of store.rs hold only what the code     *)
(* puts there.                                                             *)
THEOREM TypeCorrect == Spec => []TypeOK
<1>1. Init => TypeOK
  <2>1. NoTenant \in TenantInfo /\ NoHistory \in History
    BY DEF TenantInfo, NoTenant, History, NoHistory
  <2> QED
    BY <2>1 DEF Init, TypeOK, CallState, TaskState
<1>2. TypeOK /\ [Next]_vars => TypeOK'
  <2> SUFFICES ASSUME TypeOK, [Next]_vars PROVE TypeOK'
    OBVIOUS
  <2> USE TenantStoreAssumption
  <2>0. /\ Idle \in CallState
        /\ NoTask \in TaskState
        /\ \A t \in Tenants : /\ cache[t].limit \in Nat /\ cache[t].count \in Nat
                              /\ hist[t].billed \in Nat
                              /\ hist[t].lost \in BOOLEAN /\ hist[t].raced \in BOOLEAN
                              /\ hist[t].torn \in SUBSET {"terms", "status"}
    BY DEF TypeOK, CallState, TaskState, TenantInfo, History
  <2>1. ASSUME NEW c \in Calls, NEW t \in Tenants, NEW l \in Limits, CreateInsert(c, t, l)
        PROVE  TypeOK'
    <3>1. [op |-> "created", tenant |-> t, limit |-> l] \in CallState
      BY DEF CallState, Creating
    <3> QED
      BY <2>1, <3>1, RowShape DEF CreateInsert, TypeOK
  <2>2. ASSUME NEW c \in Calls, CreateCache(c) PROVE TypeOK'
    <3>1. call[c].limit \in Nat
      BY <2>2, CallShapes DEF CreateCache, Creating
    <3>2. NewTenant(call[c].limit) \in TenantInfo
      BY <3>1 DEF NewTenant, TenantInfo
    <3> QED
      BY <2>0, <2>2, <3>2 DEF CreateCache, TypeOK
  <2>3. ASSUME NEW c \in Calls, NEW t \in Tenants, NEW l \in Nat, NEW n \in Nat,
               NEW resets \in BOOLEAN, UpdateCache(c, t, l, n, resets)
        PROVE  TypeOK'
    <3>1. [op |-> "update", tenant |-> t, limit |-> l, count |-> n, resets |-> resets] \in CallState
      BY DEF CallState, Updating
    <3>2. [cache[t] EXCEPT !.limit = l, !.count = n] \in TenantInfo
      BY DEF TypeOK, TenantInfo
    <3> DEFINE torn == {g \in {"terms"} : Update(t) # {}}
               b == (Writes(t) \union Update(t) # {})
    <3>3. b \in BOOLEAN /\ torn \in SUBSET {"terms", "status"}
      OBVIOUS
    <3> DEFINE h == Torn(IF resets THEN Assigned(hist[t], n, b) ELSE hist[t], torn)
    <3>4. hist' = [hist EXCEPT ![t] = h]
      BY <2>3 DEF UpdateCache
    <3> HIDE DEF b, torn
    <3>5. h \in History
      BY <3>3, HistoryShape DEF TypeOK
    <3> HIDE DEF h
    <3> QED
      BY <2>3, <3>1, <3>2, <3>4, <3>5 DEF UpdateCache, TypeOK
  <2>4. ASSUME NEW c \in Calls, UpdateWrite(c) PROVE TypeOK'
    <3>1. call[c].tenant \in Tenants /\ call[c].limit \in Nat /\ call[c].count \in Nat
      BY <2>4, CallShapes DEF UpdateWrite, Updating
    <3>2. Snapshot(db[call[c].tenant], call[c]) \in TenantInfo
      BY <3>1 DEF Snapshot, TypeOK, TenantInfo
    <3> QED
      BY <2>0, <2>4, <3>1, <3>2 DEF UpdateWrite, TypeOK
  <2>5. ASSUME NEW c \in Calls, UpdateFails(c) PROVE TypeOK'
    <3>1. call[c].tenant \in Tenants /\ call[c].resets \in BOOLEAN
      BY <2>5, CallShapes DEF UpdateFails, Updating
    <3>2. Torn(Lost(hist[call[c].tenant], call[c].resets), {"terms"}) \in History
      BY <3>1, HistoryShape DEF TypeOK
    <3> QED
      BY <2>0, <2>5, <3>2 DEF UpdateFails, TypeOK
  <2>6. ASSUME NEW c \in Calls, NEW t \in Tenants, NEW value \in BOOLEAN, SuspendBegin(c, t, value)
        PROVE  TypeOK'
    <3>1. [op |-> "suspend", tenant |-> t, value |-> value] \in CallState
      BY DEF CallState, Suspending
    <3>2. Torn(hist[t], {g \in {"status"} : Suspend(t) # {}}) \in History
      BY HistoryShape DEF TypeOK
    <3> QED
      BY <2>6, <3>1, <3>2 DEF SuspendBegin, TypeOK
  <2>7. ASSUME NEW c \in Calls, SuspendWrite(c) PROVE TypeOK'
    <3>1. call[c] \in Suspending
      BY <2>7, CallShapes DEF SuspendWrite
    <3>2. [call[c] EXCEPT !.op = "suspended"] \in CallState
      BY <3>1 DEF Suspending, CallState
    <3>3. db' \in [Tenants -> TenantInfo]
      BY <2>7, <3>1 DEF SuspendWrite, TypeOK, TenantInfo, Suspending
    <3> QED
      BY <2>7, <3>2, <3>3 DEF SuspendWrite, TypeOK
  <2>8. ASSUME NEW c \in Calls, SuspendCache(c) PROVE TypeOK'
    <3>1. call[c] \in Suspending
      BY <2>8, CallShapes DEF SuspendCache
    <3>2. cache' \in [Tenants -> TenantInfo]
      BY <2>8, <3>1 DEF SuspendCache, TypeOK, TenantInfo, Suspending
    <3> QED
      BY <2>0, <2>8, <3>2 DEF SuspendCache, TypeOK
  <2>9. ASSUME NEW c \in Calls, SuspendFails(c) PROVE TypeOK'
    BY <2>0, <2>9 DEF SuspendFails, TypeOK
  <2>10. ASSUME NEW c \in Calls, Cancel(c) PROVE TypeOK'
    <3>1. call[c].tenant \in Tenants
      BY <2>10, CallShapes DEF Cancel, Creating, Suspending
    <3>2. Torn(hist[call[c].tenant], {g \in {"status"} : call[c].op = "suspended"}) \in History
      BY <3>1, HistoryShape DEF TypeOK
    <3> QED
      BY <2>0, <2>10, <3>2 DEF Cancel, TypeOK
  <2>11. ASSUME NEW t \in Tenants, NEW s \in Tasks, Consume(t, s) PROVE TypeOK'
    <3>1. [op |-> "write", tenant |-> t, count |-> cache[t].count + 1] \in TaskState
      BY <2>0 DEF TaskState, CountWrite
    <3>2. cache' \in [Tenants -> TenantInfo]
      BY <2>0, <2>11 DEF Consume, TypeOK, TenantInfo
    <3>3. [hist[t] EXCEPT !.billed = hist[t].billed + 1] \in History
      BY <2>0 DEF TypeOK, History
    <3> QED
      BY <2>11, <3>1, <3>2, <3>3 DEF Consume, TypeOK
  <2>12. ASSUME NEW s \in Tasks, PersistCount(s) PROVE TypeOK'
    <3>1. task[s].tenant \in Tenants /\ task[s].count \in Nat
      BY <2>12, TaskShape DEF PersistCount
    <3>2. db' \in [Tenants -> TenantInfo]
      BY <2>12, <3>1 DEF PersistCount, TypeOK, TenantInfo
    <3> QED
      BY <2>0, <2>12, <3>2 DEF PersistCount, TypeOK
  <2>13. ASSUME NEW s \in Tasks, PersistFails(s) PROVE TypeOK'
    BY <2>0, <2>13 DEF PersistFails, TypeOK
  <2>14. CASE Restart
    <3> DEFINE lost(t) == \E c \in Update(t) : call[c].resets
    <3>1. ASSUME NEW t \in Tenants
          PROVE  [Lost(hist[t], lost(t)) EXCEPT !.torn = {}] \in History
      <4>1. lost(t) \in BOOLEAN
        OBVIOUS
      <4> HIDE DEF lost
      <4> QED
        BY <4>1, HistoryShape DEF TypeOK
    <3>2. hist' \in [Tenants -> History]
      BY <2>14, <3>1 DEF Restart
    <3> QED
      BY <2>0, <2>14, <3>2 DEF Restart, TypeOK
  <2>15. CASE UNCHANGED vars
    BY <2>15 DEF vars, TypeOK
  <2> QED
    BY <2>0, <2>1, <2>2, <2>3, <2>4, <2>5, <2>6, <2>7, <2>8, <2>9, <2>10, <2>11, <2>12, <2>13,
       <2>14, <2>15
    DEF Next
<1> QED
  BY <1>1, <1>2, PTL DEF Spec

-----------------------------------------------------------------------------
(* A step of the store keeps CountInv.                                     *)
LEMMA CountStep == TypeOK /\ CountInv /\ [Next]_vars => CountInv'
  <1> SUFFICES ASSUME TypeOK, CountInv, [Next]_vars, NEW t \in Tenants, ~Tainted(t)'
               PROVE  Covered(t)'
    BY DEF CountInv
  <1> USE TenantStoreAssumption
  <1>0. /\ cache[t].count \in Nat /\ db[t].count \in Nat /\ hist[t].billed \in Nat
        /\ \A u \in Tenants : cache[u].limit \in Nat /\ cache[u].count \in Nat
    BY DEF TypeOK, TenantInfo, History
  <1>1. ASSUME NEW c \in Calls, NEW u \in Tenants, NEW l \in Limits, CreateInsert(c, u, l)
        PROVE  Covered(t)'
    BY <1>0, <1>1 DEF CreateInsert, CountInv, Covered, Tainted, Update, Writes, Idle, NewTenant, TypeOK
  <1>2. ASSUME NEW c \in Calls, CreateCache(c) PROVE Covered(t)'
    BY <1>0, <1>2 DEF CreateCache, CountInv, Covered, Tainted, Update, Writes, Idle, NewTenant, TypeOK
  <1>3. ASSUME NEW c \in Calls, NEW u \in Tenants, NEW l \in Nat, UpdateCache(c, u, l, cache[u].count, FALSE)
        PROVE  Covered(t)'
    BY <1>0, <1>3 DEF UpdateCache, CountInv, Covered, Tainted, Update, Writes, Idle, TypeOK, Torn
  <1>4. ASSUME NEW c \in Calls, NEW u \in Tenants, NEW l \in Nat, NEW n \in Nat, UpdateCache(c, u, l, n, TRUE)
        PROVE  Covered(t)'
    <2>1. CASE u # t
      BY <1>0, <1>4, <2>1 DEF UpdateCache, CountInv, Covered, Tainted, Update, Writes, Idle, TypeOK
    <2>2. CASE u = t
      <3> DEFINE b == (Writes(t) \union Update(t) # {})
                 groups == {g \in {"terms"} : Update(t) # {}}
      <3>1. hist'[t] = Torn(Assigned(hist[t], n, b), groups)
        BY <1>4, <2>2 DEF UpdateCache, TypeOK
      <3>2. hist[t] \in History /\ Assigned(hist[t], n, b) \in History /\ b \in BOOLEAN
        BY HistoryShape DEF TypeOK
      <3>3. /\ hist'[t].billed = n
            /\ hist'[t].raced = (hist[t].raced \/ b)
        <4> HIDE DEF b, groups
        <4> QED
          BY <3>1, <3>2, HistoryFields
      <3>4. Writes(t) = {} /\ Update(t) = {}
        BY <3>3 DEF Tainted
      <3>5. Writes(t)' = {} /\ Update(t)' = {c} /\ call'[c].count = n /\ call'[c].resets
        BY <1>4, <2>2, <3>4 DEF UpdateCache, Update, Writes, TypeOK
      <3>6. cache'[t].count = n
        BY <1>4, <2>2 DEF UpdateCache, TypeOK, TenantInfo
      <3> QED
        BY <3>3, <3>5, <3>6 DEF Covered
    <2> QED
      BY <2>1, <2>2
  <1>5. ASSUME NEW c \in Calls, UpdateWrite(c) PROVE Covered(t)'
    BY <1>0, <1>5 DEF UpdateWrite, Snapshot, CountInv, Covered, Tainted, Update, Writes, Idle, TypeOK
  <1>6. ASSUME NEW c \in Calls, UpdateFails(c) PROVE Covered(t)'
    <2>1. call[c].tenant \in Tenants /\ call[c].resets \in BOOLEAN
      BY <1>6, CallShapes DEF UpdateFails, Updating
    <2>2. CASE call[c].tenant # t
      BY <1>0, <1>6, <2>1, <2>2
      DEF UpdateFails, CountInv, Covered, Tainted, Update, Writes, Idle, TypeOK
    <2>3. CASE call[c].tenant = t
      <3>1. hist'[t] = Torn(Lost(hist[t], call[c].resets), {"terms"})
        BY <1>6, <2>3 DEF UpdateFails, TypeOK
      <3>2. hist[t] \in History /\ Lost(hist[t], call[c].resets) \in History
        BY <2>1, HistoryShape DEF TypeOK
      <3>3. /\ hist'[t].billed = hist[t].billed
            /\ hist'[t].lost = (hist[t].lost \/ call[c].resets)
            /\ hist'[t].raced = hist[t].raced
        BY <1>0, <2>1, <3>1, <3>2, HistoryFields
      <3>4. ~Tainted(t) /\ ~call[c].resets
        BY <3>3 DEF Tainted
      <3>5. Update(t)' = Update(t) \ {c} /\ Writes(t)' = Writes(t)
        BY <1>6 DEF UpdateFails, Update, Writes, Idle, TypeOK
      <3> QED
        BY <1>6, <3>3, <3>4, <3>5 DEF UpdateFails, CountInv, Covered, Update, TypeOK
    <2> QED
      BY <2>2, <2>3
  <1>7. ASSUME NEW c \in Calls, NEW u \in Tenants, NEW value \in BOOLEAN, SuspendBegin(c, u, value)
        PROVE  Covered(t)'
    BY <1>0, <1>7 DEF SuspendBegin, CountInv, Covered, Tainted, Update, Writes, Idle, TypeOK, Torn
  <1>8. ASSUME NEW c \in Calls, SuspendWrite(c) PROVE Covered(t)'
    BY <1>0, <1>8 DEF SuspendWrite, CountInv, Covered, Tainted, Update, Writes, TypeOK
  <1>9. ASSUME NEW c \in Calls, SuspendCache(c) PROVE Covered(t)'
    BY <1>0, <1>9 DEF SuspendCache, CountInv, Covered, Tainted, Update, Writes, Idle, TypeOK
  <1>10. ASSUME NEW c \in Calls, SuspendFails(c) PROVE Covered(t)'
    BY <1>0, <1>10 DEF SuspendFails, CountInv, Covered, Tainted, Update, Writes, Idle, TypeOK
  <1>11. ASSUME NEW c \in Calls, Cancel(c) PROVE Covered(t)'
    BY <1>0, <1>11 DEF Cancel, CountInv, Covered, Tainted, Update, Writes, Idle, TypeOK, Torn
  <1>12. ASSUME NEW u \in Tenants, NEW s \in Tasks, Consume(u, s) PROVE Covered(t)'
    <2>1. CASE u # t
      BY <1>0, <1>12, <2>1 DEF Consume, CountInv, Covered, Tainted, Update, Writes, NoTask, TypeOK
    <2>2. CASE u = t
      <3>1. /\ hist'[t].billed = hist[t].billed + 1
            /\ hist'[t].lost = hist[t].lost
            /\ hist'[t].raced = hist[t].raced
            /\ cache'[t].count = cache[t].count + 1
            /\ db'[t] = db[t]
        BY <1>12, <2>2 DEF Consume, TypeOK, History, TenantInfo
      <3>2. Update(t)' = Update(t) /\ call' = call
        BY <1>12 DEF Consume, Update
      <3>3. Writes(t)' = Writes(t) \union {s} /\ task'[s].count = cache[t].count + 1
        BY <1>12, <2>2 DEF Consume, Writes, NoTask, TypeOK
      <3>4. \A r \in Writes(t) \ {s} : task'[r] = task[r] /\ task[r].count \in Nat
        BY <1>12, TaskShape DEF Consume, Writes, NoTask, TypeOK
      <3>5. \A c \in Update(t) : call[c].count \in Nat
        BY CallShapes DEF Update, Updating
      <3>6. ~Tainted(t) /\ Covered(t)
        BY <3>1 DEF Tainted, CountInv
      <3> QED
        BY <1>0, <3>1, <3>2, <3>3, <3>4, <3>5, <3>6 DEF Covered
    <2> QED
      BY <2>1, <2>2
  <1>13. ASSUME NEW s \in Tasks, PersistCount(s) PROVE Covered(t)'
    <2>1. task[s].tenant \in Tenants /\ task[s].count \in Nat
      BY <1>13, TaskShape DEF PersistCount
    <2>2. task[s].op = "write"
      BY <1>13 DEF PersistCount, TypeOK, TaskState, CountWrite
    <2>3. ~Tainted(t) /\ Covered(t)
      BY <1>13 DEF PersistCount, Tainted, CountInv
    <2>4. db'[t].count <= hist[t].billed \/ db'[t].count = db[t].count
      <3>1. CASE task[s].tenant = t
        <4>1. s \in Writes(t)
          BY <2>2, <3>1 DEF Writes
        <4>2. db'[t].count = task[s].count
          BY <1>13, <3>1 DEF PersistCount, TypeOK, TenantInfo
        <4> QED
          BY <2>3, <4>1, <4>2 DEF Covered
      <3>2. CASE task[s].tenant # t
        BY <1>13, <2>1, <3>2 DEF PersistCount, TypeOK
      <3> QED
        BY <3>1, <3>2
    <2>5. Writes(t)' \subseteq Writes(t) /\ \A r \in Writes(t)' : task'[r] = task[r]
      BY <1>13 DEF PersistCount, Writes, NoTask, TypeOK
    <2> QED
      BY <1>13, <2>3, <2>4, <2>5 DEF PersistCount, Covered, Update
  <1>14. ASSUME NEW s \in Tasks, PersistFails(s) PROVE Covered(t)'
    BY <1>0, <1>14 DEF PersistFails, CountInv, Covered, Tainted, Update, Writes, NoTask, TypeOK
  <1>15. CASE Restart
    <2> DEFINE b == \E c \in Update(t) : call[c].resets
    <2>1. hist'[t] = [Lost(hist[t], b) EXCEPT !.torn = {}]
      BY <1>15 DEF Restart
    <2>2. b \in BOOLEAN /\ hist[t] \in History
      BY DEF TypeOK
    <2>3. /\ hist'[t].billed = hist[t].billed
          /\ hist'[t].lost = (hist[t].lost \/ b)
          /\ hist'[t].raced = hist[t].raced
      <3> HIDE DEF b
      <3> QED
        BY <2>1, <2>2 DEF Lost, History
    <2>4. ~Tainted(t) /\ ~b
      BY <2>3 DEF Tainted
    <2>5. Update(t)' = {} /\ Writes(t)' = {}
      BY <1>15 DEF Restart, Update, Writes, Idle, NoTask
    <2> QED
      BY <1>15, <2>3, <2>4, <2>5 DEF Restart, CountInv, Covered
  <1>16. CASE UNCHANGED vars
    BY <1>16 DEF vars, CountInv, Covered, Tainted, Update, Writes
  <1> QED
    BY <1>0, <1>1, <1>2, <1>3, <1>4, <1>5, <1>6, <1>7, <1>8, <1>9, <1>10, <1>11, <1>12, <1>13,
       <1>14, <1>15, <1>16
    DEF Next

(* A cached count never exceeds the admissions of the period, for every    *)
(* tenant whose assignments all reached the table and none of which was    *)
(* made over an outstanding write: the promise of try_consume_quota.       *)
THEOREM QuotaNeverOvercounts == Spec => []NeverOvercountsUnraced
<1>1. Init => CountInv
  BY DEF Init, CountInv, Covered, Tainted, Update, Writes, Idle, NoTask, NoTenant, NoHistory
<1>2. CountInv => NeverOvercountsUnraced
  BY DEF CountInv, Covered, NeverOvercountsUnraced
<1> QED
  BY <1>1, <1>2, CountStep, TypeCorrect, PTL DEF Spec

-----------------------------------------------------------------------------
(* No call and no write concerns a tenant before it is in the cache.       *)
LEMMA BirthStep == TypeOK /\ BirthInv /\ [Next]_vars => BirthInv'
  <1> SUFFICES ASSUME TypeOK, BirthInv, [Next]_vars PROVE BirthInv'
    OBVIOUS
  <1> USE DEF BirthInv, Create, Update, Suspend, Writes
  <1>1. ASSUME NEW c \in Calls, NEW u \in Tenants, NEW l \in Limits, CreateInsert(c, u, l)
        PROVE  BirthInv'
    <2>1. ~cache[u].exists /\ Create(u) = {}
      <3>1. ~db[u].exists
        BY <1>1 DEF CreateInsert
      <3>2. \A n : NewTenant(n).exists
        BY DEF NewTenant
      <3> HIDE DEF Create, Update, Suspend, Writes
      <3> QED
        BY <3>1, <3>2
    <2>2. db'[u] = NewTenant(l) /\ \A t \in Tenants \ {u} : db'[t] = db[t]
      BY <1>1 DEF CreateInsert, TypeOK
    <2>3. /\ call'[c].op = "created" /\ call'[c].tenant = u /\ call'[c].limit = l
          /\ \A d \in Calls \ {c} : call'[d] = call[d]
          /\ call[c].op = "idle"
      BY <1>1 DEF CreateInsert, TypeOK, Idle
    <2>4. \A t \in Tenants : /\ Update(t)' = Update(t) /\ Suspend(t)' = Suspend(t)
                             /\ Writes(t)' = Writes(t)
                             /\ Create(t)' = IF t = u THEN {c} ELSE Create(t)
      BY <1>1, <2>1, <2>3 DEF CreateInsert
    <2>5. \A t \in Tenants : cache'[t] = cache[t]
      BY <1>1 DEF CreateInsert
    <2> HIDE DEF Create, Update, Suspend, Writes
    <2>6. \A t \in Tenants : (cache[t].exists => db[t].exists)'
      BY <2>1, <2>2, <2>5
    <2>7. \A t \in Tenants : (~cache[t].exists => Update(t) = {} /\ Suspend(t) = {} /\ Writes(t) = {})'
      BY <2>4, <2>5
    <2>8. ASSUME NEW t \in Tenants, NEW d \in Create(t)'
          PROVE  ~cache'[t].exists /\ db'[t] = NewTenant(call'[d].limit) /\ Create(t)' = {d}
      <3>1. CASE t = u
        BY <2>1, <2>2, <2>3, <2>4, <2>5, <2>8, <3>1
      <3>2. CASE t # u
        <4>1. d \in Create(t) /\ d # c
          BY <2>3, <2>4, <2>8, <3>2 DEF Create
        <4> QED
          BY <2>2, <2>3, <2>4, <2>5, <2>8, <3>2, <4>1 DEF Create
      <3> QED
        BY <3>1, <3>2
    <2> QED
      BY <2>6, <2>7, <2>8
  <1>2. ASSUME NEW c \in Calls, CreateCache(c) PROVE BirthInv'
    BY <1>2, CallShapes DEF CreateCache, Idle, NewTenant, TypeOK, Creating
  <1>3. ASSUME NEW c \in Calls, NEW u \in Tenants, NEW l, NEW n, NEW resets, UpdateCache(c, u, l, n, resets)
        PROVE  BirthInv'
    BY <1>3 DEF UpdateCache, Idle, TypeOK, TenantInfo
  <1>4. ASSUME NEW c \in Calls, UpdateWrite(c) PROVE BirthInv'
    BY <1>4, CallShapes DEF UpdateWrite, Snapshot, Idle, TypeOK, TenantInfo, Updating
  <1>5. ASSUME NEW c \in Calls, UpdateFails(c) \/ SuspendFails(c) \/ Cancel(c) PROVE BirthInv'
    BY <1>5 DEF UpdateFails, SuspendFails, Cancel, Idle, TypeOK
  <1>6. ASSUME NEW c \in Calls, NEW u \in Tenants, NEW value \in BOOLEAN, SuspendBegin(c, u, value)
        PROVE  BirthInv'
    BY <1>6 DEF SuspendBegin, Idle, TypeOK
  <1>7. ASSUME NEW c \in Calls, SuspendWrite(c) PROVE BirthInv'
    BY <1>7, CallShapes DEF SuspendWrite, TypeOK, TenantInfo, Suspending
  <1>8. ASSUME NEW c \in Calls, SuspendCache(c) PROVE BirthInv'
    BY <1>8, CallShapes DEF SuspendCache, Idle, TypeOK, TenantInfo, Suspending
  <1>9. ASSUME NEW u \in Tenants, NEW s \in Tasks, Consume(u, s) PROVE BirthInv'
    BY <1>9 DEF Consume, Admits, TypeOK, TenantInfo
  <1>10. ASSUME NEW s \in Tasks, PersistCount(s) PROVE BirthInv'
    BY <1>10, TaskShape DEF PersistCount, NoTask, TypeOK, TenantInfo, TaskState, CountWrite
  <1>11. ASSUME NEW s \in Tasks, PersistFails(s) PROVE BirthInv'
    BY <1>11 DEF PersistFails, NoTask, TypeOK
  <1>12. CASE Restart
    BY <1>12 DEF Restart, Idle, NoTask
  <1>13. CASE UNCHANGED vars
    BY <1>13 DEF vars
  <1> HIDE DEF BirthInv, Create, Update, Suspend, Writes
  <1> QED
    BY <1>1, <1>2, <1>3, <1>4, <1>5, <1>6, <1>7, <1>8, <1>9, <1>10, <1>11, <1>12, <1>13 DEF Next

(* While a tenant's terms are not torn, at most one update of it is in     *)
(* flight and the cache already holds what that update will write.         *)
LEMMA TermsStep == TypeOK /\ BirthInv /\ TermsInv /\ [Next]_vars => TermsInv'
  <1> SUFFICES ASSUME TypeOK, BirthInv, TermsInv, [Next]_vars, NEW t \in Tenants,
                      cache'[t].exists, "terms" \notin hist'[t].torn
               PROVE  \/ Update(t)' = {} /\ cache'[t].limit = db'[t].limit
                      \/ \E c \in Calls : Update(t)' = {c} /\ cache'[t].limit = call'[c].limit
    BY DEF TermsInv
  <1> DEFINE Goal == \/ Update(t)' = {} /\ cache'[t].limit = db'[t].limit
                     \/ \E c \in Calls : Update(t)' = {c} /\ cache'[t].limit = call'[c].limit
  <1>0. ASSUME NEW h \in History, NEW groups, "terms" \notin Torn(h, groups).torn
        PROVE  "terms" \notin h.torn /\ "terms" \notin groups
    BY <1>0 DEF Torn, History
  <1>1. ASSUME NEW c \in Calls, NEW u \in Tenants, NEW l \in Limits, CreateInsert(c, u, l)
        PROVE  Goal
    <2>1. t # u
      BY <1>1 DEF CreateInsert, BirthInv
    <2> QED
      BY <1>1, <2>1 DEF CreateInsert, TermsInv, Update, Idle, TypeOK
  <1>2. ASSUME NEW c \in Calls, CreateCache(c) PROVE Goal
    <2>1. call[c].tenant \in Tenants /\ call[c].op = "created"
      BY <1>2, CallShapes DEF CreateCache, Creating
    <2>2. Update(t)' = Update(t) /\ \A d \in Update(t) : call'[d] = call[d]
      BY <1>2 DEF CreateCache, Update, Idle, TypeOK
    <2>3. CASE t = call[c].tenant
      <3>1. c \in Create(t)
        BY <2>1, <2>3 DEF Create
      <3>2. Update(t) = {} /\ db[t] = NewTenant(call[c].limit)
        BY <3>1 DEF BirthInv
      <3> QED
        BY <1>2, <2>2, <2>3, <3>2 DEF CreateCache, TypeOK
    <2>4. CASE t # call[c].tenant
      BY <1>2, <2>1, <2>2, <2>4 DEF CreateCache, TermsInv, TypeOK
    <2> QED
      BY <2>3, <2>4
  <1>3. ASSUME NEW c \in Calls, NEW u \in Tenants, NEW l \in Nat, NEW n \in Nat,
               NEW resets \in BOOLEAN, UpdateCache(c, u, l, n, resets)
        PROVE  Goal
    <2>1. CASE u # t
      BY <1>3, <2>1 DEF UpdateCache, TermsInv, Update, Idle, TypeOK
    <2>2. CASE u = t
      <3> DEFINE b == (Writes(t) \union Update(t) # {})
                 groups == {g \in {"terms"} : Update(t) # {}}
                 h == IF resets THEN Assigned(hist[t], n, b) ELSE hist[t]
      <3>1. hist'[t] = Torn(h, groups)
        BY <1>3, <2>2 DEF UpdateCache, TypeOK
      <3>2. b \in BOOLEAN
        OBVIOUS
      <3>3. h \in History
        <4> HIDE DEF b
        <4> QED
          BY <3>2, HistoryShape DEF TypeOK
      <3>4. "terms" \notin groups
        <4> HIDE DEF h, groups
        <4> QED
          BY <1>0, <3>1, <3>3
      <3>5. Update(t)' = {c}
        BY <1>3, <2>2, <3>4 DEF UpdateCache, Update, TypeOK
      <3>6. cache'[t].limit = l /\ call'[c].limit = l
        BY <1>3, <2>2 DEF UpdateCache, TypeOK, TenantInfo
      <3> QED
        BY <3>5, <3>6
    <2> QED
      BY <2>1, <2>2
  <1>4. ASSUME NEW c \in Calls, UpdateWrite(c) PROVE Goal
    <2>1. call[c].tenant \in Tenants /\ call[c].op = "update"
      BY <1>4, CallShapes DEF UpdateWrite, Updating
    <2>2. CASE call[c].tenant # t
      BY <1>4, <2>1, <2>2 DEF UpdateWrite, TermsInv, Update, Idle, TypeOK
    <2>3. CASE call[c].tenant = t
      <3>1. c \in Update(t)
        BY <2>1, <2>3 DEF Update
      <3>2. Update(t) = {c} /\ cache[t].limit = call[c].limit
        BY <1>4, <3>1 DEF UpdateWrite, TermsInv
      <3>3. db'[t].limit = call[c].limit
        BY <1>4, <2>3 DEF UpdateWrite, Snapshot, TypeOK, TenantInfo
      <3>4. Update(t)' = {}
        BY <1>4, <3>2 DEF UpdateWrite, Update, Idle, TypeOK
      <3> QED
        BY <1>4, <3>2, <3>3, <3>4 DEF UpdateWrite
    <2> QED
      BY <2>2, <2>3
  <1>5. ASSUME NEW c \in Calls, UpdateFails(c) PROVE Goal
    <2>1. call[c].tenant \in Tenants /\ call[c].resets \in BOOLEAN
      BY <1>5, CallShapes DEF UpdateFails, Updating
    <2>2. call[c].tenant # t
      <3>1. SUFFICES ASSUME call[c].tenant = t PROVE FALSE
        OBVIOUS
      <3>2. hist'[t] = Torn(Lost(hist[t], call[c].resets), {"terms"})
        BY <1>5, <3>1 DEF UpdateFails, TypeOK
      <3>3. Lost(hist[t], call[c].resets) \in History
        BY <2>1, HistoryShape DEF TypeOK
      <3> QED
        BY <1>0, <3>2, <3>3
    <2> QED
      BY <1>5, <2>1, <2>2 DEF UpdateFails, TermsInv, Update, Idle, TypeOK
  <1>6. ASSUME NEW c \in Calls, NEW u \in Tenants, NEW value \in BOOLEAN, SuspendBegin(c, u, value)
        PROVE  Goal
    <2>1. "terms" \notin hist[t].torn
      BY <1>0, <1>6 DEF SuspendBegin, TypeOK
    <2>2. Update(t)' = Update(t) /\ \A d \in Update(t) : call'[d] = call[d]
      BY <1>6 DEF SuspendBegin, Update, Idle, TypeOK
    <2> QED
      BY <1>6, <2>1, <2>2 DEF SuspendBegin, TermsInv
  <1>7. ASSUME NEW c \in Calls, SuspendWrite(c) PROVE Goal
    <2>1. Update(t)' = Update(t) /\ \A d \in Update(t) : call'[d] = call[d]
      BY <1>7 DEF SuspendWrite, Update, TypeOK
    <2>2. db'[t].limit = db[t].limit
      BY <1>7 DEF SuspendWrite, TypeOK, TenantInfo
    <2> QED
      BY <1>7, <2>1, <2>2 DEF SuspendWrite, TermsInv
  <1>8. ASSUME NEW c \in Calls, SuspendCache(c) PROVE Goal
    <2>1. Update(t)' = Update(t) /\ \A d \in Update(t) : call'[d] = call[d]
      BY <1>8 DEF SuspendCache, Update, Idle, TypeOK
    <2>2. cache'[t].limit = cache[t].limit /\ cache'[t].exists = cache[t].exists
      <3>1. CASE t = call[c].tenant
        <4>1. cache'[t] = [cache[t] EXCEPT !.suspended = call[c].value]
          BY <1>8, <3>1 DEF SuspendCache, TypeOK
        <4> QED
          <5>1. cache[t] \in TenantInfo
            BY DEF TypeOK
          <5> QED
            BY <4>1, <5>1 DEF TenantInfo
      <3>2. CASE t # call[c].tenant
        BY <1>8, <3>2 DEF SuspendCache, TypeOK
      <3> QED
        BY <3>1, <3>2
    <2> QED
      BY <1>8, <2>1, <2>2 DEF SuspendCache, TermsInv
  <1>9. ASSUME NEW c \in Calls, SuspendFails(c) PROVE Goal
    <2>1. Update(t)' = Update(t) /\ \A d \in Update(t) : call'[d] = call[d]
      BY <1>9 DEF SuspendFails, Update, Idle, TypeOK
    <2> QED
      BY <1>9, <2>1 DEF SuspendFails, TermsInv
  <1>10. ASSUME NEW c \in Calls, Cancel(c) PROVE Goal
    <2>1. "terms" \notin hist[t].torn
      BY <1>0, <1>10 DEF Cancel, TypeOK
    <2>2. Update(t)' = Update(t) /\ \A d \in Update(t) : call'[d] = call[d]
      BY <1>10 DEF Cancel, Update, Idle, TypeOK
    <2> QED
      BY <1>10, <2>1, <2>2 DEF Cancel, TermsInv
  <1>11. ASSUME NEW u \in Tenants, NEW s \in Tasks, Consume(u, s) PROVE Goal
    <2>1. /\ cache'[t].limit = cache[t].limit /\ cache'[t].exists = cache[t].exists
          /\ hist'[t].torn = hist[t].torn
      BY <1>11 DEF Consume, TypeOK, TenantInfo, History
    <2> QED
      BY <1>11, <2>1 DEF Consume, TermsInv, Update
  <1>12. ASSUME NEW s \in Tasks, PersistCount(s) PROVE Goal
    <2>1. db'[t].limit = db[t].limit
      BY <1>12, TaskShape DEF PersistCount, TypeOK, TenantInfo
    <2> QED
      BY <1>12, <2>1 DEF PersistCount, TermsInv, Update
  <1>13. ASSUME NEW s \in Tasks, PersistFails(s) PROVE Goal
    BY <1>13 DEF PersistFails, TermsInv, Update
  <1>14. ASSUME Restart PROVE Goal
    BY <1>14 DEF Restart, Update, Idle
  <1>15. ASSUME UNCHANGED vars PROVE Goal
    BY <1>15 DEF vars, TermsInv, Update
  <1>16. \A u \in Tenants : cache[u].limit \in Nat /\ cache[u].count \in Nat
    BY DEF TypeOK, TenantInfo
  <1> HIDE DEF Goal
  <1>17. Goal
    BY <1>1, <1>2, <1>3, <1>4, <1>5, <1>6, <1>7, <1>8, <1>9, <1>10, <1>11, <1>12, <1>13, <1>14,
       <1>15, <1>16, TenantStoreAssumption
    DEF Next
  <1> QED
    BY <1>17 DEF Goal

(* While a tenant's status is not torn, at most one set_suspended of it is *)
(* in flight, and what it wrote is what the cache is about to hold.        *)
LEMMA StatusStep == TypeOK /\ BirthInv /\ StatusInv /\ [Next]_vars => StatusInv'
  <1> DEFINE Agrees(t) ==
        \/ Suspend(t) = {} /\ cache[t].suspended = db[t].suspended
        \/ \E c \in Calls :
             /\ Suspend(t) = {c}
             /\ IF call[c].op = "suspend" THEN cache[t].suspended = db[t].suspended
                                          ELSE db[t].suspended = call[c].value
  <1> SUFFICES ASSUME TypeOK, BirthInv, StatusInv, [Next]_vars, NEW t \in Tenants,
                      cache'[t].exists, "status" \notin hist'[t].torn
               PROVE  Agrees(t)'
    BY DEF StatusInv
  <1> DEFINE Same == Suspend(t)' = Suspend(t) /\ \A d \in Suspend(t) : call'[d] = call[d]
  <1>a. ASSUME Same, cache[t].exists, "status" \notin hist[t].torn,
               cache'[t].suspended = cache[t].suspended, db'[t].suspended = db[t].suspended
        PROVE  Agrees(t)'
    BY <1>a DEF StatusInv
  <1>0. ASSUME NEW h \in History, NEW groups, "status" \notin Torn(h, groups).torn
        PROVE  "status" \notin h.torn /\ "status" \notin groups
    BY <1>0 DEF Torn, History
  <1>1. ASSUME NEW c \in Calls, NEW u \in Tenants, NEW l \in Limits, CreateInsert(c, u, l)
        PROVE  Agrees(t)'
    <2>1. t # u
      BY <1>1 DEF CreateInsert, BirthInv
    <2>2. Same
      BY <1>1 DEF CreateInsert, Suspend, Idle, TypeOK
    <2> QED
      BY <1>1, <1>a, <2>1, <2>2 DEF CreateInsert, TypeOK
  <1>2. ASSUME NEW c \in Calls, CreateCache(c) PROVE Agrees(t)'
    <2>1. call[c].tenant \in Tenants /\ call[c].op = "created"
      BY <1>2, CallShapes DEF CreateCache, Creating
    <2>2. Same
      BY <1>2 DEF CreateCache, Suspend, Idle, TypeOK
    <2>3. CASE t = call[c].tenant
      <3>1. c \in Create(t)
        BY <2>1, <2>3 DEF Create
      <3>2. Suspend(t) = {} /\ db[t] = NewTenant(call[c].limit)
        BY <3>1 DEF BirthInv
      <3> QED
        BY <1>2, <2>2, <2>3, <3>2 DEF CreateCache, TypeOK
    <2>4. CASE t # call[c].tenant
      BY <1>2, <1>a, <2>1, <2>2, <2>4 DEF CreateCache, TypeOK
    <2> QED
      BY <2>3, <2>4
  <1>3. ASSUME NEW c \in Calls, NEW u \in Tenants, NEW l \in Nat, NEW n \in Nat,
               NEW resets \in BOOLEAN, UpdateCache(c, u, l, n, resets)
        PROVE  Agrees(t)'
    <2>1. Same
      BY <1>3 DEF UpdateCache, Suspend, Idle, TypeOK
    <2>2. cache[t].exists /\ cache'[t].suspended = cache[t].suspended
      BY <1>3 DEF UpdateCache, TypeOK, TenantInfo
    <2>3. "status" \notin hist[t].torn
      <3> DEFINE b == (Writes(t) \union Update(t) # {})
                 groups == {g \in {"terms"} : Update(t) # {}}
                 h == IF resets THEN Assigned(hist[t], n, b) ELSE hist[t]
      <3>1. b \in BOOLEAN
        OBVIOUS
      <3>2. hist'[t] = hist[t] \/ hist'[t] = Torn(h, groups)
        BY <1>3 DEF UpdateCache, TypeOK
      <3> HIDE DEF b, groups
      <3>3. h \in History /\ h.torn = hist[t].torn
        BY <3>1 DEF TypeOK, Assigned, History
      <3> HIDE DEF h
      <3> QED
        BY <1>0, <3>2, <3>3
    <2> QED
      BY <1>3, <1>a, <2>1, <2>2, <2>3 DEF UpdateCache
  <1>4. ASSUME NEW c \in Calls, UpdateWrite(c) PROVE Agrees(t)'
    <2>1. Same
      BY <1>4 DEF UpdateWrite, Suspend, Idle, TypeOK
    <2>2. db'[t].suspended = db[t].suspended
      BY <1>4 DEF UpdateWrite, Snapshot, TypeOK, TenantInfo
    <2> QED
      BY <1>4, <1>a, <2>1, <2>2 DEF UpdateWrite
  <1>5. ASSUME NEW c \in Calls, UpdateFails(c) PROVE Agrees(t)'
    <2>1. Same
      BY <1>5 DEF UpdateFails, Suspend, Idle, TypeOK
    <2>2. "status" \notin hist[t].torn
      <3>1. call[c].resets \in BOOLEAN
        BY <1>5, CallShapes DEF UpdateFails, Updating
      <3>2. \/ hist'[t] = hist[t]
            \/ hist'[t] = Torn(Lost(hist[t], call[c].resets), {"terms"})
        BY <1>5 DEF UpdateFails, TypeOK
      <3>3. /\ Lost(hist[t], call[c].resets) \in History
            /\ Lost(hist[t], call[c].resets).torn = hist[t].torn
        BY <3>1 DEF TypeOK, Lost, History
      <3> QED
        BY <1>0, <3>2, <3>3
    <2> QED
      BY <1>5, <1>a, <2>1, <2>2 DEF UpdateFails
  <1>6. ASSUME NEW c \in Calls, NEW u \in Tenants, NEW value \in BOOLEAN, SuspendBegin(c, u, value)
        PROVE  Agrees(t)'
    <2>1. CASE u # t
      <3>1. Same
        BY <1>6, <2>1 DEF SuspendBegin, Suspend, Idle, TypeOK
      <3>2. hist'[t] = hist[t]
        BY <1>6, <2>1 DEF SuspendBegin, TypeOK
      <3> QED
        BY <1>6, <1>a, <3>1, <3>2 DEF SuspendBegin
    <2>2. CASE u = t
      <3> DEFINE groups == {g \in {"status"} : Suspend(t) # {}}
      <3>1. hist'[t] = Torn(hist[t], groups)
        BY <1>6, <2>2 DEF SuspendBegin, TypeOK
      <3>2. hist[t] \in History
        BY DEF TypeOK
      <3>3. "status" \notin hist[t].torn /\ "status" \notin groups
        <4> HIDE DEF groups
        <4> QED
          BY <1>0, <3>1, <3>2
      <3>4. Suspend(t) = {}
        BY <3>3
      <3>5. cache[t].suspended = db[t].suspended
        BY <1>6, <3>3, <3>4 DEF SuspendBegin, StatusInv
      <3>6. Suspend(t)' = {c} /\ call'[c].op = "suspend"
        BY <1>6, <2>2, <3>4 DEF SuspendBegin, Suspend, TypeOK
      <3> QED
        BY <1>6, <3>5, <3>6 DEF SuspendBegin
    <2> QED
      BY <2>1, <2>2
  <1>7. ASSUME NEW c \in Calls, SuspendWrite(c) PROVE Agrees(t)'
    <2>1. call[c] \in Suspending /\ call[c].op = "suspend"
      BY <1>7, CallShapes DEF SuspendWrite
    <2>2. CASE call[c].tenant # t
      <3>1. Same
        BY <1>7, <2>2 DEF SuspendWrite, Suspend, TypeOK
      <3>2. db'[t] = db[t]
        BY <1>7, <2>2 DEF SuspendWrite, TypeOK
      <3> QED
        BY <1>7, <1>a, <3>1, <3>2 DEF SuspendWrite
    <2>3. CASE call[c].tenant = t
      <3>1. c \in Suspend(t)
        BY <2>1, <2>3 DEF Suspend
      <3>2. Suspend(t) = {c}
        BY <1>7, <3>1 DEF SuspendWrite, StatusInv
      <3>3. call'[c] = [call[c] EXCEPT !.op = "suspended"]
        BY <1>7 DEF SuspendWrite, TypeOK
      <3>4. call'[c].op = "suspended" /\ call'[c].tenant = t /\ call'[c].value = call[c].value
        BY <2>1, <2>3, <3>3 DEF Suspending
      <3>5. Suspend(t)' = {c}
        BY <1>7, <3>2, <3>4 DEF SuspendWrite, Suspend, TypeOK
      <3>6. db'[t].suspended = call[c].value
        BY <1>7, <2>3 DEF SuspendWrite, TypeOK, TenantInfo
      <3> QED
        BY <3>4, <3>5, <3>6
    <2> QED
      BY <2>2, <2>3
  <1>8. ASSUME NEW c \in Calls, SuspendCache(c) PROVE Agrees(t)'
    <2>1. call[c] \in Suspending /\ call[c].op = "suspended"
      BY <1>8, CallShapes DEF SuspendCache
    <2>2. CASE call[c].tenant # t
      <3>1. Same
        BY <1>8, <2>2 DEF SuspendCache, Suspend, Idle, TypeOK
      <3>2. cache'[t] = cache[t]
        BY <1>8, <2>2 DEF SuspendCache, TypeOK
      <3> QED
        BY <1>8, <1>a, <3>1, <3>2 DEF SuspendCache
    <2>3. CASE call[c].tenant = t
      <3>1. c \in Suspend(t)
        BY <2>1, <2>3 DEF Suspend
      <3>2. cache'[t] = [cache[t] EXCEPT !.suspended = call[c].value]
        BY <1>8, <2>3 DEF SuspendCache, TypeOK
      <3>3. cache'[t].exists = cache[t].exists /\ cache'[t].suspended = call[c].value
        <4>1. cache[t] \in TenantInfo
          BY DEF TypeOK
        <4> QED
          BY <3>2, <4>1 DEF TenantInfo
      <3>4. Suspend(t) = {c} /\ db[t].suspended = call[c].value
        BY <1>8, <2>1, <3>1, <3>3 DEF SuspendCache, StatusInv
      <3>5. Suspend(t)' = {}
        BY <1>8, <3>4 DEF SuspendCache, Suspend, Idle, TypeOK
      <3> QED
        BY <1>8, <3>3, <3>4, <3>5 DEF SuspendCache
    <2> QED
      BY <2>2, <2>3
  <1>9. ASSUME NEW c \in Calls, SuspendFails(c) PROVE Agrees(t)'
    <2>1. CASE c \in Suspend(t)
      <3>1. Suspend(t) = {c} /\ cache[t].suspended = db[t].suspended
        BY <1>9, <2>1 DEF SuspendFails, StatusInv
      <3>2. Suspend(t)' = {}
        BY <1>9, <3>1 DEF SuspendFails, Suspend, Idle, TypeOK
      <3> QED
        BY <1>9, <3>1, <3>2 DEF SuspendFails
    <2>2. CASE c \notin Suspend(t)
      <3>1. Same
        BY <1>9, <2>2 DEF SuspendFails, Suspend, Idle, TypeOK
      <3> QED
        BY <1>9, <1>a, <3>1 DEF SuspendFails
    <2> QED
      BY <2>1, <2>2
  <1>10. ASSUME NEW c \in Calls, Cancel(c) PROVE Agrees(t)'
    <2> DEFINE groups == {g \in {"status"} : call[c].op = "suspended"}
    <2>0. hist'[t] = IF call[c].tenant = t THEN Torn(hist[t], groups) ELSE hist[t]
      BY <1>10 DEF Cancel, TypeOK
    <2>1. /\ "status" \notin hist[t].torn
          /\ ~(call[c].tenant = t /\ call[c].op = "suspended")
      <3>1. hist[t] \in History
        BY DEF TypeOK
      <3>2. CASE call[c].tenant = t
        <4>1. "status" \notin hist[t].torn /\ "status" \notin groups
          <5> HIDE DEF groups
          <5> QED
            BY <1>0, <2>0, <3>1, <3>2
        <4> QED
          BY <4>1
      <3> QED
        BY <2>0, <3>2
    <2>2. Same
      BY <1>10, <2>1 DEF Cancel, Suspend, Idle, TypeOK
    <2> QED
      BY <1>10, <1>a, <2>1, <2>2 DEF Cancel
  <1>11. ASSUME NEW u \in Tenants, NEW s \in Tasks, Consume(u, s) PROVE Agrees(t)'
    <2>1. /\ cache'[t].suspended = cache[t].suspended /\ cache'[t].exists = cache[t].exists
          /\ hist'[t].torn = hist[t].torn
      BY <1>11 DEF Consume, TypeOK, TenantInfo, History
    <2>2. Same
      BY <1>11 DEF Consume, Suspend
    <2> QED
      BY <1>11, <1>a, <2>1, <2>2 DEF Consume
  <1>12. ASSUME NEW s \in Tasks, PersistCount(s) PROVE Agrees(t)'
    <2>1. db'[t].suspended = db[t].suspended
      BY <1>12, TaskShape DEF PersistCount, TypeOK, TenantInfo
    <2>2. Same
      BY <1>12 DEF PersistCount, Suspend
    <2> QED
      BY <1>12, <1>a, <2>1, <2>2 DEF PersistCount
  <1>13. ASSUME NEW s \in Tasks, PersistFails(s) PROVE Agrees(t)'
    <2>1. Same
      BY <1>13 DEF PersistFails, Suspend
    <2> QED
      BY <1>13, <1>a, <2>1 DEF PersistFails
  <1>14. ASSUME Restart PROVE Agrees(t)'
    BY <1>14 DEF Restart, Suspend, Idle
  <1>15. ASSUME UNCHANGED vars PROVE Agrees(t)'
    <2>1. Same
      BY <1>15 DEF vars, Suspend
    <2> QED
      BY <1>15, <1>a, <2>1 DEF vars
  <1>16. \A u \in Tenants : cache[u].limit \in Nat /\ cache[u].count \in Nat
    BY DEF TypeOK, TenantInfo
  <1> HIDE DEF Agrees
  <1> QED
    BY <1>1, <1>2, <1>3, <1>4, <1>5, <1>6, <1>7, <1>8, <1>9, <1>10, <1>11, <1>12, <1>13, <1>14,
       <1>15, <1>16, TenantStoreAssumption
    DEF Next

(* Between calls the cache mirrors the table's terms and status, whatever  *)
(* crashes, failed statements, quota traffic and calls on other tenants    *)
(* there were: the pool-first discipline of set_suspended and the          *)
(* snapshot of update_tenant suffice as long as calls on one tenant do not *)
(* overlap and none is cut in the middle.                                  *)
THEOREM CacheMirrorsTable == Spec => []MirrorUnlessTorn
<1> DEFINE Mirror == BirthInv /\ TermsInv /\ StatusInv
<1>1. Init => Mirror
  BY DEF Init, BirthInv, TermsInv, StatusInv, Create, Update, Suspend, Writes, Idle, NoTask,
         NoTenant
<1>2. TypeOK /\ Mirror /\ [Next]_vars => Mirror'
  BY BirthStep, TermsStep, StatusStep
<1>3. Mirror => MirrorUnlessTorn
  BY DEF BirthInv, TermsInv, StatusInv, MirrorUnlessTorn
<1> QED
  BY <1>1, <1>2, <1>3, TypeCorrect, PTL DEF Spec

-----------------------------------------------------------------------------
(* One step of the store is one step of the ledger, or none.               *)
LEMMA LedgerStep ==
  TypeOK /\ CountInv /\ CountInv' /\ BirthInv /\ [Next]_vars => [Ledger!Next]_(Ledger!ledger)
  <1> SUFFICES ASSUME TypeOK, CountInv, CountInv', BirthInv, [Next]_vars
               PROVE  Ledger!Next \/ UNCHANGED Ledger!ledger
    OBVIOUS
  <1> DEFINE Goal == Ledger!Next \/ UNCHANGED Ledger!ledger
  <1>a. ASSUME \A t \in Tenants : /\ cache'[t] = cache[t]
                                  /\ hist'[t].billed = hist[t].billed
                                  /\ Tainted(t)' = Tainted(t)
        PROVE  UNCHANGED Ledger!ledger
    <2>1. UNCHANGED {t \in Tenants : cache[t].exists}
      BY <1>a
    <2>2. UNCHANGED [t \in Tenants |-> cache[t].limit] /\ UNCHANGED [t \in Tenants |-> cache[t].count]
      BY <1>a
    <2>3. UNCHANGED [t \in Tenants |-> hist[t].billed]
      BY <1>a
    <2>4. UNCHANGED [t \in Tenants |-> Tainted(t)]
      BY <1>a, Zenon
    <2> QED
      BY <2>1, <2>2, <2>3, <2>4 DEF Ledger!ledger
  <1>b. \A t \in Tenants : /\ hist[t] \in History /\ cache[t] \in TenantInfo
                           /\ cache[t].limit \in Nat /\ cache[t].count \in Nat
                           /\ hist[t].billed \in Nat
    BY DEF TypeOK, TenantInfo, History
  <1>1. ASSUME NEW c \in Calls, NEW u \in Tenants, NEW l \in Limits, CreateInsert(c, u, l)
        PROVE  Goal
    BY <1>a, <1>1 DEF CreateInsert, Tainted
  <1>2. ASSUME NEW c \in Calls, CreateCache(c) PROVE Goal
    <2>0. call[c].tenant \in Tenants /\ call[c].limit \in Nat
      BY <1>2, CallShapes DEF CreateCache, Creating
    <2>1. PICK u \in Tenants : u = call[c].tenant
      BY <2>0
    <2>2. cache' = [cache EXCEPT ![u] = NewTenant(call[c].limit)] /\ hist' = hist
      BY <1>2, <2>1 DEF CreateCache
    <2>3. {t \in Tenants : cache'[t].exists} = {t \in Tenants : cache[t].exists} \union {u}
      BY <2>1, <2>2 DEF NewTenant, TypeOK
    <2>4. [t \in Tenants |-> cache'[t].limit]
            = [[t \in Tenants |-> cache[t].limit] EXCEPT ![u] = call[c].limit]
      BY <2>1, <2>2 DEF NewTenant, TypeOK
    <2>5. [t \in Tenants |-> cache'[t].count]
            = [[t \in Tenants |-> cache[t].count] EXCEPT ![u] = 0]
      BY <2>1, <2>2 DEF NewTenant, TypeOK
    <2>6. Ledger!Open(u)
      <3>1. cache'[u].limit = call[c].limit
        BY <2>1, <2>2 DEF NewTenant, TypeOK
      <3>2. UNCHANGED [t \in Tenants |-> hist[t].billed] /\ UNCHANGED [t \in Tenants |-> Tainted(t)]
        BY <2>2 DEF Tainted
      <3> QED
        BY <2>0, <2>3, <2>4, <2>5, <3>1, <3>2 DEF Ledger!Open, Ledger!Rewrites
    <2> QED
      BY <2>1, <2>6 DEF Ledger!Next
  <1>3. ASSUME NEW c \in Calls, NEW u \in Tenants, NEW l \in Nat, NEW n \in Nat,
               NEW resets \in BOOLEAN, UpdateCache(c, u, l, n, resets),
               resets \/ n = cache[u].count
        PROVE  Goal
    <2> DEFINE b == (Writes(u) \union Update(u) # {})
               groups == {g \in {"terms"} : Update(u) # {}}
    <2>0. b \in BOOLEAN
      OBVIOUS
    <2>1. /\ cache' = [cache EXCEPT ![u] = [cache[u] EXCEPT !.limit = l, !.count = n]]
          /\ hist' = [hist EXCEPT ![u] =
               Torn(IF resets THEN Assigned(hist[u], n, b) ELSE hist[u], groups)]
          /\ cache[u].exists
      BY <1>3 DEF UpdateCache
    <2> HIDE DEF b, groups
    <2>2. {t \in Tenants : cache'[t].exists} = {t \in Tenants : cache[t].exists}
      BY <1>b, <2>1 DEF TypeOK, TenantInfo
    <2>3. [t \in Tenants |-> cache'[t].limit]
            = [[t \in Tenants |-> cache[t].limit] EXCEPT ![u] = l]
      BY <1>b, <2>1 DEF TypeOK, TenantInfo
    <2>4. [t \in Tenants |-> cache'[t].count]
            = [[t \in Tenants |-> cache[t].count] EXCEPT ![u] = n]
      BY <1>b, <2>1 DEF TypeOK, TenantInfo
    <2>5. /\ hist'[u].billed = IF resets THEN n ELSE hist[u].billed
          /\ hist'[u].lost = hist[u].lost
          /\ hist'[u].raced = (hist[u].raced \/ (resets /\ b))
          /\ \A t \in Tenants \ {u} : hist'[t] = hist[t]
      BY <1>b, <2>0, <2>1 DEF TypeOK, History, Assigned, Torn
    <2>6. [t \in Tenants |-> hist'[t].billed]
            = [[t \in Tenants |-> hist[t].billed] EXCEPT ![u] = hist'[u].billed]
      BY <2>5
    <2>7. [t \in Tenants |-> Tainted(t)'] \in
            {[t \in Tenants |-> Tainted(t)], [[t \in Tenants |-> Tainted(t)] EXCEPT ![u] = TRUE]}
      <3>1. \A t \in Tenants \ {u} : Tainted(t)' = Tainted(t)
        BY <2>5, Zenon DEF Tainted
      <3>2. CASE Tainted(u)' = Tainted(u)
        BY <3>1, <3>2
      <3>3. CASE Tainted(u)' = TRUE
        BY <3>1, <3>3
      <3>4. Tainted(u) => Tainted(u)'
        BY <2>5 DEF Tainted
      <3> QED
        BY <3>2, <3>3, <3>4 DEF Tainted
    <2>8. Ledger!Assign(u)
      <3>0. cache'[u].limit = l /\ cache'[u].count = n
        BY <1>b, <2>1 DEF TypeOK, TenantInfo
      <3>1. CASE resets
        <4>1. hist'[u].billed = n
          BY <2>5, <3>1
        <4> QED
          BY <2>1, <2>2, <2>3, <2>4, <2>6, <2>7, <3>0, <4>1 DEF Ledger!Assign, Ledger!Rewrites
      <3>2. CASE ~resets
        <4>1. [t \in Tenants |-> cache'[t].count] = [t \in Tenants |-> cache[t].count]
          BY <1>3, <2>4, <3>2
        <4>2. [t \in Tenants |-> hist'[t].billed] = [t \in Tenants |-> hist[t].billed]
          BY <2>5, <2>6, <3>2
        <4> QED
          BY <2>1, <2>2, <2>3, <2>7, <3>0, <4>1, <4>2 DEF Ledger!Assign, Ledger!Rewrites
      <3> QED
        BY <3>1, <3>2
    <2> QED
      BY <2>8 DEF Ledger!Next
  <1>4. ASSUME NEW c \in Calls, UpdateWrite(c) PROVE Goal
    BY <1>a, <1>4 DEF UpdateWrite, Tainted
  <1>5. ASSUME NEW c \in Calls, UpdateFails(c) PROVE Goal
    <2>0. call[c].tenant \in Tenants /\ call[c].resets \in BOOLEAN
      BY <1>5, CallShapes DEF UpdateFails, Updating
    <2>1. PICK u \in Tenants : u = call[c].tenant
      BY <2>0
    <2>2. /\ hist'[u].billed = hist[u].billed
          /\ hist'[u].lost = (hist[u].lost \/ call[c].resets)
          /\ hist'[u].raced = hist[u].raced
          /\ \A t \in Tenants \ {u} : hist'[t] = hist[t]
          /\ cache' = cache
      BY <1>5, <1>b, <2>0, <2>1 DEF UpdateFails, TypeOK, History, Lost, Torn
    <2>3. CASE call[c].resets
      <3>1. [t \in Tenants |-> Tainted(t)'] = [[t \in Tenants |-> Tainted(t)] EXCEPT ![u] = TRUE]
        <4>1. \A t \in Tenants \ {u} : Tainted(t)' = Tainted(t)
          BY <2>2, Zenon DEF Tainted
        <4>2. Tainted(u)'
          <5>1. hist'[u].lost
            BY <2>2, <2>3
          <5> QED
            BY <5>1 DEF Tainted
        <4>3. Tainted(u)' = TRUE
          BY <4>2, Zenon DEF Tainted
        <4> QED
          BY <4>1, <4>3
      <3>2. [t \in Tenants |-> hist'[t].billed] = [t \in Tenants |-> hist[t].billed]
        BY <2>2
      <3>3. Ledger!Taint(u)
        BY <2>2, <3>1, <3>2 DEF Ledger!Taint
      <3> QED
        BY <2>1, <3>3 DEF Ledger!Next
    <2>4. CASE ~call[c].resets
      <3>1. \A t \in Tenants : Tainted(t)' = Tainted(t)
        BY <2>2, <2>4, Zenon DEF Tainted
      <3> QED
        BY <1>a, <2>2, <3>1
    <2> QED
      BY <2>3, <2>4
  <1>6. ASSUME NEW c \in Calls, NEW u \in Tenants, NEW value \in BOOLEAN, SuspendBegin(c, u, value)
        PROVE  Goal
    <2>1. \A t \in Tenants : /\ hist'[t].billed = hist[t].billed
                             /\ hist'[t].lost = hist[t].lost
                             /\ hist'[t].raced = hist[t].raced
      BY <1>6, <1>b DEF SuspendBegin, TypeOK, History, Torn
    <2> QED
      BY <1>a, <1>6, <2>1 DEF SuspendBegin, Tainted
  <1>7. ASSUME NEW c \in Calls, SuspendWrite(c) PROVE Goal
    BY <1>a, <1>7 DEF SuspendWrite, Tainted
  <1>8. ASSUME NEW c \in Calls, SuspendCache(c) PROVE Goal
    <2>1. \A t \in Tenants : /\ cache'[t].exists = cache[t].exists
                             /\ cache'[t].limit = cache[t].limit
                             /\ cache'[t].count = cache[t].count
      <3>1. ASSUME NEW t \in Tenants
            PROVE  cache'[t] = IF t = call[c].tenant
                               THEN [cache[t] EXCEPT !.suspended = call[c].value] ELSE cache[t]
        BY <1>8 DEF SuspendCache, TypeOK
      <3> QED
        BY <1>b, <3>1 DEF TenantInfo
    <2>2. UNCHANGED {t \in Tenants : cache[t].exists}
      BY <2>1
    <2>3. UNCHANGED [t \in Tenants |-> cache[t].limit] /\ UNCHANGED [t \in Tenants |-> cache[t].count]
      BY <2>1
    <2>4. hist' = hist
      BY <1>8 DEF SuspendCache
    <2> QED
      BY <2>2, <2>3, <2>4 DEF Ledger!ledger, Tainted
  <1>9. ASSUME NEW c \in Calls, SuspendFails(c) PROVE Goal
    BY <1>a, <1>9 DEF SuspendFails, Tainted
  <1>10. ASSUME NEW c \in Calls, Cancel(c) PROVE Goal
    <2> DEFINE groups == {g \in {"status"} : call[c].op = "suspended"}
    <2>1. /\ hist' = [hist EXCEPT ![call[c].tenant] = Torn(hist[call[c].tenant], groups)]
          /\ cache' = cache
      BY <1>10 DEF Cancel
    <2> HIDE DEF groups
    <2>2. \A t \in Tenants : /\ hist'[t].billed = hist[t].billed
                             /\ hist'[t].lost = hist[t].lost
                             /\ hist'[t].raced = hist[t].raced
      BY <1>b, <2>1 DEF TypeOK, History, Torn
    <2> QED
      BY <1>a, <2>1, <2>2 DEF Tainted
  <1>11. ASSUME NEW u \in Tenants, NEW s \in Tasks, Consume(u, s) PROVE Goal
    <2>1. /\ cache' = [cache EXCEPT ![u].count = cache[u].count + 1]
          /\ hist' = [hist EXCEPT ![u].billed = hist[u].billed + 1]
          /\ cache[u].exists /\ (cache[u].limit > 0 => cache[u].count < cache[u].limit)
      BY <1>11 DEF Consume, Admits
    <2>2. {t \in Tenants : cache'[t].exists} = {t \in Tenants : cache[t].exists}
      BY <1>b, <2>1 DEF TypeOK, TenantInfo
    <2>3. [t \in Tenants |-> cache'[t].limit] = [t \in Tenants |-> cache[t].limit]
      BY <1>b, <2>1 DEF TypeOK, TenantInfo
    <2>4. [t \in Tenants |-> cache'[t].count]
            = [[t \in Tenants |-> cache[t].count] EXCEPT ![u] = cache[u].count + 1]
      BY <1>b, <2>1 DEF TypeOK, TenantInfo
    <2>5. /\ hist'[u].billed = hist[u].billed + 1
          /\ \A t \in Tenants \ {u} : hist'[t] = hist[t]
          /\ \A t \in Tenants : hist'[t].lost = hist[t].lost /\ hist'[t].raced = hist[t].raced
      BY <1>b, <2>1 DEF TypeOK, History
    <2>6. [t \in Tenants |-> hist'[t].billed]
            = [[t \in Tenants |-> hist[t].billed] EXCEPT ![u] = hist[u].billed + 1]
      BY <2>5
    <2>7. [t \in Tenants |-> Tainted(t)'] = [t \in Tenants |-> Tainted(t)]
      BY <2>5, Zenon DEF Tainted
    <2>8. Ledger!Admit(u)
      BY <1>b, <2>1, <2>2, <2>3, <2>4, <2>6, <2>7 DEF Ledger!Admit
    <2> QED
      BY <2>8 DEF Ledger!Next
  <1>12. ASSUME NEW s \in Tasks, PersistCount(s) PROVE Goal
    BY <1>a, <1>12 DEF PersistCount, Tainted
  <1>13. ASSUME NEW s \in Tasks, PersistFails(s) PROVE Goal
    BY <1>a, <1>13 DEF PersistFails, Tainted
  <1>14. ASSUME Restart PROVE Goal
    <2> DEFINE lost(t) == \E c \in Update(t) : call[c].resets
    <2>1. cache' = db /\ \A t \in Tenants : hist'[t] = [Lost(hist[t], lost(t)) EXCEPT !.torn = {}]
      BY <1>14 DEF Restart
    <2>2. \A t \in Tenants : lost(t) \in BOOLEAN
      OBVIOUS
    <2> HIDE DEF lost
    <2>3. \A t \in Tenants : /\ hist'[t].billed = hist[t].billed
                             /\ hist'[t].lost = (hist[t].lost \/ lost(t))
                             /\ hist'[t].raced = hist[t].raced
      BY <1>b, <2>1, <2>2 DEF History, Lost
    <2>4. \A t \in Tenants : cache[t].exists => cache'[t].exists
      BY <2>1 DEF BirthInv
    <2>5. \A t \in Tenants : Tainted(t) => Tainted(t)'
      BY <2>3 DEF Tainted
    <2>6. \A t \in Tenants : ~Tainted(t)' => cache'[t].count <= hist[t].billed
      BY <2>3 DEF CountInv, Covered
    <2>7. [t \in Tenants |-> hist'[t].billed] = [t \in Tenants |-> hist[t].billed]
      BY <2>3
    <2>8. Ledger!Reload
      BY <2>4, <2>5, <2>6, <2>7 DEF Ledger!Reload
    <2> QED
      BY <2>8 DEF Ledger!Next
  <1>15. ASSUME UNCHANGED vars PROVE Goal
    BY <1>a, <1>15 DEF vars, Tainted
  <1> HIDE DEF Goal
  <1>16. Goal
    BY <1>b, <1>1, <1>2, <1>3, <1>4, <1>5, <1>6, <1>7, <1>8, <1>9, <1>10, <1>11, <1>12, <1>13,
       <1>14, <1>15, TenantStoreAssumption
    DEF Next
  <1> QED
    BY <1>16 DEF Goal

(* The store implements the quota ledger: whatever the interleaving of     *)
(* admissions, spawned writes, operators' calls, failures and restarts, a  *)
(* request is admitted by one indivisible test and increment, and a        *)
(* restart bills no untainted tenant for more than it was admitted.        *)
THEOREM StoreImplementsLedger == Spec => LedgerSpec
<1>1. Init => Ledger!Init
  <2> SUFFICES ASSUME Init PROVE Ledger!Init
    OBVIOUS
  <2>1. {t \in Tenants : cache[t].exists} = {}
    BY DEF Init, NoTenant
  <2>2. /\ [t \in Tenants |-> cache[t].limit] = [t \in Tenants |-> 0]
        /\ [t \in Tenants |-> cache[t].count] = [t \in Tenants |-> 0]
        /\ [t \in Tenants |-> hist[t].billed] = [t \in Tenants |-> 0]
    BY DEF Init, NoTenant, NoHistory
  <2>3. \A t \in Tenants : Tainted(t) = FALSE
    BY DEF Init, NoHistory, Tainted
  <2>4. [t \in Tenants |-> Tainted(t)] = [t \in Tenants |-> FALSE]
    BY <2>3
  <2> QED
    BY <2>1, <2>2, <2>4 DEF Ledger!Init
<1>2. Init => CountInv /\ BirthInv
  BY DEF Init, CountInv, Covered, Tainted, BirthInv, Create, Update, Suspend, Writes, Idle,
         NoTask, NoTenant, NoHistory
<1>3. TypeOK /\ CountInv /\ BirthInv /\ [Next]_vars => (CountInv /\ BirthInv)'
  BY CountStep, BirthStep
<1> QED
  BY <1>1, <1>2, <1>3, LedgerStep, TypeCorrect, PTL DEF Spec, LedgerSpec, Ledger!Spec
=============================================================================
