---------------------------- MODULE OriginStore ----------------------------
(***************************************************************************)
(* Allowed browser origins in src/src/store.rs: the table tenant_origins,  *)
(* its two caches (origins_any for the CORS predicate, origins_by_tenant   *)
(* for the binding check, each under a lock of its own) and the calls      *)
(* register_origin and revoke_origin.                                      *)
(*                                                                         *)
(* Grain.  One step per statement sent to the pool and one per critical    *)
(* section.  Between a statement and the step after it there is an await,  *)
(* where the future can be dropped; between two critical sections there is *)
(* none, but other threads run.                                            *)
(***************************************************************************)
CONSTANTS
  Tenants,  \* existing tenants
  Origins,  \* origin strings
  Ids,      \* row ids new_id() may return
  None,     \* no tenant, no id
  Calls,    \* requests that may be in flight together
  Faults    \* what may go wrong: "fail", "cancel", "crash"

ASSUME OriginStoreAssumption ==
  /\ None \notin Tenants \union Ids
  /\ Faults \subseteq {"fail", "cancel", "crash"}

VARIABLES
  rows,               \* the table: for each id its tenant and origin
  origins_any,        \* origins the CORS predicate lets through
  origins_by_tenant,  \* for each tenant and origin, the id it is listed under
  call,               \* where each request stands
  spent,              \* ids used so far: new_id() does not repeat
  told,               \* history: ids that were answered or listed to a client
  torn                \* history: origins a registration and a revocation of
                      \* which overlapped, or one of which was cut, since load

vars == <<rows, origins_any, origins_by_tenant, call, spent, told, torn>>

NoRow == [tenant |-> None]

OriginInfo == [tenant: Tenants, origin: Origins]

(***************************************************************************)
(* Where a request stands, after the step it is named for:                 *)
(*   inserted   register_origin: INSERT                                    *)
(*   announced  register_origin: origins_any.insert                        *)
(*   selected   revoke_origin: SELECT                                      *)
(*   deleted    revoke_origin: DELETE                                      *)
(*   removed    revoke_origin: origins_by_tenant.remove                    *)
(*   unowned    revoke_origin: no tenant was found to own the origin       *)
(***************************************************************************)
Idle == [op |-> "idle"]

Registering == [op: {"inserted", "announced"}, tenant: Tenants, origin: Origins, id: Ids]

Revoking == [op: {"selected", "deleted", "removed", "unowned"},
             tenant: Tenants, origin: Origins, id: Ids]

CallState == {Idle} \union Registering \union Revoking

TypeOK ==
  /\ rows \in [Ids -> OriginInfo \union {NoRow}]
  /\ origins_any \subseteq Origins
  /\ origins_by_tenant \in [Tenants -> [Origins -> Ids \union {None}]]
  /\ call \in [Calls -> CallState]
  /\ spent \subseteq Ids
  /\ told \subseteq Ids
  /\ torn \subseteq Origins

Init ==
  /\ rows = [i \in Ids |-> NoRow]
  /\ origins_any = {}
  /\ origins_by_tenant = [t \in Tenants |-> [o \in Origins |-> None]]
  /\ call = [c \in Calls |-> Idle]
  /\ spent = {}
  /\ told = {}
  /\ torn = {}

Registers(o) == {c \in Calls : call[c].op \in {"inserted", "announced"} /\ call[c].origin = o}

Revokes(o) == {c \in Calls :
  call[c].op \in {"selected", "deleted", "removed", "unowned"} /\ call[c].origin = o}

Stands(c, op) == call' = [call EXCEPT ![c].op = op]

Answer(c) == call' = [call EXCEPT ![c] = Idle]

tenant_owns_origin(t, o) == origins_by_tenant[t][o] # None

is_registered_origin(o) == o \in origins_any

-----------------------------------------------------------------------------
(***************************************************************************)
(* register_origin.  UNIQUE(tenant_id, origin) refuses a second row.       *)
(***************************************************************************)
RegisterInsert(c, t, o, i) ==
  /\ call[c] = Idle
  /\ i \notin spent
  /\ \A j \in Ids : rows[j] # [tenant |-> t, origin |-> o]
  /\ rows' = [rows EXCEPT ![i] = [tenant |-> t, origin |-> o]]
  /\ spent' = spent \union {i}
  /\ call' = [call EXCEPT ![c] = [op |-> "inserted", tenant |-> t, origin |-> o, id |-> i]]
  /\ torn' = torn \union {q \in {o} : Revokes(q) # {}}
  /\ UNCHANGED <<origins_any, origins_by_tenant, told>>

\* Mutant: the CORS set is given the tenant.
AnnounceTenant(r) == origins_any \union {r.tenant}

Announce(r) == origins_any \union {r.origin}

RegisterAny(c) ==
  /\ call[c].op = "inserted"
  /\ origins_any' = Announce(call[c])
  /\ Stands(c, "announced")
  /\ UNCHANGED <<rows, origins_by_tenant, spent, told, torn>>

RegisterOwn(c) ==
  /\ call[c].op = "announced"
  /\ origins_by_tenant' = [origins_by_tenant EXCEPT ![call[c].tenant][call[c].origin] = call[c].id]
  /\ Answer(c)
  /\ told' = told \union {call[c].id}
  /\ UNCHANGED <<rows, origins_any, spent, torn>>

-----------------------------------------------------------------------------
(***************************************************************************)
(* revoke_origin.  An id that is unknown, or another tenant's, answers     *)
(* false and changes nothing.  A client has its ids from an answer or from *)
(* list_origins.                                                           *)
(***************************************************************************)
RevokeSelect(c, t, o, i) ==
  /\ call[c] = Idle
  /\ i \in told
  /\ rows[i] = [tenant |-> t, origin |-> o]
  /\ call' = [call EXCEPT ![c] = [op |-> "selected", tenant |-> t, origin |-> o, id |-> i]]
  /\ torn' = torn \union {q \in {o} : Registers(q) # {}}
  /\ UNCHANGED <<rows, origins_any, origins_by_tenant, spent, told>>

RevokeDelete(c) ==
  /\ call[c].op = "selected"
  /\ rows' = [rows EXCEPT ![call[c].id] = NoRow]
  /\ Stands(c, "deleted")
  /\ UNCHANGED <<origins_any, origins_by_tenant, spent, told, torn>>

RevokeOwn(c) ==
  /\ call[c].op = "deleted"
  /\ origins_by_tenant' = [origins_by_tenant EXCEPT ![call[c].tenant][call[c].origin] = None]
  /\ Stands(c, "removed")
  /\ UNCHANGED <<rows, origins_any, spent, told, torn>>

\* Mutant: only the calling tenant is asked.
OwnedByCaller(t, o) == tenant_owns_origin(t, o)

\* Mutant: the question is asked before the caller's own entry is removed.
OwnedBefore(t, o) == TRUE

StillOwned(t, o) == \E u \in Tenants : tenant_owns_origin(u, o)

RevokeCheck(c) ==
  /\ call[c].op = "removed"
  /\ IF StillOwned(call[c].tenant, call[c].origin) THEN Answer(c) ELSE Stands(c, "unowned")
  /\ UNCHANGED <<rows, origins_any, origins_by_tenant, spent, told, torn>>

RevokeAny(c) ==
  /\ call[c].op = "unowned"
  /\ origins_any' = origins_any \ {call[c].origin}
  /\ Answer(c)
  /\ UNCHANGED <<rows, origins_by_tenant, spent, told, torn>>

-----------------------------------------------------------------------------
\* The DELETE returns an error, or the future is dropped before it ran.
RevokeFails(c) ==
  /\ "fail" \in Faults
  /\ call[c].op = "selected"
  /\ Answer(c)
  /\ UNCHANGED <<rows, origins_any, origins_by_tenant, spent, told, torn>>

\* The client goes away at the await on the INSERT or the DELETE, after it ran.
Cancel(c) ==
  /\ "cancel" \in Faults
  /\ call[c].op \in {"inserted", "deleted"}
  /\ Answer(c)
  /\ torn' = torn \union {call[c].origin}
  /\ UNCHANGED <<rows, origins_any, origins_by_tenant, spent, told>>

\* The process stops and a new one runs reload_caches.
Listed(t, o) == {i \in Ids : rows[i] = [tenant |-> t, origin |-> o]}

Restart ==
  /\ "crash" \in Faults
  /\ origins_any' = {o \in Origins : \E t \in Tenants : Listed(t, o) # {}}
  /\ origins_by_tenant' = [t \in Tenants |-> [o \in Origins |->
       IF Listed(t, o) = {} THEN None ELSE CHOOSE i \in Ids : i \in Listed(t, o)]]
  /\ call' = [c \in Calls |-> Idle]
  /\ told' = told \union {i \in Ids : rows[i] # NoRow}
  /\ torn' = {}
  /\ UNCHANGED <<rows, spent>>

Next ==
  \/ \E c \in Calls, t \in Tenants, o \in Origins, i \in Ids :
       RegisterInsert(c, t, o, i) \/ RevokeSelect(c, t, o, i)
  \/ \E c \in Calls : RegisterAny(c) \/ RegisterOwn(c)
  \/ \E c \in Calls : RevokeDelete(c) \/ RevokeOwn(c) \/ RevokeCheck(c) \/ RevokeAny(c)
  \/ \E c \in Calls : RevokeFails(c) \/ Cancel(c)
  \/ Restart

Spec == Init /\ [][Next]_vars

-----------------------------------------------------------------------------
(***************************************************************************)
(* The comment in revoke_origin and DESIGN.md section 21.3: an origin      *)
(* leaves the CORS set only when no tenant owns it anymore.  So every      *)
(* origin that passes the binding check of some tenant passes CORS, unless *)
(* a registration and a revocation of it overlapped, for whichever         *)
(* tenants: still_owned is then stale when the origin is dropped, and the  *)
(* implication without the exception does fail.                            *)
(***************************************************************************)
OwnedOriginsPassCorsUntorn ==
  \A t \in Tenants, o \in Origins :
    tenant_owns_origin(t, o) => is_registered_origin(o) \/ o \in torn

(***************************************************************************)
(* With no call on an origin in flight, the binding check of each tenant   *)
(* knows exactly the table's row for it, under the id list_origins shows   *)
(* and revoke_origin takes, and CORS lets it through only if somebody      *)
(* owns it: a revoked origin is refused at both.                           *)
(***************************************************************************)
Settled(o) == Registers(o) = {} /\ Revokes(o) = {} /\ o \notin torn

CachesFollowTable ==
  \A o \in Origins : Settled(o) =>
    /\ \A t \in Tenants, i \in Ids :
         origins_by_tenant[t][o] = i <=> rows[i] = [tenant |-> t, origin |-> o]
    /\ is_registered_origin(o) => \E t \in Tenants : tenant_owns_origin(t, o)
=============================================================================
