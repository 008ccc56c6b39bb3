----------------------------- MODULE QuotaLedger -----------------------------
(***************************************************************************)
(* What the tenant store promises about quotas, with no table, no spawned  *)
(* write and no await: one ledger line per tenant.  A request is admitted  *)
(* by one indivisible test and increment; an operator may assign the terms *)
(* at any time; a restart may forget admissions, in the tenant's favour,   *)
(* and may bill more than was admitted only for a tenant marked tainted.   *)
(***************************************************************************)
EXTENDS Integers

CONSTANT Tenants

VARIABLES
  open,     \* tenants the service knows
  limit,    \* quota in force, 0 for none
  count,    \* what the quota test reads
  billed,   \* admissions since the count was assigned, from the value assigned
  tainted   \* the count on record may not be this period's

ledger == <<open, limit, count, billed, tainted>>

Init ==
  /\ open = {}
  /\ limit = [t \in Tenants |-> 0]
  /\ count = [t \in Tenants |-> 0]
  /\ billed = [t \in Tenants |-> 0]
  /\ tainted = [t \in Tenants |-> FALSE]

Admit(t) ==
  /\ t \in open
  /\ limit[t] = 0 \/ count[t] < limit[t]
  /\ count' = [count EXCEPT ![t] = @ + 1]
  /\ billed' = [billed EXCEPT ![t] = @ + 1]
  /\ UNCHANGED <<open, limit, tainted>>

\* A line of the ledger takes another value, whatever it is.
Rewrites(f, t) == f'[t] \in Nat /\ f' = [f EXCEPT ![t] = f'[t]]

Open(t) ==
  /\ open' = open \union {t}
  /\ Rewrites(limit, t)
  /\ count' = [count EXCEPT ![t] = 0]
  /\ UNCHANGED <<billed, tainted>>

\* New terms.  The count stays, or it is assigned and a period begins with it.
Assign(t) ==
  /\ t \in open
  /\ Rewrites(limit, t)
  /\ \/ UNCHANGED <<count, billed>>
     \/ Rewrites(count, t) /\ billed' = [billed EXCEPT ![t] = count'[t]]
  /\ tainted' \in {tainted, [tainted EXCEPT ![t] = TRUE]}
  /\ UNCHANGED open

Taint(t) ==
  /\ tainted' = [tainted EXCEPT ![t] = TRUE]
  /\ UNCHANGED <<open, limit, count, billed>>

Reload ==
  /\ open \subseteq open'
  /\ \A t \in Tenants : tainted[t] => tainted'[t]
  /\ \A t \in Tenants : ~tainted'[t] => count'[t] <= billed[t]
  /\ UNCHANGED billed

Next ==
  \/ \E t \in Tenants : Admit(t) \/ Open(t) \/ Assign(t) \/ Taint(t)
  \/ Reload

Spec == Init /\ [][Next]_ledger
=============================================================================
