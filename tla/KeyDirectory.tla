----------------------------- MODULE KeyDirectory -----------------------------
(***************************************************************************)
(* What the key store of src/src/store.rs promises about the values of     *)
(* API keys, with no table, no cache, no process and no await.             *)
(*                                                                         *)
(* A value is made for one key, works, and stops working; once it has      *)
(* stopped it never works again.  The value in force of a key that is not  *)
(* revoked works; older values, and those of a revoked key, may go on      *)
(* working for a while.  Only of a key that is shaken, two calls on which  *)
(* overlapped or one call on which was cut half way, may a value come      *)
(* back; what is shaken may change at any step.                            *)
(***************************************************************************)
CONSTANTS
  Ids,     \* keys
  Hashes,  \* values
  None     \* no key, no value

VARIABLES
  value,   \* the value in force of each key
  revoked, \* revoked keys
  of,      \* the key each value was made for
  works,   \* the values that are accepted
  shaken   \* keys with overlapping or cut calls

vars == <<value, revoked, of, works, shaken>>

Fresh == {h \in Hashes : of[h] = None}

InForce == {value[k] : k \in Ids \ revoked} \ {None}

Init ==
  /\ value = [k \in Ids |-> None]
  /\ revoked = {}
  /\ of = [h \in Hashes |-> None]
  /\ works = {}
  /\ shaken = {}

\* The values that work after a step that makes the values in new: none comes
\* back, and none in force stops.
Ages(new) ==
  /\ \A h \in works' \ (works \union new) : of[h] \in shaken'
  /\ InForce' \subseteq works'

\* create_key and rotate_key, the bootstrap key of a first start, the reset: a
\* value replaces the one in force, if any, and a revoked key stays revoked.
Issue(k, h) ==
  /\ h \in Fresh
  /\ value' = [value EXCEPT ![k] = h]
  /\ of' = [of EXCEPT ![h] = k]
  /\ UNCHANGED revoked
  /\ Ages({h})

Revoke(k) ==
  /\ value[k] # None
  /\ revoked' = revoked \union {k}
  /\ UNCHANGED <<value, of>>
  /\ Ages({})

\* A cache step, a start or a stop: keys are as they were, values may fade.
Fade ==
  /\ UNCHANGED <<value, revoked, of>>
  /\ Ages({})

Next ==
  \/ \E k \in Ids, h \in Hashes : Issue(k, h)
  \/ \E k \in Ids : Revoke(k)
  \/ Fade

Spec == Init /\ [][Next]_vars
=============================================================================
