-------------------------- MODULE OriginStoreProofs --------------------------
(***************************************************************************)
(* Theorems about OriginStore, for every set of tenants, origins, ids and  *)
(* requests and every choice of faults.                                    *)
(*                                                                         *)
(* Neither invariant the run checks is inductive.  Between the steps of a  *)
(* call the table and the two caches differ, and IdInv and Kept say by     *)
(* which call and in which direction: an id is one row's and, once spent,  *)
(* never another's; a cached entry without its row is about to be removed, *)
(* a row without its entry about to be listed, and an origin of the CORS   *)
(* set that nobody owns about to be owned or dropped.                      *)
(***************************************************************************)
EXTENDS OriginStore, TLAPS

Row(r) == [tenant |-> r.tenant, origin |-> r.origin]

IdInv ==
  /\ told \subseteq spent
  /\ \A i \in Ids : rows[i] # NoRow => i \in spent
  /\ \A i, j \in Ids : rows[i] # NoRow /\ rows[i] = rows[j] => i = j
  /\ \A c \in Calls : call[c].op # "idle" =>
       call[c].id \in spent /\ rows[call[c].id] \in {NoRow, Row(call[c])}

Apart(o) == Registers(o) = {} \/ Revokes(o) = {}

RegistersHold(o) ==
  \A c \in Registers(o) : /\ rows[call[c].id] = Row(call[c])
                          /\ call[c].op = "announced" => o \in origins_any

RevokesHold(o) ==
  \A c \in Revokes(o) :
    /\ \A i \in Ids : rows[i] = Row(call[c]) => call[c].op = "selected" /\ call[c].id = i
    /\ call[c].op = "unowned" => \A t \in Tenants : origins_by_tenant[t][o] = None

EntriesHold(o) ==
  \A t \in Tenants, i \in Ids :
    /\ origins_by_tenant[t][o] = i =>
         \/ rows[i] = [tenant |-> t, origin |-> o]
         \/ \E c \in Revokes(o) : call[c].op = "deleted" /\ call[c].tenant = t
    /\ rows[i] = [tenant |-> t, origin |-> o] =>
         \/ origins_by_tenant[t][o] = i
         \/ \E c \in Registers(o) : call[c].tenant = t /\ call[c].id = i

CorsHolds(o) ==
  /\ \A t \in Tenants : origins_by_tenant[t][o] # None => o \in origins_any
  /\ o \in origins_any =>
       \/ \E t \in Tenants : origins_by_tenant[t][o] # None
       \/ Registers(o) # {}
       \/ \E c \in Revokes(o) : call[c].op \in {"removed", "unowned"}

Kept(o) == Apart(o) /\ RegistersHold(o) /\ RevokesHold(o) /\ EntriesHold(o) /\ CorsHolds(o)

OriginInv == \A o \in Origins \ torn : Kept(o)

-----------------------------------------------------------------------------
(* What a request waits for tells the fields it carries.                   *)
RegisterOps == {"inserted", "announced"}

RevokeOps == {"selected", "deleted", "removed", "unowned"}

(* What a call waits for tells whether it registers or revokes.            *)
LEMMA CallShape ==
  ASSUME TypeOK, NEW c \in Calls, call[c].op # "idle"
  PROVE  /\ call[c].op \in RegisterOps \union RevokeOps
         /\ call[c].tenant \in Tenants /\ call[c].origin \in Origins /\ call[c].id \in Ids
         /\ call[c] \in Registering \union Revoking
  BY DEF TypeOK, CallState, Idle, Registering, Revoking, RegisterOps, RevokeOps

(* An idle call waits for nothing.                                         *)
LEMMA IdleShape == Idle.op = "idle"
  BY DEF Idle

(* A step of a call moves it on and leaves the others alone.               *)
LEMMA StandsFields ==
  ASSUME TypeOK, NEW c \in Calls, call[c].op # "idle", NEW op, Stands(c, op)
  PROVE  /\ call'[c].op = op /\ call'[c].tenant = call[c].tenant
         /\ call'[c].origin = call[c].origin /\ call'[c].id = call[c].id
         /\ \A d \in Calls \ {c} : call'[d] = call[d]
         /\ op \in RegisterOps /\ call[c].op \in RegisterOps => call'[c] \in Registering
         /\ op \in RevokeOps /\ call[c].op \in RevokeOps => call'[c] \in Revoking
         /\ DOMAIN call' = Calls /\ call' = [d \in Calls |-> call'[d]]
<1>1. call[c] \in Registering \union Revoking /\ call \in [Calls -> CallState]
  BY CallShape DEF TypeOK
<1>2. call' = [call EXCEPT ![c] = [call[c] EXCEPT !.op = op]]
  BY <1>1 DEF Stands
<1>3. call'[c] = [call[c] EXCEPT !.op = op]
  BY <1>1, <1>2
<1>4. CASE call[c] \in Registering
  BY <1>1, <1>2, <1>3, <1>4 DEF Registering, RegisterOps, RevokeOps
<1>5. CASE call[c] \in Revoking
  BY <1>1, <1>2, <1>3, <1>5 DEF Revoking, RegisterOps, RevokeOps
<1> QED
  BY <1>1, <1>4, <1>5

(* A call that answers is idle, and the others are left alone.             *)
LEMMA AnswerFields ==
  ASSUME TypeOK, NEW c \in Calls, Answer(c)
  PROVE  /\ call'[c] = Idle /\ call'[c].op = "idle"
         /\ \A d \in Calls \ {c} : call'[d] = call[d]
         /\ call' \in [Calls -> CallState]
  BY DEF Answer, TypeOK, CallState, Idle

(* The table, both caches and every request keep their types.              *)
THEOREM OriginTypeCorrect == Spec => []TypeOK
<1>1. Init => TypeOK
  BY DEF Init, TypeOK, CallState
<1>2. TypeOK /\ [Next]_vars => TypeOK'
  <2> SUFFICES ASSUME TypeOK, [Next]_vars PROVE TypeOK'
    OBVIOUS
  <2>1. ASSUME NEW c \in Calls, NEW t \in Tenants, NEW o \in Origins, NEW i \in Ids,
               RegisterInsert(c, t, o, i) \/ RevokeSelect(c, t, o, i)
        PROVE  TypeOK'
    <3>1. /\ [tenant |-> t, origin |-> o] \in OriginInfo
          /\ [op |-> "inserted", tenant |-> t, origin |-> o, id |-> i] \in CallState
          /\ [op |-> "selected", tenant |-> t, origin |-> o, id |-> i] \in CallState
      BY DEF OriginInfo, CallState, Registering, Revoking
    <3> QED
      BY <2>1, <3>1 DEF RegisterInsert, RevokeSelect, TypeOK
  <2>2. ASSUME NEW c \in Calls, NEW op, Stands(c, op),
               \/ call[c].op \in RegisterOps /\ op \in RegisterOps
               \/ call[c].op \in RevokeOps /\ op \in RevokeOps
        PROVE  call' \in [Calls -> CallState]
    <3>1. call'[c] \in CallState
      BY <2>2, StandsFields DEF CallState, RegisterOps, RevokeOps
    <3>2. \A d \in Calls : call'[d] \in CallState
      BY <2>2, <3>1, StandsFields DEF TypeOK, RegisterOps, RevokeOps
    <3> QED
      BY <2>2, <3>2, StandsFields DEF RegisterOps, RevokeOps
  <2>3. ASSUME NEW c \in Calls, RegisterAny(c) PROVE TypeOK'
    BY <2>2, <2>3, CallShape DEF RegisterAny, Announce, TypeOK, RegisterOps
  <2>4. ASSUME NEW c \in Calls, RegisterOwn(c) PROVE TypeOK'
    BY <2>4, CallShape, AnswerFields DEF RegisterOwn, TypeOK
  <2>5. ASSUME NEW c \in Calls, RevokeDelete(c) PROVE TypeOK'
    BY <2>2, <2>5, CallShape DEF RevokeDelete, TypeOK, RevokeOps
  <2>6. ASSUME NEW c \in Calls, RevokeOwn(c) PROVE TypeOK'
    BY <2>2, <2>6, CallShape DEF RevokeOwn, TypeOK, RevokeOps
  <2>7. ASSUME NEW c \in Calls, RevokeCheck(c) PROVE TypeOK'
    BY <2>2, <2>7, AnswerFields DEF RevokeCheck, TypeOK, RevokeOps
  <2>8. ASSUME NEW c \in Calls, RevokeAny(c) \/ RevokeFails(c) \/ Cancel(c) PROVE TypeOK'
    BY <2>8, CallShape, AnswerFields DEF RevokeAny, RevokeFails, Cancel, TypeOK
  <2>9. ASSUME Restart PROVE TypeOK'
    <3>1. \A t \in Tenants, o \in Origins :
            (IF Listed(t, o) = {} THEN None ELSE CHOOSE i \in Ids : i \in Listed(t, o))
              \in Ids \union {None}
      BY DEF Listed
    <3> QED
      BY <2>9, <3>1 DEF Restart, TypeOK, CallState
  <2>10. CASE UNCHANGED vars
    BY <2>10 DEF vars, TypeOK
  <2> QED
    BY <2>1, <2>3, <2>4, <2>5, <2>6, <2>7, <2>8, <2>9, <2>10 DEF Next
<1> QED
  BY <1>1, <1>2, PTL DEF Spec

-----------------------------------------------------------------------------
(* A row of a tenant is not the empty one.                                 *)
LEMMA RowShape ==
  ASSUME NEW t \in Tenants, NEW o \in Origins
  PROVE  [tenant |-> t, origin |-> o] # NoRow
<1>1. [tenant |-> t, origin |-> o].tenant = t /\ NoRow.tenant = None
  BY DEF NoRow
<1> QED
  BY <1>1, OriginStoreAssumption

(* Ids are spent once: no call and no client holds one that will be given  *)
(* to another row.                                                         *)
LEMMA IdStep == TypeOK /\ IdInv /\ [Next]_vars => IdInv'
<1> SUFFICES ASSUME TypeOK, IdInv, [Next]_vars PROVE IdInv'
  OBVIOUS
<1> USE IdleShape
<1>1. ASSUME NEW c \in Calls, NEW t \in Tenants, NEW o \in Origins, NEW i \in Ids,
             RegisterInsert(c, t, o, i)
      PROVE  IdInv'
  <2>1. /\ i \notin spent /\ spent' = spent \union {i} /\ told' = told
        /\ rows'[i] = [tenant |-> t, origin |-> o]
        /\ \A j \in Ids \ {i} : rows'[j] = rows[j]
        /\ \A j \in Ids : rows[j] # [tenant |-> t, origin |-> o]
        /\ call'[c] = [op |-> "inserted", tenant |-> t, origin |-> o, id |-> i]
        /\ \A d \in Calls \ {c} : call'[d] = call[d]
    BY <1>1 DEF RegisterInsert, TypeOK
  <2>2. \A d \in Calls : call'[d].op # "idle" =>
          call'[d].id \in spent' /\ rows'[call'[d].id] \in {NoRow, Row(call'[d])}
    <3> SUFFICES ASSUME NEW d \in Calls, call'[d].op # "idle"
                 PROVE  call'[d].id \in spent' /\ rows'[call'[d].id] \in {NoRow, Row(call'[d])}
      OBVIOUS
    <3>1. CASE d = c
      BY <2>1, <3>1 DEF Row
    <3>2. CASE d # c
      BY <2>1, <3>2, CallShape DEF IdInv
    <3> QED
      BY <3>1, <3>2
  <2> QED
    BY <2>1, <2>2 DEF IdInv
<1>2. ASSUME NEW c \in Calls, NEW t \in Tenants, NEW o \in Origins, NEW i \in Ids,
             RevokeSelect(c, t, o, i)
      PROVE  IdInv'
  BY <1>2 DEF RevokeSelect, IdInv, TypeOK, Row
<1>3. ASSUME NEW c \in Calls, NEW op, Stands(c, op), call[c].op # "idle", UNCHANGED <<rows, spent, told>>
      PROVE  IdInv'
  BY <1>3, StandsFields DEF IdInv, Row
<1>4. ASSUME NEW c \in Calls, Answer(c), UNCHANGED <<rows, spent>>, told' \subseteq spent
      PROVE  IdInv'
  BY <1>4, AnswerFields DEF IdInv
<1>5. ASSUME NEW c \in Calls, RegisterAny(c) \/ RevokeOwn(c) \/ RevokeCheck(c) PROVE IdInv'
  BY <1>3, <1>4, <1>5 DEF RegisterAny, RevokeOwn, RevokeCheck, IdInv
<1>6. ASSUME NEW c \in Calls, RegisterOwn(c) \/ RevokeAny(c) \/ RevokeFails(c) \/ Cancel(c) PROVE IdInv'
  BY <1>4, <1>6 DEF RegisterOwn, RevokeAny, RevokeFails, Cancel, IdInv
<1>7. ASSUME NEW c \in Calls, RevokeDelete(c) PROVE IdInv'
  <2>1. /\ call[c].op = "selected" /\ Stands(c, "deleted") /\ UNCHANGED <<spent, told>>
        /\ \A i \in Ids : rows'[i] \in {NoRow, rows[i]}
    BY <1>7 DEF RevokeDelete, TypeOK
  <2>2. \A d \in Calls : call'[d].op # "idle" =>
          call'[d].id \in spent' /\ rows'[call'[d].id] \in {NoRow, Row(call'[d])}
    <3>1. \A d \in Calls : call'[d].op # "idle" =>
            /\ call[d].op # "idle" /\ call'[d].id = call[d].id /\ Row(call'[d]) = Row(call[d])
      BY <2>1, StandsFields DEF Row
    <3> QED
      BY <2>1, <3>1, CallShape DEF IdInv
  <2> QED
    BY <2>1, <2>2 DEF IdInv
<1>8. ASSUME Restart PROVE IdInv'
  BY <1>8 DEF Restart, IdInv
<1>9. CASE UNCHANGED vars
  BY <1>9 DEF vars, IdInv
<1> QED
  BY <1>1, <1>2, <1>5, <1>6, <1>7, <1>8, <1>9 DEF Next

(* What a call on another origin does leaves an origin as it is.           *)
LEMMA OtherOrigin ==
  ASSUME NEW o \in Origins, Kept(o),
         \A c \in Calls : \/ call'[c] = call[c]
                          \/ /\ call[c].op = "idle" \/ call[c].origin # o
                             /\ call'[c].op = "idle" \/ call'[c].origin # o,
         \A i \in Ids, t \in Tenants : rows'[i] = [tenant |-> t, origin |-> o]
                                         <=> rows[i] = [tenant |-> t, origin |-> o],
         \A t \in Tenants : origins_by_tenant'[t][o] = origins_by_tenant[t][o],
         o \in origins_any' <=> o \in origins_any,
         \A c \in Registers(o) \union Revokes(o) :
           call[c].tenant \in Tenants /\ call[c].origin = o /\ call[c].id \in Ids
  PROVE  Kept(o)'
<1>0. ASSUME NEW c \in Calls
      PROVE  /\ c \in Registers(o)' <=> c \in Registers(o)
             /\ c \in Revokes(o)' <=> c \in Revokes(o)
             /\ c \in Registers(o) \union Revokes(o) => call'[c] = call[c]
  <2>1. CASE call'[c] = call[c]
    BY <2>1 DEF Registers, Revokes
  <2>2. CASE /\ call[c].op = "idle" \/ call[c].origin # o
             /\ call'[c].op = "idle" \/ call'[c].origin # o
    BY <2>2 DEF Registers, Revokes
  <2> QED
    BY <2>1, <2>2
<1>1. Registers(o)' = Registers(o) /\ Revokes(o)' = Revokes(o)
  BY <1>0 DEF Registers, Revokes
<1>2. \A c \in Registers(o) \union Revokes(o) : call'[c] = call[c] /\ c \in Calls
  BY <1>0 DEF Registers, Revokes
<1>3. \A c \in Registers(o) \union Revokes(o) : Row(call[c]) = [tenant |-> call[c].tenant, origin |-> o]
  BY DEF Row
<1>5. ASSUME NEW c \in Registers(o) \union Revokes(o), NEW i \in Ids
      PROVE  rows'[i] = Row(call[c]) <=> rows[i] = Row(call[c])
  <2>1. \A t \in Tenants : rows'[i] = [tenant |-> t, origin |-> o]
                         <=> rows[i] = [tenant |-> t, origin |-> o]
    BY <1>5
  <2>2. call[c].tenant \in Tenants
    BY <1>5
  <2>3. Row(call[c]) = [tenant |-> call[c].tenant, origin |-> o]
    BY <1>3, <1>5
  <2> HIDE DEF Row
  <2> QED
    BY <2>1, <2>2, <2>3
<1>6. Apart(o)' /\ RegistersHold(o)'
  BY <1>1, <1>2, <1>5 DEF Kept, Apart, RegistersHold
<1>7. RevokesHold(o)'
  BY <1>1, <1>2, <1>5 DEF Kept, RevokesHold
<1>8. EntriesHold(o)'
  BY <1>1, <1>2 DEF Kept, EntriesHold
<1>9. CorsHolds(o)'
  BY <1>1, <1>2 DEF Kept, CorsHolds
<1> QED
  BY <1>6, <1>7, <1>8, <1>9 DEF Kept

(* The other calls on an origin stay where they were when one of them moves. *)
LEMMA OtherCalls ==
  ASSUME NEW o \in Origins, NEW c \in Calls, \A d \in Calls \ {c} : call'[d] = call[d]
  PROVE  /\ \A d \in Calls \ {c} : d \in Registers(o)' <=> d \in Registers(o)
         /\ \A d \in Calls \ {c} : d \in Revokes(o)' <=> d \in Revokes(o)
         /\ c \in Registers(o)' <=> call'[c].op \in RegisterOps /\ call'[c].origin = o
         /\ c \in Registers(o) <=> call[c].op \in RegisterOps /\ call[c].origin = o
         /\ c \in Revokes(o)' <=> call'[c].op \in RevokeOps /\ call'[c].origin = o
         /\ c \in Revokes(o) <=> call[c].op \in RevokeOps /\ call[c].origin = o
         /\ Registers(o) \union Revokes(o) \union Registers(o)' \union Revokes(o)' \subseteq Calls
  BY DEF Registers, Revokes, RegisterOps, RevokeOps

(* register_origin stores a row nobody else has, of an origin nobody revokes. *)
LEMMA InsertKeeps ==
  ASSUME TypeOK, IdInv, NEW c \in Calls, NEW t \in Tenants, NEW o \in Origins, NEW i \in Ids,
         Kept(o), RegisterInsert(c, t, o, i), o \notin torn'
  PROVE  Kept(o)'
<1>1. Revokes(o) = {}
  BY DEF RegisterInsert
<1>2. /\ call'[c] = [op |-> "inserted", tenant |-> t, origin |-> o, id |-> i]
      /\ \A d \in Calls \ {c} : call'[d] = call[d]
      /\ rows[i] = NoRow
      /\ rows'[i] = [tenant |-> t, origin |-> o]
      /\ \A j \in Ids \ {i} : rows'[j] = rows[j]
      /\ UNCHANGED <<origins_any, origins_by_tenant>>
      /\ call[c].op = "idle"
  BY IdleShape DEF RegisterInsert, TypeOK, IdInv
<1>3. /\ Revokes(o)' = {} /\ Registers(o)' = Registers(o) \union {c} /\ c \notin Registers(o)
      /\ Registers(o) \subseteq Calls
  BY <1>1, <1>2, OtherCalls DEF RegisterOps, RevokeOps
<1>4. \A d \in Registers(o) : call'[d] = call[d] /\ call[d].id \in Ids /\ call[d].id # i
  <2> SUFFICES ASSUME NEW d \in Registers(o)
               PROVE  call'[d] = call[d] /\ call[d].id \in Ids /\ call[d].id # i
    OBVIOUS
  <2>1. d \in Calls \ {c} /\ call[d].op # "idle"
    BY <1>3 DEF Registers
  <2> QED
    BY <1>2, <2>1, CallShape DEF IdInv, RegisterInsert
<1>5. \A u \in Tenants : [tenant |-> u, origin |-> o] # NoRow
  BY RowShape
<1>6. Apart(o)' /\ RegistersHold(o)' /\ RevokesHold(o)'
  BY <1>2, <1>3, <1>4 DEF Kept, Apart, RegistersHold, RevokesHold, Row
<1>7. EntriesHold(o)'
  BY <1>1, <1>2, <1>3, <1>4, <1>5 DEF Kept, EntriesHold
<1>8. CorsHolds(o)'
  BY <1>2, <1>3 DEF Kept, CorsHolds
<1> QED
  BY <1>6, <1>7, <1>8 DEF Kept

(* register_origin adds the origin to the CORS set.                        *)
LEMMA AnnounceKeeps ==
  ASSUME TypeOK, NEW c \in Calls, NEW o \in Origins, call[c].origin = o, Kept(o), RegisterAny(c)
  PROVE  Kept(o)'
<1>1. /\ call[c].op = "inserted" /\ call'[c].op = "announced"
      /\ call'[c].tenant = call[c].tenant /\ call'[c].origin = o /\ call'[c].id = call[c].id
      /\ \A d \in Calls \ {c} : call'[d] = call[d]
      /\ o \in origins_any' /\ UNCHANGED <<rows, origins_by_tenant>>
  BY CallShape, StandsFields DEF RegisterAny, Announce
<1>2. c \in Registers(o) /\ Revokes(o) = {}
  BY <1>1 DEF Registers, Kept, Apart
<1>3. /\ Registers(o)' = Registers(o) /\ Revokes(o)' = {} /\ Registers(o) \subseteq Calls
      /\ \A d \in Registers(o) : /\ call'[d].id = call[d].id /\ call'[d].tenant = call[d].tenant
                                 /\ Row(call'[d]) = Row(call[d])
  BY <1>1, <1>2, OtherCalls DEF RegisterOps, RevokeOps, Row
<1>4. Apart(o)' /\ RegistersHold(o)' /\ RevokesHold(o)'
  BY <1>1, <1>3 DEF Kept, Apart, RegistersHold, RevokesHold
<1>5. EntriesHold(o)' /\ CorsHolds(o)'
  BY <1>1, <1>2, <1>3 DEF Kept, EntriesHold, CorsHolds
<1> QED
  BY <1>4, <1>5 DEF Kept

(* register_origin lists the row for the binding check.                    *)
LEMMA OwnKeeps ==
  ASSUME TypeOK, IdInv, NEW c \in Calls, NEW o \in Origins, call[c].origin = o, Kept(o), RegisterOwn(c)
  PROVE  Kept(o)'
<1> DEFINE t == call[c].tenant
           i == call[c].id
<1>1. /\ call[c].op = "announced" /\ call'[c].op = "idle" /\ t \in Tenants /\ i \in Ids
      /\ \A d \in Calls \ {c} : call'[d] = call[d]
      /\ origins_by_tenant'[t][o] = i
      /\ \A u \in Tenants \ {t} : origins_by_tenant'[u][o] = origins_by_tenant[u][o]
      /\ UNCHANGED <<rows, origins_any>>
  BY CallShape, AnswerFields DEF RegisterOwn, TypeOK
<1>2. /\ c \in Registers(o) /\ Revokes(o) = {} /\ o \in origins_any
      /\ rows[i] = [tenant |-> t, origin |-> o]
  BY <1>1 DEF Registers, Kept, Apart, RegistersHold, Row
<1>3. /\ Registers(o)' = Registers(o) \ {c} /\ Revokes(o)' = {} /\ Registers(o) \subseteq Calls
  BY <1>1, <1>2, OtherCalls DEF RegisterOps, RevokeOps
<1>4. \A j \in Ids : rows[j] = [tenant |-> t, origin |-> o] => j = i
  BY <1>1, <1>2, RowShape DEF IdInv
<1>5. i # None
  BY <1>1, OriginStoreAssumption
<1>6. Apart(o)' /\ RegistersHold(o)' /\ RevokesHold(o)'
  BY <1>1, <1>3 DEF Kept, Apart, RegistersHold, RevokesHold, Row
<1> HIDE DEF t, i
<1>7. EntriesHold(o)'
  <2>1. \A u \in Tenants, j \in Ids :
          /\ origins_by_tenant'[u][o] = j => rows'[j] = [tenant |-> u, origin |-> o]
          /\ rows'[j] = [tenant |-> u, origin |-> o] =>
               \/ origins_by_tenant'[u][o] = j
               \/ \E d \in Registers(o)' : call'[d].tenant = u /\ call'[d].id = j
    <3> SUFFICES ASSUME NEW u \in Tenants, NEW j \in Ids
                 PROVE /\ origins_by_tenant'[u][o] = j => rows'[j] = [tenant |-> u, origin |-> o]
                       /\ rows'[j] = [tenant |-> u, origin |-> o] =>
                            \/ origins_by_tenant'[u][o] = j
                            \/ \E d \in Registers(o)' : call'[d].tenant = u /\ call'[d].id = j
      OBVIOUS
    <3>1. CASE u = t
      BY <1>1, <1>2, <1>4, <3>1
    <3>2. CASE u # t
      <4>1. \A d \in Registers(o) : call[d].tenant = u => d \in Registers(o)' /\ call'[d] = call[d]
        BY <1>1, <1>3, <3>2 DEF t
      <4> QED
        BY <1>1, <1>2, <1>3, <3>2, <4>1 DEF Kept, EntriesHold
    <3> QED
      BY <3>1, <3>2
  <2> QED
    BY <1>3, <2>1 DEF EntriesHold
<1>8. CorsHolds(o)'
  BY <1>1, <1>2, <1>3, <1>5 DEF Kept, CorsHolds
<1> QED
  BY <1>6, <1>7, <1>8 DEF Kept

(* revoke_origin reads a row of an origin nobody registers.                *)
LEMMA SelectKeeps ==
  ASSUME TypeOK, IdInv, NEW c \in Calls, NEW t \in Tenants, NEW o \in Origins, NEW i \in Ids,
         Kept(o), RevokeSelect(c, t, o, i), o \notin torn'
  PROVE  Kept(o)'
<1>1. /\ call'[c] = [op |-> "selected", tenant |-> t, origin |-> o, id |-> i]
      /\ \A d \in Calls \ {c} : call'[d] = call[d]
      /\ rows[i] = [tenant |-> t, origin |-> o]
      /\ UNCHANGED <<rows, origins_any, origins_by_tenant>>
      /\ call[c].op = "idle" /\ Registers(o) = {}
  BY IdleShape DEF RevokeSelect, TypeOK
<1>2. /\ Registers(o)' = {} /\ Revokes(o)' = Revokes(o) \union {c} /\ c \notin Revokes(o)
      /\ Revokes(o) \subseteq Calls /\ \A d \in Revokes(o) : call'[d] = call[d]
  BY <1>1, OtherCalls DEF RegisterOps, RevokeOps
<1>3. \A j \in Ids : rows[j] = [tenant |-> t, origin |-> o] => j = i
  BY <1>1, RowShape DEF IdInv
<1>4. Apart(o)' /\ RegistersHold(o)'
  BY <1>2 DEF Apart, RegistersHold
<1>5. RevokesHold(o)'
  BY <1>1, <1>2, <1>3 DEF Kept, RevokesHold, Row
<1>6. EntriesHold(o)' /\ CorsHolds(o)'
  BY <1>1, <1>2 DEF Kept, EntriesHold, CorsHolds
<1> QED
  BY <1>4, <1>5, <1>6 DEF Kept

(* A revocation of an origin that goes on stays one, of the same row.      *)
LEMMA RevokeMoves ==
  ASSUME TypeOK, NEW c \in Calls, NEW o \in Origins, call[c].origin = o, NEW op \in RevokeOps,
         call[c].op \in RevokeOps, Stands(c, op)
  PROVE  /\ Registers(o)' = Registers(o) /\ Revokes(o)' = Revokes(o) /\ Revokes(o) \subseteq Calls
         /\ \A d \in Revokes(o) : call'[d].tenant = call[d].tenant /\ call'[d].id = call[d].id
         /\ \A d \in Revokes(o) : Row(call'[d]) = Row(call[d])
         /\ \A d \in Revokes(o) \ {c} : call'[d].op = call[d].op
<1>1. /\ call'[c].op = op /\ call'[c].tenant = call[c].tenant
      /\ call'[c].origin = call[c].origin /\ call'[c].id = call[c].id
      /\ \A d \in Calls \ {c} : call'[d] = call[d]
  BY StandsFields DEF RevokeOps
<1>2. RegisterOps \intersect RevokeOps = {}
  BY DEF RegisterOps, RevokeOps
<1>3. /\ Registers(o)' = Registers(o) /\ Revokes(o)' = Revokes(o) /\ Revokes(o) \subseteq Calls
  <2>1. \A d \in Calls : d \in Registers(o)' <=> d \in Registers(o)
    BY <1>1, <1>2 DEF Registers, RegisterOps, RevokeOps
  <2>2. \A d \in Calls : d \in Revokes(o)' <=> d \in Revokes(o)
    BY <1>1, <1>2 DEF Revokes, RegisterOps, RevokeOps
  <2>3. /\ Registers(o) \subseteq Calls /\ Registers(o)' \subseteq Calls
        /\ Revokes(o) \subseteq Calls /\ Revokes(o)' \subseteq Calls
    BY DEF Registers, Revokes
  <2> QED
    BY <2>1, <2>2, <2>3
<1>4. \A d \in Revokes(o) : \/ call'[d] = call[d]
                            \/ d = c
  BY <1>1, <1>3
<1>5. Row(call'[c]) = Row(call[c])
  BY <1>1 DEF Row
<1> QED
  BY <1>1, <1>3, <1>4, <1>5

(* revoke_origin deletes the row, whose entry its next step removes.       *)
LEMMA DeleteKeeps ==
  ASSUME TypeOK, IdInv, NEW c \in Calls, NEW o \in Origins, call[c].origin = o, Kept(o), RevokeDelete(c)
  PROVE  Kept(o)'
<1> DEFINE t == call[c].tenant
           i == call[c].id
<1>1. /\ call[c].op = "selected" /\ call'[c].op = "deleted" /\ t \in Tenants /\ i \in Ids
      /\ call'[c].tenant = t /\ call'[c].origin = o /\ call'[c].id = i
      /\ \A d \in Calls \ {c} : call'[d] = call[d]
      /\ rows'[i] = NoRow /\ \A j \in Ids \ {i} : rows'[j] = rows[j]
      /\ UNCHANGED <<origins_any, origins_by_tenant>>
  BY CallShape, StandsFields DEF RevokeDelete, TypeOK
<1>2. c \in Revokes(o) /\ Registers(o) = {}
  BY <1>1 DEF Revokes, Kept, Apart
<1>3. /\ Registers(o)' = {} /\ Revokes(o)' = Revokes(o) /\ Revokes(o) \subseteq Calls
      /\ \A d \in Revokes(o) : call'[d].tenant = call[d].tenant /\ call'[d].id = call[d].id
      /\ \A d \in Revokes(o) : Row(call'[d]) = Row(call[d])
      /\ \A d \in Revokes(o) \ {c} : call'[d].op = call[d].op
  BY <1>1, <1>2, RevokeMoves DEF RevokeOps, RevokeDelete, RevokeOwn, RevokeCheck
<1>4. /\ \A j \in Ids : rows[j] = [tenant |-> t, origin |-> o] => j = i
      /\ \A u \in Tenants : [tenant |-> u, origin |-> o] # NoRow
      /\ rows[i] \in {NoRow, [tenant |-> t, origin |-> o]}
  BY <1>1, <1>2, RowShape DEF Kept, RevokesHold, IdInv, Row
<1>5. \A d \in Revokes(o) : Row(call[d]) # NoRow
  BY <1>3, <1>4, CallShape DEF Row, Revokes
<1>6. Apart(o)' /\ RegistersHold(o)'
  BY <1>3 DEF Apart, RegistersHold
<1>7. \A d \in Revokes(o), j \in Ids : rows'[j] = Row(call[d]) => j # i /\ rows[j] = Row(call[d])
  BY <1>1, <1>5
<1>8. RevokesHold(o)'
  BY <1>1, <1>3, <1>7 DEF Kept, RevokesHold
<1> HIDE DEF t, i
<1>9. EntriesHold(o)'
  <2>1. \A u \in Tenants, j \in Ids :
          /\ rows'[j] = [tenant |-> u, origin |-> o] => rows[j] = [tenant |-> u, origin |-> o]
          /\ rows[j] = [tenant |-> u, origin |-> o] => rows'[j] = [tenant |-> u, origin |-> o] \/ u = t
    <3> SUFFICES ASSUME NEW u \in Tenants, NEW j \in Ids
                 PROVE  /\ rows'[j] = [tenant |-> u, origin |-> o] => rows[j] = [tenant |-> u, origin |-> o]
                        /\ rows[j] = [tenant |-> u, origin |-> o] =>
                             rows'[j] = [tenant |-> u, origin |-> o] \/ u = t
      OBVIOUS
    <3>1. CASE j # i
      BY <1>1, <3>1
    <3>2. CASE j = i
      <4>1. rows[i] = [tenant |-> u, origin |-> o] => u = t
        <5>1. NoRow # [tenant |-> u, origin |-> o]
          BY <1>4
        <5>2. [tenant |-> t, origin |-> o] = [tenant |-> u, origin |-> o] => u = t
          OBVIOUS
        <5> QED
          BY <1>4, <5>1, <5>2
      <4> QED
        BY <1>1, <1>4, <3>2, <4>1
    <3> QED
      BY <3>1, <3>2
  <2>2. \A u \in Tenants : (\E d \in Revokes(o) : call[d].op = "deleted" /\ call[d].tenant = u)
                          => \E d \in Revokes(o)' : call'[d].op = "deleted" /\ call'[d].tenant = u
    BY <1>1, <1>3
  <2>3. c \in Revokes(o)' /\ call'[c].op = "deleted" /\ call'[c].tenant = t
    BY <1>1, <1>2, <1>3
  <2> QED
    BY <1>1, <1>2, <2>1, <2>2, <2>3 DEF Kept, EntriesHold
<1>10. CorsHolds(o)'
  BY <1>1, <1>2, <1>3 DEF Kept, CorsHolds
<1> QED
  BY <1>6, <1>8, <1>9, <1>10 DEF Kept

(* revoke_origin removes the entry, whose row is gone.                     *)
LEMMA RemoveKeeps ==
  ASSUME TypeOK, NEW c \in Calls, NEW o \in Origins, call[c].origin = o, Kept(o), RevokeOwn(c)
  PROVE  Kept(o)'
<1> DEFINE t == call[c].tenant
<1>1. /\ call[c].op = "deleted" /\ call'[c].op = "removed" /\ t \in Tenants
      /\ call'[c].tenant = t /\ call'[c].origin = o /\ call'[c].id = call[c].id
      /\ \A d \in Calls \ {c} : call'[d] = call[d]
      /\ origins_by_tenant'[t][o] = None
      /\ \A u \in Tenants \ {t} : origins_by_tenant'[u][o] = origins_by_tenant[u][o]
      /\ UNCHANGED <<rows, origins_any>>
  BY CallShape, StandsFields DEF RevokeOwn, TypeOK
<1>2. /\ c \in Revokes(o) /\ Registers(o) = {}
      /\ \A i \in Ids : rows[i] # [tenant |-> t, origin |-> o]
  BY <1>1 DEF Revokes, Kept, Apart, RevokesHold, Row
<1>3. /\ Registers(o)' = {} /\ Revokes(o)' = Revokes(o) /\ Revokes(o) \subseteq Calls
      /\ \A d \in Revokes(o) : call'[d].tenant = call[d].tenant /\ call'[d].id = call[d].id
      /\ \A d \in Revokes(o) : Row(call'[d]) = Row(call[d])
      /\ \A d \in Revokes(o) \ {c} : call'[d].op = call[d].op
  BY <1>1, <1>2, RevokeMoves DEF RevokeOps, RevokeDelete, RevokeOwn, RevokeCheck
<1>4. None \notin Ids
  BY OriginStoreAssumption
<1>5. Apart(o)' /\ RegistersHold(o)'
  BY <1>3 DEF Apart, RegistersHold
<1>6. RevokesHold(o)'
  BY <1>1, <1>3 DEF Kept, RevokesHold
<1>7. c \in Revokes(o)' /\ call'[c].op = "removed"
  BY <1>1, <1>2, <1>3
<1> HIDE DEF t
<1>8. EntriesHold(o)'
  <2>1. \A u \in Tenants : u # t =>
          ((\E d \in Revokes(o) : call[d].op = "deleted" /\ call[d].tenant = u)
            => \E d \in Revokes(o)' : call'[d].op = "deleted" /\ call'[d].tenant = u)
    BY <1>3 DEF t
  <2> QED
    BY <1>1, <1>2, <1>3, <1>4, <2>1 DEF Kept, EntriesHold
<1>9. CorsHolds(o)'
  BY <1>1, <1>3, <1>7 DEF Kept, CorsHolds
<1> QED
  BY <1>5, <1>6, <1>8, <1>9 DEF Kept

(* revoke_origin asks every tenant, and the last one to leave drops the    *)
(* origin.                                                                 *)
LEMMA CheckKeeps ==
  ASSUME TypeOK, NEW c \in Calls, NEW o \in Origins, call[c].origin = o, Kept(o), RevokeCheck(c)
  PROVE  Kept(o)'
<1>1. call[c].op = "removed" /\ UNCHANGED <<rows, origins_any, origins_by_tenant>>
  BY DEF RevokeCheck
<1>2. c \in Revokes(o) /\ Registers(o) = {}
  BY <1>1 DEF Revokes, Kept, Apart
<1>3. CASE StillOwned(call[c].tenant, call[c].origin)
  <2>1. /\ call'[c].op = "idle" /\ \A d \in Calls \ {c} : call'[d] = call[d]
        /\ \E t \in Tenants : origins_by_tenant[t][o] # None
    BY <1>3, AnswerFields DEF RevokeCheck, StillOwned, tenant_owns_origin
  <2>2. /\ Registers(o)' = {} /\ Revokes(o)' = Revokes(o) \ {c} /\ Revokes(o) \subseteq Calls
    BY <1>1, <1>2, <2>1, OtherCalls DEF RegisterOps, RevokeOps
  <2>3. Apart(o)' /\ RegistersHold(o)' /\ RevokesHold(o)'
    BY <1>1, <2>1, <2>2 DEF Kept, Apart, RegistersHold, RevokesHold, Row
  <2>4. EntriesHold(o)' /\ CorsHolds(o)'
    BY <1>1, <1>2, <2>1, <2>2 DEF Kept, EntriesHold, CorsHolds
  <2> QED
    BY <2>3, <2>4 DEF Kept
<1>4. CASE ~StillOwned(call[c].tenant, call[c].origin)
  <2>1. /\ call'[c].op = "unowned" /\ call'[c].tenant = call[c].tenant
        /\ call'[c].origin = o /\ call'[c].id = call[c].id
        /\ \A d \in Calls \ {c} : call'[d] = call[d]
        /\ \A t \in Tenants : origins_by_tenant[t][o] = None
    BY <1>1, <1>4, StandsFields DEF RevokeCheck, StillOwned, tenant_owns_origin
  <2>2. /\ Registers(o)' = {} /\ Revokes(o)' = Revokes(o) /\ Revokes(o) \subseteq Calls
        /\ \A d \in Revokes(o) : call'[d].tenant = call[d].tenant /\ call'[d].id = call[d].id
        /\ \A d \in Revokes(o) : Row(call'[d]) = Row(call[d])
        /\ \A d \in Revokes(o) \ {c} : call'[d].op = call[d].op
    BY <1>1, <1>2, <1>4, RevokeMoves DEF RevokeOps, RevokeDelete, RevokeOwn, RevokeCheck
  <2>3. Apart(o)' /\ RegistersHold(o)' /\ RevokesHold(o)'
    BY <1>1, <2>1, <2>2 DEF Kept, Apart, RegistersHold, RevokesHold
  <2>4. EntriesHold(o)' /\ CorsHolds(o)'
    BY <1>1, <1>2, <2>1, <2>2 DEF Kept, EntriesHold, CorsHolds
  <2> QED
    BY <2>3, <2>4 DEF Kept
<1> QED
  BY <1>3, <1>4

(* revoke_origin drops an origin nobody owns, or fails before its DELETE.  *)
LEMMA DropKeeps ==
  ASSUME TypeOK, NEW c \in Calls, NEW o \in Origins, call[c].origin = o, Kept(o),
         RevokeAny(c) \/ RevokeFails(c)
  PROVE  Kept(o)'
<1>1. /\ call[c].op \in {"unowned", "selected"} /\ UNCHANGED <<rows, origins_by_tenant>>
      /\ call'[c].op = "idle" /\ \A d \in Calls \ {c} : call'[d] = call[d]
      /\ \/ call[c].op = "unowned" /\ o \notin origins_any'
         \/ call[c].op = "selected" /\ origins_any' = origins_any
  BY AnswerFields DEF RevokeAny, RevokeFails
<1>2. c \in Revokes(o) /\ Registers(o) = {}
  BY <1>1 DEF Revokes, Kept, Apart
<1>3. /\ Registers(o)' = {} /\ Revokes(o)' = Revokes(o) \ {c} /\ Revokes(o) \subseteq Calls
  BY <1>1, <1>2, OtherCalls DEF RegisterOps, RevokeOps
<1>4. Apart(o)' /\ RegistersHold(o)' /\ RevokesHold(o)'
  BY <1>1, <1>3 DEF Kept, Apart, RegistersHold, RevokesHold, Row
<1>5. EntriesHold(o)'
  BY <1>1, <1>2, <1>3 DEF Kept, EntriesHold
<1>6. call[c].op = "unowned" => \A t \in Tenants : origins_by_tenant[t][o] = None
  BY <1>2 DEF Kept, RevokesHold
<1>7. CorsHolds(o)'
  BY <1>1, <1>2, <1>3, <1>6 DEF Kept, CorsHolds
<1> QED
  BY <1>4, <1>5, <1>7 DEF Kept

(* reload_caches computes both caches from the table.                      *)
LEMMA RestartKeeps ==
  ASSUME TypeOK, IdInv, NEW o \in Origins, Restart
  PROVE  Kept(o)'
<1>1. /\ \A c \in Calls : call'[c].op = "idle"
      /\ o \in origins_any' <=> \E t \in Tenants : Listed(t, o) # {}
      /\ rows' = rows
  BY IdleShape DEF Restart
<1>2. Registers(o)' = {} /\ Revokes(o)' = {}
  BY <1>1 DEF Registers, Revokes
<1>3. ASSUME NEW t \in Tenants
      PROVE  /\ origins_by_tenant'[t][o] = None <=> Listed(t, o) = {}
             /\ \A i \in Ids : origins_by_tenant'[t][o] = i <=> rows[i] = [tenant |-> t, origin |-> o]
  <2>1. origins_by_tenant'[t][o] =
          IF Listed(t, o) = {} THEN None ELSE CHOOSE i \in Ids : i \in Listed(t, o)
    BY <1>3 DEF Restart
  <2>2. CASE Listed(t, o) = {}
    BY <2>1, <2>2, OriginStoreAssumption DEF Listed
  <2>3. CASE Listed(t, o) # {}
    <3>1. origins_by_tenant'[t][o] \in Listed(t, o)
      BY <2>1, <2>3 DEF Listed
    <3>2. \A i, j \in Listed(t, o) : i = j
      BY RowShape DEF Listed, IdInv
    <3> QED
      BY <2>3, <3>1, <3>2, OriginStoreAssumption DEF Listed
  <2> QED
    BY <2>2, <2>3
<1>4. Apart(o)' /\ RegistersHold(o)' /\ RevokesHold(o)'
  BY <1>2 DEF Apart, RegistersHold, RevokesHold
<1>5. EntriesHold(o)' /\ CorsHolds(o)'
  BY <1>1, <1>2, <1>3 DEF EntriesHold, CorsHolds
<1> QED
  BY <1>4, <1>5 DEF Kept

-----------------------------------------------------------------------------
(* A step of a call keeps what holds of every origin but its own.          *)
LEMMA CallSparesOthers ==
  ASSUME TypeOK, NEW c \in Calls, NEW o \in Origins, call[c].origin # o, Kept(o),
         \/ RegisterAny(c) \/ RegisterOwn(c) \/ RevokeDelete(c) \/ RevokeOwn(c)
         \/ RevokeCheck(c) \/ RevokeAny(c) \/ RevokeFails(c) \/ Cancel(c),
         IdInv
  PROVE  Kept(o)'
<1>1. call[c].op # "idle"
  BY DEF RegisterAny, RegisterOwn, RevokeDelete, RevokeOwn, RevokeCheck, RevokeAny, RevokeFails, Cancel
<1>2. /\ call[c].tenant \in Tenants /\ call[c].origin \in Origins /\ call[c].id \in Ids
      /\ rows[call[c].id] \in {NoRow, Row(call[c])}
  BY <1>1, CallShape DEF IdInv
<1>3. \/ \E op : Stands(c, op)
      \/ Answer(c)
  BY DEF RegisterAny, RegisterOwn, RevokeDelete, RevokeOwn, RevokeCheck, RevokeAny, RevokeFails, Cancel
<1>4. /\ \A d \in Calls \ {c} : call'[d] = call[d]
      /\ call'[c].op = "idle" \/ call'[c].origin # o
  BY <1>1, <1>3, StandsFields, AnswerFields
<1>5. \A d \in Calls : \/ call'[d] = call[d]
                       \/ /\ call[d].op = "idle" \/ call[d].origin # o
                          /\ call'[d].op = "idle" \/ call'[d].origin # o
  BY <1>4
<1>6. \A t \in Tenants : origins_by_tenant'[t][o] = origins_by_tenant[t][o]
  BY <1>2 DEF RegisterAny, RegisterOwn, RevokeDelete, RevokeOwn, RevokeCheck, RevokeAny,
              RevokeFails, Cancel, TypeOK
<1>7. o \in origins_any' <=> o \in origins_any
  BY DEF RegisterAny, RegisterOwn, RevokeDelete, RevokeOwn, RevokeCheck, RevokeAny,
         RevokeFails, Cancel, Announce
<1>8. \A i \in Ids, t \in Tenants : rows'[i] = [tenant |-> t, origin |-> o]
                                 <=> rows[i] = [tenant |-> t, origin |-> o]
  <2>1. \/ rows' = rows
        \/ rows' = [rows EXCEPT ![call[c].id] = NoRow]
    BY DEF RegisterAny, RegisterOwn, RevokeDelete, RevokeOwn, RevokeCheck, RevokeAny, RevokeFails, Cancel
  <2>2. \A t \in Tenants : NoRow # [tenant |-> t, origin |-> o] /\ Row(call[c]) # [tenant |-> t, origin |-> o]
    <3>1. \A t \in Tenants : [tenant |-> t, origin |-> o].origin = o
      OBVIOUS
    <3>2. Row(call[c]).origin = call[c].origin
      BY DEF Row
    <3> QED
      BY <3>1, <3>2, RowShape
  <2> QED
    BY <1>2, <2>1, <2>2 DEF TypeOK
<1>9. \A d \in Registers(o) \union Revokes(o) :
        call[d].tenant \in Tenants /\ call[d].origin = o /\ call[d].id \in Ids
  BY CallShape DEF Registers, Revokes
<1> QED
  BY <1>5, <1>6, <1>7, <1>8, <1>9, OtherOrigin

(* A call that begins on one origin touches no other.                      *)
LEMMA BeginSparesOthers ==
  ASSUME TypeOK, IdInv, NEW c \in Calls, NEW t \in Tenants, NEW q \in Origins, NEW i \in Ids,
         NEW o \in Origins, o # q, Kept(o), RegisterInsert(c, t, q, i) \/ RevokeSelect(c, t, q, i)
  PROVE  Kept(o)'
<1>1. \A d \in Calls : \/ call'[d] = call[d]
                       \/ /\ call[d].op = "idle" \/ call[d].origin # o
                          /\ call'[d].op = "idle" \/ call'[d].origin # o
  BY IdleShape DEF RegisterInsert, RevokeSelect, TypeOK
<1>2. \A j \in Ids, u \in Tenants : rows'[j] = [tenant |-> u, origin |-> o]
                                 <=> rows[j] = [tenant |-> u, origin |-> o]
  <2>1. \A u \in Tenants : NoRow # [tenant |-> u, origin |-> o]
    BY RowShape
  <2>2. \A u \in Tenants : [tenant |-> t, origin |-> q] # [tenant |-> u, origin |-> o]
    OBVIOUS
  <2>3. CASE RegisterInsert(c, t, q, i)
    <3>1. rows[i] = NoRow /\ rows' = [rows EXCEPT ![i] = [tenant |-> t, origin |-> q]]
      BY <2>3 DEF RegisterInsert, IdInv
    <3> QED
      BY <2>1, <2>2, <3>1 DEF TypeOK
  <2>4. CASE RevokeSelect(c, t, q, i)
    BY <2>4 DEF RevokeSelect
  <2> QED
    BY <2>3, <2>4
<1>3. /\ \A u \in Tenants : origins_by_tenant'[u][o] = origins_by_tenant[u][o]
      /\ o \in origins_any' <=> o \in origins_any
  BY DEF RegisterInsert, RevokeSelect
<1>4. \A d \in Registers(o) \union Revokes(o) :
        call[d].tenant \in Tenants /\ call[d].origin = o /\ call[d].id \in Ids
  BY CallShape DEF Registers, Revokes
<1> QED
  BY <1>1, <1>2, <1>3, <1>4, OtherOrigin

(* Every step keeps the table and the caches apart by no more than the     *)
(* calls in flight account for, and marks the origins it tears.            *)
LEMMA OriginStep == TypeOK /\ IdInv /\ OriginInv /\ [Next]_vars => OriginInv'
<1> SUFFICES ASSUME TypeOK, IdInv, OriginInv, [Next]_vars, NEW o \in Origins, o \notin torn'
             PROVE  Kept(o)'
  BY DEF OriginInv
<1>1. ASSUME o \notin torn PROVE Kept(o)
  BY <1>1 DEF OriginInv
<1>2. ASSUME NEW c \in Calls, NEW t \in Tenants, NEW q \in Origins, NEW i \in Ids,
             RegisterInsert(c, t, q, i) \/ RevokeSelect(c, t, q, i)
      PROVE  Kept(o)'
  <2>1. Kept(o)
    BY <1>1, <1>2 DEF RegisterInsert, RevokeSelect
  <2>2. CASE o = q
    BY <1>2, <2>1, <2>2, InsertKeeps, SelectKeeps
  <2>3. CASE o # q
    BY <1>2, <2>1, <2>3, BeginSparesOthers
  <2> QED
    BY <2>2, <2>3
<1>3. ASSUME NEW c \in Calls,
             \/ RegisterAny(c) \/ RegisterOwn(c) \/ RevokeDelete(c) \/ RevokeOwn(c)
             \/ RevokeCheck(c) \/ RevokeAny(c) \/ RevokeFails(c) \/ Cancel(c)
      PROVE  Kept(o)'
  <2>1. Kept(o)
    BY <1>1, <1>3 DEF RegisterAny, RegisterOwn, RevokeDelete, RevokeOwn, RevokeCheck, RevokeAny,
                      RevokeFails, Cancel
  <2>2. CASE call[c].origin # o
    BY <1>3, <2>1, <2>2, CallSparesOthers
  <2>3. CASE call[c].origin = o
    <3>1. ~Cancel(c)
      BY <2>3 DEF Cancel
    <3> QED
      BY <1>3, <2>1, <2>3, <3>1, AnnounceKeeps, OwnKeeps, DeleteKeeps, RemoveKeeps, CheckKeeps, DropKeeps
  <2> QED
    BY <2>2, <2>3
<1>4. ASSUME Restart PROVE Kept(o)'
  BY <1>4, RestartKeeps
<1>5. CASE UNCHANGED vars
  <2>1. Kept(o)
    BY <1>1, <1>5 DEF vars
  <2> QED
    BY <1>5, <2>1 DEF vars, Kept, Apart, RegistersHold, RevokesHold, EntriesHold, CorsHolds,
                      Registers, Revokes, Row
<1> QED
  BY <1>2, <1>3, <1>4, <1>5 DEF Next

(* The invariant holds in every reachable state.                           *)
LEMMA OriginInvariant == Spec => [](TypeOK /\ IdInv /\ OriginInv)
<1>1. Init => IdInv
  BY IdleShape DEF Init, IdInv
<1>2. Init => OriginInv
  <2> SUFFICES ASSUME Init, NEW o \in Origins PROVE Kept(o)
    BY DEF OriginInv
  <2>1. Registers(o) = {} /\ Revokes(o) = {}
    BY IdleShape DEF Init, Registers, Revokes
  <2>2. \A t \in Tenants : [tenant |-> t, origin |-> o] # NoRow
    BY RowShape
  <2>3. EntriesHold(o)
    BY <2>2, OriginStoreAssumption DEF Init, EntriesHold
  <2> QED
    BY <2>1, <2>3 DEF Kept, Apart, RegistersHold, RevokesHold, CorsHolds, Init
<1> QED
  BY <1>1, <1>2, OriginTypeCorrect, IdStep, OriginStep, PTL DEF Spec

(* An origin that passes the binding check of a tenant passes CORS, unless *)
(* a registration and a revocation of it overlapped or one was cut short.  *)
THEOREM OwnersPassCors == Spec => []OwnedOriginsPassCorsUntorn
<1>1. OriginInv => OwnedOriginsPassCorsUntorn
  BY DEF OriginInv, Kept, CorsHolds, OwnedOriginsPassCorsUntorn, tenant_owns_origin, is_registered_origin
<1> QED
  BY <1>1, OriginInvariant, PTL

(* With no call on an origin in flight, and none torn, the binding check   *)
(* lists the table's rows, by their ids, and CORS passes it only if owned. *)
THEOREM SettledCachesFollowTable == Spec => []CachesFollowTable
<1>1. OriginInv => CachesFollowTable
  <2> SUFFICES ASSUME OriginInv, NEW o \in Origins, Settled(o)
               PROVE  /\ \A t \in Tenants, i \in Ids :
                           origins_by_tenant[t][o] = i <=> rows[i] = [tenant |-> t, origin |-> o]
                      /\ is_registered_origin(o) => \E t \in Tenants : tenant_owns_origin(t, o)
    BY DEF CachesFollowTable
  <2>1. Registers(o) = {} /\ Revokes(o) = {} /\ EntriesHold(o) /\ CorsHolds(o)
    BY DEF Settled, OriginInv, Kept
  <2> QED
    BY <2>1 DEF EntriesHold, CorsHolds, is_registered_origin, tenant_owns_origin
<1> QED
  BY <1>1, OriginInvariant, PTL
==============================================================================
