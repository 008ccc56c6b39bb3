-------------------------- MODULE RateLimiterProofs --------------------------
(***************************************************************************)
(* Theorems about RateLimiter, for every set of addresses, every finite    *)
(* set of requests, and every limit, window and cooldown.                  *)
(*                                                                         *)
(* The invariant LimiterInv has four parts.  Numbered: a failure that is   *)
(* pushed is not one that is held already, so that the size of the set is  *)
(* the length of the Vec.  Remembered: what is held is in the log, with    *)
(* the same age.  LockoutNeedsBurst itself, which the clock carries along  *)
(* with the ages.  For the bound on attempts, Unforgotten: the failures    *)
(* inside the window that record_failure() no longer holds are older than  *)
(* the cooldown's start, and so outside the window when it ends; and       *)
(* LateBounded: during a cooldown the recent failures and the requests     *)
(* that may still fail are together fewer than the bound.                  *)
(*                                                                         *)
(* How long a lockout lasts has an invariant of its own, LateInv: what an  *)
(* address has left to fail with, the failures held and the requests that  *)
(* may still fail, never grows during a lockout, and each renewal takes    *)
(* MaxFailures of it.                                                      *)
(***************************************************************************)
EXTENDS RateLimiter, FiniteSetTheorems, TLAPS

Checked(ip) == {r \in Requests : request[r].op = "checked" /\ request[r].ip = ip}

Recent(ip) == Aged(0, Window, log[ip])

Numbered(ip) ==
  \A f \in log[ip] : f.age = 0 => f.nth < Cardinality(Aged(0, 1, log[ip]))

Remembered(ip) == failures[ip] \subseteq log[ip]

Burst(ip) == Locked(ip) =>
  Cardinality(Aged(Cooldown - cooldown[ip], (Cooldown - cooldown[ip]) + Window, log[ip])) >= MaxFailures

Unforgotten(ip) ==
  \A f \in log[ip] :
    f.age < Window /\ (Locked(ip) => f.age < Cooldown - cooldown[ip]) => f \in failures[ip]

LateBounded(ip) == Locked(ip) =>
  Cardinality(Recent(ip)) + Cardinality(Checked(ip)) < MaxFailures + Cardinality(Requests)

\* What the bound on attempts needs, for a cooldown as long as the window.
Bounded(ip) == Cooldown >= Window => Unforgotten(ip) /\ LateBounded(ip)

AddressInv(ip) == Numbered(ip) /\ Remembered(ip) /\ Burst(ip) /\ Bounded(ip)

LimiterInv == \A ip \in Ips : AddressInv(ip)

-----------------------------------------------------------------------------
(* The parameters are numbers, and counts of finite sets are.              *)
LEMMA Numbers ==
  /\ MaxFailures \in Nat /\ MaxFailures >= 1
  /\ Window \in Nat /\ Window >= 1 /\ Cooldown \in Nat
  /\ \A a \in Ages : a \in Nat
  /\ 0 \in Ages
  /\ Cardinality(Requests) \in Nat
  BY RateLimiterAssumption, FS_CardinalityType DEF Ages

(* The bound of the history.                                               *)
LEMMA LongestIs == Longest \in Nat
  BY Numbers DEF Longest

(* The requests of an address that may still fail are no more than all     *)
(* requests.                                                               *)
LEMMA CheckedFinite ==
  ASSUME NEW ip
  PROVE  /\ IsFiniteSet(Checked(ip)) /\ Cardinality(Checked(ip)) \in Nat
         /\ Cardinality(Checked(ip)) <= Cardinality(Requests)
<1>1. Checked(ip) \in SUBSET Requests
  BY DEF Checked
<1> QED
  BY <1>1, RateLimiterAssumption, FS_Subset, FS_CardinalityType

(* And so after a step.                                                    *)
LEMMA CheckedLater ==
  ASSUME NEW ip
  PROVE  IsFiniteSet(Checked(ip)') /\ Cardinality(Checked(ip)') \in Nat
<1>1. Checked(ip)' \in SUBSET Requests
  BY DEF Checked
<1> QED
  BY <1>1, RateLimiterAssumption, FS_Subset, FS_CardinalityType

(* The failures of some ages are finitely many, and no more than a set     *)
(* that holds them.                                                        *)
LEMMA AgedFinite ==
  ASSUME NEW fs, IsFiniteSet(fs), NEW from, NEW to
  PROVE  /\ IsFiniteSet(Aged(from, to, fs)) /\ Cardinality(Aged(from, to, fs)) \in Nat
         /\ \A gs : Aged(from, to, fs) \subseteq gs /\ IsFiniteSet(gs) =>
              Cardinality(Aged(from, to, fs)) <= Cardinality(gs)
<1>1. Aged(from, to, fs) \in SUBSET fs
  BY DEF Aged
<1>2. IsFiniteSet(Aged(from, to, fs))
  BY <1>1, FS_Subset
<1>3. ASSUME NEW gs, Aged(from, to, fs) \subseteq gs, IsFiniteSet(gs)
      PROVE  Cardinality(Aged(from, to, fs)) <= Cardinality(gs)
  BY <1>3, FS_Subset
<1> QED
  BY <1>2, <1>3, FS_CardinalityType

(* One more failure is at most one more of any age.                        *)
LEMMA AgedGrows ==
  ASSUME NEW fs, IsFiniteSet(fs), NEW f, NEW from, NEW to
  PROVE  /\ Cardinality(Aged(from, to, fs)) <= Cardinality(Aged(from, to, fs \union {f}))
         /\ Cardinality(Aged(from, to, fs \union {f})) <= Cardinality(Aged(from, to, fs)) + 1
<1>1. IsFiniteSet(fs \union {f})
  BY FS_AddElement
<1>2. Aged(from, to, fs) \subseteq Aged(from, to, fs \union {f})
  BY DEF Aged
<1>3. Aged(from, to, fs \union {f}) \subseteq Aged(from, to, fs) \union {f}
  BY DEF Aged
<1>4. /\ IsFiniteSet(Aged(from, to, fs)) /\ Cardinality(Aged(from, to, fs)) \in Nat
      /\ IsFiniteSet(Aged(from, to, fs \union {f}))
      /\ Cardinality(Aged(from, to, fs \union {f})) \in Nat
  BY <1>1, AgedFinite
<1>5. /\ IsFiniteSet(Aged(from, to, fs) \union {f})
      /\ Cardinality(Aged(from, to, fs) \union {f}) <= Cardinality(Aged(from, to, fs)) + 1
  <2>1. PICK S : S = Aged(from, to, fs)
    OBVIOUS
  <2>2. /\ IsFiniteSet(S \union {f})
        /\ Cardinality(S \union {f}) = IF f \in S THEN Cardinality(S) ELSE Cardinality(S) + 1
    BY <1>4, <2>1, FS_AddElement
  <2> QED
    BY <1>4, <2>1, <2>2
<1>6. Cardinality(Aged(from, to, fs)) <= Cardinality(Aged(from, to, fs \union {f}))
  BY <1>1, <1>2, <1>4, AgedFinite
<1>7. Cardinality(Aged(from, to, fs \union {f})) <= Cardinality(Aged(from, to, fs) \union {f})
  BY <1>1, <1>3, <1>5, AgedFinite
<1>8. Cardinality(Aged(from, to, fs) \union {f}) \in Nat
  BY <1>5, FS_CardinalityType
<1> QED
  BY <1>4, <1>5, <1>6, <1>7, <1>8

(* A tick makes each failure one older and loses those of the last age.    *)
LEMMA OlderFinite ==
  ASSUME NEW fs \in SUBSET Failure, IsFiniteSet(fs)
  PROVE  /\ Older(fs) \in SUBSET Failure /\ IsFiniteSet(Older(fs))
         /\ Cardinality(Older(fs)) <= Cardinality(fs)
         /\ \A f \in Older(fs) : f.age > 0
         /\ \A from, to \in Nat : to < Window + Cooldown =>
              Cardinality(Aged(from + 1, to + 1, Older(fs))) = Cardinality(Aged(from, to, fs))
<1> DEFINE aged(f) == [age |-> f.age + 1, nth |-> f.nth]
           young == {f \in fs : f.age + 1 \in Ages}
<1>1. \A f \in fs : f.age \in Nat /\ f.nth \in Nat /\ f = [age |-> f.age, nth |-> f.nth]
  BY Numbers DEF Failure
<1>2. \A f, g \in fs : aged(f) = aged(g) => f = g
  BY <1>1
<1>3. Older(fs) \in SUBSET Failure /\ \A f \in Older(fs) : f.age > 0
  BY <1>1, Numbers DEF Older, Failure
<1>4. IsFiniteSet(Older(fs)) /\ Cardinality(Older(fs)) <= Cardinality(fs)
  <2>1. young \in SUBSET fs
    OBVIOUS
  <2>2. IsFiniteSet(young) /\ Cardinality(young) <= Cardinality(fs) /\ Cardinality(young) \in Nat
    BY <2>1, FS_Subset, FS_CardinalityType
  <2>3. [f \in young |-> aged(f)] \in Surjection(young, Older(fs))
    BY DEF Surjection, Older
  <2>4. IsFiniteSet(Older(fs)) /\ Cardinality(Older(fs)) <= Cardinality(young)
    BY <2>2, <2>3, FS_Surjection
  <2> QED
    BY <2>2, <2>4, FS_CardinalityType
<1>5. ASSUME NEW from \in Nat, NEW to \in Nat, to < Window + Cooldown
      PROVE  Cardinality(Aged(from + 1, to + 1, Older(fs))) = Cardinality(Aged(from, to, fs))
  <2>1. PICK S, T : S = Aged(from, to, fs) /\ T = Aged(from + 1, to + 1, Older(fs))
    OBVIOUS
  <2>2. IsFiniteSet(S)
    BY <2>1, AgedFinite
  <2>3. \A f \in S : aged(f) \in T
    BY <1>1, <1>5, <2>1, Numbers DEF Aged, Older, Ages
  <2>4. \A g \in T : \E f \in S : g = aged(f)
    BY <1>1, <2>1 DEF Aged, Older
  <2>5. S \subseteq fs
    BY <2>1 DEF Aged
  <2>6. PICK m : m = [f \in S |-> aged(f)]
    OBVIOUS
  <2>7. m \in Bijection(S, T)
    <3> HIDE DEF aged
    <3>1. m \in [S -> T] /\ \A f \in S : m[f] = aged(f)
      BY <2>3, <2>6
    <3>2. \A f, g \in S : m[f] = m[g] => f = g
      BY <1>2, <2>5, <3>1
    <3>3. \A g \in T : \E f \in S : m[f] = g
      BY <2>4, <3>1
    <3> QED
      BY <3>1, <3>2, <3>3 DEF Bijection, Injection, Surjection, IsInjective
  <2>8. ExistsBijection(S, T)
    BY <2>7 DEF ExistsBijection
  <2> QED
    BY <2>1, <2>2, <2>8, FS_Bijection
<1> QED
  BY <1>3, <1>4, <1>5

-----------------------------------------------------------------------------
(* What is said of one address outlives a step that leaves its failures    *)
(* alone and, while it is locked, lets no further request of it in.        *)
LEMMA AddressKept ==
  ASSUME TypeOK, NEW ip \in Ips, AddressInv(ip),
         failures'[ip] = failures[ip], cooldown'[ip] = cooldown[ip], log'[ip] = log[ip],
         Locked(ip) => Checked(ip)' \subseteq Checked(ip)
  PROVE  AddressInv(ip)'
<1>1. Numbered(ip)' /\ Remembered(ip)' /\ Burst(ip)' /\ (Unforgotten(ip) => Unforgotten(ip)')
  BY DEF AddressInv, Numbered, Remembered, Burst, Locked, Unforgotten
<1>2. Locked(ip) => /\ Cardinality(Checked(ip)') <= Cardinality(Checked(ip))
                    /\ Cardinality(Checked(ip)') \in Nat
  BY CheckedFinite, FS_Subset, FS_CardinalityType
<1>3. Recent(ip)' = Recent(ip) /\ Locked(ip)' = Locked(ip)
  BY DEF Recent, Locked
<1>4. Cardinality(Recent(ip)) \in Nat
  BY AgedFinite DEF TypeOK, Recent
<1>5. LateBounded(ip) => LateBounded(ip)'
  BY <1>2, <1>3, <1>4, CheckedFinite, Numbers DEF LateBounded
<1> QED
  BY <1>1, <1>5 DEF AddressInv, Bounded

-----------------------------------------------------------------------------
(* A request passes check(), or leaves without a failure.                  *)
LEMMA RequestDoes ==
  ASSUME TypeOK,
         \/ \E r \in Requests, ip \in Ips : CheckPasses(r, ip) \/ CheckRefuses(r, ip)
         \/ \E r \in Requests : Succeed(r)
  PROVE  /\ failures' = failures /\ cooldown' = cooldown /\ log' = log /\ refused' = refused
         /\ request' \in [Requests -> {Idle} \union [op: {"checked"}, ip: Ips]]
         /\ \A ip \in Ips : Locked(ip) => Checked(ip)' \subseteq Checked(ip)
<1> DEFINE Done == /\ failures' = failures /\ cooldown' = cooldown /\ log' = log /\ refused' = refused
                   /\ request' \in [Requests -> {Idle} \union [op: {"checked"}, ip: Ips]]
                   /\ \A ip \in Ips : Locked(ip) => Checked(ip)' \subseteq Checked(ip)
<1>1. ASSUME NEW r \in Requests, NEW ip \in Ips, CheckPasses(r, ip)
      PROVE  Done
  <2>1. /\ failures' = failures /\ cooldown' = cooldown /\ log' = log /\ refused' = refused
        /\ ~Locked(ip)
        /\ request' \in [Requests -> {Idle} \union [op: {"checked"}, ip: Ips]]
    BY <1>1 DEF CheckPasses, TypeOK
  <2>2. \A q \in Requests : request'[q] = request[q] \/ request'[q].ip = ip
    BY <1>1 DEF CheckPasses, TypeOK
  <2> QED
    BY <2>1, <2>2 DEF Checked
<1>2. ASSUME NEW r \in Requests, NEW ip \in Ips, CheckRefuses(r, ip)
      PROVE  Done
  BY <1>2 DEF CheckRefuses, AfterRefusal, TypeOK, Checked
<1>3. ASSUME NEW r \in Requests, Succeed(r)
      PROVE  Done
  <2>1. /\ failures' = failures /\ cooldown' = cooldown /\ log' = log /\ refused' = refused
        /\ request' \in [Requests -> {Idle} \union [op: {"checked"}, ip: Ips]]
    BY <1>3 DEF Succeed, TypeOK
  <2>2. \A q \in Requests : request'[q] = request[q] \/ request'[q].op = "idle"
    BY <1>3 DEF Succeed, TypeOK, Idle
  <2> QED
    BY <2>1, <2>2 DEF Checked
<1> QED
  BY <1>1, <1>2, <1>3

LEMMA RequestStep ==
  ASSUME TypeOK, LimiterInv,
         \/ \E r \in Requests, ip \in Ips : CheckPasses(r, ip) \/ CheckRefuses(r, ip)
         \/ \E r \in Requests : Succeed(r)
  PROVE  TypeOK' /\ LimiterInv'
<1>1. /\ failures' = failures /\ cooldown' = cooldown /\ log' = log /\ refused' = refused
      /\ request' \in [Requests -> {Idle} \union [op: {"checked"}, ip: Ips]]
      /\ \A ip \in Ips : Locked(ip) => Checked(ip)' \subseteq Checked(ip)
  BY RequestDoes
<1>2. TypeOK'
  BY <1>1 DEF TypeOK
<1>3. ASSUME NEW ip \in Ips PROVE AddressInv(ip)'
  BY <1>1, AddressKept DEF LimiterInv, AddressInv
<1> QED
  BY <1>2, <1>3 DEF LimiterInv, AddressInv

(* record_failure().                                                       *)
LEMMA FailDoes ==
  ASSUME TypeOK, NEW r \in Requests, Fail(r), NEW ip, ip = request[r].ip,
         NEW kept, kept = Retained(ip) \union {Now(ip)}
  PROVE  /\ ip \in Ips /\ r \in Checked(ip)
         /\ Now(ip) \in Failure /\ Now(ip).age = 0 /\ Now(ip).nth = Cardinality(Aged(0, 1, log[ip]))
         /\ kept \in SUBSET Failure /\ IsFiniteSet(kept) /\ Cardinality(kept) \in Nat
         /\ failures'[ip] = IF Cardinality(kept) >= MaxFailures THEN {} ELSE kept
         /\ cooldown'[ip] = IF Cardinality(kept) >= MaxFailures THEN Cooldown ELSE cooldown[ip]
         /\ log'[ip] = log[ip] \union {Now(ip)}
         /\ Checked(ip)' = Checked(ip) \ {r}
         /\ \A j \in Ips \ {ip} : /\ failures'[j] = failures[j] /\ cooldown'[j] = cooldown[j]
                                  /\ log'[j] = log[j] /\ Checked(j)' = Checked(j)
         /\ refused' = refused
         /\ TypeOK'
<1>1. ip \in Ips /\ r \in Checked(ip)
  BY DEF TypeOK, Fail, Idle, Checked
<1>2. Now(ip) \in Failure /\ Now(ip).age = 0 /\ Now(ip).nth = Cardinality(Aged(0, 1, log[ip]))
  BY <1>1, AgedFinite, Numbers DEF TypeOK, Now, Failure
<1>3. kept \in SUBSET Failure /\ IsFiniteSet(kept) /\ Cardinality(kept) \in Nat
  <2>1. Retained(ip) \in SUBSET failures[ip] /\ IsFiniteSet(failures[ip])
    BY <1>1 DEF Retained, TypeOK
  <2>2. IsFiniteSet(Retained(ip))
    BY <2>1, FS_Subset
  <2>3. IsFiniteSet(kept)
    BY <2>2, FS_AddElement
  <2>4. Retained(ip) \in SUBSET Failure
    BY <1>1, <2>1 DEF TypeOK
  <2> QED
    BY <1>2, <2>3, <2>4, FS_CardinalityType
<1>4. /\ failures' = [failures EXCEPT ![ip] = IF Cardinality(kept) >= MaxFailures THEN {} ELSE kept]
      /\ cooldown' = [cooldown EXCEPT ![ip] =
                        IF Cardinality(kept) >= MaxFailures THEN Cooldown ELSE cooldown[ip]]
      /\ log' = [log EXCEPT ![ip] = log[ip] \union {Now(ip)}]
      /\ request' = [request EXCEPT ![r] = Idle]
      /\ refused' = refused
  BY DEF Fail, record_failure, Reached, Cleared
<1>5. /\ failures'[ip] = IF Cardinality(kept) >= MaxFailures THEN {} ELSE kept
      /\ cooldown'[ip] = IF Cardinality(kept) >= MaxFailures THEN Cooldown ELSE cooldown[ip]
      /\ log'[ip] = log[ip] \union {Now(ip)}
      /\ \A j \in Ips \ {ip} : failures'[j] = failures[j] /\ cooldown'[j] = cooldown[j] /\ log'[j] = log[j]
  BY <1>1, <1>4 DEF TypeOK
<1>6. request'[r].op = "idle" /\ \A q \in Requests \ {r} : request'[q] = request[q]
  BY <1>4 DEF TypeOK, Idle
<1>7. Checked(ip)' = Checked(ip) \ {r} /\ \A j \in Ips \ {ip} : Checked(j)' = Checked(j)
  BY <1>6 DEF Checked
<1>8. TypeOK'
  <2>1. failures' \in [Ips -> SUBSET Failure]
    BY <1>3, <1>4 DEF TypeOK
  <2>2. \A j \in Ips : IsFiniteSet(failures'[j]) /\ Cardinality(failures'[j]) < MaxFailures
    BY <1>3, <1>5, FS_EmptySet, Numbers DEF TypeOK
  <2>3. cooldown' \in [Ips -> 0..Cooldown]
    <3>1. Cooldown \in 0..Cooldown /\ cooldown \in [Ips -> 0..Cooldown]
      BY Numbers DEF TypeOK
    <3> QED
      BY <1>4, <3>1
  <2>4. request' \in [Requests -> {Idle} \union [op: {"checked"}, ip: Ips]]
    BY <1>4 DEF TypeOK
  <2>5. log' \in [Ips -> SUBSET Failure]
    BY <1>2, <1>4 DEF TypeOK
  <2>6. \A j \in Ips : IsFiniteSet(log'[j])
    <3>1. IsFiniteSet(log[ip])
      BY <1>1 DEF TypeOK
    <3>2. IsFiniteSet(log[ip] \union {Now(ip)})
      BY <3>1, FS_AddElement
    <3> QED
      BY <1>5, <3>2 DEF TypeOK
  <2>7. refused' \in [Ips -> 0..Longest]
    <3>1. Longest' = Longest
      BY DEF Longest
    <3> QED
      BY <1>4, <3>1 DEF TypeOK
  <2> QED
    BY <2>1, <2>2, <2>3, <2>4, <2>5, <2>6, <2>7 DEF TypeOK
<1> QED
  BY <1>1, <1>2, <1>3, <1>4, <1>5, <1>7, <1>8

(* The one step that adds a failure and may start a cooldown.              *)
LEMMA FailStep ==
  ASSUME TypeOK, LimiterInv, NEW r \in Requests, Fail(r)
  PROVE  TypeOK' /\ LimiterInv'
<1>1. PICK ip, kept : ip = request[r].ip /\ kept = Retained(ip) \union {Now(ip)}
  OBVIOUS
<1>2. PICK now : now = Now(ip)
  OBVIOUS
<1>3. /\ ip \in Ips /\ r \in Checked(ip)
      /\ now \in Failure /\ now.age = 0 /\ now.nth = Cardinality(Aged(0, 1, log[ip]))
      /\ kept \in SUBSET Failure /\ IsFiniteSet(kept) /\ Cardinality(kept) \in Nat
      /\ failures'[ip] = IF Cardinality(kept) >= MaxFailures THEN {} ELSE kept
      /\ cooldown'[ip] = IF Cardinality(kept) >= MaxFailures THEN Cooldown ELSE cooldown[ip]
      /\ log'[ip] = log[ip] \union {now}
      /\ Checked(ip)' = Checked(ip) \ {r}
      /\ \A j \in Ips \ {ip} : /\ failures'[j] = failures[j] /\ cooldown'[j] = cooldown[j]
                               /\ log'[j] = log[j] /\ Checked(j)' = Checked(j)
      /\ TypeOK'
  BY <1>1, <1>2, FailDoes
<1>4. AddressInv(ip) /\ IsFiniteSet(log[ip]) /\ log[ip] \subseteq Failure /\ failures[ip] \subseteq Failure
  BY <1>3 DEF LimiterInv, AddressInv, TypeOK
<1>5. \A f \in Failure : f.age \in Nat /\ f.nth \in Nat
  BY Numbers DEF Failure
<1>6. cooldown[ip] \in 0..Cooldown /\ Cooldown \in Nat /\ Window \in Nat /\ Window >= 1
  BY <1>3, Numbers DEF TypeOK
<1>7. kept = {f \in failures[ip] : f.age < Window} \union {now}
  BY <1>1, <1>2 DEF Retained
<1>8. Numbered(ip)'
  <2>1. PICK S, n : S = Aged(0, 1, log[ip]) /\ n = Cardinality(S)
    OBVIOUS
  <2>2. IsFiniteSet(S) /\ n \in Nat
    BY <1>4, <2>1, AgedFinite
  <2>3. \A f \in S : f.age = 0
    BY <1>4, <1>5, <2>1 DEF Aged
  <2>4. now \notin S
    BY <1>3, <1>4, <2>1, <2>2, <2>3 DEF AddressInv, Numbered, Aged
  <2>5. Aged(0, 1, log'[ip]) = S \union {now}
    BY <1>3, <2>1 DEF Aged
  <2>6. Cardinality(S \union {now}) = n + 1
    BY <2>1, <2>2, <2>4, FS_AddElement
  <2>7. \A f \in log'[ip] : f.age = 0 => f.nth < n + 1
    BY <1>3, <1>4, <1>5, <2>1, <2>2 DEF AddressInv, Numbered
  <2> QED
    BY <2>5, <2>6, <2>7 DEF Numbered
<1>9. Remembered(ip)'
  BY <1>3, <1>4, <1>7 DEF AddressInv, Remembered
<1>10. Burst(ip)'
  <2>1. CASE Cardinality(kept) >= MaxFailures
    <3>1. cooldown'[ip] = Cooldown /\ Cooldown - cooldown'[ip] = 0
      BY <1>3, <1>6, <2>1
    <3>2. kept \subseteq Aged(0, Window, log'[ip])
      BY <1>3, <1>4, <1>5, <1>6, <1>7 DEF Aged, AddressInv, Remembered
    <3>3. IsFiniteSet(log'[ip])
      BY <1>3 DEF TypeOK
    <3>4. Cardinality(kept) <= Cardinality(Aged(0, Window, log'[ip]))
          /\ Cardinality(Aged(0, Window, log'[ip])) \in Nat
      BY <3>2, <3>3, AgedFinite, FS_Subset
    <3>5. Cardinality(Aged(0, 0 + Window, log'[ip])) >= MaxFailures
      BY <1>3, <1>6, <2>1, <3>4, Numbers
    <3> QED
      BY <3>1, <3>5 DEF Burst
  <2>2. CASE ~(Cardinality(kept) >= MaxFailures)
    <3>1. PICK from, to : from = Cooldown - cooldown[ip] /\ to = (Cooldown - cooldown[ip]) + Window
      OBVIOUS
    <3>2. /\ Cardinality(Aged(from, to, log[ip])) <= Cardinality(Aged(from, to, log'[ip]))
          /\ Cardinality(Aged(from, to, log[ip])) \in Nat
      BY <1>3, <1>4, AgedGrows, AgedFinite
    <3>3. Cardinality(Aged(from, to, log'[ip])) \in Nat
      BY <1>3, AgedFinite DEF TypeOK
    <3> QED
      BY <1>3, <1>4, <2>2, <3>1, <3>2, <3>3, Numbers DEF AddressInv, Burst, Locked
  <2> QED
    BY <2>1, <2>2
<1>11. Cooldown >= Window /\ Unforgotten(ip) => Unforgotten(ip)'
  <2>1. CASE Cardinality(kept) >= MaxFailures
    <3>1. \A f \in log'[ip] : f.age \in Nat
      BY <1>3, <1>4, <1>5
    <3> QED
      BY <1>3, <1>6, <2>1, <3>1 DEF Unforgotten, Locked
  <2>2. CASE ~(Cardinality(kept) >= MaxFailures)
    BY <1>3, <1>7, <2>2 DEF Unforgotten, Locked
  <2> QED
    BY <2>1, <2>2
<1>12. Cooldown >= Window /\ Unforgotten(ip) /\ LateBounded(ip) => LateBounded(ip)'
  <2> SUFFICES ASSUME Cooldown >= Window, Unforgotten(ip), LateBounded(ip), Locked(ip)'
               PROVE  Cardinality(Recent(ip)') + Cardinality(Checked(ip)') <
                        MaxFailures + Cardinality(Requests)
    BY DEF LateBounded
  <2>1. Cardinality(Checked(ip)') = Cardinality(Checked(ip)) - 1
    <3>1. PICK S : S = Checked(ip)
      OBVIOUS
    <3>2. IsFiniteSet(S) /\ r \in S /\ Checked(ip)' = S \ {r}
      BY <1>3, <3>1, CheckedFinite
    <3>3. Cardinality(S \ {r}) = Cardinality(S) - 1
      BY <3>2, FS_RemoveElement
    <3> QED
      BY <3>1, <3>2, <3>3
  <2>2. /\ Cardinality(Recent(ip)') <= Cardinality(Recent(ip)) + 1
        /\ Cardinality(Recent(ip)) \in Nat /\ Cardinality(Recent(ip)') \in Nat
    <3>1. Recent(ip)' = Aged(0, Window, log[ip] \union {now})
      BY <1>3 DEF Recent
    <3>2. IsFiniteSet(log[ip] \union {now})
      BY <1>4, FS_AddElement
    <3> QED
      BY <1>4, <3>1, <3>2, AgedGrows, AgedFinite DEF Recent
  <2>3. /\ Cardinality(Checked(ip)) \in Nat /\ Cardinality(Checked(ip)) <= Cardinality(Requests)
        /\ Cardinality(Requests) \in Nat /\ MaxFailures \in Nat
    BY CheckedFinite, Numbers
  <2>4. CASE Locked(ip)
    <3>1. Cardinality(Recent(ip)) + Cardinality(Checked(ip)) < MaxFailures + Cardinality(Requests)
      BY <2>4 DEF LateBounded
    <3> QED
      BY <2>1, <2>2, <2>3, <3>1
  <2>5. CASE ~Locked(ip)
    <3>1. Recent(ip) \subseteq failures[ip]
      BY <2>5 DEF Recent, Aged, Unforgotten
    <3>2. IsFiniteSet(failures[ip]) /\ Cardinality(failures[ip]) < MaxFailures
      BY <1>3 DEF TypeOK
    <3>3. Cardinality(failures[ip]) \in Nat
      BY <3>2, FS_CardinalityType
    <3>4. Cardinality(Recent(ip)) <= Cardinality(failures[ip])
      BY <3>1, <3>2, FS_Subset
    <3> QED
      BY <2>1, <2>2, <2>3, <3>2, <3>3, <3>4
  <2> QED
    BY <2>4, <2>5
<1>13. AddressInv(ip)'
  BY <1>4, <1>8, <1>9, <1>10, <1>11, <1>12 DEF AddressInv, Bounded
<1>14. ASSUME NEW j \in Ips \ {ip} PROVE AddressInv(j)'
  BY <1>3, AddressKept DEF LimiterInv, AddressInv
<1>15. \A j \in Ips : AddressInv(j)'
  BY <1>13, <1>14
<1> QED
  BY <1>3, <1>15 DEF LimiterInv, AddressInv

-----------------------------------------------------------------------------
(* A tick of the clock.                                                    *)
LEMMA TickStep ==
  ASSUME TypeOK, LimiterInv, Tick
  PROVE  TypeOK' /\ LimiterInv'
<1>1. ASSUME NEW ip \in Ips
      PROVE  /\ failures'[ip] = Older(failures[ip]) /\ log'[ip] = Older(log[ip])
             /\ cooldown'[ip] = IF Locked(ip) THEN cooldown[ip] - 1 ELSE 0
             /\ failures[ip] \in SUBSET Failure /\ log[ip] \in SUBSET Failure
             /\ IsFiniteSet(failures[ip]) /\ Cardinality(failures[ip]) < MaxFailures
             /\ IsFiniteSet(log[ip])
             /\ cooldown[ip] \in 0..Cooldown
  BY DEF Tick, TypeOK
<1>2. request' = request
  BY DEF Tick
<1>3. TypeOK'
  <2>1. \A ip \in Ips : /\ failures'[ip] \in SUBSET Failure /\ log'[ip] \in SUBSET Failure
                        /\ IsFiniteSet(failures'[ip]) /\ IsFiniteSet(log'[ip])
                        /\ Cardinality(failures'[ip]) <= Cardinality(failures[ip])
    BY <1>1, OlderFinite
  <2>2. \A ip \in Ips : Cardinality(failures'[ip]) < MaxFailures
    BY <1>1, <2>1, FS_CardinalityType, Numbers
  <2>3. \A ip \in Ips : cooldown'[ip] \in 0..Cooldown
    BY <1>1, Numbers DEF Locked
  <2>4. /\ failures' = [ip \in Ips |-> failures'[ip]] /\ log' = [ip \in Ips |-> log'[ip]]
        /\ cooldown' = [ip \in Ips |-> cooldown'[ip]] /\ refused' = [ip \in Ips |-> RefusedFor(ip)]
    BY DEF Tick
  <2>5. \A ip \in Ips : RefusedFor(ip) \in 0..Longest
    BY LongestIs DEF RefusedFor, TypeOK
  <2> QED
    BY <1>2, <2>1, <2>2, <2>3, <2>4, <2>5 DEF TypeOK
<1>4. ASSUME NEW ip \in Ips PROVE AddressInv(ip)'
  <2>1. AddressInv(ip)
    BY DEF LimiterInv, AddressInv
  <2>2. /\ log'[ip] = Older(log[ip]) /\ failures'[ip] = Older(failures[ip])
        /\ \A f \in log[ip] : f.age \in Nat
        /\ \A f \in log'[ip] : f.age \in Nat /\ f.age > 0
    <3>1. \A f \in Failure : f.age \in Nat
      BY Numbers DEF Failure
    <3> QED
      BY <1>1, <3>1, OlderFinite
  <2>3. Numbered(ip)'
    BY <2>2 DEF Numbered
  <2>4. Remembered(ip)'
    BY <2>1, <2>2 DEF AddressInv, Remembered, Older
  <2>5. Burst(ip)'
    <3> SUFFICES ASSUME Locked(ip)'
                 PROVE  Cardinality(Aged(Cooldown - cooldown'[ip],
                          (Cooldown - cooldown'[ip]) + Window, log'[ip])) >= MaxFailures
      BY DEF Burst
    <3>1. PICK from, to : from = Cooldown - cooldown[ip] /\ to = (Cooldown - cooldown[ip]) + Window
      OBVIOUS
    <3>2. /\ Locked(ip) /\ from \in Nat /\ to \in Nat /\ to < Window + Cooldown
          /\ Cooldown - cooldown'[ip] = from + 1
          /\ (Cooldown - cooldown'[ip]) + Window = to + 1
      BY <1>1, <3>1, Numbers DEF Locked
    <3>3. Cardinality(Aged(from + 1, to + 1, log'[ip])) = Cardinality(Aged(from, to, log[ip]))
      BY <1>1, <2>2, <3>2, OlderFinite
    <3> QED
      BY <2>1, <3>1, <3>2, <3>3 DEF AddressInv, Burst
  <2>6. Cooldown >= Window /\ Unforgotten(ip) => Unforgotten(ip)'
    <3> SUFFICES ASSUME Cooldown >= Window, Unforgotten(ip), NEW f \in log'[ip], f.age < Window,
                        Locked(ip)' => f.age < Cooldown - cooldown'[ip]
                 PROVE  f \in failures'[ip]
      BY DEF Unforgotten
    <3>1. PICK g \in log[ip] : g.age + 1 \in Ages /\ f = [age |-> g.age + 1, nth |-> g.nth]
      BY <2>2 DEF Older
    <3>2. g.age \in Nat /\ g.age < Window /\ f.age = g.age + 1
      BY <2>2, <3>1, Numbers
    <3>3. Locked(ip) => g.age < Cooldown - cooldown[ip]
      BY <1>1, <3>2, Numbers DEF Locked
    <3>4. g \in failures[ip]
      BY <3>2, <3>3 DEF Unforgotten
    <3> QED
      BY <2>2, <3>1, <3>4 DEF Older
  <2>7. LateBounded(ip) => LateBounded(ip)'
    <3>1. Locked(ip)' => Locked(ip)
      BY <1>1, Numbers DEF Locked
    <3>2. Checked(ip)' = Checked(ip)
      BY <1>2 DEF Checked
    <3>3. Cardinality(Recent(ip)') <= Cardinality(Recent(ip))
          /\ Cardinality(Recent(ip)) \in Nat /\ Cardinality(Recent(ip)') \in Nat
      <4>1. Recent(ip)' = Aged(0 + 1, (Window - 1) + 1, Older(log[ip]))
        BY <2>2, Numbers DEF Recent, Aged
      <4>2. Cardinality(Recent(ip)') = Cardinality(Aged(0, Window - 1, log[ip]))
        BY <1>1, <4>1, OlderFinite, Numbers
      <4>3. Aged(0, Window - 1, log[ip]) \subseteq Recent(ip)
        BY <2>2, Numbers DEF Recent, Aged
      <4>4. IsFiniteSet(Recent(ip)) /\ Cardinality(Recent(ip)) \in Nat
            /\ Cardinality(Aged(0, Window - 1, log[ip])) \in Nat
        BY <1>1, AgedFinite DEF Recent
      <4>5. Cardinality(Aged(0, Window - 1, log[ip])) <= Cardinality(Recent(ip))
        BY <1>1, <4>3, <4>4, AgedFinite
      <4> QED
        BY <4>2, <4>4, <4>5
    <3> QED
      BY <3>1, <3>2, <3>3, CheckedFinite, Numbers DEF LateBounded
  <2> QED
    BY <2>1, <2>3, <2>4, <2>5, <2>6, <2>7 DEF AddressInv, Bounded
<1> QED
  BY <1>3, <1>4 DEF LimiterInv, AddressInv

-----------------------------------------------------------------------------
(* Nobody has failed at start.                                             *)
LEMMA LimiterInit ==
  ASSUME Init
  PROVE  TypeOK /\ LimiterInv
<1>1. \A ip \in Ips : failures[ip] = {} /\ cooldown[ip] = 0 /\ log[ip] = {}
  BY DEF Init
<1>2. IsFiniteSet({}) /\ Cardinality({}) = 0
  BY FS_EmptySet
<1>3. TypeOK
  <2>1. \A ip \in Ips : /\ IsFiniteSet(failures[ip]) /\ Cardinality(failures[ip]) < MaxFailures
                        /\ IsFiniteSet(log[ip])
    <3>1. 0 < MaxFailures
      BY Numbers
    <3> QED
      BY <1>1, <1>2, <3>1
  <2>2. 0 \in 0..Cooldown
    BY Numbers
  <2>3. failures \in [Ips -> SUBSET Failure] /\ log \in [Ips -> SUBSET Failure]
    BY DEF Init
  <2>4. cooldown \in [Ips -> 0..Cooldown]
    BY <2>2 DEF Init
  <2>5. request \in [Requests -> {Idle} \union [op: {"checked"}, ip: Ips]]
    BY DEF Init
  <2>6. refused \in [Ips -> 0..Longest]
    BY LongestIs DEF Init
  <2> QED
    BY <2>1, <2>3, <2>4, <2>5, <2>6 DEF TypeOK
<1>4. \A ip \in Ips : Numbered(ip) /\ Remembered(ip) /\ Unforgotten(ip) /\ ~Locked(ip)
  BY <1>1 DEF Numbered, Remembered, Unforgotten, Locked
<1> QED
  BY <1>3, <1>4 DEF LimiterInv, AddressInv, Burst, Bounded, LateBounded

(* Every step keeps the type and the invariant.                            *)
LEMMA LimiterStep ==
  ASSUME TypeOK, LimiterInv, [Next]_vars
  PROVE  TypeOK' /\ LimiterInv'
<1>1. CASE \E r \in Requests, ip \in Ips : CheckPasses(r, ip) \/ CheckRefuses(r, ip)
  BY <1>1, RequestStep
<1>2. CASE \E r \in Requests : Succeed(r)
  BY <1>2, RequestStep
<1>3. CASE \E r \in Requests : Fail(r)
  BY <1>3, FailStep
<1>4. CASE Tick
  BY <1>4, TickStep
<1>5. CASE UNCHANGED vars
  <2>1. TypeOK'
    BY <1>5 DEF vars, TypeOK
  <2>2. ASSUME NEW ip \in Ips PROVE AddressInv(ip)'
    BY <1>5 DEF vars, LimiterInv, AddressInv, Numbered, Remembered, Burst, Bounded, Unforgotten,
               LateBounded, Locked, Recent, Checked
  <2> QED
    BY <2>1, <2>2 DEF LimiterInv, AddressInv
<1> QED
  BY <1>1, <1>2, <1>3, <1>4, <1>5 DEF Next

(* LimiterInv holds in every reachable state.                              *)
LEMMA LimiterInvariant == Spec => [](TypeOK /\ LimiterInv)
<1>1. Init => TypeOK /\ LimiterInv
  BY LimiterInit
<1>2. (TypeOK /\ LimiterInv) /\ [Next]_vars => (TypeOK /\ LimiterInv)'
  BY LimiterStep
<1> QED
  BY <1>1, <1>2, PTL DEF Spec

-----------------------------------------------------------------------------
\* What an address has to fail with before it must pass check() again.
Left(ip) == Cardinality(failures[ip]) + Cardinality(Checked(ip))

\* The cooldown has been renewed n times since the lockout began.
Renewed(ip, n) ==
  /\ MaxFailures * n + Left(ip) < Cardinality(Requests)
  /\ refused[ip] + cooldown[ip] <= Cooldown * (n + 1)

LateInv(ip) ==
  IF Locked(ip) THEN \E n \in Nat : Renewed(ip, n) ELSE refused[ip] = 0

(* What an address has left is a number, as are the times.                 *)
LEMMA LeftIs ==
  ASSUME TypeOK, NEW ip \in Ips
  PROVE  /\ Left(ip) \in Nat /\ Cardinality(failures[ip]) \in Nat
         /\ cooldown[ip] \in 0..Cooldown /\ refused[ip] \in Nat
<1>1. IsFiniteSet(failures[ip]) /\ cooldown[ip] \in 0..Cooldown /\ refused[ip] \in 0..Longest
  BY DEF TypeOK
<1> QED
  BY <1>1, CheckedFinite, LongestIs, FS_CardinalityType DEF Left

(* One more in a product.                                                  *)
LEMMA OneMore ==
  ASSUME NEW a \in Nat, NEW n \in Nat
  PROVE  a * (n + 1) = a * n + a /\ a * n \in Nat
  OBVIOUS

(* A step that leaves the times alone and adds nothing to what an address  *)
(* has left.                                                               *)
LEMMA LateKept ==
  ASSUME TypeOK, TypeOK', NEW ip \in Ips, LateInv(ip),
         cooldown'[ip] = cooldown[ip], refused'[ip] = refused[ip],
         Locked(ip) => Left(ip)' <= Left(ip)
  PROVE  LateInv(ip)'
<1>1. Locked(ip)' = Locked(ip)
  BY DEF Locked
<1>2. Left(ip) \in Nat /\ Left(ip)' \in Nat
  <2>1. Left(ip) \in Nat
    BY LeftIs
  <2>2. Cardinality(failures'[ip]) \in Nat
    BY FS_CardinalityType DEF TypeOK
  <2>3. Cardinality(Checked(ip)') \in Nat
    BY CheckedLater
  <2> QED
    BY <2>1, <2>2, <2>3 DEF Left
<1>3. CASE Locked(ip)
  <2>1. PICK n \in Nat : Renewed(ip, n)
    BY <1>3 DEF LateInv
  <2>2. MaxFailures * n \in Nat /\ Cardinality(Requests) \in Nat
    BY Numbers, OneMore
  <2>3. MaxFailures * n + Left(ip)' < Cardinality(Requests)
    BY <1>2, <1>3, <2>1, <2>2 DEF Renewed
  <2>4. Renewed(ip, n)'
    BY <2>1, <2>3 DEF Renewed
  <2> QED
    BY <1>1, <1>3, <2>4 DEF LateInv
<1>4. CASE ~Locked(ip)
  BY <1>1, <1>4 DEF LateInv
<1> QED
  BY <1>3, <1>4

(* record_failure() takes one request from what is left and holds one more *)
(* failure, or drops MaxFailures and renews the cooldown.                  *)
LEMMA LateFails ==
  ASSUME TypeOK, NEW r \in Requests, Fail(r), \A j \in Ips : LateInv(j)
  PROVE  \A j \in Ips : LateInv(j)'
<1>1. PICK ip, kept : ip = request[r].ip /\ kept = Retained(ip) \union {Now(ip)}
  OBVIOUS
<1>2. /\ ip \in Ips /\ r \in Checked(ip)
      /\ IsFiniteSet(kept) /\ Cardinality(kept) \in Nat
      /\ failures'[ip] = IF Cardinality(kept) >= MaxFailures THEN {} ELSE kept
      /\ cooldown'[ip] = IF Cardinality(kept) >= MaxFailures THEN Cooldown ELSE cooldown[ip]
      /\ Checked(ip)' = Checked(ip) \ {r}
      /\ \A j \in Ips \ {ip} : /\ failures'[j] = failures[j] /\ cooldown'[j] = cooldown[j]
                               /\ Checked(j)' = Checked(j)
      /\ refused' = refused
      /\ TypeOK'
  BY <1>1, FailDoes
<1>3. PICK held, late : held = Cardinality(failures[ip]) /\ late = Cardinality(Checked(ip))
  OBVIOUS
<1>4. /\ held \in Nat /\ held < MaxFailures /\ late \in Nat /\ late <= Cardinality(Requests)
      /\ cooldown[ip] \in 0..Cooldown /\ refused[ip] \in Nat
      /\ MaxFailures \in Nat /\ MaxFailures >= 1 /\ Cooldown \in Nat
      /\ Cardinality(Requests) \in Nat
      /\ Left(ip) = held + late
  BY <1>2, <1>3, LeftIs, CheckedFinite, Numbers DEF TypeOK, Left
<1>5. Cardinality(Checked(ip)') = late - 1 /\ late >= 1
  <2>1. PICK S : S = Checked(ip)
    OBVIOUS
  <2>2. IsFiniteSet(S) /\ r \in S /\ Checked(ip)' = S \ {r}
    BY <1>2, <2>1, CheckedFinite
  <2>3. Cardinality(S \ {r}) = Cardinality(S) - 1 /\ IsFiniteSet(S \ {r})
    BY <2>2, FS_RemoveElement
  <2>4. Cardinality(S \ {r}) \in Nat
    BY <2>3, FS_CardinalityType
  <2> QED
    BY <1>3, <1>4, <2>1, <2>2, <2>3, <2>4
<1>6. Cardinality(kept) <= held + 1
  <2>1. Retained(ip) \in SUBSET failures[ip] /\ IsFiniteSet(failures[ip])
    BY <1>2 DEF Retained, TypeOK
  <2>2. /\ IsFiniteSet(Retained(ip)) /\ Cardinality(Retained(ip)) <= held
        /\ Cardinality(Retained(ip)) \in Nat
    BY <1>3, <2>1, FS_Subset, FS_CardinalityType
  <2>3. PICK S, f : S = Retained(ip) /\ f = Now(ip)
    OBVIOUS
  <2>4. Cardinality(S \union {f}) = IF f \in S THEN Cardinality(S) ELSE Cardinality(S) + 1
    BY <2>2, <2>3, FS_AddElement
  <2> QED
    BY <1>1, <1>4, <2>2, <2>3, <2>4
<1>7. LateInv(ip)'
  <2>1. CASE Cardinality(kept) < MaxFailures
    <3>1. failures'[ip] = kept /\ cooldown'[ip] = cooldown[ip]
      BY <1>2, <1>4, <2>1
    <3>2. Left(ip)' <= Left(ip)
      BY <1>2, <1>4, <1>5, <1>6, <3>1 DEF Left
    <3> QED
      BY <1>2, <3>1, <3>2, LateKept
  <2>2. CASE Cardinality(kept) >= MaxFailures
    <3>1. /\ failures'[ip] = {} /\ cooldown'[ip] = Cooldown /\ refused'[ip] = refused[ip]
          /\ held >= MaxFailures - 1
      BY <1>2, <1>4, <1>6, <2>2
    <3>2. Left(ip)' = late - 1
      BY <1>4, <1>5, <3>1, FS_EmptySet DEF Left
    <3>3. CASE Locked(ip)
      <4>1. PICK n \in Nat : Renewed(ip, n)
        BY <1>2, <3>3 DEF LateInv
      <4>2. PICK a, b : a = MaxFailures * n /\ b = Cooldown * (n + 1)
        OBVIOUS
      <4>3. /\ a \in Nat /\ MaxFailures * (n + 1) = a + MaxFailures
            /\ b \in Nat /\ Cooldown * ((n + 1) + 1) = b + Cooldown
        BY <1>4, <4>2, OneMore
      <4>4. a + (held + late) < Cardinality(Requests) /\ refused[ip] + cooldown[ip] <= b
        BY <1>4, <4>1, <4>2 DEF Renewed
      <4>5. (a + MaxFailures) + (late - 1) < Cardinality(Requests)
            /\ refused[ip] + Cooldown <= b + Cooldown
        BY <1>4, <3>1, <4>3, <4>4
      <4>6. Renewed(ip, n + 1)'
        BY <3>1, <3>2, <4>3, <4>5 DEF Renewed
      <4>7. Cooldown > 0
        BY <1>4, <3>3 DEF Locked
      <4> QED
        BY <3>1, <4>6, <4>7 DEF LateInv, Locked
    <3>4. CASE ~Locked(ip)
      <4>1. refused[ip] = 0
        BY <1>2, <3>4 DEF LateInv
      <4>2. MaxFailures * 0 = 0 /\ Cooldown * (0 + 1) = Cooldown
        BY <1>4
      <4>3. 0 + (late - 1) < Cardinality(Requests) /\ 0 + Cooldown <= Cooldown
        BY <1>4, <1>5
      <4>4. Renewed(ip, 0)'
        BY <3>1, <3>2, <4>1, <4>2, <4>3 DEF Renewed
      <4>5. CASE Cooldown > 0
        BY <3>1, <4>4, <4>5 DEF LateInv, Locked
      <4>6. CASE ~(Cooldown > 0)
        BY <3>1, <4>1, <4>6 DEF LateInv, Locked
      <4> QED
        BY <4>5, <4>6
    <3> QED
      BY <3>3, <3>4
  <2> QED
    BY <1>2, <1>4, <2>1, <2>2
<1>8. ASSUME NEW j \in Ips \ {ip} PROVE LateInv(j)'
  <2>1. Left(j)' = Left(j)
    BY <1>2 DEF Left
  <2>2. Left(j) \in Nat
    BY LeftIs
  <2> QED
    BY <1>2, <2>1, <2>2, LateKept
<1> QED
  BY <1>7, <1>8

(* A tick takes from the cooldown what it adds to the time of refusal.     *)
LEMMA LateTick ==
  ASSUME TypeOK, TypeOK', Tick, NEW ip \in Ips, LateInv(ip)
  PROVE  LateInv(ip)'
<1>1. /\ failures'[ip] = Older(failures[ip]) /\ Checked(ip)' = Checked(ip)
      /\ cooldown'[ip] = IF Locked(ip) THEN cooldown[ip] - 1 ELSE 0
      /\ refused'[ip] = RefusedFor(ip)
  BY DEF Tick, Checked
<1>2. Left(ip)' <= Left(ip) /\ Left(ip)' \in Nat
  <2>1. /\ failures[ip] \in SUBSET Failure /\ IsFiniteSet(failures[ip])
        /\ IsFiniteSet(failures'[ip])
    BY DEF TypeOK
  <2>2. PICK fs : fs = failures[ip]
    OBVIOUS
  <2>3. Cardinality(Older(fs)) <= Cardinality(fs) /\ failures'[ip] = Older(fs)
    BY <1>1, <2>1, <2>2, OlderFinite
  <2>4. Cardinality(fs) \in Nat /\ Cardinality(Older(fs)) \in Nat
    BY <2>1, <2>2, <2>3, FS_CardinalityType
  <2> QED
    BY <1>1, <2>2, <2>3, <2>4, CheckedFinite DEF Left
<1>3. /\ Left(ip) \in Nat /\ cooldown[ip] \in Nat /\ refused[ip] \in Nat
      /\ refused[ip] <= Longest /\ Longest \in Nat /\ Cardinality(Requests) \in Nat
  BY LeftIs, LongestIs, Numbers DEF TypeOK
<1>4. CASE cooldown[ip] > 1
  <2>1. /\ Locked(ip) /\ Locked(ip)' /\ cooldown'[ip] = cooldown[ip] - 1
        /\ refused'[ip] \in Nat /\ refused'[ip] <= refused[ip] + 1
    BY <1>1, <1>3, <1>4 DEF Locked, RefusedFor
  <2>2. PICK n \in Nat : Renewed(ip, n)
    BY <2>1 DEF LateInv
  <2>3. PICK a, b : a = MaxFailures * n /\ b = Cooldown * (n + 1)
    OBVIOUS
  <2>4. a \in Nat /\ b \in Nat
    BY <2>3, OneMore, Numbers
  <2>5. a + Left(ip) < Cardinality(Requests) /\ refused[ip] + cooldown[ip] <= b
    BY <2>2, <2>3 DEF Renewed
  <2>6. a + Left(ip)' < Cardinality(Requests) /\ refused'[ip] + cooldown'[ip] <= b
    BY <1>2, <1>3, <2>1, <2>4, <2>5
  <2>7. Renewed(ip, n)'
    BY <2>3, <2>6 DEF Renewed
  <2> QED
    BY <2>1, <2>7 DEF LateInv
<1>5. CASE ~(cooldown[ip] > 1)
  <2>1. ~Locked(ip)'
    BY <1>1, <1>3, <1>5 DEF Locked
  <2>2. refused'[ip] = 0
    BY <1>1, <1>3, <1>5 DEF RefusedFor
  <2> QED
    BY <2>1, <2>2 DEF LateInv
<1> QED
  BY <1>4, <1>5

(* The other steps leave the failures and the times alone.                 *)
LEMMA LateElse ==
  ASSUME TypeOK, TypeOK', NEW ip \in Ips, LateInv(ip),
         failures' = failures, cooldown' = cooldown, refused' = refused,
         Locked(ip) => Checked(ip)' \subseteq Checked(ip)
  PROVE  LateInv(ip)'
<1>1. ASSUME Locked(ip) PROVE Left(ip)' <= Left(ip)
  <2>1. PICK S, T : S = Checked(ip) /\ T = Checked(ip)'
    OBVIOUS
  <2>2. IsFiniteSet(S) /\ T \in SUBSET S
    BY <1>1, <2>1, CheckedFinite
  <2>3. Cardinality(T) <= Cardinality(S) /\ Cardinality(S) \in Nat /\ Cardinality(T) \in Nat
    BY <2>2, FS_Subset, FS_CardinalityType
  <2>4. Cardinality(failures[ip]) \in Nat
    BY LeftIs
  <2> QED
    BY <2>1, <2>3, <2>4 DEF Left
<1> QED
  BY <1>1, LateKept

(* Every step keeps it.                                                    *)
LEMMA LateStep ==
  ASSUME TypeOK, TypeOK', [Next]_vars, \A ip \in Ips : LateInv(ip)
  PROVE  \A ip \in Ips : LateInv(ip)'
<1>1. CASE \/ \E r \in Requests, ip \in Ips : CheckPasses(r, ip) \/ CheckRefuses(r, ip)
           \/ \E r \in Requests : Succeed(r)
  <2>1. /\ failures' = failures /\ cooldown' = cooldown /\ refused' = refused
        /\ \A ip \in Ips : Locked(ip) => Checked(ip)' \subseteq Checked(ip)
    BY <1>1, RequestDoes
  <2> QED
    BY <2>1, LateElse
<1>2. CASE \E r \in Requests : Fail(r)
  BY <1>2, LateFails
<1>3. CASE Tick
  BY <1>3, LateTick
<1>4. CASE UNCHANGED vars
  <2>1. failures' = failures /\ cooldown' = cooldown /\ refused' = refused
    BY <1>4 DEF vars
  <2>2. \A ip \in Ips : Checked(ip)' = Checked(ip)
    BY <1>4 DEF vars, Checked
  <2> QED
    BY <2>1, <2>2, LateElse
<1> QED
  BY <1>1, <1>2, <1>3, <1>4 DEF Next

-----------------------------------------------------------------------------
(* Every state has its type; in particular the Vec of an address holds     *)
(* fewer than max_failures failures, and a cooldown never exceeds the      *)
(* configured one.                                                         *)
THEOREM LimiterTypeCorrect == Spec => []TypeOK
BY LimiterInvariant, PTL

(* F31: when the cooldown of an address started, it had failed max_failures *)
(* times within one window.  Successful requests and requests refused by   *)
(* check() never start a cooldown, and nor do late failures of another     *)
(* address.                                                                *)
THEOREM LockoutsNeedBursts == Spec => []LockoutNeedsBurst
<1>1. LimiterInv => LockoutNeedsBurst
  BY DEF LimiterInv, AddressInv, Burst, LockoutNeedsBurst
<1> QED
  BY <1>1, LimiterInvariant, PTL

(* F31: within a window an address fails fewer than max_failures times     *)
(* plus the requests that may be between check() and record_failure().     *)
THEOREM AttemptsAreBounded == Spec => []AttemptsBounded
<1>1. ASSUME TypeOK, LimiterInv
      PROVE  AttemptsBounded
  <2> SUFFICES ASSUME Cooldown >= Window, NEW ip \in Ips
               PROVE  Cardinality(Recent(ip)) < MaxFailures + Cardinality(Requests)
    BY DEF AttemptsBounded, Recent
  <2>1. Unforgotten(ip) /\ LateBounded(ip)
    BY <1>1 DEF LimiterInv, AddressInv, Bounded
  <2>2. /\ IsFiniteSet(log[ip]) /\ IsFiniteSet(failures[ip])
        /\ Cardinality(failures[ip]) < MaxFailures
    BY <1>1 DEF TypeOK
  <2>3. Cardinality(Recent(ip)) \in Nat /\ Cardinality(failures[ip]) \in Nat
    BY <2>2, AgedFinite, FS_CardinalityType DEF Recent
  <2>4. CASE Locked(ip)
    BY <2>1, <2>3, <2>4, CheckedFinite, Numbers DEF LateBounded
  <2>5. CASE ~Locked(ip)
    <3>1. Recent(ip) \subseteq failures[ip]
      BY <2>1, <2>5 DEF Recent, Aged, Unforgotten
    <3>2. Cardinality(Recent(ip)) <= Cardinality(failures[ip])
      BY <2>2, <3>1, FS_Subset
    <3> QED
      BY <2>2, <2>3, <3>2, Numbers
  <2> QED
    BY <2>4, <2>5
<1>2. TypeOK /\ LimiterInv => AttemptsBounded
  BY <1>1
<1> QED
  BY <1>2, LimiterInvariant, PTL

(* A lockout lasts one cooldown, and at most one more for every            *)
(* max_failures requests that were in flight when it began (auth.rs:70-72):*)
(* late failures renew it, but use themselves up, and requests refused by  *)
(* check() do not prolong it.                                              *)
THEOREM LockoutsAreBounded == Spec => []LockoutBounded
<1>1. Init => \A ip \in Ips : LateInv(ip)
  BY DEF Init, LateInv, Locked
<1>2. TypeOK /\ TypeOK' /\ (\A ip \in Ips : LateInv(ip)) /\ [Next]_vars =>
        (\A ip \in Ips : LateInv(ip))'
  BY LateStep
<1>3. TypeOK /\ (\A ip \in Ips : LateInv(ip)) => LockoutBounded
  <2> SUFFICES ASSUME TypeOK, NEW ip \in Ips, LateInv(ip), Locked(ip)
               PROVE  \E n \in 0..Cardinality(Requests) :
                        MaxFailures * n < Cardinality(Requests) /\ refused[ip] < Cooldown * (n + 1)
    BY DEF LockoutBounded
  <2>1. PICK n \in Nat : Renewed(ip, n)
    BY DEF LateInv
  <2>2. PICK a, b : a = MaxFailures * n /\ b = Cooldown * (n + 1)
    OBVIOUS
  <2>3. a \in Nat /\ b \in Nat /\ Cardinality(Requests) \in Nat
    BY <2>2, OneMore, Numbers
  <2>4. Left(ip) \in Nat /\ cooldown[ip] \in Nat /\ cooldown[ip] > 0 /\ refused[ip] \in Nat
    BY LeftIs DEF Locked
  <2>5. a + Left(ip) < Cardinality(Requests) /\ refused[ip] + cooldown[ip] <= b
    BY <2>1, <2>2 DEF Renewed
  <2>6. a < Cardinality(Requests) /\ refused[ip] < b
    BY <2>3, <2>4, <2>5
  <2>7. n <= a
    BY <2>2, Numbers
  <2>8. n \in 0..Cardinality(Requests)
    BY <2>3, <2>6, <2>7
  <2> QED
    BY <2>2, <2>6, <2>8
<1> QED
  BY <1>1, <1>2, <1>3, LimiterInvariant, PTL DEF Spec
=============================================================================
