----------------------------- MODULE RateLimiter -----------------------------
(***************************************************************************)
(* RateLimiter of src/src/auth.rs and the requests that pass through it in *)
(* require_active_key, require_platform_key and require_dictionary_admin:  *)
(* check() first, then authenticate(), which awaits, then record_failure() *)
(* when no key was sent or the key is refused.                             *)
(*                                                                         *)
(* Time.  An Instant is represented by its age in ticks: Window, Cooldown  *)
(* and the ages are durations of the same unit.  A failure is forgotten    *)
(* when its age reaches Window + Cooldown, long after record_failure()     *)
(* would drop it.                                                          *)
(***************************************************************************)
EXTENDS Naturals, FiniteSets

CONSTANTS
  Ips,          \* client addresses
  Requests,     \* requests that may be in flight together
  MaxFailures,  \* max_failures
  Window,       \* window, in ticks
  Cooldown      \* cooldown, in ticks

(***************************************************************************)
(* The configuration accepts a limit of 0, which acts as 1, and a window   *)
(* of 0, in which no failure but the last counts: neither is considered.   *)
(***************************************************************************)
ASSUME RateLimiterAssumption ==
  /\ IsFiniteSet(Requests)
  /\ MaxFailures \in Nat \ {0} /\ Window \in Nat \ {0} /\ Cooldown \in Nat

VARIABLES
  failures,  \* FailureWindow.failures of each address
  cooldown,  \* FailureWindow.cooldown_until: ticks left, 0 for none or past
  request,   \* where each request stands
  log,       \* history: all failures of each address, dropped ones too
  refused    \* history: ticks for which each address has been locked out by now

vars == <<failures, cooldown, request, log, refused>>

\* A bound of the history: it stops counting there.
Longest == Cooldown * Cardinality(Requests)

Ages == 0..(Window + Cooldown - 1)

\* One Instant of the Vec: its age, and its number among those of its tick.
Failure == [age: Ages, nth: Nat]

\* The failures of some age in from..(to - 1).
Aged(from, to, fs) == {f \in fs : from <= f.age /\ f.age < to}

(***************************************************************************)
(* A request has arrived from an address, or it has passed check() and     *)
(* authenticate() has not come back.                                       *)
(***************************************************************************)
Idle == [op |-> "idle"]

TypeOK ==
  /\ failures \in [Ips -> SUBSET Failure]
  /\ \A ip \in Ips : IsFiniteSet(failures[ip]) /\ Cardinality(failures[ip]) < MaxFailures
  /\ cooldown \in [Ips -> 0..Cooldown]
  /\ request \in [Requests -> {Idle} \union [op: {"checked"}, ip: Ips]]
  /\ log \in [Ips -> SUBSET Failure]
  /\ \A ip \in Ips : IsFiniteSet(log[ip])
  /\ refused \in [Ips -> 0..Longest]

Init ==
  /\ failures = [ip \in Ips |-> {}]
  /\ cooldown = [ip \in Ips |-> 0]
  /\ request = [r \in Requests |-> Idle]
  /\ log = [ip \in Ips |-> {}]
  /\ refused = [ip \in Ips |-> 0]

-----------------------------------------------------------------------------
Locked(ip) == cooldown[ip] > 0

(***************************************************************************)
(* check(): Err answers 429 and changes nothing.                           *)
(***************************************************************************)
CheckPasses(r, ip) ==
  /\ request[r] = Idle
  /\ ~Locked(ip)
  /\ request' = [request EXCEPT ![r] = [op |-> "checked", ip |-> ip]]
  /\ UNCHANGED <<failures, cooldown, log, refused>>

\* Mutant: a refused request starts the cooldown again.
RenewedOnRefusal(ip) == Cooldown

AfterRefusal(ip) == cooldown[ip]

CheckRefuses(r, ip) ==
  /\ request[r] = Idle
  /\ Locked(ip)
  /\ cooldown' = [cooldown EXCEPT ![ip] = AfterRefusal(ip)]
  /\ UNCHANGED <<failures, request, log, refused>>

(***************************************************************************)
(* authenticate() finds the key, or the client goes away during its await: *)
(* the limiter is not touched.                                             *)
(***************************************************************************)
Succeed(r) ==
  /\ request[r].op = "checked"
  /\ request' = [request EXCEPT ![r] = Idle]
  /\ UNCHANGED <<failures, cooldown, log, refused>>

\* Mutant: old failures are kept.
RetainedAll(ip) == failures[ip]

\* failures.retain(younger than window)
Retained(ip) == {f \in failures[ip] : f.age < Window}

\* failures.clear()
Cleared(kept) == {}

\* Mutant: the cooldown starts one failure early.
ReachedEarly(kept) == Cardinality(kept) >= MaxFailures - 1

\* Mutant: the cooldown starts one failure late.
ReachedLate(kept) == Cardinality(kept) > MaxFailures

Reached(kept) == Cardinality(kept) >= MaxFailures

\* Instant::now(), told apart from the other failures of this tick.
Now(ip) == [age |-> 0, nth |-> Cardinality(Aged(0, 1, log[ip]))]

(***************************************************************************)
(* No key, or authenticate() returns None: record_failure().               *)
(***************************************************************************)
record_failure(ip) ==
  LET kept == Retained(ip) \union {Now(ip)}
  IN /\ failures' = [failures EXCEPT ![ip] = IF Reached(kept) THEN Cleared(kept) ELSE kept]
     /\ cooldown' = [cooldown EXCEPT ![ip] = IF Reached(kept) THEN Cooldown ELSE cooldown[ip]]
     /\ log' = [log EXCEPT ![ip] = @ \union {Now(ip)}]

Fail(r) ==
  /\ request[r].op = "checked"
  /\ record_failure(request[r].ip)
  /\ request' = [request EXCEPT ![r] = Idle]
  /\ UNCHANGED refused

(***************************************************************************)
(* A tick of the clock.                                                    *)
(***************************************************************************)
Older(fs) == {[age |-> f.age + 1, nth |-> f.nth] : f \in {g \in fs : g.age + 1 \in Ages}}

\* How long an address has been locked out, a tick from now.
RefusedFor(ip) ==
  IF cooldown[ip] <= 1 THEN 0
  ELSE IF refused[ip] < Longest THEN refused[ip] + 1 ELSE Longest

Tick ==
  /\ failures' = [ip \in Ips |-> Older(failures[ip])]
  /\ cooldown' = [ip \in Ips |-> IF Locked(ip) THEN cooldown[ip] - 1 ELSE 0]
  /\ log' = [ip \in Ips |-> Older(log[ip])]
  /\ refused' = [ip \in Ips |-> RefusedFor(ip)]
  /\ UNCHANGED request

Next ==
  \/ \E r \in Requests, ip \in Ips : CheckPasses(r, ip) \/ CheckRefuses(r, ip)
  \/ \E r \in Requests : Succeed(r) \/ Fail(r)
  \/ Tick

(***************************************************************************)
(* Time passes.  Nothing is assumed of requests.                           *)
(***************************************************************************)
Spec == Init /\ [][Next]_vars

FairSpec == Spec /\ WF_vars(Tick)

-----------------------------------------------------------------------------
(***************************************************************************)
(* An address is refused only for a burst: when its cooldown started, it   *)
(* had failed MaxFailures times within one window, whatever was dropped or *)
(* cleared before.                                                         *)
(***************************************************************************)
LockoutNeedsBurst ==
  \A ip \in Ips : Locked(ip) =>
    LET start == Cooldown - cooldown[ip]
    IN Cardinality(Aged(start, start + Window, log[ip])) >= MaxFailures

(***************************************************************************)
(* F31: an address gets MaxFailures attempts in a window.  Requests that   *)
(* passed check() before the cooldown began may still fail during it, so   *)
(* the bound is exceeded by the other requests in flight and by no more.   *)
(* It needs a cooldown that is at least as long as the window, as in the   *)
(* default configuration.                                                  *)
(***************************************************************************)
AttemptsBounded ==
  Cooldown >= Window => \A ip \in Ips :
    Cardinality(Aged(0, Window, log[ip])) < MaxFailures + Cardinality(Requests)

(***************************************************************************)
(* A request that passed check() before the cooldown began and fails late  *)
(* counts again, and MaxFailures of them start the cooldown anew           *)
(* (auth.rs:70-72).  Each such renewal uses up MaxFailures of the requests *)
(* that were in flight, so a lockout lasts one cooldown and at most one    *)
(* more for every MaxFailures of them, whatever the client sends during    *)
(* it: requests that check() refuses do not prolong it.                    *)
(***************************************************************************)
LockoutBounded ==
  \A ip \in Ips : Locked(ip) =>
    \E renewals \in 0..Cardinality(Requests) :
      /\ MaxFailures * renewals < Cardinality(Requests)
      /\ refused[ip] < Cooldown * (renewals + 1)

(***************************************************************************)
(* A cooldown ends, however often the client retries during it and         *)
(* although its earlier requests, failing late, start it again.            *)
(***************************************************************************)
LockoutEnds == \A ip \in Ips : Locked(ip) ~> ~Locked(ip)
=============================================================================
