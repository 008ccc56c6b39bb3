---------------------------- MODULE RequestGates ----------------------------
(***************************************************************************)
(* A request from its arrival to its answer: the middleware of             *)
(* src/src/auth.rs and record_usage, in the layers build_app puts around   *)
(* each group of routes, and the spell-checking handlers behind them       *)
(* (src/src/handlers.rs).  A gate decides on the state it reads when it    *)
(* runs; keys are revoked, tenants suspended and origins removed between   *)
(* two gates of one request, and a client may go away while it waits.      *)
(*                                                                         *)
(* Grain.  One step per read of shared state.  Gates that read the request *)
(* alone are steps of their own.  The stores behind the gates are reduced  *)
(* to the answers they give: TenantStore, KeyStore, OriginStore,           *)
(* EngineRegistry and RateLimiter say how these come about.  What is       *)
(* computed from an address is in Networks, from a body in SpellCheck.     *)
(***************************************************************************)
EXTENDS Networks, SpellCheck, FiniteSets

CONSTANTS
  Tenants,   \* tenants
  Origins,   \* values of the Origin header
  None,      \* no tenant, no header, no body that parses
  Garbled,   \* a header, or a part of one, that is not what it should be
  Keys,      \* keys: their role and tenant
  Hosts,     \* addresses, as the server sees them
  Trusted,   \* trusted_proxies
  Admins,    \* dictionary_admin_cidrs, empty for no restriction
  Calls,     \* what clients send
  Bodies,    \* the bodies they send to the spell-checking routes
  Requests,  \* requests in flight
  Quota      \* quota_limit

Roles == {"platform", "admin", "standard"}

Routes == {"spellcheck", "api_keys", "tenant", "usage", "tenants", "dictionaries"}

KeyRecord == [role: Roles, tenant: Tenants \union {None}]

\* No key was sent, or one that was never issued.
NoKey == [role |-> "none", tenant |-> None]

Call == [route: Routes, key: Keys \union {NoKey}, origin: Origins \union {None, Garbled},
         peer: Hosts, forwarded: Seq(Hosts \union {Garbled})]

ASSUME RequestGatesAssumption ==
  /\ None \notin Tenants \union Origins /\ Garbled \notin Origins \union {None}
  /\ Keys \subseteq KeyRecord
  /\ \A k \in Keys : k.role = "platform" <=> k.tenant = None
  /\ Hosts \subseteq IpAddr /\ Garbled \notin IpAddr
  /\ Trusted \union Admins \subseteq Specs
  /\ \A spec \in Trusted \union Admins : Parses(spec)
  /\ Calls \subseteq Call
  /\ Bodies \subseteq Body /\ None \notin Body
  /\ Quota \in Nat

VARIABLES
  live,       \* keys authenticate() accepts
  suspended,  \* tenants with suspended_at set
  owned,      \* tenant_owns_origin
  left,       \* requests left of each tenant's quota
  request     \* where each request stands

vars == <<live, suspended, owned, left, request>>

(***************************************************************************)
(* The layers of each group, outermost first.  A gate that reads shared    *)
(* state twice is two layers.                                              *)
(***************************************************************************)
TenantLayers == <<"limiter", "key", "active_tenant", "origin_binding">>

\* Mutant: the quota is consumed before the tenant and the origin are looked at.
QuotaFirst == <<"limiter", "key", "quota", "active_tenant", "origin_binding", "usage">>

\* Mutant: record_usage wraps the quota as well.
UsageOutside == TenantLayers \o <<"usage", "quota">>

SpellcheckLayers == TenantLayers \o <<"quota", "usage">>

\* Mutant: the role is not asked for.
AnyRole == TenantLayers

ApiKeyLayers == TenantLayers \o <<"admin">>

UsageLayers == <<"limiter", "key", "scope_role", "scope_tenant", "scope_origin">>

PlatformLayers == <<"no_origin", "limiter", "key", "platform">>

Layers == [
  spellcheck |-> SpellcheckLayers, api_keys |-> ApiKeyLayers, tenant |-> TenantLayers,
  usage |-> UsageLayers, tenants |-> PlatformLayers,
  dictionaries |-> PlatformLayers \o <<"admin_host">>]

(***************************************************************************)
(* Where a request stands: before its at-th layer, in its handler (past    *)
(* the last layer, or "loading" with a body, waiting for the engine), or   *)
(* answered; "panic" and "gone" are answers nobody receives.  billed says  *)
(* that the quota was consumed, watched that record_usage was entered.     *)
(* held and lapsed are history: what was true, and what was false, at some *)
(* moment since the request arrived.                                       *)
(***************************************************************************)
Idle == [op |-> "idle"]

Facts == {"key", "tenant", "origin"}

Request(ops, bodies) ==
  [op: ops, call: Calls, at: 1..7, billed: BOOLEAN, watched: BOOLEAN,
   held: SUBSET Facts, lapsed: SUBSET Facts, body: bodies]

Passing == Request({"passing"}, {None})

Loading == Request({"loading"}, Bodies)

\* What a handler answers, and what a gate does.
HandlerAnswers == {"handled", "invalid-json", "validation-error", "unsupported-language"}

Answers == HandlerAnswers \union
  {"unauthorized", "forbidden", "rate-limited", "quota-exceeded", "panic", "gone"}

Answered == Request(Answers, Bodies \union {None})

TypeOK ==
  /\ live \subseteq Keys
  /\ suspended \subseteq Tenants
  /\ owned \subseteq Tenants \X Origins
  /\ left \in [Tenants -> 0..Quota]
  /\ request \in [Requests -> {Idle} \union Passing \union Loading \union Answered]

Init ==
  /\ live = Keys
  /\ suspended = {}
  /\ owned = {}
  /\ left = [t \in Tenants |-> Quota]
  /\ request = [r \in Requests |-> Idle]

Tenant(c) == c.key.tenant

\* What is true of a call, with these keys, tenants and origins.
Holding(c, keys, out, pairs) ==
  {f \in {"key"} : c.key \in keys}
  \union {f \in {"tenant"} : Tenant(c) \notin out}
  \union {f \in {"origin"} : c.origin = None \/ <<Tenant(c), c.origin>> \in pairs}

-----------------------------------------------------------------------------
(***************************************************************************)
(* What a gate answers to a call; "pass" lets it through.                  *)
(***************************************************************************)
no_origin(c) == IF c.origin # None THEN "forbidden" ELSE "pass"

authenticate(c) == IF c.key \in live THEN "pass" ELSE "unauthorized"

\* The tenant of a platform key is taken with expect().
require_active_tenant(c) ==
  IF Tenant(c) = None THEN "panic" ELSE IF Tenant(c) \in suspended THEN "forbidden" ELSE "pass"

Bound(c) == c.origin = None \/ <<Tenant(c), c.origin>> \in owned

require_origin_binding(c) == IF Bound(c) THEN "pass" ELSE "forbidden"

require_admin(c) == IF c.key.role # "admin" THEN "forbidden" ELSE "pass"

require_quota(c) ==
  IF Tenant(c) = None THEN "panic" ELSE IF left[Tenant(c)] = 0 THEN "quota-exceeded" ELSE "pass"

(***************************************************************************)
(* require_usage_scope: a platform key passes without an Origin header, an *)
(* admin key is put through the checks of its tenant.                      *)
(***************************************************************************)
scope_role(c) ==
  IF c.key.role = "standard" \/ (c.key.role = "platform" /\ c.origin # None)
  THEN "forbidden" ELSE "pass"

scope_tenant(c) == IF c.key.role = "admin" /\ Tenant(c) \in suspended THEN "forbidden" ELSE "pass"

scope_origin(c) == IF c.key.role = "admin" /\ ~Bound(c) THEN "forbidden" ELSE "pass"

require_platform(c) == IF c.key.role # "platform" THEN "forbidden" ELSE "pass"

Within(specs, ip) == \E spec \in specs : contains(parse(spec), ip)

\* The entries of X-Forwarded-For that are addresses; the others are left out.
Chain(forwarded) == {i \in DOMAIN forwarded : forwarded[i] # Garbled}

\* Mutant: the forwarded chain is believed from the left.
LeftmostHost(peer, forwarded) ==
  IF ~Within(Trusted, peer) \/ Chain(forwarded) = {} THEN peer
  ELSE canonical_ip(forwarded[Min(Chain(forwarded))])

(***************************************************************************)
(* The loop pops the chain from the right until a hop is not a trusted     *)
(* proxy, and falls back to the peer.                                      *)
(***************************************************************************)
resolved_client_ip(peer, forwarded) ==
  LET untrusted == {i \in Chain(forwarded) : ~Within(Trusted, forwarded[i])}
  IN IF ~Within(Trusted, peer) \/ untrusted = {} THEN peer
     ELSE canonical_ip(forwarded[Max(untrusted)])

admin_host(c) ==
  IF Admins # {} /\ ~Within(Admins, resolved_client_ip(c.peer, c.forwarded))
  THEN "forbidden" ELSE "pass"

Verdict(layer, c) ==
  CASE layer = "no_origin" -> no_origin(c)
    [] layer = "limiter" -> "pass"
    [] layer = "key" -> authenticate(c)
    [] layer = "active_tenant" -> require_active_tenant(c)
    [] layer = "origin_binding" -> require_origin_binding(c)
    [] layer = "admin" -> require_admin(c)
    [] layer = "quota" -> require_quota(c)
    [] layer = "usage" -> "pass"
    [] layer = "scope_role" -> scope_role(c)
    [] layer = "scope_tenant" -> scope_tenant(c)
    [] layer = "scope_origin" -> scope_origin(c)
    [] layer = "platform" -> require_platform(c)
    [] layer = "admin_host" -> admin_host(c)

-----------------------------------------------------------------------------
Arrive(r) ==
  /\ request[r] = Idle
  /\ \E c \in Calls :
       LET now == Holding(c, live, suspended, owned)
       IN request' = [request EXCEPT ![r] =
            [op |-> "passing", call |-> c, at |-> 1, billed |-> FALSE, watched |-> FALSE,
             held |-> now, lapsed |-> Facts \ now, body |-> None]]
  /\ UNCHANGED <<live, suspended, owned, left>>

Layer(q) == Layers[q.call.route][q.at]

AtLayer(q) == q.op = "passing" /\ q.at \in DOMAIN Layers[q.call.route]

AtHandler(q) == q.op = "passing" /\ q.at \notin DOMAIN Layers[q.call.route]

Answer(r, answer, body) ==
  /\ request' = [request EXCEPT ![r] = [request[r] EXCEPT !.op = answer, !.body = body]]
  /\ UNCHANGED <<live, suspended, owned, left>>

\* next.run(): the request goes to the next layer, the quota is consumed.
Pass(r) ==
  LET q == request[r]
  IN /\ AtLayer(q)
     /\ Verdict(Layer(q), q.call) = "pass"
     /\ request' = [request EXCEPT ![r] = [q EXCEPT
          !.at = q.at + 1,
          !.billed = q.billed \/ Layer(q) = "quota",
          !.watched = q.watched \/ Layer(q) = "usage"]]
     /\ left' = [t \in Tenants |->
          IF Layer(q) = "quota" /\ t = Tenant(q.call) THEN left[t] - 1 ELSE left[t]]
     /\ UNCHANGED <<live, suspended, owned>>

Refuse(r) ==
  /\ AtLayer(request[r])
  /\ Verdict(Layer(request[r]), request[r].call) # "pass"
  /\ Answer(r, Verdict(Layer(request[r]), request[r].call), None)

\* rate_limiter.check(): 429 while the address is in a cooldown.
Limit(r) ==
  /\ AtLayer(request[r])
  /\ Layer(request[r]) = "limiter"
  /\ Answer(r, "rate-limited", None)

\* Any other handler runs and answers, with whatever status.
Handle(r) ==
  /\ AtHandler(request[r])
  /\ request[r].call.route # "spellcheck"
  /\ Answer(r, "handled", None)

(***************************************************************************)
(* spellcheck and spellcheck_positions: the body is parsed and validated,  *)
(* the engine of its language is waited for, and then the input checked.   *)
(***************************************************************************)
Reject(r) ==
  /\ AtHandler(request[r])
  /\ request[r].call.route = "spellcheck"
  /\ \/ Answer(r, "invalid-json", None)
     \/ \E body \in Bodies : ~validate(body) /\ Answer(r, "validation-error", body)

ResolveEngine(r) ==
  /\ AtHandler(request[r])
  /\ request[r].call.route = "spellcheck"
  /\ \E body \in Bodies : validate(body) /\ Answer(r, "loading", body)

Unsupported(r) ==
  /\ request[r].op = "loading"
  /\ Answer(r, "unsupported-language", request[r].body)

Check(r) ==
  /\ request[r].op = "loading"
  /\ Answer(r, IF Panics(request[r].body) THEN "panic" ELSE "handled", request[r].body)

\* The client goes away while its request waits: for the row of its key, for
\* its body, for the engine, for whatever other handlers wait for.
GoAway(r) ==
  /\ \/ AtLayer(request[r]) /\ Layer(request[r]) = "key"
     \/ AtHandler(request[r])
     \/ request[r].op = "loading"
  /\ Answer(r, "gone", request[r].body)

Leave(r) ==
  /\ request[r].op \in Answers
  /\ request' = [request EXCEPT ![r] = Idle]
  /\ UNCHANGED <<live, suspended, owned, left>>

(***************************************************************************)
(* Meanwhile, in other requests: keys are revoked, tenants suspended and   *)
(* reactivated, origins registered and revoked, quotas reset.              *)
(***************************************************************************)
Watch(keys, out, pairs) ==
  request' = [r \in Requests |->
    IF request[r].op = "passing"
    THEN LET now == Holding(request[r].call, keys, out, pairs)
         IN [request[r] EXCEPT !.held = @ \union now, !.lapsed = @ \union (Facts \ now)]
    ELSE request[r]]

RevokeKey(k) ==
  /\ k \in live
  /\ live' = live \ {k}
  /\ Watch(live', suspended, owned)
  /\ UNCHANGED <<suspended, owned, left>>

SetSuspended(t) ==
  /\ suspended' \in {suspended \ {t}, suspended \union {t}}
  /\ suspended' # suspended
  /\ Watch(live, suspended', owned)
  /\ UNCHANGED <<live, owned, left>>

SetOwned(t, o) ==
  /\ owned' \in {owned \ {<<t, o>>}, owned \union {<<t, o>>}}
  /\ owned' # owned
  /\ Watch(live, suspended, owned')
  /\ UNCHANGED <<live, suspended, left>>

ResetQuota(t) ==
  /\ left[t] < Quota
  /\ left' = [left EXCEPT ![t] = Quota]
  /\ UNCHANGED <<live, suspended, owned, request>>

Next ==
  \/ \E r \in Requests : Arrive(r) \/ Pass(r) \/ Refuse(r) \/ Limit(r) \/ Handle(r) \/ Leave(r)
  \/ \E r \in Requests :
       Reject(r) \/ ResolveEngine(r) \/ Unsupported(r) \/ Check(r) \/ GoAway(r)
  \/ \E k \in Keys : RevokeKey(k)
  \/ \E t \in Tenants : SetSuspended(t) \/ ResetQuota(t) \/ \E o \in Origins : SetOwned(t, o)

Spec == Init /\ [][Next]_vars

-----------------------------------------------------------------------------
(***************************************************************************)
(* What REQUIREMENTS.md allows (F23, F34, F39, F43, F43a, F60, F67, F68),  *)
(* by route, whatever gates do it.  The host that counts is the last one   *)
(* of the path from the client to the server that is not a trusted proxy.  *)
(***************************************************************************)
Path(c) == Append(c.forwarded, c.peer)

InAny(specs, ip) == \E spec \in specs : InNetwork(spec, ip)

FromAdmin(c) ==
  LET untrusted ==
        {i \in DOMAIN Path(c) : Path(c)[i] # Garbled /\ ~InAny(Trusted, Path(c)[i])}
  IN \/ Admins = {}
     \/ untrusted = {} /\ InAny(Admins, c.peer)
     \/ \E i \in untrusted : InAny(Admins, Path(c)[i]) /\ \A j \in untrusted : j <= i

Permitted(c) ==
  CASE c.route \in {"spellcheck", "tenant"} -> c.key.role \in {"admin", "standard"}
    [] c.route = "api_keys" -> c.key.role = "admin"
    [] c.route = "usage" -> c.key.role = "admin" \/ (c.key.role = "platform" /\ c.origin = None)
    [] c.route = "tenants" -> c.key.role = "platform" /\ c.origin = None
    [] c.route = "dictionaries" -> c.key.role = "platform" /\ c.origin = None /\ FromAdmin(c)

Needed(c) == IF c.key.role = "platform" THEN {"key"} ELSE Facts

(* The handler was reached: every gate let the request through. *)
Reached(q) == q.at > Len(Layers[q.call.route])

(***************************************************************************)
(* A handler runs only for a caller the requirements allow there, and      *)
(* whose key was live, whose tenant was active and whose Origin was its    *)
(* own, each at some moment since the request arrived.                     *)
(***************************************************************************)
HandledWasEntitled ==
  \A r \in Requests : request[r].op # "idle" /\ Reached(request[r]) =>
    Permitted(request[r].call) /\ Needed(request[r].call) \subseteq request[r].held

(***************************************************************************)
(* F30, F38, F43: a request is refused only for a caller the requirements  *)
(* do not allow there, or because one of these was not so at some moment.  *)
(* A gate panics only on a platform key outside the routes such keys may   *)
(* use, which the comment on require_admin says is refused.                *)
(***************************************************************************)
RefusedForCause ==
  \A r \in Requests :
    /\ request[r].op = "unauthorized" => "key" \in request[r].lapsed
    /\ request[r].op = "forbidden" =>
         \/ ~Permitted(request[r].call)
         \/ Needed(request[r].call) \cap request[r].lapsed # {}
    /\ request[r].op = "panic" /\ ~Reached(request[r]) =>
         request[r].call.key.role = "platform" /\ ~Permitted(request[r].call)

(***************************************************************************)
(* F45 and the comments in build_app: the quota pays for the requests that *)
(* reach a spell-checking handler, whatever becomes of them there, and one *)
(* that a gate refuses costs nothing.                                      *)
(***************************************************************************)
BilledIffReached ==
  \A r \in Requests : request[r].op \in Answers =>
    (request[r].billed <=> request[r].call.route = "spellcheck" /\ Reached(request[r]))

(***************************************************************************)
(* What record_usage adds to the rollup for a request: a row when its      *)
(* handler returned, with the error of the response or none.  A future     *)
(* that is dropped, or unwinds, adds nothing.                              *)
(***************************************************************************)
Returned(q) == q.op \in Answers \ {"panic", "gone"}

Recorded(q) == q.watched /\ Returned(q)

(***************************************************************************)
(* F47, the rollup equals the billable requests, as far as it goes: a      *)
(* request that cost a unit of quota is recorded, unless its client went   *)
(* away or its text holds punctuation that stands alone; and one that cost *)
(* nothing is not recorded.                                                *)
(***************************************************************************)
UnrecordedForCause ==
  \A r \in Requests :
    LET q == request[r]
    IN q.op \in Answers =>
         /\ Recorded(q) => q.billed
         /\ q.billed /\ ~Recorded(q) =>
              \/ q.op = "gone"
              \/ q.body # None /\ q.body.text # Absent /\ HasBareRun(q.body.text)

(***************************************************************************)
(* F06a: "/spellcheck must return one result per token occurrence", and    *)
(* DESIGN.md, 26.3: even a panic is recorded "rather than dropping the     *)
(* row".  A request with a valid body and a language that loads gets an    *)
(* answer, whatever its text.                                              *)
(***************************************************************************)
TextsAreAnswered ==
  \A r \in Requests : request[r].op = "panic" => ~Reached(request[r])
=============================================================================
