--------------------------- MODULE MCRequestGates ---------------------------
(***************************************************************************)
(* RequestGates on a small instance: every route, each kind of key, an     *)
(* Origin header that is absent, registered at times, or not text, for     *)
(* /dictionaries every path of up to two forwarded hops, for /spellcheck a *)
(* body of each outcome.  Addresses of 3 and 5 bits stand for 32 and 128;  *)
(* the proxies are configured as an IPv4 network and connect over a        *)
(* dual-stack listener.  Texts of up to 5 characters of four kinds.        *)
(***************************************************************************)
EXTENDS RequestInputs, SequencesExt

CONSTANTS t1, t2, o1, plain, wide, dot, space

MCUtf8 == (plain :> 1) @@ (wide :> 2) @@ (dot :> 1) @@ (space :> 1)

MCTexts == BoundedSeq({plain, wide, dot, space}, 5)

MCWordLists ==
  {<<>>, << <<plain>> >>, << <<wide>>, <<dot>> >>, << <<wide>>, <<wide>>, <<wide>> >>}

MCValid == {<<plain>>, <<plain, wide>>}

MCHopeless == {<<wide, plain>>, <<wide>>}

MCBodies ==
  [text: {Absent, <<plain, dot>>, <<plain, space, dot>>, <<plain, plain, plain, plain, plain>>},
   words: {Absent}, language: {Absent}]
  \union [text: {Absent}, words: {<< <<wide>>, <<dot>> >>}, language: Languages]

Bits(width, n) == [i \in 0..(width - 1) |-> (n \div 2^i) % 2]

MCMapped == [i \in W4..(W6 - 1) |-> 1]

Home == [family |-> 4, bits |-> Bits(3, 5)]

Office == [family |-> 4, bits |-> Bits(3, 2)]

Proxy == [family |-> 6, bits |-> Bits(5, 3 * 8 + 7)]

MCHosts == {Home, Office, Proxy}

MCTrusted == {[addr |-> [family |-> 4, bits |-> Bits(3, 6)], prefix |-> 2]}

MCAdmins == {[addr |-> [family |-> 6, bits |-> Bits(5, 3 * 8 + 3)], prefix |-> 1]}

MCKeys == {[role |-> "platform", tenant |-> None]} \union
          [role: {"admin"}, tenant: {t1, t2}] \union
          [role: {"standard"}, tenant: {t1}]

Plain(route, key, origin) ==
  [route |-> route, key |-> key, origin |-> origin, peer |-> Home, forwarded |-> <<>>]

TenantKeys == {k \in MCKeys : k.role # "platform"}

PlatformKey == [role |-> "platform", tenant |-> None]

Hops == MCHosts \union {Garbled}

Paths == {<<>>} \union {<<h>> : h \in Hops} \union {<<g, h>> : g, h \in Hops}

MCCalls ==
  {Plain(r, k, o) : r \in {"spellcheck", "api_keys", "tenant", "usage"},
                    k \in TenantKeys, o \in {None, o1}}
  \union {Plain(r, k, None) : r \in {"spellcheck", "usage", "tenants"}, k \in {NoKey}}
  \union {Plain("usage", k, Garbled) : k \in TenantKeys}
  \union {Plain("tenants", k, o) : k \in MCKeys, o \in {None, o1}}
  \union {Plain("usage", PlatformKey, o) : o \in {None, o1}}
  \union {[route |-> "dictionaries", key |-> PlatformKey, origin |-> None,
           peer |-> p, forwarded |-> f] : p \in MCHosts, f \in Paths}
  \union {Plain(r, PlatformKey, None) : r \in {"spellcheck", "api_keys", "tenant"}}
=============================================================================
