------------------------------ MODULE Networks ------------------------------
(***************************************************************************)
(* The networks of RUSTSPELL_DICTIONARY_ADMIN_CIDRS and                    *)
(* RUSTSPELL_TRUSTED_PROXIES: Cidr, canonical_ip and mask_ip of            *)
(* src/src/config.rs.  An address is a family and a word as wide as the    *)
(* family, bit by bit, the lowest first; the widths are parameters, 32 and *)
(* 128 in the code.  How an address is written as text is left out.        *)
(***************************************************************************)
EXTENDS Naturals

CONSTANTS
  W4,      \* bits of an IPv4 address
  W6,      \* bits of an IPv6 address
  Mapped,  \* the bits from W4 up of an IPv4-mapped address, ::ffff:0:0/96
  Bare     \* the prefix of an address written without one

ASSUME NetworksAssumption ==
  /\ W4 \in Nat \ {0} /\ W6 \in Nat /\ W4 < W6
  /\ Mapped \in [W4..(W6 - 1) -> {0, 1}]
  /\ Bare \notin Nat

V4 == [family: {4}, bits: [0..(W4 - 1) -> {0, 1}]]

V6 == [family: {6}, bits: [0..(W6 - 1) -> {0, 1}]]

IpAddr == V4 \union V6

Width(ip) == IF ip.family = 4 THEN W4 ELSE W6

Upper(ip) == [i \in W4..(W6 - 1) |-> ip.bits[i]]

Lower(ip) == [i \in 0..(W4 - 1) |-> ip.bits[i]]

\* Mutant: to_ipv4, which takes ::1 for 0.0.0.1 as well.
canonical_compatible(ip) ==
  IF ip.family = 6 /\ Upper(ip) \in {Mapped, [i \in W4..(W6 - 1) |-> 0]}
  THEN [family |-> 4, bits |-> Lower(ip)]
  ELSE ip

\* to_ipv4_mapped.
canonical_ip(ip) ==
  IF ip.family = 6 /\ Upper(ip) = Mapped
  THEN [family |-> 4, bits |-> Lower(ip)]
  ELSE ip

(***************************************************************************)
(* n & (!0 << by) on a width-bit integer.  A shift by the full width       *)
(* panics in a debug build and shifts by nothing in a release build.       *)
(***************************************************************************)
AndOnesShifted(n, by, width) == [i \in DOMAIN n |-> IF i < by % width THEN 0 ELSE n[i]]

mask_ip(ip, prefix) ==
  [family |-> ip.family,
   bits |-> IF prefix = 0 THEN [i \in DOMAIN ip.bits |-> 0]
            ELSE AndOnesShifted(ip.bits, Width(ip) - prefix, Width(ip))]

max_prefix(addr) == Width(canonical_ip(addr))

\* A bare address is a host route.
prefix_of(spec) == IF spec.prefix = Bare THEN max_prefix(spec.addr) ELSE spec.prefix

\* A specification the server starts with; any other ends load() with an error.
Parses(spec) == prefix_of(spec) <= max_prefix(spec.addr)

parse(spec) ==
  [network |-> mask_ip(canonical_ip(spec.addr), prefix_of(spec)), prefix |-> prefix_of(spec)]

contains(cidr, ip) ==
  LET host == canonical_ip(ip)
  IN host.family = cidr.network.family /\ mask_ip(host, cidr.prefix) = cidr.network

-----------------------------------------------------------------------------
(***************************************************************************)
(* The reference.  A host has one address, and if that is an IPv4 address  *)
(* it has a second writing.  A network is the addresses of one family that *)
(* agree in their first bits.                                              *)
(***************************************************************************)
Writings(v4) ==
  {v4, [family |-> 6, bits |-> [i \in 0..(W6 - 1) |-> IF i < W4 THEN v4.bits[i] ELSE Mapped[i]]]}

Address(ip) ==
  IF \E v4 \in V4 : ip \in Writings(v4) THEN CHOOSE v4 \in V4 : ip \in Writings(v4) ELSE ip

InNetwork(spec, ip) ==
  LET a == Address(spec.addr)
      b == Address(ip)
      length == IF spec.prefix = Bare THEN Width(a) ELSE spec.prefix
  IN /\ a.family = b.family
     /\ \A i \in (Width(a) - length)..(Width(a) - 1) : a.bits[i] = b.bits[i]

Specs == [addr: IpAddr, prefix: 0..W6 \union {Bare}]

(***************************************************************************)
(* F15e, F15f and the comments on Cidr: of a specification that parses     *)
(* and for every address, in either writing, contains is membership of    *)
(* the network: bits below the prefix do not count, /0 is a whole family,  *)
(* a full-width prefix is one host.                                        *)
(***************************************************************************)
PrefixMatches(spec) ==
  Parses(spec) => \A ip \in IpAddr : contains(parse(spec), ip) <=> InNetwork(spec, ip)
=============================================================================
