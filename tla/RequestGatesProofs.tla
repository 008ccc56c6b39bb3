------------------------- MODULE RequestGatesProofs -------------------------
(***************************************************************************)
(* Theorems about RequestGates, for every set of keys, tenants, origins,   *)
(* hosts, bodies and requests.                                             *)
(*                                                                         *)
(* The properties look back from an answer to what a request went through, *)
(* so that they are not inductive: they say nothing of the requests that   *)
(* still pass.  StandInv ties billed and watched to the place where a      *)
(* request stands, which settles the quota and the usage record.           *)
(* CauseInv has three parts.  Passed: each gate left behind has seen to    *)
(* what it is there for, at the moment of its check.  Witnessed: what      *)
(* holds now is among what held since the request arrived, so that a gate  *)
(* that looks at the present never contradicts the history.  Caused: what  *)
(* a refusal had for a reason, in the terms of the code.                   *)
(*                                                                         *)
(* What the gates compute from the parts of a request comes first, for     *)
(* words and texts of every length.                                        *)
(*                                                                         *)
(* Networks.  An address and the reference's reading of it have the same   *)
(* canonical form (CanonicalForm), and two masked words are equal when     *)
(* they agree from the prefix up (Masks); the one prefix at which the      *)
(* shift wraps, 0, mask_ip handles apart.                                  *)
(*                                                                         *)
(* The tokenizer.  An offset is a sum over the characters before it, a     *)
(* recursive function of a text.  StepByStep takes an induction as a set   *)
(* that holds 0 and the successor of each of its members, from the least   *)
(* number outside it; with it OffsetSteps finds the function, OffsetsGrow  *)
(* its order, and OffsetOfRest that offsets into the rest of a run add up. *)
(* From these StripSpan reads off the two byte offsets that                *)
(* strip_surrounding_punctuation arrives at.  Runs do not overlap, nor do  *)
(* occurrences, and without bare punctuation each run leaves one           *)
(* occurrence behind (MatchesMove).  The order of a set of spans is by     *)
(* rank, how many spans begin no later, which every span has and no two    *)
(* share (InOrderIs); what moves from left to right keeps its rank         *)
(* (MovedInOrder), and a part of the spans is ranked among all of them     *)
(* (PartInOrder), which is the order of the places in an entry.            *)
(***************************************************************************)
EXTENDS RequestInputs, FiniteSetTheorems, TLAPS

(* The words and the widths of the two families.                           *)
LEMMA AddressShape ==
  /\ \A ip \in V4 : ip.family = 4 /\ ip.bits \in [0..(W4 - 1) -> {0, 1}]
  /\ \A ip \in V6 : ip.family = 6 /\ ip.bits \in [0..(W6 - 1) -> {0, 1}]
  /\ \A ip \in IpAddr : /\ ip = [family |-> ip.family, bits |-> ip.bits]
                        /\ ip.family \in {4, 6}
                        /\ Width(ip) \in Nat \ {0}
                        /\ ip.bits \in [0..(Width(ip) - 1) -> {0, 1}]
  BY NetworksAssumption DEF V4, V6, IpAddr, Width

(* The canonical form of an address is one, and the one the reference      *)
(* takes.                                                                  *)
LEMMA CanonicalForm ==
  ASSUME NEW ip \in IpAddr
  PROVE  canonical_ip(ip) \in IpAddr /\ Address(ip) = canonical_ip(ip)
<1> DEFINE Joined(v) == [i \in 0..(W6 - 1) |-> IF i < W4 THEN v.bits[i] ELSE Mapped[i]]
<1>0. \A v : Writings(v) = {v, [family |-> 6, bits |-> Joined(v)]}
  BY DEF Writings
<1>1. CASE ip \in V4
  <2>1. canonical_ip(ip) = ip
    BY <1>1, AddressShape DEF canonical_ip
  <2>2. \A v \in V4 : ip \in Writings(v) <=> v = ip
    BY <1>0, <1>1, AddressShape
  <2>3. (CHOOSE v \in V4 : ip \in Writings(v)) = ip
    BY <1>1, <2>2
  <2> QED
    BY <1>1, <2>1, <2>2, <2>3 DEF Address
<1>2. CASE ip \in V6
  <2>1. ip.family = 6 /\ ip.bits \in [0..(W6 - 1) -> {0, 1}] /\ ip = [family |-> 6, bits |-> ip.bits]
    BY <1>2 DEF V6
  <2>2. ASSUME NEW v \in V4 PROVE ip \in Writings(v) <=> ip.bits = Joined(v)
    <3>1. v.family = 4 /\ v # ip
      BY <2>1, AddressShape
    <3>2. ip = [family |-> 6, bits |-> Joined(v)] <=> ip.bits = Joined(v)
      <4> HIDE DEF Joined
      <4> QED
        BY <2>1
    <3> QED
      BY <1>0, <3>1, <3>2
  <2>3. CASE Upper(ip) = Mapped
    <3> DEFINE low == [family |-> 4, bits |-> Lower(ip)]
    <3>1. canonical_ip(ip) = low
      BY <2>1, <2>3 DEF canonical_ip
    <3>2. low \in V4
      BY <2>1, NetworksAssumption DEF Lower, V4
    <3>3. \A i \in 0..(W6 - 1) : ~(i < W4) => ip.bits[i] = Mapped[i]
      BY <2>3, NetworksAssumption DEF Upper
    <3>4. ip.bits = Joined(low)
      <4>1. \A i \in 0..(W6 - 1) : ip.bits[i] = Joined(low)[i]
        BY <3>3, NetworksAssumption DEF Lower
      <4> QED
        BY <2>1, <4>1
    <3>5. ASSUME NEW v \in V4, ip.bits = Joined(v) PROVE v = low
      <4>1. v = [family |-> 4, bits |-> v.bits] /\ v.bits \in [0..(W4 - 1) -> {0, 1}]
        BY DEF V4
      <4>2. \A i \in 0..(W4 - 1) : v.bits[i] = ip.bits[i]
        BY <3>5, NetworksAssumption
      <4>3. v.bits = Lower(ip)
        BY <4>1, <4>2 DEF Lower
      <4> QED
        BY <4>1, <4>3
    <3> HIDE DEF low
    <3>6. (CHOOSE v \in V4 : ip \in Writings(v)) = low
      BY <2>2, <3>2, <3>4, <3>5
    <3> QED
      BY <2>2, <3>1, <3>2, <3>4, <3>6 DEF Address, IpAddr
  <2>4. CASE Upper(ip) # Mapped
    <3>1. canonical_ip(ip) = ip
      BY <2>4 DEF canonical_ip
    <3>2. ASSUME NEW v \in V4, ip.bits = Joined(v) PROVE FALSE
      <4>1. \A i \in W4..(W6 - 1) : ip.bits[i] = Mapped[i]
        BY <3>2, NetworksAssumption
      <4>2. Upper(ip) = Mapped
        BY <4>1, NetworksAssumption DEF Upper
      <4> QED
        BY <2>4, <4>2
    <3> QED
      BY <2>2, <3>1, <3>2 DEF Address
  <2> QED
    BY <2>3, <2>4
<1> QED
  BY <1>1, <1>2 DEF IpAddr

(* Masking clears the bits below the prefix and no others; a shift by the  *)
(* full width does not come up.                                            *)
LEMMA Masks ==
  ASSUME NEW ip \in IpAddr, NEW prefix \in 0..Width(ip)
  PROVE  /\ mask_ip(ip, prefix).family = ip.family
         /\ mask_ip(ip, prefix).bits =
              [i \in 0..(Width(ip) - 1) |-> IF i < Width(ip) - prefix THEN 0 ELSE ip.bits[i]]
<1>1. DOMAIN ip.bits = 0..(Width(ip) - 1) /\ Width(ip) \in Nat \ {0}
  BY AddressShape
<1>2. CASE prefix = 0
  BY <1>1, <1>2 DEF mask_ip
<1>3. CASE prefix # 0
  <2>1. (Width(ip) - prefix) % Width(ip) = Width(ip) - prefix
    BY <1>1, <1>3
  <2> QED
    BY <1>1, <1>3, <2>1 DEF mask_ip, AndOnesShifted
<1> QED
  BY <1>2, <1>3

(***************************************************************************)
(* F15e and F15f, for every network a specification may name and every     *)
(* address: contains() is membership.                                      *)
(***************************************************************************)
THEOREM NetworksArePrefixes == \A spec \in Specs : PrefixMatches(spec)
<1> SUFFICES ASSUME NEW spec \in Specs, Parses(spec), NEW ip \in IpAddr
             PROVE  contains(parse(spec), ip) <=> InNetwork(spec, ip)
  BY DEF PrefixMatches
<1> DEFINE a == canonical_ip(spec.addr)
           b == canonical_ip(ip)
           n == prefix_of(spec)
<1>1. /\ a \in IpAddr /\ b \in IpAddr /\ Address(spec.addr) = a /\ Address(ip) = b
  BY CanonicalForm DEF Specs
<1>2. n \in 0..Width(a) /\ n = IF spec.prefix = Bare THEN Width(a) ELSE spec.prefix
  BY <1>1, AddressShape, NetworksAssumption DEF Specs, Parses, prefix_of, max_prefix
<1>3. parse(spec).network = mask_ip(a, n) /\ parse(spec).prefix = n
  BY DEF parse
<1>4. contains(parse(spec), ip) <=> b.family = mask_ip(a, n).family /\ mask_ip(b, n) = mask_ip(a, n)
  BY <1>3 DEF contains
<1>5. InNetwork(spec, ip) <=>
        a.family = b.family /\ \A i \in (Width(a) - n)..(Width(a) - 1) : a.bits[i] = b.bits[i]
  BY <1>1, <1>2 DEF InNetwork
<1>6. mask_ip(b, n) = mask_ip(a, n) <=>
        mask_ip(b, n).family = mask_ip(a, n).family /\ mask_ip(b, n).bits = mask_ip(a, n).bits
  BY DEF mask_ip
<1>7. mask_ip(a, n).family = a.family
  BY <1>1, <1>2, Masks
<1> HIDE DEF a, b, n
<1>8. ASSUME a.family = b.family
      PROVE  mask_ip(b, n) = mask_ip(a, n) <=>
               \A i \in (Width(a) - n)..(Width(a) - 1) : a.bits[i] = b.bits[i]
  <2>1. Width(b) = Width(a) /\ Width(a) \in Nat \ {0}
    BY <1>1, <1>8, AddressShape DEF Width
  <2>2. PICK m : m = Width(a) - n
    OBVIOUS
  <2>3. m \in 0..Width(a)
    BY <1>2, <2>1, <2>2
  <2>4. /\ mask_ip(a, n).bits = [i \in 0..(Width(a) - 1) |-> IF i < m THEN 0 ELSE a.bits[i]]
        /\ mask_ip(b, n).bits = [i \in 0..(Width(a) - 1) |-> IF i < m THEN 0 ELSE b.bits[i]]
        /\ mask_ip(b, n).family = mask_ip(a, n).family
    <3>1. n \in 0..Width(a) /\ n \in 0..Width(b)
      BY <1>2, <2>1
    <3>2. /\ mask_ip(a, n).bits = [i \in 0..(Width(a) - 1) |-> IF i < Width(a) - n THEN 0 ELSE a.bits[i]]
          /\ mask_ip(a, n).family = a.family
      BY <1>1, <3>1, Masks
    <3>3. /\ mask_ip(b, n).bits = [i \in 0..(Width(b) - 1) |-> IF i < Width(b) - n THEN 0 ELSE b.bits[i]]
          /\ mask_ip(b, n).family = b.family
      BY <1>1, <3>1, Masks
    <3> QED
      BY <1>8, <2>1, <2>2, <3>2, <3>3
  <2>5. mask_ip(b, n).bits = mask_ip(a, n).bits <=>
          \A i \in 0..(Width(a) - 1) : (IF i < m THEN 0 ELSE a.bits[i]) = (IF i < m THEN 0 ELSE b.bits[i])
    BY <2>4
  <2>6. \A i : i \in m..(Width(a) - 1) <=> i \in 0..(Width(a) - 1) /\ ~(i < m)
    BY <2>1, <2>3
  <2> QED
    BY <1>6, <2>2, <2>4, <2>5, <2>6
<1> QED
  BY <1>4, <1>5, <1>7, <1>8
-----------------------------------------------------------------------------
(* Pairs in the order of the numbers.                                      *)
Less == {p \in Nat \X Nat : p[1] < p[2]}

(* The order of the numbers is well founded.                               *)
LEMMA LessWellFounded == IsWellFoundedOn(Less, Nat)
  BY NatLessThanWellFounded DEF OpToRel, Less

(* What holds of 0 and of each successor holds up to the number.           *)
LEMMA StepByStep ==
  ASSUME NEW n \in Nat, NEW S, 0 \in S, \A k \in 0..(n - 1) : k \in S => k + 1 \in S
  PROVE  \A k \in 0..n : k \in S
<1> DEFINE T == {k \in 0..n : k \notin S}
<1> SUFFICES ASSUME T # {} PROVE FALSE
  OBVIOUS
<1>1. T \subseteq Nat
  OBVIOUS
<1>2. PICK x \in T : \A y \in T : ~ (<<y, x>> \in Less)
  <2> HIDE DEF T
  <2> QED
    BY <1>1, LessWellFounded, WFMin
<1>3. x \in 0..n /\ x \notin S /\ x # 0
  OBVIOUS
<1>4. x - 1 \in 0..(n - 1) /\ (x - 1) + 1 = x
  BY <1>3
<1>5. x - 1 \notin S
  BY <1>3, <1>4
<1>6. <<x - 1, x>> \in Less
  BY <1>3, <1>4 DEF Less
<1> QED
  BY <1>2, <1>4, <1>5, <1>6

(* The bytes before each character add up.                                 *)
LEMMA OffsetSteps ==
  ASSUME NEW s \in Seq(Chars)
  PROVE  /\ Offset(s, 1) = 0
         /\ \A i \in 1..Len(s) : Offset(s, i + 1) = Offset(s, i) + Utf8[s[i]]
         /\ \A i \in 1..(Len(s) + 1) : Offset(s, i) \in Nat
<1> DEFINE n == Len(s)
           Sums(m, h) == h = [i \in 1..(m + 1) |-> IF i = 1 THEN 0 ELSE h[i - 1] + Utf8[s[i - 1]]]
           S == {m \in Nat : \E h \in [1..(m + 1) -> Nat] : Sums(m, h)}
<1>1. n \in Nat /\ \A i \in 1..n : Utf8[s[i]] \in Nat
  BY SpellCheckAssumption
<1>2. 0 \in S
  <2>1. PICK h : h = [i \in 1..(0 + 1) |-> 0]
    OBVIOUS
  <2>2. h \in [1..(0 + 1) -> Nat]
    BY <2>1
  <2>3. Sums(0, h)
    BY <2>1
  <2> HIDE DEF Sums
  <2> QED
    BY <2>2, <2>3
<1>3. ASSUME NEW m \in 0..(n - 1), m \in S PROVE m + 1 \in S
  <2>1. PICK h \in [1..(m + 1) -> Nat] : Sums(m, h)
    BY <1>3
  <2>2. PICK g : g = [i \in 1..((m + 1) + 1) |-> IF i <= m + 1 THEN h[i] ELSE h[m + 1] + Utf8[s[m + 1]]]
    OBVIOUS
  <2>3. m \in Nat /\ m + 1 \in 1..n /\ h[m + 1] \in Nat /\ Utf8[s[m + 1]] \in Nat
    BY <1>1
  <2>4. g \in [1..((m + 1) + 1) -> Nat]
    BY <2>2, <2>3
  <2>5. \A i \in 1..(m + 1) : g[i] = h[i]
    BY <2>2, <2>3
  <2>6. \A i \in 1..(m + 1) : h[i] = IF i = 1 THEN 0 ELSE h[i - 1] + Utf8[s[i - 1]]
    BY <2>1
  <2>7. ASSUME NEW i \in 1..((m + 1) + 1)
        PROVE  g[i] = IF i = 1 THEN 0 ELSE g[i - 1] + Utf8[s[i - 1]]
    <3>1. CASE i \in 1..(m + 1)
      BY <2>3, <2>5, <2>6, <3>1
    <3>2. CASE i = m + 2
      BY <2>2, <2>3, <2>5, <3>2
    <3> QED
      BY <2>3, <3>1, <3>2
  <2>8. Sums(m + 1, g)
    BY <2>4, <2>7
  <2>9. m + 1 \in Nat /\ m + 1 \in 0..n
    BY <2>3
  <2> HIDE DEF Sums
  <2>10. \E f \in [1..((m + 1) + 1) -> Nat] : Sums(m + 1, f)
    BY <2>4, <2>8
  <2> QED
    BY <2>9, <2>10
<1>4. n \in S
  <2>1. \A m \in 0..(n - 1) : m \in S => m + 1 \in S
    BY <1>3
  <2> HIDE DEF S, n
  <2>2. \A k \in 0..n : k \in S
    BY <1>1, <1>2, <2>1, StepByStep
  <2> QED
    BY <1>1, <2>2
<1>5. PICK h \in [1..(n + 1) -> Nat] : Sums(n, h)
  BY <1>4
<1>6. Offsets(s) = CHOOSE f : Sums(n, f)
  BY DEF Offsets
<1>7. Sums(n, Offsets(s))
  <2> HIDE DEF Sums
  <2> QED
    BY <1>5, <1>6
<1>8. \A i \in 1..(n + 1) : Offsets(s)[i] = IF i = 1 THEN 0 ELSE Offsets(s)[i - 1] + Utf8[s[i - 1]]
  BY <1>7
<1> HIDE DEF n
<1>9. Offset(s, 1) = 0
  BY <1>1, <1>8 DEF Offset
<1>10. ASSUME NEW i \in 1..n PROVE Offset(s, i + 1) = Offset(s, i) + Utf8[s[i]]
  <2>1. i + 1 \in 1..(n + 1) /\ i + 1 # 1 /\ (i + 1) - 1 = i
    BY <1>1
  <2> QED
    BY <1>8, <2>1 DEF Offset
<1>11. \A k \in 0..n : Offset(s, k + 1) \in Nat
  <2> DEFINE N == {k \in Nat : Offset(s, k + 1) \in Nat}
  <2>1. 0 \in N
    BY <1>9
  <2>2. \A k \in 0..(n - 1) : k \in N => k + 1 \in N
    <3> SUFFICES ASSUME NEW k \in 0..(n - 1), Offset(s, k + 1) \in Nat
                 PROVE  k + 1 \in Nat /\ Offset(s, (k + 1) + 1) \in Nat
      OBVIOUS
    <3>1. k + 1 \in 1..n /\ k + 1 \in Nat
      BY <1>1
    <3>2. Offset(s, (k + 1) + 1) = Offset(s, k + 1) + Utf8[s[k + 1]]
      BY <1>10, <3>1
    <3>3. Utf8[s[k + 1]] \in Nat
      BY <1>1, <3>1
    <3> QED
      BY <3>1, <3>2, <3>3
  <2>3. \A k \in 0..n : k \in N
    <3> HIDE DEF N
    <3> QED
      BY <1>1, <2>1, <2>2, StepByStep
  <2> QED
    BY <2>3
<1>12. ASSUME NEW i \in 1..(n + 1) PROVE Offset(s, i) \in Nat
  <2>1. i - 1 \in 0..n /\ (i - 1) + 1 = i
    BY <1>1
  <2> QED
    BY <1>11, <2>1
<1> QED
  BY <1>9, <1>10, <1>12 DEF n
(* A later character is further on.                                        *)
LEMMA OffsetsGrow ==
  ASSUME NEW s \in Seq(Chars), NEW i \in 1..(Len(s) + 1), NEW j \in 1..(Len(s) + 1)
  PROVE  /\ i < j => Offset(s, i) < Offset(s, j)
         /\ i <= j => Offset(s, i) <= Offset(s, j)
<1> DEFINE n == Len(s) + 1 - i
           S == {k \in Nat : Offset(s, i) + k <= Offset(s, i + k)}
<1>1. Len(s) \in Nat /\ n \in Nat /\ i \in Nat /\ \A k \in 1..Len(s) : Utf8[s[k]] \in Nat /\ Utf8[s[k]] >= 1
  BY SpellCheckAssumption
<1>2. Offset(s, i) \in Nat
  BY OffsetSteps
<1>3. 0 \in S
  BY <1>1, <1>2
<1>4. ASSUME NEW k \in 0..(n - 1), k \in S PROVE k + 1 \in S
  <2>1. i + k \in 1..Len(s) /\ (i + k) + 1 = i + (k + 1) /\ k \in Nat
    BY <1>1
  <2>2. /\ Offset(s, (i + k) + 1) = Offset(s, i + k) + Utf8[s[i + k]]
        /\ Offset(s, i + k) \in Nat /\ Utf8[s[i + k]] \in Nat /\ Utf8[s[i + k]] >= 1
    BY <1>1, <2>1, OffsetSteps
  <2>3. Offset(s, i) + k <= Offset(s, i + k)
    BY <1>4
  <2> QED
    BY <1>2, <2>1, <2>2, <2>3
<1>5. \A k \in 0..n : Offset(s, i) + k <= Offset(s, i + k)
  <2>1. \A k \in 0..(n - 1) : k \in S => k + 1 \in S
    BY <1>4
  <2>2. \A k \in 0..n : k \in S
    <3> HIDE DEF S, n
    <3> QED
      BY <1>1, <1>3, <2>1, StepByStep
  <2> QED
    BY <2>2
<1>6. Offset(s, j) \in Nat
  BY OffsetSteps
<1>7. i <= j => j - i \in 0..n /\ i + (j - i) = j
  BY <1>1
<1> HIDE DEF n, S
<1>8. i <= j => Offset(s, i) + (j - i) <= Offset(s, j)
  BY <1>5, <1>7
<1> QED
  BY <1>1, <1>2, <1>6, <1>8

(* What follows a place in a text.                                         *)
LEMMA RestShape ==
  ASSUME NEW s \in Seq(Chars), NEW m \in 1..Len(s), NEW rest, rest = SubSeq(s, m, Len(s))
  PROVE  /\ rest \in Seq(Chars) /\ Len(rest) = Len(s) - m + 1
         /\ \A k \in 1..Len(rest) : rest[k] = s[m + k - 1]
  OBVIOUS

(* Offsets into what follows a place add to the offset of the place.       *)
LEMMA OffsetOfRest ==
  ASSUME NEW s \in Seq(Chars), NEW m \in 1..Len(s), NEW rest, rest = SubSeq(s, m, Len(s))
  PROVE  \A k \in 0..Len(rest) : Offset(s, m) + Offset(rest, k + 1) = Offset(s, m + k)
<1> DEFINE n == Len(rest)
           S == {k \in Nat : Offset(s, m) + Offset(rest, k + 1) = Offset(s, m + k)}
<1>1. /\ rest \in Seq(Chars) /\ Len(rest) = Len(s) - m + 1 /\ Len(s) \in Nat
      /\ \A k \in 1..Len(rest) : rest[k] = s[m + k - 1]
  BY RestShape
<1>2. n \in Nat /\ m \in Nat /\ \A k \in 1..Len(s) : Utf8[s[k]] \in Nat
  <2>1. ASSUME NEW k \in 1..Len(s) PROVE Utf8[s[k]] \in Nat
    <3>1. PICK c : c = s[k]
      OBVIOUS
    <3>2. c \in Chars
      BY <3>1
    <3>3. Utf8[c] \in Nat
      BY <3>2, SpellCheckAssumption
    <3> QED
      BY <3>1, <3>3
  <2> QED
    BY <1>1, <2>1
<1>3. 0 \in S
  <2>1. m \in 1..(Len(s) + 1)
    BY <1>1
  <2>2. Offset(s, m) \in Nat
    BY <2>1, OffsetSteps
  <2>3. Offset(rest, 1) = 0
    BY <1>1, OffsetSteps
  <2> QED
    BY <1>2, <2>2, <2>3
<1>4. ASSUME NEW k \in 0..(n - 1), k \in S PROVE k + 1 \in S
  <2>1. k + 1 \in 1..n /\ m + k \in 1..Len(s) /\ k \in Nat /\ m + (k + 1) = (m + k) + 1
        /\ m + (k + 1) - 1 = m + k
    BY <1>1, <1>2
  <2>2. Offset(rest, (k + 1) + 1) = Offset(rest, k + 1) + Utf8[rest[k + 1]]
    BY <1>1, <2>1, OffsetSteps
  <2>3. Offset(s, (m + k) + 1) = Offset(s, m + k) + Utf8[s[m + k]]
    BY <2>1, OffsetSteps
  <2>4. rest[k + 1] = s[m + k]
    BY <1>1, <2>1
  <2>5. /\ Offset(s, m) \in Nat /\ Offset(s, m + k) \in Nat /\ Utf8[s[m + k]] \in Nat
    BY <1>2, <2>1, OffsetSteps
  <2>6. Offset(rest, k + 1) \in Nat
    <3>1. k + 1 \in 1..(Len(rest) + 1)
      BY <1>2, <2>1
    <3> QED
      BY <1>1, <3>1, OffsetSteps
  <2>7. Offset(s, m) + Offset(rest, k + 1) = Offset(s, m + k)
    BY <1>4
  <2>8. Offset(s, m) + Offset(rest, (k + 1) + 1) = Offset(s, m + (k + 1))
    BY <2>1, <2>2, <2>3, <2>4, <2>5, <2>6, <2>7
  <2> QED
    BY <2>1, <2>8
<1>5. \A k \in 0..n : Offset(s, m) + Offset(rest, k + 1) = Offset(s, m + k)
  <2>1. \A k \in 0..(n - 1) : k \in S => k + 1 \in S
    BY <1>4
  <2>2. \A k \in 0..n : k \in S
    <3> HIDE DEF S, n
    <3> QED
      BY <1>2, <1>3, <2>1, StepByStep
  <2> QED
    BY <2>2
<1> QED
  BY <1>5

(* The largest and the smallest of some positions are among them.          *)
LEMMA MaxPosition ==
  ASSUME NEW n \in Nat, NEW S, S \subseteq 1..n, S # {}
  PROVE  Max(S) \in S /\ \A y \in S : y <= Max(S)
<1> DEFINE T == {n - i : i \in S}
<1>1. T \subseteq Nat /\ T # {}
  <2>1. \A i \in S : i \in 1..n
    OBVIOUS
  <2>2. \A i \in S : n - i \in Nat
    BY <2>1
  <2>3. PICK i \in S : TRUE
    OBVIOUS
  <2>4. n - i \in T
    BY <2>3
  <2> QED
    BY <2>2, <2>4
<1>2. PICK x \in T : \A y \in T : ~ (<<y, x>> \in Less)
  <2> HIDE DEF T
  <2> QED
    BY <1>1, LessWellFounded, WFMin
<1>3. ASSUME NEW y \in T PROVE x <= y
  <2>1. x \in Nat /\ y \in Nat /\ <<y, x>> \notin Less
    BY <1>1, <1>2, <1>3
  <2> QED
    BY <2>1 DEF Less
<1>4. PICK i \in S : x = n - i
  BY <1>2
<1>5. ASSUME NEW y \in S PROVE i >= y
  <2>1. y \in 1..n /\ i \in 1..n
    BY <1>4, <1>5
  <2>2. n - y \in T /\ y \in Nat /\ i \in Nat
    BY <1>5, <2>1
  <2>3. x <= n - y
    BY <1>3, <2>2
  <2> QED
    BY <1>4, <2>2, <2>3
<1> QED
  BY <1>4, <1>5 DEF Max

(* And the smallest.                                                       *)
LEMMA MinPosition ==
  ASSUME NEW n \in Nat, NEW S, S \subseteq 1..n, S # {}
  PROVE  Min(S) \in S /\ \A y \in S : Min(S) <= y
<1>1. S \subseteq Nat
  OBVIOUS
<1>2. PICK x \in S : \A y \in S : ~ (<<y, x>> \in Less)
  BY <1>1, LessWellFounded, WFMin
<1>3. ASSUME NEW y \in S PROVE x <= y
  <2>1. x \in Nat /\ y \in Nat /\ <<y, x>> \notin Less
    BY <1>1, <1>2, <1>3
  <2> QED
    BY <2>1 DEF Less
<1> QED
  BY <1>2, <1>3 DEF Min

(* What strip_surrounding_punctuation computes from a run.  With a         *)
(* character to keep, its two offsets are those of the first such          *)
(* character and of what follows the last; without one, both are the       *)
(* length of the run.                                                      *)
LEMMA StripSpan ==
  ASSUME NEW s \in Seq(Chars)
  PROVE  /\ Kept(s) = {} => StripStart(s) = Bytes(s) /\ StripEnd(s) = Bytes(s)
         /\ Kept(s) # {} =>
              \E a, b \in Kept(s) :
                /\ a <= b /\ \A k \in Kept(s) : a <= k /\ k <= b
                /\ StripStart(s) = Offset(s, a)
                /\ StripStart(s) + StripEnd(s) = Offset(s, b + 1)
<1>1. Len(s) \in Nat /\ Kept(s) \subseteq 1..Len(s)
  BY DEF Kept
<1>2. CASE Kept(s) = {}
  BY <1>2 DEF StripStart, StripEnd
<1>3. CASE Kept(s) # {}
  <2>1. PICK a \in Kept(s) : a = Min(Kept(s)) /\ \A k \in Kept(s) : a <= k
    BY <1>1, <1>3, MinPosition
  <2>2. PICK b \in Kept(s) : \A k \in Kept(s) : k <= b
    BY <1>1, <1>3, MaxPosition
  <2>3. a \in 1..Len(s) /\ b \in 1..Len(s) /\ a <= b
    BY <1>1, <2>1, <2>2
  <2>4. PICK rest : rest = SubSeq(s, a, Len(s))
    OBVIOUS
  <2>5. rest \in Seq(Chars) /\ Len(rest) = Len(s) - a + 1
    BY <2>3, <2>4, RestShape
  <2>6. \A k \in 1..Len(rest) : rest[k] = s[a + k - 1]
    BY <2>3, <2>4, RestShape
  <2>7. \A k \in 0..Len(rest) : Offset(s, a) + Offset(rest, k + 1) = Offset(s, a + k)
    BY <2>3, <2>4, OffsetOfRest
  <2>8. PICK c : c = b - a + 1
    OBVIOUS
  <2>9. /\ c \in 1..Len(rest) /\ a + c - 1 = b /\ a + c = b + 1 /\ Len(rest) \in Nat
        /\ c \in 0..Len(rest)
    BY <1>1, <2>3, <2>5, <2>8
  <2>10. rest[c] \notin Punctuation
    BY <2>2, <2>6, <2>9 DEF Kept
  <2>11. DOMAIN rest = 1..Len(rest)
    BY <2>5
  <2>12. c \in Kept(rest) /\ Kept(rest) \subseteq 1..Len(rest)
    BY <2>9, <2>10, <2>11 DEF Kept
  <2>13. ASSUME NEW k \in Kept(rest) PROVE k <= c
    <3>1. k \in 1..Len(rest) /\ rest[k] \notin Punctuation
      BY <2>11, <2>13 DEF Kept
    <3>2. a + k - 1 \in 1..Len(s)
      BY <1>1, <2>3, <2>5, <3>1
    <3>3. a + k - 1 \in Kept(s)
      BY <2>6, <3>1, <3>2 DEF Kept
    <3>4. a + k - 1 <= b
      BY <2>2, <3>3
    <3> QED
      BY <1>1, <2>3, <2>8, <3>1, <3>4
  <2>14. Max(Kept(rest)) = c
    <3>1. Max(Kept(rest)) \in Kept(rest) /\ \A k \in Kept(rest) : k <= Max(Kept(rest))
      BY <2>9, <2>12, MaxPosition
    <3>2. Max(Kept(rest)) <= c /\ c <= Max(Kept(rest))
      BY <2>12, <2>13, <3>1
    <3>3. Max(Kept(rest)) \in 1..Len(rest)
      BY <2>12, <3>1
    <3> QED
      BY <2>9, <3>2, <3>3
  <2>15. StripEnd(s) = Offset(rest, c) + Utf8[rest[c]]
    BY <1>3, <2>1, <2>4, <2>14 DEF StripEnd
  <2>16. StripEnd(s) = Offset(rest, c + 1)
    BY <2>5, <2>9, <2>15, OffsetSteps
  <2>17. StripStart(s) = Offset(s, a)
    BY <1>3, <2>1 DEF StripStart
  <2>18. StripStart(s) + StripEnd(s) = Offset(s, b + 1)
    BY <2>7, <2>9, <2>16, <2>17
  <2> QED
    BY <1>3, <2>1, <2>2, <2>3, <2>17, <2>18
<1> QED
  BY <1>2, <1>3

(* The slice of a run that strip_surrounding_punctuation takes is out of   *)
(* bounds exactly when the run has nothing but punctuation: start is then  *)
(* added to an end that already counts from the beginning.                 *)
LEMMA RunPanics ==
  ASSUME NEW s \in Seq(Chars), Len(s) > 0
  PROVE  StripPanics(s) <=> Kept(s) = {}
<1>1. Len(s) \in Nat /\ Len(s) + 1 \in 1..(Len(s) + 1) /\ 1 \in 1..(Len(s) + 1)
  OBVIOUS
<1>2. \A k \in 1..(Len(s) + 1) : Offset(s, k) \in Nat /\ Offset(s, k) <= Bytes(s)
  <2> TAKE k \in 1..(Len(s) + 1)
  <2>1. Offset(s, k) \in Nat
    BY OffsetSteps
  <2>2. k <= Len(s) + 1
    BY <1>1
  <2> QED
    BY <1>1, <2>1, <2>2, OffsetsGrow DEF Bytes
<1>3. Bytes(s) \in Nat /\ Bytes(s) > 0
  <2>1. Offset(s, 1) = 0
    BY OffsetSteps
  <2>2. Offset(s, 1) < Offset(s, Len(s) + 1)
    BY <1>1, OffsetsGrow
  <2> QED
    BY <1>1, <1>2, <2>1, <2>2 DEF Bytes
<1>4. CASE Kept(s) = {}
  <2>1. StripStart(s) + StripEnd(s) = Bytes(s) + Bytes(s)
    BY <1>4, StripSpan
  <2>2. Bytes(s) + Bytes(s) \notin Boundaries(s)
    BY <1>2, <1>3 DEF Boundaries
  <2> QED
    BY <1>4, <2>1, <2>2 DEF StripPanics, Sliceable
<1>5. CASE Kept(s) # {}
  <2>1. PICK a, b \in Kept(s) :
          /\ a <= b
          /\ StripStart(s) = Offset(s, a)
          /\ StripStart(s) + StripEnd(s) = Offset(s, b + 1)
    BY <1>5, StripSpan
  <2>2. a \in 1..Len(s) /\ b \in 1..Len(s)
    BY DEF Kept
  <2>3. /\ a \in 1..(Len(s) + 1) /\ b + 1 \in 1..(Len(s) + 1) /\ a <= b + 1
    BY <1>1, <2>1, <2>2
  <2>4. Offset(s, a) <= Offset(s, b + 1)
    BY <2>3, OffsetsGrow
  <2>5. {Offset(s, a), Offset(s, b + 1)} \subseteq Boundaries(s)
    BY <2>3 DEF Boundaries
  <2>6. Sliceable(s, StripStart(s), StripStart(s) + StripEnd(s))
    BY <2>1, <2>4, <2>5 DEF Sliceable
  <2> QED
    BY <1>5, <2>6 DEF StripPanics
<1> QED
  BY <1>4, <1>5

(* A run is a piece of its text.                                           *)
LEMMA RunShape ==
  ASSUME NEW text \in Seq(Chars), NEW i \in 1..Len(text), NEW j \in 1..Len(text), i <= j
  PROVE  /\ SubSeq(text, i, j) \in Seq(Chars) /\ Len(SubSeq(text, i, j)) = j - i + 1
         /\ \A k \in 1..(j - i + 1) : SubSeq(text, i, j)[k] = text[i + k - 1]
         /\ Kept(SubSeq(text, i, j)) = {} <=> OnlyPunctuation(text, i, j)
<1>1. PICK s : s = SubSeq(text, i, j)
  OBVIOUS
<1>2. Len(text) \in Nat
  OBVIOUS
<1>3. s \in Seq(Chars) /\ Len(s) = j - i + 1
  BY <1>1
<1>4. \A k \in 1..(j - i + 1) : s[k] = text[i + k - 1]
  BY <1>1
<1>5. DOMAIN s = 1..(j - i + 1)
  BY <1>3
<1>6. ASSUME OnlyPunctuation(text, i, j), NEW k \in Kept(s) PROVE FALSE
  <2>1. k \in 1..(j - i + 1) /\ s[k] \notin Punctuation
    BY <1>5 DEF Kept
  <2>2. i + k - 1 \in i..j
    BY <1>2, <2>1
  <2> QED
    BY <1>4, <1>6, <2>1, <2>2 DEF OnlyPunctuation
<1>7. ASSUME Kept(s) = {}, NEW k \in i..j PROVE text[k] \in Punctuation
  <2>1. k - i + 1 \in 1..(j - i + 1) /\ i + (k - i + 1) - 1 = k
    BY <1>2
  <2>2. s[k - i + 1] = text[k]
    BY <1>4, <2>1
  <2>3. k - i + 1 \notin Kept(s)
    BY <1>7
  <2> QED
    BY <1>5, <2>1, <2>2, <2>3 DEF Kept
<1> QED
  BY <1>1, <1>3, <1>4, <1>6, <1>7 DEF OnlyPunctuation

(* The tokenizer panics on a text exactly when some of its punctuation     *)
(* stands alone between white space, whatever the bytes of its characters. *)
THEOREM BareRunsPanic ==
  \A text \in Seq(Chars) : TokenizePanics(text) <=> HasBareRun(text)
<1> TAKE text \in Seq(Chars)
<1>1. Len(text) \in Nat /\ DOMAIN text = 1..Len(text)
  OBVIOUS
<1>2. \A i, j \in 1..Len(text) :
        i <= j => (StripPanics(SubSeq(text, i, j)) <=> OnlyPunctuation(text, i, j))
  <2> SUFFICES ASSUME NEW i \in 1..Len(text), NEW j \in 1..Len(text), i <= j
               PROVE  StripPanics(SubSeq(text, i, j)) <=> OnlyPunctuation(text, i, j)
    OBVIOUS
  <2>1. j - i + 1 > 0
    BY <1>1
  <2> QED
    BY <2>1, RunShape, RunPanics
<1>3. ASSUME TokenizePanics(text) PROVE HasBareRun(text)
  <2>1. PICK match \in Runs(text) : StripPanics(Raw(text, match))
    BY <1>3 DEF TokenizePanics
  <2>2. PICK i \in 1..Len(text), j \in 1..Len(text) :
          /\ match[1] = i /\ match[2] = j /\ i <= j
          /\ i = 1 \/ text[i - 1] \in Spaces
          /\ j = Len(text) \/ text[j + 1] \in Spaces
    BY <1>1 DEF Runs
  <2>3. OnlyPunctuation(text, i, j)
    BY <1>2, <2>1, <2>2 DEF Raw
  <2>4. Edge(text, i - 1)
    <3>1. CASE i = 1
      BY <1>1, <3>1 DEF Edge
    <3>2. CASE text[i - 1] \in Spaces
      BY <3>2 DEF Edge
    <3> QED
      BY <2>2, <3>1, <3>2
  <2>5. Edge(text, j + 1)
    <3>1. CASE j = Len(text)
      BY <1>1, <3>1 DEF Edge
    <3>2. CASE text[j + 1] \in Spaces
      BY <3>2 DEF Edge
    <3> QED
      BY <2>2, <3>1, <3>2
  <2> QED
    BY <1>1, <2>2, <2>3, <2>4, <2>5 DEF HasBareRun
<1>4. ASSUME HasBareRun(text) PROVE TokenizePanics(text)
  <2>1. PICK i \in 1..Len(text), j \in 1..Len(text) :
          i <= j /\ OnlyPunctuation(text, i, j) /\ Edge(text, i - 1) /\ Edge(text, j + 1)
    BY <1>1, <1>4 DEF HasBareRun
  <2>2. \A k \in i..j : text[k] \notin Spaces
    BY <2>1, SpellCheckAssumption DEF OnlyPunctuation
  <2>3. i = 1 \/ text[i - 1] \in Spaces
    BY <1>1, <2>1 DEF Edge
  <2>4. j = Len(text) \/ text[j + 1] \in Spaces
    <3> SUFFICES ASSUME j # Len(text) PROVE text[j + 1] \in Spaces
      OBVIOUS
    <3>1. PICK n \in Nat : n = Len(text)
      BY <1>1
    <3>2. j \in 1..n /\ j # n
      BY <3>1
    <3>3. j + 1 \in 1..n
      BY <3>2
    <3>4. Edge(text, j + 1)
      BY <2>1
    <3> QED
      BY <1>1, <3>1, <3>3, <3>4 DEF Edge
  <2>5. <<i, j>> \in Runs(text)
    BY <1>1, <2>1, <2>2, <2>3, <2>4 DEF Runs
  <2>6. StripPanics(Raw(text, <<i, j>>))
    BY <1>2, <2>1 DEF Raw
  <2> QED
    BY <2>5, <2>6 DEF TokenizePanics
<1> QED
  BY <1>3, <1>4

(* What is left of a run between its first and its last byte to keep.      *)
LEMMA SliceSpan ==
  ASSUME NEW s \in Seq(Chars), NEW a \in 1..Len(s), NEW b \in 1..Len(s), a <= b
  PROVE  Slice(s, Offset(s, a), Offset(s, b + 1)) = SubSeq(s, a, b)
<1> DEFINE inside == {i \in DOMAIN s : Offset(s, a) <= Offset(s, i) /\ Offset(s, i) < Offset(s, b + 1)}
<1>1. Len(s) \in Nat /\ DOMAIN s = 1..Len(s)
  OBVIOUS
<1>2. /\ \A i \in 1..Len(s) : i \in 1..(Len(s) + 1) /\ i \in Nat
      /\ b + 1 \in 1..(Len(s) + 1)
  BY <1>1
<1>3. \A i \in 1..(Len(s) + 1) : Offset(s, i) \in Nat
  BY OffsetSteps
<1>4. ASSUME NEW i \in a..b PROVE i \in inside
  <2>1. i \in 1..Len(s) /\ a <= i /\ i < b + 1
    BY <1>1
  <2>2. Offset(s, a) <= Offset(s, i) /\ Offset(s, i) < Offset(s, b + 1)
    BY <1>2, <2>1, OffsetsGrow
  <2> QED
    BY <1>1, <2>1, <2>2
<1>5. ASSUME NEW i \in inside PROVE i \in a..b
  <2>1. i \in 1..Len(s) /\ Offset(s, a) <= Offset(s, i) /\ Offset(s, i) < Offset(s, b + 1)
    BY <1>1
  <2>2. ~(i < a)
    <3>1. i < a => Offset(s, i) < Offset(s, a)
      BY <1>2, <2>1, OffsetsGrow
    <3> QED
      BY <1>2, <1>3, <2>1, <3>1
  <2>3. ~(b + 1 <= i)
    <3>1. b + 1 <= i => Offset(s, b + 1) <= Offset(s, i)
      BY <1>2, <2>1, OffsetsGrow
    <3> QED
      BY <1>2, <1>3, <2>1, <3>1
  <2> QED
    BY <1>1, <2>1, <2>2, <2>3
<1> HIDE DEF inside
<1>6. inside = a..b
  BY <1>4, <1>5
<1>7. a \in inside /\ b \in inside /\ inside \subseteq 1..Len(s) /\ inside # {}
  BY <1>1, <1>6
<1>8. Min(inside) = a
  <2>1. Min(inside) \in inside /\ Min(inside) <= a
    BY <1>1, <1>7, MinPosition
  <2> QED
    BY <1>1, <1>6, <2>1
<1>9. Max(inside) = b
  <2>1. Max(inside) \in inside /\ b <= Max(inside)
    BY <1>1, <1>7, MaxPosition
  <2> QED
    BY <1>1, <1>6, <2>1
<1>10. Slice(s, Offset(s, a), Offset(s, b + 1)) = SubSeq(s, Min(inside), Max(inside))
  BY <1>7 DEF Slice, inside
<1> QED
  BY <1>8, <1>9, <1>10

(* Punctuation is taken off a run on both sides, and nothing else is.      *)
LEMMA StripToken ==
  ASSUME NEW text \in Seq(Chars), NEW l \in 1..Len(text), NEW r \in 1..Len(text),
         NEW i \in l..r, NEW j \in i..r,
         OnlyPunctuation(text, l, i - 1), OnlyPunctuation(text, j + 1, r),
         text[i] \notin Punctuation, text[j] \notin Punctuation
  PROVE  strip(SubSeq(text, l, r)) = SubSeq(text, i, j)
<1>1. PICK s : s = SubSeq(text, l, r)
  OBVIOUS
<1>2. Len(text) \in Nat /\ l <= r /\ i \in Nat /\ j \in Nat /\ l \in Nat /\ r \in Nat
  OBVIOUS
<1>3. s \in Seq(Chars) /\ Len(s) = r - l + 1
  BY <1>1, <1>2, RunShape
<1>4. \A k \in 1..(r - l + 1) : s[k] = text[l + k - 1]
  BY <1>1, <1>2, RunShape
<1>5. PICK a, b : a = i - l + 1 /\ b = j - l + 1
  OBVIOUS
<1>6. /\ a \in 1..(r - l + 1) /\ b \in 1..(r - l + 1) /\ a <= b
      /\ l + a - 1 = i /\ l + b - 1 = j
  BY <1>2, <1>5
<1>7. DOMAIN s = 1..(r - l + 1)
  BY <1>3
<1>8. a \in Kept(s) /\ b \in Kept(s)
  BY <1>4, <1>6, <1>7 DEF Kept
<1>9. ASSUME NEW k \in Kept(s) PROVE a <= k /\ k <= b
  <2>1. k \in 1..(r - l + 1) /\ s[k] \notin Punctuation
    BY <1>7 DEF Kept
  <2>2. text[l + k - 1] \notin Punctuation
    BY <1>4, <2>1
  <2>3. l + k - 1 \in l..r
    BY <1>2, <2>1
  <2>4. ~(l + k - 1 \in l..(i - 1)) /\ ~(l + k - 1 \in (j + 1)..r)
    BY <2>2 DEF OnlyPunctuation
  <2>5. l + k - 1 >= i /\ l + k - 1 <= j
    BY <1>2, <2>3, <2>4
  <2> QED
    BY <1>2, <1>5, <2>1, <2>5
<1>10. PICK c, d \in Kept(s) :
         /\ \A k \in Kept(s) : c <= k /\ k <= d
         /\ StripStart(s) = Offset(s, c)
         /\ StripStart(s) + StripEnd(s) = Offset(s, d + 1)
  BY <1>3, <1>8, StripSpan
<1>11. c = a /\ d = b
  <2>1. c \in 1..(r - l + 1) /\ d \in 1..(r - l + 1)
    BY <1>7 DEF Kept
  <2>2. c <= a /\ a <= c /\ b <= d /\ d <= b
    BY <1>8, <1>9, <1>10
  <2> QED
    BY <1>2, <1>6, <2>1, <2>2
<1>12. strip(s) = SubSeq(s, a, b)
  BY <1>3, <1>6, <1>10, <1>11, SliceSpan DEF strip
<1>13. SubSeq(s, a, b) = SubSeq(text, i, j)
  <2>1. Len(SubSeq(s, a, b)) = j - i + 1 /\ Len(SubSeq(text, i, j)) = j - i + 1
    <3>1. i \in 1..Len(text) /\ j \in 1..Len(text) /\ i <= j /\ b - a + 1 = j - i + 1
      BY <1>2, <1>5
    <3> QED
      BY <1>3, <1>6, <3>1, RunShape
  <2>2. ASSUME NEW k \in 1..(j - i + 1) PROVE SubSeq(s, a, b)[k] = SubSeq(text, i, j)[k]
    <3>1. /\ i \in 1..Len(text) /\ j \in 1..Len(text) /\ i <= j
          /\ a + k - 1 \in 1..(r - l + 1) /\ l + (a + k - 1) - 1 = i + k - 1
          /\ b - a + 1 = j - i + 1
      BY <1>2, <1>5
    <3>2. SubSeq(text, i, j)[k] = text[i + k - 1]
      BY <3>1, RunShape
    <3>3. SubSeq(s, a, b)[k] = s[a + k - 1]
      BY <1>3, <1>6, <3>1, RunShape
    <3> QED
      BY <1>4, <3>1, <3>2, <3>3
  <2>3. SubSeq(s, a, b) \in Seq(Chars) /\ SubSeq(text, i, j) \in Seq(Chars)
    <3>1. i \in 1..Len(text) /\ j \in 1..Len(text) /\ i <= j
      BY <1>2
    <3> QED
      BY <1>3, <1>6, <3>1, RunShape
  <2>4. PICK u, v : u = SubSeq(s, a, b) /\ v = SubSeq(text, i, j)
    OBVIOUS
  <2>5. u \in Seq(Chars) /\ v \in Seq(Chars) /\ Len(u) = Len(v)
    BY <2>1, <2>3, <2>4
  <2>6. \A k \in 1..Len(u) : u[k] = v[k]
    BY <2>1, <2>2, <2>4
  <2>7. u = v
    BY <2>5, <2>6
  <2> QED
    BY <2>4, <2>7
<1> QED
  BY <1>1, <1>12, <1>13

(* The tokens of a text are its occurrences: a run with a character to     *)
(* keep yields one of them, with nothing but punctuation before it in the  *)
(* run, and every occurrence is what is left of some run.                  *)
THEOREM TokensAreOccurrences ==
  \A text \in Seq(Chars) :
    /\ \A match \in Runs(text) :
         Kept(Raw(text, match)) # {} =>
           \E i, j \in DOMAIN text :
             /\ Occurrence(text, i, j) /\ strip(Raw(text, match)) = SubSeq(text, i, j)
             /\ match[1] <= i /\ j <= match[2]
             /\ Edge(text, match[1] - 1) /\ OnlyPunctuation(text, match[1], i - 1)
    /\ \A i, j \in DOMAIN text :
         Occurrence(text, i, j) =>
           \E match \in Runs(text) :
             /\ match[1] <= i /\ j <= match[2]
             /\ strip(Raw(text, match)) = SubSeq(text, i, j)
<1> TAKE text \in Seq(Chars)
<1>1. Len(text) \in Nat /\ DOMAIN text = 1..Len(text)
  OBVIOUS
<1>2. ASSUME NEW match \in Runs(text), Kept(Raw(text, match)) # {}
      PROVE  \E i, j \in DOMAIN text :
               /\ Occurrence(text, i, j) /\ strip(Raw(text, match)) = SubSeq(text, i, j)
               /\ match[1] <= i /\ j <= match[2]
               /\ Edge(text, match[1] - 1) /\ OnlyPunctuation(text, match[1], i - 1)
  <2>1. PICK l \in 1..Len(text), r \in 1..Len(text) :
          /\ match[1] = l /\ match[2] = r /\ l <= r
          /\ \A k \in l..r : text[k] \notin Spaces
          /\ l = 1 \/ text[l - 1] \in Spaces
          /\ r = Len(text) \/ text[r + 1] \in Spaces
    BY <1>1 DEF Runs
  <2> DEFINE S == {k \in l..r : text[k] \notin Punctuation}
  <2>2. S # {} /\ S \subseteq 1..Len(text)
    <3>1. ~OnlyPunctuation(text, l, r)
      BY <1>2, <2>1, RunShape DEF Raw
    <3> QED
      BY <1>1, <3>1 DEF OnlyPunctuation
  <2>3. PICK i \in S : \A k \in S : i <= k
    <3> HIDE DEF S
    <3> QED
      BY <1>1, <2>2, MinPosition
  <2>4. PICK j \in S : \A k \in S : k <= j
    <3> HIDE DEF S
    <3> QED
      BY <1>1, <2>2, MaxPosition
  <2>5. i \in l..r /\ j \in l..r /\ i <= j /\ text[i] \notin Punctuation /\ text[j] \notin Punctuation
    BY <2>4, <2>3
  <2>6. OnlyPunctuation(text, l, i - 1)
    <3> SUFFICES ASSUME NEW k \in l..(i - 1), text[k] \notin Punctuation PROVE FALSE
      BY DEF OnlyPunctuation
    <3>1. k \in l..r /\ k < i
      BY <1>1, <2>5
    <3>2. i <= k
      BY <2>3, <3>1
    <3> QED
      BY <2>5, <3>1, <3>2
  <2>7. OnlyPunctuation(text, j + 1, r)
    <3> SUFFICES ASSUME NEW k \in (j + 1)..r, text[k] \notin Punctuation PROVE FALSE
      BY DEF OnlyPunctuation
    <3>1. k \in l..r /\ j < k
      BY <1>1, <2>5
    <3>2. k <= j
      BY <2>4, <3>1
    <3> QED
      BY <2>5, <3>1, <3>2
  <2>8. Edge(text, l - 1)
    <3>1. CASE l = 1
      BY <1>1, <3>1 DEF Edge
    <3>2. CASE text[l - 1] \in Spaces
      BY <3>2 DEF Edge
    <3> QED
      BY <2>1, <3>1, <3>2
  <2>9. Edge(text, r + 1)
    <3>1. CASE r = Len(text)
      BY <1>1, <3>1 DEF Edge
    <3>2. CASE text[r + 1] \in Spaces
      BY <3>2 DEF Edge
    <3> QED
      BY <2>1, <3>1, <3>2
  <2> HIDE DEF S
  <2>10. j \in i..r /\ i \in 1..Len(text) /\ j \in 1..Len(text)
    BY <1>1, <2>5
  <2>11. strip(Raw(text, match)) = SubSeq(text, i, j)
    BY <2>1, <2>5, <2>6, <2>7, <2>10, StripToken DEF Raw
  <2>12. l - 1 \in 0..(i - 1) /\ (l - 1) + 1 = l
    BY <1>1, <2>5
  <2>13. r + 1 \in (j + 1)..(Len(text) + 1) /\ (r + 1) - 1 = r
    BY <1>1, <2>5
  <2>14. ASSUME NEW k \in i..j PROVE text[k] \notin Spaces
    <3>1. k \in l..r
      BY <1>1, <2>5
    <3> QED
      BY <2>1, <3>1
  <2>15. \E p \in 0..(i - 1) : Edge(text, p) /\ OnlyPunctuation(text, p + 1, i - 1)
    BY <2>6, <2>8, <2>12
  <2>16. \E p \in (j + 1)..(Len(text) + 1) : Edge(text, p) /\ OnlyPunctuation(text, j + 1, p - 1)
    BY <2>7, <2>9, <2>13
  <2>17. Occurrence(text, i, j)
    BY <2>5, <2>14, <2>15, <2>16 DEF Occurrence
  <2>18. i \in DOMAIN text /\ j \in DOMAIN text /\ l <= i /\ j <= r
    BY <1>1, <2>5, <2>10
  <2>19. /\ match[1] <= i /\ j <= match[2]
         /\ Edge(text, match[1] - 1) /\ OnlyPunctuation(text, match[1], i - 1)
    BY <2>1, <2>6, <2>8, <2>18
  <2> QED
    BY <2>11, <2>17, <2>18, <2>19
<1>3. ASSUME NEW i \in DOMAIN text, NEW j \in DOMAIN text, Occurrence(text, i, j)
      PROVE  \E match \in Runs(text) :
               /\ match[1] <= i /\ j <= match[2]
               /\ strip(Raw(text, match)) = SubSeq(text, i, j)
  <2>1. PICK p \in 0..(i - 1) : Edge(text, p) /\ OnlyPunctuation(text, p + 1, i - 1)
    BY <1>3 DEF Occurrence
  <2>2. PICK q \in (j + 1)..(Len(text) + 1) : Edge(text, q) /\ OnlyPunctuation(text, j + 1, q - 1)
    BY <1>3 DEF Occurrence
  <2>3. /\ i <= j /\ text[i] \notin Punctuation /\ text[j] \notin Punctuation
        /\ \A k \in i..j : text[k] \notin Spaces
    BY <1>3 DEF Occurrence
  <2>4. PICK l, r : l = p + 1 /\ r = q - 1
    OBVIOUS
  <2>5. /\ l \in 1..Len(text) /\ r \in 1..Len(text) /\ i \in l..r /\ j \in i..r
        /\ i \in 1..Len(text) /\ j \in 1..Len(text) /\ l - 1 = p /\ r + 1 = q /\ l <= r
    BY <1>1, <2>3, <2>4
  <2>6. OnlyPunctuation(text, l, i - 1) /\ OnlyPunctuation(text, j + 1, r)
    BY <2>1, <2>2, <2>4
  <2>7. strip(SubSeq(text, l, r)) = SubSeq(text, i, j)
    BY <2>3, <2>5, <2>6, StripToken
  <2>8. ASSUME NEW k \in l..r PROVE text[k] \notin Spaces
    <3>1. k \in l..(i - 1) \/ k \in i..j \/ k \in (j + 1)..r
      BY <1>1, <2>5
    <3>2. text[k] \in Punctuation => text[k] \notin Spaces
      BY SpellCheckAssumption
    <3> QED
      BY <2>3, <2>6, <3>1, <3>2 DEF OnlyPunctuation
  <2>9. l = 1 \/ text[l - 1] \in Spaces
    <3>1. p \in DOMAIN text \/ p = 0
      BY <1>1, <2>4, <2>5
    <3> QED
      BY <2>1, <2>4, <2>5, <3>1 DEF Edge
  <2>10. r = Len(text) \/ text[r + 1] \in Spaces
    <3>1. q \in DOMAIN text \/ q = Len(text) + 1
      BY <1>1, <2>4, <2>5
    <3> QED
      BY <1>1, <2>2, <2>4, <2>5, <3>1 DEF Edge
  <2>11. <<l, r>> \in Runs(text)
    BY <1>1, <2>5, <2>8, <2>9, <2>10 DEF Runs
  <2>12. l <= i /\ j <= r
    BY <1>1, <2>5
  <2> QED
    BY <2>7, <2>11, <2>12 DEF Raw
<1> QED
  BY <1>2, <1>3

-----------------------------------------------------------------------------
(* Spans that begin at different places.                                   *)
Apart(spans) ==
  /\ IsFiniteSet(spans) /\ \A p \in spans : p[1] \in Nat
  /\ \A p, q \in spans : p[1] = q[1] => p = q

(* The spans that begin no later than a given one, and their number.       *)
UpToSpan(spans, p) == {q \in spans : q[1] <= p[1]}

Rank(spans, p) == Cardinality(UpToSpan(spans, p))

(* How many spans begin no later than one of them.                         *)
LEMMA RankGrows ==
  ASSUME NEW spans, Apart(spans)
  PROVE  /\ Cardinality(spans) \in Nat
         /\ \A p \in spans : Rank(spans, p) \in 1..Cardinality(spans)
         /\ \A p, q \in spans : p[1] < q[1] => Rank(spans, p) < Rank(spans, q)
<1>1. \A p : /\ IsFiniteSet(UpToSpan(spans, p))
             /\ Rank(spans, p) \in Nat /\ Rank(spans, p) <= Cardinality(spans)
  BY FS_Subset, FS_CardinalityType DEF Apart, UpToSpan, Rank
<1>2. Cardinality(spans) \in Nat
  BY FS_CardinalityType DEF Apart
<1>3. ASSUME NEW p \in spans PROVE Rank(spans, p) # 0
  <2>1. p \in UpToSpan(spans, p)
    BY DEF UpToSpan, Apart
  <2> QED
    BY <1>1, <2>1, FS_EmptySet DEF Rank
<1>4. ASSUME NEW p \in spans, NEW q \in spans, p[1] < q[1] PROVE Rank(spans, p) < Rank(spans, q)
  <2>1. /\ UpToSpan(spans, p) \in SUBSET UpToSpan(spans, q)
        /\ q \in UpToSpan(spans, q) /\ q \notin UpToSpan(spans, p)
    BY <1>4 DEF UpToSpan, Apart
  <2>2. Rank(spans, p) <= Rank(spans, q) /\ Rank(spans, p) # Rank(spans, q)
    BY <1>1, <2>1, FS_Subset DEF Rank
  <2> QED
    BY <1>1, <2>2
<1> QED
  BY <1>1, <1>2, <1>3, <1>4

(* A place for every span and a span for every place.                      *)
LEMMA RankFound ==
  ASSUME NEW spans, Apart(spans)
  PROVE  \A k \in 1..Cardinality(spans) : \E p \in spans : Rank(spans, p) = k
<1> DEFINE n == Cardinality(spans)
           f == [p \in spans |-> Rank(spans, p)]
<1>1. n \in Nat /\ f \in [spans -> 1..n]
  BY RankGrows
<1>2. ASSUME NEW p \in spans, NEW q \in spans, f[p] = f[q] PROVE p = q
  <2>1. Rank(spans, p) = Rank(spans, q) /\ Rank(spans, p) \in Nat
    BY <1>1, <1>2
  <2>2. ~(p[1] < q[1]) /\ ~(q[1] < p[1])
    BY <2>1, RankGrows
  <2>3. p[1] \in Nat /\ q[1] \in Nat
    BY DEF Apart
  <2>4. p[1] = q[1]
    BY <2>2, <2>3
  <2> QED
    BY <2>4 DEF Apart
<1>3. IsFiniteSet(1..n) /\ Cardinality(1..n) = n
  BY <1>1, FS_Interval
<1>4. \A k \in 1..n : \E p \in spans : f[p] = k
  <2>1. PICK T : T = 1..n
    OBVIOUS
  <2>2. Cardinality(spans) = Cardinality(T)
    BY <1>3, <2>1
  <2> HIDE DEF f, n
  <2>3. f \in Injection(spans, T) /\ IsFiniteSet(T)
    BY <1>1, <1>2, <1>3, <2>1 DEF Injection, IsInjective
  <2>4. f \in Surjection(spans, T)
    BY <2>2, <2>3, FS_Injection
  <2> QED
    BY <2>1, <2>4 DEF Surjection
<1> QED
  BY <1>4

(* What InOrder returns.                                                   *)
Ordered(s, spans) ==
  /\ Cardinality(spans) \in Nat /\ DOMAIN s = 1..Cardinality(spans)
  /\ \A k \in 1..Cardinality(spans) : s[k] \in spans /\ Rank(spans, s[k]) = k
  /\ \A p \in spans : Rank(spans, p) \in 1..Cardinality(spans) /\ s[Rank(spans, p)] = p

(* Every span has its place, and every place its span.                     *)
LEMMA InOrderIs ==
  ASSUME NEW spans, Apart(spans)
  PROVE  Ordered(InOrder(spans), spans)
<1> DEFINE n == Cardinality(spans)
           s == InOrder(spans)
<1>1. n \in Nat /\ DOMAIN s = 1..n
  BY RankGrows DEF InOrder
<1>2. ASSUME NEW k \in 1..n PROVE s[k] \in spans /\ Rank(spans, s[k]) = k
  <2>1. s[k] = CHOOSE p \in spans : Rank(spans, p) = k
    BY <1>2 DEF InOrder, Rank, UpToSpan
  <2>2. \E p \in spans : Rank(spans, p) = k
    BY <1>2, RankFound
  <2> HIDE DEF s
  <2> QED
    BY <2>1, <2>2
<1>3. ASSUME NEW p \in spans PROVE Rank(spans, p) \in 1..n /\ s[Rank(spans, p)] = p
  <2>1. PICK q : q = s[Rank(spans, p)]
    OBVIOUS
  <2>2. Rank(spans, p) \in 1..n
    BY RankGrows
  <2>3. q \in spans /\ Rank(spans, q) = Rank(spans, p)
    BY <1>2, <2>1, <2>2
  <2>4. ~(p[1] < q[1]) /\ ~(q[1] < p[1])
    BY <1>1, <2>2, <2>3, RankGrows
  <2>5. p[1] \in Nat /\ q[1] \in Nat
    BY <2>3 DEF Apart
  <2>6. p = q
    BY <2>3, <2>4, <2>5 DEF Apart
  <2> QED
    BY <2>1, <2>2, <2>6
<1> QED
  BY <1>1, <1>2, <1>3 DEF Ordered

(* Spans that move to others from left to right.                           *)
Moves(phi, A, B) ==
  /\ \A a \in A : phi[a] \in B
  /\ \A b \in B : \E a \in A : phi[a] = b
  /\ \A a, c \in A : a[1] < c[1] => phi[a][1] < phi[c][1]

(* They keep their places.                                                 *)
LEMMA MovedInOrder ==
  ASSUME NEW A, Apart(A), NEW B, Apart(B), NEW phi, Moves(phi, A, B)
  PROVE  /\ Cardinality(A) = Cardinality(B)
         /\ \A k \in 1..Cardinality(A) : InOrder(B)[k] = phi[InOrder(A)[k]]
<1>1. /\ \A a, c \in A : (a[1] <= c[1] <=> phi[a][1] <= phi[c][1])
      /\ \A a, c \in A : phi[a] = phi[c] => a = c
  <2>1. \A a, c \in A : a[1] \in Nat /\ c[1] \in Nat /\ phi[a][1] \in Nat /\ phi[c][1] \in Nat
    BY DEF Moves, Apart
  <2>2. \A a, c \in A : phi[a] = phi[c] => a = c
    <3> TAKE a, c \in A
    <3>1. phi[a] = phi[c] => ~(a[1] < c[1]) /\ ~(c[1] < a[1])
      BY <2>1 DEF Moves
    <3>2. phi[a] = phi[c] => a[1] = c[1]
      BY <2>1, <3>1
    <3> QED
      BY <3>2 DEF Apart
  <2>3. \A a, c \in A : (a[1] <= c[1] <=> phi[a][1] <= phi[c][1])
    <3> TAKE a, c \in A
    <3>1. a[1] < c[1] => phi[a][1] < phi[c][1]
      BY DEF Moves
    <3>2. c[1] < a[1] => phi[c][1] < phi[a][1]
      BY DEF Moves
    <3>3. a[1] = c[1] => phi[a][1] = phi[c][1]
      BY DEF Apart
    <3> QED
      BY <2>1, <3>1, <3>2, <3>3
  <2> QED
    BY <2>2, <2>3
<1>2. Cardinality(A) = Cardinality(B)
  <2> DEFINE f == [a \in A |-> phi[a]]
  <2>1. f \in Bijection(A, B)
    BY <1>1 DEF Moves, Bijection, Injection, IsInjective, Surjection
  <2>2. ExistsBijection(A, B)
    BY <2>1 DEF ExistsBijection
  <2> QED
    BY <2>2, FS_Bijection DEF Apart
<1>3. ASSUME NEW a \in A PROVE Rank(B, phi[a]) = Rank(A, a)
  <2> DEFINE S == UpToSpan(A, a)
             T == UpToSpan(B, phi[a])
             f == [c \in S |-> phi[c]]
  <2>1. \A c \in S : c \in A /\ phi[c] \in T
    BY <1>1 DEF UpToSpan, Moves
  <2>2. \A t \in T : \E c \in S : phi[c] = t
    BY <1>1 DEF UpToSpan, Moves
  <2>3. IsFiniteSet(S)
    BY FS_Subset DEF UpToSpan, Apart
  <2> HIDE DEF S, T
  <2>4. f \in Bijection(S, T)
    BY <1>1, <2>1, <2>2 DEF Bijection, Injection, IsInjective, Surjection
  <2>5. ExistsBijection(S, T)
    BY <2>4 DEF ExistsBijection
  <2>6. Cardinality(T) = Cardinality(S)
    BY <2>3, <2>5, FS_Bijection
  <2> QED
    BY <2>6 DEF Rank, S, T
<1>4. ASSUME NEW k \in 1..Cardinality(A) PROVE InOrder(B)[k] = phi[InOrder(A)[k]]
  <2>1. PICK a : a = InOrder(A)[k]
    OBVIOUS
  <2>2. a \in A /\ Rank(A, a) = k
    BY <2>1, InOrderIs DEF Ordered
  <2>3. phi[a] \in B /\ Rank(B, phi[a]) = k
    BY <1>3, <2>2 DEF Moves
  <2>4. InOrder(B)[Rank(B, phi[a])] = phi[a]
    BY <2>3, InOrderIs DEF Ordered
  <2> QED
    BY <2>1, <2>3, <2>4
<1> QED
  BY <1>2, <1>4

(* The places of a part of the spans, among all of them.                   *)
At(s, n, part) == {m \in 1..n : s[m] \in part}

(* The places up to one of them.                                           *)
UpToPlace(I, l) == {m \in I : m <= l}

(* A part keeps its order: the k-th of the part is the one with k of the   *)
(* part up to it.                                                          *)
LEMMA PartInOrder ==
  ASSUME NEW spans, Apart(spans), NEW part \in SUBSET spans,
         NEW s, s = InOrder(spans), NEW n, n = Cardinality(spans)
  PROVE  /\ Apart(part)
         /\ Cardinality(At(s, n, part)) = Cardinality(part)
         /\ \A k \in 1..Cardinality(part) : \E l \in At(s, n, part) :
              /\ InOrder(part)[k] = s[l]
              /\ k = Cardinality(UpToPlace(At(s, n, part), l))
<1>1. Apart(part)
  BY FS_Subset DEF Apart
<1>2. n \in Nat /\ \A k \in 1..n : s[k] \in spans /\ Rank(spans, s[k]) = k
  BY InOrderIs DEF Ordered
<1>3. \A p \in spans : Rank(spans, p) \in 1..n /\ s[Rank(spans, p)] = p
  BY InOrderIs DEF Ordered
<1>4. \A k, l \in 1..n : s[k][1] <= s[l][1] <=> k <= l
  <2> TAKE k, l \in 1..n
  <2>1. s[k] \in spans /\ s[l] \in spans /\ Rank(spans, s[k]) = k /\ Rank(spans, s[l]) = l
    BY <1>2
  <2>2. s[k][1] \in Nat /\ s[l][1] \in Nat
    BY <2>1 DEF Apart
  <2>3. /\ s[k][1] < s[l][1] => k < l
        /\ s[l][1] < s[k][1] => l < k
    BY <2>1, RankGrows
  <2>4. s[k][1] = s[l][1] => k = l
    BY <2>1 DEF Apart
  <2> QED
    BY <1>2, <2>2, <2>3, <2>4
<1>5. \A k, l \in 1..n : s[k] = s[l] => k = l
  BY <1>2
<1> DEFINE Upto(l) == UpToPlace(At(s, n, part), l)
<1>6. ASSUME NEW S, S \subseteq At(s, n, part), NEW P, P \subseteq part,
             \A m \in S : s[m] \in P, \A p \in P : Rank(spans, p) \in S
      PROVE  Cardinality(S) = Cardinality(P)
  <2> DEFINE f == [m \in S |-> s[m]]
  <2>1. S \subseteq 1..n
    BY <1>6 DEF At
  <2>2. IsFiniteSet(S)
    <3>1. PICK I : I = 1..n
      OBVIOUS
    <3>2. IsFiniteSet(I) /\ S \in SUBSET I
      BY <1>2, <2>1, <3>1, FS_Interval
    <3> QED
      BY <3>2, FS_Subset
  <2>3. f \in [S -> P]
    BY <1>6
  <2>4. \A p \in P : Rank(spans, p) \in S /\ f[Rank(spans, p)] = p
    BY <1>3, <1>6
  <2>5. \A k, l \in S : f[k] = f[l] => k = l
    BY <1>5, <2>1
  <2> HIDE DEF f
  <2>6. f \in Bijection(S, P)
    BY <2>3, <2>4, <2>5 DEF Bijection, Injection, IsInjective, Surjection
  <2>7. ExistsBijection(S, P)
    BY <2>6 DEF ExistsBijection
  <2> QED
    BY <2>2, <2>7, FS_Bijection
<1>7. \A m \in At(s, n, part) : s[m] \in part
  BY DEF At
<1>8. \A p \in part : Rank(spans, p) \in At(s, n, part)
  BY <1>3 DEF At
<1>9. Cardinality(At(s, n, part)) = Cardinality(part)
  BY <1>6, <1>7, <1>8
<1>10. ASSUME NEW k \in 1..Cardinality(part)
       PROVE  \E l \in At(s, n, part) : InOrder(part)[k] = s[l] /\ k = Cardinality(Upto(l))
  <2>1. PICK p : p = InOrder(part)[k]
    OBVIOUS
  <2>2. p \in part /\ Rank(part, p) = k
    BY <1>1, <2>1, InOrderIs DEF Ordered
  <2>3. PICK l : l = Rank(spans, p)
    OBVIOUS
  <2>4. l \in At(s, n, part) /\ l \in 1..n /\ s[l] = p
    BY <1>3, <1>8, <2>2, <2>3
  <2>5. \A m \in Upto(l) : s[m] \in UpToSpan(part, p)
    BY <1>4, <2>4 DEF At, UpToPlace, UpToSpan
  <2>6. ASSUME NEW q \in UpToSpan(part, p) PROVE Rank(spans, q) \in Upto(l)
    <3>1. q \in part /\ q[1] <= p[1]
      BY DEF UpToSpan
    <3>2. PICK m : m = Rank(spans, q)
      OBVIOUS
    <3>3. m \in 1..n /\ s[m] = q
      BY <1>3, <3>1, <3>2
    <3>4. m <= l
      BY <1>4, <2>4, <3>1, <3>3
    <3> QED
      BY <1>8, <3>1, <3>2, <3>4 DEF UpToPlace
  <2>7. Cardinality(Upto(l)) = Cardinality(UpToSpan(part, p))
    <3>1. Upto(l) \subseteq At(s, n, part) /\ UpToSpan(part, p) \subseteq part
      BY DEF UpToSpan, UpToPlace
    <3> HIDE DEF Upto
    <3> QED
      BY <1>6, <2>5, <2>6, <3>1
  <2> QED
    BY <2>1, <2>2, <2>4, <2>7 DEF Rank
<1> QED
  BY <1>1, <1>9, <1>10

-----------------------------------------------------------------------------
(* The matches of \S+ do not overlap.                                      *)
LEMMA RunsApart ==
  ASSUME NEW text \in Seq(Chars)
  PROVE  /\ Apart(Runs(text))
         /\ \A m \in Runs(text) : /\ m[1] \in 1..Len(text) /\ m[2] \in 1..Len(text) /\ m[1] <= m[2]
                                  /\ \A k \in m[1]..m[2] : text[k] \notin Spaces
         /\ \A m, o \in Runs(text) : m[1] < o[1] => m[2] < o[1]
<1>1. Len(text) \in Nat /\ DOMAIN text = 1..Len(text)
  OBVIOUS
<1>2. \A m \in Runs(text) : /\ m[1] \in 1..Len(text) /\ m[2] \in 1..Len(text) /\ m[1] <= m[2]
                            /\ \A k \in m[1]..m[2] : text[k] \notin Spaces
                            /\ m[1] = 1 \/ text[m[1] - 1] \in Spaces
                            /\ m[2] = Len(text) \/ text[m[2] + 1] \in Spaces
                            /\ m = <<m[1], m[2]>>
  BY <1>1 DEF Runs
<1>3. ASSUME NEW m \in Runs(text), NEW o \in Runs(text), m[1] < o[1] PROVE m[2] < o[1]
  <2>1. m[1] \in Nat /\ m[2] \in Nat /\ o[1] \in Nat /\ m[1] >= 1
    BY <1>2
  <2>2. text[o[1] - 1] \in Spaces
    BY <1>2, <1>3, <2>1
  <2>3. o[1] - 1 \notin m[1]..m[2]
    BY <1>2, <2>2
  <2> QED
    BY <1>3, <2>1, <2>3
<1>4. ASSUME NEW m \in Runs(text), NEW o \in Runs(text), m[1] = o[1], m[2] < o[2] PROVE FALSE
  <2>1. m[1] \in Nat /\ m[2] \in Nat /\ o[2] \in Nat /\ m[1] <= m[2] /\ o[2] <= Len(text)
    BY <1>2
  <2>2. text[m[2] + 1] \in Spaces
    BY <1>1, <1>2, <1>4, <2>1
  <2>3. m[2] + 1 \in o[1]..o[2]
    BY <1>4, <2>1
  <2> QED
    BY <1>2, <2>2, <2>3
<1>5. \A m, o \in Runs(text) : m[1] = o[1] => m = o
  <2> TAKE m, o \in Runs(text)
  <2>1. m[2] \in Nat /\ o[2] \in Nat
    BY <1>2
  <2>2. m[1] = o[1] => ~(m[2] < o[2]) /\ ~(o[2] < m[2])
    BY <1>4
  <2>3. m[1] = o[1] => m[2] = o[2]
    BY <2>1, <2>2
  <2> QED
    BY <1>2, <2>3
<1>6. IsFiniteSet(Runs(text))
  <2>1. PICK D : D = DOMAIN text
    OBVIOUS
  <2>2. IsFiniteSet(D)
    BY <1>1, <2>1, FS_Interval
  <2>3. PICK P : P = D \X D
    OBVIOUS
  <2>4. IsFiniteSet(P)
    BY <2>2, <2>3, FS_Product
  <2>5. Runs(text) \in SUBSET P
    BY <2>1, <2>3 DEF Runs
  <2> QED
    BY <2>4, <2>5, FS_Subset
<1>7. Apart(Runs(text))
  BY <1>2, <1>5, <1>6 DEF Apart
<1> QED
  BY <1>2, <1>3, <1>7

(* Nor do occurrences, and there is white space before one that begins     *)
(* later.                                                                  *)
LEMMA OccurrencesApart ==
  ASSUME NEW text \in Seq(Chars)
  PROVE  /\ Apart(Occurrences(text))
         /\ \A o \in Occurrences(text) :
              /\ o[1] \in 1..Len(text) /\ o[2] \in 1..Len(text) /\ o[1] <= o[2]
              /\ Occurrence(text, o[1], o[2]) /\ o = <<o[1], o[2]>>
         /\ \A o, p \in Occurrences(text) :
              o[1] < p[1] => \E b \in o[1]..p[1] : text[b] \in Spaces
<1>1. Len(text) \in Nat /\ DOMAIN text = 1..Len(text)
  OBVIOUS
<1>2. \A o \in Occurrences(text) : /\ o[1] \in 1..Len(text) /\ o[2] \in 1..Len(text) /\ o[1] <= o[2]
                                   /\ Occurrence(text, o[1], o[2]) /\ o = <<o[1], o[2]>>
  BY <1>1 DEF Occurrences, Occurrence
<1>3. ASSUME NEW o \in Occurrences(text), NEW p \in Occurrences(text), o[1] < p[1]
      PROVE  \E b \in o[1]..p[1] : text[b] \in Spaces
  <2>1. o[1] \in Nat /\ p[1] \in Nat /\ o[1] >= 1 /\ p[1] <= Len(text)
    BY <1>2
  <2>2. PICK b \in 0..(p[1] - 1) : Edge(text, b) /\ OnlyPunctuation(text, b + 1, p[1] - 1)
    BY <1>2 DEF Occurrence
  <2>3. text[o[1]] \notin Punctuation
    BY <1>2 DEF Occurrence
  <2>4. o[1] \notin (b + 1)..(p[1] - 1)
    BY <2>2, <2>3 DEF OnlyPunctuation
  <2>5. b \in o[1]..p[1] /\ b \in 1..Len(text)
    BY <1>1, <1>3, <2>1, <2>4
  <2>6. text[b] \in Spaces
    BY <1>1, <2>2, <2>5 DEF Edge
  <2> QED
    BY <2>5, <2>6
<1>4. ASSUME NEW o \in Occurrences(text), NEW p \in Occurrences(text), o[1] = p[1], o[2] < p[2]
      PROVE  FALSE
  <2>1. /\ o[1] \in Nat /\ o[2] \in Nat /\ p[2] \in Nat
        /\ o[1] <= o[2] /\ p[2] <= Len(text) /\ o[1] >= 1
    BY <1>2
  <2>2. PICK e \in (o[2] + 1)..(Len(text) + 1) :
          Edge(text, e) /\ OnlyPunctuation(text, o[2] + 1, e - 1)
    BY <1>2 DEF Occurrence
  <2>3. text[p[2]] \notin Punctuation /\ \A k \in p[1]..p[2] : text[k] \notin Spaces
    BY <1>2 DEF Occurrence
  <2>4. p[2] \notin (o[2] + 1)..(e - 1)
    BY <2>2, <2>3 DEF OnlyPunctuation
  <2>5. e \in p[1]..p[2] /\ e \in 1..Len(text)
    BY <1>1, <1>4, <2>1, <2>4
  <2>6. text[e] \in Spaces
    BY <1>1, <2>2, <2>5 DEF Edge
  <2> QED
    BY <2>3, <2>5, <2>6
<1>5. \A o, p \in Occurrences(text) : o[1] = p[1] => o = p
  <2> TAKE o, p \in Occurrences(text)
  <2>1. o[2] \in Nat /\ p[2] \in Nat
    BY <1>2
  <2>2. o[1] = p[1] => ~(o[2] < p[2]) /\ ~(p[2] < o[2])
    BY <1>4
  <2>3. o[1] = p[1] => o[2] = p[2]
    BY <2>1, <2>2
  <2> QED
    BY <1>2, <2>3
<1>6. IsFiniteSet(Occurrences(text))
  <2>1. PICK D : D = DOMAIN text
    OBVIOUS
  <2>2. IsFiniteSet(D)
    BY <1>1, <2>1, FS_Interval
  <2>3. PICK P : P = D \X D
    OBVIOUS
  <2>4. IsFiniteSet(P)
    BY <2>2, <2>3, FS_Product
  <2>5. Occurrences(text) \in SUBSET P
    BY <2>1, <2>3 DEF Occurrences
  <2> QED
    BY <2>4, <2>5, FS_Subset
<1>7. Apart(Occurrences(text))
  BY <1>2, <1>5, <1>6 DEF Apart
<1> QED
  BY <1>2, <1>3, <1>7

(* What is left of a match, in its text: an occurrence, after the          *)
(* punctuation that was taken off.                                         *)
Leaves(text, m, o) ==
  /\ m[1] <= o[1] /\ o[2] <= m[2]
  /\ strip(Raw(text, m)) = SubSeq(text, o[1], o[2])
  /\ Edge(text, m[1] - 1) /\ OnlyPunctuation(text, m[1], o[1] - 1)

(* Without bare punctuation, every match leaves one occurrence, and every  *)
(* occurrence is left of one.                                              *)
LEMMA MatchesMove ==
  ASSUME NEW text \in Seq(Chars), ~HasBareRun(text)
  PROVE  /\ Matches(text) = Runs(text)
         /\ \E phi : /\ Moves(phi, Matches(text), Occurrences(text))
                     /\ \A m \in Matches(text) : Leaves(text, m, phi[m])
<1>1. Len(text) \in Nat /\ DOMAIN text = 1..Len(text)
  OBVIOUS
<1>2. ASSUME NEW m \in Runs(text) PROVE Kept(Raw(text, m)) # {}
  <2>1. ~StripPanics(Raw(text, m))
    BY BareRunsPanic DEF TokenizePanics
  <2>2. m[1] \in 1..Len(text) /\ m[2] \in 1..Len(text) /\ m[1] <= m[2]
    BY RunsApart
  <2>3. PICK s : s = Raw(text, m)
    OBVIOUS
  <2>4. s \in Seq(Chars) /\ Len(s) = m[2] - m[1] + 1
    BY <2>2, <2>3, RunShape DEF Raw
  <2>5. Len(s) > 0
    BY <1>1, <2>2, <2>4
  <2> QED
    BY <2>1, <2>3, <2>4, <2>5, RunPanics
<1>3. ASSUME NEW m \in Runs(text) PROVE \E o \in Occurrences(text) : Leaves(text, m, o)
  <2>1. PICK i \in DOMAIN text, j \in DOMAIN text :
          /\ Occurrence(text, i, j) /\ strip(Raw(text, m)) = SubSeq(text, i, j)
          /\ m[1] <= i /\ j <= m[2]
          /\ Edge(text, m[1] - 1) /\ OnlyPunctuation(text, m[1], i - 1)
    BY <1>2, TokensAreOccurrences
  <2>2. <<i, j>> \in Occurrences(text)
    BY <2>1 DEF Occurrences
  <2>3. Leaves(text, m, <<i, j>>)
    BY <2>1 DEF Leaves
  <2> QED
    BY <2>2, <2>3
<1>4. Matches(text) = Runs(text)
  <2> SUFFICES ASSUME NEW m \in Runs(text) PROVE strip(Raw(text, m)) # <<>>
    BY DEF Matches
  <2>1. PICK o \in Occurrences(text) : strip(Raw(text, m)) = SubSeq(text, o[1], o[2])
    BY <1>3 DEF Leaves
  <2>2. o[1] \in 1..Len(text) /\ o[2] \in 1..Len(text) /\ o[1] <= o[2]
    BY OccurrencesApart
  <2>3. Len(SubSeq(text, o[1], o[2])) = o[2] - o[1] + 1
    BY <2>2, RunShape
  <2>4. o[2] - o[1] + 1 # 0
    BY <1>1, <2>2
  <2>5. PICK w : w = SubSeq(text, o[1], o[2])
    OBVIOUS
  <2>6. Len(w) # 0 /\ strip(Raw(text, m)) = w
    BY <2>1, <2>3, <2>4, <2>5
  <2>7. Len(<<>>) = 0
    OBVIOUS
  <2> QED
    BY <2>6, <2>7
<1>5. ASSUME NEW m \in Runs(text), NEW o \in Occurrences(text), NEW p \in Occurrences(text),
             m[1] <= o[1], p[2] <= m[2]
      PROVE  ~(o[1] < p[1])
  <2> SUFFICES ASSUME o[1] < p[1] PROVE FALSE
    OBVIOUS
  <2>1. PICK b \in o[1]..p[1] : text[b] \in Spaces
    BY OccurrencesApart
  <2>2. /\ m[1] \in Nat /\ m[2] \in Nat /\ o[1] \in Nat
        /\ p[1] \in Nat /\ p[2] \in Nat /\ p[1] <= p[2]
    BY RunsApart, OccurrencesApart
  <2>3. b \in m[1]..m[2]
    BY <1>5, <2>2
  <2> QED
    BY <2>1, <2>3, RunsApart
<1>6. ASSUME NEW m \in Runs(text), NEW o \in Occurrences(text), NEW p \in Occurrences(text),
             m[1] <= o[1], o[2] <= m[2], m[1] <= p[1], p[2] <= m[2]
      PROVE  o = p
  <2>1. ~(o[1] < p[1]) /\ ~(p[1] < o[1])
    BY <1>5, <1>6
  <2>2. o[1] \in Nat /\ p[1] \in Nat
    BY OccurrencesApart
  <2>3. o[1] = p[1]
    BY <2>1, <2>2
  <2> QED
    BY <2>3, OccurrencesApart DEF Apart
<1> DEFINE phi == [m \in Runs(text) |-> CHOOSE o \in Occurrences(text) : Leaves(text, m, o)]
<1>7. ASSUME NEW m \in Runs(text) PROVE phi[m] \in Occurrences(text) /\ Leaves(text, m, phi[m])
  BY <1>3
<1> HIDE DEF phi
<1>8. ASSUME NEW o \in Occurrences(text) PROVE \E m \in Runs(text) : phi[m] = o
  <2>1. o[1] \in DOMAIN text /\ o[2] \in DOMAIN text /\ Occurrence(text, o[1], o[2])
    BY <1>1, OccurrencesApart
  <2>2. PICK m \in Runs(text) : m[1] <= o[1] /\ o[2] <= m[2]
    BY <2>1, TokensAreOccurrences
  <2>3. m[1] <= phi[m][1] /\ phi[m][2] <= m[2] /\ phi[m] \in Occurrences(text)
    BY <1>7 DEF Leaves
  <2> QED
    BY <1>6, <2>2, <2>3
<1>9. ASSUME NEW m \in Runs(text), NEW n \in Runs(text), m[1] < n[1] PROVE phi[m][1] < phi[n][1]
  <2>1. PICK o, p : o = phi[m] /\ p = phi[n]
    OBVIOUS
  <2>2. /\ o \in Occurrences(text) /\ m[1] <= o[1] /\ o[2] <= m[2]
        /\ p \in Occurrences(text) /\ n[1] <= p[1]
    BY <1>7, <2>1 DEF Leaves
  <2>3. m[2] < n[1]
    BY <1>9, RunsApart
  <2>4. /\ m[2] \in Nat /\ n[1] \in Nat /\ p[1] \in Nat
        /\ o[1] \in Nat /\ o[2] \in Nat /\ o[1] <= o[2]
    BY <2>2, RunsApart, OccurrencesApart
  <2> QED
    BY <2>1, <2>2, <2>3, <2>4
<1>10. Moves(phi, Runs(text), Occurrences(text))
  BY <1>7, <1>8, <1>9 DEF Moves
<1> QED
  BY <1>4, <1>7, <1>10

(* The length of a sequence that is given by its elements.                 *)
LEMMA LengthOfList ==
  ASSUME NEW n \in Nat, NEW s, DOMAIN s = 1..n, NEW T, s \in [1..n -> T]
  PROVE  Len(s) = n /\ s \in Seq(T)
  OBVIOUS

(* tokenize and its reference, place by place.                             *)
Matched(text, n) ==
  /\ n \in Nat /\ Len(tokenize(text)) = n /\ DOMAIN tokenize(text) = 1..n
  /\ Len(Places(text)) = n /\ DOMAIN Places(text) = 1..n
  /\ n = Cardinality(Matches(text))
  /\ \A k \in 1..n :
       /\ InOrder(Matches(text))[k] \in Matches(text)
       /\ tokenize(text)[k] = Token(text, InOrder(Matches(text))[k])
       /\ Places(text)[k] \in Occurrences(text)
       /\ Leaves(text, InOrder(Matches(text))[k], Places(text)[k])

(* The k-th token is what is left of the k-th match, and that is the k-th  *)
(* occurrence.                                                             *)
LEMMA TokensArePlaced ==
  ASSUME NEW text \in Seq(Chars), ~HasBareRun(text)
  PROVE  Matched(text, Cardinality(Matches(text)))
<1>1. PICK phi : /\ Moves(phi, Matches(text), Occurrences(text))
                 /\ \A m \in Matches(text) : Leaves(text, m, phi[m])
  BY MatchesMove
<1>2. Apart(Matches(text)) /\ Apart(Occurrences(text))
  BY MatchesMove, RunsApart, OccurrencesApart
<1>3. PICK n, s, p : n = Cardinality(Matches(text)) /\ s = InOrder(Matches(text)) /\ p = Places(text)
  OBVIOUS
<1>4. n \in Nat /\ DOMAIN s = 1..n /\ \A k \in 1..n : s[k] \in Matches(text)
  BY <1>2, <1>3, InOrderIs DEF Ordered
<1>5. n = Cardinality(Occurrences(text)) /\ \A k \in 1..n : p[k] = phi[s[k]]
  BY <1>1, <1>2, <1>3, MovedInOrder DEF Places
<1>6. DOMAIN p = 1..n /\ \A k \in 1..n : p[k] \in Occurrences(text)
  BY <1>2, <1>3, <1>5, InOrderIs DEF Ordered, Places
<1>7. p \in [1..n -> Occurrences(text)]
  BY <1>3, <1>5, <1>6 DEF Places, InOrder
<1>8. Len(p) = n
  BY <1>4, <1>6, <1>7, LengthOfList
<1>9. PICK t : t = tokenize(text)
  OBVIOUS
<1>10. t = [k \in 1..n |-> Token(text, s[k])]
  BY <1>3, <1>4, <1>9 DEF tokenize
<1>11. t \in [1..n -> {Token(text, m) : m \in Matches(text)}]
  BY <1>4, <1>10
<1>12. Len(t) = n
  BY <1>4, <1>10, <1>11, LengthOfList
<1>13. \A k \in 1..n : Leaves(text, s[k], p[k])
  BY <1>1, <1>4, <1>5
<1> QED
  BY <1>3, <1>4, <1>6, <1>8, <1>9, <1>10, <1>12, <1>13 DEF Matched

(* A token is placed at the white space or punctuation before it.          *)
LEMMA StartsAt ==
  ASSUME NEW text \in Seq(Chars), NEW m \in Runs(text), NEW o, Leaves(text, m, o)
  PROVE  /\ Token(text, m).token = SubSeq(text, o[1], o[2])
         /\ Edge(text, Token(text, m).start_char)
         /\ OnlyPunctuation(text, Token(text, m).start_char + 1, o[1] - 1)
<1>1. m[1] \in 1..Len(text) /\ Len(text) \in Nat
  BY RunsApart
<1>2. Token(text, m).token = strip(Raw(text, m)) /\ Token(text, m).start_char = m[1] - 1
  BY DEF Token
<1>3. (m[1] - 1) + 1 = m[1]
  BY <1>1
<1> QED
  BY <1>2, <1>3 DEF Leaves

(* The tokenizer against its reference, text by text.                      *)
LEMMA TextMatches ==
  ASSUME NEW text \in Seq(Chars)
  PROVE  TokensMatch(text)
<1>1. TokenizePanics(text) => HasBareRun(text)
  BY BareRunsPanic
<1>2. ASSUME ~HasBareRun(text), NEW k \in DOMAIN Places(text)
      PROVE  /\ tokenize(text)[k].token = SubSeq(text, Places(text)[k][1], Places(text)[k][2])
             /\ Edge(text, tokenize(text)[k].start_char)
             /\ OnlyPunctuation(text, tokenize(text)[k].start_char + 1, Places(text)[k][1] - 1)
  <2>1. PICK n : Matched(text, n)
    BY <1>2, TokensArePlaced
  <2>2. PICK m, o : m = InOrder(Matches(text))[k] /\ o = Places(text)[k]
    OBVIOUS
  <2>3. m \in Runs(text) /\ Leaves(text, m, o) /\ tokenize(text)[k] = Token(text, m)
    BY <1>2, <2>1, <2>2 DEF Matched, Matches
  <2> QED
    BY <2>2, <2>3, StartsAt
<1>3. ~HasBareRun(text) => Len(tokenize(text)) = Len(Places(text))
  BY TokensArePlaced DEF Matched
<1> QED
  BY <1>1, <1>2, <1>3 DEF TokensMatch

-----------------------------------------------------------------------------
(* The words that the two handlers look up, those of the text first.       *)
Word(text, words, n, k) == IF k <= n THEN tokenize(text)[k].token ELSE words[k - n]

(* One list after the other.                                               *)
LEMMA Joined ==
  ASSUME NEW n \in Nat, NEW m \in Nat, NEW T, NEW s \in [1..n -> T], NEW t \in [1..m -> T]
  PROVE  /\ Len(s \o t) = n + m /\ DOMAIN (s \o t) = 1..(n + m)
         /\ \A k \in 1..(n + m) : (s \o t)[k] = IF k <= n THEN s[k] ELSE t[k - n]
<1>1. s \in Seq(T) /\ t \in Seq(T) /\ Len(s) = n /\ Len(t) = m
  BY LengthOfList
<1> QED
  BY <1>1

(* A body with a text and a list of words.                                 *)
BodyOf(text, words) == [text |-> text, words |-> words, language |-> Absent]

(* The results of /spellcheck, one for each of these words.                *)
Results(text, words, n) ==
  LET results == spellcheck(BodyOf(text, words))
  IN  /\ Len(results) = n + Len(words) /\ DOMAIN results = 1..(n + Len(words))
      /\ \A k \in 1..(n + Len(words)) : results[k] = token_result(Word(text, words, n, k))

(* spellcheck answers one result for each word, in this order.             *)
LEMMA ResultsAre ==
  ASSUME NEW text \in Texts, NEW words \in WordLists, ~HasBareRun(text),
         NEW n, n = Cardinality(Matches(text))
  PROVE  Results(text, words, n)
<1>1. /\ n \in Nat /\ DOMAIN tokenize(text) = 1..n
      /\ Len(words) \in Nat /\ DOMAIN words = 1..Len(words)
  <2>1. Matched(text, n) /\ words \in Seq(Seq(Chars))
    BY TokensArePlaced, SpellCheckAssumption
  <2> QED
    BY <2>1 DEF Matched
<1>2. Given(BodyOf(text, words).text) = text /\ Given(BodyOf(text, words).words) = words
  BY SpellCheckAssumption DEF Given, BodyOf
<1>3. PICK s, t, l : /\ s = [k \in 1..n |-> token_result(tokenize(text)[k].token)]
                     /\ t = [k \in 1..l |-> token_result(words[k])]
                     /\ l = Len(words)
  OBVIOUS
<1>4. spellcheck(BodyOf(text, words)) = s \o t
  BY <1>1, <1>2, <1>3 DEF spellcheck
<1>5. PICK T : T = {token_result(tokenize(text)[k].token) : k \in 1..n}
                     \union {token_result(words[k]) : k \in 1..l}
  OBVIOUS
<1>6. s \in [1..n -> T] /\ t \in [1..l -> T] /\ l \in Nat
  BY <1>1, <1>3, <1>5
<1>7. /\ Len(s \o t) = n + l /\ DOMAIN (s \o t) = 1..(n + l)
      /\ \A k \in 1..(n + l) : (s \o t)[k] = IF k <= n THEN s[k] ELSE t[k - n]
  BY <1>1, <1>6, Joined
<1>8. ASSUME NEW k \in 1..(n + l) PROVE (s \o t)[k] = token_result(Word(text, words, n, k))
  <2>1. CASE k <= n
    <3>1. k \in 1..n
      BY <1>1, <1>6, <2>1
    <3> QED
      BY <1>3, <1>7, <2>1, <3>1 DEF Word
  <2>2. CASE ~(k <= n)
    <3>1. k - n \in 1..l
      BY <1>1, <1>6, <2>2
    <3> QED
      BY <1>3, <1>7, <2>2, <3>1 DEF Word
  <2> QED
    BY <2>1, <2>2
<1> QED
  BY <1>3, <1>4, <1>7, <1>8 DEF Results

(* The misspelled ones among these words.                                  *)
Wrong(text, words, n) ==
  {Word(text, words, n, k) : k \in {l \in 1..(n + Len(words)) : ~check(Word(text, words, n, l))}}

(* They are the words spellcheck_positions collects.                       *)
LEMMA WrongWords ==
  ASSUME NEW text \in Texts, NEW words \in WordLists, ~HasBareRun(text),
         NEW n, n = Cardinality(Matches(text))
  PROVE  Misspelled([k \in DOMAIN tokenize(text) |-> tokenize(text)[k].token] \o words)
           = Wrong(text, words, n)
<1>1. /\ n \in Nat /\ DOMAIN tokenize(text) = 1..n
      /\ Len(words) \in Nat /\ DOMAIN words = 1..Len(words)
  <2>1. Matched(text, n) /\ words \in Seq(Seq(Chars))
    BY TokensArePlaced, SpellCheckAssumption
  <2> QED
    BY <2>1 DEF Matched
<1>2. PICK s, l : s = [k \in 1..n |-> tokenize(text)[k].token] /\ l = Len(words)
  OBVIOUS
<1>3. PICK T : T = {tokenize(text)[k].token : k \in 1..n} \union {words[k] : k \in 1..l}
  OBVIOUS
<1>4. s \in [1..n -> T] /\ words \in [1..l -> T] /\ l \in Nat
  <2>1. words = [k \in 1..l |-> words[k]]
    <3>1. words \in Seq(Seq(Chars))
      BY SpellCheckAssumption
    <3> QED
      BY <1>2, <3>1
  <2>2. [k \in 1..l |-> words[k]] \in [1..l -> T]
    BY <1>3
  <2> QED
    BY <1>1, <1>2, <1>3, <2>1, <2>2
<1>5. PICK j : j = s \o words
  OBVIOUS
<1>6. /\ DOMAIN j = 1..(n + l)
      /\ \A k \in 1..(n + l) : j[k] = IF k <= n THEN s[k] ELSE words[k - n]
  BY <1>1, <1>4, <1>5, Joined
<1>7. \A k \in 1..(n + l) : j[k] = Word(text, words, n, k)
  <2> TAKE k \in 1..(n + l)
  <2>1. k <= n => k \in 1..n
    BY <1>1, <1>4
  <2> QED
    BY <1>2, <1>6, <2>1 DEF Word
<1>8. Misspelled(j) = {j[k] : k \in {i \in 1..(n + l) : ~check(j[i])}}
  BY <1>6 DEF Misspelled, Range
<1>9. Misspelled(j) = Wrong(text, words, n)
  BY <1>2, <1>7, <1>8 DEF Wrong
<1> QED
  BY <1>1, <1>2, <1>5, <1>9

(* The matches of a word, and its entry.                                   *)
Spots(text, w) == {match \in Matches(text) : Token(text, match).token = w}

Entry(text, w) ==
  [token |-> w,
   positions |-> [k \in DOMAIN InOrder(Spots(text, w)) |->
                    Token(text, InOrder(Spots(text, w))[k]).start_char],
   suggestions |-> suggest(w)]

(* spellcheck_positions has one entry for each of the misspelled words.    *)
LEMMA EntriesAre ==
  ASSUME NEW text \in Texts, NEW words \in WordLists, ~HasBareRun(text),
         NEW n, n = Cardinality(Matches(text))
  PROVE  spellcheck_positions(BodyOf(text, words)) = {Entry(text, w) : w \in Wrong(text, words, n)}
<1>1. Given(BodyOf(text, words).text) = text /\ Given(BodyOf(text, words).words) = words
  BY SpellCheckAssumption DEF Given, BodyOf
<1>2. PICK W : W = Misspelled([k \in DOMAIN tokenize(text) |-> tokenize(text)[k].token] \o words)
  OBVIOUS
<1>3. spellcheck_positions(BodyOf(text, words)) = {Entry(text, w) : w \in W}
  BY <1>1, <1>2 DEF spellcheck_positions, Entry, Spots
<1> QED
  BY <1>2, <1>3, WrongWords

(* The entry of a word has a place for each result of the text with the    *)
(* word, in the order of the results.                                      *)
LEMMA SpotsAreResults ==
  ASSUME NEW text \in Texts, ~HasBareRun(text), NEW n, n = Cardinality(Matches(text)),
         NEW w, NEW I, I = {k \in 1..n : tokenize(text)[k].token = w}
  PROVE  /\ Len(Entry(text, w).positions) = Cardinality(I)
         /\ \A k \in DOMAIN Entry(text, w).positions : \E l \in I :
              /\ k = Cardinality(UpToPlace(I, l))
              /\ Edge(text, Entry(text, w).positions[k])
              /\ OnlyPunctuation(text, Entry(text, w).positions[k] + 1, Places(text)[l][1] - 1)
<1>1. Matched(text, n) /\ text \in Seq(Chars)
  BY TokensArePlaced, SpellCheckAssumption
<1>2. Apart(Matches(text)) /\ Matches(text) = Runs(text)
  BY <1>1, MatchesMove, RunsApart
<1>3. PICK s, P, at : s = InOrder(Matches(text)) /\ P = Spots(text, w) /\ at = InOrder(P)
  OBVIOUS
<1>4. P \in SUBSET Matches(text)
  BY <1>3 DEF Spots
<1>5. \A k \in 1..n : s[k] \in P <=> tokenize(text)[k].token = w
  BY <1>1, <1>3 DEF Matched, Spots
<1>6. At(s, n, P) = I
  BY <1>5 DEF At
<1>7. /\ Apart(P) /\ Cardinality(I) = Cardinality(P)
      /\ \A k \in 1..Cardinality(P) : \E l \in I :
           at[k] = s[l] /\ k = Cardinality(UpToPlace(I, l))
  <2>1. PICK D : D = At(s, n, P)
    OBVIOUS
  <2>2. /\ Apart(P) /\ Cardinality(D) = Cardinality(P)
        /\ \A k \in 1..Cardinality(P) : \E l \in D :
             InOrder(P)[k] = s[l] /\ k = Cardinality(UpToPlace(D, l))
    BY <1>2, <1>3, <1>4, <2>1, PartInOrder
  <2> QED
    BY <1>3, <1>6, <2>1, <2>2
<1>8. Cardinality(P) \in Nat /\ DOMAIN at = 1..Cardinality(P)
  BY <1>3, <1>7, InOrderIs DEF Ordered
<1>9. PICK p : p = Entry(text, w).positions
  OBVIOUS
<1>10. p = [k \in 1..Cardinality(P) |-> Token(text, at[k]).start_char]
  BY <1>3, <1>8, <1>9 DEF Entry
<1>11. p \in [1..Cardinality(P) -> {Token(text, at[k]).start_char : k \in 1..Cardinality(P)}]
  BY <1>10
<1>12. DOMAIN p = 1..Cardinality(P) /\ Len(p) = Cardinality(P)
  BY <1>8, <1>10, <1>11, LengthOfList
<1>13. ASSUME NEW k \in 1..Cardinality(P)
       PROVE  \E l \in I : /\ k = Cardinality(UpToPlace(I, l))
                           /\ Edge(text, p[k])
                           /\ OnlyPunctuation(text, p[k] + 1, Places(text)[l][1] - 1)
  <2>1. PICK l \in I : at[k] = s[l] /\ k = Cardinality(UpToPlace(I, l))
    BY <1>7
  <2>2. PICK m, o : m = s[l] /\ o = Places(text)[l]
    OBVIOUS
  <2>3. m \in Runs(text) /\ Leaves(text, m, o)
    BY <1>1, <1>2, <1>3, <2>2 DEF Matched
  <2>4. p[k] = Token(text, m).start_char
    BY <1>10, <2>1, <2>2
  <2> QED
    BY <1>1, <2>1, <2>2, <2>3, <2>4, StartsAt
<1> QED
  BY <1>7, <1>9, <1>12, <1>13

(* What EndpointsMatch asks of the results and the entries.                *)
InText(results, n, w) ==
  {k \in {i \in DOMAIN results : results[i].token = w /\ ~results[i].valid} : k <= n}

Agree(text, words, results, entries, n) ==
  /\ Len(results) = n + Len(words)
  /\ \A k \in DOMAIN words : results[n + k].token = words[k]
  /\ {e.token : e \in entries} = {results[k].token : k \in {l \in DOMAIN results : ~results[l].valid}}
  /\ \A e \in entries :
       /\ \A f \in entries : f.token = e.token => f = e
       /\ \A k \in {l \in DOMAIN results : results[l].token = e.token /\ ~results[l].valid} :
            results[k].suggestions = e.suggestions
       /\ Len(e.positions) = Cardinality(InText(results, n, e.token))
       /\ \A k \in DOMAIN e.positions : \E l \in InText(results, n, e.token) :
            /\ k = Cardinality(UpToPlace(InText(results, n, e.token), l))
            /\ Edge(text, e.positions[k])
            /\ OnlyPunctuation(text, e.positions[k] + 1, Places(text)[l][1] - 1)

(* And the two endpoints, body by body.                                    *)
LEMMA BodyMatches ==
  ASSUME NEW text \in Texts, NEW words \in WordLists
  PROVE  EndpointsMatch(text, words)
<1> SUFFICES ASSUME ~HasBareRun(text)
             PROVE  Agree(text, words, spellcheck(BodyOf(text, words)),
                          spellcheck_positions(BodyOf(text, words)), Len(Places(text)))
  BY DEF EndpointsMatch, Agree, InText, UpToPlace, BodyOf
<1>1. PICK n : n = Cardinality(Matches(text))
  OBVIOUS
<1>2. PICK results : results = spellcheck(BodyOf(text, words))
  OBVIOUS
<1>3. PICK entries : entries = spellcheck_positions(BodyOf(text, words))
  OBVIOUS
<1>4. /\ n \in Nat /\ Len(Places(text)) = n
      /\ Len(words) \in Nat /\ DOMAIN words = 1..Len(words)
  <2>1. Matched(text, n) /\ words \in Seq(Seq(Chars))
    BY <1>1, TokensArePlaced, SpellCheckAssumption
  <2> QED
    BY <2>1 DEF Matched
<1>5. PICK l : l = Len(words)
  OBVIOUS
<1>6. /\ Len(results) = n + l /\ DOMAIN results = 1..(n + l)
      /\ \A k \in 1..(n + l) :
           /\ results[k].token = Word(text, words, n, k)
           /\ results[k].valid <=> check(Word(text, words, n, k))
           /\ ~results[k].valid => results[k].suggestions = suggest(results[k].token)
  <2>1. /\ Len(results) = n + l /\ DOMAIN results = 1..(n + l)
        /\ \A k \in 1..(n + l) : results[k] = token_result(Word(text, words, n, k))
    BY <1>1, <1>2, <1>5, ResultsAre DEF Results
  <2>2. \A w : /\ token_result(w).token = w /\ (token_result(w).valid <=> check(w))
               /\ ~check(w) => token_result(w).suggestions = suggest(w)
    BY DEF token_result
  <2> QED
    BY <2>1, <2>2
<1>7. entries = {Entry(text, w) : w \in Wrong(text, words, n)}
  BY <1>1, <1>3, EntriesAre
<1>8. \A w : Entry(text, w).token = w /\ Entry(text, w).suggestions = suggest(w)
  BY DEF Entry
<1>9. Wrong(text, words, n) = {results[k].token : k \in {i \in DOMAIN results : ~results[i].valid}}
  BY <1>5, <1>6 DEF Wrong
<1>10. \A k \in DOMAIN words : results[n + k].token = words[k]
  <2> TAKE k \in DOMAIN words
  <2>1. n + k \in 1..(n + l) /\ ~(n + k <= n) /\ (n + k) - n = k
    BY <1>4, <1>5
  <2> QED
    BY <1>6, <2>1 DEF Word
<1>11. {e.token : e \in entries} = Wrong(text, words, n)
  BY <1>7, <1>8
<1>12. \A e, f \in entries : f.token = e.token => f = e
  BY <1>7, <1>8
<1>13. \A e \in entries :
         \A k \in {i \in DOMAIN results : results[i].token = e.token /\ ~results[i].valid} :
           results[k].suggestions = e.suggestions
  BY <1>6, <1>7, <1>8
<1>14. ASSUME NEW w \in Wrong(text, words, n)
       PROVE  InText(results, n, w) = {k \in 1..n : tokenize(text)[k].token = w}
  <2>1. ~check(w)
    BY DEF Wrong
  <2>2. \A k \in 1..n : k \in 1..(n + l) /\ k <= n /\ Word(text, words, n, k) = tokenize(text)[k].token
    BY <1>4, <1>5 DEF Word
  <2>3. \A k \in 1..(n + l) : k <= n => k \in 1..n
    BY <1>4, <1>5
  <2> QED
    BY <1>6, <2>1, <2>2, <2>3 DEF InText
<1>15. ASSUME NEW e \in entries
       PROVE  /\ Len(e.positions) = Cardinality(InText(results, n, e.token))
              /\ \A k \in DOMAIN e.positions : \E i \in InText(results, n, e.token) :
                   /\ k = Cardinality(UpToPlace(InText(results, n, e.token), i))
                   /\ Edge(text, e.positions[k])
                   /\ OnlyPunctuation(text, e.positions[k] + 1, Places(text)[i][1] - 1)
  <2>1. PICK w \in Wrong(text, words, n) : e = Entry(text, w) /\ e.token = w
    BY <1>7, <1>8
  <2>2. PICK I : I = {k \in 1..n : tokenize(text)[k].token = w}
    OBVIOUS
  <2>3. I = InText(results, n, e.token)
    BY <1>14, <2>1, <2>2
  <2> QED
    BY <1>1, <2>1, <2>2, <2>3, SpotsAreResults
<1>16. {e.token : e \in entries} = {results[k].token : k \in {i \in DOMAIN results : ~results[i].valid}}
  BY <1>9, <1>11
<1>17. Agree(text, words, results, entries, n)
  BY <1>5, <1>6, <1>10, <1>12, <1>13, <1>15, <1>16 DEF Agree
<1> QED
  BY <1>2, <1>3, <1>4, <1>17

-----------------------------------------------------------------------------
Refusals == {"unauthorized", "forbidden", "rate-limited", "quota-exceeded"}

(* Where a request stands tells what it has cost: the quota is the fifth   *)
(* layer of its group, record_usage the sixth, and no answer is given      *)
(* between them.                                                           *)
Stands(q) ==
  /\ q.billed <=> q.call.route = "spellcheck" /\ q.at > 5
  /\ q.watched <=> q.call.route = "spellcheck" /\ q.at > 6
  /\ q.op \in HandlerAnswers \union {"loading"} => Reached(q)
  /\ q.op \in Refusals => ~Reached(q)
  /\ q.op \in Answers /\ ~Reached(q) => Layers[q.call.route][q.at] # "usage"
  /\ q.op = "panic" /\ Reached(q) => q.body \in Bodies /\ Panics(q.body)

StandInv == \A r \in Requests : request[r].op # "idle" => Stands(request[r])

(* What a gate has seen to when a request is past it.                      *)
Ensured(layer, q) ==
  /\ layer = "no_origin" => q.call.origin = None
  /\ layer = "key" => q.call.key \in Keys /\ "key" \in q.held
  /\ layer = "active_tenant" => q.call.key.role # "platform" /\ "tenant" \in q.held
  /\ layer = "origin_binding" => "origin" \in q.held
  /\ layer = "admin" => q.call.key.role = "admin"
  /\ layer = "scope_role" => /\ q.call.key.role # "standard"
                             /\ q.call.key.role = "platform" => q.call.origin = None
  /\ layer = "scope_tenant" /\ q.call.key.role = "admin" => "tenant" \in q.held
  /\ layer = "scope_origin" /\ q.call.key.role = "admin" => "origin" \in q.held
  /\ layer = "platform" => q.call.key.role = "platform"
  /\ layer = "admin_host" => admin_host(q.call) = "pass"

Passed(q) == \A i \in 1..(q.at - 1) : Ensured(Layers[q.call.route][i], q)

(* What is true now has been true since the request arrived.               *)
Witnessed(q) ==
  q.op = "passing" =>
    /\ Holding(q.call, live, suspended, owned) \subseteq q.held
    /\ Facts \ Holding(q.call, live, suspended, owned) \subseteq q.lapsed

(* Why a request was refused, with the host as the code resolves it.       *)
Caused(q) ==
  /\ q.op = "unauthorized" => "key" \in q.lapsed
  /\ q.op = "forbidden" =>
       \/ ~Permitted(q.call)
       \/ Needed(q.call) \cap q.lapsed # {}
       \/ q.call.route = "dictionaries" /\ admin_host(q.call) = "forbidden"
  /\ q.op = "panic" /\ ~Reached(q) => q.call.key.role = "platform" /\ ~Permitted(q.call)

CauseInv == \A r \in Requests : request[r].op # "idle" =>
  Passed(request[r]) /\ Witnessed(request[r]) /\ Caused(request[r])

-----------------------------------------------------------------------------
\* How many layers each group has.
Count == [spellcheck |-> 6, api_keys |-> 5, tenant |-> 4,
          usage |-> 5, tenants |-> 4, dictionaries |-> 5]

(* Len and DOMAIN of the groups, once for all.                            *)
LEMMA GroupSizes ==
  \A route \in Routes :
    /\ Count[route] \in 4..6
    /\ DOMAIN Layers[route] = 1..Count[route]
    /\ Len(Layers[route]) = Count[route]
<1>1. /\ Len(TenantLayers) = 4 /\ DOMAIN TenantLayers = 1..4
      /\ Len(ApiKeyLayers) = 5 /\ DOMAIN ApiKeyLayers = 1..5
  BY DEF TenantLayers, ApiKeyLayers
<1>2. Len(SpellcheckLayers) = 6 /\ DOMAIN SpellcheckLayers = 1..6
  BY DEF TenantLayers, SpellcheckLayers
<1>3. Len(UsageLayers) = 5 /\ DOMAIN UsageLayers = 1..5
  BY DEF UsageLayers
<1>4. /\ Len(PlatformLayers) = 4 /\ DOMAIN PlatformLayers = 1..4
      /\ Len(Layers["dictionaries"]) = 5 /\ DOMAIN Layers["dictionaries"] = 1..5
  BY DEF PlatformLayers, Layers
<1>5. /\ Layers["spellcheck"] = SpellcheckLayers /\ Layers["api_keys"] = ApiKeyLayers
      /\ Layers["tenant"] = TenantLayers /\ Layers["usage"] = UsageLayers
      /\ Layers["tenants"] = PlatformLayers
  BY DEF Layers
<1>6. /\ Count["spellcheck"] = 6 /\ Count["api_keys"] = 5 /\ Count["tenant"] = 4
      /\ Count["usage"] = 5 /\ Count["tenants"] = 4 /\ Count["dictionaries"] = 5
  BY DEF Count
<1>7. \A route \in Routes : Count[route] \in 4..6
  BY <1>6 DEF Routes
<1>8. \A route \in Routes : Len(Layers[route]) = Count[route]
  BY <1>1, <1>2, <1>3, <1>4, <1>5, <1>6 DEF Routes
<1>9. \A route \in Routes : DOMAIN Layers[route] = 1..Count[route]
  BY <1>1, <1>2, <1>3, <1>4, <1>5, <1>6 DEF Routes
<1> QED
  BY <1>7, <1>8, <1>9

(* The gates in front of a tenant's routes: the key is known before its    *)
(* tenant is looked at, and the tenant before its origin.                  *)
LEMMA TenantGroups ==
  \A route \in {"spellcheck", "api_keys", "tenant"} :
    /\ Layers[route][1] = "limiter" /\ Layers[route][2] = "key"
    /\ Layers[route][3] = "active_tenant" /\ Layers[route][4] = "origin_binding"
  BY DEF Layers, TenantLayers, ApiKeyLayers, SpellcheckLayers

(* What follows them in front of the spell-checking and the key routes.    *)
LEMMA LastGates ==
  /\ Layers["spellcheck"][5] = "quota" /\ Layers["spellcheck"][6] = "usage"
  /\ Layers["api_keys"][5] = "admin"
  BY DEF Layers, TenantLayers, ApiKeyLayers, SpellcheckLayers

(* The gates in front of the usage queries: the role before its tenant,    *)
(* the tenant before its origin.                                           *)
LEMMA UsageGroup ==
  /\ Layers["usage"][1] = "limiter" /\ Layers["usage"][2] = "key"
  /\ Layers["usage"][3] = "scope_role" /\ Layers["usage"][4] = "scope_tenant"
  /\ Layers["usage"][5] = "scope_origin"
  BY DEF Layers, UsageLayers

(* The gates in front of a platform's routes.                              *)
LEMMA PlatformGroups ==
  /\ \A route \in {"tenants", "dictionaries"} :
       /\ Layers[route][1] = "no_origin" /\ Layers[route][2] = "limiter"
       /\ Layers[route][3] = "key" /\ Layers[route][4] = "platform"
  /\ Layers["dictionaries"][5] = "admin_host"
  BY DEF Layers, PlatformLayers

(* A layer tells the routes it can stand in front of, and how far the      *)
(* request has come.                                                       *)
LEMMA LayerPlace ==
  ASSUME NEW route \in Routes, NEW i \in 1..Count[route], NEW layer, layer = Layers[route][i]
  PROVE  /\ layer \in {"no_origin", "limiter", "key", "active_tenant", "origin_binding", "admin",
                       "quota", "usage", "scope_role", "scope_tenant", "scope_origin", "platform", "admin_host"}
         /\ layer = "quota" <=> route = "spellcheck" /\ i = 5
         /\ layer = "usage" <=> route = "spellcheck" /\ i = 6
         /\ layer \in {"active_tenant", "origin_binding"} => route \in {"spellcheck", "api_keys", "tenant"}
         /\ layer = "origin_binding" => i = 4
         /\ layer \in {"active_tenant", "quota", "scope_role", "scope_tenant", "scope_origin"} => i > 2
         /\ layer = "admin" => route = "api_keys"
         /\ layer \in {"scope_role", "scope_tenant", "scope_origin"} => route = "usage"
         /\ layer = "scope_tenant" => i = 4
         /\ layer = "scope_origin" => i = 5
         /\ layer \in {"no_origin", "platform"} => route \in {"tenants", "dictionaries"}
         /\ layer = "admin_host" => route = "dictionaries"
<1>1. CASE route \in {"spellcheck", "api_keys", "tenant"}
  BY <1>1, TenantGroups, LastGates DEF Count
<1>2. CASE route = "usage"
  BY <1>2, UsageGroup DEF Count
<1>3. CASE route \in {"tenants", "dictionaries"}
  BY <1>3, PlatformGroups DEF Count
<1> QED
  BY <1>1, <1>2, <1>3 DEF Routes
-----------------------------------------------------------------------------
Ops == {"passing", "loading"} \union Answers

(* What a request carries.                                                 *)
LEMMA RecordShape ==
  ASSUME TypeOK, NEW r \in Requests, request[r].op # "idle"
  PROVE  /\ request[r] \in Request(Ops, Bodies \union {None})
         /\ request[r].op = "passing" => request[r].body = None
         /\ request[r].op = "loading" => request[r].body \in Bodies
<1>1. request[r] \in {Idle} \union Passing \union Loading \union Answered
  BY DEF TypeOK
<1>2. request[r] # Idle
  BY DEF Idle
<1>3. CASE request[r] \in Passing
  BY <1>3 DEF Passing, Request, Ops
<1>4. CASE request[r] \in Loading
  BY <1>4 DEF Loading, Request, Ops
<1>5. CASE request[r] \in Answered
  BY <1>5 DEF Answered, Request, Ops, Answers, HandlerAnswers
<1> QED
  BY <1>1, <1>2, <1>3, <1>4, <1>5

(* What a client sends.                                                    *)
LEMMA CallShape ==
  ASSUME NEW c \in Calls
  PROVE  /\ c.route \in Routes
         /\ c.key \in Keys \union {NoKey}
         /\ c.origin \in Origins \union {None, Garbled}
         /\ c.peer \in Hosts /\ c.forwarded \in Seq(Hosts \union {Garbled})
  BY RequestGatesAssumption DEF Call

(* The fields of a request, whatever its stage.                            *)
LEMMA FieldShape ==
  ASSUME NEW ops, NEW bodies, NEW q \in Request(ops, bodies)
  PROVE  /\ q.op \in ops /\ q.call \in Calls /\ q.at \in 1..7
         /\ q.billed \in BOOLEAN /\ q.watched \in BOOLEAN
         /\ q.held \in SUBSET Facts /\ q.lapsed \in SUBSET Facts
         /\ q.body \in bodies
  BY DEF Request

(* Only facts hold.                                                        *)
LEMMA HoldingShape == \A c, keys, out, pairs : Holding(c, keys, out, pairs) \in SUBSET Facts
  BY DEF Holding, Facts

(* What Answer and Pass write keeps the other fields.                      *)
LEMMA RecordStep ==
  ASSUME NEW ops, NEW bodies, NEW q \in Request(ops, bodies)
  PROVE  /\ \A op, body : [q EXCEPT !.op = op, !.body = body] \in Request({op}, {body})
         /\ \A n \in 1..7, b \in BOOLEAN, w \in BOOLEAN :
              [q EXCEPT !.at = n, !.billed = b, !.watched = w] \in Request(ops, bodies)
         /\ \A h \in SUBSET Facts, l \in SUBSET Facts :
              [q EXCEPT !.held = h, !.lapsed = l] \in Request(ops, bodies)
  BY DEF Request

(* An answer of a gate or a handler keeps the types.                       *)
LEMMA AnswerType ==
  ASSUME TypeOK, NEW r \in Requests, request[r].op # "idle",
         NEW answer, NEW body, Answer(r, answer, body),
         \/ answer \in Answers /\ body \in Bodies \union {None}
         \/ answer = "loading" /\ body \in Bodies
  PROVE  TypeOK'
<1>1. [request[r] EXCEPT !.op = answer, !.body = body] \in Request({answer}, {body})
  BY RecordShape, RecordStep
<1>2. [request[r] EXCEPT !.op = answer, !.body = body] \in Loading \union Answered
  BY <1>1 DEF Loading, Answered, Request
<1> QED
  BY <1>2 DEF Answer, TypeOK

(* What a gate may answer.                                                 *)
LEMMA Verdicts ==
  ASSUME NEW c, NEW route \in Routes, NEW i \in 1..Count[route]
  PROVE  Verdict(Layers[route][i], c) \in {"pass", "unauthorized", "forbidden", "panic", "quota-exceeded"}
<1>1. /\ no_origin(c) \in {"pass", "forbidden"}
      /\ authenticate(c) \in {"pass", "unauthorized"}
      /\ require_active_tenant(c) \in {"pass", "panic", "forbidden"}
      /\ require_origin_binding(c) \in {"pass", "forbidden"}
      /\ require_admin(c) \in {"pass", "forbidden"}
      /\ require_quota(c) \in {"pass", "panic", "quota-exceeded"}
  BY DEF no_origin, authenticate, require_active_tenant, require_origin_binding,
         require_admin, require_quota
<1>2. /\ scope_role(c) \in {"pass", "forbidden"}
      /\ scope_tenant(c) \in {"pass", "forbidden"}
      /\ scope_origin(c) \in {"pass", "forbidden"}
      /\ require_platform(c) \in {"pass", "forbidden"}
      /\ admin_host(c) \in {"pass", "forbidden"}
  BY DEF scope_role, scope_tenant, scope_origin, require_platform, admin_host
<1>3. Layers[route][i] \in
        {"no_origin", "limiter", "key", "active_tenant", "origin_binding", "admin", "quota",
         "usage", "scope_role", "scope_tenant", "scope_origin", "platform", "admin_host"}
  BY LayerPlace
<1> QED
  BY <1>1, <1>2, <1>3 DEF Verdict

(* Every variable keeps its type, and a request the shape of its stage.    *)
THEOREM GatesTypeCorrect == Spec => []TypeOK
<1>1. Init => TypeOK
  BY RequestGatesAssumption DEF Init, TypeOK
<1>2. TypeOK /\ [Next]_vars => TypeOK'
  <2> SUFFICES ASSUME TypeOK, [Next]_vars PROVE TypeOK'
    OBVIOUS
  <2>0. Idle.op = "idle"
    BY DEF Idle
  <2>1. ASSUME NEW r \in Requests, Arrive(r) PROVE TypeOK'
    <3>1. PICK c \in Calls :
            LET now == Holding(c, live, suspended, owned)
            IN request' = [request EXCEPT ![r] =
                 [op |-> "passing", call |-> c, at |-> 1, billed |-> FALSE, watched |-> FALSE,
                  held |-> now, lapsed |-> Facts \ now, body |-> None]]
      BY <2>1 DEF Arrive
    <3>2. [op |-> "passing", call |-> c, at |-> 1, billed |-> FALSE, watched |-> FALSE,
           held |-> Holding(c, live, suspended, owned),
           lapsed |-> Facts \ Holding(c, live, suspended, owned), body |-> None] \in Passing
      BY HoldingShape DEF Passing, Request
    <3> QED
      BY <2>1, <3>1, <3>2 DEF Arrive, TypeOK
  <2>2. ASSUME NEW r \in Requests, Pass(r) PROVE TypeOK'
    <3> DEFINE q == request[r]
    <3>1. /\ q.op = "passing" /\ q.at \in DOMAIN Layers[q.call.route]
          /\ Verdict(Layer(q), q.call) = "pass"
      BY <2>2 DEF Pass, AtLayer
    <3>2. q \in Request({"passing"}, {None})
      BY <3>1, RecordShape DEF Request
    <3>3. q.at + 1 \in 1..7
      BY <3>1, <3>2, FieldShape, CallShape, GroupSizes
    <3>4. /\ (q.billed \/ Layer(q) = "quota") \in BOOLEAN
          /\ (q.watched \/ Layer(q) = "usage") \in BOOLEAN
      OBVIOUS
    <3>5. request' \in [Requests -> {Idle} \union Passing \union Loading \union Answered]
      BY <2>2, <3>2, <3>3, <3>4, RecordStep DEF Pass, TypeOK, Passing
    <3>6. Layer(q) = "quota" /\ Tenant(q.call) \in Tenants => left[Tenant(q.call)] # 0
      BY <3>1, RequestGatesAssumption DEF Verdict, require_quota
    <3>7. left' \in [Tenants -> 0..Quota]
      BY <2>2, <3>6, RequestGatesAssumption DEF Pass, TypeOK
    <3> QED
      BY <2>2, <3>5, <3>7 DEF Pass, TypeOK
  <2>3. ASSUME NEW r \in Requests, Refuse(r) PROVE TypeOK'
    <3>1. request[r].op # "idle" /\ Verdict(Layer(request[r]), request[r].call) # "pass"
      BY <2>3 DEF Refuse, AtLayer
    <3>2. request[r].call.route \in Routes /\ request[r].at \in 1..Count[request[r].call.route]
      BY <2>3, <3>1, RecordShape, FieldShape, CallShape, GroupSizes DEF Refuse, AtLayer
    <3>3. Verdict(Layer(request[r]), request[r].call) \in Answers
      BY <3>1, <3>2, LayerPlace, Verdicts DEF Layer, Answers
    <3> QED
      BY <2>3, <3>1, <3>3, AnswerType DEF Refuse
  <2>4. ASSUME NEW r \in Requests, Limit(r) \/ Handle(r) \/ Reject(r) PROVE TypeOK'
    BY <2>4, AnswerType DEF Limit, Handle, Reject, AtLayer, AtHandler, Answers, HandlerAnswers
  <2>5. ASSUME NEW r \in Requests, ResolveEngine(r) PROVE TypeOK'
    BY <2>5, AnswerType DEF ResolveEngine, AtHandler
  <2>6. ASSUME NEW r \in Requests, Unsupported(r) \/ Check(r) PROVE TypeOK'
    BY <2>6, AnswerType, RecordShape DEF Unsupported, Check, Answers, HandlerAnswers
  <2>7. ASSUME NEW r \in Requests, GoAway(r) PROVE TypeOK'
    BY <2>7, AnswerType, RecordShape, FieldShape DEF GoAway, AtLayer, AtHandler, Answers
  <2>8. ASSUME NEW r \in Requests, Leave(r) PROVE TypeOK'
    BY <2>8 DEF Leave, TypeOK
  <2>9. ASSUME NEW keys, NEW out, NEW pairs, Watch(keys, out, pairs)
        PROVE  request' \in [Requests -> {Idle} \union Passing \union Loading \union Answered]
    <3>1. ASSUME NEW r \in Requests, request[r].op = "passing",
                 NEW now \in SUBSET Facts
          PROVE  [request[r] EXCEPT !.held = request[r].held \union now,
                                    !.lapsed = request[r].lapsed \union (Facts \ now)] \in Passing
      <4>1. request[r] \in Passing
        BY <3>1, RecordShape DEF Passing, Request
      <4> QED
        BY <4>1, FieldShape, RecordStep DEF Passing
    <3> QED
      BY <2>9, <3>1, HoldingShape DEF Watch, TypeOK
  <2>10. ASSUME NEW k \in Keys, RevokeKey(k) PROVE TypeOK'
    BY <2>9, <2>10 DEF RevokeKey, TypeOK
  <2>11. ASSUME NEW t \in Tenants, SetSuspended(t) PROVE TypeOK'
    BY <2>9, <2>11 DEF SetSuspended, TypeOK
  <2>12. ASSUME NEW t \in Tenants, NEW o \in Origins, SetOwned(t, o) PROVE TypeOK'
    BY <2>9, <2>12 DEF SetOwned, TypeOK
  <2>13. ASSUME NEW t \in Tenants, ResetQuota(t) PROVE TypeOK'
    BY <2>13, RequestGatesAssumption DEF ResetQuota, TypeOK
  <2>14. CASE UNCHANGED vars
    BY <2>14 DEF vars, TypeOK
  <2> QED
    BY <2>1, <2>2, <2>3, <2>4, <2>5, <2>6, <2>7, <2>8, <2>10, <2>11, <2>12, <2>13, <2>14 DEF Next
<1> QED
  BY <1>1, <1>2, PTL DEF Spec

-----------------------------------------------------------------------------
(* The numbers of a request, and the handler it is in or not.              *)
LEMMA ReachedAt ==
  ASSUME TypeOK, NEW r \in Requests, request[r].op # "idle"
  PROVE  /\ request[r].call \in Calls /\ request[r].call.route \in Routes
         /\ request[r].at \in 1..7
         /\ Reached(request[r]) <=> request[r].at > Count[request[r].call.route]
         /\ ~Reached(request[r]) <=> request[r].at \in DOMAIN Layers[request[r].call.route]
  BY RecordShape, FieldShape, CallShape, GroupSizes DEF Reached

(* An answer changes where a request stands and nothing it has been        *)
(* through.                                                                *)
LEMMA AnswerFields ==
  ASSUME TypeOK, NEW r \in Requests, request[r].op # "idle", NEW op, NEW body,
         Answer(r, op, body)
  PROVE  /\ request'[r].op = op /\ request'[r].body = body
         /\ request'[r].call = request[r].call /\ request'[r].at = request[r].at
         /\ request'[r].billed = request[r].billed /\ request'[r].watched = request[r].watched
         /\ request'[r].held = request[r].held /\ request'[r].lapsed = request[r].lapsed
         /\ \A s \in Requests \ {r} : request'[s] = request[s]
<1>1. request[r] \in Request(Ops, Bodies \union {None})
  BY RecordShape
<1>2. request'[r] = [request[r] EXCEPT !.op = op, !.body = body]
  BY DEF Answer, TypeOK
<1> QED
  BY <1>1, <1>2 DEF Request, Answer, TypeOK

(* Every step keeps StandInv.                                              *)
LEMMA StandStep == TypeOK /\ StandInv /\ [Next]_vars => StandInv'
<1> SUFFICES ASSUME TypeOK, StandInv, [Next]_vars PROVE StandInv'
  OBVIOUS
<1>0. Idle.op = "idle"
  BY DEF Idle
<1>1. ASSUME NEW r \in Requests, Arrive(r) PROVE StandInv'
  <2>1. PICK c \in Calls :
          LET now == Holding(c, live, suspended, owned)
          IN request' = [request EXCEPT ![r] =
               [op |-> "passing", call |-> c, at |-> 1, billed |-> FALSE, watched |-> FALSE,
                held |-> now, lapsed |-> Facts \ now, body |-> None]]
    BY <1>1 DEF Arrive
  <2>2. /\ request'[r].op = "passing" /\ request'[r].at = 1
        /\ request'[r].billed = FALSE /\ request'[r].watched = FALSE
        /\ \A s \in Requests \ {r} : request'[s] = request[s]
    BY <2>1 DEF TypeOK
  <2> QED
    BY <2>2 DEF StandInv, Stands, HandlerAnswers, Answers, Refusals, Reached
<1>2. ASSUME NEW r \in Requests, Pass(r) PROVE StandInv'
  <2> DEFINE q == request[r]
  <2>1. /\ q.op = "passing" /\ q.at \in DOMAIN Layers[q.call.route]
        /\ request' = [request EXCEPT ![r] = [q EXCEPT
             !.at = q.at + 1,
             !.billed = q.billed \/ Layer(q) = "quota",
             !.watched = q.watched \/ Layer(q) = "usage"]]
    BY <1>2 DEF Pass, AtLayer
  <2>2. /\ request'[r].op = "passing" /\ request'[r].at = q.at + 1
        /\ request'[r].call = q.call
        /\ request'[r].billed = (q.billed \/ Layer(q) = "quota")
        /\ request'[r].watched = (q.watched \/ Layer(q) = "usage")
        /\ \A s \in Requests \ {r} : request'[s] = request[s]
    BY <2>1, RecordShape DEF TypeOK, Request
  <2>3. q.call.route \in Routes /\ q.at \in 1..Count[q.call.route]
    BY <2>1, ReachedAt, GroupSizes
  <2>4. /\ Layer(q) = "quota" <=> q.call.route = "spellcheck" /\ q.at = 5
        /\ Layer(q) = "usage" <=> q.call.route = "spellcheck" /\ q.at = 6
    BY <2>3, LayerPlace DEF Layer
  <2>5. /\ q.billed <=> q.call.route = "spellcheck" /\ q.at > 5
        /\ q.watched <=> q.call.route = "spellcheck" /\ q.at > 6
        /\ q.at \in 1..7
    BY <2>1, <2>3, ReachedAt DEF StandInv, Stands
  <2>6. /\ (q.billed \/ Layer(q) = "quota") <=> q.call.route = "spellcheck" /\ q.at + 1 > 5
        /\ (q.watched \/ Layer(q) = "usage") <=> q.call.route = "spellcheck" /\ q.at + 1 > 6
    BY <2>4, <2>5
  <2>7. Stands(request'[r])
    BY <2>2, <2>6 DEF Stands, HandlerAnswers, Answers, Refusals, Reached
  <2>8. \A s \in Requests \ {r} : request'[s].op # "idle" => Stands(request'[s])
    BY <2>2 DEF StandInv
  <2> QED
    BY <2>7, <2>8 DEF StandInv
<1>3. ASSUME NEW r \in Requests, NEW op, NEW body, Answer(r, op, body), request[r].op # "idle",
             op \in HandlerAnswers \union {"loading"} => Reached(request[r]),
             op \in Refusals => ~Reached(request[r]),
             op \in Answers /\ ~Reached(request[r]) => Layer(request[r]) # "usage",
             op = "panic" /\ Reached(request[r]) => body \in Bodies /\ Panics(body)
      PROVE  StandInv'
  <2>1. Reached(request'[r]) <=> Reached(request[r])
    BY <1>3, AnswerFields DEF Reached
  <2>2. Stands(request'[r])
    BY <1>3, <2>1, AnswerFields DEF StandInv, Stands, Layer
  <2> QED
    BY <1>3, <2>2, AnswerFields DEF StandInv
<1>4. ASSUME NEW r \in Requests, Refuse(r) PROVE StandInv'
  <2> DEFINE q == request[r]
             verdict == Verdict(Layer(q), q.call)
  <2>1. q.op = "passing" /\ ~Reached(q) /\ verdict # "pass" /\ Answer(r, verdict, None)
    BY <1>4, ReachedAt DEF Refuse, AtLayer
  <2>2. verdict \in {"unauthorized", "forbidden", "panic", "quota-exceeded"}
    <3>1. q.call.route \in Routes /\ q.at \in 1..Count[q.call.route]
      BY <2>1, ReachedAt, GroupSizes
    <3>2. Verdict(Layers[q.call.route][q.at], q.call)
            \in {"pass", "unauthorized", "forbidden", "panic", "quota-exceeded"}
      BY <3>1, Verdicts
    <3> QED
      BY <2>1, <3>2 DEF Layer
  <2>3. Layer(q) # "usage"
    BY <2>1 DEF Verdict
  <2> HIDE DEF verdict
  <2> QED
    BY <2>1, <2>2, <2>3, <1>3 DEF HandlerAnswers
<1>5. ASSUME NEW r \in Requests, Limit(r) PROVE StandInv'
  BY <1>5, <1>3, ReachedAt DEF Limit, AtLayer, HandlerAnswers
<1>6. ASSUME NEW r \in Requests, Handle(r) \/ Reject(r) \/ ResolveEngine(r) PROVE StandInv'
  <2>1. request[r].op = "passing" /\ Reached(request[r])
    BY <1>6, ReachedAt DEF Handle, Reject, ResolveEngine, AtHandler
  <2>2. PICK op \in HandlerAnswers \union {"loading"} : \E body : Answer(r, op, body)
    BY <1>6 DEF Handle, Reject, ResolveEngine, HandlerAnswers
  <2> QED
    BY <2>1, <2>2, <1>3 DEF HandlerAnswers, Refusals
<1>7. ASSUME NEW r \in Requests, Unsupported(r) \/ Check(r) PROVE StandInv'
  <2>1. request[r].op = "loading" /\ Reached(request[r]) /\ request[r].body \in Bodies
    BY <1>7, RecordShape DEF Unsupported, Check, StandInv, Stands
  <2>2. \/ Answer(r, "unsupported-language", request[r].body)
        \/ Answer(r, "handled", request[r].body)
        \/ Panics(request[r].body) /\ Answer(r, "panic", request[r].body)
    BY <1>7 DEF Unsupported, Check
  <2> QED
    BY <2>1, <2>2, <1>3 DEF HandlerAnswers, Refusals
<1>8. ASSUME NEW r \in Requests, GoAway(r) PROVE StandInv'
  <2>1. /\ Answer(r, "gone", request[r].body) /\ request[r].op # "idle"
        /\ Layer(request[r]) = "key" \/ Reached(request[r])
    BY <1>8, ReachedAt DEF GoAway, AtLayer, AtHandler, StandInv, Stands
  <2> QED
    BY <2>1, <1>3 DEF HandlerAnswers, Refusals
<1>9. ASSUME NEW r \in Requests, Leave(r) PROVE StandInv'
  BY <1>0, <1>9 DEF Leave, StandInv, TypeOK
<1>10. ASSUME NEW keys, NEW out, NEW pairs, Watch(keys, out, pairs) PROVE StandInv'
  <2>1. ASSUME NEW r \in Requests
        PROVE  /\ request'[r].op = request[r].op
               /\ request[r].op # "idle" =>
                    /\ request'[r].call = request[r].call /\ request'[r].at = request[r].at
                    /\ request'[r].billed = request[r].billed
                    /\ request'[r].watched = request[r].watched
                    /\ request'[r].body = request[r].body
    <3>1. CASE request[r].op = "passing"
      BY <1>10, <3>1, RecordShape DEF Watch, Request
    <3>2. CASE request[r].op # "passing"
      BY <1>10, <3>2 DEF Watch
    <3> QED
      BY <3>1, <3>2
  <2> QED
    BY <2>1 DEF StandInv, Stands, Reached
<1>11. CASE UNCHANGED request
  BY <1>11 DEF StandInv
<1> QED
  BY <1>1, <1>2, <1>4, <1>5, <1>6, <1>7, <1>8, <1>9, <1>10, <1>11
     DEF Next, vars, RevokeKey, SetSuspended, SetOwned, ResetQuota

(* StandInv holds in every reachable state.                                *)
LEMMA StandInvariant == Spec => [](TypeOK /\ StandInv)
<1>1. Init => StandInv
  BY DEF Init, StandInv, Idle
<1> QED
  BY <1>1, GatesTypeCorrect, StandStep, PTL DEF Spec

(* The quota pays for the requests that reach a spell-checking handler,    *)
(* for every set of calls, keys and networks and whatever happens          *)
(* meanwhile: the order of the layers in build_app bills no request that a *)
(* later gate refuses.                                                     *)
THEOREM QuotaPaysForHandlers == Spec => []BilledIffReached
<1>1. TypeOK /\ StandInv => BilledIffReached
  <2> SUFFICES ASSUME TypeOK, StandInv, NEW r \in Requests, request[r].op \in Answers
               PROVE  request[r].billed <=>
                        request[r].call.route = "spellcheck" /\ Reached(request[r])
    BY DEF BilledIffReached
  <2>1. request[r].op # "idle" /\ Stands(request[r])
    BY DEF StandInv, Answers, HandlerAnswers
  <2>2. request[r].call.route = "spellcheck" /\ request[r].at > 5 => Reached(request[r])
    <3>1. request[r].at \in 1..7 /\ Count["spellcheck"] = 6
      BY <2>1, ReachedAt DEF Count
    <3>2. Layers["spellcheck"][6] = "usage"
      BY LastGates
    <3> QED
      BY <2>1, <3>1, <3>2, ReachedAt DEF Stands
  <2>3. request[r].call.route = "spellcheck" /\ Reached(request[r]) => request[r].at > 5
    BY <2>1, ReachedAt DEF Count
  <2> QED
    BY <2>1, <2>2, <2>3 DEF Stands
<1> QED
  BY <1>1, StandInvariant, PTL

(* Nothing that was billed goes unrecorded without a cause, and nothing    *)
(* free is recorded: the caller has gone, or the handler panicked on a     *)
(* text with bare punctuation.                                             *)
THEOREM UnrecordedOnlyForCause == Spec => []UnrecordedForCause
<1>1. TypeOK /\ StandInv => UnrecordedForCause
  <2> SUFFICES ASSUME TypeOK, StandInv, NEW r \in Requests, request[r].op \in Answers
               PROVE  /\ Recorded(request[r]) => request[r].billed
                      /\ request[r].billed /\ ~Recorded(request[r]) =>
                           \/ request[r].op = "gone"
                           \/ /\ request[r].body # None /\ request[r].body.text # Absent
                              /\ HasBareRun(request[r].body.text)
    BY DEF UnrecordedForCause
  <2> DEFINE q == request[r]
  <2>1. q.op # "idle" /\ Stands(q)
    BY DEF StandInv, Answers, HandlerAnswers
  <2>2. q.at \in 1..7 /\ Count["spellcheck"] = 6 /\ Layers["spellcheck"][6] = "usage"
    BY <2>1, ReachedAt, LastGates DEF Count
  <2>3. q.watched => q.billed
    BY <2>1, <2>2 DEF Stands
  <2>4. q.billed => q.watched /\ Reached(q)
    BY <2>1, <2>2, ReachedAt DEF Stands
  <2>5. ASSUME q.op = "panic", Reached(q)
        PROVE  q.body # None /\ q.body.text # Absent /\ HasBareRun(q.body.text)
    <3>1. q.body \in Bodies /\ TokenizePanics(Given(q.body.text))
      BY <2>1, <2>5 DEF Stands, Panics
    <3>2. q.body \in Body /\ q.body # None /\ q.body.text \in Texts \union {Absent}
      BY <3>1, RequestGatesAssumption DEF Body
    <3>3. HasBareRun(Given(q.body.text))
      <4>1. Given(q.body.text) \in Seq(Chars)
        BY <3>2, SpellCheckAssumption DEF Given
      <4> QED
        BY <3>1, <4>1, BareRunsPanic
    <3>4. ~HasBareRun(<<>>)
      BY DEF HasBareRun
    <3> QED
      BY <3>2, <3>3, <3>4 DEF Given
  <2> QED
    BY <2>3, <2>4, <2>5 DEF Recorded, Returned
<1> QED
  BY <1>1, StandInvariant, PTL

-----------------------------------------------------------------------------
(* A fact holds of a call when the gate that tests it would pass.          *)
LEMMA HoldingFacts ==
  ASSUME NEW c, NEW keys, NEW out, NEW pairs
  PROVE  /\ "key" \in Holding(c, keys, out, pairs) <=> c.key \in keys
         /\ "tenant" \in Holding(c, keys, out, pairs) <=> Tenant(c) \notin out
         /\ "origin" \in Holding(c, keys, out, pairs) <=>
              c.origin = None \/ <<Tenant(c), c.origin>> \in pairs
  BY DEF Holding

(* The key of a request past the key gate.                                 *)
LEMMA KeyShape ==
  ASSUME NEW k \in Keys
  PROVE  k.role \in Roles /\ (k.role = "platform" <=> k.tenant = None)
         /\ k.tenant \in Tenants \union {None} /\ None \notin Tenants
  BY RequestGatesAssumption DEF KeyRecord

(* The absence of a key has no role and no tenant.                         *)
LEMMA NoKeyShape == NoKey.role = "none" /\ NoKey.tenant = None
  BY DEF NoKey

(* A gate that lets a request through has seen to what it is there for.    *)
LEMMA PassEnsures ==
  ASSUME TypeOK, NEW q \in Request(Ops, Bodies \union {None}), q.op = "passing",
         Passed(q), Witnessed(q), q.at \in 1..Count[q.call.route],
         Verdict(Layer(q), q.call) = "pass"
  PROVE  Ensured(Layer(q), q)
<1>1. q.call \in Calls /\ q.call.route \in Routes /\ q.call.key \in Keys \union {NoKey}
  BY FieldShape, CallShape
<1>2. /\ q.call.key \in live => "key" \in q.held
      /\ Tenant(q.call) \notin suspended => "tenant" \in q.held
      /\ Bound(q.call) => "origin" \in q.held
  BY HoldingFacts DEF Witnessed, Bound
<1>3. CASE Layer(q) = "no_origin"
  BY <1>3 DEF Ensured, Verdict, no_origin
<1>4. CASE Layer(q) = "key"
  BY <1>2, <1>4 DEF Ensured, Verdict, authenticate, TypeOK
<1>5. CASE Layer(q) = "active_tenant"
  <2>1. Tenant(q.call) # None /\ Tenant(q.call) \notin suspended
    BY <1>5 DEF Verdict, require_active_tenant
  <2>2. q.call.key.role # "platform"
    BY <1>1, <2>1, KeyShape, NoKeyShape DEF Tenant
  <2> QED
    BY <1>2, <1>5, <2>1, <2>2 DEF Ensured
<1>6. CASE Layer(q) = "origin_binding"
  BY <1>2, <1>6 DEF Ensured, Verdict, require_origin_binding
<1>7. CASE Layer(q) = "admin"
  BY <1>7 DEF Ensured, Verdict, require_admin
<1>8. CASE Layer(q) \in {"limiter", "quota", "usage"}
  BY <1>8 DEF Ensured
<1>9. CASE Layer(q) = "scope_role"
  BY <1>9 DEF Ensured, Verdict, scope_role
<1>10. CASE Layer(q) = "scope_tenant"
  BY <1>2, <1>10 DEF Ensured, Verdict, scope_tenant
<1>11. CASE Layer(q) = "scope_origin"
  BY <1>2, <1>11 DEF Ensured, Verdict, scope_origin
<1>12. CASE Layer(q) = "platform"
  BY <1>12 DEF Ensured, Verdict, require_platform
<1>13. CASE Layer(q) = "admin_host"
  BY <1>13 DEF Ensured, Verdict
<1>14. Layer(q) \in {"no_origin", "limiter", "key", "active_tenant", "origin_binding", "admin", "quota",
         "usage", "scope_role", "scope_tenant", "scope_origin", "platform", "admin_host"}
  BY <1>1, LayerPlace DEF Layer
<1> QED
  BY <1>3, <1>4, <1>5, <1>6, <1>7, <1>8, <1>9, <1>10, <1>11, <1>12, <1>13, <1>14

(* A gate that refuses a request has a cause.                              *)
LEMMA RefusalCaused ==
  ASSUME TypeOK, NEW q \in Request(Ops, Bodies \union {None}), q.op = "passing",
         Passed(q), Witnessed(q), q.at \in 1..Count[q.call.route],
         NEW verdict, verdict = Verdict(Layer(q), q.call)
  PROVE  /\ verdict = "unauthorized" => "key" \in q.lapsed
         /\ verdict = "forbidden" =>
              \/ ~Permitted(q.call)
              \/ Needed(q.call) \cap q.lapsed # {}
              \/ q.call.route = "dictionaries" /\ admin_host(q.call) = "forbidden"
         /\ verdict = "panic" => q.call.key.role = "platform" /\ ~Permitted(q.call)
<1> DEFINE c == q.call
           route == q.call.route
<1>1. c \in Calls /\ route \in Routes /\ c.key \in Keys \union {NoKey}
  BY FieldShape, CallShape
<1>2. /\ c.key \notin live => "key" \in q.lapsed
      /\ Tenant(c) \in suspended => "tenant" \in q.lapsed
      /\ ~Bound(c) => "origin" \in q.lapsed
  BY HoldingFacts DEF Witnessed, Bound, Facts
<1>3. /\ c.key.role # "platform" => Needed(c) = Facts
      /\ Facts = {"key", "tenant", "origin"}
  BY DEF Needed, Facts
<1>4. q.at \in 1..Count[route] /\ Layer(q) = Layers[route][q.at]
  BY DEF Layer
<1>4a. /\ Layer(q) = "origin_binding" => route \in {"spellcheck", "api_keys", "tenant"} /\ q.at = 4
       /\ Layer(q) = "admin" => route = "api_keys"
       /\ Layer(q) = "scope_role" => route = "usage"
  <2>1. \A layer : layer = Layers[route][q.at] =>
          /\ layer \in {"active_tenant", "origin_binding"} => route \in {"spellcheck", "api_keys", "tenant"}
          /\ layer = "origin_binding" => q.at = 4
          /\ layer = "admin" => route = "api_keys"
          /\ layer \in {"scope_role", "scope_tenant", "scope_origin"} => route = "usage"
    BY <1>1, <1>4, LayerPlace
  <2> QED
    BY <1>4, <2>1
<1>5. route \in {"spellcheck", "api_keys", "tenant", "usage"} /\ q.at > 2 => c.key \in Keys
  <2>1. route \in {"spellcheck", "api_keys", "tenant", "usage"} => Layers[route][2] = "key"
    BY TenantGroups, UsageGroup
  <2>2. q.at \in 1..7
    BY FieldShape
  <2> QED
    BY <2>1, <2>2 DEF Passed, Ensured
<1>6. CASE Layer(q) = "no_origin"
  <2>1. route \in {"tenants", "dictionaries"}
    BY <1>1, <1>4, <1>6, LayerPlace
  <2> QED
    BY <1>6, <2>1 DEF Verdict, no_origin, Permitted
<1>7. CASE Layer(q) = "key"
  BY <1>2, <1>7 DEF Verdict, authenticate
<1>8. CASE Layer(q) \in {"active_tenant", "quota"}
  <2>1. route \in {"spellcheck", "api_keys", "tenant"} /\ q.at > 2
    BY <1>1, <1>4, <1>8, LayerPlace
  <2>2. c.key \in Keys
    BY <1>5, <2>1
  <2>3. verdict = "forbidden" => Tenant(c) \in suspended /\ Tenant(c) # None
    BY <1>8 DEF Verdict, require_active_tenant, require_quota
  <2>4. verdict = "panic" => Tenant(c) = None
    BY <1>8 DEF Verdict, require_active_tenant, require_quota
  <2>5. Tenant(c) = None <=> c.key.role = "platform"
    BY <2>2, KeyShape DEF Tenant
  <2>6. c.key.role = "platform" => ~Permitted(c)
    BY <2>1 DEF Permitted
  <2>7. verdict # "unauthorized"
    BY <1>8 DEF Verdict, require_active_tenant, require_quota
  <2> QED
    BY <1>2, <1>3, <2>3, <2>4, <2>5, <2>6, <2>7
<1>9. CASE Layer(q) = "origin_binding"
  <2>1. route \in {"spellcheck", "api_keys", "tenant"} /\ q.at = 4
    BY <1>9, <1>4a
  <2>2. c.key.role # "platform"
    BY <2>1, TenantGroups DEF Passed, Ensured
  <2>3. verdict \in {"pass", "forbidden"} /\ (verdict = "forbidden" => ~Bound(c))
    BY <1>9 DEF Verdict, require_origin_binding
  <2> QED
    BY <1>2, <1>3, <2>2, <2>3
<1>10. CASE Layer(q) = "admin"
  <2>1. route = "api_keys"
    BY <1>10, <1>4a
  <2> QED
    BY <1>10, <2>1 DEF Verdict, require_admin, Permitted
<1>11. CASE Layer(q) \in {"limiter", "usage"}
  BY <1>11 DEF Verdict
<1>12. CASE Layer(q) = "scope_role"
  <2>1. route = "usage"
    BY <1>12, <1>4a
  <2> QED
    BY <1>12, <2>1 DEF Verdict, scope_role, Permitted
<1>13. CASE Layer(q) = "scope_tenant"
  <2>1. verdict \in {"pass", "forbidden"}
    BY <1>13 DEF Verdict, scope_tenant
  <2>2. verdict = "forbidden" => c.key.role = "admin" /\ Tenant(c) \in suspended
    BY <1>13 DEF Verdict, scope_tenant
  <2> QED
    BY <1>2, <1>3, <2>1, <2>2
<1>14. CASE Layer(q) = "scope_origin"
  <2>1. verdict \in {"pass", "forbidden"}
    BY <1>14 DEF Verdict, scope_origin
  <2>2. verdict = "forbidden" => c.key.role = "admin" /\ ~Bound(c)
    BY <1>14 DEF Verdict, scope_origin
  <2> QED
    BY <1>2, <1>3, <2>1, <2>2
<1>15. CASE Layer(q) = "platform"
  <2>1. route \in {"tenants", "dictionaries"} /\ verdict \in {"pass", "forbidden"}
    BY <1>1, <1>4, <1>15, LayerPlace DEF Verdict, require_platform
  <2> QED
    BY <1>15, <2>1 DEF Verdict, require_platform, Permitted
<1>16. CASE Layer(q) = "admin_host"
  <2>1. route = "dictionaries" /\ verdict = admin_host(c) /\ admin_host(c) \in {"pass", "forbidden"}
    BY <1>1, <1>4, <1>16, LayerPlace DEF Verdict, admin_host
  <2> QED
    BY <2>1
<1>17. Layer(q) \in {"no_origin", "limiter", "key", "active_tenant", "origin_binding", "admin", "quota",
         "usage", "scope_role", "scope_tenant", "scope_origin", "platform", "admin_host"}
  BY <1>1, LayerPlace DEF Layer
<1> QED
  BY <1>6, <1>7, <1>8, <1>9, <1>10, <1>11, <1>12, <1>13, <1>14, <1>15, <1>16, <1>17

(* What a gate has seen to stays so: held only grows.                      *)
LEMMA EnsuredGrows ==
  ASSUME NEW layer, NEW p, NEW q, p.call = q.call, q.held \subseteq p.held, Ensured(layer, q)
  PROVE  Ensured(layer, p)
  BY DEF Ensured

(* Every step keeps CauseInv: a gate that lets through has seen to its     *)
(* fact, a gate that refuses has its cause.                                *)
LEMMA CauseStep == TypeOK /\ StandInv /\ CauseInv /\ [Next]_vars => CauseInv'
<1> SUFFICES ASSUME TypeOK, StandInv, CauseInv, [Next]_vars PROVE CauseInv'
  OBVIOUS
<1>0. Idle.op = "idle"
  BY DEF Idle
<1>1. ASSUME NEW r \in Requests, Arrive(r) PROVE CauseInv'
  <2>1. PICK c \in Calls :
          LET now == Holding(c, live, suspended, owned)
          IN request' = [request EXCEPT ![r] =
               [op |-> "passing", call |-> c, at |-> 1, billed |-> FALSE, watched |-> FALSE,
                held |-> now, lapsed |-> Facts \ now, body |-> None]]
    BY <1>1 DEF Arrive
  <2>2. /\ request'[r].op = "passing" /\ request'[r].at = 1 /\ request'[r].call = c
        /\ request'[r].held = Holding(c, live, suspended, owned)
        /\ request'[r].lapsed = Facts \ Holding(c, live, suspended, owned)
        /\ \A s \in Requests \ {r} : request'[s] = request[s]
    BY <2>1 DEF TypeOK
  <2>3. UNCHANGED <<live, suspended, owned>>
    BY <1>1 DEF Arrive
  <2>4. Passed(request'[r]) /\ Caused(request'[r])
    BY <2>2 DEF Passed, Caused
  <2>5. Witnessed(request[r])'
    BY <2>2, <2>3 DEF Witnessed
  <2>6. ASSUME NEW s \in Requests \ {r}, Witnessed(request[s]) PROVE Witnessed(request[s])'
    BY <2>2, <2>3, <2>6 DEF Witnessed
  <2> QED
    BY <2>2, <2>4, <2>5, <2>6 DEF CauseInv
<1>2. ASSUME NEW r \in Requests, Pass(r) PROVE CauseInv'
  <2> DEFINE q == request[r]
             p == request'[r]
  <2>1. /\ q.op = "passing" /\ q.at \in DOMAIN Layers[q.call.route]
        /\ Verdict(Layer(q), q.call) = "pass"
        /\ request' = [request EXCEPT ![r] = [q EXCEPT
             !.at = q.at + 1,
             !.billed = q.billed \/ Layer(q) = "quota",
             !.watched = q.watched \/ Layer(q) = "usage"]]
    BY <1>2 DEF Pass, AtLayer
  <2>2. /\ p.op = "passing" /\ p.at = q.at + 1 /\ p.call = q.call
        /\ p.held = q.held /\ p.lapsed = q.lapsed
        /\ \A s \in Requests \ {r} : request'[s] = request[s]
    BY <2>1, RecordShape DEF TypeOK, Request
  <2>3. UNCHANGED <<live, suspended, owned>>
    BY <1>2 DEF Pass
  <2>4. q \in Request(Ops, Bodies \union {None}) /\ q.at \in 1..Count[q.call.route]
    BY <2>1, RecordShape, ReachedAt, GroupSizes
  <2>5. Passed(q) /\ Witnessed(q) /\ Caused(q)
    BY <2>1 DEF CauseInv
  <2>6. Ensured(Layers[q.call.route][q.at], q)
    BY <2>1, <2>4, <2>5, PassEnsures DEF Layer
  <2>7. Passed(p)
    <3>1. ASSUME NEW i \in 1..(p.at - 1) PROVE Ensured(Layers[q.call.route][i], q)
      <4>1. i \in 1..(q.at - 1) \/ i = q.at
        BY <2>2, <2>4, <3>1, GroupSizes, ReachedAt, <2>1
      <4> QED
        BY <2>5, <2>6, <4>1 DEF Passed
    <3> QED
      BY <2>2, <3>1, EnsuredGrows DEF Passed
  <2>8. Witnessed(request[r])' /\ Caused(p)
    <3>1. Caused(p)
      BY <2>2 DEF Caused
    <3>2. Witnessed(request[r])'
      BY <2>1, <2>2, <2>3, <2>5 DEF Witnessed
    <3> QED
      BY <3>1, <3>2
  <2>9. ASSUME NEW s \in Requests \ {r}, Witnessed(request[s]) PROVE Witnessed(request[s])'
    BY <2>2, <2>3, <2>9 DEF Witnessed
  <2> QED
    BY <2>2, <2>7, <2>8, <2>9 DEF CauseInv
<1>3. ASSUME NEW r \in Requests, NEW op, NEW body, Answer(r, op, body), request[r].op # "idle",
             op # "passing", Caused(request'[r])
      PROVE  CauseInv'
  <2>1. UNCHANGED <<live, suspended, owned>>
    BY <1>3 DEF Answer
  <2>2. Passed(request[r]) /\ Passed(request'[r])
    <3>1. Passed(request[r])
      BY <1>3 DEF CauseInv
    <3> QED
      BY <1>3, <3>1, AnswerFields, EnsuredGrows DEF Passed
  <2>3. Witnessed(request[r])'
    BY <1>3, AnswerFields DEF Witnessed
  <2>4. ASSUME NEW s \in Requests \ {r}, Witnessed(request[s]) PROVE Witnessed(request[s])'
    BY <1>3, <2>1, <2>4, AnswerFields DEF Witnessed
  <2> QED
    BY <1>3, <2>2, <2>3, <2>4, AnswerFields DEF CauseInv
<1>4. ASSUME NEW r \in Requests, Refuse(r) PROVE CauseInv'
  <2> DEFINE q == request[r]
             verdict == Verdict(Layer(q), q.call)
  <2>1. /\ q.op = "passing" /\ q.at \in DOMAIN Layers[q.call.route] /\ verdict # "pass"
        /\ Answer(r, verdict, None)
    BY <1>4 DEF Refuse, AtLayer
  <2>2. q \in Request(Ops, Bodies \union {None}) /\ q.at \in 1..Count[q.call.route]
        /\ q.call.route \in Routes
    BY <2>1, RecordShape, ReachedAt, GroupSizes
  <2>3. Passed(q) /\ Witnessed(q)
    BY <2>1 DEF CauseInv
  <2>4. verdict \in {"unauthorized", "forbidden", "panic", "quota-exceeded"}
    BY <2>1, <2>2, Verdicts DEF Layer
  <2>5. /\ verdict = "unauthorized" => "key" \in q.lapsed
        /\ verdict = "forbidden" =>
             \/ ~Permitted(q.call)
             \/ Needed(q.call) \cap q.lapsed # {}
             \/ q.call.route = "dictionaries" /\ admin_host(q.call) = "forbidden"
        /\ verdict = "panic" => q.call.key.role = "platform" /\ ~Permitted(q.call)
    BY <2>1, <2>2, <2>3, RefusalCaused
  <2> HIDE DEF verdict
  <2>6. Caused(request'[r])
    BY <2>1, <2>4, <2>5, AnswerFields DEF Caused
  <2> QED
    BY <2>1, <2>4, <2>6, <1>3
<1>5. ASSUME NEW r \in Requests, NEW op \in HandlerAnswers \union {"loading", "rate-limited", "gone"},
             NEW body, Answer(r, op, body), request[r].op # "idle"
      PROVE  CauseInv'
  <2>1. op \notin {"passing", "unauthorized", "forbidden", "panic"}
    BY <1>5 DEF HandlerAnswers
  <2>2. Caused(request'[r])
    BY <1>5, <2>1, AnswerFields DEF Caused
  <2> QED
    BY <1>5, <2>1, <2>2, <1>3
<1>6. ASSUME NEW r \in Requests,
             Limit(r) \/ Handle(r) \/ Reject(r) \/ ResolveEngine(r) \/ Unsupported(r) \/ GoAway(r)
      PROVE  CauseInv'
  <2>1. PICK op \in HandlerAnswers \union {"loading", "rate-limited", "gone"} :
          \E body : Answer(r, op, body)
    BY <1>6 DEF Limit, Handle, Reject, ResolveEngine, Unsupported, GoAway, HandlerAnswers
  <2>2. request[r].op # "idle"
    BY <1>6 DEF Limit, Handle, Reject, ResolveEngine, Unsupported, GoAway, AtLayer, AtHandler
  <2> QED
    BY <2>1, <2>2, <1>5
<1>7. ASSUME NEW r \in Requests, Check(r) PROVE CauseInv'
  <2>1. request[r].op = "loading" /\ Reached(request[r])
    BY <1>7 DEF Check, StandInv, Stands
  <2>2. PICK op \in {"handled", "panic"} : Answer(r, op, request[r].body)
    BY <1>7 DEF Check
  <2>3. Caused(request'[r])
    BY <2>1, <2>2, AnswerFields DEF Caused, Reached
  <2> QED
    BY <2>1, <2>2, <2>3, <1>3
<1>8. ASSUME NEW r \in Requests, Leave(r) PROVE CauseInv'
  BY <1>0, <1>8 DEF Leave, CauseInv, TypeOK, Witnessed
<1>9. ASSUME Watch(live', suspended', owned') PROVE CauseInv'
  <2> SUFFICES ASSUME NEW r \in Requests, request'[r].op # "idle"
               PROVE  Passed(request'[r]) /\ Witnessed(request[r])' /\ Caused(request'[r])
    BY DEF CauseInv
  <2>1. CASE request[r].op = "passing"
    <3> DEFINE now == Holding(request[r].call, live', suspended', owned')
    <3>1. /\ request'[r].op = "passing" /\ request'[r].call = request[r].call
          /\ request'[r].at = request[r].at
          /\ request'[r].held = request[r].held \union now
          /\ request'[r].lapsed = request[r].lapsed \union (Facts \ now)
      BY <1>9, <2>1, RecordShape DEF Watch, Request
    <3>2. Passed(request[r])
      BY <2>1 DEF CauseInv
    <3>3. Passed(request'[r])
      BY <3>1, <3>2, EnsuredGrows DEF Passed
    <3> QED
      BY <3>1, <3>3 DEF Witnessed, Caused
  <2>2. CASE request[r].op # "passing"
    <3>1. request'[r] = request[r]
      BY <1>9, <2>2 DEF Watch
    <3> QED
      BY <2>2, <3>1 DEF CauseInv, Witnessed
  <2> QED
    BY <2>1, <2>2
<1>10. CASE UNCHANGED <<live, suspended, owned, request>>
  BY <1>10 DEF CauseInv, Witnessed
<1>11. ASSUME NEW k \in Keys, RevokeKey(k) PROVE CauseInv'
  BY <1>9, <1>11 DEF RevokeKey, Watch
<1>12. ASSUME NEW t \in Tenants, SetSuspended(t) PROVE CauseInv'
  BY <1>9, <1>12 DEF SetSuspended, Watch
<1>13. ASSUME NEW t \in Tenants, NEW o \in Origins, SetOwned(t, o) PROVE CauseInv'
  BY <1>9, <1>13 DEF SetOwned, Watch
<1>14. ASSUME NEW t \in Tenants, ResetQuota(t) PROVE CauseInv'
  BY <1>10, <1>14 DEF ResetQuota
<1>15. CASE UNCHANGED vars
  BY <1>10, <1>15 DEF vars
<1> QED
  BY <1>1, <1>2, <1>4, <1>6, <1>7, <1>8, <1>11, <1>12, <1>13, <1>14, <1>15 DEF Next

(* CauseInv holds in every reachable state.                                *)
LEMMA CauseInvariant == Spec => [](TypeOK /\ StandInv /\ CauseInv)
<1>1. Init => CauseInv
  BY DEF Init, CauseInv, Idle
<1> QED
  BY <1>1, StandInvariant, CauseStep, PTL DEF Spec

-----------------------------------------------------------------------------
(* Membership of a network is the same for both writings of an address.    *)
LEMMA CanonicalContained ==
  ASSUME NEW cidr, NEW ip
  PROVE  contains(cidr, canonical_ip(ip)) <=> contains(cidr, ip)
<1>1. canonical_ip(canonical_ip(ip)) = canonical_ip(ip)
  BY DEF canonical_ip
<1> QED
  BY <1>1 DEF contains

(* The host require_dictionary_admin compares is the one REQUIREMENTS.md   *)
(* asks for.                                                               *)
LEMMA HostAgrees ==
  ASSUME NEW c \in Calls
  PROVE  admin_host(c) = "pass" <=> FromAdmin(c)
<1> DEFINE f == c.forwarded
           far == {i \in Chain(f) : ~Within(Trusted, f[i])}
           untrusted == {i \in DOMAIN Path(c) : Path(c)[i] # Garbled /\ ~InAny(Trusted, Path(c)[i])}
<1>1. /\ f \in Seq(Hosts \union {Garbled}) /\ c.peer \in Hosts
      /\ Hosts \subseteq IpAddr /\ Garbled \notin Hosts
      /\ Len(f) \in Nat /\ DOMAIN f = 1..Len(f)
  BY CallShape, RequestGatesAssumption
<1>2. ASSUME NEW specs, specs \in {Trusted, Admins}, NEW ip \in IpAddr
      PROVE  Within(specs, ip) <=> InAny(specs, ip)
  BY <1>2, RequestGatesAssumption, NetworksArePrefixes DEF Within, InAny, PrefixMatches
<1>3. ASSUME NEW specs, NEW ip PROVE Within(specs, canonical_ip(ip)) <=> Within(specs, ip)
  BY CanonicalContained DEF Within
<1>4. /\ DOMAIN Path(c) = 1..(Len(f) + 1)
      /\ \A i \in 1..Len(f) : Path(c)[i] = f[i]
      /\ Path(c)[Len(f) + 1] = c.peer
  BY <1>1 DEF Path
<1>5. \A i \in 1..Len(f) : i \in far <=> i \in untrusted
  BY <1>1, <1>2, <1>4 DEF Chain
<1>6. Len(f) + 1 \in untrusted <=> ~Within(Trusted, c.peer)
  BY <1>1, <1>2, <1>4
<1>7. far \subseteq 1..Len(f) /\ untrusted \subseteq 1..(Len(f) + 1)
  BY <1>1, <1>4 DEF Chain
<1>8. FromAdmin(c) <=>
        \/ Admins = {}
        \/ untrusted = {} /\ InAny(Admins, c.peer)
        \/ \E i \in untrusted : InAny(Admins, Path(c)[i]) /\ \A j \in untrusted : j <= i
  BY DEF FromAdmin
<1>9. admin_host(c) = "pass" <=> Admins = {} \/ Within(Admins, resolved_client_ip(c.peer, f))
  BY DEF admin_host
<1>10. resolved_client_ip(c.peer, f) =
         IF ~Within(Trusted, c.peer) \/ far = {} THEN c.peer ELSE canonical_ip(f[Max(far)])
  BY DEF resolved_client_ip
<1> HIDE DEF far, untrusted, f
<1>11. ASSUME ~Within(Trusted, c.peer)
       PROVE  Within(Admins, c.peer) <=>
                \E i \in untrusted : InAny(Admins, Path(c)[i]) /\ \A j \in untrusted : j <= i
  <2>1. Len(f) + 1 \in untrusted /\ \A j \in untrusted : j <= Len(f) + 1
    BY <1>1, <1>6, <1>7, <1>11
  <2>2. \A i \in untrusted : (\A j \in untrusted : j <= i) => i = Len(f) + 1
    BY <1>1, <1>7, <2>1
  <2> QED
    BY <1>1, <1>2, <1>4, <2>1, <2>2
<1>12. ASSUME Within(Trusted, c.peer), far = {} PROVE untrusted = {}
  BY <1>1, <1>5, <1>6, <1>7, <1>12
<1>13. ASSUME Within(Trusted, c.peer), far # {}
       PROVE  Within(Admins, canonical_ip(f[Max(far)])) <=>
                \E i \in untrusted : InAny(Admins, Path(c)[i]) /\ \A j \in untrusted : j <= i
  <2> DEFINE m == Max(far)
  <2>1. m \in far /\ \A j \in far : j <= m
    BY <1>1, <1>7, <1>13, MaxPosition
  <2> HIDE DEF m
  <2>2. untrusted = far
    <3>1. Len(f) + 1 \notin untrusted
      BY <1>6, <1>13
    <3>2. untrusted \subseteq 1..Len(f)
      BY <1>1, <1>7, <3>1
    <3> QED
      BY <1>5, <1>7, <3>2
  <2>3. m \in 1..Len(f) /\ f[m] # Garbled /\ f[m] \in IpAddr
    BY <1>1, <1>7, <2>1 DEF far, Chain
  <2>4. Within(Admins, canonical_ip(f[m])) <=> InAny(Admins, Path(c)[m])
    BY <1>2, <1>3, <1>4, <2>3
  <2>5. \A i \in untrusted : (\A j \in untrusted : j <= i) => i = m
    BY <1>1, <1>7, <2>1, <2>2
  <2> QED
    BY <2>1, <2>2, <2>4, <2>5 DEF m
<1>14. Within(Admins, c.peer) <=> InAny(Admins, c.peer)
  BY <1>1, <1>2
<1>15. CASE ~Within(Trusted, c.peer)
  <2>1. untrusted # {}
    BY <1>6, <1>15
  <2> QED
    BY <1>8, <1>9, <1>10, <1>11, <1>15, <2>1
<1>16. CASE Within(Trusted, c.peer) /\ far = {}
  BY <1>8, <1>9, <1>10, <1>12, <1>14, <1>16
<1>17. CASE Within(Trusted, c.peer) /\ far # {}
  <2>1. untrusted # {}
    BY <1>5, <1>7, <1>17
  <2> QED
    BY <1>8, <1>9, <1>10, <1>13, <1>17, <2>1
<1> QED
  BY <1>15, <1>16, <1>17

-----------------------------------------------------------------------------
(* A handler runs only for a caller whom the requirements allow there and  *)
(* whose key, tenant and Origin were right at some moment since it came,   *)
(* for every set of keys, networks and calls and whatever is revoked,      *)
(* suspended or registered behind the gates.                               *)
THEOREM HandlersServeTheEntitled == Spec => []HandledWasEntitled
<1>1. TypeOK /\ CauseInv => HandledWasEntitled
  <2> SUFFICES ASSUME TypeOK, CauseInv, NEW r \in Requests, request[r].op # "idle",
                      Reached(request[r])
               PROVE  /\ Permitted(request[r].call)
                      /\ Needed(request[r].call) \subseteq request[r].held
    BY DEF HandledWasEntitled
  <2> DEFINE q == request[r]
             c == request[r].call
  <2>1. Passed(q)
    BY DEF CauseInv
  <2>2. /\ c \in Calls /\ c.route \in Routes /\ Count[c.route] \in 4..6
        /\ q.at \in 1..7 /\ q.at > Count[c.route]
    BY ReachedAt, GroupSizes
  <2>3. \A i \in 1..Count[c.route] : Ensured(Layers[c.route][i], q)
    BY <2>1, <2>2 DEF Passed
  <2>4. c.key \in Keys => c.key.role \in {"platform", "admin", "standard"}
    BY KeyShape DEF Roles
  <2>5. CASE c.route \in {"spellcheck", "api_keys", "tenant"}
    <3>1. /\ c.key \in Keys /\ "key" \in q.held
          /\ c.key.role # "platform" /\ "tenant" \in q.held /\ "origin" \in q.held
      BY <2>2, <2>3, <2>5, TenantGroups DEF Ensured
    <3>2. c.route = "api_keys" => c.key.role = "admin"
      BY <2>3, LastGates DEF Ensured, Count
    <3> QED
      BY <2>4, <2>5, <3>1, <3>2 DEF Permitted, Needed, Facts
  <2>6. CASE c.route = "usage"
    <3>1. /\ c.key \in Keys /\ "key" \in q.held
          /\ c.key.role # "standard" /\ (c.key.role = "platform" => c.origin = None)
          /\ c.key.role = "admin" => "tenant" \in q.held /\ "origin" \in q.held
      BY <2>3, <2>6, UsageGroup DEF Ensured, Count
    <3> QED
      BY <2>4, <2>6, <3>1 DEF Permitted, Needed, Facts
  <2>7. CASE c.route \in {"tenants", "dictionaries"}
    <3>1. "key" \in q.held /\ c.key.role = "platform" /\ c.origin = None
      BY <2>2, <2>3, <2>7, PlatformGroups DEF Ensured
    <3>2. c.route = "dictionaries" => FromAdmin(c)
      <4>1. c.route = "dictionaries" => admin_host(c) = "pass"
        BY <2>3, PlatformGroups DEF Ensured, Count
      <4> QED
        BY <2>2, <4>1, HostAgrees
    <3> QED
      BY <2>7, <3>1, <3>2 DEF Permitted, Needed
  <2> QED
    BY <2>2, <2>5, <2>6, <2>7 DEF Routes
<1> QED
  BY <1>1, CauseInvariant, PTL

(* A request is refused only for a cause, and a gate panics only on a      *)
(* platform key where it has no business.                                  *)
THEOREM GatesRefuseForCause == Spec => []RefusedForCause
<1>1. TypeOK /\ CauseInv => RefusedForCause
  <2> SUFFICES ASSUME TypeOK, CauseInv, NEW r \in Requests
               PROVE  /\ request[r].op = "unauthorized" => "key" \in request[r].lapsed
                      /\ request[r].op = "forbidden" =>
                           \/ ~Permitted(request[r].call)
                           \/ Needed(request[r].call) \cap request[r].lapsed # {}
                      /\ request[r].op = "panic" /\ ~Reached(request[r]) =>
                           request[r].call.key.role = "platform" /\ ~Permitted(request[r].call)
    BY DEF RefusedForCause
  <2>1. request[r].op # "idle" => Caused(request[r]) /\ request[r].call \in Calls
    BY ReachedAt DEF CauseInv
  <2>2. ASSUME NEW c \in Calls, c.route = "dictionaries", admin_host(c) = "forbidden"
        PROVE  ~Permitted(c)
    BY <2>2, HostAgrees DEF Permitted
  <2> QED
    BY <2>1, <2>2 DEF Caused
<1> QED
  BY <1>1, CauseInvariant, PTL

-----------------------------------------------------------------------------
-----------------------------------------------------------------------------
(* An input stays what it was chosen to be.                                *)
LEMMA InputsEnumerated == InputSpec => [](input \in {NoInput} \union Inputs)
<1> DEFINE Enumerated == input \in {NoInput} \union Inputs
<1>1. InputInit => Enumerated
  BY DEF InputInit
<1>2. Enumerated /\ [InputNext]_<<vars, input>> => Enumerated'
  BY DEF InputNext
<1> QED
  BY <1>1, <1>2, PTL DEF InputSpec

(* contains() is membership of the configured network, for addresses of    *)
(* every width and in either writing.                                      *)
THEOREM ContainsIsMembership == InputSpec => []CidrMatchesPrefix
<1>1. input \in {NoInput} \union Inputs => CidrMatchesPrefix
  <2> SUFFICES ASSUME input \in {NoInput} \union Inputs, input.kind = "network"
               PROVE  PrefixMatches(input.spec)
    BY DEF CidrMatchesPrefix
  <2>1. input.spec \in Specs
    BY DEF NoInput, Inputs
  <2> QED
    BY <2>1, NetworksArePrefixes
<1> QED
  BY <1>1, InputsEnumerated, PTL

(* Engine::tokenize finds what the reference finds, for every text,        *)
(* alphabet and encoding: the occurrences of a text without bare           *)
(* punctuation, all of them and in order, each placed at the white space   *)
(* or punctuation before it; and it panics on no other text.               *)
THEOREM TokenizerFollowsReference == InputSpec => []TokensFollowReference
<1>1. input \in {NoInput} \union Inputs => TokensFollowReference
  <2> SUFFICES ASSUME input \in {NoInput} \union Inputs, input.kind = "body"
               PROVE  TokensMatch(input.text)
    BY DEF TokensFollowReference
  <2>1. input.text \in Texts
    BY DEF NoInput, Inputs
  <2> QED
    BY <2>1, TextMatches, SpellCheckAssumption
<1> QED
  BY <1>1, InputsEnumerated, PTL

(* /spellcheck and /spellcheck/positions tell the same of one body, for    *)
(* every dictionary, text and list of words: the same misspelled words,    *)
(* the same suggestions, and one place for each result of the text, in the *)
(* order of the results.                                                   *)
THEOREM EndpointsTellTheSame == InputSpec => []EndpointsAgree
<1>1. input \in {NoInput} \union Inputs => EndpointsAgree
  <2> SUFFICES ASSUME input \in {NoInput} \union Inputs, input.kind = "body"
               PROVE  EndpointsMatch(input.text, input.words)
    BY DEF EndpointsAgree
  <2>1. input.text \in Texts /\ input.words \in WordLists
    BY DEF NoInput, Inputs
  <2> QED
    BY <2>1, BodyMatches
<1> QED
  BY <1>1, InputsEnumerated, PTL
=============================================================================
