-------------------------------- MODULE Networks --------------------------------
(***************************************************************************)
(* The address arithmetic of server/src/ingest/networks.ts, over addresses *)
(* of any width: matching an address against a range, overlap of ranges,   *)
(* the actor an address belongs to, the classes of addresses, and the text *)
(* form of an IPv6 address.                                                *)
(*                                                                         *)
(* An address is [v6, value]; an entry (an exception, a ban target) has    *)
(* bits too, which are Bare when it is written without a prefix length and *)
(* may be more than the address has.  A result the code returns as null is *)
(* the empty set, any other the set of that one value.                     *)
(***************************************************************************)
EXTENDS Integers, Sequences, FiniteSets

CONSTANTS Width4,          \* bits of an IPv4 address (32)
          Groups,          \* groups of an IPv6 address (8)
          GroupBits,       \* bits of a group (16)
          ActorBits,       \* the prefix that is one actor (64)
          Mapped,          \* the range of IPv4 addresses in IPv6 (::ffff:0:0/96)
          PrivateRange,    \* PRIVATE_RANGES, both families
          CloudflareRange, \* CLOUDFLARE_V4 and CLOUDFLARE_V6
          MinPrefix4, MinPrefix6   \* the widest ranges a ban may use (/8, /32)

Bare == -1
Width6 == Groups * GroupBits
Width(v6) == IF v6 THEN Width6 ELSE Width4

Address == {a \in [v6 : BOOLEAN, value : 0 .. 2^Width6 - 1] : a.value < 2^Width(a.v6)}
Entry == {e \in [v6 : BOOLEAN, value : 0 .. 2^Width6 - 1, bits : Bare .. Width6 + 1] :
            e.value < 2^Width(e.v6) /\ e.bits <= Width(e.v6) + 1}

ASSUME NetworksAssumption ==
    /\ Width4 \in Nat \ {0} /\ Groups \in Nat \ {0} /\ GroupBits \in Nat \ {0}
    /\ Width4 <= Width6
    /\ ActorBits \in 1 .. Width6
    /\ \E m \in 1 .. Groups - 1 : ActorBits = GroupBits * m   \* subnet64: the first four
    /\ Mapped \in Entry /\ Mapped.v6 /\ Mapped.bits = Width6 - Width4
    /\ PrivateRange \subseteq Entry /\ CloudflareRange \subseteq Entry
    /\ MinPrefix4 \in 0 .. Width4 /\ MinPrefix6 \in 0 .. Width6

Smaller(m, n) == IF m < n THEN m ELSE n

-------------------------------------------------------------------------------
(* Masks.                                                                     *)

\* x & mask, for a mask whose set bits are the leading ones.
And(x, mask, width) == x - (x % (2^width - mask))

\* JavaScript shifts a number by its count modulo the width, and keeps the width.
ShiftLeft(x, n, width) == (x * 2^(n % width)) % 2^width

\* Mutant: without the case of /0, whose shift is one by nothing.
ShiftedMask(bits) == ShiftLeft(2^Width4 - 1, Width4 - bits, Width4)

\* parseCidr's mask of a number.
Mask4(bits) == IF bits = 0 THEN 0 ELSE ShiftLeft(2^Width4 - 1, Width4 - bits, Width4)

\* ipv6Mask, of a bigint, which no shift wraps.
Mask6(bits) == IF bits <= 0 THEN 0 ELSE (2^bits - 1) * 2^(Width6 - bits)

\* rangeMask: all ones shifted left and cut to the width.
RangeMask(bits, width) ==
    IF bits = 0 THEN 0 ELSE ((2^width - 1) * 2^(width - bits)) % 2^width

-------------------------------------------------------------------------------
(* Matching an address against entries.                                       *)

\* parseCidr and parseCidr6, of an entry with a prefix length.
Cidr(e) ==
    LET mask == IF e.v6 THEN Mask6(e.bits) ELSE Mask4(e.bits) IN
    IF e.bits \in 0 .. Width(e.v6)
    THEN {[base |-> And(e.value, mask, Width(e.v6)), mask |-> mask]}
    ELSE {}

InCidr(a, e) ==
    /\ a.v6 = e.v6
    /\ \E c \in Cidr(e) : And(a.value, c.mask, Width(a.v6)) = c.base

\* ipMatchesAny: the same address, or a range around it, of its own family.
IpMatchesAny(a, entries) ==
    \E e \in entries :
        IF e.bits = Bare THEN a.v6 = e.v6 /\ a.value = e.value ELSE InCidr(a, e)

-------------------------------------------------------------------------------
(* Overlap.                                                                   *)

\* parseRange: a bare address is a range of its full length.
RangeOf(e) ==
    LET bits == IF e.bits = Bare THEN Width(e.v6) ELSE e.bits IN
    IF bits \in 0 .. Width(e.v6)
    THEN {[v6 |-> e.v6, bits |-> bits,
           base |-> And(e.value, RangeMask(bits, Width(e.v6)), Width(e.v6))]}
    ELSE {}

\* rangesOverlap: the two agree in the shorter of their prefixes.
RangesOverlap(e, f) ==
    \E r \in RangeOf(e), s \in RangeOf(f) :
        /\ r.v6 = s.v6
        /\ LET mask == RangeMask(Smaller(r.bits, s.bits), Width(r.v6))
           IN  And(r.base, mask, Width(r.v6)) = And(s.base, mask, Width(r.v6))

OverlapsPrivate(e) == \E p \in PrivateRange : RangesOverlap(e, p)

\* classifyIp: an IPv4 address in IPv6 has the class of the IPv4 address.
ClassifyIp(a) ==
    LET b == IF a.v6 /\ InCidr(a, Mapped) THEN [v6 |-> FALSE, value |-> a.value % 2^Width4]
             ELSE a
    IN  CASE \E p \in PrivateRange : InCidr(b, p) -> "private"
          [] OTHER -> IF \E c \in CloudflareRange : InCidr(b, c) THEN "cloudflare" ELSE "public"

-------------------------------------------------------------------------------
(* Actors and ban targets.                                                    *)

AsEntry(a) == [v6 |-> a.v6, value |-> a.value, bits |-> Bare]

\* ipv6Subnet(ip) ?? ip, of an address (client_net) or of a ban target: a bare
\* IPv6 address becomes its /64, all else stays what it is.
Widen(e) ==
    IF e.v6 /\ e.bits = Bare
    THEN [v6 |-> TRUE, value |-> And(e.value, Mask6(ActorBits), Width6), bits |-> ActorBits]
    ELSE e

ActorOf(a) == Widen(AsEntry(a))

\* The private ranges are no IPv4 addresses in IPv6, but the actor of one of those
\* has a private address too: ::1 lies in the /64 of ::ffff:0:0/96.
ASSUME PrivateAssumption ==
    /\ \A p \in PrivateRange : p.bits # Bare /\ ~RangesOverlap(p, Mapped)
    /\ \A a \in Address : a.v6 /\ InCidr(a, Mapped) => OverlapsPrivate(ActorOf(a))

\* What BanService#ban takes, for an entry already widened: a range not too broad
\* that touches no exception and nothing private.
BanAllowed(e, exceptions) ==
    /\ \E r \in RangeOf(e) : r.bits >= (IF r.v6 THEN MinPrefix6 ELSE MinPrefix4)
    /\ \A x \in exceptions : ~RangesOverlap(e, x)
    /\ ~OverlapsPrivate(e)

\* BanService#checker: the client is on the list, or in a range on it.
IsBanned(a, banned) == AsEntry(a) \in banned \/ IpMatchesAny(a, {b \in banned : b.bits # Bare})

\* BanService#unban removes the entry and the /64 it was stored as.
Unbanned(e, banned) == banned \ {e, Widen(e)}

-------------------------------------------------------------------------------
(* The text of an IPv6 address: its groups, with "::" for a run of zeros      *)
(* between head and tail.                                                     *)

GroupValue == 0 .. 2^GroupBits - 1
GroupAt(v, i) == (v \div 2^(GroupBits * (Groups - i))) % 2^GroupBits
GroupsOf(v) == [i \in 1 .. Groups |-> GroupAt(v, i)]

Plain(gs) == [head |-> gs, cut |-> FALSE, tail |-> <<>>]

\* The runs of zero groups, and the longest of them, the first of several.
Runs(gs) ==
    {r \in (1 .. Groups) \X (1 .. Groups) :
        r[1] <= r[2] /\ \A i \in r[1] .. r[2] : gs[i] = 0}
Length(r) == r[2] - r[1] + 1
Best(gs) ==
    {r \in Runs(gs) : \A s \in Runs(gs) :
        Length(s) < Length(r) \/ (Length(s) = Length(r) /\ s[1] >= r[1])}

\* ipv6ToString: a run of one group is not cut out.
Ipv6ToString(v) ==
    LET gs == GroupsOf(v) IN
    IF \E r \in Best(gs) : Length(r) >= 2
    THEN LET r == CHOOSE r \in Best(gs) : TRUE IN
         [head |-> SubSeq(gs, 1, r[1] - 1), cut |-> TRUE, tail |-> SubSeq(gs, r[2] + 1, Groups)]
    ELSE Plain(gs)

\* What the loop over the groups computes.
ValueOf(gs) ==
    LET value[i \in 0 .. Groups] == IF i = 0 THEN 0 ELSE value[i - 1] * 2^GroupBits + gs[i]
    IN  value[Groups]

\* ipv6ToBigInt: "::" stands for at least one group, and without it all are there.
Ipv6ToBigInt(t) ==
    LET fill == Groups - Len(t.head) - Len(t.tail)
        gs == IF t.cut THEN t.head \o [i \in 1 .. fill |-> 0] \o t.tail ELSE t.head
        whole == IF t.cut THEN fill >= 1 ELSE Len(t.head) = Groups
    IN  IF whole THEN {ValueOf(gs)} ELSE {}

\* subnet64 of the web page (web/src/lib/net.ts): the groups of the prefix as they
\* are, then "::", and never another run cut out.
WebSubnet64(v) ==
    [head |-> SubSeq(GroupsOf(v), 1, ActorBits \div GroupBits), cut |-> TRUE, tail |-> <<>>]

-------------------------------------------------------------------------------
(* What the operators mean.                                                   *)

Bit(x, k) == (x \div 2^k) % 2

\* The addresses of an entry agree with it in its leading bits.
Within(a, e) ==
    LET bits == IF e.bits = Bare THEN Width(e.v6) ELSE e.bits IN
    /\ bits <= Width(e.v6) /\ a.v6 = e.v6
    /\ \A k \in Width(e.v6) - bits .. Width(e.v6) - 1 : Bit(a.value, k) = Bit(e.value, k)

Members(e) == {a \in Address : Within(a, e)}

MemberTable == [e \in Entry |-> Members(e)]

MatchIsMembership == \A e \in Entry : {a \in Address : IpMatchesAny(a, {e})} = Members(e)

OverlapIsIntersection ==
    LET M == MemberTable IN
    \A e, f \in Entry : RangesOverlap(e, f) <=> M[e] \cap M[f] # {}

\* A ban of an actor is one of all its addresses and of no other.
ActorsPartition ==
    \A a \in Address : Members(ActorOf(a)) = {b \in Address : ActorOf(b) = ActorOf(a)}

\* A ban target is the set of addresses it has, as BanEnforcement takes it (its Covers
\* and Widen): a bare address is itself, and ban() widens a target to one that has more.
TargetsAreSets ==
    /\ \A a \in Address : AsEntry(a) \in Entry /\ Members(AsEntry(a)) = {a}
    /\ \A e \in Entry : Widen(e) \in Entry /\ Members(e) \subseteq Members(Widen(e))

\* A range is refused as private exactly when it has a private address, but for
\* the IPv4 addresses in IPv6, which only classifyIp looks into.
PrivateIsRefused ==
    \A e \in Entry :
        OverlapsPrivate(e) <=>
            \E a \in Members(e) : ClassifyIp(a) = "private" /\ ~(a.v6 /\ InCidr(a, Mapped))

\* A text is read back as the value it was written for, and the page's text of a
\* /64 is read as the server's.
TextRoundTrips ==
    \A v \in 0 .. 2^Width6 - 1 :
        /\ Ipv6ToBigInt(Ipv6ToString(v)) = {v}
        /\ Ipv6ToBigInt(WebSubnet64(v)) = {And(v, Mask6(ActorBits), Width6)}

================================================================================
