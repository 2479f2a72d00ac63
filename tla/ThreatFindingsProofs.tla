-------------------------- MODULE ThreatFindingsProofs --------------------------
(***************************************************************************)
(* Proofs about ThreatFindings and the address arithmetic it stands on,    *)
(* for addresses of any width, any traffic and any configurations.         *)
(*                                                                         *)
(* The arithmetic comes down to powers of two: 2^n counts the subsets of   *)
(* n things, which is all the provers are told of it.                      *)
(***************************************************************************)
EXTENDS ThreatFindings, FiniteSetTheorems, FunctionTheorems, SequenceTheorems,
        NaturalsInduction, WellFoundedInduction, TLAPS

-------------------------------------------------------------------------------
(* Powers of two.                                                             *)

\* 2^n counts the subsets of 1 .. n.
LEMMA PowerCounts ==
    ASSUME NEW S, IsFiniteSet(S), NEW n \in Nat, Cardinality(S) = n
    PROVE  IsFiniteSet(SUBSET S) /\ Cardinality(SUBSET S) = 2^n
BY FS_SUBSET

LEMMA PowerType ==
    ASSUME NEW n \in Nat
    PROVE  2^n \in Nat \ {0}
<1> DEFINE S == 1 .. n
<1>1. IsFiniteSet(S) /\ Cardinality(S) = n BY FS_Interval
<1> HIDE DEF S
<1>2. IsFiniteSet(SUBSET S) /\ Cardinality(SUBSET S) = 2^n BY <1>1, PowerCounts
<1>3. Cardinality(SUBSET S) \in Nat BY <1>2, FS_CardinalityType
<1>4. Cardinality(SUBSET S) # 0
  <2>1. SUBSET S # {} OBVIOUS
  <2> QED BY <1>2, <2>1, FS_EmptySet
<1> QED BY <1>2, <1>3, <1>4

\* A subset of 1 .. m + n is one of 1 .. m and one of the rest.
LEMMA PowerSum ==
    ASSUME NEW m \in Nat, NEW n \in Nat
    PROVE  2^(m + n) = 2^m * 2^n
<1> DEFINE S == 1 .. m
           T == m + 1 .. m + n
           U == 1 .. m + n
<1>1. IsFiniteSet(S) /\ Cardinality(S) = m BY FS_Interval
<1>2. IsFiniteSet(T) /\ Cardinality(T) = n
  <2>1. m + 1 \in Int /\ m + n \in Int OBVIOUS
  <2>2. IsFiniteSet(T) /\ Cardinality(T) = IF m + 1 > m + n THEN 0 ELSE (m + n) - (m + 1) + 1
    BY <2>1, FS_Interval
  <2> QED BY <2>2
<1>3. IsFiniteSet(U) /\ Cardinality(U) = m + n
  <2>1. 1 \in Int /\ m + n \in Int OBVIOUS
  <2>2. IsFiniteSet(U) /\ Cardinality(U) = IF 1 > m + n THEN 0 ELSE (m + n) - 1 + 1
    BY <2>1, FS_Interval
  <2> QED BY <2>2
<1>4. S \cup T = U /\ S \cap T = {} OBVIOUS
<1> HIDE DEF S, T, U
<1> DEFINE A == SUBSET S
           B == SUBSET T
           C == SUBSET U
           f == [v \in C |-> <<v \cap S, v \cap T>>]
<1>5. IsFiniteSet(A) /\ Cardinality(A) = 2^m /\ IsFiniteSet(B) /\ Cardinality(B) = 2^n
  BY <1>1, <1>2, PowerCounts
<1>6. IsFiniteSet(C) /\ Cardinality(C) = 2^(m + n)
  <2>1. m + n \in Nat OBVIOUS
  <2> QED BY <1>3, <2>1, PowerCounts
<1>7. f \in [C -> A \X B] OBVIOUS
<1>8. \A v, w \in C : f[v] = f[w] => v = w
  <2> SUFFICES ASSUME NEW v \in C, NEW w \in C, v \cap S = w \cap S, v \cap T = w \cap T
               PROVE  v = w
    OBVIOUS
  <2>1. v = (v \cap S) \cup (v \cap T) /\ w = (w \cap S) \cup (w \cap T) BY <1>4
  <2> QED BY <2>1
<1>9. \A p \in A \X B : \E v \in C : f[v] = p
  <2> TAKE p \in A \X B
  <2> DEFINE v == p[1] \cup p[2]
  <2>1. p[1] \subseteq S /\ p[2] \subseteq T /\ p = <<p[1], p[2]>> OBVIOUS
  <2>2. v \in C BY <1>4, <2>1
  <2>3. v \cap S = p[1] /\ v \cap T = p[2] BY <1>4, <2>1
  <2>4. f[v] = <<v \cap S, v \cap T>> BY <2>2
  <2> QED BY <2>1, <2>2, <2>3, <2>4
<1> HIDE DEF A, B, C, f
<1>10. ExistsBijection(C, A \X B)
  <2> DEFINE D == A \X B
  <2>1. f \in [C -> D] /\ \A p \in D : \E v \in C : f[v] = p BY <1>7, <1>9
  <2> HIDE DEF D
  <2>2. f \in Bijection(C, D) BY <1>8, <2>1, Fun_IsBij
  <2>3. ExistsBijection(C, D) BY <2>2, Fun_ExistsBij
  <2> QED BY <2>3 DEF D
<1>11. Cardinality(A \X B) = Cardinality(C) BY <1>6, <1>10, FS_Bijection
<1>12. Cardinality(A \X B) = Cardinality(A) * Cardinality(B) BY <1>5, FS_Product
<1> QED BY <1>5, <1>6, <1>11, <1>12

\* The same, for a difference.
LEMMA PowerSplit ==
    ASSUME NEW w \in Nat, NEW h \in 0 .. w
    PROVE  /\ 2^w = 2^h * 2^(w - h) /\ 2^w \in Nat \ {0} /\ 2^h \in Nat \ {0}
           /\ 2^(w - h) \in Nat \ {0}
<1> DEFINE d == w - h
<1>1. d \in Nat /\ h \in Nat /\ w = h + d OBVIOUS
<1> HIDE DEF d
<1>2. 2^(h + d) = 2^h * 2^d BY <1>1, PowerSum
<1>3. 2^h \in Nat \ {0} /\ 2^d \in Nat \ {0} /\ 2^w \in Nat \ {0} BY <1>1, PowerType
<1> QED BY <1>1, <1>2, <1>3 DEF d

-------------------------------------------------------------------------------
(* Division.                                                                  *)

LEMMA DivideTwice ==
    ASSUME NEW x \in Nat, NEW p \in Nat \ {0}, NEW q \in Nat \ {0}
    PROVE  x \div (p * q) = (x \div p) \div q
OBVIOUS

LEMMA DivideSmall ==
    ASSUME NEW p \in Nat \ {0}, NEW x \in 0 .. p - 1
    PROVE  x \div p = 0
OBVIOUS

\* What masking leaves: the multiple of p below x.
LEMMA MultipleBelow ==
    ASSUME NEW x \in Nat, NEW p \in Nat \ {0}
    PROVE  /\ x - (x % p) = p * (x \div p) /\ x \div p \in Nat
           /\ p * (x \div p) \in 0 .. x
           /\ (p * (x \div p)) \div p = x \div p
<1>1. x = p * (x \div p) + (x % p) /\ x % p \in 0 .. p - 1 /\ x \div p \in Nat OBVIOUS
<1> DEFINE q == x \div p
<1> HIDE DEF q
<1>2. q \in Nat => (p * q) \div p = q OBVIOUS
<1>3. q \in Nat => p * q \in Nat OBVIOUS
<1> QED BY <1>1, <1>2, <1>3 DEF q

-------------------------------------------------------------------------------
(* Masks and bits.                                                            *)

\* Masking with the leading ones clears the bits below them.
LEMMA AndClears ==
    ASSUME NEW w \in Nat, NEW h \in 0 .. w, NEW x \in Nat, NEW mask, mask = 2^w - 2^h
    PROVE  And(x, mask, w) = 2^h * (x \div 2^h)
<1>1. 2^w \in Nat \ {0} /\ 2^h \in Nat \ {0} BY PowerSplit
<1> DEFINE p == 2^h
           r == 2^w
<1>2. And(x, mask, w) = x - (x % (r - mask)) BY DEF And
<1> HIDE DEF p, r
<1>3. p \in Nat \ {0} /\ r \in Nat /\ mask = r - p BY <1>1 DEF p, r
<1>4. r - mask = p BY <1>3
<1>5. And(x, mask, w) = p * (x \div p) BY <1>2, <1>3, <1>4, MultipleBelow
<1> QED BY <1>5 DEF p

\* Shifting all ones to the left and cutting them leaves the leading ones.
LEMMA ShiftedOnes ==
    ASSUME NEW w \in Nat, NEW h \in 0 .. w
    PROVE  ((2^w - 1) * 2^h) % 2^w = 2^w - 2^h
<1>1. 2^w \in Nat \ {0} /\ 2^h \in Nat \ {0} /\ 2^w = 2^h * 2^(w - h) /\ 2^(w - h) \in Nat \ {0}
  BY PowerSplit
<1> DEFINE r == 2^w
           p == 2^h
           q == 2^(w - h)
<1>2. r \in Nat \ {0} /\ p \in Nat \ {0} /\ q \in Nat \ {0} /\ r = p * q BY <1>1
<1> HIDE DEF r, p, q
<1>3. p <= r BY <1>2
<1>4. (r - 1) * p = r * (p - 1) + (r - p) BY <1>2
<1>5. r - p \in 0 .. r - 1 /\ p - 1 \in Nat BY <1>2, <1>3
<1>6. (r * (p - 1) + (r - p)) % r = r - p
  <2> DEFINE u == p - 1
             v == r - p
  <2>1. u \in Nat /\ v \in 0 .. r - 1 BY <1>5
  <2> HIDE DEF u, v
  <2>2. (r * u + v) % r = v BY <1>2, <2>1
  <2> QED BY <2>2 DEF u, v
<1> QED BY <1>4, <1>6 DEF r, p

\* parseCidr's mask of an IPv4 range.
LEMMA Mask4Means ==
    ASSUME NetworksAssumption, NEW bits \in 0 .. Width4
    PROVE  Mask4(bits) = 2^Width4 - 2^(Width4 - bits)
<1>1. Width4 \in Nat \ {0} BY DEF NetworksAssumption
<1>2. CASE bits = 0
  <2>1. 2^Width4 \in Nat /\ Width4 - bits = Width4 BY <1>1, <1>2, PowerType
  <2> QED BY <1>2, <2>1 DEF Mask4
<1>3. CASE bits # 0
  <2> DEFINE h == Width4 - bits
  <2>1. h \in 0 .. Width4 /\ h \in 0 .. Width4 - 1 BY <1>1, <1>3
  <2>2. h % Width4 = h
    <3> HIDE DEF h
    <3> QED BY <1>1, <2>1
  <2>3. Mask4(bits) = ((2^Width4 - 1) * 2^(h % Width4)) % 2^Width4 BY <1>3 DEF Mask4, ShiftLeft
  <2> HIDE DEF h
  <2>4. Mask4(bits) = ((2^Width4 - 1) * 2^h) % 2^Width4 BY <2>2, <2>3
  <2>5. Mask4(bits) = 2^Width4 - 2^h BY <1>1, <2>1, <2>4, ShiftedOnes
  <2> QED BY <2>5 DEF h
<1> QED BY <1>2, <1>3

LEMMA Width6Type == ASSUME NetworksAssumption PROVE Width6 \in Nat \ {0}
<1>1. Groups \in Nat \ {0} /\ GroupBits \in Nat \ {0} BY DEF NetworksAssumption
<1> QED BY <1>1 DEF Width6

\* ipv6Mask.
LEMMA Mask6Means ==
    ASSUME NetworksAssumption, NEW bits \in 0 .. Width6
    PROVE  Mask6(bits) = 2^Width6 - 2^(Width6 - bits)
<1>1. Width6 \in Nat \ {0} BY Width6Type
<1> DEFINE w == Width6
           h == w - bits
<1>2. CASE bits = 0
  <2>1. 2^w \in Nat /\ w - bits = w BY <1>1, <1>2, PowerType
  <2> QED BY <1>2, <2>1 DEF Mask6
<1>3. CASE bits # 0
  <2>1. Mask6(bits) = (2^bits - 1) * 2^h BY <1>1, <1>3 DEF Mask6
  <2> HIDE DEF w
  <2>2. w \in Nat /\ bits \in 0 .. w BY <1>1 DEF w
  <2>3. 2^w = 2^bits * 2^h /\ 2^bits \in Nat /\ 2^h \in Nat BY <2>2, PowerSplit
  <2> HIDE DEF h
  <2>4. (2^bits - 1) * 2^h = 2^bits * 2^h - 2^h BY <2>3
  <2> QED BY <2>1, <2>3, <2>4 DEF w, h
<1> QED BY <1>2, <1>3

\* rangeMask.
LEMMA RangeMaskMeans ==
    ASSUME NEW w \in Nat, NEW bits \in 0 .. w
    PROVE  RangeMask(bits, w) = 2^w - 2^(w - bits)
<1>1. CASE bits = 0
  <2>1. 2^w \in Nat /\ w - bits = w BY <1>1, PowerType
  <2> QED BY <1>1, <2>1 DEF RangeMask
<1>2. CASE bits # 0
  <2> DEFINE h == w - bits
  <2>1. h \in 0 .. w OBVIOUS
  <2>2. RangeMask(bits, w) = ((2^w - 1) * 2^h) % 2^w BY <1>2 DEF RangeMask
  <2> HIDE DEF h
  <2>3. RangeMask(bits, w) = 2^w - 2^h BY <2>1, <2>2, ShiftedOnes
  <2> QED BY <2>3 DEF h
<1> QED BY <1>1, <1>2

-------------------------------------------------------------------------------
(* What the bits of a number say.                                             *)

\* The bits of x from bit k up.
Above(x, k) == x \div 2^k

LEMMA LeastExists ==
    ASSUME NEW S \in SUBSET Nat, S # {}
    PROVE  \E n \in S : \A m \in S : n <= m
<1> DEFINE Less == {ss \in Nat \X Nat : ss[1] < ss[2]}
<1>1. IsWellFoundedOn(Less, Nat) BY NatLessThanWellFounded DEF OpToRel
<1>2. PICK n \in S : \A m \in S : ~ (<<m, n>> \in Less)
  <2> HIDE DEF Less
  <2> QED BY <1>1, WFMin
<1>3. \A m \in S : n <= m
  <2> TAKE m \in S
  <2>1. m \in Nat /\ n \in Nat OBVIOUS
  <2>2. <<m, n>> \notin Less BY <1>2
  <2> QED BY <2>1, <2>2
<1> QED BY <1>3

LEMMA PowerSmall == 2^0 = 1 /\ 2^1 = 2
<1>1. IsFiniteSet({}) /\ Cardinality({}) = 0 BY FS_EmptySet
<1>2. Cardinality(SUBSET {}) = 2^0 BY <1>1, PowerCounts
<1>3. IsFiniteSet({1}) /\ Cardinality({1}) = 1 BY FS_Singleton
<1>4. Cardinality(SUBSET {1}) = 2^1 BY <1>3, PowerCounts
<1>5. SUBSET {} = {{}} OBVIOUS
<1>6. SUBSET {1} = {{}} \cup {{1}} OBVIOUS
<1>7. IsFiniteSet({{}}) /\ Cardinality({{}}) = 1 BY FS_Singleton
<1>8. {1} \notin {{}} OBVIOUS
<1>9. Cardinality({{}} \cup {{1}}) = 2
  <2> DEFINE S == {{}}
             e == {1}
  <2>1. IsFiniteSet(S) /\ Cardinality(S) = 1 /\ e \notin S BY <1>7, <1>8
  <2> HIDE DEF S, e
  <2>2. Cardinality(S \cup {e}) = 2 BY <2>1, FS_AddElement
  <2> QED BY <2>2 DEF S, e
<1> QED BY <1>2, <1>4, <1>5, <1>6, <1>7, <1>9

LEMMA BitStep ==
    ASSUME NEW x \in Nat, NEW k \in Nat
    PROVE  /\ Above(x, k) = 2 * Above(x, k + 1) + Bit(x, k)
           /\ Above(x, k) \in Nat /\ Above(x, k + 1) \in Nat
           /\ Bit(x, k) \in {0, 1} /\ Bit(x, k) = Above(x, k) % 2
<1>1. 2^(k + 1) = 2^k * 2 BY PowerSum, PowerSmall
<1>2. 2^k \in Nat \ {0} BY PowerType
<1> DEFINE p == 2^k
           q == x \div p
<1>3. p \in Nat \ {0} BY <1>2
<1> HIDE DEF p
<1>4. x \div (p * 2) = q \div 2 /\ q \in Nat
  <2>1. 2 \in Nat \ {0} OBVIOUS
  <2>2. x \div (p * 2) = (x \div p) \div 2 BY <1>3, <2>1, DivideTwice
  <2>3. x \div p \in Nat BY <1>3
  <2> QED BY <2>2, <2>3
<1> HIDE DEF q
<1>5. q = 2 * (q \div 2) + (q % 2) /\ q \div 2 \in Nat /\ q % 2 \in {0, 1} BY <1>4
<1>6. Above(x, k) = q /\ Bit(x, k) = q % 2 BY DEF Above, Bit, p, q
<1>7. Above(x, k + 1) = q \div 2 BY <1>1, <1>4 DEF Above, p
<1> QED BY <1>4, <1>5, <1>6, <1>7

\* What two numbers agree in from one bit up, they agree in from any bit above it up.
LEMMA AgreeAbove ==
    ASSUME NEW x \in Nat, NEW y \in Nat, NEW h \in Nat, NEW k \in Nat, h <= k,
           Above(x, h) = Above(y, h)
    PROVE  Above(x, k) = Above(y, k)
<1> DEFINE d == k - h
<1>1. d \in Nat /\ k = h + d OBVIOUS
<1> HIDE DEF d
<1>2. 2^(h + d) = 2^h * 2^d /\ 2^h \in Nat \ {0} /\ 2^d \in Nat \ {0}
  BY <1>1, PowerSum, PowerType
<1>3. x \div (2^h * 2^d) = (x \div 2^h) \div 2^d /\ y \div (2^h * 2^d) = (y \div 2^h) \div 2^d
  BY <1>2, DivideTwice
<1>4. 2^k = 2^h * 2^d BY <1>1, <1>2
<1>5. x \div 2^k = (x \div 2^h) \div 2^d /\ y \div 2^k = (y \div 2^h) \div 2^d BY <1>3, <1>4
<1> QED BY <1>5 DEF Above

LEMMA BitsMean ==
    ASSUME NEW w \in Nat, NEW h \in 0 .. w, NEW x \in Nat, NEW y \in Nat, x < 2^w, y < 2^w
    PROVE  Above(x, h) = Above(y, h) <=> \A k \in h .. w - 1 : Bit(x, k) = Bit(y, k)
<1>1. 2^w \in Nat \ {0} BY PowerType
<1>2. x \in Nat /\ y \in Nat OBVIOUS
<1>3. ASSUME Above(x, h) = Above(y, h), NEW k \in h .. w - 1
      PROVE  Bit(x, k) = Bit(y, k)
  <2>1. h \in Nat /\ k \in Nat /\ h <= k OBVIOUS
  <2>2. Above(x, h) = Above(y, h) BY <1>3
  <2>3. Above(x, k) = Above(y, k) BY <2>1, <2>2, AgreeAbove
  <2>4. Bit(x, k) = Above(x, k) % 2 /\ Bit(y, k) = Above(y, k) % 2 BY <2>1, BitStep
  <2> QED BY <2>3, <2>4
<1>4. ASSUME \A k \in h .. w - 1 : Bit(x, k) = Bit(y, k), Above(x, h) # Above(y, h)
      PROVE  FALSE
  <2> DEFINE S == {d \in 0 .. w - h : Above(x, w - d) # Above(y, w - d)}
  <2>1. w - h \in S
    <3>1. w - (w - h) = h /\ w - h \in 0 .. w - h OBVIOUS
    <3> QED BY <1>4, <3>1
  <2>2. S \subseteq Nat OBVIOUS
  <2>3. PICK d \in S : \A e \in S : d <= e
    <3> HIDE DEF S
    <3> QED BY <2>1, <2>2, LeastExists
  <2>4. Above(x, w) = 0 /\ Above(y, w) = 0
    <3>1. x \in 0 .. 2^w - 1 /\ y \in 0 .. 2^w - 1 BY <1>1
    <3> QED BY <1>1, <3>1, DivideSmall DEF Above
  <2>5. d # 0
    <3>1. w - 0 = w OBVIOUS
    <3> QED BY <2>4, <3>1
  <2> DEFINE k == w - d
  <2>6. k \in h .. w - 1 /\ k \in Nat /\ d - 1 \in 0 .. w - h /\ w - (d - 1) = k + 1 BY <2>5
  <2>7. d - 1 \notin S
    <3>1. ~(d <= d - 1) BY <2>6
    <3> HIDE DEF S
    <3> QED BY <2>3, <3>1
  <2>8. Above(x, k + 1) = Above(y, k + 1) BY <2>6, <2>7
  <2>9. Bit(x, k) = Bit(y, k) BY <1>4, <2>6
  <2>10. Above(x, k) # Above(y, k) OBVIOUS
  <2> HIDE DEF k
  <2>11. Above(x, k) = 2 * Above(x, k + 1) + Bit(x, k) BY <2>6, BitStep
  <2>12. Above(y, k) = 2 * Above(y, k + 1) + Bit(y, k) BY <2>6, BitStep
  <2> QED BY <2>8, <2>9, <2>10, <2>11, <2>12
<1> QED BY <1>3, <1>4


-------------------------------------------------------------------------------
(* Addresses and entries.                                                     *)

\* The prefix of an entry, and the bits it leaves free.
Full(e) == IF e.bits = Bare THEN Width(e.v6) ELSE e.bits
Rest(e) == Width(e.v6) - Full(e)

\* An address is in an entry, by the bits above those the entry leaves free.
SameAbove(a, e) ==
    /\ a.v6 = e.v6
    /\ Full(e) <= Width(e.v6)
    /\ Above(a.value, Rest(e)) = Above(e.value, Rest(e))

LEMMA WidthType ==
    ASSUME NetworksAssumption, NEW v6 \in BOOLEAN
    PROVE  Width(v6) \in Nat \ {0}
<1>1. Width6 \in Nat \ {0} BY Width6Type
<1>2. Width4 \in Nat \ {0} BY DEF NetworksAssumption
<1> QED BY <1>1, <1>2 DEF Width

LEMMA AddressType ==
    ASSUME NetworksAssumption, NEW a \in Address
    PROVE  a.v6 \in BOOLEAN /\ a.value \in Nat /\ a.value < 2^Width(a.v6)
BY DEF Address

LEMMA EntryType ==
    ASSUME NetworksAssumption, NEW e \in Entry
    PROVE  /\ e.v6 \in BOOLEAN /\ e.value \in Nat /\ e.value < 2^Width(e.v6)
           /\ e.bits \in Int /\ e.bits >= -1
           /\ Full(e) \in Nat
           /\ Full(e) <= Width(e.v6) => Rest(e) \in 0 .. Width(e.v6)
<1>1. /\ e.v6 \in BOOLEAN /\ e.value \in Nat /\ e.value < 2^Width(e.v6)
      /\ e.bits \in Bare .. Width6 + 1
  BY DEF Entry
<1>2. Width(e.v6) \in Nat \ {0} BY <1>1, WidthType
<1>3. Width6 \in Nat BY Width6Type
<1>4. e.bits \in Int /\ e.bits >= -1 BY <1>1, <1>3 DEF Bare
<1>5. Full(e) \in Nat BY <1>2, <1>4 DEF Full, Bare
<1> QED BY <1>1, <1>2, <1>4, <1>5 DEF Rest

\* Two numbers masked alike agree above the bits the mask clears.
LEMMA MaskedAlike ==
    ASSUME NEW w \in Nat, NEW h \in 0 .. w, NEW x \in Nat, NEW y \in Nat,
           NEW mask, mask = 2^w - 2^h
    PROVE  And(x, mask, w) = And(y, mask, w) <=> Above(x, h) = Above(y, h)
<1>1. And(x, mask, w) = 2^h * (x \div 2^h) /\ And(y, mask, w) = 2^h * (y \div 2^h) BY AndClears
<1>2. h \in Nat /\ 2^h \in Nat \ {0} BY PowerSplit
<1>3. Above(x, h) \in Nat /\ Above(y, h) \in Nat BY <1>2, BitStep
<1> DEFINE p == 2^h
           u == Above(x, h)
           v == Above(y, h)
<1>4. And(x, mask, w) = p * u /\ And(y, mask, w) = p * v BY <1>1 DEF Above
<1>5. p \in Nat \ {0} /\ u \in Nat /\ v \in Nat BY <1>2, <1>3
<1> HIDE DEF p, u, v
<1>6. p * u = p * v <=> u = v BY <1>5
<1>7. u = v <=> Above(x, h) = Above(y, h) BY DEF u, v
<1> QED BY <1>4, <1>6, <1>7

\* Masking changes nothing above the bits it clears.
LEMMA MaskedAbove ==
    ASSUME NEW w \in Nat, NEW h \in 0 .. w, NEW x \in Nat, NEW mask, mask = 2^w - 2^h,
           NEW k \in h .. w
    PROVE  And(x, mask, w) \in 0 .. x /\ Above(And(x, mask, w), k) = Above(x, k)
<1>1. And(x, mask, w) = 2^h * (x \div 2^h) BY AndClears
<1>2. h \in Nat /\ k \in Nat /\ h <= k /\ 2^h \in Nat \ {0} BY PowerSplit
<1> DEFINE p == 2^h
           y == And(x, mask, w)
<1>3. p \in Nat \ {0} /\ y = p * (x \div p) BY <1>1, <1>2
<1>4. Above(x, h) = x \div p /\ Above(y, h) = y \div p BY DEF Above
<1> HIDE DEF p, y
<1>5. y \in 0 .. x /\ y \div p = x \div p BY <1>3, MultipleBelow
<1>6. y \in Nat /\ Above(y, h) = Above(x, h) BY <1>4, <1>5
<1>7. Above(y, k) = Above(x, k) BY <1>2, <1>6, AgreeAbove
<1> QED BY <1>5, <1>7 DEF y

LEMMA WithinMeans ==
    ASSUME NetworksAssumption, NEW a \in Address, NEW e \in Entry
    PROVE  Within(a, e) <=> SameAbove(a, e)
<1>1. a.v6 \in BOOLEAN /\ a.value \in Nat /\ a.value < 2^Width(a.v6) BY AddressType
<1>2. /\ e.v6 \in BOOLEAN /\ e.value \in Nat /\ e.value < 2^Width(e.v6)
      /\ Full(e) <= Width(e.v6) => Rest(e) \in 0 .. Width(e.v6)
  BY EntryType
<1>3. Width(e.v6) \in Nat BY <1>2, WidthType
<1>4. Within(a, e) <=>
        /\ Full(e) <= Width(e.v6) /\ a.v6 = e.v6
        /\ \A k \in Rest(e) .. Width(e.v6) - 1 : Bit(a.value, k) = Bit(e.value, k)
  BY DEF Within, Full, Rest
<1>5. ASSUME Full(e) <= Width(e.v6), a.v6 = e.v6
      PROVE  Above(a.value, Rest(e)) = Above(e.value, Rest(e)) <=>
               \A k \in Rest(e) .. Width(e.v6) - 1 : Bit(a.value, k) = Bit(e.value, k)
  <2>1. Rest(e) \in 0 .. Width(e.v6) /\ a.value < 2^Width(e.v6) BY <1>1, <1>2, <1>5
  <2> DEFINE w == Width(e.v6)
             h == Rest(e)
             x == a.value
             y == e.value
  <2>2. w \in Nat /\ h \in 0 .. w /\ x \in Nat /\ y \in Nat /\ x < 2^w /\ y < 2^w
    BY <1>1, <1>2, <1>3, <2>1
  <2> HIDE DEF w, h, x, y
  <2>3. Above(x, h) = Above(y, h) <=> \A k \in h .. w - 1 : Bit(x, k) = Bit(y, k)
    BY <2>2, BitsMean
  <2> QED BY <2>3 DEF w, h, x, y
<1> QED BY <1>4, <1>5 DEF SameAbove


\* An entry with a prefix length its family has.
Ranged(e) == e.bits # Bare /\ Full(e) <= Width(e.v6)

\* parseCidr and parseCidr6 give the mask of the prefix.
LEMMA CidrMeans ==
    ASSUME NetworksAssumption, NEW a \in Address, NEW e \in Entry
    PROVE  InCidr(a, e) <=> Ranged(e) /\ SameAbove(a, e)
<1> DEFINE w == Width(e.v6)
           mask == IF e.v6 THEN Mask6(e.bits) ELSE Mask4(e.bits)
<1>1. a.v6 \in BOOLEAN /\ a.value \in Nat BY AddressType
<1>2. /\ e.v6 \in BOOLEAN /\ e.value \in Nat /\ e.bits \in Int /\ e.bits >= -1
      /\ Full(e) <= w => Rest(e) \in 0 .. w
  BY EntryType
<1>3. w \in Nat BY <1>2, WidthType
<1>4. e.bits \in 0 .. w <=> Ranged(e) BY <1>2, <1>3 DEF Ranged, Full, Bare
<1>5. CASE ~Ranged(e)
  <2>1. Cidr(e) = {} BY <1>4, <1>5 DEF Cidr
  <2> QED BY <1>5, <2>1 DEF InCidr
<1>6. CASE a.v6 # e.v6 BY <1>6 DEF InCidr, SameAbove
<1>7. CASE Ranged(e) /\ a.v6 = e.v6
  <2>1. Rest(e) = w - e.bits /\ Rest(e) \in 0 .. w /\ e.bits \in 0 .. w /\ Full(e) <= w
    BY <1>2, <1>4, <1>7 DEF Ranged, Full, Rest
  <2>2. mask = 2^w - 2^Rest(e)
    <3>1. CASE e.v6
      <4>1. w = Width6 BY <3>1 DEF Width
      <4>2. Mask6(e.bits) = 2^Width6 - 2^(Width6 - e.bits) BY <2>1, <4>1, Mask6Means
      <4> QED BY <2>1, <3>1, <4>1, <4>2
    <3>2. CASE ~e.v6
      <4>1. w = Width4 BY <3>2 DEF Width
      <4>2. Mask4(e.bits) = 2^Width4 - 2^(Width4 - e.bits) BY <2>1, <4>1, Mask4Means
      <4> QED BY <2>1, <3>2, <4>1, <4>2
    <3> QED BY <1>2, <3>1, <3>2
  <2>3. Cidr(e) = {[base |-> And(e.value, mask, w), mask |-> mask]} BY <2>1 DEF Cidr
  <2>4. InCidr(a, e) <=> And(a.value, mask, w) = And(e.value, mask, w)
    <3> HIDE DEF mask
    <3> QED BY <1>7, <2>3 DEF InCidr
  <2> DEFINE x == a.value
             y == e.value
             h == Rest(e)
  <2>5. x \in Nat /\ y \in Nat /\ h \in 0 .. w BY <1>1, <1>2, <2>1
  <2> HIDE DEF x, y, h, w, mask
  <2>6. And(x, mask, w) = And(y, mask, w) <=> Above(x, h) = Above(y, h)
    BY <1>3, <2>2, <2>5, MaskedAlike DEF h
  <2> QED BY <1>7, <2>1, <2>4, <2>6 DEF x, y, h, w, SameAbove
<1> QED BY <1>5, <1>6, <1>7

\* All the bits of a number are its value.
LEMMA AboveAll == ASSUME NEW x \in Nat PROVE Above(x, 0) = x
BY PowerSmall DEF Above

LEMMA MatchMeans ==
    ASSUME NetworksAssumption, NEW a \in Address, NEW e \in Entry
    PROVE  IpMatchesAny(a, {e}) <=> SameAbove(a, e)
<1>1. a.value \in Nat BY AddressType
<1>2. e.value \in Nat /\ e.v6 \in BOOLEAN BY EntryType
<1>3. Width(e.v6) \in Nat BY <1>2, WidthType
<1>4. IpMatchesAny(a, {e}) <=>
        IF e.bits = Bare THEN a.v6 = e.v6 /\ a.value = e.value ELSE InCidr(a, e)
  BY DEF IpMatchesAny
<1>5. CASE e.bits = Bare
  <2>1. Full(e) = Width(e.v6) /\ Rest(e) = 0 BY <1>3, <1>5 DEF Full, Rest
  <2>2. Above(a.value, 0) = a.value /\ Above(e.value, 0) = e.value BY <1>1, <1>2, AboveAll
  <2> QED BY <1>3, <1>4, <1>5, <2>1, <2>2 DEF SameAbove
<1>6. CASE e.bits # Bare
  <2>1. InCidr(a, e) <=> Ranged(e) /\ SameAbove(a, e) BY CidrMeans
  <2> QED BY <1>4, <1>6, <2>1 DEF Ranged, SameAbove
<1> QED BY <1>5, <1>6


\* The bases of two ranges agree in a prefix exactly when the two values do.
LEMMA BasesAgree ==
    ASSUME NEW w \in Nat, NEW m \in 0 .. w, NEW n \in 0 .. w, NEW l \in 0 .. w, l <= m, l <= n,
           NEW x \in Nat, NEW y \in Nat
    PROVE  And(And(x, RangeMask(m, w), w), RangeMask(l, w), w)
             = And(And(y, RangeMask(n, w), w), RangeMask(l, w), w)
           <=> Above(x, w - l) = Above(y, w - l)
<1> DEFINE h == w - l
           i == w - m
           j == w - n
           u == And(x, RangeMask(m, w), w)
           v == And(y, RangeMask(n, w), w)
<1>1. h \in 0 .. w /\ i \in 0 .. w /\ j \in 0 .. w /\ h \in i .. w /\ h \in j .. w OBVIOUS
<1>2. /\ RangeMask(m, w) = 2^w - 2^i /\ RangeMask(n, w) = 2^w - 2^j
      /\ RangeMask(l, w) = 2^w - 2^h
  BY RangeMaskMeans
<1> HIDE DEF h, i, j
<1>3. u \in 0 .. x /\ Above(u, h) = Above(x, h) BY <1>1, <1>2, MaskedAbove
<1>4. v \in 0 .. y /\ Above(v, h) = Above(y, h) BY <1>1, <1>2, MaskedAbove
<1> HIDE DEF u, v
<1>5. u \in Nat /\ v \in Nat BY <1>3, <1>4
<1>6. And(u, RangeMask(l, w), w) = And(v, RangeMask(l, w), w) <=> Above(u, h) = Above(v, h)
  BY <1>1, <1>2, <1>5, MaskedAlike
<1> QED BY <1>3, <1>4, <1>6 DEF h, u, v

LEMMA RangeOfMeans ==
    ASSUME NetworksAssumption, NEW e \in Entry
    PROVE  RangeOf(e) = IF Full(e) <= Width(e.v6)
                        THEN {[v6 |-> e.v6, bits |-> Full(e),
                               base |-> And(e.value, RangeMask(Full(e), Width(e.v6)), Width(e.v6))]}
                        ELSE {}
<1>1. Full(e) \in Nat /\ e.v6 \in BOOLEAN BY EntryType
<1>2. Width(e.v6) \in Nat BY <1>1, WidthType
<1>3. Full(e) \in 0 .. Width(e.v6) <=> Full(e) <= Width(e.v6) BY <1>1, <1>2
<1> QED BY <1>3 DEF RangeOf, Full

\* Two entries overlap when they agree above the bits that either leaves free.
LEMMA OverlapMeans ==
    ASSUME NetworksAssumption, NEW e \in Entry, NEW f \in Entry
    PROVE  RangesOverlap(e, f) <=>
             /\ e.v6 = f.v6
             /\ Full(e) <= Width(e.v6) /\ Full(f) <= Width(f.v6)
             /\ LET h == Width(e.v6) - Smaller(Full(e), Full(f)) IN
                Above(e.value, h) = Above(f.value, h)
<1>1. Full(e) \in Nat /\ Full(f) \in Nat /\ e.v6 \in BOOLEAN /\ e.value \in Nat /\ f.value \in Nat
  BY EntryType
<1> DEFINE w == Width(e.v6)
           m == Full(e)
           n == Full(f)
           l == Smaller(m, n)
           r == [v6 |-> e.v6, bits |-> m, base |-> And(e.value, RangeMask(m, w), w)]
           s == [v6 |-> f.v6, bits |-> n, base |-> And(f.value, RangeMask(n, w), w)]
<1>2. w \in Nat BY <1>1, WidthType
<1>3. CASE ~(Full(e) <= Width(e.v6) /\ Full(f) <= Width(f.v6))
  <2>1. RangeOf(e) = {} \/ RangeOf(f) = {} BY <1>3, RangeOfMeans
  <2> QED BY <1>3, <2>1 DEF RangesOverlap
<1>4. CASE Full(e) <= Width(e.v6) /\ Full(f) <= Width(f.v6) /\ e.v6 = f.v6
  <2>1. RangeOf(e) = {r} /\ RangeOf(f) = {s} BY <1>4, RangeOfMeans
  <2>2. RangesOverlap(e, f) <=>
          And(r.base, RangeMask(l, w), w) = And(s.base, RangeMask(l, w), w)
    <3>1. r.v6 = s.v6 /\ r.bits = m /\ s.bits = n /\ r.v6 = e.v6 BY <1>4
    <3> HIDE DEF r, s, m, n
    <3> QED BY <2>1, <3>1 DEF RangesOverlap
  <2>3. m \in 0 .. w /\ n \in 0 .. w /\ l \in 0 .. w /\ l <= m /\ l <= n
    BY <1>1, <1>2, <1>4 DEF Smaller
  <2>4. And(And(e.value, RangeMask(m, w), w), RangeMask(l, w), w)
          = And(And(f.value, RangeMask(n, w), w), RangeMask(l, w), w)
        <=> Above(e.value, w - l) = Above(f.value, w - l)
    <3> DEFINE x == e.value
               y == f.value
    <3>1. x \in Nat /\ y \in Nat BY <1>1
    <3> HIDE DEF w, m, n, l, x, y
    <3>2. And(And(x, RangeMask(m, w), w), RangeMask(l, w), w)
            = And(And(y, RangeMask(n, w), w), RangeMask(l, w), w)
          <=> Above(x, w - l) = Above(y, w - l)
      BY <1>2, <2>3, <3>1, BasesAgree
    <3> QED BY <3>2 DEF x, y
  <2> QED BY <1>4, <2>2, <2>4
<1>5. CASE Full(e) <= Width(e.v6) /\ Full(f) <= Width(f.v6) /\ e.v6 # f.v6
  <2>1. \A p \in RangeOf(e) : p.v6 = e.v6 BY RangeOfMeans
  <2>2. \A p \in RangeOf(f) : p.v6 = f.v6 BY RangeOfMeans
  <2> QED BY <1>5, <2>1, <2>2 DEF RangesOverlap
<1> QED BY <1>3, <1>4, <1>5

\* The address at which an entry is written lies in it.
LEMMA OwnAddress ==
    ASSUME NetworksAssumption, NEW e \in Entry, Full(e) <= Width(e.v6)
    PROVE  [v6 |-> e.v6, value |-> e.value] \in Members(e)
<1> DEFINE a == [v6 |-> e.v6, value |-> e.value]
<1>1. a \in Address BY DEF Address, Entry
<1>2. SameAbove(a, e) BY DEF SameAbove
<1> QED BY <1>1, <1>2, WithinMeans DEF Members

LEMMA OverlapShares ==
    ASSUME NetworksAssumption, NEW e \in Entry, NEW f \in Entry
    PROVE  RangesOverlap(e, f) <=> Members(e) \cap Members(f) # {}
<1>1. /\ e.v6 \in BOOLEAN /\ e.value \in Nat /\ Full(e) \in Nat
      /\ f.v6 \in BOOLEAN /\ f.value \in Nat /\ Full(f) \in Nat
  BY EntryType
<1>2. Width(e.v6) \in Nat BY <1>1, WidthType
<1> DEFINE h == Width(e.v6) - Smaller(Full(e), Full(f))
<1>3. ASSUME NEW a \in Members(e), a \in Members(f)
      PROVE  RangesOverlap(e, f)
  <2>1. a \in Address /\ SameAbove(a, e) /\ SameAbove(a, f) BY <1>3, WithinMeans DEF Members
  <2>2. a.value \in Nat BY <2>1, AddressType
  <2>3. e.v6 = f.v6 /\ Full(e) <= Width(e.v6) /\ Full(f) <= Width(e.v6)
    BY <2>1 DEF SameAbove
  <2>4. /\ h \in Nat /\ Rest(e) \in Nat /\ Rest(f) \in Nat /\ Rest(e) <= h /\ Rest(f) <= h
    BY <1>1, <1>2, <2>3 DEF Smaller, Rest
  <2>5. Above(a.value, h) = Above(e.value, h)
    BY <1>1, <2>1, <2>2, <2>4, AgreeAbove DEF SameAbove
  <2>6. Above(a.value, h) = Above(f.value, h)
    BY <1>1, <2>1, <2>2, <2>4, AgreeAbove DEF SameAbove
  <2> QED BY <2>3, <2>5, <2>6, OverlapMeans
<1>4. ASSUME RangesOverlap(e, f)
      PROVE  Members(e) \cap Members(f) # {}
  <2>1. /\ e.v6 = f.v6 /\ Full(e) <= Width(e.v6) /\ Full(f) <= Width(f.v6)
        /\ Above(e.value, h) = Above(f.value, h)
    BY <1>4, OverlapMeans
  <2> DEFINE a == [v6 |-> e.v6, value |-> e.value]
             b == [v6 |-> f.v6, value |-> f.value]
  <2>2. a \in Members(e) /\ b \in Members(f) BY <2>1, OwnAddress
  <2>3. a \in Address /\ b \in Address BY <2>2 DEF Members
  <2>4. CASE Full(e) <= Full(f)
    <3>1. h = Rest(e) BY <1>1, <2>4 DEF Smaller, Rest
    <3>2. SameAbove(b, e) BY <2>1, <3>1 DEF SameAbove
    <3>3. b \in Members(e) BY <2>3, <3>2, WithinMeans DEF Members
    <3> QED BY <2>2, <3>3
  <2>5. CASE ~(Full(e) <= Full(f))
    <3>1. h = Rest(f) BY <1>1, <2>1, <2>5 DEF Smaller, Rest
    <3>2. SameAbove(a, f) BY <2>1, <3>1 DEF SameAbove
    <3>3. a \in Members(f) BY <2>3, <3>2, WithinMeans DEF Members
    <3> QED BY <2>2, <3>3
  <2> QED BY <2>4, <2>5
<1> QED BY <1>3, <1>4

\* What the matching of an address against an exception or a ban does with masks
\* is membership: ipMatchesAny, for any width and any prefix, is the agreement of
\* the bits the prefix covers.
THEOREM MatchingIsMembership == MatchIsMembership
<1> SUFFICES ASSUME NEW e \in Entry
             PROVE  {a \in Address : IpMatchesAny(a, {e})} = Members(e)
  BY DEF MatchIsMembership
<1>1. \A a \in Address : IpMatchesAny(a, {e}) <=> Within(a, e)
  BY NetworksAssumption, MatchMeans, WithinMeans
<1> QED BY <1>1 DEF Members

\* rangesOverlap holds exactly of entries with an address in common.
THEOREM OverlapIsSharing == OverlapIsIntersection
<1> DEFINE M == MemberTable
<1>1. \A e \in Entry : M[e] = Members(e) BY DEF MemberTable
<1>2. \A e, f \in Entry : RangesOverlap(e, f) <=> Members(e) \cap Members(f) # {}
  BY NetworksAssumption, OverlapShares
<1> HIDE DEF M
<1>3. \A e, f \in Entry : RangesOverlap(e, f) <=> M[e] \cap M[f] # {} BY <1>1, <1>2
<1> QED BY <1>3 DEF M, OverlapIsIntersection


-------------------------------------------------------------------------------
(* Actors.                                                                    *)

\* What ipv6Subnet keeps of the address of an actor.
LEMMA SubnetMeans ==
    ASSUME NetworksAssumption, NEW x \in Nat
    PROVE  LET h == Width6 - ActorBits
               y == And(x, Mask6(ActorBits), Width6)
           IN  /\ h \in 0 .. Width6 /\ y \in 0 .. x /\ Above(y, h) = Above(x, h)
               /\ Mask6(ActorBits) = 2^Width6 - 2^h
<1>1. Width6 \in Nat /\ ActorBits \in 0 .. Width6 BY Width6Type DEF NetworksAssumption
<1>2. Mask6(ActorBits) = 2^Width6 - 2^(Width6 - ActorBits) BY <1>1, Mask6Means
<1> DEFINE w == Width6
           h == w - ActorBits
<1>3. w \in Nat /\ h \in 0 .. w /\ h \in h .. w BY <1>1
<1> HIDE DEF w, h
<1>4. \A mask : mask = 2^w - 2^h => And(x, mask, w) \in 0 .. x /\ Above(And(x, mask, w), h) = Above(x, h)
  BY <1>3, MaskedAbove
<1> QED BY <1>2, <1>3, <1>4 DEF w, h

LEMMA WidenType ==
    ASSUME NetworksAssumption, NEW e \in Entry
    PROVE  Widen(e) \in Entry /\ Widen(e).v6 = e.v6
<1>1. CASE e.v6 /\ e.bits = Bare
  <2> DEFINE y == And(e.value, Mask6(ActorBits), Width6)
             f == [v6 |-> TRUE, value |-> y, bits |-> ActorBits]
  <2>1. e.value \in Nat /\ e.value < 2^Width6 /\ 2^Width6 \in Nat
    BY <1>1, EntryType, Width6Type, PowerType DEF Width
  <2>2. y \in 0 .. e.value BY <2>1, SubnetMeans
  <2>3. ActorBits \in Bare .. Width6 + 1 /\ ActorBits <= Width6 + 1
    BY Width6Type DEF NetworksAssumption, Bare
  <2>4. Widen(e) = f BY <1>1 DEF Widen
  <2> HIDE DEF y
  <2>5. y \in 0 .. 2^Width6 - 1 /\ y < 2^Width6 BY <2>1, <2>2
  <2>6. f \in Entry BY <2>3, <2>5 DEF Entry, Width
  <2> QED BY <1>1, <2>4, <2>6
<1>2. CASE ~(e.v6 /\ e.bits = Bare) BY <1>2 DEF Widen
<1> QED BY <1>1, <1>2

LEMMA AsEntryType ==
    ASSUME NetworksAssumption, NEW a \in Address
    PROVE  AsEntry(a) \in Entry
<1>1. a.v6 \in BOOLEAN /\ a.value \in 0 .. 2^Width6 - 1 /\ a.value < 2^Width(a.v6) BY DEF Address
<1>2. Bare \in Bare .. Width6 + 1 /\ Bare <= Width(a.v6) + 1
  BY <1>1, Width6Type, WidthType DEF Bare
<1> QED BY <1>1, <1>2 DEF AsEntry, Entry

\* An actor is an entry around the address it is made of.
LEMMA ActorMeans ==
    ASSUME NetworksAssumption, NEW a \in Address
    PROVE  /\ ActorOf(a) \in Entry /\ ActorOf(a).v6 = a.v6
           /\ Full(ActorOf(a)) <= Width(a.v6)
           /\ SameAbove(a, ActorOf(a))
           /\ \A b \in Address : ActorOf(b) = ActorOf(a) <=> SameAbove(b, ActorOf(a))
<1>1. /\ a.v6 \in BOOLEAN /\ a.value \in Nat
      /\ AsEntry(a) \in Entry /\ AsEntry(a).v6 = a.v6 /\ AsEntry(a).bits = Bare
      /\ AsEntry(a).value = a.value
  BY AddressType, AsEntryType DEF AsEntry
<1>2. ActorOf(a) \in Entry /\ ActorOf(a).v6 = a.v6 BY <1>1, WidenType DEF ActorOf
<1>3. \A b \in Address : b.v6 # a.v6 => ActorOf(b) # ActorOf(a) /\ ~SameAbove(b, ActorOf(a))
  <2> TAKE b \in Address
  <2>1. AsEntry(b) \in Entry /\ AsEntry(b).v6 = b.v6 BY AsEntryType DEF AsEntry
  <2>2. ActorOf(b).v6 = b.v6 BY <2>1, WidenType DEF ActorOf
  <2> QED BY <1>2, <2>2 DEF SameAbove
<1>4. CASE a.v6
  <2> DEFINE h == Width6 - ActorBits
             net(x) == And(x, Mask6(ActorBits), Width6)
             of(b) == [v6 |-> TRUE, value |-> net(b.value), bits |-> ActorBits]
  <2>1. \A b \in Address : b.v6 => ActorOf(b) = of(b) BY DEF ActorOf, Widen, AsEntry
  <2>2. ActorBits \in 1 .. Width6 /\ Width6 \in Nat BY Width6Type DEF NetworksAssumption
  <2>3. Full(of(a)) = ActorBits /\ Rest(of(a)) = h /\ Width(TRUE) = Width6
    BY <2>2 DEF Full, Rest, Bare, Width
  <2>4. /\ h \in 0 .. Width6 /\ Mask6(ActorBits) = 2^Width6 - 2^h
        /\ \A x \in Nat : net(x) \in Nat /\ Above(net(x), h) = Above(x, h)
    BY SubnetMeans
  <2>5. \A x, y \in Nat : net(x) = net(y) <=> Above(x, h) = Above(y, h)
    <3> HIDE DEF h
    <3> QED BY <2>2, <2>4, MaskedAlike
  <2>6. \A b \in Address : b.v6 => b.value \in Nat BY AddressType
  <2>7. \A b \in Address : b.v6 => (of(b) = of(a) <=> net(b.value) = net(a.value))
    <3> HIDE DEF net
    <3> QED OBVIOUS
  <2> HIDE DEF h, net
  <2>8. \A b \in Address : b.v6 => (SameAbove(b, of(a)) <=> Above(b.value, h) = Above(a.value, h))
    <3>1. of(a).v6 = TRUE /\ of(a).value = net(a.value) OBVIOUS
    <3>2. \A b \in Address : b.v6 => b.v6 = TRUE BY AddressType
    <3> HIDE DEF of
    <3>3. Full(of(a)) <= Width(of(a).v6)
      <4>1. Width(of(a).v6) = Width6 BY <2>3, <3>1
      <4> QED BY <2>2, <2>3, <4>1
    <3>4. Above(of(a).value, Rest(of(a))) = Above(a.value, h) BY <1>1, <2>3, <2>4, <3>1
    <3> QED BY <2>3, <3>1, <3>2, <3>3, <3>4 DEF SameAbove
  <2>9. \A b \in Address : b.v6 => (of(b) = of(a) <=> SameAbove(b, of(a)))
    BY <1>1, <2>5, <2>6, <2>7, <2>8
  <2>10. ActorOf(a) = of(a) BY <1>4, <2>1
  <2>11. SameAbove(a, of(a)) BY <1>4, <2>8
  <2>12. \A b \in Address : b.v6 => (ActorOf(b) = ActorOf(a) <=> SameAbove(b, ActorOf(a)))
    BY <2>1, <2>9, <2>10
  <2> HIDE DEF of
  <2>13. Full(ActorOf(a)) <= Width(a.v6) BY <1>4, <2>2, <2>3, <2>10 DEF Width
  <2> QED BY <1>2, <1>3, <1>4, <2>10, <2>11, <2>12, <2>13
<1>5. CASE ~a.v6
  <2>1. \A b \in Address : ~b.v6 => ActorOf(b) = AsEntry(b) BY DEF ActorOf, Widen, AsEntry
  <2>2. Width(a.v6) \in Nat BY <1>1, WidthType
  <2>3. Full(AsEntry(a)) = Width(a.v6) /\ Rest(AsEntry(a)) = 0 BY <1>1, <2>2 DEF Full, Rest
  <2>4. \A b \in Address : ~b.v6 => (SameAbove(b, AsEntry(a)) <=> b.value = a.value)
    <3> SUFFICES ASSUME NEW b \in Address, ~b.v6
                 PROVE  SameAbove(b, AsEntry(a)) <=> b.value = a.value
      OBVIOUS
    <3>1. b.value \in Nat /\ b.v6 = a.v6 BY <1>1, <1>5, AddressType
    <3>2. Above(b.value, 0) = b.value /\ Above(a.value, 0) = a.value BY <1>1, <3>1, AboveAll
    <3> QED BY <1>1, <2>2, <2>3, <3>1, <3>2 DEF SameAbove
  <2>5. \A b \in Address : ~b.v6 => (AsEntry(b) = AsEntry(a) <=> b.value = a.value)
    <3> SUFFICES ASSUME NEW b \in Address, ~b.v6
                 PROVE  AsEntry(b) = AsEntry(a) <=> b.value = a.value
      OBVIOUS
    <3>1. b.v6 = a.v6 BY <1>1, <1>5, AddressType
    <3> QED BY <3>1 DEF AsEntry
  <2>6. ActorOf(a) = AsEntry(a) BY <1>5, <2>1
  <2> QED BY <1>1, <1>2, <1>3, <1>5, <2>1, <2>2, <2>3, <2>4, <2>5, <2>6
<1> QED BY <1>1, <1>4, <1>5

LEMMA ActorMembers ==
    ASSUME NetworksAssumption, NEW a \in Address
    PROVE  /\ a \in Members(ActorOf(a))
           /\ \A b \in Address : Within(b, ActorOf(a)) <=> ActorOf(b) = ActorOf(a)
BY ActorMeans, WithinMeans DEF Members

\* The actors split the addresses: what a ban of a client reaches is every address
\* of its actor, and none of another.
THEOREM ActorsSplitAddresses == ActorsPartition
<1> SUFFICES ASSUME NEW a \in Address
             PROVE  Members(ActorOf(a)) = {b \in Address : ActorOf(b) = ActorOf(a)}
  BY DEF ActorsPartition
<1> QED BY NetworksAssumption, ActorMembers DEF Members


LEMMA BareMembers ==
    ASSUME NetworksAssumption, NEW a \in Address
    PROVE  AsEntry(a) \in Entry /\ Members(AsEntry(a)) = {a}
<1> DEFINE e == AsEntry(a)
<1>1. e \in Entry /\ e.v6 = a.v6 /\ e.value = a.value /\ e.bits = Bare
  BY AsEntryType DEF AsEntry
<1>2. Width(e.v6) \in Nat BY <1>1, EntryType, WidthType
<1>3. Full(e) = Width(e.v6) /\ Rest(e) = 0 BY <1>1, <1>2 DEF Full, Rest
<1> HIDE DEF e
<1>4. a \in Members(e) BY <1>1, <1>2, <1>3, WithinMeans DEF Members, SameAbove
<1>5. ASSUME NEW b \in Members(e) PROVE b = a
  <2>1. b \in Address /\ SameAbove(b, e) BY <1>1, WithinMeans DEF Members
  <2>2. b.value \in Nat /\ a.value \in Nat BY <2>1, AddressType
  <2>3. b.v6 = a.v6 /\ b.value = a.value BY <1>1, <1>3, <2>1, <2>2, AboveAll DEF SameAbove
  <2> QED BY <2>1, <2>3 DEF Address
<1> QED BY <1>1, <1>4, <1>5 DEF e

\* What BanEnforcement assumes of targets holds of addresses and ranges: a bare address
\* denies itself and no other, and the target that ban() stores denies whoever the one
\* it was given does.
THEOREM TargetsHaveMembers == TargetsAreSets
<1>1. ASSUME NEW e \in Entry
      PROVE  Widen(e) \in Entry /\ Members(e) \subseteq Members(Widen(e))
  <2>1. Widen(e) \in Entry BY NetworksAssumption, WidenType
  <2>2. CASE e.v6 /\ e.bits = Bare
    <3> DEFINE a == [v6 |-> e.v6, value |-> e.value]
    <3>1. a \in Address /\ e = AsEntry(a) BY <2>2 DEF Address, Entry, AsEntry
    <3> HIDE DEF a
    <3>2. Members(e) = {a} BY NetworksAssumption, <3>1, BareMembers
    <3>3. a \in Members(Widen(e)) BY NetworksAssumption, <3>1, ActorMembers DEF ActorOf
    <3> QED BY <2>1, <3>2, <3>3
  <2>3. CASE ~(e.v6 /\ e.bits = Bare)
    BY <2>1, <2>3 DEF Widen
  <2> QED BY <2>2, <2>3
<1> QED BY <1>1, NetworksAssumption, BareMembers DEF TargetsAreSets

-------------------------------------------------------------------------------
(* Private addresses.                                                         *)

LEMMA CidrMembers ==
    ASSUME NetworksAssumption, NEW a \in Address, NEW e \in Entry, e.bits # Bare
    PROVE  InCidr(a, e) <=> a \in Members(e)
<1>1. InCidr(a, e) <=> Ranged(e) /\ SameAbove(a, e) BY CidrMeans
<1>2. SameAbove(a, e) => Ranged(e) BY DEF SameAbove, Ranged
<1> QED BY <1>1, <1>2, WithinMeans DEF Members

LEMMA MappedMembers ==
    ASSUME NetworksAssumption, NEW a \in Address
    PROVE  InCidr(a, Mapped) <=> a \in Members(Mapped)
<1>1. Mapped \in Entry /\ Mapped.bits # Bare BY Width6Type DEF NetworksAssumption, Bare
<1> QED BY <1>1, CidrMembers

\* What classifyIp calls private, of an address that is no IPv4 address in IPv6.
LEMMA PrivateMeans ==
    ASSUME NetworksAssumption, PrivateAssumption, NEW a \in Address, ~(a.v6 /\ InCidr(a, Mapped))
    PROVE  ClassifyIp(a) = "private" <=> \E p \in PrivateRange : a \in Members(p)
<1>1. \A p \in PrivateRange : InCidr(a, p) <=> a \in Members(p)
  BY CidrMembers DEF NetworksAssumption, PrivateAssumption
<1>2. ClassifyIp(a) = "private" <=> \E p \in PrivateRange : InCidr(a, p) BY DEF ClassifyIp
<1> QED BY <1>1, <1>2

LEMMA PrivateOverlaps ==
    ASSUME NetworksAssumption, PrivateAssumption, NEW e \in Entry
    PROVE  OverlapsPrivate(e) <=>
             \E a \in Members(e) : ClassifyIp(a) = "private" /\ ~(a.v6 /\ InCidr(a, Mapped))
<1>1. PrivateRange \subseteq Entry /\ Mapped \in Entry BY DEF NetworksAssumption
<1>2. \A p \in PrivateRange : RangesOverlap(e, p) <=> Members(e) \cap Members(p) # {}
  BY <1>1, OverlapShares
<1>3. \A p \in PrivateRange : Members(p) \cap Members(Mapped) = {}
  BY <1>1, OverlapShares DEF PrivateAssumption
<1>4. \A a \in Members(e) : a \in Address BY DEF Members
<1>5. \A p \in PrivateRange : \A a \in Members(p) : a \in Address /\ ~InCidr(a, Mapped)
  BY <1>3, MappedMembers DEF Members
<1>6. ASSUME OverlapsPrivate(e)
      PROVE  \E a \in Members(e) : ClassifyIp(a) = "private" /\ ~(a.v6 /\ InCidr(a, Mapped))
  <2>1. PICK p \in PrivateRange : RangesOverlap(e, p) BY <1>6 DEF OverlapsPrivate
  <2>2. PICK a : a \in Members(e) /\ a \in Members(p) BY <1>2, <2>1
  <2>3. a \in Address /\ ~InCidr(a, Mapped) BY <1>5, <2>2
  <2>4. ClassifyIp(a) = "private" BY <2>2, <2>3, PrivateMeans
  <2> QED BY <2>2, <2>3, <2>4
<1>7. ASSUME NEW a \in Members(e), ClassifyIp(a) = "private", ~(a.v6 /\ InCidr(a, Mapped))
      PROVE  OverlapsPrivate(e)
  <2>1. a \in Address BY <1>4
  <2>2. PICK p \in PrivateRange : a \in Members(p) BY <1>7, <2>1, PrivateMeans
  <2> QED BY <1>2, <2>2 DEF OverlapsPrivate
<1> QED BY <1>6, <1>7

\* A ban is refused as private exactly when its target has an address that
\* classifyIp calls private for its own sake.
THEOREM RefusedWhenPrivate == PrivateIsRefused
BY NetworksAssumption, PrivateAssumption, PrivateOverlaps DEF PrivateIsRefused

\* An actor none of whose addresses may be refused has no private address at all, the
\* IPv4 addresses in IPv6 among them.
LEMMA PrivateActor ==
    ASSUME NetworksAssumption, PrivateAssumption, NEW a \in Address,
           ~OverlapsPrivate(ActorOf(a)), NEW c \in Members(ActorOf(a))
    PROVE  ClassifyIp(c) # "private"
<1>1. c \in Address /\ ActorOf(a) \in Entry /\ ActorOf(c) = ActorOf(a)
  BY ActorMeans, ActorMembers DEF Members
<1>2. CASE c.v6 /\ InCidr(c, Mapped) BY <1>1, <1>2 DEF PrivateAssumption
<1>3. CASE ~(c.v6 /\ InCidr(c, Mapped)) BY <1>1, <1>3, PrivateOverlaps
<1> QED BY <1>2, <1>3

-------------------------------------------------------------------------------
(* The text of an address.                                                    *)

\* The bits below group i, and what is above them: that and the group before make up
\* the number from the left.
Below(i) == GroupBits * (Groups - i)

LEMMA BelowType ==
    ASSUME NetworksAssumption, NEW i \in 0 .. Groups
    PROVE  /\ Below(i) \in 0 .. Width6
           /\ Below(0) = Width6 /\ Below(Groups) = 0
           /\ i # 0 => Below(i - 1) = Below(i) + GroupBits
<1> DEFINE n == Groups
           g == GroupBits
<1>1. n \in Nat \ {0} /\ g \in Nat \ {0} BY DEF NetworksAssumption
<1>2. i \in 0 .. n OBVIOUS
<1> HIDE DEF n, g
<1>3. g * (n - i) \in 0 .. n * g
  <2>1. n - i \in Nat /\ i \in Nat BY <1>1, <1>2
  <2>2. n * g = g * (n - i) + g * i BY <1>1, <1>2
  <2>3. g * (n - i) \in Nat /\ g * i \in Nat BY <1>1, <2>1
  <2> QED BY <2>2, <2>3
<1>4. g * (n - 0) = n * g /\ g * (n - n) = 0 BY <1>1
<1>5. i # 0 => g * (n - (i - 1)) = g * (n - i) + g BY <1>1, <1>2
<1> QED BY <1>3, <1>4, <1>5 DEF Below, Width6, n, g

LEMMA GroupStep ==
    ASSUME NetworksAssumption, NEW v \in Nat, NEW i \in 1 .. Groups
    PROVE  /\ Above(v, Below(i)) = Above(v, Below(i - 1)) * 2^GroupBits + GroupAt(v, i)
           /\ GroupAt(v, i) = Above(v, Below(i)) % 2^GroupBits
           /\ GroupAt(v, i) \in Nat
<1>1. Groups \in Nat /\ GroupBits \in Nat BY DEF NetworksAssumption
<1>2. Below(i) \in Nat /\ Below(i - 1) = Below(i) + GroupBits
  <2>1. i \in 0 .. Groups /\ i # 0 BY <1>1
  <2>2. Width6 \in Nat BY Width6Type
  <2> QED BY <2>1, <2>2, BelowType
<1> DEFINE k == Below(i)
           p == 2^k
           q == 2^GroupBits
           y == v \div p
<1>3. p \in Nat \ {0} /\ q \in Nat \ {0} /\ 2^(k + GroupBits) = p * q BY <1>1, <1>2, PowerType, PowerSum
<1>4. GroupAt(v, i) = y % q BY DEF GroupAt, Below
<1>5. Above(v, Below(i)) = y /\ Above(v, Below(i - 1)) = v \div (p * q) BY <1>2, <1>3 DEF Above
<1> HIDE DEF p, q, k
<1>6. v \div (p * q) = y \div q /\ y \in Nat
  <2>1. v \div (p * q) = (v \div p) \div q BY <1>3, DivideTwice
  <2>2. v \div p \in Nat BY <1>3
  <2> QED BY <2>1, <2>2
<1> HIDE DEF y
<1>7. y = (y \div q) * q + (y % q) /\ y % q \in Nat BY <1>3, <1>6
<1> QED BY <1>4, <1>5, <1>6, <1>7 DEF q

\* Read from its groups, a number comes back.  The numbers above the groups solve the
\* equation of the loop, and it has no other solution.
LEMMA ValueReads ==
    ASSUME NetworksAssumption, NEW v \in 0 .. 2^Width6 - 1, NEW gs,
           \A i \in 1 .. Groups : gs[i] = GroupAt(v, i)
    PROVE  ValueOf(gs) = v
<1>0. Groups \in Nat \ {0} /\ GroupBits \in Nat \ {0} /\ Width6 \in Nat /\ 2^Width6 \in Nat \ {0}
  BY Width6Type, PowerType DEF NetworksAssumption
<1>1. v \in Nat BY <1>0
<1> DEFINE Solves(f) == f = [i \in 0 .. Groups |-> IF i = 0 THEN 0 ELSE f[i - 1] * 2^GroupBits + gs[i]]
           f == [i \in 0 .. Groups |-> Above(v, Below(i))]
<1>2. Above(v, Below(0)) = 0 /\ Above(v, Below(Groups)) = v
  <2>1. Below(0) = Width6 /\ Below(Groups) = 0 BY <1>0, BelowType
  <2>2. v \div 2^Width6 = 0 BY <1>0, DivideSmall
  <2>3. v \div 2^0 = v BY <1>1, PowerSmall
  <2> QED BY <2>1, <2>2, <2>3 DEF Above
<1>3. Solves(f)
  <2>1. ASSUME NEW i \in 0 .. Groups
        PROVE  f[i] = IF i = 0 THEN 0 ELSE f[i - 1] * 2^GroupBits + gs[i]
    <3>1. CASE i = 0 BY <1>2, <3>1
    <3>2. CASE i # 0
      <4>1. i \in 1 .. Groups /\ i - 1 \in 0 .. Groups BY <1>0, <3>2
      <4>2. Above(v, Below(i)) = Above(v, Below(i - 1)) * 2^GroupBits + gs[i]
        BY <1>1, <4>1, GroupStep
      <4> QED BY <3>2, <4>1, <4>2
    <3> QED BY <3>1, <3>2
  <2>2. f = [i \in 0 .. Groups |-> f[i]] OBVIOUS
  <2> HIDE DEF f
  <2> QED BY <2>1, <2>2
<1> DEFINE value == CHOOSE w : Solves(w)
<1>4. ValueOf(gs) = value[Groups] BY DEF ValueOf
<1>5. Solves(value)
  <2> HIDE DEF Solves, f
  <2> QED BY <1>3
<1>6. \A i \in 0 .. Groups : value[i] = IF i = 0 THEN 0 ELSE value[i - 1] * 2^GroupBits + gs[i]
  <2> HIDE DEF value
  <2> QED BY <1>5
<1> HIDE DEF value, Solves, f
<1>7. ASSUME NEW i \in 0 .. Groups, value[i] # Above(v, Below(i))
      PROVE  FALSE
  <2> DEFINE S == {j \in 0 .. Groups : value[j] # Above(v, Below(j))}
  <2>1. PICK n \in S : \A m \in S : n <= m
    <3>1. S \in SUBSET Nat /\ S # {} BY <1>7
    <3> HIDE DEF S
    <3> QED BY <3>1, LeastExists
  <2>2. n # 0 BY <1>0, <1>2, <1>6
  <2>3. n \in 1 .. Groups /\ n - 1 \in 0 .. Groups /\ ~(n <= n - 1) BY <1>0, <2>2
  <2>4. value[n - 1] = Above(v, Below(n - 1)) BY <2>1, <2>3
  <2>5. value[n] = Above(v, Below(n - 1)) * 2^GroupBits + gs[n] BY <1>6, <2>2, <2>3, <2>4
  <2>6. Above(v, Below(n)) = Above(v, Below(n - 1)) * 2^GroupBits + gs[n] BY <1>1, <2>3, GroupStep
  <2> QED BY <2>5, <2>6
<1>8. value[Groups] = v BY <1>0, <1>2, <1>7
<1> QED BY <1>4, <1>8

\* A text whose groups, written out, are those of a number is read as that number.
LEMMA TextReads ==
    ASSUME NetworksAssumption, NEW v \in 0 .. 2^Width6 - 1,
           NEW head \in Seq(Nat), NEW tail \in Seq(Nat), NEW fill \in Nat,
           fill = Groups - Len(head) - Len(tail), fill >= 1,
           \A i \in 1 .. Groups :
             GroupAt(v, i) = IF i <= Len(head) THEN head[i]
                             ELSE IF i <= Len(head) + fill THEN 0 ELSE tail[i - Len(head) - fill]
    PROVE  Ipv6ToBigInt([head |-> head, cut |-> TRUE, tail |-> tail]) = {v}
<1> DEFINE zeros == [i \in 1 .. fill |-> 0]
           t == [head |-> head, cut |-> TRUE, tail |-> tail]
<1>1. zeros \in Seq(Nat) /\ Len(zeros) = fill /\ \A i \in 1 .. fill : zeros[i] = 0
  <2>1. zeros \in [1 .. fill -> Nat] OBVIOUS
  <2>2. zeros \in Seq(Nat) BY <2>1, SeqDef
  <2>3. DOMAIN zeros = 1 .. Len(zeros) /\ Len(zeros) \in Nat BY <2>2, LenProperties
  <2> QED BY <2>2, <2>3
<1>2. Len(head) \in Nat /\ Len(tail) \in Nat /\ Groups \in Nat
  BY LenProperties DEF NetworksAssumption
<1> HIDE DEF zeros
<1> DEFINE front == head \o zeros
<1>3. /\ front \in Seq(Nat) /\ Len(front) = Len(head) + fill
      /\ \A i \in 1 .. Len(head) + fill :
           front[i] = IF i <= Len(head) THEN head[i] ELSE zeros[i - Len(head)]
  <2>0. zeros \in Seq(Nat) BY <1>1
  <2>1. /\ front \in Seq(Nat) /\ Len(front) = Len(head) + Len(zeros)
        /\ \A i \in 1 .. Len(head) + Len(zeros) :
             front[i] = IF i <= Len(head) THEN head[i] ELSE zeros[i - Len(head)]
    BY <2>0, ConcatProperties
  <2> HIDE DEF front
  <2> QED BY <1>1, <2>1
<1> HIDE DEF front
<1> DEFINE gs == front \o tail
<1>4. \A i \in 1 .. Len(front) + Len(tail) :
        gs[i] = IF i <= Len(front) THEN front[i] ELSE tail[i - Len(front)]
  BY <1>3, ConcatProperties
<1> HIDE DEF gs
<1>5. ASSUME NEW i \in 1 .. Groups PROVE gs[i] = GroupAt(v, i)
  <2>1. i \in 1 .. Len(front) + Len(tail) BY <1>2, <1>3
  <2>2. CASE i <= Len(head)
    <3>1. gs[i] = front[i] BY <1>2, <1>3, <1>4, <2>1, <2>2
    <3>2. front[i] = head[i]
      <4>1. i \in 1 .. Len(head) + fill BY <1>2, <2>2
      <4> QED BY <1>3, <2>2, <4>1
    <3> QED BY <2>2, <3>1, <3>2
  <2>3. CASE ~(i <= Len(head)) /\ i <= Len(head) + fill
    <3>0. i \in 1 .. Len(head) + fill /\ i <= Len(front) BY <1>2, <1>3, <2>3
    <3>1. gs[i] = zeros[i - Len(head)] BY <1>3, <1>4, <2>1, <2>3, <3>0
    <3>2. i - Len(head) \in 1 .. fill BY <1>2, <2>3
    <3> QED BY <1>1, <2>3, <3>1, <3>2
  <2>4. CASE ~(i <= Len(head) + fill)
    <3>1. gs[i] = tail[i - Len(front)] BY <1>2, <1>3, <1>4, <2>1, <2>4
    <3>2. i - Len(front) = i - Len(head) - fill BY <1>2, <1>3
    <3>3. ~(i <= Len(head)) BY <1>2, <2>4
    <3> QED BY <2>4, <3>1, <3>2, <3>3
  <2> QED BY <1>2, <2>2, <2>3, <2>4
<1>6. ValueOf(gs) = v BY <1>5, ValueReads
<1>7. Ipv6ToBigInt(t) = {ValueOf(gs)}
  <2>1. t.head = head /\ t.cut = TRUE /\ t.tail = tail OBVIOUS
  <2> HIDE DEF t
  <2> QED BY <2>1 DEF Ipv6ToBigInt, gs, front, zeros
<1> QED BY <1>6, <1>7

LEMMA SameInterval ==
    ASSUME NEW m \in Nat, NEW n \in Nat, 1 .. m = 1 .. n
    PROVE  m = n
<1>1. m > n => m \in 1 .. m /\ m \notin 1 .. n OBVIOUS
<1>2. n > m => n \in 1 .. n /\ n \notin 1 .. m OBVIOUS
<1> QED BY <1>1, <1>2

LEMMA PlainReads ==
    ASSUME NetworksAssumption, NEW v \in 0 .. 2^Width6 - 1
    PROVE  Ipv6ToBigInt(Plain(GroupsOf(v))) = {v}
<1> DEFINE gs == GroupsOf(v)
           t == Plain(gs)
<1>1. v \in Nat /\ Groups \in Nat BY Width6Type, PowerType DEF NetworksAssumption
<1>2. \A i \in 1 .. Groups : gs[i] = GroupAt(v, i) /\ gs[i] \in Nat BY <1>1, GroupStep DEF GroupsOf
<1>3. Len(gs) = Groups
  <2>1. gs \in [1 .. Groups -> Nat]
    <3>1. gs = [i \in 1 .. Groups |-> GroupAt(v, i)] BY DEF GroupsOf
    <3> HIDE DEF gs
    <3> QED BY <1>2, <3>1
  <2> HIDE DEF gs
  <2>2. gs \in Seq(Nat) BY <1>1, <2>1, SeqDef
  <2>3. DOMAIN gs = 1 .. Len(gs) /\ Len(gs) \in Nat BY <2>2, LenProperties
  <2>4. 1 .. Len(gs) = 1 .. Groups BY <2>1, <2>3
  <2> QED BY <1>1, <2>3, <2>4, SameInterval
<1>4. t.head = gs /\ t.cut = FALSE BY DEF Plain
<1> HIDE DEF gs, t
<1>5. Ipv6ToBigInt(t) = {ValueOf(gs)} BY <1>3, <1>4 DEF Ipv6ToBigInt
<1>6. ValueOf(gs) = v BY <1>2, ValueReads
<1> QED BY <1>5, <1>6 DEF gs, t

\* A run of zeros is what "::" stands for when it is read.
LEMMA WrittenIsRead ==
    ASSUME NetworksAssumption, NEW v \in 0 .. 2^Width6 - 1
    PROVE  Ipv6ToBigInt(Ipv6ToString(v)) = {v}
<1> DEFINE gs == GroupsOf(v)
           cut == \E r \in Best(gs) : Length(r) >= 2
<1>1. CASE ~cut
  <2>1. Ipv6ToString(v) = Plain(gs) BY <1>1 DEF Ipv6ToString
  <2> QED BY <2>1, PlainReads
<1>2. CASE cut
  <2> DEFINE r == CHOOSE r \in Best(gs) : TRUE
             head == SubSeq(gs, 1, r[1] - 1)
             tail == SubSeq(gs, r[2] + 1, Groups)
  <2>1. Ipv6ToString(v) = [head |-> head, cut |-> TRUE, tail |-> tail] BY <1>2 DEF Ipv6ToString
  <2>2. r \in Best(gs) BY <1>2
  <2> HIDE DEF r
  <2>3. /\ r[1] \in 1 .. Groups /\ r[2] \in 1 .. Groups /\ r[1] <= r[2]
        /\ \A i \in r[1] .. r[2] : gs[i] = 0
    BY <2>2 DEF Best, Runs
  <2>4. v \in Nat /\ Groups \in Nat BY Width6Type, PowerType DEF NetworksAssumption
  <2>5. \A i \in 1 .. Groups : gs[i] = GroupAt(v, i) /\ gs[i] \in Nat
    BY <2>4, GroupStep DEF GroupsOf
  <2> DEFINE m == r[1]
             n == r[2]
  <2>6. m \in 1 .. Groups /\ n \in 1 .. Groups /\ m <= n /\ \A i \in m .. n : gs[i] = 0 BY <2>3
  <2>7. head = SubSeq(gs, 1, m - 1) /\ tail = SubSeq(gs, n + 1, Groups) OBVIOUS
  <2> HIDE DEF gs, m, n, head, tail
  <2>8. /\ head \in Seq(Nat) /\ Len(head) = m - 1
        /\ \A i \in 1 .. m - 1 : head[i] = gs[i]
    <3>1. \A i \in 1 .. m - 1 : gs[i] \in Nat BY <2>4, <2>5, <2>6
    <3>2. 1 \in Int /\ m - 1 \in Int BY <2>4, <2>6
    <3>3. /\ head \in Seq(Nat) /\ Len(head) = IF 1 <= m - 1 THEN (m - 1) - 1 + 1 ELSE 0
          /\ \A i \in 1 .. (m - 1) - 1 + 1 : head[i] = gs[1 + i - 1]
      BY <2>7, <3>1, <3>2, SubSeqProperties
    <3> QED BY <2>4, <2>6, <3>3
  <2>9. /\ tail \in Seq(Nat) /\ Len(tail) = Groups - n
        /\ \A i \in 1 .. Groups - n : tail[i] = gs[n + i]
    <3>1. \A i \in n + 1 .. Groups : gs[i] \in Nat BY <2>4, <2>5, <2>6
    <3>2. n + 1 \in Int /\ Groups \in Int BY <2>4, <2>6
    <3>3. /\ tail \in Seq(Nat) /\ Len(tail) = IF n + 1 <= Groups THEN Groups - (n + 1) + 1 ELSE 0
          /\ \A i \in 1 .. Groups - (n + 1) + 1 : tail[i] = gs[(n + 1) + i - 1]
      BY <2>7, <3>1, <3>2, SubSeqProperties
    <3> QED BY <2>4, <2>6, <3>3
  <2> DEFINE fill == Groups - Len(head) - Len(tail)
  <2>10. fill = n - m + 1 /\ fill \in Nat /\ fill >= 1 BY <2>4, <2>6, <2>8, <2>9
  <2> HIDE DEF fill
  <2>11. ASSUME NEW i \in 1 .. Groups
         PROVE  GroupAt(v, i) = IF i <= Len(head) THEN head[i]
                                ELSE IF i <= Len(head) + fill THEN 0
                                     ELSE tail[i - Len(head) - fill]
    <3>1. gs[i] = GroupAt(v, i) BY <2>5
    <3>2. CASE i <= m - 1 BY <2>4, <2>6, <2>8, <3>1, <3>2
    <3>3. CASE i >= m /\ i <= n BY <2>4, <2>6, <2>8, <2>10, <3>1, <3>3
    <3>4. CASE i > n
      <4>1. i - Len(head) - fill = i - n /\ i - n \in 1 .. Groups - n
        BY <2>4, <2>6, <2>8, <2>10, <3>4
      <4>2. tail[i - n] = gs[i]
        <5>1. n + (i - n) = i BY <2>4, <2>6
        <5> QED BY <2>9, <4>1, <5>1
      <4> QED BY <2>4, <2>6, <2>8, <2>10, <3>1, <3>4, <4>1, <4>2
    <3> QED BY <2>4, <2>6, <3>2, <3>3, <3>4
  <2>12. Ipv6ToBigInt([head |-> head, cut |-> TRUE, tail |-> tail]) = {v}
    BY <2>8, <2>9, <2>10, <2>11, TextReads DEF fill
  <2> QED BY <2>1, <2>12
<1> QED BY <1>1, <1>2

\* The text the page makes of an address of a /64 is read as the base of the /64: the
\* groups of the prefix are those of the address, and the others zero.
LEMMA PageIsRead ==
    ASSUME NetworksAssumption, NEW v \in 0 .. 2^Width6 - 1
    PROVE  Ipv6ToBigInt(WebSubnet64(v)) = {And(v, Mask6(ActorBits), Width6)}
<1>1. /\ Groups \in Nat \ {0} /\ GroupBits \in Nat \ {0} /\ Width6 \in Nat /\ v \in Nat
      /\ 2^Width6 \in Nat \ {0} /\ ActorBits \in 1 .. Width6
  BY Width6Type, PowerType DEF NetworksAssumption
<1>2. PICK m \in 1 .. Groups - 1 : ActorBits = GroupBits * m BY DEF NetworksAssumption
<1> DEFINE u == And(v, Mask6(ActorBits), Width6)
           gs == GroupsOf(v)
           head == SubSeq(gs, 1, m)
           h == Below(m)
<1>3. m \in 1 .. Groups /\ m \in 0 .. Groups /\ m \in Nat BY <1>1, <1>2
<1>4. ActorBits \div GroupBits = m
  <2> DEFINE g == GroupBits
  <2>1. g \in Nat \ {0} /\ ActorBits = g * m BY <1>1, <1>2
  <2> HIDE DEF g
  <2>2. (g * m) \div g = m BY <1>3, <2>1
  <2> QED BY <2>1, <2>2 DEF g
<1>5. h = Width6 - ActorBits /\ h \in 0 .. Width6
  <2> DEFINE g == GroupBits
             n == Groups
  <2>1. g \in Nat /\ n \in Nat /\ ActorBits = g * m BY <1>1, <1>2
  <2>2. h = g * (n - m) /\ Width6 = n * g BY DEF Below, Width6
  <2> HIDE DEF g, n, h
  <2>3. g * (n - m) = n * g - g * m BY <1>3, <2>1
  <2>4. h = Width6 - ActorBits BY <2>1, <2>2, <2>3
  <2> QED BY <1>1, <2>4
<1>6. Mask6(ActorBits) = 2^Width6 - 2^h
  <2>1. ActorBits \in 0 .. Width6 BY <1>1
  <2> QED BY <1>5, <2>1, Mask6Means
<1> HIDE DEF h
<1>7. u = 2^h * (v \div 2^h) /\ u \in 0 .. v BY <1>1, <1>5, <1>6, AndClears, MaskedAbove
<1>8. u \in Nat /\ u \in 0 .. 2^Width6 - 1 BY <1>1, <1>7
<1>9. Mask6(ActorBits) = 2^Width6 - 2^h /\ h \in 0 .. Width6 BY <1>5, <1>6
<1>10. ASSUME NEW i \in 1 .. m PROVE GroupAt(u, i) = GroupAt(v, i)
  <2>1. i \in 1 .. Groups /\ i \in 0 .. Groups BY <1>1, <1>3
  <2>2. Below(i) \in h .. Width6
    <3> DEFINE g == GroupBits
               n == Groups
    <3>1. g \in Nat /\ n \in Nat /\ i \in Nat /\ i <= m /\ m <= n BY <1>1, <1>3
    <3>2. h = g * (n - m) /\ Below(i) = g * (n - i) BY DEF Below, h
    <3> HIDE DEF g, n
    <3>3. g * (n - i) = g * (n - m) + g * (m - i) /\ g * (m - i) \in Nat /\ g * (n - m) \in Nat
      BY <1>3, <3>1
    <3>4. Below(i) >= h /\ h \in Nat BY <3>2, <3>3
    <3>5. Below(i) \in 0 .. Width6 BY <2>1, BelowType
    <3> QED BY <1>1, <3>4, <3>5
  <2>3. Above(u, Below(i)) = Above(v, Below(i))
    <3> DEFINE mask == Mask6(ActorBits)
    <3>1. mask = 2^Width6 - 2^h BY <1>9
    <3>2. u = And(v, mask, Width6) OBVIOUS
    <3> HIDE DEF mask, u
    <3> QED BY <1>1, <1>9, <2>2, <3>1, <3>2, MaskedAbove
  <2>4. GroupAt(u, i) = Above(u, Below(i)) % 2^GroupBits
        /\ GroupAt(v, i) = Above(v, Below(i)) % 2^GroupBits
    <3> HIDE DEF u
    <3> QED BY <1>1, <1>8, <2>1, GroupStep
  <2> QED BY <2>3, <2>4
<1>11. ASSUME NEW i \in m + 1 .. Groups PROVE GroupAt(u, i) = 0
  <2>1. i \in 1 .. Groups /\ i \in 0 .. Groups BY <1>1, <1>3
  <2> DEFINE k == Below(i)
             d == h - k - GroupBits
  <2>2. k \in Nat /\ d \in Nat /\ h = k + (GroupBits + d)
    <3> DEFINE g == GroupBits
               n == Groups
    <3>1. g \in Nat /\ n \in Nat /\ i \in Nat /\ m + 1 <= i /\ i <= n BY <1>1, <1>3, <2>1
    <3>2. h = g * (n - m) /\ k = g * (n - i) BY DEF Below, h
    <3>0. d = h - k - g OBVIOUS
    <3> HIDE DEF g, n, k, d
    <3>3. g * (n - m) = g * (n - i) + g + g * (i - m - 1) /\ g * (i - m - 1) \in Nat
          /\ g * (n - i) \in Nat
      BY <1>3, <3>1
    <3> QED BY <3>0, <3>1, <3>2, <3>3 DEF g
  <2>3. GroupAt(u, i) = Above(u, k) % 2^GroupBits
    <3> HIDE DEF u
    <3> QED BY <1>8, <2>1, GroupStep
  <2> HIDE DEF k, d
  <2>4. 2^h = 2^k * (2^GroupBits * 2^d)
    <3>1. GroupBits + d \in Nat BY <1>1, <2>2
    <3>2. 2^(k + (GroupBits + d)) = 2^k * 2^(GroupBits + d) BY <2>2, <3>1, PowerSum
    <3>3. 2^(GroupBits + d) = 2^GroupBits * 2^d BY <1>1, <2>2, PowerSum
    <3> QED BY <2>2, <3>2, <3>3
  <2> DEFINE p == 2^k
             q == 2^GroupBits
             y == 2^d * (v \div 2^h)
  <2>5. p \in Nat \ {0} /\ q \in Nat \ {0} /\ y \in Nat /\ u = p * (q * y)
    <3>1. 2^k \in Nat \ {0} /\ 2^GroupBits \in Nat \ {0} /\ 2^d \in Nat /\ 2^h \in Nat \ {0}
      BY <1>1, <1>5, <2>2, PowerType
    <3> DEFINE e == 2^d
               z == v \div 2^h
    <3>2. e \in Nat /\ z \in Nat BY <1>1, <3>1
    <3>3. u = (p * (q * e)) * z BY <1>7, <2>4
    <3>4. p \in Nat \ {0} /\ q \in Nat \ {0} /\ y = e * z BY <3>1
    <3> HIDE DEF p, q, y, e, z, u
    <3>5. (p * (q * e)) * z = p * (q * (e * z)) /\ e * z \in Nat BY <3>2, <3>4
    <3> QED BY <3>3, <3>4, <3>5
  <2>6. Above(u, k) = u \div p BY DEF Above
  <2> HIDE DEF p, y, u
  <2>7. u \div p = q * y
    <3>1. q * y \in Nat
      <4> HIDE DEF q
      <4> QED BY <2>5
    <3> DEFINE x == q * y
    <3>2. x \in Nat /\ u = p * x BY <2>5, <3>1
    <3> HIDE DEF x, q
    <3>3. (p * x) \div p = x BY <2>5, <3>2
    <3> QED BY <3>2, <3>3 DEF x
  <2>8. (q * y) % q = 0
    <3> HIDE DEF q
    <3> QED BY <2>5
  <2> QED BY <2>3, <2>6, <2>7, <2>8
<1>12. \A i \in 1 .. Groups : gs[i] = GroupAt(v, i) /\ gs[i] \in Nat BY <1>1, GroupStep DEF GroupsOf
<1>13. WebSubnet64(v) = [head |-> head, cut |-> TRUE, tail |-> <<>>] BY <1>4 DEF WebSubnet64
<1> HIDE DEF gs
<1>14. /\ head \in Seq(Nat) /\ Len(head) = m
       /\ \A i \in 1 .. m : head[i] = gs[i]
  <2>1. \A i \in 1 .. m : gs[i] \in Nat BY <1>1, <1>3, <1>12
  <2>2. 1 \in Int /\ m \in Int BY <1>3
  <2>3. /\ head \in Seq(Nat) /\ Len(head) = IF 1 <= m THEN m - 1 + 1 ELSE 0
        /\ \A i \in 1 .. m - 1 + 1 : head[i] = gs[1 + i - 1]
    BY <2>1, <2>2, SubSeqProperties
  <2> QED BY <1>3, <2>3
<1> HIDE DEF head, u
<1> DEFINE tail == <<>>
           fill == Groups - m
<1>15. tail \in Seq(Nat) /\ Len(tail) = 0 BY EmptySeq
<1>16. fill \in Nat /\ fill >= 1 /\ fill = Groups - Len(head) - Len(tail) BY <1>1, <1>2, <1>14, <1>15
<1>17. ASSUME NEW i \in 1 .. Groups
       PROVE  GroupAt(u, i) = IF i <= Len(head) THEN head[i]
                              ELSE IF i <= Len(head) + fill THEN 0
                                   ELSE tail[i - Len(head) - fill]
  <2>1. CASE i <= m
    <3>1. i \in 1 .. m BY <2>1
    <3> QED BY <1>10, <1>12, <1>14, <2>1, <3>1
  <2>2. CASE ~(i <= m)
    <3>0. Len(head) = m BY <1>14
    <3>1. i \in m + 1 .. Groups /\ i <= Len(head) + fill
      <4> DEFINE l == Len(head)
      <4> HIDE DEF l
      <4>1. i \in m + 1 .. Groups /\ i <= m + fill BY <1>1, <1>3, <2>2
      <4> QED BY <3>0, <4>1
    <3> QED BY <1>11, <1>14, <2>2, <3>1
  <2> QED BY <2>1, <2>2
<1> HIDE DEF tail, fill
<1>18. Ipv6ToBigInt([head |-> head, cut |-> TRUE, tail |-> tail]) = {u}
  BY <1>8, <1>14, <1>15, <1>16, <1>17, TextReads
<1> QED BY <1>13, <1>18 DEF tail, u

\* What ipv6ToString writes is read back as the same address, and what the page writes
\* of a /64 as its base.
THEOREM TextsAreRead == TextRoundTrips
BY NetworksAssumption, WrittenIsRead, PageIsRead DEF TextRoundTrips

\* The arithmetic of addresses is that of sets of addresses, at any width.
THEOREM AddressesHold == Spec => []AddressesAgree
<1>1. AddressesAgree
  BY MatchingIsMembership, OverlapIsSharing, ActorsSplitAddresses, TargetsHaveMembers,
     RefusedWhenPrivate, TextsAreRead
  DEF AddressesAgree
<1> QED BY <1>1, PTL

-------------------------------------------------------------------------------
(* Finite sets.                                                               *)

LEMMA OntoFinite ==
    ASSUME NEW S, NEW T, IsFiniteSet(S), NEW f \in [S -> T], \A t \in T : \E s \in S : f[s] = t
    PROVE  IsFiniteSet(T) /\ Cardinality(T) <= Cardinality(S)
<1>1. f \in Surjection(S, T) BY DEF Surjection
<1> QED BY <1>1, FS_Surjection

LEMMA IntoFinite ==
    ASSUME NEW S, NEW T, IsFiniteSet(T), NEW f \in [S -> T],
           \A s, t \in S : f[s] = f[t] => s = t
    PROVE  IsFiniteSet(S) /\ Cardinality(S) <= Cardinality(T)
<1>1. f \in Injection(S, T) BY DEF Injection, IsInjective
<1> QED BY <1>1, FS_Injection

\* Of some things with a rank one has the greatest: one that the fewest surpass.
LEMMA HighestExists ==
    ASSUME NEW S, S # {}, IsFiniteSet(S), NEW rank, \A s \in S : rank[s] \in Nat
    PROVE  \E s \in S : \A t \in S : rank[t] <= rank[s]
<1> DEFINE over(s) == {t \in S : rank[t] > rank[s]}
           T == {Cardinality(over(s)) : s \in S}
<1>1. \A s \in S : IsFiniteSet(over(s)) /\ Cardinality(over(s)) \in Nat
  <2> TAKE s \in S
  <2>1. over(s) \in SUBSET S OBVIOUS
  <2> HIDE DEF over
  <2>2. IsFiniteSet(over(s)) BY <2>1, FS_Subset
  <2> QED BY <2>2, FS_CardinalityType
<1>2. \A s, t \in S : t \in over(s) => over(t) \subseteq over(s) /\ over(t) # over(s) OBVIOUS
<1>3. \A s, t \in S : t \in over(s) => Cardinality(over(t)) < Cardinality(over(s))
  <2> TAKE s, t \in S
  <2> HAVE t \in over(s)
  <2> HIDE DEF over
  <2>1. over(t) \in SUBSET over(s) /\ over(t) # over(s) BY <1>2
  <2>2. Cardinality(over(t)) <= Cardinality(over(s)) /\ Cardinality(over(s)) # Cardinality(over(t))
    BY <1>1, <2>1, FS_Subset
  <2> QED BY <1>1, <2>2
<1>4. PICK n \in T : \A m \in T : n <= m
  <2>1. T \subseteq Nat /\ T # {} BY <1>1
  <2> HIDE DEF T
  <2> QED BY <2>1, LeastExists
<1>5. PICK s \in S : n = Cardinality(over(s)) OBVIOUS
<1>6. \A t \in S : t \notin over(s)
  <2> SUFFICES ASSUME NEW t \in S, t \in over(s) PROVE FALSE OBVIOUS
  <2>1. Cardinality(over(t)) < n /\ Cardinality(over(t)) \in T BY <1>3, <1>5
  <2>2. n \in Nat /\ Cardinality(over(t)) \in Nat BY <1>1, <1>5
  <2> HIDE DEF T, over
  <2>3. n <= Cardinality(over(t)) BY <1>4, <2>1
  <2> QED BY <2>1, <2>2, <2>3
<1>7. \A t \in S : ~(rank[t] > rank[s]) BY <1>6
<1> QED BY <1>7

-------------------------------------------------------------------------------
(* The rows of an actor.                                                      *)

Sound ==
    /\ TypeOK
    /\ IsFiniteSet(log)
    /\ \A x \in log : x.net = ActorOf(x.client)
    /\ \A c \in pending : AskedBlocked(c)

LEMMA ConfigType ==
    ASSUME config \in Config
    PROVE  /\ \A r \in Rule : Cfg.rules[r].severity \in Severity
                               /\ Cfg.rules[r].threshold \in Nat \ {0}
           /\ Cfg.window \in Nat \ {0} /\ Cfg.exceptions \subseteq Entry
           /\ Cfg.autoBan.minSeverity \in Severity
           /\ Cfg.autoBan.minFindings \in Nat /\ Cfg.autoBan.minScore \in Nat
BY FindingsAssumption DEF Cfg

\* The addresses an actor stands for.
LEMMA ActorType ==
    ASSUME NEW a \in Actor
    PROVE  /\ a \in Entry
           /\ \E c \in Client : a = ActorOf(c)
           /\ \A c \in Address : Within(c, a) <=> ActorOf(c) = a
           /\ Members(a) = {c \in Address : ActorOf(c) = a}
           /\ People(a) = {c \in Client : ActorOf(c) = a}
<1>1. PICK c \in Client : a = ActorOf(c) BY DEF Actor
<1>2. Client \subseteq Address BY FindingsAssumption
<1>3. a \in Entry /\ \A b \in Address : Within(b, a) <=> ActorOf(b) = a
  BY <1>1, <1>2, NetworksAssumption, ActorMeans, ActorMembers
<1> QED BY <1>1, <1>2, <1>3 DEF Members, People

LEMMA ClientType ==
    ASSUME NEW c \in Client
    PROVE  c \in Address /\ ActorOf(c) \in Actor /\ c # Global
<1>1. c \in Address BY FindingsAssumption
<1>2. c.value \in Nat BY <1>1, NetworksAssumption, AddressType
<1>3. Global.value = -1 BY DEF Global
<1> QED BY <1>1, <1>2, <1>3 DEF Actor

LEMMA RowType ==
    ASSUME Sound, NEW x \in log
    PROVE  x.client \in Client /\ x.net \in Actor /\ x.age \in Nat /\ x.net = ActorOf(x.client)
           /\ \A a \in Actor : Within(x.client, a) <=> x.net = a
<1>1. x \in Row /\ x.net = ActorOf(x.client) BY DEF Sound, TypeOK
<1>2. x.client \in Client /\ x.net \in Actor /\ x.age \in Nat
  BY <1>1, FindingsAssumption DEF Row
<1> QED BY <1>1, <1>2, ClientType, ActorType

LEMMA EvidenceMeans ==
    ASSUME Sound, NEW r \in Rule, NEW a \in Actor
    PROVE  Evidence(r, a) = {x \in RowsOf(r) : x.net = a}
BY RowType DEF Evidence, RowsOf

\* A group of the query is what an actor did.
LEMMA GroupMeans ==
    ASSUME Sound, NEW r \in Rule, NEW g \in GroupByActor(RowsOf(r))
    PROVE  /\ g \in SUBSET log /\ g # {}
           /\ ActorOfRows(g) \in Actor
           /\ g = Evidence(r, ActorOfRows(g))
<1>1. PICK y \in RowsOf(r) : g = {x \in RowsOf(r) : x.net = y.net} BY DEF GroupByActor
<1>2. RowsOf(r) \subseteq log BY DEF RowsOf
<1>3. y \in g /\ \A x \in g : x.net = y.net BY <1>1
<1>4. ActorOfRows(g) = y.net BY <1>3 DEF ActorOfRows
<1>5. y.net \in Actor BY <1>1, <1>2, RowType
<1> QED BY <1>1, <1>2, <1>3, <1>4, <1>5, EvidenceMeans

LEMMA ActorGroup ==
    ASSUME Sound, NEW r \in Rule, NEW a \in Actor, Evidence(r, a) # {}
    PROVE  Evidence(r, a) \in GroupByActor(RowsOf(r)) /\ ActorOfRows(Evidence(r, a)) = a
<1>1. Evidence(r, a) = {x \in RowsOf(r) : x.net = a} BY EvidenceMeans
<1>2. PICK y \in RowsOf(r) : y.net = a BY <1>1
<1>3. Evidence(r, a) \in GroupByActor(RowsOf(r)) BY <1>1, <1>2 DEF GroupByActor
<1>4. \A x \in Evidence(r, a) : x.net = a BY <1>1
<1>5. ActorOfRows(Evidence(r, a)) = a
  <2> DEFINE g == Evidence(r, a)
  <2>1. g # {} /\ \A x \in g : x.net = a BY <1>4
  <2> HIDE DEF g
  <2>2. ActorOfRows(g) = a BY <2>1 DEF ActorOfRows
  <2> QED BY <2>2 DEF g
<1> QED BY <1>3, <1>5

LEMMA RepresentativeMeans ==
    ASSUME Sound, NEW g \in SUBSET log, g # {}
    PROVE  \E x \in g : Representative(g) = x.client
<1> DEFINE S == {x.client : x \in g}
<1>1. S # {} /\ S \subseteq Client BY RowType
<1>2. IsFiniteSet(S) BY <1>1, FindingsAssumption, FS_Subset
<1>3. \A c \in S : TextRank[c] \in Nat BY <1>1, FindingsAssumption
<1> HIDE DEF S
<1>4. \E c \in S : \A d \in S : TextRank[d] <= TextRank[c] BY <1>1, <1>2, <1>3, HighestExists
<1>5. (CHOOSE c \in S : \A d \in S : TextRank[d] <= TextRank[c]) \in S BY <1>4
<1>6. Representative(g) = CHOOSE c \in S : \A d \in S : TextRank[d] <= TextRank[c]
  BY DEF Representative, S
<1> QED BY <1>5, <1>6 DEF S

LEMMA CountType ==
    ASSUME IsFiniteSet(log), NEW r \in Rule, NEW rows \in SUBSET log
    PROVE  Count(r, rows) \in Nat /\ (rows = {} => Count(r, rows) = 0)
<1>1. IsFiniteSet(rows) /\ Cardinality(rows) \in Nat BY FS_Subset, FS_CardinalityType
<1>2. ASSUME NEW T, NEW f \in [rows -> T], \A t \in T : \E x \in rows : f[x] = t
      PROVE  Cardinality(T) \in Nat
  BY <1>1, <1>2, OntoFinite, FS_CardinalityType
<1>3. Cardinality({x.req.host : x \in rows}) \in Nat
  <2> DEFINE T == {x.req.host : x \in rows}
             f == [x \in rows |-> x.req.host]
  <2>1. f \in [rows -> T] /\ \A t \in T : \E x \in rows : f[x] = t OBVIOUS
  <2> HIDE DEF T, f
  <2> QED BY <1>2, <2>1 DEF T
<1>4. Cardinality({x.req.uri : x \in rows}) \in Nat
  <2> DEFINE T == {x.req.uri : x \in rows}
             f == [x \in rows |-> x.req.uri]
  <2>1. f \in [rows -> T] /\ \A t \in T : \E x \in rows : f[x] = t OBVIOUS
  <2> HIDE DEF T, f
  <2> QED BY <1>2, <2>1 DEF T
<1>5. rows = {} => /\ {x.req.host : x \in rows} = {} /\ {x.req.uri : x \in rows} = {}
                   /\ rows = {}
  OBVIOUS
<1> QED BY <1>1, <1>3, <1>4, <1>5, FS_EmptySet DEF Count


-------------------------------------------------------------------------------
(* What the detectors return.                                                 *)

LEMMA ActorFinite == IsFiniteSet(Actor)
<1> DEFINE f == [c \in Client |-> ActorOf(c)]
<1>1. f \in [Client -> Actor] /\ \A a \in Actor : \E c \in Client : f[c] = a BY DEF Actor
<1>2. IsFiniteSet(Client) BY FindingsAssumption
<1> HIDE DEF f
<1> QED BY <1>1, <1>2, OntoFinite

LEMMA ReachedMeans ==
    ASSUME Sound, NEW r \in Rule, NEW g \in Reached(r)
    PROVE  /\ g \in SUBSET log /\ g # {} /\ Count(r, g) \in Nat
           /\ ActorOfRows(g) \in Actor
           /\ g = Evidence(r, ActorOfRows(g)) /\ Over(r, ActorOfRows(g))
<1>1. g \in GroupByActor(RowsOf(r)) /\ Count(r, g) >= Cfg.rules[r].threshold BY DEF Reached
<1>2. /\ g \in SUBSET log /\ g # {} /\ ActorOfRows(g) \in Actor
      /\ g = Evidence(r, ActorOfRows(g))
  BY <1>1, GroupMeans
<1>3. Count(r, g) \in Nat BY <1>2, CountType DEF Sound
<1> QED BY <1>1, <1>2, <1>3 DEF Over

LEMMA OverReached ==
    ASSUME Sound, NEW r \in Rule, NEW a \in Actor, Over(r, a)
    PROVE  Evidence(r, a) \in Reached(r) /\ ActorOfRows(Evidence(r, a)) = a
<1>1. Evidence(r, a) \in SUBSET log BY DEF Evidence
<1>2. Cfg.rules[r].threshold \in Nat \ {0} BY ConfigType DEF Sound, TypeOK
<1>3. Count(r, Evidence(r, a)) >= Cfg.rules[r].threshold BY DEF Over
<1>4. Evidence(r, a) # {}
  <2> DEFINE g == Evidence(r, a)
  <2>1. Count(r, g) \in Nat /\ (g = {} => Count(r, g) = 0) BY <1>1, CountType DEF Sound
  <2> QED BY <1>2, <1>3, <2>1
<1>5. Evidence(r, a) \in GroupByActor(RowsOf(r)) /\ ActorOfRows(Evidence(r, a)) = a
  BY <1>4, ActorGroup
<1> QED BY <1>3, <1>5 DEF Reached

\* Whom a query leaves out although he is over the threshold, as many others crowd out.
LEMMA LeftOut ==
    ASSUME Sound, NEW tie \in Tie, NEW r \in Rule, NEW a \in Actor, Over(r, a),
           Evidence(r, a) \notin Limited(r, tie)
    PROVE  CrowdedOut(r, a)
<1> DEFINE g == Evidence(r, a)
           S == {h \in Reached(r) : Before(r, h, g, tie)}
           T == {b \in Actor \ {a} : Count(r, Evidence(r, b)) >= Count(r, g)}
           f == [h \in S |-> ActorOfRows(h)]
<1>1. g \in Reached(r) /\ ActorOfRows(g) = a /\ Count(r, g) \in Nat BY OverReached, ReachedMeans
<1>2. \A h \in S : /\ ActorOfRows(h) \in Actor /\ h = Evidence(r, ActorOfRows(h))
                   /\ Count(r, h) \in Nat
  BY ReachedMeans
<1>3. \A b \in Actor : tie[b] \in Nat
  <2>1. Cardinality(Actor) \in Nat BY ActorFinite, FS_CardinalityType
  <2> QED BY <2>1 DEF Tie
<1>4. \A h \in S : Before(r, h, g, tie) OBVIOUS
<1> HIDE DEF g
<1>5. \A h \in S : Count(r, h) >= Count(r, g) BY <1>1, <1>2, <1>4 DEF Before
<1>6. \A h \in S : ActorOfRows(h) # a
  <2> SUFFICES ASSUME NEW h \in S, ActorOfRows(h) = a PROVE FALSE OBVIOUS
  <2>1. h = g BY <1>2 DEF g
  <2>2. Before(r, g, g, tie) BY <1>4, <2>1
  <2>3. tie[ActorOfRows(g)] \in Nat BY <1>1, <1>3
  <2> QED BY <1>1, <2>2, <2>3 DEF Before
<1>7. \A h \in S : ActorOfRows(h) \in T
  <2> TAKE h \in S
  <2> HIDE DEF S
  <2>1. Evidence(r, ActorOfRows(h)) = h BY <1>2
  <2>2. Count(r, Evidence(r, ActorOfRows(h))) >= Count(r, g) BY <1>5, <2>1
  <2> QED BY <1>2, <1>6, <2>2
<1>8. f \in [S -> T] /\ \A h, k \in S : f[h] = f[k] => h = k
  <2> HIDE DEF S, T
  <2> QED BY <1>2, <1>7
<1>9. IsFiniteSet(T)
  <2>1. T \in SUBSET Actor OBVIOUS
  <2> HIDE DEF T
  <2> QED BY <2>1, ActorFinite, FS_Subset
<1>10. IsFiniteSet(S) /\ Cardinality(S) <= Cardinality(T)
  <2> HIDE DEF S, T, f
  <2> QED BY <1>8, <1>9, IntoFinite
<1>11. ~(Cardinality(S) < SubjectCap) BY <1>1 DEF Limited, g
<1>12. Cardinality(S) \in Nat /\ Cardinality(T) \in Nat /\ SubjectCap \in Nat
  BY <1>9, <1>10, FS_CardinalityType, FindingsAssumption
<1>13. Cardinality(T) >= SubjectCap
  <2> HIDE DEF S, T
  <2> QED BY <1>10, <1>11, <1>12
<1> QED BY <1>13 DEF CrowdedOut, g

LEMMA DetectedMeans ==
    ASSUME Sound, NEW tie, NEW r \in PerActor, NEW s \in Detected(r, tie)
    PROVE  s \in Client /\ ActorOf(s) \in Actor /\ Over(r, ActorOf(s))
<1>1. r \in Rule BY DEF Rule
<1>2. PICK g \in Limited(r, tie) : s = Representative(g) BY DEF Detected
<1>3. g \in Reached(r) BY <1>2 DEF Limited
<1>4. /\ g \in SUBSET log /\ g # {} /\ ActorOfRows(g) \in Actor
      /\ g = Evidence(r, ActorOfRows(g)) /\ Over(r, ActorOfRows(g))
  BY <1>1, <1>3, ReachedMeans
<1>5. PICK x \in g : s = x.client BY <1>2, <1>4, RepresentativeMeans
<1>6. x.net = ActorOfRows(g)
  <2>1. x \in Evidence(r, ActorOfRows(g)) BY <1>4, <1>5
  <2> QED BY <1>1, <1>4, <2>1, EvidenceMeans
<1>7. x.client \in Client /\ x.net = ActorOf(x.client) BY <1>4, <1>5, RowType
<1> QED BY <1>4, <1>5, <1>6, <1>7

LEMMA OverDetected ==
    ASSUME Sound, NEW tie \in Tie, NEW r \in PerActor, NEW a \in Actor, Over(r, a),
           ~CrowdedOut(r, a)
    PROVE  \E s \in Detected(r, tie) : s \in People(a)
<1>1. r \in Rule BY DEF Rule
<1> DEFINE g == Evidence(r, a)
<1>2. g \in Limited(r, tie) BY <1>1, LeftOut
<1>3. g \in SUBSET log /\ g # {} /\ ActorOfRows(g) = a BY <1>1, OverReached, ReachedMeans
<1>4. PICK x \in g : Representative(g) = x.client BY <1>3, RepresentativeMeans
<1>5. x \in log /\ Within(x.client, a) BY <1>4 DEF Evidence
<1>6. x.client \in People(a) BY <1>5, RowType DEF People
<1>7. Representative(g) \in Detected(r, tie) BY <1>2 DEF Detected
<1> QED BY <1>4, <1>6, <1>7


-------------------------------------------------------------------------------
(* What an evaluation raises, and whom it bans.                               *)

\* #purgeExcepted and the check before a finding know the exceptions as prefixes.
LEMMA ExceptedMeans ==
    ASSUME Sound, NEW c \in Client
    PROVE  Excepted(c) <=> Trusted(c)
<1>1. config \in Config BY DEF Sound, TypeOK
<1>2. Cfg.exceptions \subseteq Entry BY <1>1, ConfigType
<1>3. c \in Address BY ClientType
<1>4. \A e \in Cfg.exceptions : IpMatchesAny(c, {e}) <=> Within(c, e)
  BY <1>2, <1>3, NetworksAssumption, MatchMeans, WithinMeans
<1>5. Excepted(c) <=> IpMatchesAny(c, Cfg.exceptions) BY <1>1 DEF Excepted, ExceptedBy, Cfg
<1>6. IpMatchesAny(c, Cfg.exceptions) <=> \E e \in Cfg.exceptions : IpMatchesAny(c, {e})
  BY DEF IpMatchesAny
<1> QED BY <1>4, <1>5, <1>6 DEF Trusted

LEMMA OthersKept ==
    ASSUME config \in Config, NEW s, s \notin Client
    PROVE  ~Excepted(s)
BY DEF Excepted, ExceptedBy

LEMMA SkippedSpared ==
    ASSUME Sound, NEW a, NEW c \in People(a), Skipped(c)
    PROVE  Spared(a)
<1>1. c \in Client BY DEF People
<1>2. Trusted(c) \/ ClassifyIp(c) = "cloudflare" BY <1>1, ExceptedMeans DEF Skipped, Edge
<1> QED BY <1>2 DEF Spared

LEMMA RaisedMeans ==
    ASSUME config \in Config, NEW tie, NEW failed, NEW p \in Raised(tie, failed)
    PROVE  /\ p = <<p[1], p[2]>>
           /\ p[1] \in RulesInForce \ failed /\ p[1] \in Rule
           /\ p[2] \in Detected(p[1], tie) /\ ~Skipped(p[2])
<1>1. PICK r \in RulesInForce \ failed : p \in {r} \X {s \in Detected(r, tie) : ~Skipped(s)}
  BY DEF Raised
<1>2. p = <<p[1], p[2]>> /\ p[1] = r /\ p[2] \in {s \in Detected(r, tie) : ~Skipped(s)} BY <1>1
<1>3. r \in Rule BY DEF RulesInForce, RulesOn
<1> QED BY <1>1, <1>2, <1>3

\* Who is over a threshold is raised, for one of the addresses he came from.
LEMMA OverRaised ==
    ASSUME Sound, NEW tie \in Tie, NEW failed, NEW a \in Actor, ~Spared(a),
           NEW r \in (RulesInForce \cap PerActor) \ failed, Over(r, a), ~CrowdedOut(r, a)
    PROVE  \E s \in People(a) : <<r, s>> \in Raised(tie, failed)
<1>1. PICK s \in Detected(r, tie) : s \in People(a) BY OverDetected
<1>2. ~Skipped(s) BY <1>1, SkippedSpared
<1>3. <<r, s>> \in {r} \X {u \in Detected(r, tie) : ~Skipped(u)} BY <1>1, <1>2
<1> QED BY <1>1, <1>3 DEF Raised

LEMMA RaisedCharged ==
    ASSUME Sound, NEW tie, NEW failed, NEW p \in Raised(tie, failed)
    PROVE  \/ p[2] = Global
           \/ /\ p[2] \in Client /\ p[2] # Global
              /\ ActorOf(p[2]) \in Actor /\ p[1] \in Charges(ActorOf(p[2])) \ failed
<1>1. p[1] \in RulesInForce \ failed /\ p[1] \in Rule /\ p[2] \in Detected(p[1], tie)
  BY RaisedMeans DEF Sound, TypeOK
<1>2. CASE p[1] \notin PerActor BY <1>1, <1>2 DEF Detected
<1>3. CASE p[1] \in PerActor
  <2>1. p[2] \in Client /\ ActorOf(p[2]) \in Actor /\ Over(p[1], ActorOf(p[2]))
    BY <1>1, <1>3, DetectedMeans
  <2> QED BY <1>1, <1>3, <2>1, ClientType DEF Charges
<1> QED BY <1>2, <1>3

LEMMA RulesCharged ==
    ASSUME Sound, NEW tie, NEW failed, NEW t
    PROVE  RulesOf(Raised(tie, failed), t) \subseteq Charges(t)
BY RaisedCharged DEF RulesOf

LEMMA CandidateActors ==
    ASSUME Sound, NEW tie, NEW failed
    PROVE  Candidates(Raised(tie, failed)) \subseteq Actor
BY RaisedCharged DEF Candidates

LEMMA RuleFinite == IsFiniteSet(Rule)
<1>1. \A a, b, c : IsFiniteSet({a, b, c})
  <2> TAKE a, b, c
  <2>1. IsFiniteSet({a}) BY FS_Singleton
  <2>2. IsFiniteSet({a} \cup {b}) BY <2>1, FS_AddElement
  <2>3. IsFiniteSet(({a} \cup {b}) \cup {c}) BY <2>2, FS_AddElement
  <2>4. {a, b, c} = ({a} \cup {b}) \cup {c} OBVIOUS
  <2> QED BY <2>3, <2>4
<1> DEFINE R == {"scanner404", "authAbuse", "badPaths"}
           S == {"injection", "badAgents", "flood"}
           T == {"fallbackProbe", "methodAnomaly", "headerInjection"}
           U == {"openProxy", "malformedRequests", "loginFlood"}
           V == {"hostScan", "fuzzing", "error5xxSurge"}
<1>2. Rule = R \cup S \cup T \cup U \cup V BY DEF Rule, PerActor, CountsRows
<1>3. IsFiniteSet(R) /\ IsFiniteSet(S) /\ IsFiniteSet(T) /\ IsFiniteSet(U) /\ IsFiniteSet(V)
  BY <1>1
<1> HIDE DEF R, S, T, U, V
<1>4. IsFiniteSet(R \cup S) BY <1>3, FS_Union
<1>5. IsFiniteSet(R \cup S \cup T) BY <1>3, <1>4, FS_Union
<1>6. IsFiniteSet(R \cup S \cup T \cup U) BY <1>3, <1>5, FS_Union
<1> QED BY <1>2, <1>3, <1>6, FS_Union

\* More charges never make a case weaker.
LEMMA SeriousGrows ==
    ASSUME config \in Config, NEW S \in SUBSET Rule, NEW R \in SUBSET S, Serious(R)
    PROVE  Serious(S)
<1>1. IsFiniteSet(S) BY RuleFinite, FS_Subset
<1>2. \A A, B : A \subseteq B /\ B \subseteq S =>
        Cardinality(A) \in Nat /\ Cardinality(B) \in Nat /\ Cardinality(A) <= Cardinality(B)
  <2> SUFFICES ASSUME NEW A, NEW B, A \subseteq B, B \subseteq S
               PROVE  /\ Cardinality(A) \in Nat /\ Cardinality(B) \in Nat
                      /\ Cardinality(A) <= Cardinality(B)
    OBVIOUS
  <2>1. IsFiniteSet(B) BY <1>1, FS_Subset
  <2>2. IsFiniteSet(A) /\ Cardinality(A) <= Cardinality(B) BY <2>1, FS_Subset
  <2> QED BY <2>1, <2>2, FS_CardinalityType
<1> DEFINE of(T, s) == Cardinality({r \in T : Cfg.rules[r].severity = s})
<1>3. \A s \in Severity : of(R, s) \in Nat /\ of(S, s) \in Nat /\ of(R, s) <= of(S, s)
  <2> TAKE s \in Severity
  <2> DEFINE A == {r \in R : Cfg.rules[r].severity = s}
             B == {r \in S : Cfg.rules[r].severity = s}
  <2>1. A \subseteq B /\ B \subseteq S OBVIOUS
  <2> HIDE DEF A, B
  <2>2. Cardinality(A) \in Nat /\ Cardinality(B) \in Nat /\ Cardinality(A) <= Cardinality(B)
    BY <1>2, <2>1
  <2> QED BY <2>2 DEF A, B
<1>4. \A T : Score(T) = 0 * of(T, "info") + 1 * of(T, "low") + 3 * of(T, "medium")
                          + 6 * of(T, "high") + 10 * of(T, "critical")
  BY DEF Score, Weight
<1> HIDE DEF of
<1>5. {"info", "low", "medium", "high", "critical"} = Severity BY DEF Severity
<1>6. Score(R) \in Nat /\ Score(S) \in Nat /\ Score(R) <= Score(S) BY <1>3, <1>4, <1>5
<1>7. Cardinality(R) \in Nat /\ Cardinality(S) \in Nat /\ Cardinality(R) <= Cardinality(S) BY <1>2
<1>8. Cfg.autoBan.minFindings \in Nat /\ Cfg.autoBan.minScore \in Nat BY ConfigType
<1>9. Cardinality(S) >= Cfg.autoBan.minFindings /\ Score(S) >= Cfg.autoBan.minScore
  BY <1>6, <1>7, <1>8 DEF Serious
<1> QED BY <1>9 DEF Serious

\* #hasGoodHistory judges the requests of all the addresses of the actor.
LEMMA HistoryMeans ==
    ASSUME Sound, NEW a \in Actor
    PROVE  HasGoodHistory(a) <=> Established(a)
<1>1. History(a) = Before24h(a) BY RowType DEF History, Before24h
<1> QED BY <1>1 DEF HasGoodHistory, Established


-------------------------------------------------------------------------------
(* What depends on the rows and the configuration only.                       *)

LEMMA EvidenceStays ==
    ASSUME log' = log, config' = config, NEW r, NEW a
    PROVE  Evidence(r, a)' = Evidence(r, a) /\ Over(r, a)' = Over(r, a)
<1>1. Evidence(r, a)' = Evidence(r, a) BY DEF Evidence, Cfg
<1>2. Count(r, Evidence(r, a))' = Count(r, Evidence(r, a)) BY <1>1 DEF Count
<1>3. Cfg' = Cfg BY DEF Cfg
<1> QED BY <1>1, <1>2, <1>3 DEF Over

LEMMA CaseStays ==
    ASSUME log' = log, config' = config
    PROVE  /\ Cfg' = Cfg /\ RulesInForce' = RulesInForce
           /\ \A r, a : Over(r, a)' = Over(r, a) /\ CrowdedOut(r, a)' = CrowdedOut(r, a)
           /\ \A a : /\ Charges(a)' = Charges(a) /\ Spared(a)' = Spared(a)
                     /\ Established(a)' = Established(a)
           /\ \A c : Trusted(c)' = Trusted(c)
           /\ \A R : Serious(R)' = Serious(R)
<1>1. Cfg' = Cfg /\ RulesInForce' = RulesInForce BY DEF Cfg, RulesInForce
<1>2. \A r, a : Over(r, a)' = Over(r, a) BY EvidenceStays
<1>3. \A r, a : CrowdedOut(r, a)' = CrowdedOut(r, a)
  <2> TAKE r, a
  <2>1. \A b : Count(r, Evidence(r, b))' = Count(r, Evidence(r, b))
    <3> TAKE b
    <3>1. Evidence(r, b)' = Evidence(r, b) BY EvidenceStays
    <3> QED BY <3>1 DEF Count
  <2> QED BY <2>1 DEF CrowdedOut
<1>4. \A a : Charges(a)' = Charges(a) BY <1>1, <1>2 DEF Charges
<1>5. \A c : Trusted(c)' = Trusted(c) BY <1>1 DEF Trusted
<1>6. \A a : Spared(a)' = Spared(a) BY <1>5 DEF Spared
<1>7. \A a : Established(a)' = Established(a)
  <2> TAKE a
  <2>1. Before24h(a)' = Before24h(a) BY <1>1 DEF Before24h
  <2> QED BY <2>1 DEF Established
<1>8. \A R : Serious(R)' = Serious(R)
  <2> TAKE R
  <2>1. Score(R)' = Score(R) BY <1>1 DEF Score
  <2> QED BY <1>1, <2>1 DEF Serious
<1> QED BY <1>1, <1>2, <1>3, <1>4, <1>5, <1>6, <1>7, <1>8


-------------------------------------------------------------------------------
(* An evaluation leaves nobody out, keeps no finding of a trusted address and *)
(* bans who earned it.                                                        *)

\* Bans that are added keep the bans one of a target.
LEMMA AddedBansType ==
    ASSUME Sound, NEW T \in SUBSET Target, NEW auto \in BOOLEAN
    PROVE  /\ AddBans(T, auto) \subseteq [target : Target, auto : BOOLEAN]
           /\ \A b, d \in AddBans(T, auto) : b.target = d.target => b = d
           /\ \A b \in AddBans(T, auto) \ banned : b.target \in T /\ b.auto = auto
<1> DEFINE ban(t) == [target |-> t, auto |-> auto]
           new == {ban(t) : t \in T \ Targets}
<1>1. AddBans(T, auto) = banned \cup new BY DEF AddBans
<1>2. banned \subseteq [target : Target, auto : BOOLEAN]
      /\ \A b, d \in banned : b.target = d.target => b = d
  BY DEF Sound, TypeOK
<1>3. \A t \in T : ban(t) \in [target : Target, auto : BOOLEAN]
  OBVIOUS
<1>4. \A t : ban(t).target = t /\ ban(t).auto = auto OBVIOUS
<1>5. \A b \in banned : b.target \in Targets BY DEF Targets
<1> HIDE DEF ban
<1> QED BY <1>1, <1>2, <1>3, <1>4, <1>5

LEMMA EvaluateType ==
    ASSUME Sound, NEW tie, NEW failed, Evaluate(tie, failed)
    PROVE  /\ findings' \subseteq Finding
           /\ \A f, g \in findings' : f.rule = g.rule /\ f.subject = g.subject => f = g
           /\ banned' \subseteq [target : Target, auto : BOOLEAN]
           /\ \A b, d \in banned' : b.target = d.target => b = d
<1> DEFINE raised == Raised(tie, failed)
           made(p) == [rule |-> p[1], subject |-> p[2], severity |-> Cfg.rules[p[1]].severity,
                       acknowledged |-> FALSE]
<1>1. config \in Config BY DEF Sound, TypeOK
<1>2. \A p \in raised : p = <<p[1], p[2]>> /\ p[1] \in Rule /\ p[2] \in Subject
  BY <1>1, RaisedMeans, RaisedCharged DEF Subject
<1>3. \A p \in raised : made(p) \in Finding
  <2>1. \A r \in Rule : Cfg.rules[r].severity \in Severity BY <1>1, ConfigType
  <2> QED BY <1>2, <2>1 DEF Finding
<1>4. Purged \subseteq findings /\ findings \subseteq Finding BY DEF Purged, Sound, TypeOK
<1>5. findings' = {f \in Purged : <<f.rule, f.subject>> \notin raised} \cup {made(p) : p \in raised}
  BY DEF Evaluate, Upserted
<1>6. findings' \subseteq Finding BY <1>3, <1>4, <1>5
<1>7. ASSUME NEW f \in findings', NEW g \in findings', f.rule = g.rule, f.subject = g.subject
      PROVE  f = g
  <2>1. CASE f \in Purged /\ g \in Purged BY <1>4, <1>7, <2>1 DEF Sound, TypeOK
  <2>2. ASSUME NEW p \in raised, NEW q \in raised, f = made(p), g = made(q)
        PROVE  f = g
    <3>1. p[1] = q[1] /\ p[2] = q[2] BY <1>7, <2>2
    <3> QED BY <2>2, <3>1
  <2>3. ASSUME NEW p \in raised, NEW h \in {f, g}, h = made(p), NEW k \in {f, g},
               <<k.rule, k.subject>> \notin raised
        PROVE  FALSE
    <3>1. h.rule = p[1] /\ h.subject = p[2] BY <2>3
    <3>2. k.rule = p[1] /\ k.subject = p[2] BY <1>7, <2>3, <3>1
    <3> QED BY <1>2, <2>3, <3>2
  <2> HIDE DEF made
  <2> QED BY <1>5, <1>7, <2>1, <2>2, <2>3
<1>8. AutoBans(raised) \in SUBSET Target BY CandidateActors DEF AutoBans, Target
<1>9. banned' = AddBans(AutoBans(raised), TRUE) BY DEF Evaluate
<1> HIDE DEF raised
<1> QED BY <1>6, <1>7, <1>8, <1>9, AddedBansType

LEMMA EvaluateMisses ==
    ASSUME Sound, NEW tie \in Tie, NEW failed, Evaluate(tie, failed)
    PROVE  NobodyMissed'
<1>1. log' = log /\ config' = config /\ last' = [quiet |-> TRUE, failed |-> failed]
      /\ findings' = Upserted(Raised(tie, failed))
  BY DEF Evaluate
<1>2. /\ RulesInForce' = RulesInForce
      /\ \A r, a : Over(r, a)' = Over(r, a) /\ CrowdedOut(r, a)' = CrowdedOut(r, a)
      /\ \A a : Spared(a)' = Spared(a)
  BY <1>1, CaseStays
<1>3. ASSUME NEW r \in (RulesInForce \cap PerActor) \ failed, NEW a \in Actor, Over(r, a)
      PROVE  \/ \E f \in findings' : f.rule = r /\ f.subject \in People(a) /\ ~f.acknowledged
             \/ Spared(a) \/ CrowdedOut(r, a)
  <2> SUFFICES ASSUME ~Spared(a), ~CrowdedOut(r, a)
               PROVE  \E f \in findings' : f.rule = r /\ f.subject \in People(a) /\ ~f.acknowledged
    OBVIOUS
  <2>1. PICK s \in People(a) : <<r, s>> \in Raised(tie, failed) BY <1>3, OverRaised
  <2> DEFINE p == <<r, s>>
             f == [rule |-> p[1], subject |-> p[2], severity |-> Cfg.rules[p[1]].severity,
                   acknowledged |-> FALSE]
  <2>2. f \in findings'
    <3> HIDE DEF p
    <3>1. p \in Raised(tie, failed) BY <2>1 DEF p
    <3> QED BY <1>1, <3>1 DEF Upserted
  <2>3. f.rule = r /\ f.subject = s /\ f.acknowledged = FALSE OBVIOUS
  <2> QED BY <2>1, <2>2, <2>3
<1>4. last'.failed = failed BY <1>1
<1> QED BY <1>2, <1>3, <1>4 DEF NobodyMissed

LEMMA EvaluateTrusts ==
    ASSUME Sound, NEW tie, NEW failed, Evaluate(tie, failed)
    PROVE  TrustedStayOut'
<1>1. log' = log /\ config' = config /\ findings' = Upserted(Raised(tie, failed))
  BY DEF Evaluate
<1>2. \A c : Trusted(c)' = Trusted(c) BY <1>1, CaseStays
<1>3. ASSUME NEW f \in findings', f.subject # Global
      PROVE  ~Trusted(f.subject)
  <2>1. CASE f \in Purged
    <3>1. f.subject \in Client /\ ~Excepted(f.subject)
      BY <1>3, <2>1 DEF Purged, Sound, TypeOK, Finding, Subject
    <3> QED BY <3>1, ExceptedMeans
  <2>2. CASE f \notin Purged
    <3>1. PICK p \in Raised(tie, failed) : f.subject = p[2] BY <1>1, <2>2 DEF Upserted
    <3>2. p[2] \in Client /\ ~Skipped(p[2])
      BY <1>3, <3>1, RaisedMeans, RaisedCharged DEF Sound, TypeOK
    <3> QED BY <3>1, <3>2, ExceptedMeans DEF Skipped
  <2> QED BY <2>1, <2>2
<1> QED BY <1>2, <1>3 DEF TrustedStayOut


\* A ban of an actor holds for each of its addresses.
LEMMA ActorBanned ==
    ASSUME NEW a \in Actor, NEW targets, a \in targets, NEW c \in Members(a)
    PROVE  IsBanned(c, targets)
<1>1. c \in Address /\ ActorOf(c) = a /\ a \in Entry BY ActorType
<1>2. CASE c.v6
  <2>1. a.bits = ActorBits /\ a.bits # Bare
    BY <1>1, <1>2, NetworksAssumption, Width6Type DEF ActorOf, Widen, AsEntry, NetworksAssumption, Bare
  <2>2. Within(c, a) BY <1>1, ActorType
  <2>3. IpMatchesAny(c, {a}) BY <1>1, <2>2, NetworksAssumption, MatchMeans, WithinMeans
  <2>4. IpMatchesAny(c, {b \in targets : b.bits # Bare}) BY <2>1, <2>3 DEF IpMatchesAny
  <2> QED BY <2>4 DEF IsBanned
<1>3. CASE ~c.v6
  <2>1. AsEntry(c) = a BY <1>1, <1>3 DEF ActorOf, Widen, AsEntry
  <2> QED BY <2>1 DEF IsBanned
<1> QED BY <1>2, <1>3

LEMMA TargetType ==
    ASSUME NEW t \in Target
    PROVE  t \in Entry
<1>1. BanTarget \subseteq Entry BY FindingsAssumption
<1>2. \A e \in BanTarget : Widen(e) \in Entry BY <1>1, NetworksAssumption, WidenType
<1>3. Actor \subseteq Entry BY ActorType
<1> QED BY <1>1, <1>2, <1>3 DEF Target

\* Whoever is banned is within some ban.
LEMMA BannedWithin ==
    ASSUME Sound, NEW c \in Address, IsBanned(c, Targets)
    PROVE  \E b \in banned : Within(c, b.target)
<1>1. \A t \in Targets : t \in Entry /\ \E b \in banned : b.target = t
  BY TargetType DEF Targets, Sound, TypeOK
<1>2. \A t \in Targets : IpMatchesAny(c, {t}) => Within(c, t)
  BY <1>1, NetworksAssumption, MatchMeans, WithinMeans
<1>3. CASE AsEntry(c) \in Targets
  <2>1. IpMatchesAny(c, {AsEntry(c)}) BY DEF IpMatchesAny, AsEntry
  <2> QED BY <1>1, <1>2, <1>3, <2>1
<1>4. CASE IpMatchesAny(c, {t \in Targets : t.bits # Bare})
  <2>1. PICK t \in Targets : t.bits # Bare /\ IpMatchesAny(c, {t}) BY <1>4 DEF IpMatchesAny
  <2> QED BY <1>1, <1>2, <2>1
<1> QED BY <1>3, <1>4 DEF IsBanned

\* #maybeAutoBan bans whoever is charged enough, if none of the charges was left out.
LEMMA EarnedBanned ==
    ASSUME Sound, NEW tie \in Tie, NEW failed, NEW a \in Actor, Cfg.autoBan.enabled,
           Serious({r \in Charges(a) \ failed : ~CrowdedOut(r, a)}),
           ~Established(a), ~Spared(a), BanAllowed(a, Cfg.exceptions),
           NEW banned1, banned1 = AddBans(AutoBans(Raised(tie, failed)), TRUE)
    PROVE  \/ \A c \in Members(a) : IsBanned(c, {b.target : b \in banned1})
           \/ \E c \in Members(a), b \in banned1 : Within(c, b.target)
<1> DEFINE raised == Raised(tie, failed)
           charges == {r \in Charges(a) \ failed : ~CrowdedOut(r, a)}
           rules == RulesOf(raised, a)
<1>1. config \in Config BY DEF Sound, TypeOK
<1>2. \A r \in charges : r \in (RulesInForce \cap PerActor) \ failed /\ Over(r, a) /\ ~CrowdedOut(r, a)
  BY DEF Charges
<1>3. \A r \in charges : \E s \in People(a) : <<r, s>> \in raised BY <1>2, OverRaised
<1>4. \A s \in People(a) : s \in Client /\ s # Global /\ ActorOf(s) = a
  BY ActorType, ClientType
<1>5. \A r \in charges : /\ r \in rules /\ a \in Candidates(raised)
                         /\ \E s \in People(a) : s \in MembersOf(raised, a)
  <2> TAKE r \in charges
  <2>1. PICK s \in People(a) : <<r, s>> \in raised BY <1>3
  <2> DEFINE p == <<r, s>>
  <2>2. p \in raised /\ p[1] = r /\ p[2] = s /\ p[2] # Global /\ ActorOf(p[2]) = a
    BY <1>4, <2>1
  <2> HIDE DEF p, raised
  <2> QED BY <2>2 DEF RulesOf, Candidates, MembersOf
<1>6. charges # {} BY DEF Serious
<1>7. a \in Candidates(raised) /\ \E s \in People(a) : s \in MembersOf(raised, a)
  <2> HIDE DEF charges, raised
  <2> QED BY <1>5, <1>6
<1>8. Serious(rules)
  <2>1. rules \in SUBSET Rule
    <3>1. rules \subseteq Charges(a) BY RulesCharged
    <3>2. Charges(a) \subseteq Rule BY DEF Charges, Rule
    <3> QED BY <3>1, <3>2
  <2>2. charges \in SUBSET rules BY <1>5
  <2>3. Serious(charges) OBVIOUS
  <2> HIDE DEF charges, rules
  <2> QED BY <1>1, <2>1, <2>2, <2>3, SeriousGrows
<1>9. ~HasGoodHistory(a) BY HistoryMeans
<1>10. PICK s \in People(a) : s \in MembersOf(raised, a) BY <1>7
<1>11. s \in Address /\ s \in Members(a) BY <1>4, <1>10, ClientType, ActorType
<1>12. CASE IsBanned(s, Targets)
  <2>1. PICK b \in banned : Within(s, b.target) BY <1>11, <1>12, BannedWithin
  <2>2. b \in banned1 BY DEF AddBans
  <2> QED BY <1>11, <2>1, <2>2
<1>13. CASE ~IsBanned(s, Targets)
  <2>1. a \in AutoBans(raised)
    <3>1. \E r \in rules : Rank[Cfg.rules[r].severity] >= Rank[Cfg.autoBan.minSeverity]
      BY <1>8 DEF Serious
    <3>2. Cardinality(rules) >= Cfg.autoBan.minFindings /\ Score(rules) >= Cfg.autoBan.minScore
      BY <1>8 DEF Serious
    <3> HIDE DEF raised
    <3> QED BY <1>7, <1>9, <1>10, <1>13, <3>1, <3>2 DEF AutoBans
  <2>2. a \in {b.target : b \in banned1}
    <3> DEFINE d == [target |-> a, auto |-> TRUE]
    <3>1. CASE a \in Targets BY <3>1 DEF Targets, AddBans
    <3>2. CASE a \notin Targets
      <4>1. d \in banned1 BY <2>1, <3>2 DEF AddBans
      <4>2. d.target = a OBVIOUS
      <4> QED BY <4>1, <4>2
    <3> QED BY <3>1, <3>2
  <2> QED BY <2>2, ActorBanned
<1> QED BY <1>12, <1>13

LEMMA EvaluateBans ==
    ASSUME Sound, NEW tie \in Tie, NEW failed, Evaluate(tie, failed)
    PROVE  EarnedBansHappen'
<1>1. /\ log' = log /\ config' = config /\ last' = [quiet |-> TRUE, failed |-> failed]
      /\ banned' = AddBans(AutoBans(Raised(tie, failed)), TRUE)
  BY DEF Evaluate
<1>2. /\ Cfg' = Cfg
      /\ \A r, a : CrowdedOut(r, a)' = CrowdedOut(r, a)
      /\ \A a : /\ Charges(a)' = Charges(a) /\ Spared(a)' = Spared(a)
                /\ Established(a)' = Established(a)
  BY <1>1, CaseStays
<1>3. last'.failed = failed BY <1>1
<1>4. Targets' = {b.target : b \in banned'} BY DEF Targets
<1> SUFFICES ASSUME Cfg.autoBan.enabled, NEW a \in Actor,
                    LET charges == {r \in Charges(a) \ last.failed : ~CrowdedOut(r, a)}
                    IN  Serious(charges)',
                    ~Established(a), ~Spared(a), BanAllowed(a, Cfg.exceptions)
             PROVE  \/ \A c \in Members(a) : IsBanned(c, Targets')
                    \/ \E c \in Members(a), b \in banned' : Within(c, b.target)
  BY <1>2 DEF EarnedBansHappen
<1>5. Serious({r \in Charges(a) \ failed : ~CrowdedOut(r, a)})
  <2>1. {r \in Charges(a)' \ last'.failed : ~CrowdedOut(r, a)'}
          = {r \in Charges(a) \ failed : ~CrowdedOut(r, a)}
    BY <1>2, <1>3
  <2> QED BY <1>2, <2>1 DEF Serious, Score
<1> QED BY <1>1, <1>4, <1>5, EarnedBanned


\* An address of an actor whose ban is allowed is neither trusted nor private.
LEMMA AllowedSpares ==
    ASSUME Sound, NEW a \in Actor, BanAllowed(a, Cfg.exceptions), NEW c \in Members(a)
    PROVE  ~Trusted(c) /\ ClassifyIp(c) # "private"
<1>1. a \in Entry /\ Cfg.exceptions \subseteq Entry
  BY ActorType, ConfigType DEF Sound, TypeOK
<1>2. ~Trusted(c)
  <2> SUFFICES ASSUME NEW e \in Cfg.exceptions, Within(c, e) PROVE FALSE BY DEF Trusted
  <2>1. c \in Members(e) BY DEF Members
  <2>2. RangesOverlap(a, e) BY <1>1, <2>1, NetworksAssumption, OverlapShares
  <2> QED BY <2>2 DEF BanAllowed
<1>3. PICK b \in Client : a = ActorOf(b) BY ActorType
<1>4. b \in Address /\ ~OverlapsPrivate(ActorOf(b)) BY <1>3, ClientType DEF BanAllowed
<1>5. ClassifyIp(c) # "private"
  BY <1>3, <1>4, NetworksAssumption, PrivateAssumption, PrivateActor
<1> QED BY <1>2, <1>5

LEMMA EvaluateEarned ==
    ASSUME Sound, NEW tie, NEW failed, Evaluate(tie, failed)
    PROVE  NewBansEarned
<1> DEFINE raised == Raised(tie, failed)
<1>1. \A b \in banned' \ banned : b.target \in AutoBans(raised) BY DEF Evaluate, AddBans
<1>2. ASSUME NEW a \in AutoBans(raised)
      PROVE  /\ a \in Actor /\ Earned(a)
             /\ \A c \in Members(a) : ~Trusted(c) /\ ClassifyIp(c) # "private"
  <2>1. a \in Candidates(raised) /\ Cfg.autoBan.enabled BY DEF AutoBans
  <2>2. a \in Actor BY <2>1, CandidateActors
  <2>3. Serious(RulesOf(raised, a)) BY <2>1 DEF AutoBans, Serious
  <2>4. Serious(Charges(a))
    <3>1. config \in Config /\ Charges(a) \in SUBSET Rule BY DEF Sound, TypeOK, Charges, Rule
    <3>2. RulesOf(raised, a) \in SUBSET Charges(a) BY RulesCharged
    <3> QED BY <2>3, <3>1, <3>2, SeriousGrows
  <2>5. ~HasGoodHistory(a) /\ BanAllowed(a, Cfg.exceptions) BY <2>1 DEF AutoBans
  <2>6. ~Established(a) BY <2>2, <2>5, HistoryMeans
  <2> QED BY <2>1, <2>2, <2>4, <2>5, <2>6, AllowedSpares DEF Earned
<1> HIDE DEF raised
<1> QED BY <1>1, <1>2 DEF NewBansEarned

-------------------------------------------------------------------------------
(* The invariant.                                                             *)

\* After anything but an evaluation the claims about the last one say nothing.
Settled == NobodyMissed /\ TrustedStayOut /\ EarnedBansHappen

IInv == Sound /\ Settled

LEMMA InitInv == Init => IInv
<1> SUFFICES ASSUME Init PROVE IInv OBVIOUS
<1>1. FirstConfig \in Config /\ MaxPuts \in Nat BY FindingsAssumption
<1>2. TypeOK BY <1>1 DEF Init, TypeOK
<1>3. IsFiniteSet(log) /\ log = {} /\ pending = {} BY FS_EmptySet DEF Init
<1>4. ~last.quiet BY DEF Init
<1> QED BY <1>2, <1>3, <1>4 DEF IInv, Sound, Settled, NobodyMissed, TrustedStayOut, EarnedBansHappen

LEMMA ChangedSettles ==
    ASSUME Changed
    PROVE  Settled' /\ last' \in [quiet : BOOLEAN, failed : SUBSET MayThrow]
<1>1. ~last'.quiet /\ last' \in [quiet : BOOLEAN, failed : SUBSET MayThrow] BY DEF Changed
<1> QED BY <1>1 DEF Settled, NobodyMissed, TrustedStayOut, EarnedBansHappen

\* The claims depend on nothing but what ApplyFails leaves alone.
LEMMA SettledStays ==
    ASSUME Settled, UNCHANGED <<log, config, findings, banned, last>>
    PROVE  Settled'
<1>1. /\ Cfg' = Cfg /\ RulesInForce' = RulesInForce /\ Targets' = Targets
      /\ \A r, a : Over(r, a)' = Over(r, a) /\ CrowdedOut(r, a)' = CrowdedOut(r, a)
      /\ \A a : /\ Charges(a)' = Charges(a) /\ Spared(a)' = Spared(a)
                /\ Established(a)' = Established(a)
      /\ \A c : Trusted(c)' = Trusted(c)
  BY CaseStays DEF Targets
<1>2. NobodyMissed' BY <1>1 DEF Settled, NobodyMissed
<1>3. TrustedStayOut' BY <1>1 DEF Settled, TrustedStayOut
<1>4. EarnedBansHappen'
  <2> SUFFICES ASSUME last.quiet, Cfg.autoBan.enabled, NEW a \in Actor,
                      LET charges == {r \in Charges(a) \ last.failed : ~CrowdedOut(r, a)}
                      IN  Serious(charges)',
                      ~Established(a), ~Spared(a), BanAllowed(a, Cfg.exceptions)
               PROVE  \/ \A c \in Members(a) : IsBanned(c, Targets)
                      \/ \E c \in Members(a), b \in banned : Within(c, b.target)
    BY <1>1 DEF EarnedBansHappen
  <2>1. {r \in Charges(a)' \ last'.failed : ~CrowdedOut(r, a)'}
          = {r \in Charges(a) \ last.failed : ~CrowdedOut(r, a)}
    BY <1>1
  <2>2. Serious({r \in Charges(a) \ last.failed : ~CrowdedOut(r, a)})
    BY <1>1, <2>1 DEF Serious, Score
  <2> QED BY <2>2 DEF Settled, EarnedBansHappen
<1> QED BY <1>2, <1>3, <1>4 DEF Settled


\* Who waits to be banned has asked for a blocked path for as long as the log knows.
LEMMA QueueStays ==
    ASSUME Sound, log \subseteq log', pending' \subseteq pending
    PROVE  \A c \in pending' : AskedBlocked(c)'
BY DEF Sound, AskedBlocked

LEMMA IngestInv ==
    ASSUME Sound, NEW t \in Traffic, Ingest(t[1], t[2])
    PROVE  Sound'
<1> DEFINE c == t[1]
           x == [client |-> c, net |-> ActorOf(c), req |-> t[2], age |-> 0]
<1>1. c \in Client /\ t[2] \in {u[2] : u \in Traffic} BY DEF Client
<1>2. ActorOf(c) \in Actor /\ 0 \in 0 .. Lookback - 1 BY <1>1, FindingsAssumption DEF Actor
<1>3. x \in Row /\ x.net = ActorOf(x.client) BY <1>1, <1>2 DEF Row
<1>4. log' = log \cup {x} BY DEF Ingest
<1> HIDE DEF x
<1>5. IsFiniteSet(log') BY <1>4, FS_AddElement DEF Sound
<1>6. \A y \in log' : y.net = ActorOf(y.client) BY <1>3, <1>4 DEF Sound
<1>7. log' \subseteq Row BY <1>3, <1>4 DEF Sound, TypeOK
<1>8. last' \in [quiet : BOOLEAN, failed : SUBSET MayThrow] BY ChangedSettles DEF Ingest
<1>9. UNCHANGED <<config, findings, banned, puts>> BY DEF Ingest
<1>10. pending' = (IF Hit(c, t[2]) THEN pending \cup {c} ELSE pending) BY DEF Ingest
<1>11. TypeOK' BY <1>1, <1>7, <1>8, <1>9, <1>10 DEF Sound, TypeOK
<1>12. ASSUME NEW d \in pending' PROVE AskedBlocked(d)'
  <2>1. CASE d \in pending BY <1>4, <2>1 DEF Sound, AskedBlocked
  <2>2. CASE d = c /\ Hit(c, t[2])
    <3>1. /\ config \in Config
          /\ Setting[config].blocked.autoBan /\ t[2].uri \in Setting[config].blocked.paths
      BY <2>2 DEF Hit, Cfg, Sound, TypeOK
    <3>2. x \in log' /\ x.client = c /\ x.age = 0 /\ x.req = t[2] BY <1>4 DEF x
    <3> QED BY <2>2, <3>1, <3>2 DEF AskedBlocked
  <2> QED BY <1>10, <1>12, <2>1, <2>2
<1> QED BY <1>5, <1>6, <1>11, <1>12 DEF Sound

\* The flush bans actors of those who asked for a blocked path, if nobody objects.
LEMMA FlushInv ==
    ASSUME Sound, Flush
    PROVE  Sound' /\ NewBansEarned
<1>1. /\ pending # {} /\ pending' = {} /\ banned' = AddBans(HitBans, TRUE)
      /\ UNCHANGED <<log, config, findings, puts>>
  BY DEF Flush
<1>2. \A a \in HitBans : \E c \in pending : a = ActorOf(c) /\ BanAllowed(a, Cfg.exceptions)
  BY DEF HitBans
<1>3. \A c \in pending : c \in Client /\ ActorOf(c) \in Actor BY DEF Sound, TypeOK, Actor
<1>4. HitBans \in SUBSET Target BY <1>2, <1>3 DEF Target
<1>5. last' \in [quiet : BOOLEAN, failed : SUBSET MayThrow] BY ChangedSettles DEF Flush
<1>6. TypeOK' BY <1>1, <1>4, <1>5, AddedBansType DEF Sound, TypeOK
<1>7. Sound' BY <1>1, <1>6 DEF Sound
<1>8. ASSUME NEW b \in banned' \ banned
      PROVE  /\ b.target \in Actor
             /\ \A c \in Members(b.target) : ~Trusted(c) /\ ClassifyIp(c) # "private"
             /\ \E c \in pending : Within(c, b.target) /\ AskedBlocked(c)
  <2>1. b.target \in HitBans BY <1>1, <1>4, AddedBansType
  <2>2. PICK c \in pending : b.target = ActorOf(c) /\ BanAllowed(b.target, Cfg.exceptions)
    BY <1>2, <2>1
  <2>3. b.target \in Actor /\ c \in Client BY <1>3, <2>2
  <2>4. Within(c, b.target) BY <2>2, <2>3, ActorType, ClientType
  <2>5. AskedBlocked(c) BY DEF Sound
  <2> QED BY <2>2, <2>3, <2>4, <2>5, AllowedSpares
<1> QED BY <1>1, <1>7, <1>8 DEF NewBansEarned

LEMMA TickInv ==
    ASSUME Sound, Tick
    PROVE  Sound'
<1> DEFINE kept == {y \in log : y.age + 1 < Lookback}
           older(x) == [x EXCEPT !.age = @ + 1]
           f == [x \in kept |-> older(x)]
<1>1. log' = {older(x) : x \in kept} BY DEF Tick
<1>2. Lookback \in Nat BY FindingsAssumption
<1>3. \A x \in kept : older(x) \in Row /\ older(x).net = x.net /\ older(x).client = x.client
  <2> TAKE x \in kept
  <2>1. x \in Row /\ x.age + 1 < Lookback BY DEF Sound, TypeOK
  <2>2. older(x) \in Row BY <1>2, <2>1 DEF Row
  <2> QED BY <2>1, <2>2 DEF Row
<1>4. \A x \in kept : x.net = ActorOf(x.client) BY DEF Sound
<1> HIDE DEF older
<1>5. IsFiniteSet(log')
  <2>1. IsFiniteSet(kept)
    <3>1. kept \in SUBSET log OBVIOUS
    <3> HIDE DEF kept
    <3> QED BY <3>1, FS_Subset DEF Sound
  <2>2. f \in [kept -> log'] /\ \A y \in log' : \E x \in kept : f[x] = y BY <1>1
  <2> HIDE DEF f, kept
  <2> QED BY <2>1, <2>2, OntoFinite
<1>6. log' \subseteq Row /\ \A y \in log' : y.net = ActorOf(y.client) BY <1>1, <1>3, <1>4
<1>7. last' \in [quiet : BOOLEAN, failed : SUBSET MayThrow] BY ChangedSettles DEF Tick
<1>8. UNCHANGED <<config, findings, banned, pending, puts>> /\ pending = {} BY DEF Tick
<1>9. TypeOK' BY <1>6, <1>7, <1>8 DEF Sound, TypeOK
<1> QED BY <1>5, <1>6, <1>8, <1>9 DEF Sound

LEMMA EvaluateInv ==
    ASSUME Sound, NEW tie \in Tie, NEW failed \in SUBSET MayThrow, Evaluate(tie, failed),
           puts' \in 0 .. MaxPuts
    PROVE  IInv'
<1>1. /\ findings' \subseteq Finding
      /\ \A f, g \in findings' : f.rule = g.rule /\ f.subject = g.subject => f = g
      /\ banned' \subseteq [target : Target, auto : BOOLEAN]
      /\ \A b, d \in banned' : b.target = d.target => b = d
  BY EvaluateType
<1>2. last' \in [quiet : BOOLEAN, failed : SUBSET MayThrow] BY DEF Evaluate
<1>3. UNCHANGED <<log, config, pending>> BY DEF Evaluate
<1>4. TypeOK' BY <1>1, <1>2, <1>3 DEF Sound, TypeOK
<1>5. Sound' BY <1>3, <1>4, QueueStays DEF Sound
<1>6. Settled' BY EvaluateMisses, EvaluateTrusts, EvaluateBans DEF Settled
<1> QED BY <1>5, <1>6 DEF IInv

\* A finding acknowledged is the same but for that.
LEMMA AcknowledgedType ==
    ASSUME NEW f \in Finding
    PROVE  LET g == [f EXCEPT !.acknowledged = TRUE]
           IN  g \in Finding /\ g.rule = f.rule /\ g.subject = f.subject
BY DEF Finding

LEMMA AcknowledgeInv ==
    ASSUME Sound, NEW f \in findings, Acknowledge(f)
    PROVE  Sound'
<1> DEFINE g == [f EXCEPT !.acknowledged = TRUE]
<1>1. findings \subseteq Finding
      /\ \A h, k \in findings : h.rule = k.rule /\ h.subject = k.subject => h = k
  BY DEF Sound, TypeOK
<1>2. g \in Finding /\ g.rule = f.rule /\ g.subject = f.subject BY <1>1, AcknowledgedType
<1>3. findings' = (findings \ {f}) \cup {g} BY DEF Acknowledge
<1> HIDE DEF g
<1>4. /\ findings' \subseteq Finding
      /\ \A h, k \in findings' : h.rule = k.rule /\ h.subject = k.subject => h = k
  BY <1>1, <1>2, <1>3
<1>5. last' \in [quiet : BOOLEAN, failed : SUBSET MayThrow] BY ChangedSettles DEF Acknowledge
<1>6. UNCHANGED <<log, config, banned, pending, puts>> BY DEF Acknowledge
<1>7. TypeOK' BY <1>4, <1>5, <1>6 DEF Sound, TypeOK
<1> QED BY <1>6, <1>7, QueueStays DEF Sound

LEMMA AcknowledgeAllInv ==
    ASSUME Sound, AcknowledgeAll
    PROVE  Sound'
<1> DEFINE done(f) == [f EXCEPT !.acknowledged = TRUE]
<1>1. findings \subseteq Finding
      /\ \A h, k \in findings : h.rule = k.rule /\ h.subject = k.subject => h = k
  BY DEF Sound, TypeOK
<1>2. \A f \in findings : /\ done(f) \in Finding
                          /\ done(f).rule = f.rule /\ done(f).subject = f.subject
  BY <1>1, AcknowledgedType
<1>3. findings' = {done(f) : f \in findings} BY DEF AcknowledgeAll
<1> HIDE DEF done
<1>4. /\ findings' \subseteq Finding
      /\ \A h, k \in findings' : h.rule = k.rule /\ h.subject = k.subject => h = k
  BY <1>1, <1>2, <1>3
<1>5. last' \in [quiet : BOOLEAN, failed : SUBSET MayThrow] BY ChangedSettles DEF AcknowledgeAll
<1>6. UNCHANGED <<log, config, banned, pending, puts>> BY DEF AcknowledgeAll
<1>7. TypeOK' BY <1>4, <1>5, <1>6 DEF Sound, TypeOK
<1> QED BY <1>6, <1>7, QueueStays DEF Sound

LEMMA BanInv ==
    ASSUME Sound, NEW e \in BanTarget, Ban(e)
    PROVE  Sound' /\ \A b \in banned' \ banned : ~b.auto
<1>1. banned' = AddBans({Widen(e)}, FALSE) /\ {Widen(e)} \in SUBSET Target BY DEF Ban, Target
<1>2. last' \in [quiet : BOOLEAN, failed : SUBSET MayThrow] BY ChangedSettles DEF Ban
<1>3. UNCHANGED <<log, config, findings, pending, puts>> BY DEF Ban
<1>4. TypeOK' BY <1>1, <1>2, <1>3, AddedBansType DEF Sound, TypeOK
<1>5. \A b \in banned' \ banned : ~b.auto BY <1>1, AddedBansType
<1> QED BY <1>3, <1>4, <1>5, QueueStays DEF Sound

LEMMA NextInv == IInv /\ [Next]_vars => IInv' /\ [NewBansEarned]_vars
<1> SUFFICES ASSUME IInv, [Next]_vars PROVE IInv' /\ [NewBansEarned]_vars OBVIOUS
<1>1. Sound /\ Settled /\ TypeOK BY DEF IInv, Sound
<1>2. ASSUME banned' = banned PROVE NewBansEarned BY <1>2 DEF NewBansEarned
<1>3. CASE UNCHANGED vars
  <2>1. UNCHANGED <<log, config, findings, banned, pending, puts, last>> BY <1>3 DEF vars
  <2>2. TypeOK' BY <1>1, <2>1 DEF TypeOK
  <2>3. Sound' BY <1>1, <2>1, <2>2, QueueStays DEF Sound
  <2>4. Settled' BY <1>1, <2>1, SettledStays
  <2> QED BY <1>3, <2>3, <2>4 DEF IInv
<1>4. ASSUME NEW t \in Traffic, Ingest(t[1], t[2]) PROVE IInv' /\ NewBansEarned
  <2>1. Changed /\ banned' = banned BY <1>4 DEF Ingest
  <2> QED BY <1>1, <1>2, <1>4, <2>1, IngestInv, ChangedSettles DEF IInv
<1>5. CASE Tick
  <2>1. Changed /\ banned' = banned BY <1>5 DEF Tick
  <2> QED BY <1>1, <1>2, <1>5, <2>1, TickInv, ChangedSettles DEF IInv
<1>6. CASE EvaluateNow
  <2>1. puts' \in 0 .. MaxPuts BY <1>1, <1>6 DEF EvaluateNow, TypeOK
  <2>2. PICK tie \in Tie, failed \in SUBSET MayThrow : Evaluate(tie, failed)
    BY <1>6 DEF EvaluateNow
  <2> QED BY <1>1, <2>1, <2>2, EvaluateInv, EvaluateEarned
<1>7. ASSUME NEW n \in Config, SaveConfig(n) PROVE IInv' /\ NewBansEarned
  <2>1. Changed /\ UNCHANGED <<log, findings, banned, pending>> /\ config' = n BY <1>7 DEF SaveConfig
  <2>2. puts' \in 0 .. MaxPuts
    <3>1. puts \in 0 .. MaxPuts /\ MaxPuts \in Nat BY <1>1, FindingsAssumption DEF TypeOK
    <3> QED BY <1>7, <3>1 DEF SaveConfig
  <2>3. Settled' /\ last' \in [quiet : BOOLEAN, failed : SUBSET MayThrow] BY <2>1, ChangedSettles
  <2>4. TypeOK' BY <1>1, <2>1, <2>2, <2>3 DEF TypeOK
  <2>5. Sound' BY <1>1, <2>1, <2>4, QueueStays DEF Sound
  <2> QED BY <1>2, <2>1, <2>3, <2>5 DEF IInv
<1>8. CASE ApplyDone
  <2>1. puts' \in 0 .. MaxPuts
    <3>1. puts \in 0 .. MaxPuts /\ MaxPuts \in Nat BY <1>1, FindingsAssumption DEF TypeOK
    <3> QED BY <1>8, <3>1 DEF ApplyDone
  <2>2. PICK tie \in Tie, failed \in SUBSET MayThrow : Evaluate(tie, failed)
    BY <1>8 DEF ApplyDone
  <2> QED BY <1>1, <2>1, <2>2, EvaluateInv, EvaluateEarned
<1>9. CASE ApplyFails
  <2>1. UNCHANGED <<log, config, findings, banned, pending, last>> BY <1>9 DEF ApplyFails
  <2>2. puts' \in 0 .. MaxPuts
    <3>1. puts \in 0 .. MaxPuts /\ MaxPuts \in Nat BY <1>1, FindingsAssumption DEF TypeOK
    <3> QED BY <1>9, <3>1 DEF ApplyFails
  <2>3. TypeOK' BY <1>1, <2>1, <2>2 DEF TypeOK
  <2>4. Sound' BY <1>1, <2>1, <2>3, QueueStays DEF Sound
  <2>5. Settled' BY <1>1, <2>1, SettledStays
  <2> QED BY <1>2, <2>1, <2>4, <2>5 DEF IInv
<1>10. ASSUME NEW f \in findings, Acknowledge(f) PROVE IInv' /\ NewBansEarned
  <2>1. Changed /\ banned' = banned BY <1>10 DEF Acknowledge
  <2> QED BY <1>1, <1>2, <1>10, <2>1, AcknowledgeInv, ChangedSettles DEF IInv
<1>11. CASE AcknowledgeAll
  <2>1. Changed /\ banned' = banned BY <1>11 DEF AcknowledgeAll
  <2> QED BY <1>1, <1>2, <1>11, <2>1, AcknowledgeAllInv, ChangedSettles DEF IInv
<1>12. CASE Clear
  <2>1. Changed /\ findings' = {} /\ UNCHANGED <<log, config, banned, pending, puts>> BY <1>12 DEF Clear
  <2>2. Settled' /\ last' \in [quiet : BOOLEAN, failed : SUBSET MayThrow] BY <2>1, ChangedSettles
  <2>3. TypeOK' BY <1>1, <2>1, <2>2 DEF TypeOK
  <2>4. Sound' BY <1>1, <2>1, <2>3, QueueStays DEF Sound
  <2> QED BY <1>2, <2>1, <2>2, <2>4 DEF IInv
<1>13. ASSUME NEW e \in BanTarget, Ban(e) PROVE IInv' /\ NewBansEarned
  <2>1. Sound' /\ \A b \in banned' \ banned : ~b.auto BY <1>1, <1>13, BanInv
  <2>2. Settled' BY <1>13, ChangedSettles DEF Ban
  <2> QED BY <2>1, <2>2 DEF IInv, NewBansEarned
<1>14. ASSUME NEW e \in BanTarget, Unban(e) PROVE IInv' /\ NewBansEarned
  <2>1. Changed /\ banned' \subseteq banned /\ UNCHANGED <<log, config, findings, pending, puts>>
    BY <1>14 DEF Unban
  <2>2. Settled' /\ last' \in [quiet : BOOLEAN, failed : SUBSET MayThrow] BY <2>1, ChangedSettles
  <2>3. TypeOK' BY <1>1, <2>1, <2>2 DEF TypeOK
  <2>4. Sound' BY <1>1, <2>1, <2>3, QueueStays DEF Sound
  <2> QED BY <2>1, <2>2, <2>4 DEF IInv, NewBansEarned
<1>15. CASE Flush
  <2>1. Settled' BY <1>15, ChangedSettles DEF Flush
  <2> QED BY <1>1, <1>15, <2>1, FlushInv DEF IInv
<1>16. CASE Kill
  <2>1. UNCHANGED <<log, config, findings, banned, last>> /\ pending' = {} /\ puts' = 0
    BY <1>16 DEF Kill
  <2>2. puts' \in 0 .. MaxPuts BY <2>1, FindingsAssumption
  <2>3. TypeOK' BY <1>1, <2>1, <2>2 DEF TypeOK
  <2>4. Sound' BY <1>1, <2>1, <2>3 DEF Sound
  <2>5. Settled' BY <1>1, <2>1, SettledStays
  <2> QED BY <1>2, <2>1, <2>4, <2>5 DEF IInv
<1> QED
  BY <1>3, <1>4, <1>5, <1>6, <1>7, <1>8, <1>9, <1>10, <1>11, <1>12, <1>13, <1>14, <1>15, <1>16
  DEF Next

\* Whoever requests what, however configurations change and whatever an operator
\* clears, acknowledges, bans or unbans, rows are named after the actor of their
\* client, and the last evaluation, if nothing happened since, missed nobody.
THEOREM Invariant == Spec => []IInv
<1>1. IInv /\ [Next]_vars => IInv' BY NextInv
<1> QED BY <1>1, InitInv, PTL DEF Spec

\* The findings and bans keep their types, one row for a rule and a subject and one
\* for a target.
THEOREM TypeCorrect == Spec => []TypeOK
<1>1. IInv => TypeOK BY DEF IInv, Sound
<1> QED BY <1>1, Invariant, PTL

\* No rotation of addresses, acknowledgement or change of the configuration hides an
\* actor who is over a threshold from the next evaluation.
THEOREM NobodyIsMissed == Spec => []NobodyMissed
<1>1. IInv => NobodyMissed BY DEF IInv, Settled
<1> QED BY <1>1, Invariant, PTL

\* An evaluation leaves no finding of an address an exception covers.
THEOREM TrustedAreLeftOut == Spec => []TrustedStayOut
<1>1. IInv => TrustedStayOut BY DEF IInv, Settled
<1> QED BY <1>1, Invariant, PTL

\* An evaluation bans every actor whose charges suffice, on all its addresses.
THEOREM EarnedAreBanned == Spec => []EarnedBansHappen
<1>1. IInv => EarnedBansHappen BY DEF IInv, Settled
<1> QED BY <1>1, Invariant, PTL

\* No step bans by itself but for what the addresses of the actor did in the window,
\* or at once for a request of a blocked path, and never a trusted or a private address.
THEOREM OnlyEarnedAreBanned == Spec => BansEarned
<1>1. IInv /\ [Next]_vars => [NewBansEarned]_vars BY NextInv
<1> QED BY <1>1, Invariant, PTL DEF Spec, BansEarned


================================================================================
