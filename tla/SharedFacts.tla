----------------------------- MODULE SharedFacts -----------------------------
(* Facts about numbers, about how many elements a set has and about chains *)
(* of sectors, which the proofs of several modules need.                   *)
EXTENDS SectorChains, FiniteSets, FiniteSetTheorems, SequenceTheorems,
        WellFoundedInduction, TLAPS

(* There is a least number in a set of them.                               *)
LEMMA LeastNat ==
    ASSUME NEW T, T \subseteq Nat, T # {}
    PROVE  \E x \in T : \A y \in T : x <= y
<1> DEFINE R == {ss \in Nat \X Nat : ss[1] < ss[2]}
<1>1. IsWellFoundedOn(R, Nat)
  BY NatLessThanWellFounded DEF OpToRel
<1>2. \A a, b \in Nat : <<a, b>> \in R <=> a < b
  OBVIOUS
<1> HIDE DEF R
<1>3. PICK x \in T : \A y \in T : ~(<<y, x>> \in R)
  BY <1>1, WFMin
<1>4. ASSUME NEW y \in T PROVE x <= y
  <2>1. x \in Nat /\ y \in Nat
    OBVIOUS
  <2>2. ~(<<y, x>> \in R)
    BY <1>3
  <2>3. ~(y < x)
    BY <1>2, <2>1, <2>2, Zenon
  <2>4. QED
    BY <2>1, <2>3
<1>5. QED
  BY <1>4

(* Induction, of the numbers for which something holds.                    *)
LEMMA NatSetInduction ==
    ASSUME NEW S, 0 \in S, \A n \in Nat : n \in S => n + 1 \in S
    PROVE  Nat \subseteq S
<1> DEFINE T == Nat \ S
<1>1. CASE T = {}
  BY <1>1
<1>2. CASE T # {}
  <2>1. PICK x \in T : \A y \in T : x <= y
    BY <1>2, LeastNat
  <2>2. x \in Nat /\ x # 0 /\ x - 1 \in Nat /\ x - 1 \notin T
    BY <2>1
  <2>3. QED
    BY <2>1, <2>2
<1>3. QED
  BY <1>1, <1>2

(* What is left of a number, divided by one not less or by itself.         *)
LEMMA ModFacts ==
    ASSUME NEW n \in Nat, NEW m \in Nat \ {0}
    PROVE  /\ n % m \in 0 .. m - 1
           /\ n < m => n % m = n
           /\ n = m => n % m = 0
<1>1. n % m \in 0 .. m - 1
  OBVIOUS
<1>2. n < m => n % m = n
  OBVIOUS
<1>3. n = m => n % m = 0
  OBVIOUS
<1>4. QED
  BY <1>1, <1>2, <1>3

(* The same of a number that may be less than 0.                           *)
LEMMA ModOfInt ==
    ASSUME NEW m \in Nat \ {0}
    PROVE  /\ \A k \in Int : k % m \in 0 .. m - 1
           /\ \A k \in Int : 0 <= k /\ k <= m - 1 => k % m = k
<1>1. \A k \in Int : k % m \in 0 .. m - 1
  OBVIOUS
<1>2. ASSUME NEW k \in Int, 0 <= k, k <= m - 1 PROVE k % m = k
  BY <1>2
<1>3. QED
  BY <1>1, <1>2

(* Taking out a sector lowers the count by one.                            *)
LEMMA CardTaken ==
    ASSUME NEW S, IsFiniteSet(S), NEW s \in S
    PROVE  /\ IsFiniteSet(S \ {s})
           /\ Cardinality(S) \in Nat /\ Cardinality(S) > 0
           /\ Cardinality(S \ {s}) = Cardinality(S) - 1
<1>1. IsFiniteSet(S \ {s}) /\ Cardinality(S \ {s}) = Cardinality(S) - 1
  BY FS_RemoveElement
<1>2. Cardinality(S \ {s}) \in Nat /\ Cardinality(S) \in Nat
  BY <1>1, FS_CardinalityType
<1>3. QED
  BY <1>1, <1>2

(* The sectors from a to b.                                                *)
LEMMA CardInterval ==
    ASSUME NEW a \in Int, NEW b \in Int, a <= b
    PROVE  IsFiniteSet(a .. b) /\ Cardinality(a .. b) = b - a + 1
BY FS_Interval

(* Taking out several sectors lowers the count by their number.            *)
LEMMA CardWithout ==
    ASSUME NEW S, IsFiniteSet(S), NEW T, T \subseteq S
    PROVE  /\ IsFiniteSet(S \ T)
           /\ Cardinality(S) \in Nat /\ Cardinality(T) \in Nat
           /\ Cardinality(S \ T) = Cardinality(S) - Cardinality(T)
<1>1. IsFiniteSet(S \ T) /\ Cardinality(S \ T) = Cardinality(S) - Cardinality(S \cap T)
  BY FS_Difference, Zenon
<1>2. S \cap T = T
  OBVIOUS
<1>3. IsFiniteSet(T)
  BY FS_Subset
<1>4. Cardinality(S) \in Nat /\ Cardinality(T) \in Nat
  BY <1>3, FS_CardinalityType
<1>5. QED
  BY <1>1, <1>2, <1>4, Zenon

(* Turning over the bits of T in S: those it had are gone, the others new. *)
LEMMA CardTurned ==
    ASSUME NEW S, IsFiniteSet(S), NEW T, IsFiniteSet(T)
    PROVE  /\ Cardinality(S) \in Nat /\ Cardinality(T \ S) \in Nat /\ Cardinality(T \cap S) \in Nat
           /\ Cardinality((S \ T) \cup (T \ S))
                = Cardinality(S) + Cardinality(T \ S) - Cardinality(T \cap S)
<1> DEFINE gone == T \cap S  new == T \ S  kept == S \ T
           n == Cardinality((S \ T) \cup (T \ S))
<1>1. IsFiniteSet(gone) /\ IsFiniteSet(new) /\ IsFiniteSet(kept)
  BY FS_Difference, FS_Intersection, Zenon
<1>2. Cardinality(kept) = Cardinality(S) - Cardinality(gone)
  <2>1. Cardinality(kept) = Cardinality(S) - Cardinality(S \cap T)
    BY FS_Difference, Zenon
  <2>2. S \cap T = T \cap S
    OBVIOUS
  <2>3. QED
    BY <2>1, <2>2, Zenon
<1>3. n = Cardinality(kept) + Cardinality(new)
  <2>1. n = Cardinality(kept) + Cardinality(new) - Cardinality(kept \cap new)
    BY <1>1, FS_Union, Zenon
  <2>2. kept \cap new = {}
    OBVIOUS
  <2>3. Cardinality(kept \cap new) = 0
    BY <2>2, FS_EmptySet, Zenon
  <2>4. Cardinality(kept) \in Nat /\ Cardinality(new) \in Nat
    BY <1>1, FS_CardinalityType, Zenon
  <2> HIDE DEF n, kept, new
  <2>5. QED
    BY <2>1, <2>3, <2>4
<1>4. Cardinality(S) \in Nat /\ Cardinality(new) \in Nat /\ Cardinality(gone) \in Nat
  BY <1>1, FS_CardinalityType, Zenon
<1> HIDE DEF n, kept, new, gone
<1>5. n = Cardinality(S) + Cardinality(new) - Cardinality(gone)
  BY <1>2, <1>3, <1>4
<1>6. QED
  BY <1>4, <1>5, Zenon DEF n, new, gone

(* The sectors the formats of single density disks count: 707 are left     *)
(* below 720.                                                              *)
LowBits    == 4 .. 719
SystemBits == 360 .. 368
HighBits   == 720 .. 1023

LEMMA IntervalCounts ==
    /\ IsFiniteSet(LowBits) /\ Cardinality(LowBits) = 716
    /\ Cardinality(SystemBits) = 9
    /\ Cardinality(HighBits) = 304
<1>1. IsFiniteSet(LowBits) /\ Cardinality(LowBits) = 716
  <2> DEFINE a == 4  b == 719
  <2>1. a \in Int /\ b \in Int /\ a <= b /\ b - a + 1 = 716 /\ LowBits = a .. b
    BY DEF LowBits
  <2> HIDE DEF a, b
  <2>2. IsFiniteSet(a .. b) /\ Cardinality(a .. b) = 716
    BY <2>1, CardInterval
  <2>3. QED
    BY <2>1, <2>2, Zenon
<1>2. Cardinality(SystemBits) = 9
  <2> DEFINE a == 360  b == 368
  <2>1. a \in Int /\ b \in Int /\ a <= b /\ b - a + 1 = 9 /\ SystemBits = a .. b
    BY DEF SystemBits
  <2> HIDE DEF a, b
  <2>2. Cardinality(a .. b) = 9
    BY <2>1, CardInterval
  <2>3. QED
    BY <2>1, <2>2, Zenon
<1>3. Cardinality(HighBits) = 304
  <2> DEFINE a == 720  b == 1023
  <2>1. a \in Int /\ b \in Int /\ a <= b /\ b - a + 1 = 304 /\ HighBits = a .. b
    BY DEF HighBits
  <2> HIDE DEF a, b
  <2>2. Cardinality(a .. b) = 304
    BY <2>1, CardInterval
  <2>3. QED
    BY <2>1, <2>2, Zenon
<1>4. QED
  BY <1>1, <1>2, <1>3, Zenon

(* What format leaves of the sectors below 720.                            *)
LEMMA FreshLowCount == Cardinality(LowBits \ SystemBits) = 707
<1> DEFINE n == Cardinality(LowBits \ SystemBits)
           low == Cardinality(LowBits)
           system == Cardinality(SystemBits)
<1>1. SystemBits \subseteq LowBits
  BY DEF SystemBits, LowBits
<1>2. IsFiniteSet(LowBits)
  BY IntervalCounts
<1>3. n = low - system
  BY <1>1, <1>2, CardWithout, Zenon
<1>4. low = 716 /\ system = 9
  BY IntervalCounts
<1> HIDE DEF n, low, system
<1>5. n = 707
  BY <1>3, <1>4
<1>6. QED
  BY <1>5 DEF n

-----------------------------------------------------------------------------
(* The first sector of several.                                            *)
LEMMA FirstFacts ==
    ASSUME NEW S, S \subseteq Nat, S # {}
    PROVE  First(S) \in S /\ \A t \in S : First(S) <= t
BY LeastNat DEF First

(* A function defined by recursion on numbers, with values in A.           *)
IsRecursion(g, m, A, a, step) ==
    /\ g \in [0 .. m -> A]
    /\ g = [n \in 0 .. m |-> IF n = 0 THEN a ELSE step[<<n, g[n - 1]>>]]

(* There is one.                                                           *)
LEMMA NatRecursion ==
    ASSUME NEW m \in Nat, NEW A, NEW a \in A, NEW step \in [Nat \X A -> A]
    PROVE  \E g : IsRecursion(g, m, A, a, step)
<1> DEFINE Solves(g, k) ==
               /\ g[0] = a
               /\ \A n \in 1 .. k : g[n] = step[<<n, g[n - 1]>>]
           S == {k \in Nat : \E g \in [0 .. k -> A] : Solves(g, k)}
<1>1. 0 \in S
  <2> DEFINE g == [n \in 0 .. 0 |-> a]
  <2>1. g \in [0 .. 0 -> A] /\ Solves(g, 0)
    OBVIOUS
  <2>2. QED
    BY <2>1
<1>2. ASSUME NEW k \in Nat, k \in S PROVE k + 1 \in S
  <2>1. PICK g \in [0 .. k -> A] : Solves(g, k)
    BY <1>2
  <2> DEFINE b == step[<<k + 1, g[k]>>]
             h == [n \in 0 .. k + 1 |-> IF n = k + 1 THEN b ELSE g[n]]
  <2>2. b \in A
    OBVIOUS
  <2> HIDE DEF b
  <2>3. h \in [0 .. k + 1 -> A]
    BY <2>2
  <2>4. h[0] = a
    BY <2>1
  <2>5. ASSUME NEW n \in 1 .. k + 1 PROVE h[n] = step[<<n, h[n - 1]>>]
    <3>1. n \in 0 .. k + 1 /\ n - 1 \in 0 .. k + 1 /\ n - 1 # k + 1
      OBVIOUS
    <3>2. h[n - 1] = g[n - 1]
      BY <3>1
    <3>3. CASE n = k + 1
      <4>1. h[n] = b /\ n - 1 = k
        BY <3>1, <3>3
      <4>2. QED
        BY <3>2, <3>3, <4>1 DEF b
    <3>4. CASE n # k + 1
      <4>1. h[n] = g[n] /\ n \in 1 .. k
        BY <3>1, <3>4
      <4> HIDE DEF h
      <4>2. g[n] = step[<<n, g[n - 1]>>]
        BY <2>1, <4>1
      <4>3. QED
        BY <3>2, <4>1, <4>2
    <3>5. QED
      BY <3>3, <3>4
  <2> HIDE DEF h
  <2>6. QED
    BY <2>3, <2>4, <2>5
<1> HIDE DEF S
<1>3. Nat \subseteq S
  BY <1>1, <1>2, NatSetInduction
<1>4. PICK g \in [0 .. m -> A] : Solves(g, m)
  BY <1>3 DEF S
<1>5. g = [n \in 0 .. m |-> IF n = 0 THEN a ELSE step[<<n, g[n - 1]>>]]
  BY <1>4
<1>6. QED
  BY <1>5 DEF IsRecursion

(* The sectors c are linked, from `start' to the end of a chain.           *)
PathFrom(c, start, link) ==
    /\ start = IF c = <<>> THEN 0 ELSE c[1]
    /\ \A i \in 1 .. Len(c) : link[c[i]] = IF i = Len(c) THEN 0 ELSE c[i + 1]

(* They are what Chain finds.                                              *)
LEMMA ChainOfPath ==
    ASSUME NEW D, 0 \notin D, NEW c \in Seq(D), NEW start, NEW link, DOMAIN link = D,
           PathFrom(c, start, link), NEW most \in Nat, Len(c) <= most
    PROVE  Chain(start, link, most) = c
<1> DEFINE next(b) == IF b = <<>> THEN start ELSE link[b[Len(b)]]
           longer == [b \in Seq(D) |-> IF next(b) = 0 THEN b ELSE Append(b, next(b))]
           F(g) == [n \in 0 .. most |-> IF n = 0 THEN <<>> ELSE longer[g[n - 1]]]
           to == CHOOSE g : g = F(g)
           first(n) == SubSeq(c, 1, IF n <= Len(c) THEN n ELSE Len(c))
           h == [n \in 0 .. most |-> first(n)]
<1>1. ASSUME NEW n \in Nat
      PROVE  /\ first(n) \in Seq(D)
             /\ Len(first(n)) = IF n <= Len(c) THEN n ELSE Len(c)
             /\ \A i \in 1 .. Len(first(n)) : first(n)[i] = c[i]
  OBVIOUS
<1>2. first(0) = <<>> /\ first(most) = c
  OBVIOUS
<1>3. ASSUME NEW n \in Nat PROVE longer[first(n)] = first(n + 1)
  <2> DEFINE b == first(n)
  <2>1. b \in Seq(D) /\ Len(b) = (IF n <= Len(c) THEN n ELSE Len(c))
        /\ \A i \in 1 .. Len(b) : b[i] = c[i]
    BY <1>1
  <2>2. longer[b] = IF next(b) = 0 THEN b ELSE Append(b, next(b))
    BY <2>1
  <2>3. CASE n >= Len(c)
    <3>1. b = c /\ first(n + 1) = c
      BY <2>3
    <3>2. next(c) = 0
      BY DEF PathFrom
    <3>3. QED
      BY <2>2, <3>1, <3>2
  <2>4. CASE n < Len(c)
    <3>1. next(b) = c[n + 1]
      <4>1. CASE n = 0
        <5>1. b = <<>> /\ c # <<>> /\ n + 1 = 1
          BY <1>2, <2>4, <4>1
        <5>2. start = c[1]
          BY <5>1 DEF PathFrom
        <5>3. QED
          BY <5>1, <5>2
      <4>2. CASE n # 0
        <5>1. b # <<>> /\ Len(b) = n /\ b[n] = c[n] /\ n \in 1 .. Len(c)
          BY <2>1, <2>4, <4>2
        <5>2. link[c[n]] = c[n + 1]
          BY <2>4, <5>1 DEF PathFrom
        <5>3. QED
          BY <5>1, <5>2
      <4>3. QED
        BY <4>1, <4>2
    <3>2. c[n + 1] \in D
      BY <2>4
    <3>3. longer[b] = Append(b, c[n + 1])
      BY <2>2, <3>1, <3>2
    <3>4. first(n + 1) = Append(b, c[n + 1])
      BY <2>4
    <3>5. QED
      BY <3>3, <3>4
  <2>5. n >= Len(c) \/ n < Len(c)
    OBVIOUS
  <2> HIDE DEF first, longer
  <2>6. QED
    BY <2>3, <2>4, <2>5
<1> HIDE DEF first, longer
<1>4. h = F(h)
  <2>1. ASSUME NEW n \in 0 .. most PROVE h[n] = F(h)[n]
    <3>1. CASE n = 0
      BY <1>2, <3>1
    <3>2. CASE n # 0
      <4>1. n - 1 \in 0 .. most /\ n - 1 \in Nat /\ (n - 1) + 1 = n
        BY <3>2
      <4>2. h[n] = first((n - 1) + 1) /\ h[n - 1] = first(n - 1)
        BY <4>1
      <4>3. first((n - 1) + 1) = longer[first(n - 1)]
        BY <1>3, <4>1
      <4>4. QED
        BY <3>2, <4>2, <4>3
    <3>3. QED
      BY <3>1, <3>2
  <2>2. QED
    BY <2>1
<1>5. to = F(to)
  BY <1>4
<1>6. to[most] = first(most)
  <2> DEFINE S == {n \in Nat : n \in 0 .. most => to[n] = first(n)}
  <2> HIDE DEF to
  <2>1. 0 \in S
    BY <1>2, <1>5
  <2>2. ASSUME NEW n \in Nat, n \in S PROVE n + 1 \in S
    <3>1. ASSUME n + 1 \in 0 .. most PROVE to[n + 1] = first(n + 1)
      <4>1. n \in 0 .. most /\ n + 1 # 0 /\ (n + 1) - 1 = n
        BY <3>1
      <4>2. to[n + 1] = longer[to[n]]
        BY <1>5, <3>1, <4>1
      <4>3. QED
        BY <1>3, <2>2, <4>1, <4>2
    <3>2. QED
      BY <3>1
  <2> HIDE DEF S
  <2>3. Nat \subseteq S
    BY <2>1, <2>2, NatSetInduction
  <2>4. QED
    BY <2>3 DEF S
<1>7. Chain(start, link, most) = to[most]
  BY DEF Chain, longer
<1>8. QED
  BY <1>2, <1>6, <1>7

(* A chain, of whatever links: its sectors are on the disk, and unless it  *)
(* is empty the first is where it starts.                                  *)
LEMMA ChainInRange ==
    ASSUME NEW D, 0 \notin D, NEW start \in D \cup {0}, NEW link \in [D -> D \cup {0}],
           NEW most \in Nat \ {0}
    PROVE  /\ Chain(start, link, most) \in Seq(D)
           /\ start = 0 => Chain(start, link, most) = <<>>
           /\ start # 0 => /\ Len(Chain(start, link, most)) >= 1
                           /\ Chain(start, link, most)[1] = start
<1> DEFINE next(b) == IF b = <<>> THEN start ELSE link[b[Len(b)]]
           longer == [b \in Seq(D) |-> IF next(b) = 0 THEN b ELSE Append(b, next(b))]
           F(g) == [n \in 0 .. most |-> IF n = 0 THEN <<>> ELSE longer[g[n - 1]]]
           to == CHOOSE g : g = F(g)
           Good(b) == IF start = 0 THEN b = <<>> ELSE Len(b) >= 1 /\ b[1] = start
<1>1. ASSUME NEW b \in Seq(D)
      PROVE  /\ longer[b] \in Seq(D)
             /\ b = <<>> \/ Good(b) => Good(longer[b])
  <2>1. longer[b] = IF next(b) = 0 THEN b ELSE Append(b, next(b))
    OBVIOUS
  <2>2. CASE b = <<>>
    BY <2>1, <2>2
  <2>3. CASE b # <<>>
    <3>1. b[Len(b)] \in D /\ Len(b) \in Nat /\ Len(b) >= 1
      BY <2>3
    <3>2. next(b) \in D \cup {0}
      BY <2>3, <3>1
    <3>3. CASE next(b) = 0
      BY <2>1, <2>3, <3>3
    <3>4. CASE next(b) # 0
      <4> DEFINE x == next(b)
      <4>1. x \in D /\ longer[b] = Append(b, x)
        BY <2>1, <3>2, <3>4
      <4> HIDE DEF x
      <4>2. Append(b, x) \in Seq(D) /\ Len(Append(b, x)) = Len(b) + 1
            /\ Append(b, x)[1] = b[1]
        BY <3>1, <4>1
      <4>3. QED
        BY <2>3, <3>1, <4>1, <4>2
    <3>5. QED
      BY <3>3, <3>4
  <2>4. QED
    BY <2>2, <2>3
<1>2. longer \in [Seq(D) -> Seq(D)]
  <2>1. longer = [b \in Seq(D) |-> longer[b]]
    OBVIOUS
  <2> HIDE DEF longer
  <2>2. QED
    BY <1>1, <2>1
<1> HIDE DEF longer, Good
<1>3. PICK h \in [0 .. most -> Seq(D)] : h = F(h)
  <2> DEFINE step == [x \in Nat \X Seq(D) |-> longer[x[2]]]
  <2>1. step \in [Nat \X Seq(D) -> Seq(D)]
    BY <1>2
  <2>2. \A n \in Nat, b \in Seq(D) : step[<<n, b>>] = longer[b]
    OBVIOUS
  <2> HIDE DEF step
  <2>3. PICK h \in [0 .. most -> Seq(D)] :
            h = [n \in 0 .. most |-> IF n = 0 THEN <<>> ELSE step[<<n, h[n - 1]>>]]
    <3> DEFINE A == Seq(D)
               a == <<>>
    <3>1. a \in A /\ most \in Nat /\ step \in [Nat \X A -> A]
      BY <2>1
    <3> HIDE DEF A, a
    <3>2. PICK h : IsRecursion(h, most, A, a, step)
      BY <3>1, NatRecursion
    <3>3. QED
      BY <3>2 DEF IsRecursion, A, a
  <2>4. ASSUME NEW n \in 0 .. most PROVE h[n] = F(h)[n]
    <3>1. CASE n = 0
      BY <2>3, <3>1
    <3>2. CASE n # 0
      <4>1. n - 1 \in 0 .. most /\ n \in Nat
        BY <3>2
      <4>2. h[n] = step[<<n, h[n - 1]>>]
        BY <2>3, <3>2
      <4>3. h[n - 1] \in Seq(D)
        BY <4>1
      <4>4. QED
        BY <2>2, <3>2, <4>1, <4>2, <4>3
    <3>3. QED
      BY <3>1, <3>2
  <2>5. h = F(h)
    BY <2>4
  <2>6. QED
    BY <2>5
<1>4. to = F(to)
  BY <1>3
<1>5. \A n \in 0 .. most : to[n] \in Seq(D) /\ (n # 0 => Good(to[n])) /\ (n = 0 => to[n] = <<>>)
  <2> DEFINE S == {n \in Nat : n \in 0 .. most =>
                        /\ to[n] \in Seq(D)
                        /\ n # 0 => Good(to[n])
                        /\ n = 0 => to[n] = <<>>}
  <2> HIDE DEF to
  <2>1. 0 \in S
    BY <1>4
  <2>2. ASSUME NEW n \in Nat, n \in S PROVE n + 1 \in S
    <3>1. ASSUME n + 1 \in 0 .. most PROVE to[n + 1] \in Seq(D) /\ Good(to[n + 1])
      <4>1. n \in 0 .. most /\ n + 1 # 0 /\ (n + 1) - 1 = n
        BY <3>1
      <4>2. to[n + 1] = longer[to[n]]
        BY <1>4, <3>1, <4>1
      <4>3. to[n] \in Seq(D) /\ (to[n] = <<>> \/ Good(to[n]))
        BY <2>2, <4>1
      <4>4. QED
        BY <1>1, <4>2, <4>3
    <3>2. QED
      BY <3>1
  <2> HIDE DEF S
  <2>3. Nat \subseteq S
    BY <2>1, <2>2, NatSetInduction
  <2>4. QED
    BY <2>3 DEF S
<1>6. Chain(start, link, most) = to[most]
  BY DEF Chain, longer
<1>7. to[most] \in Seq(D) /\ Good(to[most])
  BY <1>5
<1>8. QED
  BY <1>6, <1>7 DEF Good

(* The bytes in use of the sectors of a chain are a number, and not fewer  *)
(* than those of the first sector.                                         *)
LEMMA CountedFacts ==
    ASSUME NEW D, NEW c \in Seq(D), NEW sec, \A s \in D : sec[s].count \in Nat
    PROVE  /\ CountedBytes(c, sec) \in Nat
           /\ c = <<>> => CountedBytes(c, sec) = 0
           /\ c # <<>> => CountedBytes(c, sec) >= sec[c[1]].count
<1> DEFINE m == Len(c)
           F(g) == [n \in 0 .. m |-> IF n = 0 THEN 0 ELSE g[n - 1] + sec[c[n]].count]
           sum == CHOOSE g : g = F(g)
           used == [n \in Nat |-> IF n \in 1 .. m THEN sec[c[n]].count ELSE 0]
           step == [x \in Nat \X Nat |-> x[2] + used[x[1]]]
<1>1. m \in Nat /\ \A n \in 1 .. m : c[n] \in D
  OBVIOUS
<1>2. used \in [Nat -> Nat] /\ \A n \in 1 .. m : used[n] = sec[c[n]].count
  BY <1>1
<1> HIDE DEF used
<1>3. step \in [Nat \X Nat -> Nat] /\ \A n, k \in Nat : step[<<n, k>>] = k + used[n]
  <2>1. \A n, k \in Nat : step[<<n, k>>] = k + used[n]
    OBVIOUS
  <2>2. ASSUME NEW n \in Nat, NEW k \in Nat PROVE k + used[n] \in Nat
    <3>1. used[n] \in Nat
      BY <1>2
    <3>2. QED
      BY <3>1
  <2>3. \A x \in Nat \X Nat : x[2] + used[x[1]] \in Nat
    BY <2>2
  <2>4. QED
    BY <2>1, <2>3
<1> HIDE DEF step, m
<1>4. PICK h \in [0 .. m -> Nat] :
          h = [n \in 0 .. m |-> IF n = 0 THEN 0 ELSE step[<<n, h[n - 1]>>]]
  <2> DEFINE A == Nat
             a == 0
  <2>1. a \in A /\ step \in [Nat \X A -> A]
    BY <1>3
  <2> HIDE DEF A, a
  <2>2. PICK h : IsRecursion(h, m, A, a, step)
    BY <1>1, <2>1, NatRecursion
  <2>3. QED
    BY <2>2 DEF IsRecursion, A, a
<1>5. h = F(h)
  <2>1. ASSUME NEW n \in 0 .. m PROVE h[n] = F(h)[n]
    <3>1. CASE n = 0
      BY <1>4, <3>1
    <3>2. CASE n # 0
      <4>1. n - 1 \in 0 .. m /\ n \in Nat /\ n \in 1 .. m
        BY <1>1, <3>2
      <4>2. h[n] = step[<<n, h[n - 1]>>]
        BY <1>4, <3>2
      <4>3. h[n - 1] \in Nat
        BY <4>1
      <4>4. h[n] = h[n - 1] + used[n]
        BY <1>3, <4>1, <4>2, <4>3
      <4>5. QED
        BY <1>2, <3>2, <4>1, <4>4
    <3>3. QED
      BY <3>1, <3>2
  <2>2. QED
    BY <1>4, <2>1
<1>6. sum = F(sum)
  BY <1>5
<1>7. \A n \in 0 .. m : sum[n] \in Nat /\ (n = 0 => sum[n] = 0)
                        /\ (n # 0 => sum[n] >= used[1])
  <2> DEFINE S == {n \in Nat : n \in 0 .. m =>
                        sum[n] \in Nat /\ (n = 0 => sum[n] = 0)
                        /\ (n # 0 => sum[n] >= used[1])}
  <2> HIDE DEF sum
  <2>1. 0 \in S
    BY <1>6
  <2>2. ASSUME NEW n \in Nat, n \in S PROVE n + 1 \in S
    <3>1. ASSUME n + 1 \in 0 .. m PROVE sum[n + 1] \in Nat /\ sum[n + 1] >= used[1]
      <4>1. n \in 0 .. m /\ n + 1 # 0 /\ (n + 1) - 1 = n /\ n + 1 \in 1 .. m
        BY <1>1, <3>1
      <4>2. sum[n + 1] = sum[n] + used[n + 1]
        BY <1>2, <1>6, <3>1, <4>1
      <4>3. used[n + 1] \in Nat /\ used[1] \in Nat
        BY <1>2
      <4>4. sum[n] \in Nat /\ (n = 0 => sum[n] = 0) /\ (n # 0 => sum[n] >= used[1])
        BY <2>2, <4>1
      <4>5. n = 0 => used[n + 1] = used[1]
        OBVIOUS
      <4>6. QED
        BY <4>2, <4>3, <4>4, <4>5
    <3>2. QED
      BY <3>1
  <2> HIDE DEF S
  <2>3. Nat \subseteq S
    BY <2>1, <2>2, NatSetInduction
  <2>4. QED
    BY <2>3 DEF S
<1>8. CountedBytes(c, sec) = sum[m]
  BY DEF CountedBytes, m
<1>9. sum[m] \in Nat /\ (m = 0 => sum[m] = 0) /\ (m # 0 => sum[m] >= used[1])
  <2> HIDE DEF sum
  <2>1. QED
    BY <1>1, <1>7
<1>10. m # 0 => used[1] = sec[c[1]].count
  <2>1. m # 0 => 1 \in 1 .. m
    BY <1>1
  <2>2. QED
    BY <1>2, <2>1
<1>11. c = <<>> <=> m = 0
  BY DEF m
<1> HIDE DEF sum
<1>12. QED
  BY <1>8, <1>9, <1>10, <1>11

(* Sectors c hold the bytes of file f, each `full' of them but the last,   *)
(* which has `rest'.                                                       *)
HoldsBytes(c, sec, f, full, rest) ==
    \A i \in 1 .. Len(c) :
        /\ sec[c[i]].count = IF i = Len(c) THEN rest ELSE full
        /\ \A j \in 1 .. sec[c[i]].count : sec[c[i]].bytes[j] = <<f, (i - 1) * full + j>>

(* How many they are.                                                      *)
HeldBytes(c, full, rest) == IF c = <<>> THEN 0 ELSE (Len(c) - 1) * full + rest

LEMMA CountOfPath ==
    ASSUME NEW D, NEW c \in Seq(D), NEW sec, NEW f, NEW full \in Nat, NEW rest \in Nat,
           HoldsBytes(c, sec, f, full, rest)
    PROVE  CountedBytes(c, sec) = HeldBytes(c, full, rest)
<1> DEFINE m == Len(c)
           F(g) == [n \in 0 .. m |-> IF n = 0 THEN 0 ELSE g[n - 1] + sec[c[n]].count]
           sum == CHOOSE g : g = F(g)
           h == [n \in 0 .. m |-> IF n = 0 THEN 0
                                  ELSE (n - 1) * full + (IF n = m THEN rest ELSE full)]
<1>1. m \in Nat /\ \A n \in 1 .. m : sec[c[n]].count = IF n = m THEN rest ELSE full
  BY DEF HoldsBytes
<1> HIDE DEF m
<1>2. ASSUME NEW n \in 1 .. m PROVE h[n] = h[n - 1] + sec[c[n]].count
  <2>1. n - 1 \in 0 .. m /\ n \in 0 .. m /\ n # 0 /\ n - 1 # m
    BY <1>1
  <2>2. h[n] = (n - 1) * full + (IF n = m THEN rest ELSE full)
    BY <2>1
  <2>3. h[n - 1] = (n - 1) * full
    <3>1. CASE n = 1
      BY <2>1, <3>1
    <3>2. CASE n # 1
      <4>1. h[n - 1] = ((n - 1) - 1) * full + full
        BY <2>1, <3>2
      <4>2. ((n - 1) - 1) * full + full = (n - 1) * full
        BY <1>1
      <4>3. QED
        BY <4>1, <4>2
    <3>3. QED
      BY <3>1, <3>2
  <2>4. QED
    BY <1>1, <2>2, <2>3
<1>3. h[0] = 0
  BY <1>1
<1>4. h = F(h)
  <2>1. h = [n \in 0 .. m |-> h[n]]
    OBVIOUS
  <2> HIDE DEF h
  <2>2. ASSUME NEW n \in 0 .. m
        PROVE  h[n] = IF n = 0 THEN 0 ELSE h[n - 1] + sec[c[n]].count
    BY <1>1, <1>2, <1>3
  <2>3. QED
    BY <2>1, <2>2
<1>5. sum = F(sum)
  BY <1>4
<1>6. \A n \in 0 .. m : sum[n] = h[n]
  <2> DEFINE S == {n \in Nat : n \in 0 .. m => sum[n] = h[n]}
  <2> HIDE DEF sum, h
  <2>1. 0 \in S
    BY <1>3, <1>5
  <2>2. ASSUME NEW n \in Nat, n \in S PROVE n + 1 \in S
    <3>1. ASSUME n + 1 \in 0 .. m PROVE sum[n + 1] = h[n + 1]
      <4>1. n \in 0 .. m /\ n + 1 # 0 /\ (n + 1) - 1 = n /\ n + 1 \in 1 .. m
        BY <1>1, <3>1
      <4>2. sum[n + 1] = sum[n] + sec[c[n + 1]].count
        BY <1>5, <3>1, <4>1
      <4>3. QED
        BY <1>2, <2>2, <4>1, <4>2
    <3>2. QED
      BY <3>1
  <2> HIDE DEF S
  <2>3. Nat \subseteq S
    BY <2>1, <2>2, NatSetInduction
  <2>4. QED
    BY <2>3 DEF S
<1>7. CountedBytes(c, sec) = sum[m]
  BY DEF CountedBytes, m
<1>8. sum[m] = h[m] /\ m \in 0 .. m
  <2> HIDE DEF sum, h
  <2>1. QED
    BY <1>1, <1>6
<1>9. h[m] = IF m = 0 THEN 0 ELSE (m - 1) * full + rest
  BY <1>1
<1>10. c = <<>> <=> m = 0
  BY DEF m
<1> HIDE DEF sum, h
<1>11. QED
  BY <1>7, <1>8, <1>9, <1>10 DEF HeldBytes, m

(* And which they are: u bytes of a file from n on come after the first n. *)
BytesFrom(x, f, n, u) == x = [j \in 1 .. u |-> <<f, n + j>>]

LEMMA BytesLonger ==
    ASSUME NEW f, NEW n \in Nat, NEW u \in Nat, NEW x, BytesFrom(x, f, n, u)
    PROVE  Bytes(f, n) \o x = Bytes(f, n + u)
<1> DEFINE B == Bytes(f, n)
           T == {f} \X Nat
<1>1. B \in Seq(T) /\ Len(B) = n /\ \A i \in 1 .. n : B[i] = <<f, i>>
  BY DEF Bytes
<1>2. x \in Seq(T) /\ Len(x) = u /\ \A j \in 1 .. u : x[j] = <<f, n + j>>
  BY DEF BytesFrom
<1> HIDE DEF B, T
<1> DEFINE C == B \o x
<1>3. /\ C \in Seq(T) /\ Len(C) = n + u
      /\ \A i \in 1 .. n + u : C[i] = IF i <= n THEN B[i] ELSE x[i - n]
  <2>1. /\ B \o x \in Seq(T)
        /\ Len(B \o x) = Len(B) + Len(x)
        /\ \A i \in 1 .. Len(B) + Len(x) :
               (B \o x)[i] = IF i <= Len(B) THEN B[i] ELSE x[i - Len(B)]
    BY <1>1, <1>2, ConcatProperties, Zenon
  <2>2. QED
    BY <1>1, <1>2, <2>1
<1> HIDE DEF C
<1>4. ASSUME NEW i \in 1 .. n + u PROVE C[i] = <<f, i>>
  <2>1. CASE i <= n
    BY <1>1, <1>3, <2>1
  <2>2. CASE ~(i <= n)
    <3>1. C[i] = x[i - n] /\ i - n \in 1 .. u /\ n + (i - n) = i
      BY <1>3, <2>2
    <3>2. QED
      BY <1>2, <3>1
  <2>3. QED
    BY <2>1, <2>2
<1>5. C = [i \in 1 .. n + u |-> <<f, i>>]
  <2>1. C = [i \in 1 .. n + u |-> C[i]]
    BY <1>3
  <2>2. QED
    BY <1>4, <2>1
<1>6. QED
  BY <1>5 DEF Bytes, C, B

LEMMA BytesOfPath ==
    ASSUME NEW D, NEW c \in Seq(D), NEW sec, NEW f, NEW full \in Nat, NEW rest \in Nat,
           NEW X, \A s \in D : sec[s].bytes \in Seq(X) /\ sec[s].count <= Len(sec[s].bytes),
           HoldsBytes(c, sec, f, full, rest)
    PROVE  ChainBytes(c, sec) = Bytes(f, HeldBytes(c, full, rest))
<1> DEFINE m == Len(c)
           used(s) == SubSeq(sec[s].bytes, 1, sec[s].count)
           part(n) == used(c[n])
           F(g) == [n \in 0 .. m |-> IF n = 0 THEN <<>> ELSE g[n - 1] \o part(n)]
           read == CHOOSE g : g = F(g)
           size(n) == IF n = 0 THEN 0 ELSE (n - 1) * full + (IF n = m THEN rest ELSE full)
           h == [n \in 0 .. m |-> Bytes(f, size(n))]
<1>0. \A n, u \in Nat : \A x : BytesFrom(x, f, n, u) => Bytes(f, n) \o x = Bytes(f, n + u)
  BY BytesLonger
<1>1. m \in Nat /\ \A n \in 1 .. m :
            /\ c[n] \in D
            /\ sec[c[n]].count = IF n = m THEN rest ELSE full
            /\ \A j \in 1 .. sec[c[n]].count : sec[c[n]].bytes[j] = <<f, (n - 1) * full + j>>
  <2>1. m \in Nat /\ \A n \in 1 .. m : c[n] \in D
    OBVIOUS
  <2>2. QED
    BY <2>1, Zenon DEF HoldsBytes
<1>2. ASSUME NEW n \in 1 .. m
      PROVE  part(n) = [j \in 1 .. (IF n = m THEN rest ELSE full) |-> <<f, (n - 1) * full + j>>]
  <2> DEFINE b == sec[c[n]].bytes
             k == sec[c[n]].count
  <2>1. b \in Seq(X) /\ k \in Nat /\ k <= Len(b) /\ k = (IF n = m THEN rest ELSE full)
    BY <1>1
  <2>2. \A j \in 1 .. k : b[j] = <<f, (n - 1) * full + j>>
    BY <1>1
  <2>3. part(n) = SubSeq(b, 1, k)
    OBVIOUS
  <2> HIDE DEF b, k, part
  <2>4. part(n) = [j \in 1 .. k |-> b[j]]
    BY <2>1, <2>3
  <2>5. QED
    BY <2>1, <2>2, <2>4
<1> HIDE DEF m, part
<1>3. ASSUME NEW n \in 0 .. m PROVE size(n) \in Nat
  <2>1. n # 0 => n - 1 \in Nat
    BY <1>1
  <2> DEFINE a == (n - 1) * full
  <2>2. n # 0 => a \in Nat
    BY <2>1
  <2> HIDE DEF a
  <2>3. (IF n = 0 THEN 0 ELSE a + (IF n = m THEN rest ELSE full)) \in Nat
    BY <2>2
  <2>4. QED
    BY <2>3 DEF a
<1>4. ASSUME NEW n \in 1 .. m PROVE h[n] = h[n - 1] \o part(n)
  <2> DEFINE u == IF n = m THEN rest ELSE full
             a == (n - 1) * full
  <2>1. n - 1 \in 0 .. m /\ n \in 0 .. m /\ n # 0 /\ n - 1 # m
    BY <1>1
  <2>2. size(n) = a + u
    BY <2>1
  <2>3. size(n - 1) = a
    <3>1. CASE n = 1
      BY <2>1, <3>1
    <3>2. CASE n # 1
      <4>1. size(n - 1) = ((n - 1) - 1) * full + full
        BY <2>1, <3>2
      <4>2. ((n - 1) - 1) * full + full = (n - 1) * full
        BY <1>1
      <4>3. QED
        BY <4>1, <4>2
    <3>3. QED
      BY <3>1, <3>2
  <2>4. a \in Nat /\ u \in Nat
    BY <1>1
  <2>5. part(n) = [j \in 1 .. u |-> <<f, a + j>>]
    BY <1>2
  <2>6. h[n] = Bytes(f, a + u) /\ h[n - 1] = Bytes(f, a)
    BY <2>1, <2>2, <2>3
  <2> DEFINE x == part(n)
  <2> HIDE DEF u, a, x, h
  <2>7. BytesFrom(x, f, a, u)
    BY <2>5 DEF x, BytesFrom
  <2>8. Bytes(f, a) \o x = Bytes(f, a + u)
    BY <1>0, <2>4, <2>7
  <2>9. QED
    BY <2>6, <2>8 DEF x
<1>5. h[0] = <<>>
  <2>1. h[0] = Bytes(f, 0)
    BY <1>1
  <2>2. Bytes(f, 0) = <<>>
    BY DEF Bytes
  <2>3. QED
    BY <2>1, <2>2
<1>6. h = F(h)
  <2>1. h = [n \in 0 .. m |-> h[n]]
    OBVIOUS
  <2> HIDE DEF h
  <2>2. ASSUME NEW n \in 0 .. m
        PROVE  h[n] = IF n = 0 THEN <<>> ELSE h[n - 1] \o part(n)
    <3>1. n = 0 \/ n \in 1 .. m
      BY <1>1
    <3>2. CASE n = 0
      BY <1>5, <3>2
    <3>3. CASE n \in 1 .. m
      <4>1. n # 0
        BY <3>3
      <4>2. h[n] = h[n - 1] \o part(n)
        BY <1>4, <3>3
      <4>3. QED
        BY <4>1, <4>2
    <3>4. QED
      BY <3>1, <3>2, <3>3
  <2>3. QED
    BY <2>1, <2>2
<1>7. read = F(read)
  BY <1>6
<1>8. \A n \in 0 .. m : read[n] = h[n]
  <2> DEFINE S == {n \in Nat : n \in 0 .. m => read[n] = h[n]}
  <2> HIDE DEF read, h
  <2>1. 0 \in S
    BY <1>5, <1>7
  <2>2. ASSUME NEW n \in Nat, n \in S PROVE n + 1 \in S
    <3>1. ASSUME n + 1 \in 0 .. m PROVE read[n + 1] = h[n + 1]
      <4>1. n \in 0 .. m /\ n + 1 # 0 /\ (n + 1) - 1 = n /\ n + 1 \in 1 .. m
        BY <1>1, <3>1
      <4>2. read[n + 1] = read[n] \o part(n + 1)
        BY <1>7, <3>1, <4>1
      <4>3. QED
        BY <1>4, <2>2, <4>1, <4>2
    <3>2. QED
      BY <3>1
  <2> HIDE DEF S
  <2>3. Nat \subseteq S
    BY <2>1, <2>2, NatSetInduction
  <2>4. QED
    BY <2>3 DEF S
<1>9. ChainBytes(c, sec) = read[m]
  BY DEF ChainBytes, m, part
<1>10. read[m] = h[m]
  <2> HIDE DEF read, h
  <2>1. QED
    BY <1>1, <1>8
<1>11. h[m] = Bytes(f, size(m))
  BY <1>1
<1>12. size(m) = HeldBytes(c, full, rest)
  <2>1. c = <<>> <=> m = 0
    BY DEF m
  <2>2. QED
    BY <1>1, <2>1 DEF HeldBytes, m
<1> HIDE DEF read, h, size
<1>13. QED
  BY <1>9, <1>10, <1>11, <1>12

(* A chain that comes to no sector twice is not longer than the disk.      *)
LEMMA ChainLength ==
    ASSUME NEW D, IsFiniteSet(D), NEW c \in Seq(D),
           \A i, j \in 1 .. Len(c) : c[i] = c[j] => i = j
    PROVE  Len(c) <= Cardinality(D)
<1> DEFINE S == 1 .. Len(c)
           m == Len(c)
           n == Cardinality(D)
<1>1. n \in Nat /\ m \in Nat
  BY FS_CardinalityType
<1>2. IsFiniteSet(S) /\ Cardinality(S) = m
  <2>1. ASSUME NEW k \in Nat PROVE IsFiniteSet(1 .. k) /\ Cardinality(1 .. k) = k
    <3>1. /\ IsFiniteSet(1 .. k)
          /\ Cardinality(1 .. k) = IF 1 > k THEN 0 ELSE k - 1 + 1
      BY FS_Interval
    <3>2. QED
      BY <3>1
  <2>2. QED
    BY <1>1, <2>1, Zenon
<1>3. c \in [S -> D]
  OBVIOUS
<1>4. CASE m > n
  <2> HIDE DEF S, m, n
  <2>1. n < Cardinality(S)
    BY <1>1, <1>2, <1>4
  <2>2. \E x, y \in S : x # y /\ c[x] = c[y]
    BY <1>2, <1>3, <2>1, FS_PigeonHole, Zenon DEF n
  <2>3. QED
    BY <2>2 DEF S
<1>5. CASE ~(m > n)
  <2> HIDE DEF m, n
  <2>1. m <= n
    BY <1>1, <1>5
  <2>2. QED
    BY <2>1 DEF m, n
<1>6. QED
  BY <1>4, <1>5

(* The same of a disk whose sectors are numbered.                          *)
LEMMA PathLength ==
    ASSUME NEW n \in Nat, NEW c \in Seq(1 .. n),
           \A i, j \in 1 .. Len(c) : c[i] = c[j] => i = j
    PROVE  Len(c) <= n
<1> DEFINE D == 1 .. n
<1>1. IsFiniteSet(D) /\ Cardinality(D) = n
  <2>1. IsFiniteSet(D) /\ Cardinality(D) = IF 1 > n THEN 0 ELSE n - 1 + 1
    BY FS_Interval
  <2> HIDE DEF D
  <2>2. QED
    BY <2>1
<1> HIDE DEF D
<1>2. c \in Seq(D)
  BY DEF D
<1>3. QED
  BY <1>1, <1>2, ChainLength

-----------------------------------------------------------------------------
(* The bytes of a file.                                                    *)
LEMMA BytesLength == \A f : \A n \in Nat : Len(Bytes(f, n)) = n
BY DEF Bytes

LEMMA BytesWritten ==
    ASSUME NEW f \in Nat, NEW n \in Nat
    PROVE  /\ Bytes(f, n) \in Seq(Nat \X Nat) /\ Bytes(f, 0) = <<>>
           /\ Len(Bytes(f, n)) = n
           /\ SubSeq(Bytes(f, n + 1), 1, n) = Bytes(f, n)
<1> DEFINE T == Nat \X Nat
           k == n + 1
<1>1. Bytes(f, 0) = <<>>
  BY DEF Bytes
<1>2. \A m \in Nat : Bytes(f, m) \in Seq(T) /\ Len(Bytes(f, m)) = m
                     /\ \A i \in 1 .. m : Bytes(f, m)[i] = <<f, i>>
  <2>1. \A i \in Nat : <<f, i>> \in T
    OBVIOUS
  <2>2. \A m \in Nat : \A i \in 1 .. m : i \in Nat
    OBVIOUS
  <2> HIDE DEF T
  <2>3. QED
    BY <2>1, <2>2 DEF Bytes
<1>3. SubSeq(Bytes(f, k), 1, n) = Bytes(f, n)
  <2>1. k \in Nat /\ n <= k /\ Bytes(f, n) \in Seq(T) /\ Bytes(f, k) \in Seq(T)
        /\ Len(Bytes(f, n)) = n /\ Len(Bytes(f, k)) = k
    BY <1>2
  <2>2. \A i \in 1 .. n : i \in 1 .. k
    BY <2>1
  <2>3. \A i \in 1 .. n : Bytes(f, k)[i] = Bytes(f, n)[i]
    BY <1>2, <2>1, <2>2
  <2> HIDE DEF T, k
  <2>4. QED
    BY <2>1, <2>3
<1>4. QED
  BY <1>1, <1>2, <1>3

=============================================================================
